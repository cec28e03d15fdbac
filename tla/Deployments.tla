---------------------------- MODULE Deployments -----------------------------
(***************************************************************************)
(* One deployment validation: its job on the queue (internal/suites,       *)
(* queue.go), the evidence an executor collects phase after phase          *)
(* (processDeployment) and the gate decision computed from it.             *)
(*                                                                         *)
(* The executor keeps the run in memory and saves all of it after every    *)
(* change, over whatever a cancellation or the reaper wrote meanwhile.     *)
(* Abstracted: latencies (a distribution counts its runs), names, the      *)
(* order in which the workers take monitors, progress counters, and the    *)
(* messages of reasons and warnings (the check they are about remains).    *)
(***************************************************************************)
EXTENDS Naturals, Sequences, FiniteSets, SequencesExt

CONSTANTS
    Checks,          \* the checks suites are made of
    Suites,          \* the sets of checks a deployment may be validated with
    Kind,            \* kind of a check
    Required,        \* the required ones
    SampleCount,     \* configuration.sampleCount, browserSampleCount
    MinimumSamples,  \* configuration.minimumSamples
    RunOutcomes,     \* statuses a run behind a sample may end with
    MaxFaults        \* bound: crashes, shutdowns and stalls of the executor

Good == {"SUCCESS", "SUCCESS_WITH_WARNINGS"}
FailedRun == {"FAILED", "TIMED_OUT", "ABORTED"}

ASSUME DeploymentAssumption ==
    /\ Suites \subseteq SUBSET Checks /\ \A s \in Suites : IsFiniteSet(s)
    /\ Kind \in [Checks -> {"MONITOR", "BROWSER_MONITOR", "DYNATRACE", "ELF", "ALERT"}]
    /\ Required \subseteq Checks
    /\ RunOutcomes \subseteq Good \cup FailedRun \cup {"CANCELLED"}
    /\ SampleCount \in Nat \ {0} /\ MinimumSamples \in Nat /\ MaxFaults \in Nat

VARIABLES
    row,       \* deployment_validation_runs: status, phase, gate, report
    job,       \* execution_jobs.status
    cancel,    \* execution_jobs.cancel_requested_at
    expired,   \* lease_expires_at is in the past
    pc,        \* where processDeployment is
    stop,      \* why its context was cancelled
    suite,     \* the checks of run.SuiteSnapshot
    faults

deploymentVars == <<row, job, cancel, expired, pc, stop, suite, faults>>

\* Only the executor writes the report, and it saves every change: what it
\* has in memory is what the row has.
work == row.report

OfKind(kinds) == {c \in suite : Kind[c] \in kinds}
Sampled == OfKind({"MONITOR", "BROWSER_MONITOR"})
Terminal == {"COMPLETED", "FAILED", "CANCELLED"}

\* The phases in which an executor works, in order.
Phases == <<"CAPTURING_BASELINE", "SAMPLING_MONITORS", "SAMPLING_BROWSER_MONITORS",
            "WAITING_FOR_STABILIZATION", "RUNNING_DYNATRACE", "RUNNING_ELF",
            "CHECKING_ALERTS", "ANALYZING">>
PhaseOf ==
    [kind \in {"MONITOR", "BROWSER_MONITOR", "DYNATRACE", "ELF", "ALERT"} |->
        CASE kind = "MONITOR" -> "SAMPLING_MONITORS"
          [] kind = "BROWSER_MONITOR" -> "SAMPLING_BROWSER_MONITORS"
          [] kind = "DYNATRACE" -> "RUNNING_DYNATRACE"
          [] kind = "ELF" -> "RUNNING_ELF"
          [] OTHER -> "CHECKING_ALERTS"]
-----------------------------------------------------------------------------
(* Evidence.                                                               *)


\* A sample as it is saved, with the status of the run behind it: the run was
\* never started, or waiting for it failed, or it ended; the published
\* revision may have changed under it.
Samples ==
    {[status |-> "FAILED", run |-> "none"], [status |-> "FAILED", run |-> "RUNNING"]}
        \cup [status : {"FAILED"}, run : RunOutcomes]
        \cup {[status |-> s, run |-> s] : s \in RunOutcomes}
Interrupted == {s \in Samples : s.status = "FAILED" /\ s.run \in {"none", "RUNNING"}}

NoPost == [completed |-> 0, measured |-> 0, failed |-> 0]

\* Counts over the runs behind the samples, not over the samples.
Summarize(samples) ==
    LET Count(set) == Len(SelectSeq(samples, LAMBDA s : s.run \in set))
    IN  [completed |-> Count(Good \cup FailedRun), measured |-> Count(Good),
         failed |-> Count(FailedRun)]

\* Verdicts classify may give, whatever the latencies are.
Classify(kind, enoughBaseline, post) ==
    IF enoughBaseline /\ post.measured >= (IF kind = "MONITOR" THEN MinimumSamples ELSE 10)
    THEN {"REGRESSED", "IMPROVED", "NORMAL"}
    ELSE {"INSUFFICIENT_HISTORY"}

\* What is known of a check before anything ran, and one whose result is in.
Blank ==
    [listed |-> FALSE, samples |-> <<>>, baseline |-> FALSE, post |-> NoPost, class |-> "", steps |-> {},
     status |-> "", decision |-> "", required |-> FALSE, frozen |-> FALSE]
Initial(c) ==
    [Blank EXCEPT !.required = c \in Required,
                  !.status = IF Kind[c] = "DYNATRACE" THEN "PENDING" ELSE "",
                  !.decision = IF Kind[c] = "DYNATRACE" THEN "PENDING" ELSE ""]
\* As the report lists it after the baseline.
Listed(c) == [Initial(c) EXCEPT !.listed = Kind[c] \notin {"ELF", "ALERT"}]

\* The baseline of a check: enough of it or not; a Dynatrace configuration
\* that changed since the run was queued is never queried, and one whose
\* baseline query failed keeps that status until the post query.
Baselines(c) ==
    IF Kind[c] = "DYNATRACE"
    THEN {[Listed(c) EXCEPT !.status = "ERROR", !.decision = "ALLOW_WITH_WARNINGS",
                             !.required = r, !.frozen = TRUE] : r \in {FALSE, (c \in Required)}}
            \cup {[Listed(c) EXCEPT !.status = "ERROR"], Listed(c)}
    ELSE IF c \in Sampled THEN {[Listed(c) EXCEPT !.baseline = enough] : enough \in BOOLEAN}
    ELSE {Listed(c)}

\* The result of one Dynatrace, ELF or alert check.
DynatraceResults ==
    [status : {""}, decision : {""}] \cup [status : {"PASS"}, decision : {"ALLOW"}]
        \cup [status : {"ERROR"}, decision : {"BLOCK", "ALLOW_WITH_WARNINGS"}]
        \cup [status : {"FAIL"}, decision : {"BLOCK"}]
        \cup [status : {"WARNING"}, decision : {"ALLOW_WITH_WARNINGS"}]
Result(c, status) == [work[c] EXCEPT !.status = status, !.frozen = TRUE, !.listed = TRUE]
Results(c) ==
    CASE Kind[c] = "DYNATRACE" -> {[Result(c, r.status) EXCEPT !.decision = r.decision] : r \in DynatraceResults}
      [] Kind[c] = "ELF" ->
            {Result(c, "FAILED")}
                \cup {[Result(c, s) EXCEPT !.required = r] : s \in {"SUCCESS", "FAILED"}, r \in BOOLEAN}
      [] OTHER -> {Result(c, s) : s \in {"SUCCESS", "FAILED"}}

\* A monitor after sampling: its distribution, its class, the steps that
\* regressed or failed.
Summarized(c, class, steps) ==
    [work[c] EXCEPT !.post = Summarize(work[c].samples), !.class = class, !.steps = steps]
Summaries(c) ==
    LET post == Summarize(work[c].samples)
    IN  {Summarized(c, k, s) :
            k \in Classify(Kind[c], work[c].baseline, post),
            s \in IF Kind[c] = "MONITOR" /\ post.measured > 0 THEN SUBSET {"REGRESSED"} ELSE {{}}}
-----------------------------------------------------------------------------
(* The gate: deploymentDecisionWithBrowser.                                *)

Failing(c, e) ==
    IF c \in Sampled
    THEN e.post.failed > 0 \/ e.class = "REGRESSED" \/ "REGRESSED" \in e.steps
    ELSE e.status # (IF Kind[c] = "DYNATRACE" THEN "PASS" ELSE "SUCCESS")
Blocks(c, e) ==
    /\ Failing(c, e)
    /\ IF Kind[c] = "DYNATRACE"
       THEN e.decision = "BLOCK" \/ (e.required /\ e.status \in {"ERROR", "NO_DATA", "FAIL"})
       ELSE e.required
Reasons(report) == {c \in DOMAIN report : Blocks(c, report[c])}
Warnings(report) ==
    {c \in DOMAIN report : report[c].class = "INSUFFICIENT_HISTORY"}
        \cup {c \in DOMAIN report : Failing(c, report[c]) /\ ~Blocks(c, report[c])}
Decision(report) ==
    IF Reasons(report) # {} THEN "BLOCK"
    ELSE IF Warnings(report) # {} THEN "ALLOW_WITH_WARNINGS"
    ELSE "ALLOW"
-----------------------------------------------------------------------------
(* The executor.  Save writes the row unconditionally.                     *)

Row(status, phase, gate, report) ==
    [status |-> status, phase |-> phase, gate |-> gate, report |-> report,
     recommended |-> status \in Terminal,
     reasons |-> IF status = "COMPLETED" THEN Reasons(report) ELSE {},
     warnings |-> IF status = "COMPLETED" THEN Warnings(report) ELSE {}]

EmptyReport == [c \in suite |-> Initial(c)]

Save(status, phase, gate, report) ==
    row' = Row(status, phase, gate, report)

Interrupt == stop # "no"

\* UPDATE ... SET status='LEASED' WHERE status='QUEUED' AND no cancellation.
Claim ==
    /\ pc = "none" /\ job = "QUEUED" /\ ~cancel
    /\ job' = "LEASED" /\ expired' = FALSE /\ stop' = "no"
    /\ pc' = "claimed"
    /\ UNCHANGED <<row, cancel, suite, faults>>

\* The first save, over whatever the row says since it was read.
Start ==
    /\ pc = "claimed" /\ pc' = Phases[1]
    /\ Save("RUNNING", Phases[1], "PENDING", EmptyReport)
    /\ UNCHANGED <<job, cancel, expired, stop, suite, faults>>

\* failed: the metrics or a monitor could not be read.
FailDeployment ==
    /\ pc = "CAPTURING_BASELINE"
    /\ pc' = "finished"
    /\ Save("FAILED", "FAILED", "BLOCK", work)
    /\ UNCHANGED <<job, cancel, expired, stop, suite, faults>>

\* The next phase that has something to do, saved as the executor enters it.
Skipped(phase) ==
    \/ phase = "SAMPLING_BROWSER_MONITORS" /\ OfKind({"BROWSER_MONITOR"}) = {}
    \/ phase \in {"WAITING_FOR_STABILIZATION", "RUNNING_DYNATRACE"} /\ OfKind({"DYNATRACE"}) = {}
NextPhase ==
    LET Position(phase) == CHOOSE n \in 1..Len(Phases) : Phases[n] = phase
        later == {n \in 1..Len(Phases) : n > Position(pc) /\ ~Skipped(Phases[n])}
    IN  Phases[Min(later)]
Proceed(report) ==
    /\ pc' = NextPhase
    /\ Save("RUNNING", NextPhase, "PENDING", report)
\* Mutant: cancelling drops what was collected.
FinishCancelledEmpty(report) ==
    /\ pc' = "finished"
    /\ Save("CANCELLED", "CANCELLED", "BLOCK", EmptyReport)
\* The context was cancelled: what was collected is saved, and the gate blocks.
FinishCancelled(report) ==
    /\ pc' = "finished"
    /\ Save("CANCELLED", "CANCELLED", "BLOCK", report)

Leave(report) ==
    /\ IF Interrupt THEN FinishCancelled(report) ELSE Proceed(report)
    /\ UNCHANGED <<job, cancel, expired, stop, suite, faults>>

CaptureBaseline ==
    /\ pc = "CAPTURING_BASELINE"
    /\ \E report \in [suite -> UNION {Baselines(c) : c \in suite}] :
        /\ \A c \in suite : report[c] \in Baselines(c)
        /\ Leave(report)

\* A worker takes the next sample of a monitor; an interrupted one is saved as
\* failed and the worker returns.
TakeSample(c) ==
    /\ c \in Sampled /\ pc = PhaseOf[Kind[c]]
    /\ Len(work[c].samples) < SampleCount
    /\ \E s \in IF Interrupt THEN Interrupted ELSE Samples :
        LET report == [work EXCEPT ![c].samples = Append(@, s)]
        IN  IF Interrupt THEN FinishCancelled(report)
            ELSE Save("RUNNING", pc, "PENDING", report) /\ UNCHANGED pc
    /\ UNCHANGED <<job, cancel, expired, stop, suite, faults>>

\* group.Wait, then the distributions are summarised from the runs.
EndSampling ==
    /\ pc \in {"SAMPLING_MONITORS", "SAMPLING_BROWSER_MONITORS"}
    /\ LET mine == {c \in Sampled : PhaseOf[Kind[c]] = pc}
       IN  IF Interrupt
           THEN Leave(work)
           ELSE /\ \A c \in mine : Len(work[c].samples) = SampleCount
                /\ \E s \in [mine -> UNION {Summaries(c) : c \in mine}] :
                    /\ \A c \in mine : s[c] \in Summaries(c)
                    /\ Leave([c \in suite |-> IF c \in mine THEN s[c] ELSE work[c]])

\* One Dynatrace, ELF or alert check.  Only the last two look at the context
\* after each result.
RunCheck(c) ==
    /\ c \notin Sampled /\ pc = PhaseOf[Kind[c]] /\ ~work[c].frozen
    /\ \E result \in Results(c) :
        LET report == [work EXCEPT ![c] = result]
        IN  IF Interrupt /\ Kind[c] # "DYNATRACE"
            THEN FinishCancelled(report)
            ELSE Save("RUNNING", pc, "PENDING", report) /\ UNCHANGED pc
    /\ UNCHANGED <<job, cancel, expired, stop, suite, faults>>

\* The end of a phase, without a look at the context.
EndChecks ==
    /\ pc \in {"RUNNING_DYNATRACE", "RUNNING_ELF", "CHECKING_ALERTS"}
    /\ \A c \in suite \ Sampled : PhaseOf[Kind[c]] = pc => work[c].frozen
    /\ Proceed(work)
    /\ UNCHANGED <<job, cancel, expired, stop, suite, faults>>

\* The stabilisation window: the context is looked at only while there is time
\* left to wait.
EndWait ==
    /\ pc = "WAITING_FOR_STABILIZATION"
    /\ \/ Proceed(work)
       \/ Interrupt /\ FinishCancelled(work)
    /\ UNCHANGED <<job, cancel, expired, stop, suite, faults>>

Decide ==
    /\ pc = "ANALYZING"
    /\ pc' = "finished"
    /\ Save("COMPLETED", "COMPLETED", Decision(work), work)
    /\ UNCHANGED <<job, cancel, expired, stop, suite, faults>>

\* completeDeploymentJob, WHERE lease_owner is this executor, unless the
\* process is shutting down.
CompleteJob ==
    /\ pc = "finished" /\ pc' = "none"
    /\ job' = IF job = "LEASED" /\ stop # "shutdown"
              THEN IF stop = "cancel" THEN "CANCELLED" ELSE "SUCCEEDED"
              ELSE job
    /\ UNCHANGED <<row, cancel, expired, stop, suite, faults>>

\* A tick of watchDeploymentJob.
Watch ==
    /\ pc \notin {"none", "finished"}
    /\ IF job # "LEASED" THEN stop' = "lost" /\ UNCHANGED expired
       ELSE /\ expired' = FALSE
            /\ stop' = IF cancel THEN "cancel" ELSE stop
    /\ UNCHANGED <<row, job, cancel, pc, suite, faults>>
-----------------------------------------------------------------------------
(* Users and the reaper.                                                   *)

\* Mutant: a queued run is cancelled without a decision.
CancelDeploymentUndecided ==
    /\ row.status \notin Terminal
    /\ row' = IF row.status = "QUEUED"
              THEN [row EXCEPT !.status = "CANCELLED", !.phase = "CANCELLED"]
              ELSE [row EXCEPT !.status = "CANCELLING", !.phase = "CANCELLING"]
    /\ cancel' = (cancel \/ job \in {"QUEUED", "LEASED"})
    /\ job' = IF job = "QUEUED" THEN "CANCELLED" ELSE job
    /\ UNCHANGED <<expired, pc, stop, suite, faults>>

\* cancelQueuedDeployment, one transaction.
CancelDeployment ==
    /\ row.status \notin Terminal
    /\ row' = IF row.status = "QUEUED"
              THEN [row EXCEPT !.status = "CANCELLED", !.phase = "CANCELLED", !.gate = "BLOCK"]
              ELSE [row EXCEPT !.status = "CANCELLING", !.phase = "CANCELLING"]
    /\ cancel' = (cancel \/ job \in {"QUEUED", "LEASED"})
    /\ job' = IF job = "QUEUED" THEN "CANCELLED" ELSE job
    /\ UNCHANGED <<expired, pc, stop, suite, faults>>

\* reapExpiredDeploymentJobs, one transaction.
Reap ==
    /\ job = "LEASED" /\ expired
    /\ job' = "FAILED" /\ expired' = FALSE
    /\ row' = IF row.status \in Terminal THEN row
              ELSE [row EXCEPT !.status = "FAILED", !.phase = "FAILED", !.gate = "BLOCK"]
    /\ UNCHANGED <<cancel, pc, stop, suite, faults>>
\* The lease of an executor that is gone runs out.
Expire ==
    /\ job = "LEASED" /\ pc = "none" /\ ~expired
    /\ expired' = TRUE
    /\ UNCHANGED <<row, job, cancel, pc, stop, suite, faults>>

\* Faults: the executor dies, is told to stop, or stalls past its lease.
Crash ==
    /\ pc # "none" /\ pc' = "none"
    /\ UNCHANGED <<row, job, cancel, expired, stop, suite>>
Shutdown ==
    /\ pc \notin {"none", "finished"} /\ stop = "no" /\ stop' = "shutdown"
    /\ UNCHANGED <<row, job, cancel, expired, pc, suite>>
Stall ==
    /\ pc # "none" /\ job = "LEASED" /\ ~expired /\ expired' = TRUE
    /\ UNCHANGED <<row, job, cancel, pc, stop, suite>>
Fault ==
    /\ faults < MaxFaults /\ faults' = faults + 1
    /\ (Crash \/ Shutdown \/ Stall)
-----------------------------------------------------------------------------
DeploymentInit ==
    /\ suite \in Suites
    /\ row = Row("QUEUED", "QUEUED", "PENDING", EmptyReport)
    /\ job = "QUEUED" /\ cancel = FALSE /\ expired = FALSE
    /\ pc = "none" /\ stop = "no" /\ faults = 0

Execute ==
    \/ Start \/ FailDeployment \/ CaptureBaseline \/ EndSampling \/ EndChecks \/ EndWait
    \/ Decide \/ CompleteJob
    \/ \E c \in suite : TakeSample(c) \/ RunCheck(c)
DeploymentNext ==
    \/ Claim \/ Execute \/ Watch \/ CancelDeployment \/ Reap \/ Expire \/ Fault

-----------------------------------------------------------------------------
(* The job of the validation, as a job of the durable queue: it is never   *)
(* put back, and does not wait for others.                                 *)
Never(k) == FALSE
\* A job that was cancelled on the queue left a run nobody has concluded.
WasStarted == ~(job = "QUEUED" \/ (job = "CANCELLED" /\ ~row.recommended))
Queue == INSTANCE LeasedQueue WITH
    Jobs <- {"validation"},
    Replayable <- Never,
    Exclusive <- Never,
    Skippable <- Never,
    state <- [j \in {"validation"} |-> job],
    kind <- [j \in {"validation"} |-> "DEPLOYMENT_VALIDATION"],
    group <- [j \in {"validation"} |-> "none"],
    starts <- [j \in {"validation"} |-> IF WasStarted THEN 1 ELSE 0]

\* The executor, its zombies, the reaper and the users move the job as the queue
\* promises: it is started at most once, and comes to one outcome.
JobIsLeasedOnce == Queue!Spec
=============================================================================
