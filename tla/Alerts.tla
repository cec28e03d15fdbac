------------------------------- MODULE Alerts -------------------------------
(***************************************************************************)
(* The threshold alert of an API monitor and the outbox of its news: what  *)
(* the transaction that ends a run reads and writes (evaluateAlertState,   *)
(* updateCurrentHealth), what people do to the alert and to its policy in  *)
(* the meantime, and the loop that sends notifications.                    *)
(*                                                                         *)
(* One monitor.  Runs are numbered in the order of created_at; draft runs  *)
(* are not counted by the code and are left out.  The queue that executes  *)
(* runs is ExecutionJobs: here it leases the runs of the monitor in any    *)
(* order, one at a time (OneLeasePerMonitor) unless a run was started by   *)
(* hand, whose policy is ALLOW, and a lost lease aborts the run.           *)
(* FAILED stands for the other endings that are not a success.             *)
(* Abstracted: severities, descriptions, ids, backoff delays (a delivery   *)
(* that failed is due again at some time).                                 *)
(***************************************************************************)
EXTENDS Integers, FiniteSets

CONSTANTS
    MaxRuns,       \* runs of the monitor
    Channels,      \* notification profiles
    Failures,      \* the failure thresholds a user may save
    Recoveries,    \* the recovery thresholds
    Outcomes,      \* how an execution may end
    MaxAttempts,   \* sends of one delivery; 5 in the code
    MaxChanges,    \* clicks of users: policies, alerts and channels
    MaxStrays,     \* times that two workers come to be on the monitor
    MaxRestarts    \* restarts of the process that sends

ASSUME AlertsAssumption ==
    /\ {MaxRuns, MaxAttempts} \subseteq Nat \ {0}
    /\ {MaxChanges, MaxStrays, MaxRestarts} \subseteq Nat
    /\ Outcomes \subseteq {"SUCCESS", "SUCCESS_WITH_WARNINGS", "FAILED", "CANCELLED"}
    /\ Failures \subseteq 1..100 /\ Recoveries \subseteq 1..100

VARIABLES
    made,       \* rows of monitor_runs: the id of the latest
    run,        \* monitor_runs.status, NONE before the row exists
    leased,     \* runs whose job is leased
    late,       \* runs whose worker goes on without the lease
    save,       \* the open transaction that ends a run: what it has read
    policy,     \* monitor_alert_policies
    alert,      \* the state of the active alert, NONE without one
    spell,      \* how many alerts there have been: the id of the last one
    health,     \* monitor_current_health: last_run_id and active_alert_count
    channels,   \* the active notification profiles
    news,       \* notification_deliveries
    sender,     \* what the loop is sending
    judged,     \* history: runs evaluated since a user changed policy or alert
    changes, strays, restarts    \* counters

runVars == <<made, run, leased, late, save>>
alertVars == <<alert, spell, health>>
newsVars == <<news, sender>>
counters == <<changes, strays, restarts>>
vars == <<runVars, alertVars, newsVars, policy, channels, judged, counters>>

Runs == 1..MaxRuns
Policies == [failure : Failures, recovery : Recoveries]
Endings == {"SUCCESS", "SUCCESS_WITH_WARNINGS", "FAILED", "CANCELLED"}
Ended == Endings \cup {"ABORTED"}
None == [open |-> FALSE]
Nothing == <<>>
Deliveries == Runs \X Channels \X {"ALERT_OPENED", "ALERT_RECOVERED"}

Active == alert # "NONE"

(***************************************************************************)
(* Runs, as the queue moves them.                                          *)
(***************************************************************************)
Enqueue(r) ==
    /\ r = made + 1 /\ made' = r
    /\ run' = [run EXCEPT ![r] = "QUEUED"]
    /\ UNCHANGED <<leased, late, save, alertVars, newsVars, policy, channels, judged, counters>>

RequestCancel(r) ==
    /\ run[r] = "QUEUED"
    /\ run' = [run EXCEPT ![r] = "CANCELLED"]
    /\ UNCHANGED <<made, leased, late, save, alertVars, newsVars, policy, channels, judged, counters>>

Start(r) ==
    /\ run[r] = "QUEUED" /\ leased = {}
    /\ run' = [run EXCEPT ![r] = "RUNNING"]
    /\ leased' = {r}
    /\ UNCHANGED <<made, late, save, alertVars, newsVars, policy, channels, judged, counters>>

Stray == strays < MaxStrays /\ strays' = strays + 1 /\ UNCHANGED <<changes, restarts>>

\* A run with the policy ALLOW is claimed beside another.
StartBeside(r) ==
    /\ Stray
    /\ run[r] = "QUEUED" /\ leased # {}
    /\ run' = [run EXCEPT ![r] = "RUNNING"]
    /\ leased' = leased \cup {r}
    /\ UNCHANGED <<made, late, save, alertVars, newsVars, policy, channels, judged>>

\* The worker died and its lease is reclaimed: the run is aborted by an UPDATE
\* of its row, which evaluates nothing; an open transaction is rolled back.
ReclaimAbort(r) ==
    /\ r \in leased /\ leased' = leased \ {r}
    /\ run' = [run EXCEPT ![r] = "ABORTED"]
    /\ save' = [save EXCEPT ![r] = None]
    /\ UNCHANGED <<made, late, alertVars, newsVars, policy, channels, judged, counters>>

\* The same while the worker only strays; an open transaction would hold the row.
ReclaimStalled(r) ==
    /\ Stray
    /\ r \in leased /\ leased' = leased \ {r}
    /\ ~save[r].open
    /\ run' = [run EXCEPT ![r] = "ABORTED"]
    /\ late' = late \cup {r}
    /\ UNCHANGED <<made, save, alertVars, newsVars, policy, channels, judged>>

(***************************************************************************)
(* The end of a run.  The transaction first writes the status of its run,  *)
(* which it alone sees until it commits, then reads the policy and the     *)
(* statuses of the latest runs, whatever they are.                         *)
(***************************************************************************)
\* The latest k rows of the table: there are as many, and each is in S.  The count
\* of the code, over the rows up to the larger threshold, reaches k just then.
Latest(k) == {r \in Runs : made - k < r /\ r <= made}
LatestAre(rows, k, S) == made >= k /\ \A r \in Latest(k) : rows[r] \in S

NotSuccess == (Ended \ {"SUCCESS"}) \cup {"QUEUED", "RUNNING"}
EvaluationOf(rows, status) ==
    [open |-> TRUE, status |-> status, policy |-> policy,
     raises |-> status # "SUCCESS" /\ LatestAre(rows, policy.failure, NotSuccess),
     recovers |-> status = "SUCCESS" /\ LatestAre(rows, policy.recovery, {"SUCCESS"})]
\* Mutant: the statuses are read before that of the run is written.
EvaluationOfOthers(r, status) == EvaluationOf(run, status)
Evaluation(r, status) == EvaluationOf([run EXCEPT ![r] = status], status)

Evaluate(r, status) ==
    /\ r \in leased \cup late
    /\ ~save[r].open
    /\ save' = [save EXCEPT ![r] = Evaluation(r, status)]
    /\ UNCHANGED <<made, run, leased, late, alertVars, newsVars, policy, channels, judged, counters>>

\* Mutant: the insert conflicts with every alert of the monitor.
NextAlertOnce(s) ==
    IF s.raises THEN IF Active \/ spell > 0 THEN alert ELSE "OPEN"
    ELSE IF s.recovers THEN "NONE" ELSE alert
\* The insert conflicts with an active alert only, which keeps its state.
NextAlert(s) ==
    IF s.raises THEN IF Active THEN alert ELSE "OPEN"
    ELSE IF s.recovers THEN "NONE" ELSE alert

\* notifications.Enqueue: a row for each active channel that has none yet.
Told(r, a, event) ==
    [d \in DOMAIN news \cup ({a} \X channels \X {event}) |->
        IF d \in DOMAIN news THEN news[d]
        ELSE [status |-> "PENDING", attempts |-> 0, created |-> r]]

Commit(r) ==
    LET s == save[r] IN
    /\ s.open
    /\ run' = [run EXCEPT ![r] = s.status]
    /\ save' = [save EXCEPT ![r] = None]
    /\ leased' = leased \ {r}
    /\ late' = late \ {r}
    /\ alert' = NextAlert(s)
    /\ spell' = IF alert' = "OPEN" /\ ~Active THEN spell + 1 ELSE spell
    /\ health' = [run |-> r, alerts |-> IF alert' = "NONE" THEN 0 ELSE 1]
    /\ news' = IF s.raises /\ alert' # "NONE" THEN Told(r, spell', "ALERT_OPENED")
               ELSE IF s.recovers /\ Active THEN Told(r, spell, "ALERT_RECOVERED")
               ELSE news
    /\ judged' = IF s.policy = policy THEN judged \cup {r} ELSE judged
    /\ UNCHANGED <<made, sender, policy, channels, counters>>

(***************************************************************************)
(* Users.                                                                  *)
(***************************************************************************)
Click == changes < MaxChanges /\ changes' = changes + 1 /\ UNCHANGED <<strays, restarts>>

SavePolicy(p) ==
    /\ Click
    /\ policy' = p /\ p # policy
    /\ judged' = {}
    /\ UNCHANGED <<runVars, alertVars, newsVars, channels>>

Acknowledge ==
    /\ Click
    /\ alert = "OPEN" /\ alert' = "ACKNOWLEDGED"
    /\ UNCHANGED <<runVars, spell, health, newsVars, policy, channels, judged>>

\* The health row is not written, and nobody is told.
Resolve ==
    /\ Click
    /\ Active /\ alert' = "NONE"
    /\ judged' = {}
    /\ UNCHANGED <<runVars, spell, health, newsVars, policy, channels>>

SwitchChannel(c) ==
    /\ Click
    /\ channels' = IF c \in channels THEN channels \ {c} ELSE channels \cup {c}
    /\ UNCHANGED <<runVars, alertVars, newsVars, policy, judged>>

(***************************************************************************)
(* The loop that sends.                                                    *)
(***************************************************************************)
Pending(d) == news[d].status = "PENDING" /\ d[2] \in channels

\* ORDER BY created_at among what is due; what was never tried is due.
First(d) ==
    \A e \in DOMAIN news :
        Pending(e) /\ news[e].attempts = 0 => news[e].created >= news[d].created

Claim(d) ==
    /\ sender = Nothing
    /\ Pending(d) /\ First(d)
    /\ sender' = d
    /\ news' = [news EXCEPT ![d].status = "SENDING"]
    /\ UNCHANGED <<runVars, alertVars, policy, channels, judged, counters>>

Sent ==
    /\ sender # Nothing
    /\ news' = [news EXCEPT ![sender].status = "SENT"]
    /\ sender' = Nothing
    /\ UNCHANGED <<runVars, alertVars, policy, channels, judged, counters>>

\* Mutant: the attempt is counted and the row stays claimed.
RefusedKeepingClaim(d) ==
    LET n == news[d].attempts + 1
    IN  news' = [news EXCEPT ![d] = [@ EXCEPT !.attempts = n,
                    !.status = IF n >= MaxAttempts THEN "FAILED" ELSE "SENDING"]]
Refused(d) ==
    LET n == news[d].attempts + 1
    IN  news' = [news EXCEPT ![d] = [@ EXCEPT !.attempts = n,
                    !.status = IF n >= MaxAttempts THEN "FAILED" ELSE "PENDING"]]

NotSent ==
    /\ sender # Nothing
    /\ Refused(sender)
    /\ sender' = Nothing
    /\ UNCHANGED <<runVars, alertVars, policy, channels, judged, counters>>

\* Nothing looks for rows that are SENDING.
Restart ==
    /\ restarts < MaxRestarts /\ restarts' = restarts + 1
    /\ sender # Nothing /\ sender' = Nothing
    /\ UNCHANGED <<runVars, alertVars, news, policy, channels, judged, changes, strays>>

-----------------------------------------------------------------------------
Init ==
    /\ made = 0
    /\ run = [r \in Runs |-> "NONE"]
    /\ leased = {} /\ late = {}
    /\ save = [r \in Runs |-> None]
    /\ policy \in Policies
    /\ alert = "NONE" /\ spell = 0
    /\ health = [run |-> 0, alerts |-> 0]
    /\ channels = Channels
    /\ news = <<>>
    /\ sender = Nothing
    /\ judged = {}
    /\ changes = 0 /\ strays = 0 /\ restarts = 0

RunStep(r) ==
    \/ Enqueue(r) \/ RequestCancel(r) \/ Start(r) \/ StartBeside(r)
    \/ ReclaimAbort(r) \/ ReclaimStalled(r)
    \/ \E status \in Outcomes : Evaluate(r, status)
    \/ Commit(r)
Users ==
    \/ \E p \in Policies : SavePolicy(p)
    \/ Acknowledge \/ Resolve
    \/ \E c \in Channels : SwitchChannel(c)
Answer == Sent \/ NotSent
Next ==
    \/ \E r \in Runs : RunStep(r)
    \/ Users
    \/ \E d \in DOMAIN news : Claim(d)
    \/ Answer \/ Restart

Spec == Init /\ [][Next]_vars
\* The loop ticks every three seconds, and a send ends by an answer or a timeout.
FairSpec == Spec /\ WF_vars(\E d \in DOMAIN news : Claim(d)) /\ WF_vars(Answer)

-----------------------------------------------------------------------------
TypeOK ==
    /\ made \in 0..MaxRuns
    /\ run \in [Runs -> Ended \cup {"NONE", "QUEUED", "RUNNING"}]
    /\ leased \subseteq Runs /\ late \subseteq Runs /\ judged \subseteq Runs
    /\ \A r \in Runs : save[r] = None \/ save[r].status \in Endings
    /\ policy \in Policies /\ channels \subseteq Channels
    /\ alert \in {"NONE", "OPEN", "ACKNOWLEDGED"} /\ spell \in 0..MaxRuns
    /\ health \in [run : 0..MaxRuns, alerts : {0, 1}]
    /\ DOMAIN news \subseteq Deliveries /\ sender \in Deliveries \cup {Nothing}
    /\ \A d \in DOMAIN news :
           news[d] \in [status : {"PENDING", "SENDING", "SENT", "FAILED"},
                        attempts : 0..MaxAttempts, created : Runs]

\* No two runs of the monitor were executed at once.
OneSaveAtATime == strays = 0

\* A monitor whose latest runs failed as often as its policy says has an alert,
\* in whatever order the runs ended and whatever users did while a run ended;
\* unless no run ended since a user resolved the alert or changed the policy, or
\* two runs were executed at once (evaluateAlertState, called by the save of every
\* run that ends).
FailingHasAlert ==
    OneSaveAtATime /\ LatestAre(run, policy.failure, {"FAILED"}) /\ Latest(policy.failure) \cap judged # {}
        => Active

\* A monitor whose latest runs succeeded as often as its policy says has none,
\* with the same exceptions.  Two transactions at a time each take the run of the
\* other for a failure: the lease of the monitor is what keeps them apart.
RecoveredHasNoAlert ==
    OneSaveAtATime /\ LatestAre(run, policy.recovery, {"SUCCESS"}) /\ Latest(policy.recovery) \cap judged # {}
        => ~Active

\* News for a channel that stays active is sent, or given up after the last
\* attempt, or was being sent when the process restarted.
Waits(d) == d \in DOMAIN news /\ news[d].status \in {"PENDING", "SENDING"}
NewsEnds ==
    \A d \in Deliveries :
        Waits(d) ~> \/ ~Waits(d)
                    \/ news[d].status = "PENDING" /\ d[2] \notin channels
                    \/ news[d].status = "SENDING" /\ restarts > 0

\* An alert is opened when at least as many runs as the policy says have ended and
\* did not succeed.  The code counts the runs that have not ended, too.
OpensAtThreshold ==
    [][\A r \in Runs :
          save[r].open /\ run'[r] = save[r].status /\ spell' > spell =>
              Cardinality({q \in Runs : run'[q] \in Ended \ {"SUCCESS"}}) >= save[r].policy.failure]_vars

\* The health of a monitor is that of the latest run that ended: the code
\* writes that of the run that ended last.
HealthIsLatest == \A r \in Runs : run[r] \in {"SUCCESS", "FAILED"} => r <= health.run

\* The health row counts the active alerts: resolving one does not write it.
HealthCountsAlerts == health.alerts = IF Active THEN 1 ELSE 0
=============================================================================
