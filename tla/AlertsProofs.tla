---------------------------- MODULE AlertsProofs ----------------------------
(***************************************************************************)
(* That the alert of a monitor follows its runs, for every number of runs, *)
(* thresholds, channels and clicks: FailingHasAlert and                    *)
(* RecoveredHasNoAlert are invariants of Alerts.                           *)
(*                                                                         *)
(* A run that ends is evaluated before it is committed.  The argument is   *)
(* that what was read stays good until then: while one is executed, others *)
(* are only enqueued and cancelled, which can take the occasion of an      *)
(* alert or of a recovery away, and never make one.                        *)
(***************************************************************************)
EXTENDS Alerts, TLAPS

Typed ==
    /\ made \in 0..MaxRuns
    /\ run \in [Runs -> Ended \cup {"NONE", "QUEUED", "RUNNING"}]
    /\ \A r \in Runs : r > made => run[r] = "NONE"
    /\ leased \subseteq 1..made /\ late \subseteq 1..made
    /\ save = [r \in Runs |-> save[r]]
    /\ \A r \in Runs : save[r].open => save[r].policy \in Policies /\ save[r].status \in Outcomes
    /\ policy \in Policies
    /\ alert \in {"NONE", "OPEN", "ACKNOWLEDGED"}
    /\ judged \subseteq Runs
    /\ strays \in Nat

\* A transaction is open for a run that is leased, or for a late one; without
\* strays there is only one such run.
Held ==
    /\ \A r \in leased : run[r] = "RUNNING"
    /\ \A r \in late : run[r] = "ABORTED"
    /\ strays = 0 => late = {} /\ \A q, r \in leased : q = r
    /\ \A r \in Runs : save[r].open => r \in leased \cup late

\* But for the run itself the latest k have ended as s.
OthersAre(r, k, s) == made >= k /\ \A q \in Latest(k) : q = r \/ run[q] = s

\* What an open transaction has read is not outdated in a way that matters.
Current(r) ==
    /\ save[r].status # "SUCCESS" /\ OthersAre(r, save[r].policy.failure, "FAILED") => save[r].raises
    /\ save[r].status = "SUCCESS" /\ OthersAre(r, save[r].policy.recovery, "SUCCESS") => save[r].recovers
    /\ save[r].raises => save[r].status # "SUCCESS" /\ (made = r \/ run[made] # "SUCCESS")
    /\ save[r].recovers => save[r].status = "SUCCESS" /\ (made = r \/ run[made] # "FAILED")
    /\ save[r].policy # policy => judged = {}

IInv ==
    /\ Typed /\ Held
    /\ OneSaveAtATime =>
        /\ \A r \in Runs : save[r].open => Current(r)
        /\ FailingHasAlert /\ RecoveredHasNoAlert

LEMMA Thresholds ==
    ASSUME NEW p \in Policies
    PROVE  p.failure \in Nat \ {0} /\ p.recovery \in Nat \ {0}
<1>1. p.failure \in 1..100 /\ p.recovery \in 1..100
  BY AlertsAssumption DEF AlertsAssumption, Policies
<1> QED
  BY <1>1

LEMMA InitInv == Init => IInv
<1> SUFFICES ASSUME Init PROVE IInv
  OBVIOUS
<1>1. Typed
  BY AlertsAssumption DEF AlertsAssumption, Init, Typed, None, Runs, Ended, Endings
<1>2. Held
  BY DEF Init, Held, None
<1>3. \A r \in Runs : ~save[r].open
  BY DEF Init, None
<1>4. judged = {}
  BY DEF Init
<1> QED
  BY <1>1, <1>2, <1>3, <1>4 DEF IInv, FailingHasAlert, RecoveredHasNoAlert

\* Steps that leave the runs alone, and the alert active or not as it was.
LEMMA RunsAlone ==
    ASSUME IInv, UNCHANGED <<runVars, policy, judged, strays>>,
           alert' \in {"NONE", "OPEN", "ACKNOWLEDGED"}, Active' <=> Active
    PROVE  IInv'
<1> USE DEF runVars
<1>1. Typed' /\ Held'
  BY DEF IInv, Typed, Held, Runs
<1>2. ASSUME OneSaveAtATime', NEW r \in Runs, save'[r].open PROVE Current(r)'
  BY <1>2 DEF IInv, OneSaveAtATime, Current, OthersAre, Latest, Runs
<1>3. OneSaveAtATime' => FailingHasAlert' /\ RecoveredHasNoAlert'
  BY DEF IInv, OneSaveAtATime, FailingHasAlert, RecoveredHasNoAlert, LatestAre, Latest, Runs
<1> QED
  BY <1>1, <1>2, <1>3 DEF IInv

\* A user who changes the policy or resolves the alert starts anew.
LEMMA StartsAnew ==
    ASSUME IInv, UNCHANGED <<runVars, strays>>, judged' = {}, policy' \in Policies,
           alert' \in {"NONE", "OPEN", "ACKNOWLEDGED"}
    PROVE  IInv'
<1> USE DEF runVars
<1>1. Typed' /\ Held'
  BY DEF IInv, Typed, Held, Runs
<1>2. ASSUME OneSaveAtATime', NEW r \in Runs, save'[r].open PROVE Current(r)'
  BY <1>2 DEF IInv, OneSaveAtATime, Current, OthersAre, Latest, Runs
<1>3. FailingHasAlert' /\ RecoveredHasNoAlert'
  BY DEF FailingHasAlert, RecoveredHasNoAlert
<1> QED
  BY <1>1, <1>2, <1>3 DEF IInv

\* A row that is added has not ended: neither streak is one of k any more.
LEMMA Enqueued == ASSUME IInv, NEW r \in Runs, Enqueue(r) PROVE IInv'
<1> USE DEF Enqueue, alertVars, newsVars, counters
<1>1. Typed' /\ Held'
  BY DEF IInv, Typed, Held, Runs
<1>2. \A p \in Policies : r \in Latest(p.failure)' /\ r \in Latest(p.recovery)'
  BY Thresholds DEF IInv, Typed, Latest, Runs
<1>3. run'[r] = "QUEUED" /\ made' = r
  BY DEF IInv, Typed
<1>4. ASSUME OneSaveAtATime', NEW q \in Runs, save'[q].open PROVE Current(q)'
  <2>1. q # r /\ save[q].policy \in Policies /\ Current(q)
    BY <1>4 DEF IInv, Typed, Held, OneSaveAtATime, Runs
  <2> QED
    BY <1>2, <1>3, <1>4, <2>1 DEF Current, OthersAre
<1>5. FailingHasAlert' /\ RecoveredHasNoAlert'
  BY <1>2, <1>3 DEF FailingHasAlert, RecoveredHasNoAlert, LatestAre, IInv, Typed
<1> QED
  BY <1>1, <1>4, <1>5 DEF IInv

\* A run whose status becomes one that is neither success nor failure, and whose
\* own transaction is not open then.
LEMMA NeitherEnd ==
    ASSUME IInv, NEW r \in Runs, run[r] # "NONE",
           NEW s \in {"CANCELLED", "RUNNING", "ABORTED"}, run' = [run EXCEPT ![r] = s],
           UNCHANGED <<made, alertVars, policy, judged>>, Typed', Held',
           OneSaveAtATime' => OneSaveAtATime,
           \A q \in Runs : save'[q].open => q # r /\ save'[q] = save[q]
    PROVE  IInv'
<1> USE DEF alertVars
<1>1. \A q \in Runs : q # r => run'[q] = run[q]
  BY DEF IInv, Typed
<1>2. run'[r] = s
  BY DEF IInv, Typed
<1>3. ASSUME OneSaveAtATime', NEW q \in Runs, save'[q].open PROVE Current(q)'
  BY <1>1, <1>2, <1>3 DEF IInv, Current, OthersAre, Latest, Runs, Typed
<1>4. OneSaveAtATime' => FailingHasAlert' /\ RecoveredHasNoAlert'
  BY <1>1, <1>2 DEF IInv, FailingHasAlert, RecoveredHasNoAlert, LatestAre, Latest, Runs, Active
<1> QED
  BY <1>3, <1>4 DEF IInv

LEMMA Cancelled == ASSUME IInv, NEW r \in Runs, RequestCancel(r) PROVE IInv'
<1> USE DEF RequestCancel, counters
<1>1. Typed' /\ Held'
  BY DEF IInv, Typed, Held, Runs, Ended, Endings, alertVars
<1>2. \A q \in Runs : save[q].open => q # r
  BY DEF IInv, Typed, Held, Runs
<1> QED
  BY <1>1, <1>2, NeitherEnd DEF OneSaveAtATime

LEMMA Started == ASSUME IInv, NEW r \in Runs, Start(r) PROVE IInv'
<1> USE DEF Start, counters
<1>1. Typed' /\ Held'
  BY DEF IInv, Typed, Held, Runs, alertVars
<1>2. \A q \in Runs : save[q].open => q # r
  BY DEF IInv, Typed, Held, Runs
<1> QED
  BY <1>1, <1>2, NeitherEnd DEF OneSaveAtATime

LEMMA StartedBeside == ASSUME IInv, NEW r \in Runs, StartBeside(r) PROVE IInv'
<1> USE DEF StartBeside, Stray
<1>1. Typed' /\ Held'
  BY DEF IInv, Typed, Held, Runs, alertVars
<1>2. ~OneSaveAtATime'
  BY DEF IInv, Typed, OneSaveAtATime
<1> QED
  BY <1>1, <1>2 DEF IInv

LEMMA Aborted == ASSUME IInv, NEW r \in Runs, ReclaimAbort(r) PROVE IInv'
<1> USE DEF ReclaimAbort, counters
<1>1. Typed' /\ Held'
  <2>1. /\ save' = [q \in Runs |-> save'[q]]
        /\ \A q \in Runs : save'[q].open => q # r /\ save'[q] = save[q]
    BY DEF IInv, Typed, None
  <2>2. r \in 1..made /\ run[r] = "RUNNING"
    BY DEF IInv, Typed, Held, Runs
  <2>3. /\ run'[r] = "ABORTED"
        /\ \A q \in Runs : q # r => run'[q] = run[q]
        /\ run' \in [Runs -> Ended \cup {"NONE", "QUEUED", "RUNNING"}]
    BY DEF IInv, Typed, Ended
  <2>4. Typed'
    BY <2>1, <2>2, <2>3 DEF IInv, Typed, alertVars, Runs
  <2>5. Held'
    BY <2>1, <2>2, <2>3 DEF IInv, Typed, Held, Runs
  <2> QED
    BY <2>4, <2>5
<1>2. \A q \in Runs : save'[q].open => q # r /\ save'[q] = save[q]
  BY DEF IInv, Typed, None
<1>3. run[r] # "NONE"
  BY DEF IInv, Held, Runs
<1> QED
  BY <1>1, <1>2, <1>3, NeitherEnd DEF OneSaveAtATime

LEMMA Stalled == ASSUME IInv, NEW r \in Runs, ReclaimStalled(r) PROVE IInv'
<1> USE DEF ReclaimStalled, Stray
<1>1. Typed' /\ Held'
  BY DEF IInv, Typed, Held, Runs, Ended, alertVars
<1>2. ~OneSaveAtATime'
  BY DEF IInv, Typed, OneSaveAtATime
<1> QED
  BY <1>1, <1>2 DEF IInv

\* What is read is current.
LEMMA Evaluated ==
    ASSUME IInv, NEW r \in Runs, NEW status \in Outcomes, Evaluate(r, status)
    PROVE  IInv'
<1> USE DEF Evaluate, alertVars, counters
<1> DEFINE rows == [run EXCEPT ![r] = status]
<1>1. save'[r] = EvaluationOf(rows, status) /\ \A q \in Runs \ {r} : save'[q] = save[q]
  BY DEF IInv, Typed, Evaluation
<1>2. Typed' /\ Held'
  <2>1. save' = [q \in Runs |-> save'[q]]
    BY DEF IInv, Typed
  <2> QED
    BY <1>1, <2>1 DEF IInv, Typed, Held, EvaluationOf, Runs
<1>3. rows[r] = status /\ \A q \in Runs \ {r} : rows[q] = run[q]
  BY DEF IInv, Typed
<1>4. ASSUME OneSaveAtATime', NEW q \in Runs, save'[q].open PROVE Current(q)'
  <2>1. q = r
    BY <1>1, <1>4 DEF IInv, Held, OneSaveAtATime, Evaluate
  <2>2. /\ save'[r].status = status /\ save'[r].policy = policy /\ policy \in Policies
        /\ save'[r].raises <=> status # "SUCCESS" /\ LatestAre(rows, policy.failure, NotSuccess)
        /\ save'[r].recovers <=> status = "SUCCESS" /\ LatestAre(rows, policy.recovery, {"SUCCESS"})
    <3>1. policy \in Policies
      BY DEF IInv, Typed
    <3>2. save'[r].status = status /\ save'[r].policy = policy
      BY <1>1 DEF EvaluationOf
    <3> DEFINE raises == status # "SUCCESS" /\ LatestAre(rows, policy.failure, NotSuccess)
               recovers == status = "SUCCESS" /\ LatestAre(rows, policy.recovery, {"SUCCESS"})
    <3>3. save'[r] = [open |-> TRUE, status |-> status, policy |-> policy, raises |-> raises, recovers |-> recovers]
      BY <1>1 DEF EvaluationOf
    <3>4. raises \in BOOLEAN /\ recovers \in BOOLEAN
      OBVIOUS
    <3>5. (save'[r].raises <=> raises) /\ (save'[r].recovers <=> recovers)
      <4> HIDE DEF raises, recovers, rows, Evaluate
      <4> QED
        BY <3>3, <3>4
    <3> HIDE DEF rows
    <3> QED
      BY <3>1, <3>2, <3>5
  <2>3. made \in Runs
    BY DEF IInv, Typed, Held, Runs
  <2>4. made \in Latest(policy.failure) /\ made \in Latest(policy.recovery)
    BY <2>2, <2>3, Thresholds DEF Latest, Runs
  <2>5. status \in {"SUCCESS", "SUCCESS_WITH_WARNINGS", "FAILED", "CANCELLED"}
    BY AlertsAssumption DEF AlertsAssumption
  <2>6. status # "SUCCESS" /\ OthersAre(r, policy.failure, "FAILED") => LatestAre(rows, policy.failure, NotSuccess)
    BY <1>3, <2>5 DEF OthersAre, LatestAre, NotSuccess, Ended, Endings, Latest
  <2>7. status = "SUCCESS" /\ OthersAre(r, policy.recovery, "SUCCESS") => LatestAre(rows, policy.recovery, {"SUCCESS"})
    BY <1>3 DEF OthersAre, LatestAre, Latest
  <2>8. LatestAre(rows, policy.failure, NotSuccess) => made = r \/ run[made] # "SUCCESS"
    BY <1>3, <2>3, <2>4 DEF LatestAre, NotSuccess, Ended, Endings
  <2>9. LatestAre(rows, policy.recovery, {"SUCCESS"}) => made = r \/ run[made] # "FAILED"
    BY <1>3, <2>3, <2>4 DEF LatestAre
  <2>10. OthersAre(r, policy.failure, "FAILED")' <=> OthersAre(r, policy.failure, "FAILED")
    BY DEF OthersAre, Latest
  <2>11. OthersAre(r, policy.recovery, "SUCCESS")' <=> OthersAre(r, policy.recovery, "SUCCESS")
    BY DEF OthersAre, Latest
  <2> QED
    BY <2>1, <2>2, <2>6, <2>7, <2>8, <2>9, <2>10, <2>11 DEF Current, OthersAre, Latest
<1>5. OneSaveAtATime' => FailingHasAlert' /\ RecoveredHasNoAlert'
  BY DEF IInv, OneSaveAtATime, FailingHasAlert, RecoveredHasNoAlert, LatestAre, Latest, Active
<1> QED
  BY <1>2, <1>4, <1>5 DEF IInv

\* A run that ends.  Either it is the occasion, which its transaction has read, or
\* the latest runs are as they were, and its transaction does nothing.
LEMMA Committed == ASSUME IInv, NEW r \in Runs, Commit(r) PROVE IInv'
<1> USE DEF counters
<1> DEFINE s == save[r]
<1>1. /\ s.open /\ s.policy \in Policies /\ s.status \in Endings
      /\ r \in 1..made
      /\ run'[r] = s.status /\ \A q \in Runs : q # r => run'[q] = run[q]
      /\ run' \in [Runs -> Ended \cup {"NONE", "QUEUED", "RUNNING"}]
      /\ made' = made /\ policy' = policy /\ strays' = strays
  BY AlertsAssumption DEF AlertsAssumption, IInv, Typed, Held, Commit, Runs, Ended, Endings
<1>2. /\ save' = [q \in Runs |-> save'[q]]
      /\ \A q \in Runs : save'[q].open => q # r /\ save'[q] = save[q]
  BY DEF Commit, IInv, Typed, None
<1>3. Typed'
  <2>1. alert' \in {"NONE", "OPEN", "ACKNOWLEDGED"}
    BY DEF Commit, NextAlert, IInv, Typed
  <2>2. judged' \subseteq Runs
    BY DEF Commit, IInv, Typed
  <2>3. leased' \subseteq 1..made /\ late' \subseteq 1..made
    BY DEF Commit, IInv, Typed
  <2> QED
    BY <1>1, <1>2, <2>1, <2>2, <2>3 DEF IInv, Typed, Runs
<1>4. Held'
  <2>1. late' = late \ {r} /\ leased' = leased \ {r}
    BY DEF Commit
  <2>2. leased \subseteq Runs /\ late \subseteq Runs
    BY AlertsAssumption DEF AlertsAssumption, IInv, Typed, Runs
  <2>3. \A q \in leased' : run'[q] = "RUNNING"
    BY <1>1, <2>1, <2>2 DEF IInv, Held, Runs
  <2>4. \A q \in late' : run'[q] = "ABORTED"
    BY <1>1, <2>1, <2>2 DEF IInv, Held
  <2>5. \A q \in Runs : save'[q].open => q \in leased' \cup late'
    BY <1>2, <2>1 DEF IInv, Held
  <2>6. strays' = 0 => late' = {} /\ \A q, x \in leased' : q = x
    BY <1>1, <2>1 DEF IInv, Held
  <2> QED
    BY <2>3, <2>4, <2>5, <2>6 DEF Held
<1>5. SUFFICES ASSUME OneSaveAtATime'
               PROVE  /\ \A q \in Runs : ~save'[q].open
                      /\ FailingHasAlert' /\ RecoveredHasNoAlert'
  BY <1>3, <1>4 DEF IInv
<1>6. strays = 0 /\ late = {} /\ leased = {r} /\ Current(r) /\ FailingHasAlert /\ RecoveredHasNoAlert
  BY <1>1, <1>5 DEF OneSaveAtATime, IInv, Held
<1>7. \A q \in Runs : ~save'[q].open
  BY <1>2, <1>6 DEF IInv, Held
<1>8. /\ policy \in Policies /\ policy.failure \in Nat \ {0} /\ policy.recovery \in Nat \ {0}
      /\ \A k \in Nat \ {0} : made \in Latest(k) /\ Latest(k)' = Latest(k) /\ Latest(k) \subseteq Runs
  BY <1>1, Thresholds DEF IInv, Typed, Latest, Runs
<1>9. CASE s.policy # policy
  <2>1. judged' = {}
    BY <1>6, <1>9 DEF Current, Commit
  <2> QED
    BY <1>7, <2>1 DEF FailingHasAlert, RecoveredHasNoAlert
<1>10. CASE s.policy = policy
  <2>1. judged' = judged \cup {r}
    BY <1>10 DEF Commit
  <2>2. alert' = NextAlert(s)
    BY DEF Commit
  <2>3. ASSUME LatestAre(run, policy.failure, {"FAILED"})', (Latest(policy.failure) \cap judged)' # {}
        PROVE  Active'
    <3>1. made >= policy.failure /\ \A q \in Latest(policy.failure) : run'[q] = "FAILED"
      BY <1>1, <1>8, <2>3 DEF LatestAre
    <3>2. CASE s.status # "SUCCESS"
      <4>1. s.raises
        BY <1>1, <1>6, <1>8, <1>10, <3>1, <3>2 DEF Current, OthersAre
      <4> QED
        BY <2>2, <4>1 DEF NextAlert, Active
    <3>3. CASE s.status = "SUCCESS"
      <4>1. r \notin Latest(policy.failure)
        BY <1>1, <3>1, <3>3
      <4>2. made # r /\ run[made] = "FAILED"
        BY <1>1, <1>8, <3>1, <4>1
      <4>3. ~s.raises /\ ~s.recovers
        BY <1>6, <3>3, <4>2 DEF Current
      <4>4. LatestAre(run, policy.failure, {"FAILED"}) /\ Latest(policy.failure) \cap judged # {}
        BY <1>1, <1>8, <2>1, <2>3, <3>1, <4>1 DEF LatestAre
      <4> QED
        BY <1>6, <2>2, <4>3, <4>4 DEF FailingHasAlert, OneSaveAtATime, NextAlert, Active
    <3> QED
      BY <3>2, <3>3
  <2>4. ASSUME LatestAre(run, policy.recovery, {"SUCCESS"})', (Latest(policy.recovery) \cap judged)' # {}
        PROVE  ~Active'
    <3>1. made >= policy.recovery /\ \A q \in Latest(policy.recovery) : run'[q] = "SUCCESS"
      BY <1>1, <1>8, <2>4 DEF LatestAre
    <3>2. CASE s.status = "SUCCESS"
      <4>1. s.recovers /\ ~s.raises
        BY <1>1, <1>6, <1>8, <1>10, <3>1, <3>2 DEF Current, OthersAre
      <4> QED
        BY <2>2, <4>1 DEF NextAlert, Active
    <3>3. CASE s.status # "SUCCESS"
      <4>1. r \notin Latest(policy.recovery)
        BY <1>1, <3>1, <3>3
      <4>2. made # r /\ run[made] = "SUCCESS"
        BY <1>1, <1>8, <3>1, <4>1
      <4>3. ~s.raises /\ ~s.recovers
        BY <1>6, <3>3, <4>2 DEF Current
      <4>4. LatestAre(run, policy.recovery, {"SUCCESS"}) /\ Latest(policy.recovery) \cap judged # {}
        BY <1>1, <1>8, <2>1, <2>4, <3>1, <4>1 DEF LatestAre
      <4> QED
        BY <1>6, <2>2, <4>3, <4>4 DEF RecoveredHasNoAlert, OneSaveAtATime, NextAlert, Active
    <3> QED
      BY <3>2, <3>3
  <2> QED
    BY <1>7, <2>3, <2>4 DEF FailingHasAlert, RecoveredHasNoAlert
<1> QED
  BY <1>9, <1>10

LEMMA Clicked == ASSUME IInv, Users PROVE IInv'
<1> USE DEF Click, alertVars
<1>1. ASSUME NEW p \in Policies, SavePolicy(p) PROVE IInv'
  BY <1>1, StartsAnew DEF SavePolicy, IInv, Typed
<1>2. CASE Resolve
  BY <1>2, StartsAnew DEF Resolve, IInv, Typed
<1>3. CASE Acknowledge
  BY <1>3, RunsAlone DEF Acknowledge, Active
<1>4. ASSUME NEW c \in Channels, SwitchChannel(c) PROVE IInv'
  BY <1>4, RunsAlone DEF SwitchChannel, Active, IInv, Typed
<1> QED
  BY <1>1, <1>2, <1>3, <1>4 DEF Users

\* Sending news changes nothing that the alerts depend on.
LEMMA Sends ==
    ASSUME IInv, (\E d \in DOMAIN news : Claim(d)) \/ Answer \/ Restart \/ UNCHANGED vars
    PROVE  IInv'
<1>1. UNCHANGED <<runVars, policy, judged, strays, alert>>
  BY DEF Claim, Answer, Sent, NotSent, Restart, vars, alertVars, counters
<1> QED
  BY <1>1, RunsAlone DEF Active, IInv, Typed

\* The inductive invariant holds in every state of the specification: the types,
\* the transactions that may be open, and what those have read.
THEOREM Invariance == Spec => []IInv
<1>1. ASSUME IInv, [Next]_vars PROVE IInv'
  <2>1. ASSUME NEW r \in Runs, RunStep(r) PROVE IInv'
    BY <1>1, <2>1, Enqueued, Cancelled, Started, StartedBeside, Aborted, Stalled, Evaluated,
       Committed DEF RunStep
  <2>2. CASE Users
    BY <1>1, <2>2, Clicked
  <2> QED
    BY <1>1, <2>1, <2>2, Sends DEF Next
<1> QED
  BY <1>1, InitInv, PTL DEF Spec

\* A monitor whose latest runs failed as often as its policy says has an alert
\* (evaluateAlertState in the save of every run that ends).
THEOREM FailingHasAlertHolds == Spec => []FailingHasAlert
<1>1. IInv => FailingHasAlert
  BY DEF IInv, FailingHasAlert
<1> QED
  BY <1>1, Invariance, PTL

\* A monitor whose latest runs succeeded as often as its policy says has none
\* (evaluateAlertState, its recovering branch).
THEOREM RecoveredHasNoAlertHolds == Spec => []RecoveredHasNoAlert
<1>1. IInv => RecoveredHasNoAlert
  BY DEF IInv, RecoveredHasNoAlert
<1> QED
  BY <1>1, Invariance, PTL

=============================================================================
