-------------------------- MODULE DeploymentReport --------------------------
(***************************************************************************)
(* The page of a deployment validation run: it polls the run while it is   *)
(* active, may ask for a cancellation, and renders the run it fetched last *)
(* (routes/deployment-runs, features/suites).  Composed with the run       *)
(* itself.                                                                 *)
(*                                                                         *)
(* What is rendered is a function of the run shown.  A number is           *)
(* "recorded" or "Not recorded"; wording and layout are left out.          *)
(***************************************************************************)
EXTENDS Deployments

VARIABLES
    shown,     \* run, as fetched last
    pending    \* the operation the buttons wait for

pageVars == <<shown, pending>>
vars == <<deploymentVars, pageVars>>
-----------------------------------------------------------------------------
(* validation-summary.ts: what of a report counts as failed.               *)

CheckFailed(status) ==
    status \notin Good \cup {"PASSED", "PASSED_WITH_WARNINGS", "PENDING", ""}
SamplePassed(status) == status \in Good \cup {"PASSED", "PASSED_WITH_WARNINGS"}
\* Mutant: a regression is looked for only in the steps.
MonitorFailedBySteps(e) ==
    \/ \E i \in DOMAIN e.samples : ~SamplePassed(e.samples[i].status)
    \/ "REGRESSED" \in e.steps
MonitorFailed(e) ==
    \/ e.class = "REGRESSED"
    \/ e.post.failed > 0
    \/ \E i \in DOMAIN e.samples : ~SamplePassed(e.samples[i].status)
    \/ "REGRESSED" \in e.steps
ItemFailed(c, e) == IF c \in Sampled THEN MonitorFailed(e) ELSE CheckFailed(e.status)
ItemWarned(c, e) ==
    c \in Sampled /\ ~MonitorFailed(e) /\ e.class \in {"INSUFFICIENT_HISTORY", "PENDING"}

\* What the lists of the page are sorted by.
Rank(failed, warned, required) ==
    IF failed /\ required THEN 0 ELSE IF failed THEN 1 ELSE IF warned THEN 2 ELSE 3

Items(run) == {c \in suite : run.report[c].listed}
Summary(run) ==
    LET items == Items(run)
        failed == {c \in items : ItemFailed(c, run.report[c])}
        warned == {c \in items : ItemWarned(c, run.report[c])}
    IN  [failed |-> Cardinality(failed),
         warnings |-> Cardinality(warned) + Cardinality(run.warnings),
         passed |-> Cardinality(items \ (failed \cup warned)),
         total |-> Cardinality(items)]
-----------------------------------------------------------------------------
(* The evidence rows (deployment-run-evidence.tsx, deployment-run-charts). *)

Recorded(measured) == IF measured > 0 THEN "recorded" ELSE "Not recorded"
Sign(class) ==
    CASE class = "REGRESSED" -> "red" [] class = "IMPROVED" -> "green"
      [] class = "INSUFFICIENT_HISTORY" -> "amber" [] OTHER -> "plain"

\* Before and after, metric by metric; the success rate is always a number.
DistributionTable(before, after) ==
    [metric \in {"p50", "p95", "p99", "Average", "Std deviation"} |->
        <<Recorded(before), Recorded(after)>>]
ComparisonChart(before, after) ==
    IF before = 0 /\ after = 0 THEN "Latency was not recorded for either period."
    ELSE [percentile \in {"p50", "p95", "p99"} |-> <<Recorded(before), Recorded(after)>>]
\* One point per measured execution, the baseline first; no chart without.
TimeSeriesChart(before, after) == [i \in 1..(before + after) |-> IF i <= before THEN "Before" ELSE "After"]

MonitorResult(c, e) ==
    LET before == IF e.baseline THEN 1 ELSE 0
    IN  [open |-> MonitorFailed(e), badge |-> Sign(e.class), required |-> e.required,
         latency |-> DistributionTable(before, e.post.measured)["p95"],
         reasons |-> e.post.failed > 0 \/ "REGRESSED" \in e.steps \/ ~e.baseline,
         table |-> DistributionTable(before, e.post.measured),
         chart |-> ComparisonChart(before, e.post.measured),
         series |-> TimeSeriesChart(before, e.post.measured),
         steps |-> e.steps,
         dots |-> [i \in DOMAIN e.samples |->
                    [ok |-> e.samples[i].status \in Good, link |-> e.samples[i].run # "none"]]]
BrowserMonitorResult(c, e) ==
    LET before == IF e.baseline THEN 1 ELSE 0
    IN  [open |-> MonitorFailed(e), badge |-> Sign(e.class), required |-> e.required,
         latency |-> DistributionTable(before, e.post.measured)["p95"],
         reasons |-> e.post.failed > 0 \/ e.class = "REGRESSED" \/ ~e.baseline,
         table |-> DistributionTable(before, e.post.measured),
         chart |-> ComparisonChart(before, e.post.measured),
         series |-> TimeSeriesChart(before, e.post.measured),
         dots |-> [i \in DOMAIN e.samples |->
                    [ok |-> e.samples[i].status \in Good, link |-> e.samples[i].run # "none"]]]
StatusBadge(status) == IF status = "SUCCESS" THEN "green" ELSE "red"
CheckRow(c, e) ==
    [open |-> CheckFailed(e.status), badge |-> StatusBadge(e.status), required |-> e.required,
     evidence |-> IF Kind[c] = "ELF" THEN "/elf" ELSE "/alerts"]
DynatraceRow(c, e) ==
    [open |-> CheckFailed(e.status), badge |-> StatusBadge(e.status), required |-> e.required,
     evidence |-> "/applications"]

EvidenceRow(c, e) ==
    CASE Kind[c] = "MONITOR" -> MonitorResult(c, e)
      [] Kind[c] = "BROWSER_MONITOR" -> BrowserMonitorResult(c, e)
      [] Kind[c] = "DYNATRACE" -> DynatraceRow(c, e)
      [] OTHER -> CheckRow(c, e)
-----------------------------------------------------------------------------
(* The page.                                                               *)

\* The section of a kind of check: its rows, failed and required ones first.
Section(kind, run) ==
    LET items == {c \in Items(run) : Kind[c] = kind}
        Place(c) == Rank(ItemFailed(c, run.report[c]), ItemWarned(c, run.report[c]), run.report[c].required)
    IN  [rows |-> items, first |-> {c \in items : \A d \in items : Place(c) <= Place(d)},
         empty |-> items = {}]

\* The verdict band.
Verdict(run) ==
    [tone |-> CASE run.gate = "BLOCK" -> "red" [] run.gate = "ALLOW_WITH_WARNINGS" -> "amber"
                [] run.gate = "ALLOW" -> "blue" [] OTHER -> "plain",
     copy |-> CASE run.gate = "BLOCK" /\ Summary(run).failed > 0 -> "required checks failed"
                [] run.gate = "BLOCK" -> "Rhythm recorded a blocking gate decision"
                [] run.gate = "ALLOW_WITH_WARNINGS" -> "Review the advisory findings"
                [] run.gate = "ALLOW" -> "Required checks passed"
                [] OTHER -> "still pending",
     counts |-> Summary(run), phase |-> run.phase]

\* What may be clicked.
Offered(run) ==
    (IF run.status \notin Terminal /\ pending # "cancel" THEN {"cancel"} ELSE {})
        \cup (IF run.status \in {"COMPLETED", "FAILED"} /\ pending = "" THEN {"json", "pdf"} ELSE {})

\* "Why this passed" or "Why this failed".
Findings(run) ==
    [shown |-> run.reasons # {} \/ run.recommended,
     title |-> IF run.gate = "ALLOW" THEN "passed" ELSE "failed",
     reasons |-> run.reasons, warnings |-> run.warnings]

\* Mutant: a run that is being cancelled is not polled any more.
ActiveUnlessCancelling == shown.status \notin Terminal \cup {"CANCELLING"}
Active == shown.status \notin Terminal

\* The effect of the page that polls every second while the run is active; a
\* hidden page skips the tick, and so does one that waits for an answer, so
\* answers are shown in the order of their requests and one may be taken to be
\* shown when it is read.  A poll that fails only leaves a notice.
Poll ==
    /\ Active
    /\ shown' = row
    /\ UNCHANGED <<deploymentVars, pending>>

\* The button waits for the answer; the run it cancels may have ended.
Cancel ==
    /\ "cancel" \in Offered(shown) /\ pending' = "cancel"
    /\ UNCHANGED <<deploymentVars, shown>>
CancelAnswer ==
    /\ pending = "cancel" /\ pending' = ""
    /\ IF row.status \in Terminal THEN UNCHANGED deploymentVars ELSE CancelDeployment
    /\ UNCHANGED shown

Init ==
    /\ DeploymentInit
    /\ shown = row /\ pending = ""

Worker == (Claim \/ Execute) /\ UNCHANGED pageVars
Reaper == (Reap \/ Expire) /\ UNCHANGED pageVars
Others == (Watch \/ Fault) /\ UNCHANGED pageVars
Page == Poll \/ Cancel \/ CancelAnswer
Next == Worker \/ Reaper \/ Others \/ Page
Spec == Init /\ [][Next]_vars

\* Executors poll and work, the reaper ticks every 15 seconds; the page is
\* visible, its timer ticks and polls are answered.
FairSpec ==
    /\ Spec
    /\ WF_vars(Worker) /\ WF_vars(Reaper)
    /\ WF_vars(Poll) /\ WF_vars(CancelAnswer)
-----------------------------------------------------------------------------
(* Properties.                                                             *)

\* The row and the page keep their types, and a validation has a decision
\* exactly when it has ended.
TypeOK ==
    /\ row.status \in {"QUEUED", "RUNNING", "CANCELLING"} \cup Terminal
    /\ row.status \in Terminal <=> row.gate # "PENDING"
    /\ row.gate \in {"PENDING", "BLOCK", "ALLOW_WITH_WARNINGS", "ALLOW"}
    /\ shown.reasons \subseteq Checks /\ shown.warnings \subseteq Checks
    /\ job \in {"QUEUED", "LEASED", "SUCCEEDED", "FAILED", "CANCELLED"}
    /\ pending \in {"", "cancel"}
    /\ faults \in 0..MaxFaults

\* A validation that was completed and blocks shows why: each check that
\* blocks counts as failed and is open, and its section starts with a failure.
BlockExplained ==
    shown.status = "COMPLETED" /\ shown.gate = "BLOCK" =>
        /\ Findings(shown).shown /\ Findings(shown).reasons # {}
        /\ \A c \in shown.reasons :
            /\ EvidenceRow(c, shown.report[c]).open
            /\ \A d \in Section(Kind[c], shown).first : ItemFailed(d, shown.report[d])
        /\ Summary(shown).failed >= Cardinality(shown.reasons)

\* Evidence that was saved is never lost again, however the validation ends:
\* completed, cancelled, failed by the reaper, or written again by a zombie.
EvidenceKept ==
    [][\A c \in suite :
        /\ IsPrefix(row.report[c].samples, row'.report[c].samples)
        /\ row.report[c].frozen => row'.report[c].frozen]_vars

\* A validation whose executor died, was shut down or stalled is ended by
\* someone, and a page that is visible shows that it ended.
ShownEnds == <>[](shown.status \in Terminal)

\* The gate lets no deployment through whose required monitor has a sample
\* that failed.
RequiredPassed ==
    row.status = "COMPLETED" /\ row.gate # "BLOCK" =>
        \A c \in Sampled \cap Required :
            \A i \in DOMAIN row.report[c].samples : row.report[c].samples[i].status # "FAILED"

\* An allowed deployment has no failed checks on its page.
AllowedShowsNoFailure ==
    shown.status = "COMPLETED" /\ shown.gate = "ALLOW" => Summary(shown).failed = 0
=============================================================================
