---------------------------- MODULE RunEvidence -----------------------------
(***************************************************************************)
(* What one run leaves behind, and what its page makes of it: the steps a  *)
(* run executed with their evidence, the primary failure the server finds  *)
(* in them (internal/runs/diagnostics.go), and the parts of the two run    *)
(* pages as functions of the run they show.                                *)
(*                                                                         *)
(* Durations and texts are "recorded" or not; a part of a page is a record *)
(* of what is visible in it.                                               *)
(***************************************************************************)
EXTENDS Naturals, Sequences, FiniteSets, SequencesExt

Succeeded == {"SUCCESS", "SUCCESS_WITH_WARNINGS"}
ActiveStatuses == {"QUEUED", "STARTING", "RUNNING"}
BrowserActive == ActiveStatuses \cup {"ANALYZING"}

Category(outcome) ==
    CASE outcome = "CONDITION" -> "CONDITION_EVALUATION_FAILURE"
      [] outcome = "PRE_SCRIPT" -> "SCRIPT_RUNTIME_ERROR"
      [] outcome = "DNS" -> "DNS_FAILURE"
      [] outcome = "TIMEOUT" -> "REQUEST_TIMEOUT"
      [] outcome = "EXTRACTOR" -> "EXTRACTOR_FAILURE"
      [] outcome = "TEST_SCRIPT" -> "SCRIPT_ASSERTION_FAILURE"
      [] outcome = "ASSERTION" -> "ASSERTION_FAILURE"
      [] outcome = "CANCELLED" -> "RUN_CANCELLED"
      [] OTHER -> ""
StatusOf(outcome) ==
    CASE outcome = "SUCCESS" -> "SUCCESS" [] outcome = "SKIPPED" -> "SKIPPED_CONDITION"
      [] outcome = "TIMEOUT" -> "TIMED_OUT" [] outcome = "CANCELLED" -> "CANCELLED" [] OTHER -> "FAILED"

\* How far the execution of a step gets, and so what evidence it leaves.
Sent(outcome) == outcome \notin {"SKIPPED", "CONDITION", "PRE_SCRIPT"}
Answered(outcome) == Sent(outcome) /\ outcome \notin {"DNS", "TIMEOUT"}
Phases(outcome) ==
    IF ~Sent(outcome) THEN IF outcome = "PRE_SCRIPT" THEN {"preparationMs"} ELSE {}
    ELSE {"preparationMs", "dnsMs"} \cup
        (IF outcome = "DNS" THEN {} ELSE {"connectMs", "tlsHandshakeMs", "requestWriteMs"}) \cup
        (IF Answered(outcome) THEN {"serverWaitMs", "downloadMs", "extractionMs"} ELSE {}) \cup
        (IF outcome \in {"SUCCESS", "EXTRACTOR", "ASSERTION", "CANCELLED"} THEN {"assertionMs"} ELSE {})
Script(status, calls) == [status |-> status, tests |-> <<status = "SUCCESS">>, calls |-> calls]
NoScript == [status |-> "none", tests |-> <<>>, calls |-> <<>>]
StepRun(def, outcome) ==
    [def |-> def, status |-> StatusOf(outcome), category |-> Category(outcome),
     error |-> StatusOf(outcome) \notin {"SUCCESS", "SKIPPED_CONDITION"},
     attempts |-> IF Sent(outcome) THEN <<IF Answered(outcome) THEN "SUCCESS" ELSE "FAILED">> ELSE <<>>,
     extractors |-> IF Answered(outcome) THEN <<outcome # "EXTRACTOR">> ELSE <<>>,
     assertions |-> IF Answered(outcome) /\ outcome # "TEST_SCRIPT" THEN <<outcome # "ASSERTION">> ELSE <<>>,
     pre |-> IF outcome \in {"SKIPPED", "CONDITION"} THEN NoScript
             ELSE Script(IF outcome = "PRE_SCRIPT" THEN "FAILED" ELSE "SUCCESS", <<outcome # "PRE_SCRIPT">>),
     test |-> IF ~Answered(outcome) THEN NoScript
              ELSE Script(IF outcome = "TEST_SCRIPT" THEN "FAILED" ELSE "SUCCESS", <<>>),
     phases |-> Phases(outcome), request |-> Sent(outcome), response |-> Answered(outcome)]
-----------------------------------------------------------------------------
(* What the server says of a run (diagnostics.go).                         *)

\* The analysis of an API run; ids of the slowest step and of the regressed
\* one are those of some step that has an API time.
TimedSteps(run) == {run.steps[i].def : i \in {j \in DOMAIN run.steps : run.steps[j].attempts # <<>>}}
SlowestStep(run) == IF TimedSteps(run) = {} THEN 0 ELSE CHOOSE d \in TimedSteps(run) : TRUE

NoFailure == [step |-> 0, named |-> FALSE, phase |-> "", attempt |-> 0, help |-> ""]
\* The phase and the help text, by what the category contains; in this order.
PhaseOfCategory(run) ==
    CASE run.category = "DNS_FAILURE" -> <<"DNS", "CHECK_DNS_AND_AGENT_NETWORK">>
      [] run.category \in {"SCRIPT_RUNTIME_ERROR", "SCRIPT_ASSERTION_FAILURE"} ->
            <<"PRE_REQUEST_SCRIPT", "CHECK_PRE_REQUEST_SCRIPT">>
      [] run.category = "REQUEST_TIMEOUT" -> <<"SERVER_WAIT", "CHECK_TARGET_LATENCY_AND_TIMEOUT">>
      [] run.category = "ASSERTION_FAILURE" -> <<"ASSERTION", "CHECK_EXPECTED_AND_OBSERVED">>
      [] run.category = "EXTRACTOR_FAILURE" -> <<"EXTRACTION", "CHECK_RESPONSE_AND_EXPRESSION">>
      [] run.status = "CANCELLED" -> <<"CANCELLATION", "RUN_CANCELLED">>
      [] OTHER -> <<"REQUEST", "CHECK_EXECUTION_EVIDENCE">>

\* Mutant: a failed step is recognised by its status only.
PrimaryFailureByStatus(run) ==
    LET failing == {i \in DOMAIN run.steps : run.steps[i].status \in {"FAILED", "TIMED_OUT"}}
    IN  IF run.status \in Succeeded \cup ActiveStatuses THEN NoFailure
        ELSE [step |-> run.failedStep, named |-> failing # {}, phase |-> PhaseOfCategory(run)[1],
              attempt |-> 0, help |-> PhaseOfCategory(run)[2]]
\* The first step that is the failed one, or failed, gives name and attempt.
PrimaryFailure(run) ==
    LET failing == {i \in DOMAIN run.steps :
                        run.steps[i].def = run.failedStep \/ run.steps[i].status \in {"FAILED", "TIMED_OUT"}}
        first == Min(failing)
        bad == SelectInSeq(run.steps[first].attempts, LAMBDA a : a # "SUCCESS")
    IN  IF run.status \in Succeeded \cup ActiveStatuses THEN NoFailure
        ELSE [step |-> IF failing = {} THEN run.failedStep ELSE run.steps[first].def,
              named |-> failing # {}, phase |-> PhaseOfCategory(run)[1],
              attempt |-> IF failing = {} THEN 0 ELSE bad,
              help |-> PhaseOfCategory(run)[2]]
Failing(run) == run.status \notin Succeeded \cup ActiveStatuses

-----------------------------------------------------------------------------
(* The page of an API run.                                                 *)

Tone(status) ==
    IF status \in Succeeded THEN "green" ELSE IF status \in ActiveStatuses THEN "busy"
    ELSE IF status = "SKIPPED_CONDITION" THEN "grey" ELSE "red"
StatusBadge(status) == IF Tone(status) = "grey" THEN "red" ELSE Tone(status)

RunHeader(run) ==
    [badge |-> StatusBadge(run.status), live |-> run.status \in ActiveStatuses,
     ended |-> run.status \notin ActiveStatuses,
     apiTime |-> CASE run.status \in ActiveStatuses -> "In progress"
                   [] TimedSteps(run) # {} -> "recorded" [] OTHER -> "Not recorded",
     retries |-> \E i \in DOMAIN run.steps : Len(run.steps[i].attempts) > 1]

\* Every category the page has a text for; any other gets the general one.
HelpTexts ==
    {"CHECK_DNS_AND_AGENT_NETWORK", "CHECK_PROXY_PROFILE", "CHECK_CERTIFICATE_AND_TRUST",
     "CHECK_TARGET_LATENCY_AND_TIMEOUT", "CHECK_SECRET_AND_AUTH_PROFILE", "CHECK_EXPECTED_AND_OBSERVED",
     "CHECK_RESPONSE_AND_EXPRESSION", "CHECK_PRE_REQUEST_SCRIPT", "RUN_CANCELLED"}
HelpText(code) == IF code \in HelpTexts THEN code ELSE "inspect the failed phase"

FailurePanel(failure) ==
    [phase |-> failure.phase, step |-> IF failure.named THEN failure.step ELSE 0,
     attempt |-> IF failure.attempt > 0 THEN failure.attempt ELSE "-", next |-> HelpText(failure.help)]
SuccessInsight(run) ==
    [title |-> "Execution completed successfully",
     slowest |-> IF SlowestStep(run) # 0 THEN SlowestStep(run) ELSE "Not recorded"]

\* Both lists mark every row of the selected definition.
Waterfall(run, selectedStep) ==
    IF run.steps = <<>> THEN "Waiting for the first step to start"
    ELSE [i \in DOMAIN run.steps |->
            [pressed |-> run.steps[i].def = selectedStep,
             bar |-> CASE run.steps[i].status = "SUCCESS" -> "primary"
                       [] run.steps[i].status = "SKIPPED_CONDITION" -> "grey" [] OTHER -> "red"]]
StepRail(run, selectedStep) ==
    [i \in DOMAIN run.steps |->
        [current |-> run.steps[i].def = selectedStep, icon |-> Tone(run.steps[i].status)]]

\* Evidence of one script: its calls, its tests, its error.
AuxiliaryRequestList(calls) == [i \in DOMAIN calls |-> IF calls[i] THEN "green" ELSE "red"]
ScriptEvidence(result) ==
    [icon |-> IF result.status = "SUCCESS" THEN "green" ELSE "red",
     error |-> result.status # "SUCCESS",
     calls |-> AuxiliaryRequestList(result.calls), tests |-> result.tests]
EmptyEvidence == "not recorded for this execution"
PreRequestEvidence(run, step) ==
    [setup |-> IF run.setup.status = "none" THEN "" ELSE ScriptEvidence(run.setup),
     script |-> IF step.pre.status = "none" THEN EmptyEvidence ELSE ScriptEvidence(step.pre)]

\* Phases in the order of the page, with the side each is spent on.
PhaseOrder ==
    <<"preparationMs", "secretFetchMs", "dnsMs", "proxyConnectMs", "connectMs", "tlsHandshakeMs",
      "requestWriteMs", "serverWaitMs", "downloadMs", "extractionMs", "assertionMs">>
TimingHelp ==
    [phase \in ToSet(PhaseOrder) |->
        IF phase \in {"preparationMs", "secretFetchMs", "extractionMs", "assertionMs"} THEN "Rhythm"
        ELSE IF phase = "serverWaitMs" THEN "Target" ELSE "Network"]
TimingBreakdown(recorded) ==
    IF recorded \cap ToSet(PhaseOrder) = {} THEN EmptyEvidence
    ELSE SelectSeq(PhaseOrder, LAMBDA phase : phase \in recorded)
EvidenceView(recorded) == IF recorded THEN "recorded" ELSE EmptyEvidence
CheckList(results) ==
    IF results = <<>> THEN "none configured"
    ELSE [i \in DOMAIN results |-> IF results[i] THEN "green" ELSE "red"]

BaselineBadge(class) == IF class = "INSUFFICIENT_HISTORY" THEN "" ELSE class
BaselineDetail(class) ==
    IF class = "INSUFFICIENT_HISTORY" THEN "At least five samples are required" ELSE BaselineBadge(class)
OverviewTab(step) ==
    [apiTime |-> IF step.attempts # <<>> THEN "recorded" ELSE "Not recorded",
     preparation |-> "preparationMs" \in step.phases, attempts |-> Len(step.attempts),
     calls |-> AuxiliaryRequestList(step.pre.calls)]
ChecksTab(step) ==
    [script |-> IF step.test.status = "none" THEN "" ELSE ScriptEvidence(step.test),
     assertions |-> CheckList(step.assertions), extractors |-> CheckList(step.extractors)]
AttemptsTab(step) ==
    IF step.attempts = <<>> THEN EmptyEvidence
    ELSE [i \in DOMAIN step.attempts |-> [icon |-> Tone(step.attempts[i]), timing |-> TimingBreakdown(step.phases)]]
NetworkTab(step) == [timing |-> TimingBreakdown(step.phases), tls |-> EvidenceView(step.response)]
\* The events of a step, and those of no step.
EventsTab(run, step) == {i \in DOMAIN run.steps : run.steps[i].def = step.def}

StepPanel(run, step) ==
    [icon |-> Tone(step.status), alert |-> step.error, category |-> step.category,
     overview |-> OverviewTab(step), preRequest |-> PreRequestEvidence(run, step),
     request |-> EvidenceView(step.request), response |-> EvidenceView(step.response),
     checks |-> ChecksTab(step), attempts |-> AttemptsTab(step), network |-> NetworkTab(step),
     events |-> EventsTab(run, step)]
PendingSteps(active) == IF active THEN "Waiting for execution evidence" ELSE "No step evidence recorded"

\* find: the first step of the selected definition, otherwise the first step.
SelectedStep(run, selectedStep) ==
    LET index == SelectInSeq(run.steps, LAMBDA s : s.def = selectedStep)
    IN  run.steps[IF index = 0 THEN 1 ELSE index]
DefaultStep(run) ==
    IF PrimaryFailure(run).step # 0 THEN PrimaryFailure(run).step
    ELSE IF SlowestStep(run) # 0 THEN SlowestStep(run)
    ELSE IF run.steps # <<>> THEN run.steps[1].def ELSE 0

ApiPage(run, selectedStep) ==
    [header |-> RunHeader(run),
     failed |-> Failing(run),
     insight |-> IF Failing(run) THEN FailurePanel(PrimaryFailure(run)) ELSE SuccessInsight(run),
     waterfall |-> Waterfall(run, selectedStep), rail |-> StepRail(run, selectedStep),
     panel |-> IF run.steps = <<>> THEN PendingSteps(run.status \in ActiveStatuses)
               ELSE StepPanel(run, SelectedStep(run, selectedStep))]
-----------------------------------------------------------------------------
(* The page of a browser run.                                              *)

MetricNames == {"dns", "tcp", "tls", "ttfb", "domContentLoaded", "load", "fcp", "lcp", "tbt", "cls"}
\* A metric is read where newer agents put it, otherwise where older ones did.
NormalizeMetrics(lab) == [metric \in MetricNames |-> metric \in lab.flat \cup lab.nested]

StepOverview(step) ==
    [locator |-> IF step.request THEN "recorded" ELSE "did not use a locator",
     failure |-> step.error, category |-> step.category]
PerformanceEvidence(lab) ==
    LET metrics == NormalizeMetrics(lab)
    IN  [values |-> [m \in MetricNames |-> IF metrics[m] THEN "recorded" ELSE "Not recorded"],
         notice |-> CASE \E m \in MetricNames \ {"cls"} : metrics[m] -> ""
                      [] lab.captureFailed -> "the agent could not capture it"
                      [] OTHER -> "predates performance capture",
         errors |-> lab.console]
CheckEvidence(step) ==
    IF step.assertions = <<>> THEN "No checkpoint result was recorded for this action."
    ELSE [i \in DOMAIN step.assertions |-> IF step.assertions[i] THEN "green" ELSE "red"]
NetworkEvidence(run) ==
    [failed |-> IF run.lab.requests > 20 THEN 20 ELSE run.lab.requests,
     console |-> IF run.lab.console > 50 THEN 50 ELSE run.lab.console,
     artifacts |-> run.lab.screens]
EventTimeline(run) == IF run.steps = <<>> THEN "not recorded" ELSE [i \in DOMAIN run.steps |-> i]
\* Texts for some categories, one for all the others.
FailureGuidance(category) ==
    IF category \in {"SELECTOR_NOT_FOUND", "SELECTOR_AMBIGUOUS", "AUTHENTICATION_FAILED", "SESSION_EXPIRED",
                     "PERFORMANCE_BUDGET_EXCEEDED", "VISUAL_REGRESSION"}
    THEN category ELSE "Open the failed action below"
JourneyRail(run, selectedStep) ==
    IF run.steps = <<>> THEN "Step evidence is not recorded yet."
    ELSE [i \in DOMAIN run.steps |->
            [current |-> run.steps[i].def = SelectedStep(run, selectedStep).def,
             icon |-> IF run.steps[i].status = "SUCCESS" THEN "green" ELSE "red"]]
JourneyTabs(run, selectedStep) ==
    IF run.steps = <<>>
    THEN [overview |-> "Action evidence has not been recorded yet.", alert |-> FALSE,
          checks |-> "No checkpoint result was recorded for this action."]
    ELSE LET step == SelectedStep(run, selectedStep)
         IN  [overview |-> StepOverview(step), alert |-> step.error, checks |-> CheckEvidence(step)]
BrowserDefaultStep(run) ==
    IF run.failedStep # 0 THEN run.failedStep ELSE IF run.steps # <<>> THEN run.steps[1].def ELSE 0
BrowserPage(run, selectedStep) ==
    [live |-> run.status \in BrowserActive, failed |-> run.category # "",
     insight |-> FailureGuidance(run.category),
     filmstrip |-> run.lab.screens, rail |-> JourneyRail(run, selectedStep),
     panel |-> JourneyTabs(run, selectedStep), performance |-> PerformanceEvidence(run.lab),
     network |-> NetworkEvidence(run), events |-> EventTimeline(run)]
=============================================================================
