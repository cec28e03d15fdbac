------------------------------ MODULE RunPages ------------------------------
(***************************************************************************)
(* The pages of one run, over runs that a server executes meanwhile: the   *)
(* diagnostics of an API run (routes/monitors/$monitorId/runs/$runId.tsx)  *)
(* and of a browser run (routes/ui-monitoring/$monitorId/runs/$runId.tsx). *)
(*                                                                         *)
(* A page shows the run it fetched last and polls it while it is active.   *)
(* Requests are answered in any order; an answer carries the run as it was *)
(* when the request was made, which is no restriction, since a request may *)
(* be made at any time.                                                    *)
(***************************************************************************)
EXTENDS RunEvidence

CONSTANTS
    Runs,          \* run identifiers
    PageOf,        \* "api" or "browser"
    Outcomes,      \* what the execution of a step of a run may come to
    MaxExecuted,   \* bound: steps a run executes
    LoopsAllowed,  \* a script may select a step that was executed before
    Past,          \* runs that ended before
    MaxLoads       \* bound: how often a page is opened

ASSUME RunPagesAssumption ==
    /\ PageOf \in [Runs -> {"api", "browser"}]
    /\ Outcomes \in [Runs -> SUBSET {"SUCCESS", "SKIPPED", "CONDITION", "PRE_SCRIPT", "SETUP", "DNS",
                        "TIMEOUT", "EXTRACTOR", "TEST_SCRIPT", "ASSERTION", "CANCELLED"}]
    /\ Past \subseteq Runs
    /\ MaxExecuted \in Nat \ {0} /\ MaxLoads \in Nat \ {0} /\ LoopsAllowed \in BOOLEAN

VARIABLES
    executed,    \* the runs on the server
    route,       \* the run the page was opened for
    shown,       \* the run it shows, with its id
    selected,    \* selectedStepID, 0 for none
    flights,     \* answers on their way to the page
    loads

runPageVars == <<executed, route, shown, selected, flights, loads>>
pageVars == <<route, shown, selected, flights, loads>>
-----------------------------------------------------------------------------
(* The runs on the server.                                                 *)

NoLab == [flat |-> {}, nested |-> {}, captureFailed |-> FALSE, screens |-> 0, console |-> 0, requests |-> 0]
Labs == {NoLab, [NoLab EXCEPT !.captureFailed = TRUE, !.screens = 1],
         [NoLab EXCEPT !.flat = MetricNames, !.screens = 2, !.console = 1, !.requests = 1]}
NewRun(r) ==
    [id |-> r, status |-> "QUEUED", steps |-> <<>>, failedStep |-> 0, category |-> "",
     setup |-> NoScript, lab |-> NoLab, cancel |-> FALSE]
Ended(run) == run.status \notin BrowserActive

\* The first save.  A monitor setup script that fails ends the run before any
\* step is executed.
StartExecution(r) ==
    /\ executed[r].status = "QUEUED"
    /\ \/ executed' = [executed EXCEPT ![r].status = "RUNNING"]
       \/ /\ "SETUP" \in Outcomes[r] /\ PageOf[r] = "api"
          /\ executed' = [executed EXCEPT ![r].status = "FAILED", ![r].category = "SCRIPT_RUNTIME_ERROR",
                                          ![r].setup = Script("FAILED", <<>>)]
    /\ UNCHANGED pageVars

MayHappen(r, outcome) == outcome # "SETUP" /\ (outcome = "CANCELLED" => executed[r].cancel)

\* One turn of the loop of runWithSnapshot: anything but a success or a skipped
\* condition ends the run; a script may have selected any step.
ExecuteStep(r) ==
    /\ PageOf[r] = "api" /\ executed[r].status = "RUNNING" /\ Len(executed[r].steps) < MaxExecuted
    /\ \E outcome \in Outcomes[r],
          def \in IF LoopsAllowed THEN 1..MaxExecuted ELSE {Len(executed[r].steps) + 1} :
        /\ MayHappen(r, outcome)
        /\ LET step == StepRun(def, outcome)
           IN  executed' = [executed EXCEPT ![r].steps = Append(@, step),
                                ![r].status = IF step.error THEN step.status ELSE @,
                                ![r].category = step.category,
                                ![r].failedStep = IF step.error THEN def ELSE 0]
    /\ UNCHANGED pageVars
EndExecution(r) ==
    /\ PageOf[r] = "api" /\ executed[r].status = "RUNNING"
    /\ \/ executed[r].steps # <<>> /\ executed' = [executed EXCEPT ![r].status = "SUCCESS"]
       \/ /\ executed[r].cancel
          /\ executed' = [executed EXCEPT ![r].status = "CANCELLED", ![r].category = "RUN_CANCELLED"]
    /\ UNCHANGED pageVars

\* Steps of which all but the last one came to the same.
StepsRun(length, before, outcome) ==
    [i \in 1..length |-> StepRun(i, IF i = length THEN outcome ELSE before)]
\* The steps of a browser run are saved together when its agent has answered.
FinishJourney(r) ==
    /\ PageOf[r] = "browser" /\ executed[r].status = "RUNNING"
    /\ \E outcome \in Outcomes[r], length \in 1..MaxExecuted, lab \in Labs :
        /\ MayHappen(r, outcome) /\ outcome \in {"SUCCESS", "ASSERTION", "DNS", "CANCELLED"}
        /\ LET last == StepRun(length, outcome)
           IN  executed' = [executed EXCEPT ![r].lab = lab,
                    ![r].steps = StepsRun(length, "SUCCESS", outcome),
                    ![r].status = last.status, ![r].category = last.category,
                    ![r].failedStep = IF last.error THEN length ELSE 0]
    /\ UNCHANGED pageVars
-----------------------------------------------------------------------------
(* The page.                                                               *)

\* Mutant: a queued run is not polled.
ShowsActiveStarted(run) == run.status \in BrowserActive \ {"QUEUED"}
ShowsActive(run) == run.status \in (IF PageOf[route] = "api" THEN ActiveStatuses ELSE BrowserActive)
Default(run) == IF PageOf[run.id] = "api" THEN DefaultStep(run) ELSE BrowserDefaultStep(run)
Rendered == IF PageOf[route] = "api" THEN ApiPage(shown, selected) ELSE BrowserPage(shown, selected)

\* The polling effect is started again when the run becomes active or ceases
\* to be, and on another page; its answers on the way are disposed of then.
\* Of answers disposed of before nothing is kept: they change nothing.
Dispose(answers) ==
    {[f EXCEPT !.disposed = (f.kind = "poll")] : f \in {g \in answers : ~g.disposed}}
Show(run, answers) ==
    /\ shown' = run
    /\ flights' = IF ShowsActive(run) # ShowsActive(shown) THEN Dispose(answers) ELSE answers

\* Mutant: the selection outlives the run it was made in.
OpenKeepingSelection(r) ==
    /\ loads < MaxLoads /\ loads' = loads + 1
    /\ route' = r /\ shown' = executed[r]
    /\ flights' = Dispose(flights)
    /\ UNCHANGED <<executed, selected>>
\* The loader has answered and the page is rendered for its run.
Open(r) ==
    /\ loads < MaxLoads /\ loads' = loads + 1
    /\ route' = r /\ shown' = executed[r] /\ selected' = Default(executed[r])
    /\ flights' = Dispose(flights)
    /\ UNCHANGED executed

\* The timer ticks every second: one request at a time, of a visible page.
Poll ==
    /\ ShowsActive(shown)
    /\ \A f \in flights : f.kind = "poll" => f.disposed
    /\ flights' = flights \cup {[kind |-> "poll", disposed |-> FALSE, run |-> executed[route]]}
    /\ UNCHANGED <<executed, route, shown, selected, loads>>

\* The selection is kept; the first one is the first step.
Deliver(run) ==
    /\ Show(run, flights \ {f \in flights : f.kind = "poll" /\ f.run = run})
    /\ selected' = IF selected # 0 \/ run.steps = <<>> THEN selected ELSE run.steps[1].def
\* Mutant: an answer is shown whoever asked.
AnswerAnyone ==
    /\ \E f \in flights : f.kind = "poll" /\ Deliver(f.run)
    /\ UNCHANGED <<executed, route, loads>>
Answer ==
    /\ \E f \in flights : f.kind = "poll" /\ ~f.disposed /\ Deliver(f.run)
    /\ UNCHANGED <<executed, route, loads>>
\* A poll that fails leaves what is shown, as the answer of one that was
\* disposed of does.
Ignore ==
    /\ \E f \in flights : f.kind = "poll" /\ flights' = flights \ {f}
    /\ UNCHANGED <<executed, route, shown, selected, loads>>

\* The button is offered while the run is active and no cancellation is
\* awaited.  The server ends a queued run at once; others when they notice.
\* The API page takes only a message from the answer.
Cancel ==
    /\ ShowsActive(shown) /\ \A f \in flights : f.kind # "cancel"
    /\ LET run == executed[route]
           after == IF run.status = "QUEUED"
                    THEN [run EXCEPT !.status = "CANCELLED", !.category = "RUN_CANCELLED", !.cancel = TRUE]
                    ELSE IF Ended(run) THEN run ELSE [run EXCEPT !.cancel = TRUE]
       IN  /\ executed' = [executed EXCEPT ![route] = after]
           /\ flights' = IF PageOf[route] = "api" THEN flights
                         ELSE flights \cup {[kind |-> "cancel", disposed |-> FALSE, run |-> after]}
    /\ UNCHANGED <<route, shown, selected, loads>>
\* The browser page shows the run of the answer, whatever it shows by then.
CancelAnswered ==
    /\ \E f \in flights : f.kind = "cancel" /\ Show(f.run, flights \ {f})
    /\ UNCHANGED <<executed, route, selected, loads>>

\* A click on a row selects its definition.
Select ==
    \E i \in DOMAIN shown.steps :
        /\ selected' = shown.steps[i].def /\ selected' # selected
        /\ UNCHANGED <<executed, route, shown, flights, loads>>
-----------------------------------------------------------------------------
\* A run that ended before its page is opened.
PastRun(r, length, before, outcome) ==
    LET last == StepRun(length, outcome)
    IN  [NewRun(r) EXCEPT !.status = last.status, !.category = last.category,
            !.steps = StepsRun(length, before, outcome), !.failedStep = length]
PastRuns(r) ==
    {PastRun(r, length, before, outcome) :
        length \in 1..MaxExecuted, before \in {"SUCCESS", "SKIPPED"},
        outcome \in Outcomes[r] \ {"SUCCESS", "SKIPPED", "SETUP"}}
RunPagesInit ==
    /\ route \in Runs
    /\ \E run \in IF route \in Past THEN PastRuns(route) ELSE {NewRun(route)} :
        executed = [r \in Runs |-> IF r = route THEN run ELSE NewRun(r)]
    /\ shown = executed[route] /\ selected = Default(shown)
    /\ flights = {} /\ loads = 1

\* Of the runs, those whose page may be opened from here: links to other runs
\* of API monitors are on the page (the search palette).
Reachable ==
    IF route \in Past THEN {} ELSE IF PageOf[route] = "browser" THEN {route}
    ELSE {r \in Runs \ Past : PageOf[r] = "api"}
Executing == \E r \in Reachable : StartExecution(r) \/ ExecuteStep(r) \/ EndExecution(r) \/ FinishJourney(r)
Opening == PageOf[route] = "api" /\ \E r \in Reachable : Open(r)
RunPagesNext ==
    \/ Executing \/ Opening \/ Poll \/ Answer \/ Ignore \/ Cancel \/ CancelAnswered \/ Select

RunPagesSpec == RunPagesInit /\ [][RunPagesNext]_runPageVars
\* Runs are executed; the page is visible, its timer ticks, and requests that
\* are repeated are answered at last.
RunPagesFairness ==
    /\ WF_runPageVars(Executing) /\ WF_runPageVars(Poll)
    /\ WF_runPageVars(CancelAnswered) /\ SF_runPageVars(Answer)
FairRunPages == RunPagesSpec /\ RunPagesFairness
-----------------------------------------------------------------------------
(* Properties.                                                             *)

\* What is rendered is well-formed whatever evidence there is, and the step
\* selected on the page of an API run is a step of the run shown.
RunPagesTypeOK ==
    /\ route \in Runs /\ selected \in 0..MaxExecuted /\ loads \in 1..MaxLoads
    /\ DOMAIN Rendered \subseteq {"header", "failed", "insight", "waterfall", "rail", "panel", "live",
                                  "filmstrip", "performance", "network", "events"}
    /\ PageOf[route] = "api" /\ selected # 0 => \E i \in DOMAIN shown.steps : shown.steps[i].def = selected

\* A page shows the run it was opened for, whichever answers are still on
\* their way from an earlier page.
ShowsItsRun == shown.id = route

\* A failed run is explained: the panel names the step that failed, opening it
\* shows the error, and the run is not called successful.  ("You can state what
\* failed, where it failed, why it failed", docs diagnose-first-run.)
FailureTraceable ==
    Ended(shown) /\ shown.status # "SUCCESS" /\ shown.failedStep # 0 =>
        /\ Rendered.failed
        /\ PageOf[route] = "api" =>
            /\ FailurePanel(PrimaryFailure(shown)).step = shown.failedStep
            /\ StepPanel(shown, SelectedStep(shown, PrimaryFailure(shown).step)).alert
        /\ BrowserPage(shown, shown.failedStep).panel.alert

\* A run that is over is shown to be over at last.
FinalStatusShown == <>[](shown.status = executed[route].status /\ Ended(shown))
=============================================================================
