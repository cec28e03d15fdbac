----------------------------- MODULE SuitePages -----------------------------
(***************************************************************************)
(* The page of the validation suites (routes/suites.tsx): the builder of a *)
(* suite, the run that is followed, and the wizard that starts a           *)
(* deployment validation (features/suites/deployment-workflow.tsx).        *)
(*                                                                         *)
(* A check is what the server's guard and the gate tell apart: its kind,   *)
(* whether its target is chosen, whether it is required and its gate mode. *)
(* Calls to the server are answered late and in any order.                 *)
(***************************************************************************)
EXTENDS Naturals, Sequences, FiniteSets, SequencesExt

CONSTANTS
    Offered,        \* kinds the loader found a target for
    Bound,          \* the first application has a Dynatrace environment
    MaxStages, MaxChecks, MaxEdits,   \* bounds: of a suite, and edits of it
    SuiteNames,     \* suites in the list
    MaxSuiteRuns    \* bound: runs that are started

Kinds == {"MONITOR", "BROWSER_MONITOR", "ELF_QUERY", "OPENSEARCH_ALERT", "DYNATRACE_INFRASTRUCTURE"}
ASSUME SuitePagesAssumption ==
    /\ Offered \subseteq Kinds /\ Bound \in BOOLEAN
    /\ MaxStages \in Nat \ {0} /\ MaxChecks \in Nat \ {0} /\ MaxEdits \in Nat /\ MaxSuiteRuns \in Nat
    /\ IsFiniteSet(SuiteNames)

VARIABLES
    builder,     \* open, editing, named and stages
    saving,      \* payloads on their way to the server, at most one
    ensuring,    \* places a Dynatrace environment is awaited for, and by what
    stored,      \* the suite in the list, on the server; <<>> once deleted
    deletion,    \* the delete dialog: "closed", "open", "pending"
    edits,
    suiteRuns,   \* the runs on the server
    loops,       \* run -> "none", "starting", "following", or "cut" by a rejected call
    latest,      \* the run shown, 0 for none, and its status as fetched last
    running,     \* the suite whose button is busy
    gaveUp,      \* since a run was started last, the page said that a refresh failed
    wizard,      \* step, choice, window, preview, loading, error
    previews     \* requests for a preview of the baseline

builderVars == <<builder, saving, ensuring, stored, deletion, edits>>
followVars == <<suiteRuns, loops, latest, running, gaveUp>>
wizardVars == <<wizard, previews>>
suiteVars == <<builderVars, followVars, wizardVars>>
-----------------------------------------------------------------------------
(* The builder.                                                            *)

FirstCheck(id) ==
    [id |-> id, kind |-> "MONITOR", target |-> "MONITOR" \in Offered, required |-> TRUE, gate |-> "ADVISORY"]
NewStage(n, named) == [id |-> n, named |-> named, checks |-> <<FirstCheck(<<n, 1>>)>>]
NewBuilder == [open |-> FALSE, editing |-> FALSE, named |-> FALSE, stages |-> <<NewStage(1, TRUE)>>]

\* A template without a name of its own, as the list has it.
StoredSuite == <<NewStage(1, TRUE)>>

\* An edit of one place; there is none when the place is gone.
Edit == edits < MaxEdits /\ edits' = edits + 1
UpdateStage(i, stage) == builder' = [builder EXCEPT !.stages = ReplaceAt(@, i, stage)]
UpdateCheck(i, j, check) ==
    UpdateStage(i, [builder.stages[i] EXCEPT !.checks = ReplaceAt(@, j, check)])
CheckPlaces == {p \in (1..MaxStages) \X (1..MaxChecks) :
              p[1] \in DOMAIN builder.stages /\ p[2] \in DOMAIN builder.stages[p[1]].checks}

OpenCreateBuilder ==
    /\ Edit /\ builder' = [NewBuilder EXCEPT !.open = TRUE]
    /\ UNCHANGED <<saving, ensuring, stored, deletion>>
\* Editing may be asked for while a save is still on its way.
OpenEditBuilder ==
    /\ Edit /\ stored # <<>>
    /\ builder' = [open |-> TRUE, editing |-> TRUE, named |-> TRUE, stages |-> stored]
    /\ UNCHANGED <<saving, ensuring, stored, deletion>>
CloseBuilder ==
    /\ builder.open /\ saving = {} /\ builder' = NewBuilder
    /\ UNCHANGED <<saving, ensuring, stored, deletion, edits>>
Rename ==
    /\ Edit /\ builder.open /\ builder' = [builder EXCEPT !.named = ~@]
    /\ UNCHANGED <<saving, ensuring, stored, deletion>>
NameStage ==
    /\ Edit /\ builder.open
    /\ \E i \in DOMAIN builder.stages :
        UpdateStage(i, [builder.stages[i] EXCEPT !.named = ~@])
    /\ UNCHANGED <<saving, ensuring, stored, deletion>>

\* Identifiers count what is there, not what was there.
AddStage ==
    /\ Edit /\ builder.open /\ Len(builder.stages) < MaxStages
    /\ builder' = [builder EXCEPT !.stages = Append(@, NewStage(Len(@) + 1, FALSE))]
    /\ UNCHANGED <<saving, ensuring, stored, deletion>>
AddCheck ==
    /\ Edit /\ builder.open
    /\ \E i \in DOMAIN builder.stages :
        LET stage == builder.stages[i]
        IN  /\ Len(stage.checks) < MaxChecks
            /\ UpdateStage(i, [stage EXCEPT !.checks = Append(@, FirstCheck(<<stage.id, Len(@) + 1>>))])
    /\ UNCHANGED <<saving, ensuring, stored, deletion>>
RemoveStage ==
    /\ Edit /\ builder.open /\ Len(builder.stages) > 1
    /\ \E i \in DOMAIN builder.stages : builder' = [builder EXCEPT !.stages = RemoveAt(@, i)]
    /\ UNCHANGED <<saving, ensuring, stored, deletion>>
RemoveCheck ==
    /\ Edit /\ builder.open
    /\ \E p \in CheckPlaces :
        LET stage == builder.stages[p[1]]
        IN  /\ Len(stage.checks) > 1
            /\ UpdateStage(p[1], [stage EXCEPT !.checks = RemoveAt(@, p[2])])
    /\ UNCHANGED <<saving, ensuring, stored, deletion>>

\* Mutant: the gate mode of the former kind is kept.
OfKindGated(check, kind, target) ==
    [check EXCEPT !.kind = kind, !.target = target,
                  !.required = (kind \notin {"ELF_QUERY", "DYNATRACE_INFRASTRUCTURE"})]
\* What a check becomes when its kind is chosen: the first target, and all
\* fields of the other kinds empty.
OfKind(check, kind, target) ==
    [check EXCEPT !.kind = kind, !.target = target, !.gate = "ADVISORY",
                  !.required = (kind \notin {"ELF_QUERY", "DYNATRACE_INFRASTRUCTURE"})]
\* A Dynatrace check of an application that has no environment waits for one,
\* and is then written to the place it was chosen at.
ChooseKind ==
    /\ Edit /\ builder.open
    /\ \E p \in CheckPlaces, kind \in Kinds :
        IF kind = "DYNATRACE_INFRASTRUCTURE" /\ kind \in Offered /\ ~Bound
        THEN ensuring' = ensuring \cup {[place |-> p, by |-> "kind"]} /\ UNCHANGED builder
        ELSE /\ UpdateCheck(p[1], p[2],
                    OfKind(builder.stages[p[1]].checks[p[2]], kind, kind \in Offered))
             /\ UNCHANGED ensuring
    /\ UNCHANGED <<saving, stored, deletion>>
Ensured ==
    /\ \E e \in ensuring, ok \in BOOLEAN :
        /\ ensuring' = ensuring \ {e}
        /\ LET check == builder.stages[e.place[1]].checks[e.place[2]]
           IN  IF e.place \notin CheckPlaces THEN UNCHANGED builder
               ELSE UpdateCheck(e.place[1], e.place[2],
                    CASE e.by = "kind" -> OfKind(check, "DYNATRACE_INFRASTRUCTURE", ok)
                      [] e.by = "application" /\ check.kind = "DYNATRACE_INFRASTRUCTURE" -> [check EXCEPT !.target = ok]
                      [] OTHER -> check)
    /\ UNCHANGED <<saving, stored, deletion, edits>>
\* A target of the kind; an ELF query brings its own gate mode.
ChooseTarget ==
    /\ Edit /\ builder.open
    /\ \E p \in CheckPlaces, blocking \in BOOLEAN :
        LET check == builder.stages[p[1]].checks[p[2]]
        IN  /\ check.kind \in Offered
            /\ IF check.kind = "DYNATRACE_INFRASTRUCTURE" /\ ~Bound
               THEN ensuring' = ensuring \cup {[place |-> p, by |-> "application"]} /\ UNCHANGED builder
               ELSE /\ UpdateCheck(p[1], p[2],
                        [check EXCEPT !.target = TRUE,
                            !.required = IF check.kind = "ELF_QUERY" THEN blocking ELSE @])
                    /\ UNCHANGED ensuring
    /\ UNCHANGED <<saving, stored, deletion>>
ToggleRequired ==
    /\ Edit /\ builder.open
    /\ \E p \in CheckPlaces :
        LET check == builder.stages[p[1]].checks[p[2]]
        IN  /\ check.kind # "ELF_QUERY"
            /\ UpdateCheck(p[1], p[2],
                 [check EXCEPT !.required = ~@,
                    !.gate = IF check.kind # "DYNATRACE_INFRASTRUCTURE" THEN @
                             ELSE IF check.required THEN "ADVISORY" ELSE "BLOCKING"])
    /\ UNCHANGED <<saving, ensuring, stored, deletion>>
-----------------------------------------------------------------------------
(* Saving and deletion.                                                    *)

\* The guard of the page, and that of the server.
\* Mutant: only monitors need a target.
SaveDisabledByMonitors(b) ==
    \/ ~b.named
    \/ \E i \in DOMAIN b.stages :
        \/ ~b.stages[i].named
        \/ \E j \in DOMAIN b.stages[i].checks :
              ~b.stages[i].checks[j].target /\ b.stages[i].checks[j].kind \in {"MONITOR", "BROWSER_MONITOR"}
SaveDisabled(b) ==
    \/ ~b.named
    \/ \E i \in DOMAIN b.stages :
        ~b.stages[i].named \/ \E j \in DOMAIN b.stages[i].checks : ~b.stages[i].checks[j].target
WellFormed(b) ==
    /\ b.named /\ b.stages # <<>>
    /\ \A i \in DOMAIN b.stages :
        /\ b.stages[i].named /\ b.stages[i].checks # <<>>
        /\ \A j \in DOMAIN b.stages[i].checks : b.stages[i].checks[j].target
CheckIds(b) == FlattenSeq([i \in DOMAIN b.stages |-> [j \in DOMAIN b.stages[i].checks |-> b.stages[i].checks[j].id]])
Accepted(b) == WellFormed(b) /\ IsInjective(CheckIds(b)) /\ (b.editing => stored # <<>>)

Save ==
    /\ builder.open /\ saving = {} /\ ~SaveDisabled(builder)
    /\ saving' = {builder}
    /\ UNCHANGED <<builder, ensuring, stored, deletion, edits>>
\* A save that succeeds closes the builder, whatever is open by then.
Saved ==
    /\ \E b \in saving :
        IF Accepted(b) THEN /\ builder' = NewBuilder
                            /\ stored' = IF b.editing THEN b.stages ELSE stored
                       ELSE UNCHANGED <<builder, stored>>
    /\ saving' = {}
    /\ UNCHANGED <<ensuring, deletion, edits>>
RequestDelete ==
    /\ Edit /\ stored # <<>> /\ deletion = "closed" /\ deletion' = "open"
    /\ UNCHANGED <<builder, saving, ensuring, stored>>
AnswerDialog ==
    /\ deletion = "open" /\ deletion' \in {"closed", "pending"}
    /\ UNCHANGED <<builder, saving, ensuring, stored, edits>>
Deleted ==
    /\ deletion = "pending"
    /\ \/ /\ stored' = <<>> /\ deletion' = "closed"
          /\ builder' = IF builder.editing THEN NewBuilder ELSE builder
       \/ deletion' = "open" /\ UNCHANGED <<stored, builder>>
    /\ UNCHANGED <<saving, ensuring, edits>>

BuilderNext ==
    /\ \/ OpenCreateBuilder \/ OpenEditBuilder \/ CloseBuilder \/ Rename \/ NameStage \/ AddStage \/ AddCheck
       \/ RemoveStage \/ RemoveCheck \/ ChooseKind \/ Ensured \/ ChooseTarget \/ ToggleRequired
       \/ Save \/ Saved \/ RequestDelete \/ AnswerDialog \/ Deleted
    /\ UNCHANGED <<followVars, wizardVars>>
-----------------------------------------------------------------------------
(* Following a run.  Each click on a Run button starts a loop of its own.  *)

RunIds == 1..MaxSuiteRuns
NotRun == [suite |-> "none", status |-> "none"]
\* Mutant: a run whose cancellation was asked for is no longer polled.
FollowedUnlessCancelling(status) == status \in {"QUEUED", "RUNNING"}
Followed(status) == status \in {"QUEUED", "RUNNING", "CANCELLING"}
NoRun == [run |-> 0, status |-> "none"]

Execute ==
    /\ \E r \in RunIds, s \in SuiteNames :
        /\ suiteRuns[r] = NotRun /\ \A p \in 1..(r - 1) : suiteRuns[p] # NotRun
        /\ running # s /\ running' = s
        /\ suiteRuns' = [suiteRuns EXCEPT ![r] = [suite |-> s, status |-> "QUEUED"]]
        /\ loops' = [loops EXCEPT ![r] = "starting"]
    /\ latest' = NoRun /\ gaveUp' = FALSE
Started ==
    /\ \E r \in RunIds :
        /\ loops[r] = "starting"
        /\ latest' = [run |-> r, status |-> suiteRuns[r].status]
        /\ IF Followed(suiteRuns[r].status)
           THEN loops' = [loops EXCEPT ![r] = "following"] /\ UNCHANGED running
           ELSE loops' = [loops EXCEPT ![r] = "none"] /\ running' = "none"
    /\ UNCHANGED <<suiteRuns, gaveUp>>
NotStarted ==
    /\ \E r \in RunIds : loops[r] = "starting" /\ loops' = [loops EXCEPT ![r] = "none"]
    /\ running' = "none"
    /\ UNCHANGED <<suiteRuns, latest, gaveUp>>
\* One turn of a loop: the answer is shown whichever run is shown by then.
Refresh ==
    /\ \E r \in RunIds :
        /\ loops[r] = "following"
        /\ latest' = [run |-> r, status |-> suiteRuns[r].status]
        /\ IF Followed(suiteRuns[r].status) THEN UNCHANGED <<loops, running>>
           ELSE loops' = [loops EXCEPT ![r] = "none"] /\ running' = "none"
    /\ UNCHANGED <<suiteRuns, gaveUp>>
\* The server answered with a failure: the page says so.
RefreshFails ==
    /\ \E r \in RunIds : loops[r] = "following" /\ loops' = [loops EXCEPT ![r] = "none"]
    /\ running' = "none" /\ gaveUp' = TRUE
    /\ UNCHANGED <<suiteRuns, latest>>
\* The call itself is rejected: nothing catches it, so that the loop stops where it is,
\* what is shown stays as it is, and the suite's button stays busy.
CallRejected ==
    /\ \E r \in RunIds : loops[r] \in {"starting", "following"} /\ loops' = [loops EXCEPT ![r] = "cut"]
    /\ UNCHANGED <<suiteRuns, latest, running, gaveUp>>
\* The runs on the server, and another user who cancels one.
Advance ==
    /\ \E r \in RunIds, to \in {"RUNNING", "SUCCESS", "FAILED", "CANCELLED"} :
        /\ CASE suiteRuns[r].status = "QUEUED" -> to = "RUNNING"
             [] suiteRuns[r].status = "RUNNING" -> to \in {"SUCCESS", "FAILED"}
             [] suiteRuns[r].status = "CANCELLING" -> to = "CANCELLED"
             [] OTHER -> FALSE
        /\ suiteRuns' = [suiteRuns EXCEPT ![r].status = to]
    /\ UNCHANGED <<loops, latest, running, gaveUp>>
CancelElsewhere ==
    /\ \E r \in RunIds :
        /\ suiteRuns[r].status \in {"QUEUED", "RUNNING"}
        /\ suiteRuns' = [suiteRuns EXCEPT ![r].status = IF @ = "QUEUED" THEN "CANCELLED" ELSE "CANCELLING"]
    /\ UNCHANGED <<loops, latest, running, gaveUp>>

FollowNext ==
    /\ \/ Execute \/ Started \/ NotStarted \/ Refresh \/ RefreshFails \/ CallRejected
       \/ Advance \/ CancelElsewhere
    /\ UNCHANGED <<builderVars, wizardVars>>

\* What is shown of it: the icon, the title, and the badge of each result.
ResultBadge(status) == IF status = "SUCCESS" THEN "green" ELSE "red"
ResultLink(check) ==
    CASE check.kind = "MONITOR" -> "/monitors" [] check.kind = "BROWSER_MONITOR" -> "/ui-monitoring"
      [] check.kind = "ELF_QUERY" -> "/elf" [] check.kind = "OPENSEARCH_ALERT" -> "/alerts" [] OTHER -> "none"
RunResult(status, gate) ==
    [icon |-> IF Followed(status) THEN "busy" ELSE IF gate # "BLOCK" THEN "green" ELSE "red",
     title |-> IF Followed(status) THEN "Validation in progress" ELSE gate]
SuiteRow(suite, stages) ==
    [busy |-> running = suite, stages |-> Len(stages), edit |-> TRUE, delete |-> TRUE]
-----------------------------------------------------------------------------
(* The wizard of a deployment validation.                                  *)

Suites == 1..2
Windows == {"24h", "7d"}
\* Every change of step, suite or window disposes of the request that is on
\* its way; on the second step another one is made.
Effect(w) ==
    /\ wizard' = IF w.step = 2 THEN [w EXCEPT !.loading = TRUE, !.error = FALSE] ELSE w
    /\ previews' =
        LET disposed == {[p EXCEPT !.cancelled = TRUE] : p \in previews}
        IN  IF w.step = 2
            THEN disposed \cup {[suite |-> w.suite, window |-> w.window, cancelled |-> FALSE]}
            ELSE disposed
ChooseSuite ==
    /\ wizard.step = 1
    /\ \E s \in Suites \ {wizard.suite} : Effect([wizard EXCEPT !.suite = s])
ChooseWindow ==
    /\ wizard.step = 2
    /\ \E v \in Windows \ {wizard.window} : Effect([wizard EXCEPT !.window = v])
Continue ==
    /\ wizard.step < 4 /\ Effect([wizard EXCEPT !.step = @ + 1])
Back ==
    /\ wizard.step > 1 /\ ~wizard.pending /\ Effect([wizard EXCEPT !.step = @ - 1])
PreviewAnswered ==
    \E p \in previews :
        /\ previews' = previews \ {p}
        /\ \/ p.cancelled /\ UNCHANGED wizard
           \/ ~p.cancelled /\ wizard' = [wizard EXCEPT !.preview = <<p.suite, p.window>>, !.loading = FALSE]
           \/ ~p.cancelled /\ wizard' = [wizard EXCEPT !.preview = <<>>, !.error = TRUE, !.loading = FALSE]
StartValidation ==
    /\ wizard.step = 4 /\ ~wizard.pending /\ wizard' = [wizard EXCEPT !.pending = TRUE]
    /\ UNCHANGED previews
\* A start that succeeds leaves the page; one that is refused is told of.
StartAnswered ==
    /\ wizard.pending
    /\ \E ok \in BOOLEAN : wizard' = [wizard EXCEPT !.pending = FALSE, !.left = ok]
    /\ UNCHANGED previews

WizardNext ==
    /\ ~wizard.left
    /\ \/ ChooseSuite \/ ChooseWindow \/ Continue \/ Back \/ PreviewAnswered \/ StartValidation \/ StartAnswered
    /\ UNCHANGED <<builderVars, followVars>>

\* What the steps show.
BaselineStep(w) ==
    IF w.loading THEN "loading" ELSE IF w.error THEN "error"
    ELSE IF w.preview # <<>> THEN "samples of each monitor" ELSE ""
CheckCounts(stages) ==
    LET checks == FlattenSeq([i \in DOMAIN stages |-> stages[i].checks])
    IN  [kind \in Kinds |-> Cardinality({j \in DOMAIN checks : checks[j].kind = kind})]
SamplingStep(w) == IF w.preview # <<>> THEN "estimate of the preview" ELSE "estimate of the interval"
ReviewStep(w) == [suite |-> w.suite, window |-> w.window, start |-> ~w.pending]
WizardPage(w) ==
    [current |-> w.step, back |-> w.step > 1 /\ ~w.pending,
     panel |-> CASE w.step = 2 -> BaselineStep(w) [] w.step = 3 -> SamplingStep(w) [] OTHER -> ""]
\* The list of runs: progress is shown of those that have not ended.
DeploymentRunRow(run) ==
    [progress |-> run.status \notin {"COMPLETED", "FAILED", "CANCELLED"},
     badge |-> CASE run.gate = "BLOCK" -> "red" [] run.gate = "ALLOW" -> "green"
                 [] run.gate = "ALLOW_WITH_WARNINGS" -> "amber" [] OTHER -> "plain"]
-----------------------------------------------------------------------------
SuitePagesInit ==
    /\ builder = NewBuilder /\ saving = {} /\ ensuring = {} /\ stored = StoredSuite
    /\ deletion = "closed" /\ edits = 0
    /\ suiteRuns = [r \in RunIds |-> NotRun] /\ loops = [r \in RunIds |-> "none"]
    /\ latest = NoRun /\ running = "none" /\ gaveUp = FALSE
    /\ wizard = [step |-> 1, suite |-> 1, window |-> "24h", preview |-> <<>>, loading |-> FALSE,
                 error |-> FALSE, pending |-> FALSE, left |-> FALSE]
    /\ previews = {}

SuiteNext == BuilderNext \/ FollowNext \/ WizardNext
SuiteSpec == SuitePagesInit /\ [][SuiteNext]_suiteVars

\* Runs go on, and the loops that follow them are answered.
FollowFairness == WF_suiteVars(Advance /\ UNCHANGED <<builderVars, wizardVars>>) /\
    WF_suiteVars(Started /\ UNCHANGED <<builderVars, wizardVars>>) /\
    \A r \in RunIds :
        WF_suiteVars(loops[r] = "following" /\ Refresh /\ latest'.run = r /\ UNCHANGED <<builderVars, wizardVars>>)
-----------------------------------------------------------------------------
(* Properties.                                                             *)

\* What is sent is what the server's guard lets through, but for identifiers
\* that repeat (a check removed, another added) and a suite deleted meanwhile.
SuitePagesTypeOK ==
    /\ deletion \in {"closed", "open", "pending"} /\ edits \in 0..MaxEdits
    /\ Cardinality(saving) <= 1 /\ \A b \in saving : WellFormed(b)
    /\ \A r \in RunIds : loops[r] # "none" => suiteRuns[r] # NotRun

GateAgrees(check) ==
    check.gate = IF check.kind = "DYNATRACE_INFRASTRUCTURE" /\ check.required THEN "BLOCKING" ELSE "ADVISORY"
AllAgree(stages) == \A i \in DOMAIN stages : \A j \in DOMAIN stages[i].checks : GateAgrees(stages[i].checks[j])

\* The fields of a check agree with its kind, in whatever order kinds, targets
\* and the Required box were changed and late environments arrived: the gate
\* mode is that of a Dynatrace check, and says what the box says. That is so of
\* what is edited, what is on its way to the server and what is stored.
GateFollowsKind == AllAgree(builder.stages) /\ AllAgree(stored) /\ \A b \in saving : AllAgree(b.stages)

\* On its second step the wizard shows the baseline of the choices made,
\* whichever requests are still on their way.
PreviewIsCurrent ==
    wizard.step = 2 /\ BaselineStep(wizard) \notin {"loading", "error"} =>
        wizard.preview = <<wizard.suite, wizard.window>>

\* The page ends up showing a run that ended, unless it said that a refresh failed or
\* the loop of the very run it shows was cut by a rejected call, which nothing tells of.
\* However many runs are followed at once, a loop that was cut leaves the others going.
ShownWasCut == \E r \in RunIds : loops[r] = "cut" /\ latest.run = r
FollowedToEnd == <>[](gaveUp \/ ShownWasCut \/ latest.status \in {"none", "SUCCESS", "FAILED", "CANCELLED"})
=============================================================================
