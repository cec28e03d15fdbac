---------------------------- MODULE BrowserAgent ----------------------------
(***************************************************************************)
(* The browser agent (services/browser-agent): an HTTP service that admits *)
(* a bounded number of journeys, plays each in a Chromium context of its   *)
(* own, uploads masked screenshots to the slots the caller presigned, and  *)
(* answers with the evidence and a verdict.  BrowserRuns composes it with  *)
(* the API service that calls it.                                          *)
(*                                                                         *)
(* A journey step is one action: between two steps of a journey the other  *)
(* journeys, the callers and the artifact store move.  Abstracted: pages,  *)
(* locators and pixels (a check holds or not), timings, metrics and the    *)
(* wording of errors, of which the words classifyError looks for remain.   *)
(***************************************************************************)
EXTENDS Integers, Sequences, FiniteSets

CONSTANTS
    Runs,             \* run ids; one request of the API executor each
    MaxConcurrency,   \* maximumConcurrency
    Journey,          \* definition.steps of the revision a run is of
    SlotsPerRun,      \* how many artifactUploads a request carries
    StartTargets,     \* what the start URL may resolve to
    Unrestricted,     \* RHYTHM_BROWSER_UNRESTRICTED_OUTBOUND
    AllowPrivate      \* RHYTHM_BROWSER_ALLOW_PRIVATE_TARGETS

\* The steps of a definition.  An unsupported kind stands for all the kinds
\* evaluateCheck does not know.
NumericKinds == {"COUNT", "PERFORMANCE_BUDGET"}
BooleanKinds == {"ELEMENT_VISIBLE", "ELEMENT_HIDDEN", "ELEMENT_ENABLED", "TEXT", "URL", "TITLE",
                 "NO_JS_ERRORS", "NO_FAILED_REQUESTS", "ACCESSIBILITY_SNAPSHOT"}
CheckKinds == NumericKinds \cup BooleanKinds \cup {"", "UNSUPPORTED"}
Gates == {"BLOCKING", "ADVISORY"}
\* A step or a check is located, or has no locator.
CheckSet ==
    [kind : CheckKinds, gate : Gates, enabled : BOOLEAN, located : BOOLEAN, threshold : Int, operator : STRING]
TargetSet == [protocol : STRING, inOrigins : BOOLEAN, resolves : BOOLEAN, network : STRING]
StepSet ==
    [type : STRING, enabled : BOOLEAN, located : BOOLEAN, checks : Seq(CheckSet), target : TargetSet,
     graph : [source : STRING, gate : Gates, threshold : Int, operator : STRING],
     shot : [taken : BOOLEAN, baseline : BOOLEAN]]

ASSUME AgentAssumption ==
    /\ MaxConcurrency \in Nat \ {0}
    /\ SlotsPerRun \in Nat
    /\ Unrestricted \in BOOLEAN /\ AllowPrivate \in BOOLEAN
    /\ \A r \in Runs : Journey[r] \in Seq(StepSet)

VARIABLES
    call,      \* the POST /v1/execute of a run, as its caller sees it
    phase,     \* where the handler of that request is
    active,    \* activeExecutions
    work,      \* the local variables of execute
    others,    \* requests of other monitors in progress
    reply,     \* the body of the answer, of which the API reads the verdict,
               \* the artifacts and the upload failures
    objects    \* the artifact store: <<run, slot>> pairs

agentVars == <<call, phase, active, others, work, reply, objects>>

CallStates == {"none", "sent", "answered", "rejected", "dropped"}
Phases == {"idle", "body", "open", "steps", "closing", "reply"}
Busy(r) == phase[r] # "idle"

(***************************************************************************)
(* Errors are the sets of words of their messages; classifyError tests the *)
(* words in this order.  (strict mode violation, target closed and allowed *)
(* origin are two-word phrases.)                                           *)
(***************************************************************************)
Classes == <<
    [words |-> {"artifact"}, category |-> "ARTIFACT_POLICY_BLOCKED"],
    [words |-> {"timeout"}, category |-> "TIMED_OUT"],
    [words |-> {"strict mode violation"}, category |-> "SELECTOR_AMBIGUOUS"],
    [words |-> {"locator", "waiting for", "not found"}, category |-> "SELECTOR_NOT_FOUND"],
    [words |-> {"navigation", "net::"}, category |-> "NAVIGATION_FAILED"],
    [words |-> {"target closed", "browser"}, category |-> "BROWSER_CRASH"],
    [words |-> {"allowed origin", "private target"}, category |-> "POLICY_VIOLATION"]>>

ClassifyError(error) ==
    LET matching == {i \in 1..Len(Classes) : Classes[i].words \cap error # {}}
    IN IF matching = {} THEN "ACTION_FAILED"
       ELSE Classes[CHOOSE i \in matching : \A j \in matching : i <= j].category

NavigationErrors == {{"timeout", "navigation"}, {"net::"}, {"target closed", "browser"}}
LocatorErrors == {{"timeout", "locator", "waiting for"}, {"strict mode violation", "locator"},
                  {"target closed", "browser", "locator"}}
ArtifactErrors == {{"timeout"}, {"target closed", "browser"}}
\* buildLocator knows the strategy of a locator, or throws this.
UnknownLocator == {"locator"}
BaselineErrors == {{"artifact"}, {"timeout"}}

(***************************************************************************)
(* validateTarget: what it throws for a target, nothing when it passes.  A *)
(* target resolves or not, is in allowedOrigins or not, and is public,     *)
(* private, or private and on an allow list.                               *)
(***************************************************************************)
TargetErrors(target) ==
    IF target.protocol \notin {"http", "https"} THEN {{"protocol"}}
    ELSE IF ~Unrestricted /\ ~target.inOrigins THEN {{"navigation", "allowed origin"}}
    ELSE IF ~target.resolves THEN {{"getaddrinfo"}}
    ELSE IF ~(Unrestricted \/ AllowPrivate) /\ target.network = "private"
         THEN {{"navigation", "private target"}}
    ELSE {}

\* What performing a step of a type may throw.  NAVIGATE validates its target
\* first; the types that only carry checks do nothing.  Without a locator most
\* types fail on null; SCROLL and WAIT act on the page.
LocatorTypes == {"CLICK", "DOUBLE_CLICK", "FILL", "CLEAR", "SELECT", "CHECK", "UNCHECK",
                 "PRESS", "HOVER", "FOCUS", "SCROLL", "WAIT"}
ActionErrors(step) ==
    CASE step.type = "NAVIGATE" ->
            IF TargetErrors(step.target) # {} THEN TargetErrors(step.target) ELSE NavigationErrors
      [] step.type \in {"RELOAD", "GO_BACK", "GO_FORWARD"} -> NavigationErrors
      [] step.type \in {"SCROLL", "WAIT"} /\ ~step.located -> {{"target closed", "browser"}}
      [] step.type \in LocatorTypes -> IF ~step.located THEN {{"null"}} ELSE LocatorErrors
      [] step.type \in {"EXTRACT", "ASSERT", "SCREENSHOT", "GRAPH_CHECK"} -> {}
      [] OTHER -> {{"unsupported"}}
MayAct(step) ==
    /\ step.type = "NAVIGATE" => TargetErrors(step.target) = {}
    /\ ActionErrors(step) \notin {{{"unsupported"}}, {{"null"}}}

(***************************************************************************)
(* Checks.  "throws" is an observation that failed; NotFinite is NaN.      *)
(***************************************************************************)
NotFinite == -1
CompareNumber(observed, expected, operator) ==
    /\ observed # NotFinite /\ expected # NotFinite
    /\ CASE operator = "GREATER_THAN" -> observed > expected
         [] operator = "GREATER_THAN_OR_EQUAL" -> observed >= expected
         [] operator = "LESS_THAN_OR_EQUAL" -> observed <= expected
         [] operator = "EQUALS" -> observed = expected
         [] operator = "NOT_EQUALS" -> observed # expected
         [] OTHER -> observed < expected

\* Whether a check of a kind passes for some observation; an unsupported kind
\* and an observation that throws never pass.  A check that is switched off is
\* passed over: the place it keeps among the results gates nothing.
EvaluateCheck(check) ==
    IF ~check.enabled THEN {[kind |-> check.kind, gate |-> "off", passed |-> TRUE]}
    ELSE
    {[kind |-> check.kind, gate |-> check.gate, passed |-> FALSE]} \cup
    {[kind |-> check.kind, gate |-> check.gate, passed |-> p] :
        p \in CASE check.kind \in NumericKinds ->
                     {CompareNumber(n, check.threshold, check.operator) : n \in {NotFinite, 0, 1, 2}}
                [] check.kind \in BooleanKinds -> BOOLEAN
                [] OTHER -> {FALSE}}

\* A graph that was not captured fails its gate under a kind of its own; a
\* VISUAL source can only warn.
EvaluateGraph(graph) ==
    LET gate == IF graph.source = "VISUAL" THEN "ADVISORY" ELSE graph.gate
    IN {[kind |-> "GRAPH_SOURCE_MISSING", gate |-> gate, passed |-> FALSE]} \cup
       {[kind |-> "GRAPH_REGRESSION", gate |-> gate,
         passed |-> CompareNumber(n, graph.threshold, graph.operator)] : n \in {NotFinite, 0, 1, 2}}

(***************************************************************************)
(* Artifacts.  The uploader takes the next slot whatever becomes of it.    *)
(* "kept" is a PUT that was answered, "unknown" one that reached the store *)
(* and whose answer did not arrive, "refused" one the store never saw.     *)
(* Without slots the bytes travel inline, within a budget.                 *)
(***************************************************************************)
Upload(w, how) ==
    LET slot == w.slot + 1
    IN IF SlotsPerRun = 0
       THEN IF how = "kept" THEN [w EXCEPT !.artifacts = @ \cup {0}]
                            ELSE [w EXCEPT !.uploadFailures = @ + 1]
       ELSE IF slot > SlotsPerRun THEN [w EXCEPT !.slot = slot, !.uploadFailures = @ + 1]
       ELSE [w EXCEPT !.slot = slot,
                      !.stored = IF how = "refused" THEN @ ELSE @ \cup {slot},
                      !.artifacts = IF how = "kept" THEN @ \cup {slot} ELSE @,
                      !.uploadFailures = IF how = "kept" THEN @ ELSE @ + 1]
UploadKept(w, how) == how = "kept" /\ (SlotsPerRun = 0 \/ w.slot < SlotsPerRun)
Uploads == {"kept", "unknown", "refused"}

\* captureArtifact: a screenshot above the limit takes no slot.
Captures == Uploads \cup {"too large"}
CaptureArtifact(w, how) == IF how = "too large" THEN w ELSE Upload(w, how)

\* The screenshot of a step is a blocking check of its own.
Checked(kind) == {<<c>> : c \in [kind : {kind}, gate : {"BLOCKING"}, passed : BOOLEAN]}
Unmet(kind) == <<[kind |-> kind, gate |-> "BLOCKING", passed |-> FALSE]>>

\* What a part of a step leaves: the artifacts, its results, and what it threw.
Part(w, checks, error) == [w |-> w, checks |-> checks, error |-> error]

\* comparePNGs writes a difference image unless the sizes differ or a file is
\* unreadable; the image takes a slot whether or not the comparison passed.
ComparePNGs(w) ==
    {Part(w, Unmet("VISUAL_REGRESSION"), {})} \cup
    {Part(Upload(w, how), c, {}) : how \in Uploads, c \in Checked("VISUAL_REGRESSION")}

Screenshot(w, shot) ==
    {Part(w, <<>>, e) : e \in ArtifactErrors} \cup
    UNION {LET taken == CaptureArtifact(w, how)
           IN IF ~UploadKept(w, how) THEN {Part(taken, Unmet("ARTIFACT_POLICY_BLOCKED"), {})}
              ELSE IF ~shot.baseline THEN {Part(taken, <<>>, {})}
              ELSE {Part(taken, <<>>, e) : e \in BaselineErrors} \cup ComparePNGs(taken) :
           how \in Captures}

(***************************************************************************)
(* executeStep: the action, the enabled checks, the graph, the screenshot. *)
(* The first of them that throws ends the step with its category; checks   *)
(* that merely fail do not.  evaluateCheck builds its locator outside its  *)
(* try, so that an unknown strategy ends the step after the checks before. *)
(***************************************************************************)
ResultsOf(step, count) ==
    LET places == 1..count
    IN {s \in [places -> UNION {EvaluateCheck(step.checks[i]) : i \in places}] :
            \A i \in places : s[i] \in EvaluateCheck(step.checks[i])}
CheckResults(step) == ResultsOf(step, Len(step.checks))
LocatedChecks(step) == {i \in 1..Len(step.checks) : step.checks[i].enabled /\ step.checks[i].located}

GraphResults(w, step) ==
    IF step.graph.source = "none" THEN {Part(w, <<>>, {})}
    ELSE {Part(w, <<g>>, {}) : g \in EvaluateGraph(step.graph)} \cup
         IF step.graph.source = "NETWORK_JSON" THEN {} ELSE {Part(w, <<>>, e) : e \in LocatorErrors}

ScreenshotResults(w, step) ==
    IF step.shot.taken THEN Screenshot(w, step.shot) ELSE {Part(w, <<>>, {})}

Thrown(error) == IF error = {} THEN "" ELSE ClassifyError(error)

Played(w, checks, category) == [w |-> w, checks |-> checks, category |-> category]

\* An unknown locator among the checks, and a step that went through its parts.
Interrupted(w, step) ==
    UNION {{Played(w, c, ClassifyError(UnknownLocator)) : c \in ResultsOf(step, i - 1)} : i \in LocatedChecks(step)}
Completed(w, step, c, g) ==
    IF g.error # {} THEN {Played(w, c, Thrown(g.error))}
    ELSE {Played(s.w, c \o g.checks \o s.checks, Thrown(s.error)) : s \in ScreenshotResults(w, step)}

ExecuteStep(w, step) ==
    {Played(w, <<>>, ClassifyError(e)) : e \in ActionErrors(step)} \cup
    IF ~MayAct(step) THEN {}
    ELSE Interrupted(w, step) \cup
         UNION {Completed(w, step, x[1], x[2]) : x \in CheckResults(step) \X GraphResults(w, step)}

Failing(checks, gate) == {i \in 1..Len(checks) : ~checks[i].passed /\ checks[i].gate = gate}
FirstBlocking(checks) ==
    checks[CHOOSE i \in Failing(checks, "BLOCKING") : \A j \in Failing(checks, "BLOCKING") : i <= j]

(***************************************************************************)
(* execute.                                                                *)
(***************************************************************************)
NoVerdict == [status |-> "none", category |-> "", failedStep |-> 0]
NewWork == [at |-> 1, steps |-> <<>>, warnings |-> 0, slot |-> 0, stored |-> {},
            artifacts |-> {}, uploadFailures |-> 0, verdict |-> NoVerdict]

LastStep(w) == IF w.steps = <<>> THEN 0 ELSE w.steps[Len(w.steps)].step

Verdict(w, status, category, failedStep) ==
    [w EXCEPT !.verdict = [status |-> status, category |-> category, failedStep |-> failedStep]]

\* Mutant: a journey that timed out is given a status of its own.
CatchTimedOut(w, error, hasPage) ==
    LET failed == Verdict(w, IF ClassifyError(error) = "TIMED_OUT" THEN "TIMED_OUT" ELSE "FAILED",
                          ClassifyError(error), LastStep(w))
    IN {failed} \cup IF hasPage THEN {CaptureArtifact(failed, how) : how \in Captures} ELSE {}

\* The catch block: a screenshot if there is a page, which may fail in turn.
Catch(w, error, hasPage) ==
    LET failed == Verdict(w, "FAILED", ClassifyError(error), LastStep(w))
    IN {failed} \cup IF hasPage THEN {CaptureArtifact(failed, how) : how \in Captures} ELSE {}

\* What the journey is about to say, and the final screenshot, which is taken
\* inside the try block: when it throws, the verdict is that of the catch block.
FailJourney(w, result) ==
    Verdict(w, "FAILED",
            IF result.category # "" THEN result.category
            ELSE IF FirstBlocking(result.checks).kind # "" THEN FirstBlocking(result.checks).kind
            ELSE "ASSERTION_FAILED",
            LastStep(w))

\* Mutant: warnings do not show in the status.
CompleteJourneyUnwarned(w) == Verdict(w, "SUCCESS", "", 0)

CompleteJourney(w) ==
    Verdict(w, IF w.warnings > 0 THEN "SUCCESS_WITH_WARNINGS" ELSE "SUCCESS", "", 0)

Conclude(w) ==
    {CaptureArtifact(w, how) : how \in Captures} \cup UNION {Catch(w, e, TRUE) : e \in ArtifactErrors}

NoReply == [status |-> "none", artifacts |-> {}, uploadFailures |-> 0]

Set(r, w) ==
    /\ UNCHANGED reply
    /\ work' = [work EXCEPT ![r] = w]
    /\ objects' = objects \cup ({r} \X w.stored)

AgentInit ==
    /\ call = [r \in Runs |-> "none"]
    /\ phase = [r \in Runs |-> "idle"]
    /\ active = 0 /\ others = 0
    /\ work = [r \in Runs |-> NewWork]
    /\ reply = [r \in Runs |-> NoReply]
    /\ objects = {}

Answer(r, how) == call' = [call EXCEPT ![r] = IF @ = "sent" THEN how ELSE @]

\* The request handler: the capacity is tested and taken in one turn of the
\* event loop, before the body is read.
Admit(r) ==
    /\ call[r] = "sent" /\ phase[r] = "idle" /\ active < MaxConcurrency
    /\ active' = active + 1
    /\ phase' = [phase EXCEPT ![r] = "body"]
    /\ UNCHANGED <<call, others, work, reply, objects>>

Refuse(r) ==
    /\ call[r] = "sent" /\ phase[r] = "idle" /\ active >= MaxConcurrency
    /\ Answer(r, "rejected")
    /\ UNCHANGED <<phase, active, others, work, reply, objects>>

\* The finally block of the handler.
Leave(r) ==
    /\ phase' = [phase EXCEPT ![r] = "idle"]
    /\ active' = active - 1

\* Mutant: an invalid request is answered without the finally block.
RejectInputLeaking(r) ==
    /\ phase[r] = "body"
    /\ Answer(r, "rejected")
    /\ phase' = [phase EXCEPT ![r] = "idle"]
    /\ UNCHANGED <<active, others, work, reply, objects>>

\* readJSON, validateInput and validateTarget throw out of execute: 422.
RejectInput(r) ==
    /\ phase[r] = "body"
    /\ Answer(r, "rejected")
    /\ Leave(r)
    /\ UNCHANGED <<others, work, reply, objects>>

AcceptInput(r) ==
    /\ phase[r] = "body"
    /\ \E target \in StartTargets : TargetErrors(target) = {}
    /\ Len(Journey[r]) \in 1..100
    /\ phase' = [phase EXCEPT ![r] = "open"]
    /\ Set(r, NewWork)
    /\ UNCHANGED <<call, active, others>>

\* newContext and newPage may throw before there is a page, goto after.
OpenPage(r) ==
    /\ phase[r] = "open"
    /\ \/ /\ phase' = [phase EXCEPT ![r] = "steps"]
          /\ UNCHANGED <<work, reply, objects>>
       \/ /\ phase' = [phase EXCEPT ![r] = "reply"]
          /\ \E w \in Catch(work[r], {"browser", "target closed"}, FALSE)
                      \cup UNION {Catch(work[r], e, TRUE) : e \in NavigationErrors} : Set(r, w)
    /\ UNCHANGED <<call, active, others>>

SkipStep(r) ==
    /\ phase[r] = "steps" /\ work[r].at <= Len(Journey[r]) /\ ~Journey[r][work[r].at].enabled
    /\ Set(r, [work[r] EXCEPT !.at = @ + 1])
    /\ UNCHANGED <<call, phase, active, others>>

Record(result, at) ==
    [result.w EXCEPT
        !.steps = Append(@, [step |-> at, category |-> result.category, checks |-> result.checks]),
        !.warnings = @ + Cardinality(Failing(result.checks, "ADVISORY"))]
Blocks(result) == result.category # "" \/ Failing(result.checks, "BLOCKING") # {}

NextStep(r) == Journey[r][work[r].at]

\* executeStep builds the locator of a step outside its try: the journey ends
\* in the catch block of execute, and the step is not among those played.
StepThrows(r) ==
    /\ phase[r] = "steps" /\ work[r].at <= Len(Journey[r])
    /\ NextStep(r).enabled /\ NextStep(r).located
    /\ \E w \in Catch(work[r], UnknownLocator, TRUE) : Set(r, w)
    /\ phase' = [phase EXCEPT ![r] = "reply"]
    /\ UNCHANGED <<call, active, others>>

RunStep(r) ==
    /\ phase[r] = "steps" /\ work[r].at <= Len(Journey[r]) /\ NextStep(r).enabled
    /\ \E result \in ExecuteStep(work[r], NextStep(r)) :
         LET w == Record(result, work[r].at)
         IN IF Blocks(result)
            THEN /\ Set(r, FailJourney(w, result))
                 /\ phase' = [phase EXCEPT ![r] = "closing"]
            ELSE /\ Set(r, [w EXCEPT !.at = @ + 1])
                 /\ UNCHANGED phase
    /\ UNCHANGED <<call, active, others>>

EndJourney(r) ==
    /\ phase[r] = "steps" /\ work[r].at > Len(Journey[r])
    /\ Set(r, CompleteJourney(work[r]))
    /\ phase' = [phase EXCEPT ![r] = "closing"]
    /\ UNCHANGED <<call, active, others>>

TakeFinalScreenshot(r) ==
    /\ phase[r] = "closing"
    /\ \E w \in Conclude(work[r]) : Set(r, w)
    /\ phase' = [phase EXCEPT ![r] = "reply"]
    /\ UNCHANGED <<call, active, others>>

\* finish, context.close and the answer.  A caller that has gone away does
\* not stop a journey, and does not hear of it.
Respond(r) ==
    /\ phase[r] = "reply"
    /\ Answer(r, "answered")
    /\ reply' = [reply EXCEPT ![r] =
           IF call[r] # "sent" THEN @
           ELSE [status |-> work[r].verdict.status, artifacts |-> work[r].artifacts,
                 uploadFailures |-> work[r].uploadFailures]]
    /\ work' = [work EXCEPT ![r] = NewWork]
    /\ Leave(r)
    /\ UNCHANGED <<others, objects>>

\* The same handler, for the journeys of other monitors.
AdmitOther ==
    /\ active < MaxConcurrency
    /\ active' = active + 1 /\ others' = others + 1
    /\ UNCHANGED <<call, phase, work, reply, objects>>

LeaveOther ==
    /\ others > 0
    /\ active' = active - 1 /\ others' = others - 1
    /\ UNCHANGED <<call, phase, work, reply, objects>>

\* The process is killed and started again: connections break.
AgentRestart ==
    /\ phase' = [r \in Runs |-> "idle"]
    /\ active' = 0 /\ others' = 0
    /\ work' = [r \in Runs |-> NewWork]
    /\ call' = [r \in Runs |-> IF phase[r] # "idle" /\ call[r] = "sent" THEN "rejected" ELSE call[r]]
    /\ UNCHANGED <<reply, objects>>

AgentStep(r) ==
    \/ Admit(r) \/ Refuse(r) \/ RejectInput(r) \/ AcceptInput(r) \/ OpenPage(r)
    \/ SkipStep(r) \/ StepThrows(r) \/ RunStep(r) \/ EndJourney(r) \/ TakeFinalScreenshot(r) \/ Respond(r)

(***************************************************************************)
(* Properties of the agent.                                                *)
(***************************************************************************)
\* The counter that refuses requests counts the requests in progress, whatever
\* way each of them ends and whether or not its caller waits: no slot of the
\* agent leaks (activeExecutions, server.mjs:64-100).
CapacityExact ==
    /\ active = others + Cardinality({r \in Runs : Busy(r)})
    /\ active <= MaxConcurrency

\* The verdict agrees with the evidence that is sent along: a success played
\* every enabled step and no blocking check failed; it comes with warnings
\* exactly when an advisory check failed; a failure names its category and, as
\* failed step, the last step that was played (execute, server.mjs:228-372).
EnabledSteps(r) == {i \in 1..Len(Journey[r]) : Journey[r][i].enabled}
VerdictMatchesEvidence ==
    \A r \in Runs : phase[r] = "reply" =>
        LET w == work[r]
            played == {w.steps[i].step : i \in 1..Len(w.steps)}
            failed == \E i \in 1..Len(w.steps) : Blocks(w.steps[i])
            advisory == \E i \in 1..Len(w.steps) : Failing(w.steps[i].checks, "ADVISORY") # {}
        IN CASE w.verdict.status = "SUCCESS" -> played = EnabledSteps(r) /\ ~failed /\ ~advisory
             [] w.verdict.status = "SUCCESS_WITH_WARNINGS" -> played = EnabledSteps(r) /\ ~failed /\ advisory
             [] w.verdict.status = "FAILED" ->
                    /\ w.verdict.category # ""
                    /\ failed => w.verdict.failedStep = w.steps[Len(w.steps)].step
             [] OTHER -> FALSE
=============================================================================
