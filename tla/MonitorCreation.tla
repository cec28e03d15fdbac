-------------------------- MODULE MonitorCreation ---------------------------
(***************************************************************************)
(* The creation of a monitor: the form (routes/monitors/new.tsx), the      *)
(* server function that makes several requests of the API in a row         *)
(* (createMonitor, lib/api-client/monitors.ts), and what the API keeps.    *)
(*                                                                         *)
(* Each request may be refused, and its answer may be lost after it has,   *)
(* has not or will take effect.  The browser may also lose the server      *)
(* function, which then goes on while the user submits again: the API      *)
(* recognises the form by an identifier drawn once per page.  It looks for *)
(* it before it creates, one request at a time on each of its replicas.    *)
(***************************************************************************)
EXTENDS Naturals, Sequences, FiniteSets

CONSTANTS
    Slugs,          \* what the form may send; a different slug is a different fingerprint
    Taken,          \* slugs other monitors have
    MaxTries,       \* bound: submissions of the form
    MaxFormEdits,   \* bound: changes of the form
    MaxPreviews,    \* bound: previews
    Replicas        \* how many processes serve the API

ASSUME CreationAssumption ==
    /\ Taken \subseteq Slugs /\ MaxTries \in Nat /\ MaxFormEdits \in Nat /\ MaxPreviews \in Nat
    /\ Replicas \in Nat \ {0}

VARIABLES
    form,        \* problem, slug, enabled, timed
    formEdits,
    page,        \* waits: the try it awaits, 0 for none; saved: the form is locked; error; left
    calls,       \* try -> the server function: stage, and the form it was given
    late,        \* requests that were given up and have yet to land
    monitors,    \* the monitors this form created, on the server
    unseen,      \* history: a lookup failed, or found nothing while another replica was creating
    trial        \* the previews: the last, the one asked for, the one shown, those in flight

creationVars == <<form, formEdits, page, calls, late, monitors, unseen, trial>>

Problems == {"none", "url", "json", "fields"}
Submissions == 1..MaxTries
NoCall == [stage |-> "none"]
-----------------------------------------------------------------------------
(* The API.                                                                *)

\* Configure and SetState: a schedule runs when its monitor is enabled.
Scheduled(timed, enabled) == IF ~timed THEN "manual" ELSE IF enabled THEN "running" ELSE "waiting"
NewMonitor(slug) == [slug |-> slug, published |-> FALSE, enabled |-> FALSE, schedule |-> "none"]

\* Mutant: the identifier of the form is not looked up.
LookedUpNever == {0}
\* What a lookup of the form's identifier finds: a monitor that has it, or 0.
LookedUp == IF monitors = <<>> THEN {0} ELSE DOMAIN monitors
Unique(slug) == slug \notin Taken /\ \A n \in DOMAIN monitors : monitors[n].slug # slug

\* What becomes of a request to create: one whose identifier is known is
\* answered with the monitor that has it, unless that had other fields.
Looked(request, n) ==
    CASE n = 0 -> [request EXCEPT !.stage = "creating"]
      [] n # 0 /\ monitors[n].slug = request.slug -> [request EXCEPT !.stage = "schedule", !.monitor = n]
      [] OTHER -> [request EXCEPT !.stage = "refused"]

\* What a request makes of the monitors; one that is refused, nothing.
EffectOf(request) ==
    CASE request.stage = "creating" ->
            IF Unique(request.slug) THEN Append(monitors, NewMonitor(request.slug)) ELSE monitors
      [] request.stage = "schedule" -> monitors
      [] request.stage = "scheduling" ->
            [monitors EXCEPT ![request.monitor].schedule = Scheduled(request.timed \/ request.retry, request.seen)]
      [] request.stage = "publish" -> [monitors EXCEPT ![request.monitor].published = TRUE]
      [] request.stage \in {"enable", "enableAgain"} ->
            IF ~monitors[request.monitor].published THEN monitors
            ELSE [monitors EXCEPT ![request.monitor].enabled = TRUE,
                                  ![request.monitor].schedule = IF @ = "none" THEN @ ELSE Scheduled(@ # "manual", TRUE)]
Refused(request) ==
    \/ request.stage = "creating" /\ ~Unique(request.slug)
    \/ request.stage \in {"enable", "enableAgain"} /\ ~monitors[request.monitor].published
\* The schedule is activated by a second statement, which may fail.
HalfEnabled(request) == [monitors EXCEPT ![request.monitor].enabled = TRUE]

\* The requests that have looked in vain and have yet to create; each holds the
\* lock of its replica.
CreatingNow == {t \in Submissions : calls[t].stage = "creating"}
CreatingLate == {request \in late : request.stage = "creating"}
Served == Cardinality(CreatingNow) + Cardinality(CreatingLate) < Replicas
Raced == CreatingNow # {} \/ CreatingLate # {}
-----------------------------------------------------------------------------
(* The server function.                                                    *)

GoTo(t, stage) == calls' = [calls EXCEPT ![t].stage = stage]
InStage(t, stages) == calls[t].stage \in stages

\* What a request answered with success leads to.
NextStage(call) ==
    CASE call.stage = "creating" -> "schedule"
      [] call.stage = "scheduling" /\ call.retry -> IF call.seen THEN "verify" ELSE "enableAgain"
      [] call.stage = "scheduling" -> IF call.enabled THEN "publish" ELSE "ok"
      [] call.stage = "publish" -> "enable"
      [] call.stage = "enable" -> "check"
      [] call.stage = "enableAgain" -> "verify"
\* A refusal ends the call, and the page is told the monitor once there is
\* one; saving and enabling once more need not succeed.
RefusedStage(call) ==
    CASE call.stage = "creating" -> "refused"
      [] call.stage = "enableAgain" -> "verify"
      [] call.retry -> "enableAgain"
      [] OTHER -> "partial"

WriteStages == {"creating", "scheduling", "publish", "enable", "enableAgain"}
\* The monitor of the form is looked for; a lookup that fails finds nothing.
CreateLookup(t) ==
    /\ InStage(t, {"create"}) /\ Served /\ UNCHANGED <<monitors, late>>
    /\ \/ \E n \in LookedUp :
            /\ calls' = [calls EXCEPT ![t] = Looked(calls[t], n)]
            /\ unseen' = (unseen \/ (n = 0 /\ Raced))
       \/ calls' = [calls EXCEPT ![t] = Looked(calls[t], 0)] /\ unseen' = TRUE
       \/ GoTo(t, "refused") /\ UNCHANGED unseen
\* Saving a schedule reads the monitor first.
ScheduleRead(t) ==
    /\ InStage(t, {"schedule"}) /\ UNCHANGED <<monitors, late, unseen>>
    /\ calls' = [calls EXCEPT ![t].stage = "scheduling", ![t].seen = monitors[calls[t].monitor].enabled]
\* The monitor a request is about is the one that was created for it.
AboutNew(call, ms) == IF call.stage = "creating" THEN [call EXCEPT !.monitor = Len(ms)] ELSE call
StageAnswered(t) ==
    /\ InStage(t, WriteStages) /\ UNCHANGED <<late, unseen>>
    /\ \/ /\ ~Refused(calls[t]) /\ monitors' = EffectOf(calls[t])
          /\ calls' = [calls EXCEPT ![t] = [AboutNew(calls[t], monitors') EXCEPT !.stage = NextStage(calls[t])]]
       \/ UNCHANGED monitors /\ GoTo(t, RefusedStage(calls[t]))
       \/ /\ calls[t].stage \in {"enable", "enableAgain"} /\ ~Refused(calls[t])
          /\ monitors' = HalfEnabled(calls[t]) /\ GoTo(t, RefusedStage(calls[t]))
\* Whatever is thrown, a timeout above all, is answered without the monitor;
\* the request lands later, or never.
StageLost(t) ==
    /\ InStage(t, WriteStages \cup {"create", "schedule"}) /\ GoTo(t, "unavailable") /\ UNCHANGED <<monitors, unseen>>
    /\ late' \in {late, late \cup {calls[t]}}
LateLanded ==
    /\ \E request \in late : request.stage # "create" /\ monitors' = EffectOf(request) /\ late' = late \ {request}
    /\ UNCHANGED <<calls, unseen>>
LateLookup ==
    /\ Served /\ UNCHANGED <<calls, monitors>>
    /\ \E request \in late :
        /\ request.stage = "create"
        /\ \/ \E n \in LookedUp :
                /\ late' = (late \ {request}) \cup {r \in {Looked(request, n)} : r.stage = "creating"}
                /\ unseen' = (unseen \/ (n = 0 /\ Raced))
           \/ late' = (late \ {request}) \cup {Looked(request, 0)} /\ unseen' = TRUE
\* The monitor and its schedule are read, and a schedule that does not run is
\* saved once more as it is; one that cannot be read is not looked into.
ScheduleChecked(t) ==
    /\ InStage(t, {"check"}) /\ UNCHANGED <<monitors, late, unseen>>
    /\ \/ /\ monitors[calls[t].monitor].schedule = "waiting"
          /\ calls' = [calls EXCEPT ![t].stage = "schedule", ![t].retry = TRUE]
       \/ GoTo(t, "verify")
       \/ GoTo(t, "unavailable")
\* The last look at the schedule, which is passed over when it cannot be read.
ScheduleVerified(t) ==
    /\ InStage(t, {"verify"}) /\ UNCHANGED <<monitors, late, unseen>>
    /\ \/ GoTo(t, IF calls[t].timed /\ monitors[calls[t].monitor].schedule = "waiting" THEN "partial" ELSE "ok")
       \/ calls' = [calls EXCEPT ![t].stage = "ok", ![t].unread = TRUE]
       \/ GoTo(t, "unavailable")

ServerFunction ==
    /\ \/ LateLanded \/ LateLookup
       \/ \E t \in Submissions :
            \/ CreateLookup(t) \/ ScheduleRead(t) \/ StageAnswered(t) \/ StageLost(t)
            \/ ScheduleChecked(t) \/ ScheduleVerified(t)
    /\ UNCHANGED <<form, formEdits, page, trial>>
-----------------------------------------------------------------------------
(* The form.                                                               *)

CreationInit ==
    /\ form \in [problem : Problems, slug : Slugs, enabled : BOOLEAN, timed : {TRUE}]
    /\ formEdits = 0
    /\ page = [waits |-> 0, saved |-> FALSE, error |-> FALSE, left |-> FALSE]
    /\ calls = [t \in Submissions |-> NoCall] /\ late = {} /\ monitors = <<>> /\ unseen = FALSE
    /\ trial = [last |-> 0, asked |-> 0, shown |-> 0, failed |-> FALSE, flying |-> {}, confirm |-> FALSE, cancelled |-> FALSE]

\* The rows of a preview: the checks of a step that failed, those of its scripts
\* among them, and the error of the step when none did.
FailedChecks(checks) == IF checks = {} THEN {"Step"} ELSE checks
PreviewSteps(status) ==
    [badge |-> IF status = "SUCCESS" THEN "SUCCESS" ELSE IF status = "FAILED" THEN "FAILED" ELSE "neutral",
     checks |-> IF status # "FAILED" THEN {}
                ELSE UNION {FailedChecks(c) : c \in SUBSET {"Script", "Assertion", "Extractor"}}]

\* The header and the foot of the form; the same buttons are in both.
Busy == page.waits # 0 \/ trial.asked # 0
Buttons ==
    (IF Busy THEN {} ELSE {"cancel"})
    \cup (IF page.waits # 0 \/ page.saved THEN {} ELSE {IF trial.asked # 0 THEN "cancelPreview" ELSE "preview"})
    \cup (IF page.saved THEN {"open"} ELSE IF Busy THEN {} ELSE {"submit", "import"})
FormHeader ==
    [badge |-> IF page.saved THEN "Saved" ELSE "Draft", buttons |-> Buttons,
     status |-> CASE trial.asked # 0 -> "Walking journey" [] page.saved -> "Monitor saved"
                  [] formEdits > 0 -> "Unsaved changes" [] OTHER -> "Not started",
     submit |-> IF form.enabled THEN "Create & enable" ELSE "Create draft"]
FormFooter == [buttons |-> Buttons \cap {"cancel", "open", "submit"}, publishes |-> form.enabled]
\* The details name what is wrong with a field, the message above what is wrong
\* with a request, with a link to the monitor once there is one.
Details == [application |-> "optional", slug |-> form.slug, errors |-> form.problem = "fields"]
FormError == [shown |-> page.error, link |-> page.saved]
NewScheduleCard ==
    [interval |-> form.timed,
     help |-> IF ~form.enabled THEN "stays a draft" ELSE IF form.timed THEN "starts" ELSE "for manual runs",
     nextRun |-> IF form.enabled /\ form.timed THEN "soon" ELSE IF form.enabled THEN "manual only" ELSE "once enabled"]
\* Ready means no more than that a name and the URLs are there.
Readiness == form.problem \notin {"fields"}
WorkbenchCard == [ready |-> Readiness, import |-> "import" \in Buttons]
\* Leaving the page asks first when something would be lost.
AsksBeforeLeaving == formEdits > 0 /\ ~page.saved /\ page.waits = 0
Dialogs == [confirmsPreview |-> trial.confirm, asksBeforeLeaving |-> AsksBeforeLeaving]

\* What the page says of a preview, and where a failed one may be edited.
DraftPreviewStatus(preview) ==
    CASE trial.asked # 0 -> [shown |-> "walking", steps |-> "in flight"]
      [] trial.asked = 0 /\ preview = "none" /\ ~trial.failed -> [shown |-> "nothing"]
      [] OTHER ->
            [shown |-> IF preview = "none" THEN "Draft preview failed"
                       ELSE IF preview = "SUCCESS" THEN "Journey cleared" ELSE "Journey failed",
             alert |-> trial.failed \/ preview = "FAILED",
             steps |-> IF preview = "none" THEN "none" ELSE PreviewSteps(preview)]

\* A change of the definition takes the preview off the page; a change of any
\* kind takes the message off, unless it is about the monitor that was saved.
EditForm ==
    /\ formEdits < MaxFormEdits /\ formEdits' = formEdits + 1 /\ ~page.left /\ ~trial.confirm
    /\ \/ \E problem \in Problems \ {form.problem} :
            /\ form' = [form EXCEPT !.problem = problem]
            /\ trial' = [trial EXCEPT !.shown = 0, !.failed = FALSE]
       \/ /\ UNCHANGED trial
          /\ \/ \E slug \in Slugs \ {form.slug} : form' = [form EXCEPT !.slug = slug]
             \/ form' = [form EXCEPT !.enabled = ~@]
             \/ form' = [form EXCEPT !.timed = ~@]
    /\ page' = [page EXCEPT !.error = page.saved /\ @]
    /\ UNCHANGED <<calls, late, monitors, unseen>>

\* An import takes the place of the details and the definition.
ApplyImport ==
    /\ formEdits < MaxFormEdits /\ formEdits' = formEdits + 1
    /\ "import" \in Buttons /\ ~page.left /\ ~trial.confirm
    /\ \E problem \in Problems, slug \in Slugs : form' = [form EXCEPT !.problem = problem, !.slug = slug]
    /\ page' = [page EXCEPT !.error = FALSE]
    /\ trial' = [trial EXCEPT !.shown = 0, !.failed = FALSE]
    /\ UNCHANGED <<calls, late, monitors, unseen>>

Submittable == "submit" \in Buttons /\ ~trial.confirm /\ ~page.left
\* What the form finds by itself keeps it from being sent.
SubmitRefused ==
    /\ Submittable /\ form.problem # "none"
    /\ page' = [page EXCEPT !.error = form.problem # "fields"]
    /\ UNCHANGED <<form, formEdits, calls, late, monitors, unseen, trial>>
Submit ==
    /\ Submittable /\ form.problem = "none"
    /\ \E t \in Submissions :
        /\ calls[t] = NoCall /\ \A u \in 1..(t - 1) : calls[u] # NoCall
        /\ page' = [page EXCEPT !.waits = t, !.error = FALSE]
        /\ calls' = [calls EXCEPT ![t] =
            [stage |-> "create", slug |-> form.slug, enabled |-> form.enabled, timed |-> form.timed,
             retry |-> FALSE, seen |-> FALSE, unread |-> FALSE, monitor |-> 0]]
    /\ UNCHANGED <<form, formEdits, late, monitors, unseen, trial>>

\* The answer: the form is locked as soon as it names a monitor, and left for
\* the editor when all of it went well, the link to its application included.
CallAnswered ==
    /\ page.waits # 0
    /\ LET stage == calls[page.waits].stage
           waiting == [page EXCEPT !.waits = 0]
       IN  \/ /\ stage \in {"refused", "partial", "unavailable"}
              /\ page' = [waiting EXCEPT !.error = TRUE, !.saved = stage = "partial"]
           \/ stage = "ok" /\ page' = [waiting EXCEPT !.left = TRUE]
           \/ stage = "ok" /\ page' = [waiting EXCEPT !.error = TRUE, !.saved = TRUE]
    /\ UNCHANGED <<form, formEdits, calls, late, monitors, unseen, trial>>
\* The browser lost the web server: the call goes on without it.
CallThrown ==
    /\ page.waits # 0 /\ page' = [page EXCEPT !.waits = 0, !.error = TRUE]
    /\ UNCHANGED <<form, formEdits, calls, late, monitors, unseen, trial>>

\* WriteStages that change their target are only sent after a confirmation.
SendPreview ==
    /\ trial.last < MaxPreviews
    /\ trial' = [last |-> trial.last + 1, asked |-> trial.last + 1, shown |-> 0, failed |-> FALSE,
                 flying |-> trial.flying \cup {trial.last + 1}, confirm |-> FALSE, cancelled |-> FALSE]
RequestDraftPreview ==
    /\ "preview" \in Buttons /\ ~page.left /\ ~trial.confirm
    /\ IF form.problem \in {"url", "json"} THEN page' = [page EXCEPT !.error = TRUE] /\ UNCHANGED trial
       ELSE UNCHANGED page /\ (SendPreview \/ trial' = [trial EXCEPT !.confirm = TRUE])
    /\ UNCHANGED <<form, formEdits, calls, late, monitors, unseen>>
ConfirmDraftPreview ==
    /\ trial.confirm /\ (SendPreview \/ trial' = [trial EXCEPT !.confirm = FALSE])
    /\ UNCHANGED <<form, formEdits, page, calls, late, monitors, unseen>>
\* Mutant: any answer is shown.
DraftPreviewAnsweredAny ==
    /\ \E n \in trial.flying, ok \in BOOLEAN :
        trial' = [trial EXCEPT !.flying = @ \ {n}, !.asked = 0, !.shown = IF ok THEN n ELSE 0, !.failed = ~ok]
    /\ UNCHANGED <<form, formEdits, page, calls, late, monitors, unseen>>
\* The answer to a preview that was cancelled is dropped; one that was only
\* overtaken by changes of the form is shown.
DraftPreviewAnswered ==
    /\ \E n \in trial.flying, ok \in BOOLEAN :
        trial' = IF trial.asked # n THEN [trial EXCEPT !.flying = @ \ {n}]
                 ELSE [trial EXCEPT !.flying = @ \ {n}, !.asked = 0, !.shown = IF ok THEN n ELSE 0, !.failed = ~ok]
    /\ UNCHANGED <<form, formEdits, page, calls, late, monitors, unseen>>
CancelDraftPreview ==
    /\ "cancelPreview" \in Buttons
    /\ trial' = [trial EXCEPT !.asked = 0, !.failed = TRUE, !.cancelled = TRUE]
    /\ UNCHANGED <<form, formEdits, page, calls, late, monitors, unseen>>

CreationNext ==
    \/ ServerFunction
    \/ EditForm \/ SubmitRefused \/ Submit \/ CallAnswered \/ CallThrown
TrialNext ==
    \/ EditForm \/ ApplyImport \/ Submit \/ CallThrown
    \/ RequestDraftPreview \/ ConfirmDraftPreview \/ DraftPreviewAnswered \/ CancelDraftPreview
CreationSpec == CreationInit /\ [][CreationNext \/ TrialNext]_creationVars
-----------------------------------------------------------------------------
CreationTypeOK ==
    /\ page.waits \in 0..MaxTries /\ (page.waits # 0 => calls[page.waits] # NoCall)
    /\ page.saved => page.error /\ Len(monitors) > 0
    /\ page.left => Len(monitors) > 0
    /\ FormHeader.badge = "Saved" <=> "open" \in FormFooter.buttons
    /\ FormError.link => FormError.shown /\ ~WorkbenchCard.import /\ ~Dialogs.asksBeforeLeaving
    /\ Dialogs.confirmsPreview => "preview" \in FormHeader.buttons
    /\ NewScheduleCard.nextRun = "soon" => FormHeader.submit = "Create & enable" /\ FormFooter.publishes
    /\ form.problem = "none" => WorkbenchCard.ready /\ ~Details.errors
    /\ \A preview \in {"none", "SUCCESS", "FAILED", "CANCELLED"} :
        (DraftPreviewStatus(preview).shown = "walking" <=> "cancelPreview" \in FormHeader.buttons)
    /\ trial.asked \in trial.flying \cup {0} /\ trial.flying \subseteq 1..trial.last
    /\ trial.shown \in {0, trial.last} /\ (trial.cancelled => trial.shown = 0)

\* However often a form is submitted, and whatever was lost on the way, it
\* creates one monitor ("creationId" and the Idempotency-Key it becomes),
\* unless a lookup failed or two replicas served it at once.
OneMonitorPerForm == Len(monitors) > 1 => unseen

\* A call that answers that the monitor was created and enabled leaves it
\* published, enabled and scheduled, unless its schedule could not be read.
CreatedRuns ==
    [][\A t \in Submissions :
        calls[t].stage # "ok" /\ calls'[t].stage = "ok" /\ calls[t].enabled =>
            LET monitor == monitors[calls[t].monitor]
            IN  /\ monitor.published /\ monitor.enabled
                /\ monitor.schedule = "waiting" => calls'[t].unread \/ ~calls[t].timed]_creationVars
=============================================================================
