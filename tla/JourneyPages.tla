---------------------------- MODULE JourneyPages ----------------------------
(***************************************************************************)
(* The pages that write the journey of a browser monitor (apps/web,        *)
(* routes/ui-monitoring and features/ui-monitoring/journey-builder.tsx):   *)
(* the form that creates one, the workbench of its journey and its         *)
(* settings, against internal/browsermonitors/service.go, to which other   *)
(* users write as well.  A page composes its calls from what it loaded     *)
(* last and from what was edited since; answers come late or not at all.   *)
(***************************************************************************)
EXTENDS Naturals, Sequences

CONSTANTS
    Addable,           \* types of steps that are added
    MaxJourneyMoves,   \* bound: edits and calls of a page
    MaxJourneySteps,   \* bound: steps of a journey
    MaxRivalWrites     \* bound: writes of other users

VARIABLES
    journeys,   \* the definitions of the revisions, by number; none: no monitor
    monitor,    \* its row: the draft, the latest published revision, enabled
    sheet,      \* what the page shows
    loader,     \* what the page loaded last
    jcalls,     \* the calls under way, by kind
    spent       \* history: moves of the page and writes of others so far

journeyVars == <<journeys, monitor, sheet, loader, jcalls, spent>>
-----------------------------------------------------------------------------
(* Definitions: a start URL, the hours a screenshot is kept and the steps.   *)

\* What the server omits when empty, or writes in another order, than the page.
WrittenAlike == {"NAVIGATE", "ASSERT"}
createStep(id, type) ==
    [id |-> id, type |-> type, enabled |-> TRUE, version |-> 0, own |-> type \notin WrittenAlike,
     checkpoint |-> IF type = "SCREENSHOT" THEN id ELSE 0, url |-> "none"]
createDefaultJourney ==
    <<[createStep(1, "NAVIGATE") EXCEPT !.own = TRUE], createStep(2, "ASSERT")>>

\* The editor that each type has besides the name, the time limit and the switch.
requiresLocator(type) == type \in {"CLICK", "FILL", "WAIT", "GRAPH_CHECK"}
EditorsOf(type) ==
    {"name", "timeout"} \cup (IF requiresLocator(type) THEN {"locator"} ELSE {})
    \cup (CASE type = "NAVIGATE" -> {"url"} [] type = "FILL" -> {"value"} [] type = "ASSERT" -> {"expected"}
            [] type = "GRAPH_CHECK" -> {"pattern"} [] type = "SCREENSHOT" -> {"masks"} [] OTHER -> {})
\* Fields the server leaves out when they are empty come last on the page.
Optional == {"url", "value", "expected", "pattern", "masks"}

\* normalizeDefinition, and the order of fields in which Go writes it.
normalizeDefinition(d) ==
    [d EXCEPT !.keep = IF @ = 0 THEN 24 ELSE @,
              !.steps = [i \in DOMAIN @ |-> [@[i] EXCEPT !.own = FALSE]]]
validateDefinition(d) ==
    /\ d.url # "malformed" /\ d.steps # <<>>
    /\ \A i, j \in DOMAIN d.steps : d.steps[i].id = d.steps[j].id => i = j

\* definition of new.tsx: the step that opens the start page follows its URL.
JourneyDefinition(s) ==
    [url |-> s.url, keep |-> s.keep,
     steps |-> [i \in DOMAIN s.steps |->
        IF s.page = "new" /\ s.steps[i].id = 1 THEN [s.steps[i] EXCEPT !.url = s.url] ELSE s.steps[i]]]
JourneyReadiness(s) ==
    {r \in {"url", "steps"} : CASE r = "url" -> s.url # "malformed"
                                [] r = "steps" -> \E i \in DOMAIN s.steps : s.steps[i].enabled}
-----------------------------------------------------------------------------
(* The server. *)

Kinds == {"create", "update", "save", "publish", "preview", "delete"}
NoJourneyCall == [stage |-> "none"]
StageOf(kind) == jcalls[kind].stage
Present == journeys # <<>>
NoMonitor == [draft |-> 0, published |-> 0, enabled |-> FALSE]

Create(d, enabled) ==
    /\ ~Present /\ validateDefinition(d)
    /\ journeys' = <<normalizeDefinition(d)>>
    /\ monitor' = [draft |-> 1, published |-> IF enabled THEN 1 ELSE 0, enabled |-> enabled]
Update(enabled) ==
    /\ Present /\ (enabled => monitor.published # 0)
    /\ monitor' = [monitor EXCEPT !.enabled = enabled] /\ UNCHANGED journeys
\* Each save adds a revision; the unique number makes one of two at once fail.
StoreDraft(d) ==
    /\ Present /\ validateDefinition(d)
    /\ journeys' = Append(journeys, normalizeDefinition(d))
    /\ monitor' = [monitor EXCEPT !.draft = Len(journeys) + 1]
\* Publishes the revision that was the draft when the monitor was read.
Publish(row) ==
    /\ Present /\ monitor' = [monitor EXCEPT !.published = row] /\ UNCHANGED journeys
Delete == Present /\ journeys' = <<>> /\ monitor' = NoMonitor

\* Other users, on the workbench or the settings of the same monitor.
RivalSaves ==
    /\ Present /\ spent.rivals < MaxRivalWrites
    /\ LET stored == journeys[monitor.draft]
       IN  \/ StoreDraft([stored EXCEPT !.url = IF @ = "u1" THEN "u2" ELSE "u1"])
           \/ Len(stored.steps) > 1 /\ StoreDraft([stored EXCEPT !.steps = Tail(@)])
    /\ spent' = [spent EXCEPT !.rivals = @ + 1]
    /\ UNCHANGED <<sheet, loader, jcalls>>
RivalPublishes ==
    /\ spent.rivals < MaxRivalWrites /\ Publish(monitor.draft)
    /\ spent' = [spent EXCEPT !.rivals = @ + 1]
    /\ UNCHANGED <<sheet, loader, jcalls>>
-----------------------------------------------------------------------------
(* The builder: the steps, and the one that is selected. *)

JourneySteps == sheet.steps
\* findIndex, and the first where it finds none.
SelectedPosition ==
    IF \E i \in DOMAIN JourneySteps : JourneySteps[i].id = sheet.selected
    THEN CHOOSE i \in DOMAIN JourneySteps : JourneySteps[i].id = sheet.selected ELSE 1
SheetOpen == sheet.page # "left"
EditSheet(s) ==
    /\ SheetOpen /\ spent.moves < MaxJourneyMoves
    /\ sheet' = s /\ spent' = [spent EXCEPT !.moves = @ + 1]
    /\ UNCHANGED <<journeys, monitor, loader, jcalls>>
BuilderShown == sheet.page \in {"new", "journey"}

addStep(type) ==
    /\ BuilderShown /\ Len(JourneySteps) < MaxJourneySteps
    /\ EditSheet([sheet EXCEPT !.steps = Append(@, createStep(sheet.minted, type)),
                          !.selected = sheet.minted, !.minted = @ + 1])
\* A field that was empty is written after those the server writes it before.
updateSelected(field) ==
    /\ BuilderShown /\ field \in EditorsOf(JourneySteps[SelectedPosition].type)
    /\ EditSheet([sheet EXCEPT !.steps[SelectedPosition].version = @ + 1,
                          !.steps[SelectedPosition].own = @ \/ field \in Optional])
toggleSelected == BuilderShown /\ EditSheet([sheet EXCEPT !.steps[SelectedPosition].enabled = ~@])
moveSelected ==
    BuilderShown /\ \E target \in DOMAIN JourneySteps :
        /\ target \in {SelectedPosition - 1, SelectedPosition + 1}
        /\ EditSheet([sheet EXCEPT !.steps = [JourneySteps EXCEPT ![target] = JourneySteps[SelectedPosition],
                                                      ![SelectedPosition] = JourneySteps[target]]])
removeSelected ==
    /\ BuilderShown /\ Len(JourneySteps) > 1
    /\ LET next == SubSeq(JourneySteps, 1, SelectedPosition - 1) \o SubSeq(JourneySteps, SelectedPosition + 1, Len(JourneySteps))
           following == IF SelectedPosition < Len(next) THEN SelectedPosition ELSE Len(next)
       IN  EditSheet([sheet EXCEPT !.steps = next, !.selected = next[following].id])
\* The copy has an id and a name of its own; its checks and checkpoint are the same.
duplicateSelected ==
    /\ BuilderShown /\ Len(JourneySteps) < MaxJourneySteps
    /\ EditSheet([sheet EXCEPT
                !.steps = SubSeq(JourneySteps, 1, SelectedPosition)
                          \o <<[JourneySteps[SelectedPosition] EXCEPT !.id = sheet.minted]>>
                          \o SubSeq(JourneySteps, SelectedPosition + 1, Len(JourneySteps)),
                !.selected = sheet.minted, !.minted = @ + 1])
selectStep ==
    /\ BuilderShown /\ \E i \in DOMAIN JourneySteps :
        JourneySteps[i].id # sheet.selected /\ sheet' = [sheet EXCEPT !.selected = JourneySteps[i].id]
    /\ UNCHANGED <<journeys, monitor, loader, jcalls, spent>>
\* The other fields of the form and of the settings.
editFields ==
    \/ sheet.page \in {"new", "settings"} /\ \E u \in {"u1", "u2", "malformed"} :
        u # sheet.url /\ EditSheet([sheet EXCEPT !.url = u])
    \/ sheet.page = "settings" /\ \E k \in {0, 24} : k # sheet.keep /\ EditSheet([sheet EXCEPT !.keep = k])
    \/ sheet.page \in {"new", "settings"} /\ EditSheet([sheet EXCEPT !.enabled = ~@])
-----------------------------------------------------------------------------
(* Calls.  A call is sent, performed or refused, and then answered; after an   *)
(* answer the workbench and the settings load again before they go on.        *)

LoadedDraft == loader.definition
\* "Unsaved changes" of the workbench, and changed of the settings.
Dirty == JourneyDefinition(sheet) # sheet.saved
SettingsChanged == JourneyDefinition(sheet) # LoadedDraft \/ sheet.enabled # loader.enabled
\* The row is the revision that the server answers with.
SaveCall(definition, then) == [stage |-> "sent", row |-> 0, definition |-> definition, then |-> then]
PublishCall == [stage |-> "sent", row |-> 0]
SendCall(kind, call) ==
    /\ spent.moves < MaxJourneyMoves /\ spent' = [spent EXCEPT !.moves = @ + 1]
    /\ jcalls' = [jcalls EXCEPT ![kind] = call]
    /\ UNCHANGED <<journeys, monitor, sheet, loader>>
\* The buttons, with the conditions that disable them.
createMonitor ==
    /\ sheet.page = "new" /\ JourneyReadiness(sheet) = {"url", "steps"} /\ StageOf("create") = "none"
    /\ SendCall("create", [stage |-> "sent", definition |-> JourneyDefinition(sheet), enabled |-> sheet.enabled])
runPreview ==
    /\ \/ sheet.page = "new" /\ JourneyReadiness(sheet) = {"url", "steps"}
       \/ sheet.page = "journey"
    /\ StageOf("preview") = "none" /\ SendCall("preview", [stage |-> "sent", definition |-> JourneyDefinition(sheet)])
saveDraft ==
    /\ sheet.page = "journey" /\ StageOf("save") = "none" /\ Dirty
    /\ SendCall("save", SaveCall(JourneyDefinition(sheet), "nothing"))
publish ==
    /\ sheet.page = "journey" /\ StageOf("publish") = "none" /\ StageOf("save") = "none"
    /\ IF Dirty THEN SendCall("save", SaveCall(JourneyDefinition(sheet), "publish"))
                ELSE SendCall("publish", PublishCall)
saveSettings ==
    /\ sheet.page = "settings" /\ SettingsChanged /\ StageOf("update") = "none" /\ StageOf("save") = "none"
    /\ SendCall("update", [stage |-> "sent", enabled |-> sheet.enabled, definition |-> JourneyDefinition(sheet), draft |-> LoadedDraft])
removeMonitor ==
    /\ sheet.page = "settings" /\ StageOf("delete") = "none"
    /\ SendCall("delete", [stage |-> "sent"])

MoveTo(kind, stage) == jcalls' = [jcalls EXCEPT ![kind].stage = stage]
CallPerformed(kind) ==
    /\ StageOf(kind) = "sent"
    /\ CASE kind = "create" -> Create(jcalls[kind].definition, jcalls[kind].enabled)
         [] kind = "update" -> Update(jcalls[kind].enabled)
         [] kind = "save" -> StoreDraft(jcalls[kind].definition)
         [] kind = "delete" -> Delete
         [] kind = "preview" -> validateDefinition(jcalls[kind].definition) /\ UNCHANGED <<journeys, monitor>>
         [] kind = "publish" -> Present /\ UNCHANGED <<journeys, monitor>> \* the monitor is read
    /\ jcalls' = [jcalls EXCEPT ![kind] =
            CASE kind = "save" -> [@ EXCEPT !.stage = "done", !.row = monitor'.draft]
              [] kind = "publish" -> [@ EXCEPT !.stage = "read", !.row = monitor'.draft]
              [] OTHER -> [@ EXCEPT !.stage = "done"]]
    /\ UNCHANGED <<sheet, loader, spent>>
PublishCommitted ==
    /\ StageOf("publish") = "read" /\ Publish(jcalls["publish"].row)
    /\ MoveTo("publish", "done") /\ UNCHANGED <<sheet, loader, spent>>
\* Refused, not performed or performed and not answered: the page says so.
CallFailed(kind) ==
    /\ StageOf(kind) \in {"sent", "read", "done"}
    /\ jcalls' = [jcalls EXCEPT ![kind] = NoJourneyCall]
    /\ sheet' = IF kind = "preview" THEN [sheet EXCEPT !.preview = "none"] ELSE sheet
    /\ UNCHANGED <<journeys, monitor, loader, spent>>
-----------------------------------------------------------------------------
(* Answers. *)

\* Mutant: what is on the page by now counts as saved.
SavedAnsweredAll(s, call) == [s EXCEPT !.saved = JourneyDefinition(s)]
SavedAnswered(s, call) == [s EXCEPT !.saved = journeys[call.row]]
AnswerHandled ==
    \/ /\ StageOf("create") = "done"      \* the page of the new monitor is opened
       /\ sheet' = [sheet EXCEPT !.page = "left"] /\ jcalls' = [jcalls EXCEPT !["create"] = NoJourneyCall]
    \/ /\ StageOf("preview") = "done"
       /\ sheet' = [sheet EXCEPT !.preview = jcalls["preview"].definition]
       /\ jcalls' = [jcalls EXCEPT !["preview"] = NoJourneyCall]
    \/ /\ StageOf("save") = "done" /\ Present /\ MoveTo("save", "loading")
       /\ sheet' = IF sheet.page = "journey" THEN SavedAnswered(sheet, jcalls["save"]) ELSE sheet
    \/ /\ StageOf("publish") = "done" /\ MoveTo("publish", "loading") /\ UNCHANGED sheet
    \/ /\ StageOf("update") = "done" /\ UNCHANGED sheet
       /\ LET call == jcalls["update"]
          IN  IF call.definition # call.draft
              THEN jcalls' = [jcalls EXCEPT !["update"] = NoJourneyCall,
                                            !["save"] = SaveCall(call.definition, "nothing")]
              ELSE MoveTo("update", "loading")
    \/ /\ StageOf("delete") = "done"      \* the list is opened
       /\ sheet' = [sheet EXCEPT !.page = "left"] /\ jcalls' = [jcalls EXCEPT !["delete"] = NoJourneyCall]
JourneyAnswered == SheetOpen /\ AnswerHandled /\ UNCHANGED <<journeys, monitor, loader, spent>>
\* router.invalidate: the loader runs again, what is edited stays as it is.
LoadedAgain(kind) ==
    /\ SheetOpen /\ StageOf(kind) = "loading" /\ Present
    /\ loader' = [definition |-> journeys[monitor.draft], enabled |-> monitor.enabled]
    /\ jcalls' = IF kind = "save" /\ jcalls["save"].then = "publish"
                 THEN [jcalls EXCEPT !["save"] = NoJourneyCall, !["publish"] = PublishCall]
                 ELSE [jcalls EXCEPT ![kind] = NoJourneyCall]
    /\ UNCHANGED <<journeys, monitor, sheet, spent>>
-----------------------------------------------------------------------------
NewSheet ==
    [page |-> "new", url |-> "malformed", keep |-> 24, steps |-> createDefaultJourney, enabled |-> FALSE,
     selected |-> 1, minted |-> 3, preview |-> "none", saved |-> "none"]
FirstStored == normalizeDefinition(JourneyDefinition([NewSheet EXCEPT !.url = "u1"]))
JourneyInit ==
    /\ sheet \in {NewSheet} \cup
        {[NewSheet EXCEPT !.page = p, !.url = "u1", !.steps = FirstStored.steps, !.saved = FirstStored] :
            p \in {"journey", "settings"}}
    /\ journeys = IF sheet.page = "new" THEN <<>> ELSE <<FirstStored>>
    /\ monitor = [NoMonitor EXCEPT !.draft = Len(journeys)]
    /\ loader = [definition |-> FirstStored, enabled |-> FALSE]
    /\ jcalls = [k \in Kinds |-> NoJourneyCall]
    /\ spent = [moves |-> 0, rivals |-> 0]
JourneyNext ==
    \/ RivalSaves \/ RivalPublishes
    \/ \E type \in Addable : addStep(type)
    \/ \E field \in {"name", "timeout", "locator"} \cup Optional : updateSelected(field)
    \/ toggleSelected \/ moveSelected \/ removeSelected \/ duplicateSelected \/ selectStep \/ editFields
    \/ createMonitor \/ runPreview \/ saveDraft \/ publish \/ saveSettings \/ removeMonitor
    \/ \E kind \in Kinds : CallPerformed(kind) \/ CallFailed(kind) \/ LoadedAgain(kind)
    \/ PublishCommitted \/ JourneyAnswered
JourneySpec == JourneyInit /\ [][JourneyNext]_journeyVars
-----------------------------------------------------------------------------
\* "Draft saved" is shown only over a journey that was stored as it is shown, whatever was
\* edited while a save was on its way (savedFingerprint, journey.tsx).
DraftShownIsStored ==
    sheet.page = "journey" /\ ~Dirty /\ Present =>
        \E row \in DOMAIN journeys : journeys[row] = JourneyDefinition(sheet)

\* What is scheduled was published, and the journey it plays can be played.
ScheduledIsPublished ==
    monitor.enabled => monitor.published # 0 /\ validateDefinition(journeys[monitor.published])

\* A save of the settings leaves the steps, which the page does not show.
SettingsKeepSteps ==
    [][sheet.page = "settings" /\ StageOf("save") = "sent" /\ jcalls'["save"].stage = "done" /\ Present
        => journeys'[monitor'.draft].steps = journeys[monitor.draft].steps]_journeyVars

\* Checkpoints of a journey have baselines of their own.
CheckpointsDistinct ==
    Present => \A i, j \in DOMAIN journeys[monitor.draft].steps :
        LET a == journeys[monitor.draft].steps[i]
            b == journeys[monitor.draft].steps[j]
        IN  a.checkpoint # 0 /\ a.checkpoint = b.checkpoint => i = j
=============================================================================
