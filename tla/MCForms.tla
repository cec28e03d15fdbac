------------------------------ MODULE MCForms -------------------------------
(***************************************************************************)
(* The pages that change what the server keeps: the editor of a monitor,   *)
(* the form that creates one, the workbench with its script editor and the *)
(* sandbox in which its scripts run, and the configuration.  They share no *)
(* state: each behaviour plays one scene, and what the others are about    *)
(* stands still.                                                           *)
(***************************************************************************)
EXTENDS MonitorEditor, MonitorCreation, Workbench, ScriptEditor, ConfigPanels, ConfigForms,
    ScriptSandbox, ScriptLibrary, DynatracePages, ApplicationPages,
    ListPages, MonitorImport, JourneyPages

MCProfiles == <<"p1", "p2">>


VARIABLE scene

editorPageVars == <<revisionVars, editorVars>>
vars == <<scene, editorPageVars, creationVars, workbenchVars, scriptVars, configVars, providerVars, shape,
          sandboxVars, sample, dynatraceVars, applicationVars, listVars, importVars,
          journeyVars>>
Scenes == {"editor", "create", "trial", "workbench", "script", "panels", "provider", "forms",
           "tests", "writes", "library", "dynatrace", "application",
           "monitors", "inbox", "sources", "import", "journey"}

\* Where a scene does not begin, one state stands for all.
SomeContent == CHOOSE c \in Valid : TRUE
SomeSchedule == CHOOSE s \in Schedules : TRUE
SomeForm == [problem |-> "none", slug |-> CHOOSE s \in Slugs : TRUE, enabled |-> TRUE, timed |-> TRUE]
AtRest ==
    /\ scene # "editor" =>
        content = <<SomeContent>> /\ scheduleForm = [shown |-> SomeSchedule, sent |-> SomeSchedule, state |-> "idle"]
    /\ scene \notin {"create", "trial"} => form = SomeForm
    /\ ~workflow.sensitive /\ (scene # "workbench" => ~workflow.profile)
    \* A step that may not run is of interest where the profile gives a value too.
    /\ ~workflow.profile => workflow.steps[1].sure
    /\ scene # "panels" => kind = "secrets"
    /\ scene # "forms" => shape = [form |-> "secrets"]
    /\ scene \notin {"tests", "writes"} => event = "test"
    /\ scene # "writes" =>
        /\ stores = [s \in StoreNames |-> "none"]
        /\ request = [url |-> "template", body |-> "none", type |-> "none"]
    /\ scene # "library" => sample = [of |-> "time", value |-> 0]
    /\ scene # "dynatrace" => governed = NoConfiguration
    /\ scene # "application" => workspace = "settings"
Init ==
    /\ scene \in Scenes /\ WorkbenchInit /\ AtRest
    /\ SandboxInit /\ DynatraceInit /\ ApplicationInit /\ ListInit
    /\ RevisionsInit /\ EditorInit /\ CreationInit /\ ScriptInit /\ ConfigInit /\ ProviderInit /\ FormsInit
    \* The slugs that are free are alike: a form begins with one of them.
    /\ scene \in {"create", "trial"} => form.slug \in Taken \cup {CHOOSE s \in Slugs : s \notin Taken}
    /\ scene = "create" => form.problem = "none"
    \* The valid contents are alike, and so are the schedules.
    /\ scene = "editor" => content[1] \in {SomeContent} \cup (Contents \ Valid) /\ scheduleForm.shown = SomeSchedule
    /\ \A m, n \in Monitors : catalog[m] = catalog[n] \* The monitors begin alike.
    /\ scene # "monitors" => \A m \in Monitors : catalog[m].state = "DRAFT"
    /\ LibraryInit /\ (IF scene = "sources" THEN SourceInit ELSE pasted = PlainCollection) /\ ImportInit
    /\ scene # "inbox" => inbox[1].id \in External
    /\ JourneyInit /\ (scene # "journey" => sheet.page = "new")

Next ==
    /\ UNCHANGED <<scene, shape, sample>>
    /\ IF scene = "editor" THEN EditorNext ELSE UNCHANGED editorPageVars
    /\ \/ scene = "create" /\ CreationNext
       \/ scene = "trial" /\ TrialNext
       \/ scene \notin {"create", "trial"} /\ UNCHANGED creationVars
    /\ IF scene = "workbench" THEN WorkbenchNext ELSE UNCHANGED workbenchVars
    /\ IF scene = "script" THEN ScriptNext ELSE UNCHANGED scriptVars
    /\ \/ scene = "tests" /\ TestingNext
       \/ scene = "writes" /\ WritingNext
       \/ scene \notin {"tests", "writes"} /\ UNCHANGED sandboxVars
    /\ IF scene = "panels" THEN ConfigNext ELSE UNCHANGED configVars
    /\ IF scene = "provider" THEN ProviderNext ELSE UNCHANGED providerVars
    /\ IF scene = "dynatrace" THEN DynatraceNext ELSE UNCHANGED dynatraceVars
    /\ IF scene = "application" THEN ApplicationNext ELSE UNCHANGED applicationVars
    /\ \/ scene = "monitors" /\ MonitorListNext
       \/ scene = "inbox" /\ InboxNext
       \/ scene \notin {"monitors", "inbox"} /\ UNCHANGED listVars
    /\ \/ scene = "sources" /\ ReadingNext
       \/ scene = "import" /\ ImportNext
       \/ scene \notin {"sources", "import"} /\ UNCHANGED importVars
    /\ IF scene = "journey" THEN JourneyNext ELSE UNCHANGED journeyVars
Spec == Init /\ [][Next]_vars

\* The types of the pages.
TypeOK == scene \in Scenes /\ EditorTypeOK /\ CreationTypeOK /\ WorkbenchTypeOK /\ ScriptTypeOK /\ ConfigTypeOK
    /\ SandboxTypeOK /\ DynatraceTypeOK
=============================================================================
