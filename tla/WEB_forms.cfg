SPECIFICATION Spec
CONSTANTS
    Contents = {"bad", "good"}
    Valid = {"good"}
    Authors = {u1, u2}
    MaxRevisions = 3
    MaxRestores = 1
    Editor = u1
    Applications = {app}
    Schedules = {"daily", "hourly"}
    MaxEditorSteps = 2
    Slugs = {"a", "b", "c"}
    Taken = {"c"}
    MaxTries = 2
    Replicas = 2
    MaxFormEdits = 1
    MaxPreviews = 2
    Materials = {m1}
    MaxProfiles = 2
    MaxConfigSteps = 3
    MaxSteps = 3
    ScriptScopes = {"environment"}
    OpenedSections = {"pre-request", "extractors"}
    MaxCode = 2
    MaxCalls = 2
    MaxTests = 2
    MaxScriptCalls = 1
    MaxBytes = 3
    MaxCell = 2
    ConnectionProfiles <- MCProfiles
    MaxPanelEdits = 1
    MaxPanelCalls = 2
    ServiceIds = {"s1", "s2"}
    Receivers = {"r1", "r2"}
    FirstService = "s1"
    FirstReceiver = "r1"
    MaxPageEdits = 2
    MaxPageCalls = 2
    Unanswered = TRUE
    MonitorCount = 3
    FoundByName = {2, 3}
    InboxAlerts = {"x", "y"}
    External = {"y"}
    PageSize = 1
    MaxListSteps = 3
    MaxListCalls = 1
    MaxImportSteps = 6
    MaxImportTries = 3
    Addable = {"FILL", "SCREENSHOT"}
    MaxJourneyMoves = 3
    MaxJourneySteps = 3
    MaxRivalWrites = 1
INVARIANTS OfferedResolves PublishedValid OneMonitorPerForm FormsAskForAll
           TestsCounted LibraryAgrees ShownIsStored PageIsPlace CredentialsWithheld DraftShownIsStored
PROPERTIES ImplementsReleaseLog NothingLost PanelsKeepOthers
CHECK_DEADLOCK FALSE
