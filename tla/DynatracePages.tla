--------------------------- MODULE DynatracePages ---------------------------
(***************************************************************************)
(* The Dynatrace workspace of an application: one stored configuration,    *)
(* edited through panels that are mounted one at a time.  A panel copies   *)
(* what the page had loaded when it was mounted, and saves a whole         *)
(* configuration: its own fields, and for the others what the page has     *)
(* loaded.  An answer only makes the page load again, and the panel it     *)
(* belonged to may be gone by then.                                        *)
(***************************************************************************)
EXTENDS Naturals, Sequences, FiniteSets

CONSTANTS
    ConnectionProfiles,   \* the telemetry profiles, in the order they are offered
    MaxPanelEdits,        \* edits made to the panels
    MaxPanelCalls         \* requests sent by them

Views == {"overview", "connection", "resources", "metrics", "rules", "history"}
NeedConfiguration == {"overview", "resources", "metrics", "rules"}
Platforms == {"HYDRA", "TIMS"}
Zones == {"zone"}
\* The registered service, the server that discovery finds, and rows typed by hand.
ServiceMapping == [platform |-> "HYDRA", type |-> "WORKLOAD", value |-> "service"]
ServerMapping == [platform |-> "TIMS", type |-> "ENTITY_ID", value |-> "server"]
NewMapping(platform) ==
    [platform |-> platform, type |-> IF platform = "TIMS" THEN "HOST_GROUP" ELSE "WORKLOAD", value |-> ""]
MappingTypes(platform) ==
    {"TAG", "ENTITY_ID"} \cup
        IF platform = "TIMS" THEN {"HOST_GROUP", "HOST"} ELSE {"NAMESPACE", "WORKLOAD", "CONTAINER_GROUP", "CLUSTER"}
\* A guardrail, by its gate mode; one whose name was cleared fails the request's schema.
Rules == {"ADVISORY", "BLOCKING", "UNNAMED"}

Governed == {"connection", "zones", "platforms", "mappings", "rules"}
NoConfiguration ==
    [connection |-> "none", zones |-> {}, platforms |-> {}, mappings |-> {}, rules |-> {}, verified |-> FALSE]
Exists(configuration) == configuration.connection # "none"

VARIABLES
    governed,              \* the configuration stored
    seen,                  \* the configuration the page has loaded
    queried,               \* the platforms of the newest query: stored, and loaded
    tab, fields,           \* the panel mounted and its fields
    panelCalls,            \* the requests on their way
    panelEdits, panelAsks  \* bounds

dynatraceVars == <<governed, seen, queried, tab, fields, panelCalls, panelEdits, panelAsks>>

FirstProfile == IF ConnectionProfiles = <<>> THEN "none" ELSE ConnectionProfiles[1]
Profile(configuration) == IF Exists(configuration) THEN configuration.connection ELSE FirstProfile
\* What a panel starts from.
Mounted(configuration) ==
    [connection |-> Profile(configuration), zones |-> configuration.zones,
     platforms |-> IF Exists(configuration) THEN configuration.platforms ELSE Platforms,
     mappings |-> configuration.mappings, rules |-> configuration.rules, servers |-> FALSE]

DynatraceInit ==
    /\ governed \in {NoConfiguration,
                     [connection |-> FirstProfile, zones |-> Zones, platforms |-> {"HYDRA"},
                      mappings |-> {ServiceMapping}, rules |-> {"BLOCKING"}, verified |-> TRUE]}
    /\ FirstProfile = "none" => ~Exists(governed)
    /\ seen = governed /\ queried = [stored |-> {}, loaded |-> {}]
    /\ tab = IF Exists(seen) THEN "resources" ELSE "connection"
    /\ fields = Mounted(seen)
    /\ panelCalls = {} /\ panelEdits = 0 /\ panelAsks = 0

-----------------------------------------------------------------------------
(* The tabs. *)

\* A panel that needs a configuration gives way to a notice until there is one.
Mounts(v, configuration) == v \notin NeedConfiguration \/ Exists(configuration)

\* What the page was doing is not undone by leaving the panel that asked for it.
OpenView(v) ==
    /\ tab # v
    /\ tab' = v /\ fields' = Mounted(seen)
    /\ panelCalls' = {[c EXCEPT !.live = FALSE] : c \in panelCalls}
    /\ UNCHANGED <<governed, seen, queried, panelEdits, panelAsks>>
OpenTab == \E v \in Views : OpenView(v)
ContinueToConnection == ~Mounts(tab, seen) /\ OpenView("connection")

EditPanel(v, changed) ==
    /\ tab = v /\ Mounts(v, seen) /\ panelEdits < MaxPanelEdits
    /\ fields' = changed /\ fields' # fields /\ panelEdits' = panelEdits + 1
    /\ UNCHANGED <<governed, seen, queried, tab, panelCalls, panelAsks>>

Toggled(x, set) == IF x \in set THEN set \ {x} ELSE set \cup {x}

-----------------------------------------------------------------------------
(* What the panels let the user change. *)

ChooseProfile ==
    \E i \in DOMAIN ConnectionProfiles :
        EditPanel("connection", [fields EXCEPT !.connection = ConnectionProfiles[i]])
TogglePlatform == \E p \in Platforms : EditPanel("connection", [fields EXCEPT !.platforms = Toggled(p, @)])

\* Choosing other zones forgets the servers found in the old ones.
ToggleZone ==
    \E z \in Zones :
        \/ EditPanel("connection", [fields EXCEPT !.zones = Toggled(z, @)])
        \/ EditPanel("resources", [fields EXCEPT !.zones = Toggled(z, @), !.servers = FALSE])

ToggleApplicationService == EditPanel("resources", [fields EXCEPT !.mappings = Toggled(ServiceMapping, @)])
ToggleServer == fields.servers /\ EditPanel("resources", [fields EXCEPT !.mappings = Toggled(ServerMapping, @)])
AddMapping == \E p \in Platforms : EditPanel("resources", [fields EXCEPT !.mappings = @ \cup {NewMapping(p)}])
\* A row keeps its type when its platform changes.
ChangeMapping ==
    \E m \in fields.mappings :
        \E changed \in {[m EXCEPT !.platform = p] : p \in Platforms} \cup
                       {[m EXCEPT !.type = t] : t \in MappingTypes(m.platform)} \cup
                       {[m EXCEPT !.value = v] : v \in {"", "typed"}} :
            EditPanel("resources", [fields EXCEPT !.mappings = (@ \ {m}) \cup {changed}])
RemoveMapping == \E m \in fields.mappings : EditPanel("resources", [fields EXCEPT !.mappings = @ \ {m}])

AddRule == EditPanel("rules", [fields EXCEPT !.rules = @ \cup {"ADVISORY"}])
UpdateRule == \E r \in fields.rules, changed \in Rules : EditPanel("rules", [fields EXCEPT !.rules = (@ \ {r}) \cup {changed}])
RemoveRule == \E r \in fields.rules : EditPanel("rules", [fields EXCEPT !.rules = @ \ {r}])

-----------------------------------------------------------------------------
(* What the panels ask of the server. *)

Pending(kinds) == \E c \in panelCalls : c.live /\ c.kind \in kinds
WithValue(mappings) == {m \in mappings : m.value # ""}

\* The connection panel: its own fields, and the mappings and rules as loaded.
\* Mutant: it sends no rules with a configuration it loaded before.
ConnectionBodyUnruled ==
    [connection |-> fields.connection, zones |-> fields.zones, platforms |-> fields.platforms,
     mappings |-> seen.mappings, rules |-> {}]
ConnectionBody ==
    [connection |-> fields.connection, zones |-> fields.zones, platforms |-> fields.platforms,
     mappings |-> seen.mappings, rules |-> seen.rules]
\* The resources panel: the platforms become those of the mappings chosen.
ResourcesBody ==
    [connection |-> seen.connection, zones |-> fields.zones,
     platforms |-> {m.platform : m \in WithValue(fields.mappings)},
     mappings |-> WithValue(fields.mappings), rules |-> seen.rules]
RulesBody == [[p \in Governed |-> {}] EXCEPT !["connection"] = "none", !["rules"] = fields.rules]
NoBody == [[p \in Governed |-> {}] EXCEPT !["connection"] = "none"]

AskPanel(v, kind, body) ==
    /\ tab = v /\ Mounts(v, seen) /\ panelAsks < MaxPanelCalls
    /\ panelCalls' = panelCalls \cup {[kind |-> kind, body |-> body, base |-> [p \in Governed |-> seen[p]],
                             first |-> ~Exists(seen), live |-> TRUE, stage |-> "sent"]}
    /\ panelAsks' = panelAsks + 1
    /\ UNCHANGED <<governed, seen, queried, tab, fields, panelEdits>>

SaveConnection ==
    /\ ~Pending({"connection"}) /\ fields.connection # "none" /\ fields.platforms # {}
    /\ AskPanel("connection", "connection", ConnectionBody)
TestConnection == Exists(seen) /\ ~Pending({"test"}) /\ AskPanel("connection", "test", NoBody)

ResourceCalls == {"resources", "servers", "preview"}
SaveResources ==
    /\ ~Pending(ResourceCalls) /\ fields.zones # {} /\ WithValue(fields.mappings) # {}
    /\ AskPanel("resources", "resources", ResourcesBody)
LoadZones == ~Pending({"zones"}) /\ AskPanel("resources", "zones", NoBody)
DiscoverServers == ~Pending(ResourceCalls) /\ fields.zones # {} /\ AskPanel("resources", "servers", NoBody)
RunPreview == ~Pending(ResourceCalls) /\ WithValue(fields.mappings) # {} /\ AskPanel("resources", "preview", NoBody)

\* A rule without a name is refused before it is sent, and the panel stays pending.
SaveRules == ~Pending({"rules"}) /\ "UNNAMED" \notin fields.rules /\ AskPanel("rules", "rules", RulesBody)
SaveUnnamed ==
    /\ ~Pending({"rules"}) /\ "UNNAMED" \in fields.rules /\ tab = "rules" /\ Mounts("rules", seen) /\ panelAsks < MaxPanelCalls
    /\ panelCalls' = panelCalls \cup {[kind |-> "rules", body |-> NoBody, base |-> NoBody, first |-> FALSE, live |-> TRUE, stage |-> "thrown"]}
    /\ panelAsks' = panelAsks + 1
    /\ UNCHANGED <<governed, seen, queried, tab, fields, panelEdits>>

\* Mutant: the button looks at the mappings.
QueryOfferedByMappings(configuration) == ~Pending({"query"}) /\ configuration.mappings # {}
QueryOffered(configuration) == ~Pending({"query"}) /\ configuration.zones # {}
RunQuery ==
    /\ QueryOffered(seen)
    /\ \E p \in Platforms : AskPanel("metrics", "query", [NoBody EXCEPT !["platforms"] = {p}])

-----------------------------------------------------------------------------
(* The server. *)

To(c, stage) == panelCalls' = (panelCalls \ {c}) \cup {[c EXCEPT !.stage = stage]}

\* A save replaces everything, whatever the revision, and forgets the connection test.
Commit(c) ==
    /\ c.kind \in {"connection", "resources", "rules"} /\ c.stage = IF c.kind = "rules" THEN "read" ELSE "sent"
    /\ governed' = [p \in Governed \cup {"verified"} |-> IF p = "verified" THEN FALSE ELSE c.body[p]]
    /\ To(c, "done") /\ UNCHANGED <<seen, queried, tab, fields, panelEdits, panelAsks>>
\* Saving rules reads the configuration, and then saves it with the new ones.
ReadForRules(c) ==
    /\ c.kind = "rules" /\ c.stage = "sent"
    /\ IF Exists(governed)
       THEN panelCalls' = (panelCalls \ {c}) \cup
                {[c EXCEPT !.stage = "read", !.base = [p \in Governed |-> governed[p]],
                           !.body = [[p \in Governed |-> governed[p]] EXCEPT !["rules"] = c.body.rules]]}
       ELSE To(c, "refused")
    /\ UNCHANGED <<governed, seen, queried, tab, fields, panelEdits, panelAsks>>
\* The outcome of a test is written on whatever is stored when Dynatrace has answered.
Tested(c) ==
    /\ c.kind = "test" /\ c.stage = "sent"
    /\ \E success \in BOOLEAN :
        /\ governed' = [governed EXCEPT !.verified = success]
        /\ To(c, IF success THEN "done" ELSE "refused")
    /\ UNCHANGED <<seen, queried, tab, fields, panelEdits, panelAsks>>
\* A query needs a zone; what went wrong in Dynatrace is stored as a run too.
Queried(c) ==
    /\ c.kind = "query" /\ c.stage = "sent"
    /\ IF Exists(governed) /\ governed.zones # {}
       THEN queried' = [queried EXCEPT !.stored = c.body.platforms] /\ To(c, "done")
       ELSE queried' = queried /\ To(c, "unusable")
    /\ UNCHANGED <<governed, seen, tab, fields, panelEdits, panelAsks>>
\* A request the server or Dynatrace does not answer.
PanelRefused(c) ==
    /\ c.stage = "sent" /\ To(c, "refused")
    /\ UNCHANGED <<governed, seen, queried, tab, fields, panelEdits, panelAsks>>
Serve == \E c \in panelCalls : Commit(c) \/ ReadForRules(c) \/ Tested(c) \/ Queried(c) \/ PanelRefused(c)

-----------------------------------------------------------------------------
(* The answers. *)

\* Zones, servers and previews only change the panel that asked, if it is still there.
PanelListed ==
    \E c \in panelCalls :
        /\ c.kind \in {"zones", "servers", "preview"} /\ c.stage = "sent"
        /\ panelCalls' = panelCalls \ {c}
        /\ fields' = IF c.live /\ c.kind = "servers" THEN [fields EXCEPT !.servers = TRUE] ELSE fields
        /\ UNCHANGED <<governed, seen, queried, tab, panelEdits, panelAsks>>
PanelFailed ==
    \E c \in panelCalls :
        /\ c.stage \in {"refused", "unusable"} /\ panelCalls' = panelCalls \ {c}
        /\ UNCHANGED <<governed, seen, queried, tab, fields, panelEdits, panelAsks>>
\* The button is free again before the page has loaded what was saved.
PanelSaved ==
    \E c \in panelCalls :
        /\ c.stage = "done"
        /\ panelCalls' = (panelCalls \ {c}) \cup {[c EXCEPT !.stage = "reloading", !.live = FALSE]}
        /\ UNCHANGED <<governed, seen, queried, tab, fields, panelEdits, panelAsks>>

\* A load that fails counts as no configuration.  The connection panel takes the profile
\* and zones that were loaded, edited or not; the first save leads on to the resources.
Loads(c, loaded) ==
    /\ panelCalls' = panelCalls \ {c}
    /\ seen' = loaded /\ queried' = [queried EXCEPT !.loaded = queried.stored]
    /\ IF c.kind = "connection" /\ c.first
       THEN tab' = "resources" /\ fields' = Mounted(loaded)
       ELSE /\ tab' = tab
            /\ fields' = IF tab = "connection" THEN [fields EXCEPT !.connection = Profile(loaded), !.zones = loaded.zones]
                       ELSE IF Mounts(tab, seen) # Mounts(tab, loaded) THEN Mounted(loaded) ELSE fields
    /\ UNCHANGED <<governed, panelEdits, panelAsks>>
Reloaded == \E c \in panelCalls : c.stage = "reloading" /\ \E loaded \in {governed, NoConfiguration} : Loads(c, loaded)

DynatraceNext ==
    \/ OpenTab \/ ContinueToConnection
    \/ ChooseProfile \/ TogglePlatform \/ ToggleZone
    \/ ToggleApplicationService \/ ToggleServer \/ AddMapping \/ ChangeMapping \/ RemoveMapping
    \/ AddRule \/ UpdateRule \/ RemoveRule
    \/ SaveConnection \/ TestConnection \/ SaveResources \/ LoadZones \/ DiscoverServers \/ RunPreview
    \/ SaveRules \/ SaveUnnamed \/ RunQuery
    \/ Serve \/ PanelListed \/ PanelFailed \/ PanelSaved \/ Reloaded
DynatraceSpec == DynatraceInit /\ [][DynatraceNext]_dynatraceVars

-----------------------------------------------------------------------------
(* Properties. *)

\* The types of the workspace.
DynatraceTypeOK ==
    /\ tab \in Views /\ fields.zones \subseteq Zones /\ fields.platforms \subseteq Platforms /\ fields.rules \subseteq Rules
    /\ \A c \in panelCalls : c.live => c.stage \notin {"reloading"}

\* A save composed from the configuration that is stored changes only what its panel is
\* for: the connection panel leaves the mappings and the guardrails, the resources panel
\* the connection and the guardrails, the rules panel everything but the guardrails.
EditedBy(kind) ==
    CASE kind = "connection" -> {"connection", "zones", "platforms"}
      [] kind = "resources" -> {"zones", "platforms", "mappings"}
      [] OTHER -> {"rules"}
PanelsKeepOthers ==
    [][\A c \in panelCalls :
        Commit(c) /\ c.base = [p \in Governed |-> governed[p]]
            => \A p \in Governed \ EditedBy(c.kind) : governed'[p] = governed[p]]_dynatraceVars

\* The same of every save, whatever it was composed from: a save that was composed before
\* the page had loaded the last one, or after a load failed, takes it back.
SavesKeepOthers ==
    [][\A c \in panelCalls :
        Commit(c) /\ Exists(governed)
            => \A p \in Governed \ EditedBy(c.kind) : governed'[p] = governed[p]]_dynatraceVars

\* The metrics panel offers a query only if the server can run it: a query is found
\* unusable only after the stored configuration has moved on from the one loaded.
OfferedQueryRuns ==
    \A c \in panelCalls : c.stage = "unusable" => c.base # [p \in Governed |-> governed[p]]
=============================================================================
