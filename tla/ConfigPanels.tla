---------------------------- MODULE ConfigPanels ----------------------------
(***************************************************************************)
(* The configuration page (routes/configuration.tsx and                    *)
(* features/configuration): one panel per kind of profile, with a form, a  *)
(* delete dialog and for some a test, and the profiles the API keeps       *)
(* (internal/library/service.go).                                          *)
(*                                                                         *)
(* A profile is what a save may lose: whether it is active, and the        *)
(* material it stands for (a certificate, an endpoint, references to       *)
(* secrets).  The API reads a profile, prepares its new form and writes    *)
(* it, without a transaction; several users save at once.                  *)
(***************************************************************************)
EXTENDS Naturals, Sequences, FiniteSets

CONSTANTS
    Materials,           \* what profiles hold
    MaxProfiles, MaxConfigSteps   \* bounds: profiles, and forms opened, saves and deletions

PanelKinds == {"certificates", "proxies", "auth", "telemetry", "notifications", "secrets"}
Empty == "none"    \* of a form: nothing was given
ASSUME ConfigAssumption == Empty \notin Materials /\ MaxProfiles \in Nat \ {0} /\ MaxConfigSteps \in Nat

VARIABLES
    kind,         \* the panel that is open
    profiles,     \* on the server
    panel,        \* open, editing, form, pending, the target of the dialog, deleting
    requests,     \* requests to the API, mine and those of others
    test,         \* of a proxy or a channel: the profile, pending, the profile of the result
    tests,        \* tests on their way: the profiles
    configSteps,
    settings,     \* the AI provider on the server: version, whether it has a key, the last test
    provider,     \* its panel: loading, version shown, key typed, saving, testing, error
    providerCalls \* requests on their way
configVars == <<kind, profiles, panel, requests, test, tests, configSteps>>
providerVars == <<settings, provider, providerCalls>>

ConfigStep == configSteps < MaxConfigSteps /\ configSteps' = configSteps + 1
-----------------------------------------------------------------------------
(* The panels.                                                             *)

BlankForm == [named |-> FALSE, material |-> Empty, complete |-> TRUE]
\* What a form shows of a stored profile; a certificate never comes back.
LoadedCertificate(p) == [named |-> TRUE, material |-> Empty, complete |-> TRUE]
LoadedProxy(p) == [named |-> TRUE, material |-> p.material, complete |-> TRUE]
LoadedAuth(p) == [named |-> TRUE, material |-> p.material, complete |-> TRUE]
LoadedTelemetry(p) == [named |-> TRUE, material |-> p.material, complete |-> TRUE]
Loaded(p) ==
    CASE kind = "certificates" -> LoadedCertificate(p)
      [] kind = "proxies" -> LoadedProxy(p)
      [] kind = "auth" -> LoadedAuth(p)
      [] kind = "telemetry" -> LoadedTelemetry(p)

\* What each form finds by itself before it is sent.  "complete" is that a
\* private key is there if one is needed and no file too large, and for a
\* channel that its host, port and credentials are.
CertificateProblem(f) == ~f.named \/ (panel.editing = 0 /\ f.material = Empty) \/ ~f.complete
ProxyProblem(f) == ~f.named \/ f.material = Empty
AuthProblem(f) == ~f.named
TelemetryProblem(f) == ~f.named \/ f.material = Empty
ChannelProblem(f) == ~f.named \/ ~f.complete \/ f.material = Empty
SecretProblem(f) == ~f.named \/ f.material = Empty
FormProblem(f) ==
    CASE kind = "certificates" -> CertificateProblem(f)
      [] kind = "proxies" -> ProxyProblem(f)
      [] kind = "auth" -> AuthProblem(f)
      [] kind = "telemetry" -> TelemetryProblem(f)
      [] kind = "notifications" -> ChannelProblem(f)
      [] kind = "secrets" -> SecretProblem(f)

\* Secrets and channels are replaced, never edited.
Editable == kind \in {"certificates", "proxies", "auth", "telemetry"}
Testable == kind \in {"proxies", "notifications"}
ClosedPanel == [open |-> FALSE, editing |-> 0, form |-> BlankForm, pending |-> FALSE, target |-> 0, deleting |-> FALSE]
\* Closing the form forgets what was typed, or only puts it out of sight.
ClosedForm == IF kind \in {"auth", "telemetry"} THEN [panel EXCEPT !.open = FALSE, !.editing = 0, !.form = BlankForm]
              ELSE [panel EXCEPT !.open = FALSE]

ConfigInit ==
    /\ kind \in PanelKinds
    /\ \E m \in Materials : profiles = <<[active |-> TRUE, material |-> m]>>
    /\ panel = ClosedPanel /\ requests = {} /\ configSteps = 0
    /\ test = [profile |-> 0, pending |-> FALSE, result |-> 0] /\ tests = {}

Listed == {p \in DOMAIN profiles : profiles[p].active}
\* The rows of a panel, or 0 for the invitation that stands for them: the guided panels put
\* nothing there while their form is open.
ListOrInvitation == IF Listed # {} THEN Listed ELSE {0}
CertificateList == ListOrInvitation
ProxyList == ListOrInvitation
ChannelList == ListOrInvitation
SecretList == ListOrInvitation
AuthList == IF Listed = {} /\ panel.open THEN {} ELSE ListOrInvitation
TelemetryList == IF Listed = {} /\ panel.open THEN {} ELSE ListOrInvitation
PanelList ==
    CASE kind = "certificates" -> CertificateList
      [] kind = "proxies" -> ProxyList
      [] kind = "notifications" -> ChannelList
      [] kind = "secrets" -> SecretList
      [] kind = "auth" -> AuthList
      [] kind = "telemetry" -> TelemetryList
BeginCreate ==
    /\ ConfigStep
    /\ panel' = IF Editable THEN [panel EXCEPT !.open = TRUE, !.editing = 0, !.form = BlankForm]
                ELSE [panel EXCEPT !.open = TRUE]
    /\ UNCHANGED <<kind, profiles, requests, test, tests>>
\* Another profile may be opened while a save is on its way.
BeginEdit ==
    /\ ConfigStep /\ Editable
    /\ \E p \in PanelList \ {0} : panel' = [panel EXCEPT !.open = TRUE, !.editing = p, !.form = Loaded(profiles[p])]
    /\ UNCHANGED <<kind, profiles, requests, test, tests>>
TypeInForm ==
    /\ panel.open /\ ConfigStep
    /\ \E m \in Materials \cup {Empty}, complete \in BOOLEAN :
        panel' = [panel EXCEPT !.form = [named |-> TRUE, material |-> m, complete |-> complete]]
    /\ UNCHANGED <<kind, profiles, requests, test, tests>>
\* The guided forms cannot be cancelled while they are saved.
CloseForm ==
    /\ panel.open /\ (kind \in {"auth", "telemetry"} => ~panel.pending) /\ panel' = ClosedForm
    /\ UNCHANGED <<kind, profiles, requests, test, tests, configSteps>>

Request(op, id, material, mine) ==
    [n |-> configSteps, op |-> op, id |-> id, material |-> material, mine |-> mine, at |-> "sent", read |-> Empty]
SaveForm ==
    /\ panel.open /\ ~panel.pending /\ ConfigStep /\ ~FormProblem(panel.form)
    /\ panel' = [panel EXCEPT !.pending = TRUE]
    /\ requests' = requests \cup {Request("save", panel.editing, panel.form.material, TRUE)}
    /\ UNCHANGED <<kind, profiles, test, tests>>
AskDelete ==
    /\ ~panel.deleting
    /\ panel' \in {[panel EXCEPT !.target = p] : p \in Listed \cup {0}}
    /\ UNCHANGED <<kind, profiles, requests, test, tests, configSteps>>
ConfirmDelete ==
    /\ panel.target # 0 /\ ~panel.deleting /\ ConfigStep
    /\ panel' = [panel EXCEPT !.deleting = TRUE]
    /\ requests' = requests \cup {Request("delete", panel.target, Empty, TRUE)}
    /\ UNCHANGED <<kind, profiles, test, tests>>
\* The answers: a save that went well closes whatever form is open by then.
\* One that is thrown leaves the panel pending for good.
PanelAnswered(q) == q.mine /\ q.at \in {"done", "refused"}
RequestAnswered ==
    /\ \E q \in requests :
        /\ PanelAnswered(q) /\ requests' = requests \ {q}
        /\ panel' =
            IF q.op = "save" /\ q.at = "done" THEN [panel EXCEPT !.pending = FALSE, !.open = FALSE, !.editing = 0, !.form = BlankForm]
            ELSE IF q.op = "save" THEN [panel EXCEPT !.pending = FALSE]
            ELSE [panel EXCEPT !.deleting = FALSE, !.target = IF q.at = "done" THEN 0 ELSE @]
        /\ test' = IF q.op = "delete" /\ q.at = "done" /\ kind = "proxies" /\ test.profile = q.id
                   THEN [test EXCEPT !.profile = 0] ELSE test
    /\ UNCHANGED <<kind, profiles, tests, configSteps>>
RequestThrown ==
    /\ \E q \in requests : q.mine /\ requests' = (requests \ {q}) \cup {[q EXCEPT !.mine = FALSE]}
    /\ UNCHANGED <<kind, profiles, panel, test, tests, configSteps>>

\* Another test may be begun while one is on its way, and is then given the
\* result of the first.
BeginTest ==
    /\ ConfigStep /\ Testable
    /\ \E p \in Listed :
        \/ kind = "proxies" /\ test' = [test EXCEPT !.profile = p, !.result = 0] /\ UNCHANGED tests
        \/ /\ IF kind = "proxies" THEN p = test.profile /\ ~test.pending ELSE test.profile # p
           /\ test' = [profile |-> p, pending |-> TRUE, result |-> 0] /\ tests' = tests \cup {p}
    /\ UNCHANGED <<kind, profiles, panel, requests>>
TestAnswered ==
    /\ \E p \in tests :
        /\ tests' = tests \ {p}
        /\ test' = [profile |-> IF kind = "proxies" THEN test.profile ELSE 0, pending |-> FALSE, result |-> p]
    /\ UNCHANGED <<kind, profiles, panel, requests, configSteps>>
-----------------------------------------------------------------------------
(* The API.                                                                *)

\* Mutant: the material that is stored is not kept.
PreparedAsGiven(given, stored) == given
\* What a save makes of the material: files and credentials that are left
\* empty keep what is stored.
Prepared(given, stored) ==
    IF kind \in {"certificates", "notifications"} /\ given = Empty THEN stored ELSE given
\* What the API refuses of a profile.
Invalid(material) == kind \in {"auth", "proxies", "telemetry", "secrets"} /\ material = Empty

Progress(q, at) == requests' = (requests \ {q}) \cup {[q EXCEPT !.at = at]}
SaveRead ==
    /\ \E q \in requests :
        /\ q.op = "save" /\ q.at = "sent" /\ q.id # 0
        /\ IF profiles[q.id].active
           THEN requests' = (requests \ {q}) \cup {[q EXCEPT !.at = "read", !.read = profiles[q.id].material]}
           ELSE Progress(q, "refused")
    /\ UNCHANGED <<kind, profiles, panel, test, tests, configSteps>>
\* The profile is written as it was read, active above all.
SaveWrite ==
    /\ \E q \in requests :
        /\ q.op = "save" /\ q.at = "read"
        /\ IF Invalid(Prepared(q.material, q.read)) THEN Progress(q, "refused") /\ UNCHANGED profiles
           ELSE /\ profiles' = [profiles EXCEPT ![q.id] = [active |-> TRUE, material |-> Prepared(q.material, q.read)]]
                /\ Progress(q, "done")
    /\ UNCHANGED <<kind, panel, test, tests, configSteps>>
CreateProfile ==
    /\ \E q \in requests :
        /\ q.op = "save" /\ q.at = "sent" /\ q.id = 0
        /\ IF Invalid(q.material) \/ Len(profiles) = MaxProfiles THEN Progress(q, "refused") /\ UNCHANGED profiles
           ELSE profiles' = Append(profiles, [active |-> TRUE, material |-> q.material]) /\ Progress(q, "done")
    /\ UNCHANGED <<kind, panel, test, tests, configSteps>>
DeleteProfile ==
    /\ \E q \in requests :
        /\ q.op = "delete" /\ q.at = "sent"
        /\ profiles' = [profiles EXCEPT ![q.id].active = FALSE]
        /\ Progress(q, IF profiles[q.id].active THEN "done" ELSE "refused")
    /\ UNCHANGED <<kind, panel, test, tests, configSteps>>
RequestFailed ==
    /\ \E q \in requests : q.at \in {"sent", "read"} /\ Progress(q, "refused")
    /\ UNCHANGED <<kind, profiles, panel, test, tests, configSteps>>
\* Another user, whose form is as good as mine.
OtherUser ==
    /\ ConfigStep
    /\ \E p \in Listed, m \in Materials \cup {Empty}, op \in {"save", "delete"} :
        /\ op = "save" => Editable /\ (m = Empty => kind \in {"certificates", "auth"})
        /\ requests' = requests \cup {Request(op, p, m, FALSE)}
    /\ UNCHANGED <<kind, profiles, panel, test, tests>>

ConfigNext ==
    \/ BeginCreate \/ BeginEdit \/ TypeInForm \/ CloseForm \/ SaveForm \/ AskDelete \/ ConfirmDelete
    \/ RequestAnswered \/ RequestThrown \/ BeginTest \/ TestAnswered
    \/ SaveRead \/ SaveWrite \/ CreateProfile \/ DeleteProfile \/ RequestFailed \/ OtherUser
-----------------------------------------------------------------------------
(* The AI provider, which is one record.                                   *)

ProviderInit ==
    /\ settings = [version |-> 0, key |-> FALSE, status |-> "UNTESTED", tested |-> 0]
    /\ provider = [loading |-> TRUE, version |-> 0, key |-> FALSE, saving |-> FALSE, testing |-> FALSE, error |-> FALSE]
    /\ providerCalls = {}
ProviderLoaded ==
    /\ provider.loading
    /\ provider' \in {[provider EXCEPT !.loading = FALSE, !.version = settings.version],
                      [provider EXCEPT !.loading = FALSE, !.error = TRUE]}
    /\ UNCHANGED <<settings, providerCalls>>
ProviderEdit ==
    /\ ~provider.loading
    /\ \/ \E v \in 0..2 : provider' = [provider EXCEPT !.version = v]
       \/ provider' = [provider EXCEPT !.key = TRUE]
    /\ UNCHANGED <<settings, providerCalls>>
ProviderSave ==
    /\ ~provider.loading /\ ~provider.saving
    /\ provider' = [provider EXCEPT !.saving = TRUE, !.error = FALSE]
    /\ providerCalls' = providerCalls \cup {[op |-> "save", version |-> provider.version, key |-> provider.key]}
    /\ UNCHANGED settings
\* Mutant: a save without a key stores none.
ProviderKeyGiven(given) == given
\* A key that is not typed again is kept; so is the result of the last test.
ProviderKey(given) == given \/ settings.key
ProviderSaved ==
    /\ \E q \in providerCalls :
        /\ q.op = "save" /\ providerCalls' = providerCalls \ {q}
        /\ \/ /\ settings' = [settings EXCEPT !.version = q.version, !.key = ProviderKey(q.key)]
              /\ provider' = [provider EXCEPT !.saving = FALSE, !.version = q.version, !.key = FALSE]
           \/ provider' = [provider EXCEPT !.saving = FALSE, !.error = TRUE] /\ UNCHANGED settings
ProviderTest ==
    /\ ~provider.loading /\ ~provider.testing /\ settings.key
    /\ provider' = [provider EXCEPT !.testing = TRUE, !.error = FALSE]
    /\ providerCalls' = providerCalls \cup {[op |-> "test", version |-> settings.version]}
    /\ UNCHANGED settings
\* The settings are read again after a test, over what was typed meanwhile.
ProviderTested ==
    /\ \E q \in providerCalls, status \in {"PASSED", "FAILED"} :
        /\ q.op = "test" /\ providerCalls' = providerCalls \ {q}
        /\ settings' = [settings EXCEPT !.status = status, !.tested = q.version]
        /\ provider' = [provider EXCEPT !.testing = FALSE, !.version = settings.version, !.error = status # "PASSED"]
ProviderNext ==
    ProviderLoaded \/ ProviderEdit \/ ProviderSave \/ ProviderSaved \/ ProviderTest \/ ProviderTested
\* A behaviour of one panel, and of the provider's beside it.
ConfigSpec ==
    /\ ConfigInit /\ ProviderInit
    /\ [][(ConfigNext /\ UNCHANGED providerVars) \/ (ProviderNext /\ UNCHANGED configVars)]_<<configVars, providerVars>>
ProviderBadge == IF settings.status = "PASSED" THEN "Verified" ELSE "Not verified"

\* A provider that is shown as verified was tested as it is.
VerifiedIsTested == ProviderBadge = "Verified" => settings.tested = settings.version
-----------------------------------------------------------------------------
ConfigTypeOK ==
    /\ kind \in PanelKinds /\ Len(profiles) \in 1..MaxProfiles
    /\ panel.editing \in 0..Len(profiles) /\ panel.target \in 0..Len(profiles)
    /\ panel.deleting => panel.target # 0
    /\ (panel.editing # 0 => Editable)

\* No interleaving of saves, deletions and failures takes from a profile, or
\* from the AI provider, what a form that leaves it empty cannot give back: the
\* certificate, the address or credentials, the key.
NothingLost ==
    [][/\ \A p \in DOMAIN profiles : profiles'[p].material # Empty
       /\ settings.key => settings'.key]_<<configVars, providerVars>>

\* A profile that was deleted stays deleted ("This cannot be undone.", the
\* delete dialog of every panel).
DeletedStays == [][\A p \in DOMAIN profiles : ~profiles[p].active => ~profiles'[p].active]_configVars
=============================================================================
