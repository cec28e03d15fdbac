-------------------------- MODULE ApplicationPages --------------------------
(***************************************************************************)
(* The workspace of an application: its settings, its services, and the    *)
(* receivers of OpenSearch alerts with the queue in which their alerts are *)
(* handed to services.  Every change is one request; a page shows what its *)
(* last load found, and loads again after a change the server confirmed:   *)
(* at once, or when the setup it asks for first has arrived.               *)
(***************************************************************************)
EXTENDS Naturals, FiniteSets

CONSTANTS
    ServiceIds, Receivers,   \* a service that is created takes an id that was never used
    FirstService, FirstReceiver,   \* those there are at first
    MaxPageEdits,            \* edits, and openings of forms and sections
    MaxPageCalls,            \* requests sent
    Unanswered               \* whether a request may be carried out without its answer arriving

Sections == {"settings", "services", "receivers"}
Nobody == "none"
\* What is stored about the application: who owns it, its services, the receivers with
\* whether they are enabled, and the service that the alert of a receiver is tagged with.
VARIABLES
    registered, listed,   \* stored, and loaded by the page
    retired,              \* the services that were deleted
    workspace, entered,   \* the section shown and its fields
    sendings,             \* the requests on their way
    load,                 \* the load of the page on its way: the section, and what it found
    lost,                 \* whether an answer, a setup or a load was lost since a load last read
    editsMade, callsMade  \* bounds

applicationVars == <<registered, listed, retired, workspace, entered, sendings, load, lost, editsMade, callsMade>>
NoLoad == [stage |-> "none"]

\* The fields of a section when it is mounted.
Fresh(loaded) ==
    [owner |-> loaded.owner,                     \* the settings form
     editing |-> Nobody, deleting |-> Nobody,    \* the services: the form, and the dialog
     creating |-> FALSE, setup |-> Nobody, token |-> Nobody, busy |-> Nobody,   \* the receivers
     selected |-> FALSE, choice |-> Nobody]      \* the queue

ApplicationInit ==
    /\ registered = [owner |-> "owner", services |-> {FirstService}, tag |-> Nobody,
                     receivers |-> [r \in Receivers |-> IF r = FirstReceiver THEN "enabled" ELSE "absent"]]
    /\ listed = registered /\ retired = {}
    /\ workspace \in Sections /\ entered = Fresh(listed)
    /\ sendings = {} /\ load = NoLoad /\ lost = FALSE /\ editsMade = 0 /\ callsMade = 0

-----------------------------------------------------------------------------
(* The page. *)

\* A load that begins takes the place of one that is under way.
LoadBegins(s) == load' = [stage |-> "asked", section |-> s]
\* Another section is another address, shown once its data is loaded.
OpenSection ==
    \E s \in Sections \ {workspace} :
        /\ editsMade < MaxPageEdits /\ editsMade' = editsMade + 1
        /\ LoadBegins(s)
        /\ UNCHANGED <<registered, listed, retired, workspace, entered, sendings, lost, callsMade>>
\* What is read from then on shows what was done before, whatever was lost.
LoadReads ==
    /\ load.stage = "asked" /\ load' = [stage |-> "read", section |-> load.section, found |-> registered]
    /\ lost' = FALSE
    /\ UNCHANGED <<registered, listed, retired, workspace, entered, sendings, editsMade, callsMade>>
Replaced == {[r EXCEPT !.live = FALSE] : r \in sendings}
LoadShown ==
    /\ load.stage = "read" /\ load' = NoLoad
    /\ listed' = load.found /\ workspace' = load.section
    /\ IF load.section = workspace THEN UNCHANGED <<entered, sendings>>
       ELSE entered' = Fresh(listed') /\ sendings' = Replaced
    /\ UNCHANGED <<registered, retired, lost, editsMade, callsMade>>
\* A message takes the place of the page.
LoadFails ==
    /\ load # NoLoad /\ load' = NoLoad /\ lost' = TRUE
    /\ workspace' = "error" /\ entered' = Fresh(listed) /\ sendings' = Replaced
    /\ UNCHANGED <<registered, listed, retired, editsMade, callsMade>>

Change(s, changed) ==
    /\ workspace = s /\ editsMade < MaxPageEdits /\ entered' = changed /\ entered' # entered /\ editsMade' = editsMade + 1
    /\ UNCHANGED <<registered, listed, retired, workspace, sendings, load, lost, callsMade>>
Send(s, kind, about, body) ==
    /\ workspace = s /\ callsMade < MaxPageCalls /\ callsMade' = callsMade + 1
    /\ sendings' = sendings \cup {[kind |-> kind, about |-> about, body |-> body, live |-> TRUE, stage |-> "sent"]}
    /\ UNCHANGED <<registered, listed, retired, workspace, load, lost, editsMade>>
InFlight(kinds) == \E r \in sendings : r.live /\ r.kind \in kinds /\ r.stage \in {"sent", "done", "refused"}

(* The settings. *)
EditOwner == \E owner \in {"", "owner", "other"} : Change("settings", [entered EXCEPT !.owner = owner])
SaveSettings == ~InFlight({"settings"}) /\ Send("settings", "settings", Nobody, entered.owner) /\ UNCHANGED entered

(* The services: one form for a new service and for one that is listed. *)
\* While the dialog is open nothing behind it can be used.
ServiceForm(id) == entered.deleting = Nobody /\ Change("services", [entered EXCEPT !.editing = id])
AddService == ServiceForm("new")
EditService == \E s \in listed.services : ServiceForm(s)
ResetService == ServiceForm(Nobody)
SaveService ==
    /\ entered.editing # Nobody /\ entered.deleting = Nobody /\ ~InFlight({"service"})
    /\ Send("services", "service", entered.editing, Nobody) /\ UNCHANGED entered
AskDeleteService ==
    \E s \in listed.services : ~InFlight({"service", "delete"}) /\ Change("services", [entered EXCEPT !.deleting = s])
CancelDelete == ~InFlight({"delete"}) /\ Change("services", [entered EXCEPT !.deleting = Nobody])
ConfirmDeleteService ==
    /\ entered.deleting # Nobody /\ ~InFlight({"delete"})
    /\ Send("services", "delete", entered.deleting, Nobody) /\ UNCHANGED entered

(* The receivers.  One field remembers which button was pressed last. *)
OpenReceiverForm == Change("receivers", [entered EXCEPT !.creating = ~@])
Act(kind, r, body) ==
    /\ Send("receivers", kind, r, body)
    /\ entered' = [entered EXCEPT !.busy = kind]
ReceiverListed(r) == listed.receivers[r] # "absent"
CreateReceiver ==
    /\ entered.creating /\ entered.busy # "create"
    /\ \E r \in Receivers : registered.receivers[r] = "absent" /\ Act("create", r, Nobody)
ShowSetup == \E r \in Receivers : ReceiverListed(r) /\ Act("setup", r, Nobody)
ToggleReceiver ==
    \E r \in Receivers :
        /\ ReceiverListed(r) /\ entered.busy # "toggle"
        /\ Act("toggle", r, IF listed.receivers[r] = "enabled" THEN "paused" ELSE "enabled")
RotateToken == \E r \in Receivers : ReceiverListed(r) /\ Act("rotate", r, Nobody)
TestOrSync == \E r \in Receivers : ReceiverListed(r) /\ Act("test", r, Nobody)
DeleteReceiver ==
    \E r \in Receivers :
        /\ ReceiverListed(r) /\ ~InFlight({"remove"}) /\ Send("receivers", "remove", r, Nobody) /\ UNCHANGED entered

(* The queue: the alert is handed to one of the services listed, or to none. *)
SelectAlert == Change("receivers", [entered EXCEPT !.selected = ~@])
ChooseService == \E s \in listed.services \cup {"unassigned"} : Change("receivers", [entered EXCEPT !.choice = s])
AssignService ==
    /\ entered.selected /\ entered.choice # Nobody /\ ~InFlight({"assign"})
    /\ Send("receivers", "assign", entered.choice, Nobody) /\ UNCHANGED entered

-----------------------------------------------------------------------------
(* The server. *)

Becomes(r, written) ==
    /\ registered' = written
    /\ sendings' = (sendings \ {r}) \cup {[r EXCEPT !.stage = "done"]}
    /\ UNCHANGED <<listed, workspace, entered, load, lost, editsMade, callsMade>>
\* A field that is sent empty keeps its value.
SettingsSaved(r) ==
    r.kind = "settings" /\ Becomes(r, [registered EXCEPT !.owner = IF r.body = "" THEN @ ELSE r.body]) /\ UNCHANGED retired
\* A service that is saved exists afterwards.
ServiceSaved(r) ==
    /\ r.kind = "service" /\ UNCHANGED retired
    /\ IF r.about = "new"
       THEN \E s \in ServiceIds \ (registered.services \cup retired) : Becomes(r, [registered EXCEPT !.services = @ \cup {s}])
       ELSE Becomes(r, [registered EXCEPT !.services = @ \cup {r.about}])
ServiceDeleted(r) ==
    /\ r.kind = "delete" /\ r.about \in registered.services
    /\ Becomes(r, [registered EXCEPT !.services = @ \ {r.about}, !.tag = IF @ = r.about THEN Nobody ELSE @])
    /\ retired' = retired \cup {r.about}
ReceiverSaved(r) ==
    /\ r.kind \in {"create", "toggle", "remove"} /\ UNCHANGED retired
    /\ r.kind = "create" \/ registered.receivers[r.about] # "absent"
    /\ Becomes(r, [registered EXCEPT !.receivers[r.about] =
            CASE r.kind = "create" -> "enabled" [] r.kind = "toggle" -> r.body [] OTHER -> "absent"])
Assigned(r) ==
    /\ r.kind = "assign" /\ r.about \in registered.services \cup {"unassigned"} /\ UNCHANGED retired
    /\ Becomes(r, [registered EXCEPT !.tag = IF r.about = "unassigned" THEN Nobody ELSE r.about])
Read(r) == r.kind \in {"setup", "rotate", "test"} /\ registered.receivers[r.about] # "absent" /\ Becomes(r, registered) /\ UNCHANGED retired
Rejected(r) ==
    /\ sendings' = (sendings \ {r}) \cup {[r EXCEPT !.stage = "refused"]}
    /\ UNCHANGED <<registered, listed, retired, workspace, entered, load, lost, editsMade, callsMade>>
Handle ==
    \E r \in sendings :
        /\ r.stage = "sent"
        /\ SettingsSaved(r) \/ ServiceSaved(r) \/ ServiceDeleted(r) \/ ReceiverSaved(r) \/ Assigned(r) \/ Read(r) \/ Rejected(r)

-----------------------------------------------------------------------------
(* The answers. *)

Leave(r, changed) ==
    /\ entered' = IF r.live THEN changed ELSE entered
    /\ UNCHANGED <<registered, retired, workspace, editsMade, callsMade>>
BusyKinds == {"create", "rotate", "setup", "toggle", "test"}
SetupFollows == {"create", "rotate"}
\* A refusal, or no answer in time, is a message.
SendingFailed ==
    \E r \in sendings :
        /\ \/ r.stage = "refused" /\ lost' = lost
           \/ r.stage = "done" /\ Unanswered /\ lost' = TRUE
        /\ sendings' = sendings \ {r} /\ UNCHANGED <<listed, load>>
        /\ Leave(r, [entered EXCEPT !.busy = IF r.kind \in BusyKinds THEN Nobody ELSE @])

\* What the panel does with a confirmation.
Confirmed(r) ==
    CASE r.kind = "service" -> [entered EXCEPT !.editing = Nobody]
      [] r.kind = "delete" -> [entered EXCEPT !.editing = IF @ = r.about THEN Nobody ELSE @, !.deleting = Nobody]
      [] r.kind \in SetupFollows -> [entered EXCEPT !.token = r.about, !.busy = Nobody]
      [] r.kind = "setup" -> [entered EXCEPT !.setup = r.about, !.token = Nobody, !.busy = Nobody]
      [] r.kind = "remove" -> [entered EXCEPT !.setup = IF @ = r.about THEN Nobody ELSE @]
      [] r.kind = "assign" -> [entered EXCEPT !.selected = FALSE, !.choice = Nobody]
      [] r.kind \in {"toggle", "test"} -> [entered EXCEPT !.busy = Nobody]
      [] OTHER -> entered
\* Mutant: the page does not load again when a service was deleted.
LoadsAfterSaves == {"settings", "service", "toggle", "test", "remove", "assign"}
LoadsAfter == {"settings", "service", "delete", "toggle", "test", "remove", "assign"}
Reload(r) == IF r.kind \in LoadsAfter THEN LoadBegins(workspace) ELSE UNCHANGED load
SendingConfirmed ==
    \E r \in sendings :
        /\ r.stage = "done"
        /\ IF r.kind \in SetupFollows
           THEN sendings' = (sendings \ {r}) \cup {[r EXCEPT !.stage = "fetching"]} /\ UNCHANGED load
           ELSE sendings' = sendings \ {r} /\ Reload(r)
        /\ Leave(r, Confirmed(r)) /\ UNCHANGED <<listed, lost>>
\* The setup arrives and the page loads again; or it is thrown, and nothing
\* that was to follow happens.
SetupFetched ==
    \E r \in sendings :
        /\ r.stage = "fetching" /\ sendings' = sendings \ {r} /\ UNCHANGED listed
        /\ \/ /\ LoadBegins(workspace) /\ UNCHANGED lost
              /\ Leave(r, [entered EXCEPT !.setup = r.about, !.creating = IF r.kind = "create" THEN FALSE ELSE @])
           \/ lost' = TRUE /\ UNCHANGED load /\ Leave(r, entered)

ApplicationNext ==
    \/ OpenSection \/ LoadReads \/ LoadShown \/ LoadFails
    \/ EditOwner \/ SaveSettings
    \/ AddService \/ EditService \/ ResetService \/ SaveService \/ AskDeleteService \/ CancelDelete \/ ConfirmDeleteService
    \/ OpenReceiverForm \/ CreateReceiver \/ ShowSetup \/ ToggleReceiver \/ RotateToken \/ TestOrSync \/ DeleteReceiver
    \/ SelectAlert \/ ChooseService \/ AssignService
    \/ Handle \/ SendingFailed \/ SendingConfirmed \/ SetupFetched
ApplicationSpec == ApplicationInit /\ [][ApplicationNext]_applicationVars

-----------------------------------------------------------------------------
(* Properties. *)

\* When nothing is on its way the page shows what is stored, however its requests and
\* loads overlapped, unless since the last load an answer was lost after the server had
\* done its part, or the setup or the load that follows a confirmation failed.
ShownIsStored == sendings = {} /\ load = NoLoad /\ ~lost => listed = registered

\* A service that was deleted stays deleted, as the dialog promises.
RetiredStayRetired == retired \cap registered.services = {}

\* A token is only shown beside the setup of its own receiver.
TokenOfSetup == entered.token # Nobody /\ entered.setup # Nobody => entered.setup = entered.token
=============================================================================
