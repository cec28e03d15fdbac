----------------------------- MODULE ListPages ------------------------------
(***************************************************************************)
(* The list of monitors and the inbox of alerts.  Where a list is open is  *)
(* in its address: the filter, and the place to which the user has paged.  *)
(* The list of monitors pages by cursor, the name of the last row before,  *)
(* and keeps the cursors it came by; the inbox pages by offset, and its    *)
(* newest change comes first.  Every change is a request; the list is      *)
(* loaded again after most of them.                                        *)
(***************************************************************************)
EXTENDS Naturals, Sequences, FiniteSets, SequencesExt

CONSTANTS
    MonitorCount,      \* the monitors: each is its place in the order of their names
    FoundByName,       \* those the text that can be typed finds
    InboxAlerts,       \* the alerts of the inbox
    External,          \* those that OpenSearch still reports active
    PageSize,          \* rows of a page (25)
    MaxListSteps,      \* what is done on a page
    MaxListCalls       \* requests sent by it

Monitors == 1..MonitorCount
NoCursor == 0

ASSUME ListAssumption ==
    /\ MonitorCount \in Nat /\ PageSize \in Nat \ {0}

VARIABLES
    catalog,               \* the state of every monitor, and whether it was ever published
    place, typed,          \* the address of the list, and the text of its search field
    listing,               \* the rows loaded
    chosen, targets,       \* the monitors ticked, and those the dialog would delete
    listCalls,             \* the requests on their way
    steady,                \* whether the rows paged through are still those that match
    inbox,                 \* the alerts, the one changed last first
    inboxPlace, inboxRows, \* the address of the inbox, and the rows loaded
    history,               \* the events shown with an alert
    listSteps, listAsked   \* bounds

listVars == <<catalog, place, typed, listing, chosen, targets, listCalls, steady, inbox, inboxPlace, inboxRows,
              history, listSteps, listAsked>>
inboxVars == <<inbox, inboxPlace, inboxRows, history>>

-----------------------------------------------------------------------------
(* The rows at a place. *)

Paused(m) == catalog[m].state # "ENABLED"
Matches(m, p) ==
    /\ catalog[m].state # "gone"
    /\ p.search => m \in FoundByName
    /\ p.paused => Paused(m)
Matching(p) == {m \in Monitors : Matches(m, p)}
\* How many of some monitors there are up to one of them.
Rank(m, monitors) == Cardinality({k \in monitors : k <= m})
\* The rows of a page, and the state each shows; one row more is read, to know whether
\* there is another page.
Load(p) ==
    LET rest == {m \in Matching(p) : m > p.cursor}
    IN  [rows |-> [m \in {k \in rest : Rank(k, rest) <= PageSize} |-> catalog[m].state],
         total |-> Cardinality(Matching(p)),
         next |-> IF Cardinality(rest) > PageSize THEN CHOOSE m \in rest : Rank(m, rest) = PageSize ELSE NoCursor]

Least(i, j) == IF i < j THEN i ELSE j
PageCount(total) == IF total = 0 THEN 1 ELSE (total + PageSize - 1) \div PageSize
\* The page it says it is: never one after the last.
ShownPage == Least(place.page, PageCount(listing.total))
Visible == DOMAIN listing.rows
FirstPlace(search, paused) == [search |-> search, paused |-> paused, page |-> 1, cursor |-> NoCursor, trail |-> <<>>]

\* What stands in place of the rows.
Filtered(p) == p.search \/ p.paused
ListNotice ==
    IF Visible # {} THEN "rows" ELSE IF Filtered(place) THEN "no monitors match" ELSE "no monitors yet"
SelectAllBox ==
    IF Visible # {} /\ Visible \subseteq chosen THEN "checked" ELSE IF Visible \cap chosen # {} THEN "mixed" ELSE "unchecked"
\* The actions a row offers; publishing is offered of whatever is not archived.
RowOffers(state) ==
    {"clone"} \cup (IF state = "ARCHIVED" THEN {"restore"} ELSE {"archive", "publish"})
        \cup (IF state = "ENABLED" THEN {"disable"} ELSE IF state \in {"PUBLISHED", "DISABLED"} THEN {"enable"} ELSE {})

-----------------------------------------------------------------------------
(* Finding the place. *)

\* While the dialog is open nothing behind it can be used.
ListStep == targets = {} /\ listSteps < MaxListSteps /\ listSteps' = listSteps + 1
Navigate(p) ==
    /\ place' = p /\ listing' = Load(p)
    /\ steady' = (steady \/ p.trail = <<>>)
    /\ UNCHANGED <<catalog, chosen, targets, listCalls, listAsked, inboxVars>>
\* Choosing a filter begins at the first page again.
\* Mutant: the place is kept.
NarrowedKeepingPlace(search, paused) == [place EXCEPT !.search = search, !.paused = paused]
Narrowed(search, paused) == FirstPlace(search, paused)
ChooseStatus == ListStep /\ UNCHANGED typed /\ Navigate(Narrowed(place.search, ~place.paused))
\* What is typed is looked for once the typing has paused.
TypeSearch ==
    /\ ListStep /\ typed' = ~typed
    /\ UNCHANGED <<catalog, place, listing, chosen, targets, listCalls, steady, listAsked, inboxVars>>
SearchTyped == typed # place.search /\ Navigate(Narrowed(typed, place.paused)) /\ UNCHANGED <<typed, listSteps>>

NextPage ==
    /\ listing.next # NoCursor /\ ListStep /\ UNCHANGED typed
    /\ Navigate([place EXCEPT !.page = Least(PageCount(listing.total), ShownPage + 1),
                              !.cursor = listing.next, !.trail = Append(@, place.cursor)])
PreviousPage ==
    /\ ShownPage # 1 /\ ListStep /\ UNCHANGED typed
    /\ Navigate([place EXCEPT !.page = ShownPage - 1,
                              !.cursor = IF place.trail = <<>> THEN NoCursor ELSE Last(place.trail),
                              !.trail = IF @ = <<>> THEN @ ELSE Front(@)])

-----------------------------------------------------------------------------
(* Choosing monitors and acting on them. *)

Choose(set) ==
    /\ ListStep /\ chosen' = set /\ chosen' # chosen
    /\ UNCHANGED <<catalog, place, typed, listing, targets, listCalls, steady, listAsked, inboxVars>>
ToggleMonitor == \E m \in Visible : Choose(IF m \in chosen THEN chosen \ {m} ELSE chosen \cup {m})
ToggleAllVisible == Choose(IF SelectAllBox = "checked" THEN chosen \ Visible ELSE chosen \cup Visible)
BulkPending == \E c \in listCalls : c.kind = "bulk"
ClearSelection == ~BulkPending /\ Choose({})

\* The cursors of a list lead through the rows there were: other rows unsettle it until its
\* first page is loaded again.
Resettled(before, after) == steady /\ before = after
SendList(kind, action, about) ==
    /\ listAsked < MaxListCalls /\ listAsked' = listAsked + 1
    /\ listCalls' = listCalls \cup {[kind |-> kind, action |-> action, about |-> about, waiting |-> about, failed |-> FALSE]}
    /\ UNCHANGED <<catalog, place, typed, listing, chosen, steady, inboxVars, listSteps>>
\* One request for every monitor chosen, those on other pages included.
BulkAction ==
    /\ chosen # {} /\ ~BulkPending /\ targets = {}
    /\ \E action \in {"enable", "disable", "archive"} : SendList("bulk", action, chosen)
    /\ UNCHANGED targets
RowAction ==
    /\ targets = {}
    /\ \E m \in Visible :
        /\ ~\E c \in listCalls : c.kind = "row" /\ c.about = {m}
        /\ \E action \in RowOffers(listing.rows[m]) \ {"clone"} : SendList("row", action, {m})
    /\ UNCHANGED targets

OpenDialog(ids) ==
    /\ ids # {} /\ ListStep /\ targets' = ids
    /\ UNCHANGED <<catalog, place, typed, listing, chosen, listCalls, steady, listAsked, inboxVars>>
RequestDeletion == (~BulkPending /\ OpenDialog(chosen)) \/ \E m \in Visible : OpenDialog({m})
Deleting == \E c \in listCalls : c.kind = "delete"
ConfirmDeletion == targets # {} /\ ~Deleting /\ SendList("delete", "delete", targets) /\ UNCHANGED targets
CancelDeletion ==
    /\ targets # {} /\ ~Deleting /\ targets' = {}
    /\ UNCHANGED <<catalog, place, typed, listing, chosen, listCalls, steady, inboxVars, listSteps, listAsked>>
\* The names the dialog gives are those of the rows on the page.
NamedByDialog == targets \cap Visible

(* The server. *)
Accepts(action, m) ==
    LET monitor == catalog[m]
    IN  CASE action = "publish" -> monitor.state # "ARCHIVED"
          [] action = "enable" -> monitor.published /\ monitor.state # "ARCHIVED"
          [] action = "disable" -> monitor.state # "ARCHIVED"
          [] action = "restore" -> monitor.state = "ARCHIVED"
          [] OTHER -> TRUE
StateAfter(action, monitor) ==
    CASE action = "publish" -> [state |-> IF monitor.state = "ENABLED" THEN "ENABLED" ELSE "PUBLISHED", published |-> TRUE]
      [] action = "enable" -> [monitor EXCEPT !.state = "ENABLED"]
      [] action = "disable" -> [monitor EXCEPT !.state = "DISABLED"]
      [] action = "archive" -> [monitor EXCEPT !.state = "ARCHIVED"]
      [] action = "restore" -> [monitor EXCEPT !.state = IF monitor.published THEN "DISABLED" ELSE "DRAFT"]
Replace(c, changed) == listCalls' = (listCalls \ {c}) \cup {changed}
Changed(after) == catalog' = after /\ UNCHANGED place /\ steady' = Resettled(Matching(place), Matching(place)')
Applied ==
    \E c \in listCalls : \E m \in c.waiting :
        /\ c.kind # "delete" /\ catalog[m].state # "gone" /\ Accepts(c.action, m)
        /\ Changed([catalog EXCEPT ![m] = StateAfter(c.action, @)])
        /\ \E lost \in BOOLEAN : Replace(c, [c EXCEPT !.waiting = @ \ {m}, !.failed = @ \/ lost])
        /\ UNCHANGED <<typed, listing, chosen, targets, inboxVars, listSteps, listAsked>>
\* All of them are deleted, or none when one is not there.
DeletedAll ==
    \E c \in listCalls :
        /\ c.kind = "delete" /\ c.waiting # {} /\ \A m \in c.about : catalog[m].state # "gone"
        /\ Changed([m \in Monitors |-> IF m \in c.about THEN [catalog[m] EXCEPT !.state = "gone"] ELSE catalog[m]])
        /\ \E lost \in BOOLEAN : Replace(c, [c EXCEPT !.waiting = {}, !.failed = lost])
        /\ UNCHANGED <<typed, listing, chosen, targets, inboxVars, listSteps, listAsked>>
NotApplied ==
    \E c \in listCalls : \E m \in c.waiting :
        /\ Replace(c, [c EXCEPT !.waiting = IF c.kind = "delete" THEN {} ELSE @ \ {m}, !.failed = TRUE])
        /\ UNCHANGED <<catalog, place, typed, listing, chosen, targets, steady, inboxVars, listSteps, listAsked>>
ChangedElsewhere ==
    \E m \in Monitors, state \in {"ENABLED", "ARCHIVED", "gone"} :
        /\ listSteps < MaxListSteps /\ listSteps' = listSteps + 1
        /\ catalog[m].state \notin {"gone", state}
        /\ Changed([catalog EXCEPT ![m] = [state |-> state, published |-> @.published \/ state = "ENABLED"]])
        /\ UNCHANGED <<typed, listing, chosen, targets, listCalls, listAsked, inboxVars>>

(* The answers. *)
\* A list that is loaded again keeps its place.
AnsweredAs(c, selection, dialog, again) ==
    /\ c.waiting = {} /\ listCalls' = listCalls \ {c}
    /\ chosen' = selection /\ targets' = dialog
    /\ listing' = IF again THEN Load(place) ELSE listing
    /\ steady' = (steady \/ (again /\ place.trail = <<>>))
    /\ UNCHANGED <<catalog, place, typed, inboxVars, listSteps, listAsked>>
BulkAnswered == \E c \in listCalls : c.kind = "bulk" /\ AnsweredAs(c, IF c.failed THEN chosen ELSE {}, targets, TRUE)
RowAnswered == \E c \in listCalls : c.kind = "row" /\ AnsweredAs(c, chosen, targets, ~c.failed)
DeleteAnswered ==
    \E c \in listCalls :
        c.kind = "delete" /\ IF c.failed THEN AnsweredAs(c, chosen, targets, FALSE) ELSE AnsweredAs(c, chosen \ c.about, {}, TRUE)

MonitorListNext ==
    \/ ChooseStatus \/ TypeSearch \/ SearchTyped \/ NextPage \/ PreviousPage
    \/ ToggleMonitor \/ ToggleAllVisible \/ ClearSelection \/ BulkAction \/ RowAction
    \/ RequestDeletion \/ ConfirmDeletion \/ CancelDeletion
    \/ Applied \/ DeletedAll \/ NotApplied \/ ChangedElsewhere \/ BulkAnswered \/ RowAnswered \/ DeleteAnswered

-----------------------------------------------------------------------------
(* The inbox of alerts. *)

Active == {"OPEN", "ERROR", "ACKNOWLEDGED"}
AtInbox(p) == SelectSeq(inbox, LAMBDA a : p.open => a.state = "OPEN")
\* The page asked for is loaded, whether or not there are so many.
PageAfter(n, rows) == SubSeq(rows, n + 1, Least(n + PageSize, Len(rows)))
LoadInbox(p) == [rows |-> PageAfter((p.page - 1) * PageSize, AtInbox(p)), total |-> Len(AtInbox(p))]
InboxPage == Least(inboxPlace.page, PageCount(inboxRows.total))
InboxIds(rows) == {rows[i].id : i \in DOMAIN rows}
InboxNotice ==
    IF inboxRows.rows # <<>> THEN "rows" ELSE IF inboxPlace.open THEN "no alerts match"
    ELSE IF inboxRows.total = 0 THEN "no alerts yet" ELSE "no alerts to show"
\* What the row of an alert offers.
AlertOffers(a) ==
    (IF a.state \in Active \ {"ACKNOWLEDGED"} THEN {"acknowledge"} ELSE {})
        \cup (IF a.state \in Active /\ a.id \notin External THEN {"resolve"} ELSE {})

monitorListVars == <<catalog, place, typed, listing, chosen, targets, steady>>
\* The events shown with a row are forgotten when the row leaves the page.
ShowInbox(p) ==
    /\ inboxPlace' = p /\ inboxRows' = LoadInbox(p)
    /\ history' = [a \in InboxAlerts |-> IF a \in InboxIds(inboxRows'.rows) THEN history[a] ELSE 0]
MoveInbox(p) == ListStep /\ ShowInbox(p) /\ UNCHANGED <<monitorListVars, inbox, listCalls, listAsked>>
FilterInbox == MoveInbox([open |-> ~inboxPlace.open, page |-> 1])
TurnInbox ==
    /\ inboxRows.total > PageSize
    /\ \/ InboxPage # 1 /\ MoveInbox([inboxPlace EXCEPT !.page = InboxPage - 1])
       \/ InboxPage # PageCount(inboxRows.total) /\ MoveInbox([inboxPlace EXCEPT !.page = InboxPage + 1])

\* The events of an alert are loaded when its evidence is opened first.
ViewEvidence ==
    \E i \in DOMAIN inboxRows.rows :
        LET a == inboxRows.rows[i].id IN
        /\ history[a] = 0 /\ ListStep
        /\ history' = [history EXCEPT ![a] = inbox[CHOOSE j \in DOMAIN inbox : inbox[j].id = a].events]
        /\ UNCHANGED <<monitorListVars, inbox, inboxPlace, inboxRows, listCalls, listAsked>>
ActOnAlert ==
    \E i \in DOMAIN inboxRows.rows :
        /\ ~\E c \in listCalls : c.kind = "alert" /\ c.about = {inboxRows.rows[i].id}
        /\ \E action \in AlertOffers(inboxRows.rows[i]) : SendList("alert", action, {inboxRows.rows[i].id})
        /\ UNCHANGED targets

\* A change puts an alert first, and is an event of its own.
ToFront(i, state) ==
    <<[id |-> inbox[i].id, state |-> state, events |-> inbox[i].events + 1]>> \o RemoveAt(inbox, i)
Transitioned ==
    \E c \in listCalls, i \in DOMAIN inbox :
        /\ c.kind = "alert" /\ inbox[i].id \in c.waiting
        /\ \/ c.action = "acknowledge" /\ inbox[i].state \in {"OPEN", "ERROR"} /\ inbox' = ToFront(i, "ACKNOWLEDGED")
           \/ c.action = "resolve" /\ inbox[i].state \in Active /\ inbox[i].id \notin External /\ inbox' = ToFront(i, "RESOLVED")
        /\ \E lost \in BOOLEAN : Replace(c, [c EXCEPT !.waiting = {}, !.failed = lost])
        /\ UNCHANGED <<monitorListVars, inboxPlace, inboxRows, history, listSteps, listAsked>>
\* A run that fails again, or a delivery from OpenSearch, changes an alert as well.
AlertChanges ==
    \E i \in DOMAIN inbox, state \in {"OPEN", "ERROR", "RESOLVED"} :
        /\ listSteps < MaxListSteps /\ listSteps' = listSteps + 1
        /\ inbox[i].state # "RESOLVED" /\ (state = "ERROR" => inbox[i].id \in External) /\ inbox' = ToFront(i, state)
        /\ UNCHANGED <<monitorListVars, inboxPlace, inboxRows, history, listCalls, listAsked>>
AlertAnswered ==
    \E c \in listCalls :
        /\ c.kind = "alert" /\ c.waiting = {} /\ listCalls' = listCalls \ {c}
        /\ IF c.failed THEN UNCHANGED <<inboxPlace, inboxRows, history>> ELSE ShowInbox(inboxPlace)
        /\ UNCHANGED <<monitorListVars, inbox, listSteps, listAsked>>

InboxNext ==
    \/ FilterInbox \/ TurnInbox \/ ViewEvidence \/ ActOnAlert
    \/ Transitioned \/ AlertChanges \/ AlertAnswered
    \/ NotApplied /\ \A c \in listCalls : c.kind = "alert"

-----------------------------------------------------------------------------
ListInit ==
    /\ catalog \in [Monitors -> {[state |-> "DRAFT", published |-> FALSE], [state |-> "ENABLED", published |-> TRUE]}]
    /\ place = FirstPlace(FALSE, FALSE) /\ listing = Load(place) /\ typed = FALSE /\ steady = TRUE
    /\ chosen = {} /\ targets = {} /\ listCalls = {}
    /\ inbox \in {[i \in DOMAIN s |-> [id |-> s[i], state |-> "OPEN", events |-> 1]] : s \in SetToSeqs(InboxAlerts)}
    /\ inboxPlace = [open |-> FALSE, page |-> 1] /\ inboxRows = LoadInbox(inboxPlace)
    /\ history = [a \in InboxAlerts |-> 0]
    /\ listSteps = 0 /\ listAsked = 0
ListNext == MonitorListNext \/ InboxNext

\* The types of the pages.
ListTypeOK ==
    /\ place.page \in Nat \ {0} /\ Visible \subseteq Monitors /\ chosen \subseteq Monitors
    /\ \A c \in listCalls : c.waiting \subseteq c.about

ListSpec == ListInit /\ [][ListNext]_listVars

-----------------------------------------------------------------------------
(* Properties. *)

\* The list of monitors is where it says it is: as long as the monitors that match have
\* stayed the same since the first page, page n shows the n-th rows of them, however the
\* user has paged, filtered and acted in between.
PageIsPlace ==
    steady => /\ Visible = {m \in Matching(place) :
                    Rank(m, Matching(place)) \in ((ShownPage - 1) * PageSize + 1)..(ShownPage * PageSize)}
              /\ (ShownPage = 1) = (place.cursor = NoCursor)

\* A list without rows says so only when there are none: a page after the last is empty too.
EmptyMeansNone ==
    /\ ListNotice = "no monitors yet" => listing.total = 0
    /\ inboxRows.total > 0 => inboxRows.rows # <<>>

\* The dialog names every monitor it deletes, those chosen on other pages included.
DeletesWhatItNames == NamedByDialog = targets

\* What a row offers is not refused, unless the monitor was changed since the row was loaded.
OfferedAccepted ==
    \A m \in Visible :
        catalog[m].state = listing.rows[m] => \A action \in RowOffers(listing.rows[m]) \ {"clone"} : Accepts(action, m)

\* The events shown with an alert are all there are once its action is confirmed.
EventsComplete ==
    \A i \in DOMAIN inboxRows.rows :
        history[inboxRows.rows[i].id] \in {0, inboxRows.rows[i].events}
=============================================================================
