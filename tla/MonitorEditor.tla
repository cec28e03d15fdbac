--------------------------- MODULE MonitorEditor ----------------------------
(***************************************************************************)
(* The editor of a monitor (routes/monitors/$monitorId/edit.tsx) and the   *)
(* list of its revisions (revisions.tsx), against the revisions the API    *)
(* keeps and what other users do to them.                                  *)
(*                                                                         *)
(* Editing goes on while a save is on its way, which makes the next save   *)
(* possible: several may be in flight, and each answers about what it had  *)
(* been given.                                                             *)
(***************************************************************************)
EXTENDS MonitorRevisions

CONSTANTS
    Editor,          \* the author whose page this is
    Applications,    \* applications a monitor may be tagged with
    Schedules,       \* schedules of the form
    MaxEditorSteps   \* bound: changes, saves and publications asked for

ASSUME EditorAssumption == Editor \in Authors /\ MaxEditorSteps \in Nat

VARIABLES
    editor,       \* content, application and state; the application as linked; publishing
    saves,        \* the saves in progress: what each was given, and how far it is
    scheduleForm, \* the schedule shown, the one being saved, and the state
    compare,      \* the revisions picked for comparison, the oldest first
    editorSteps

editorVars == <<editor, saves, scheduleForm, compare, editorSteps>>
NoApplication == "none"
EditorStates == {"idle", "saving", "saved", "error"}
EditorStep == editorSteps < MaxEditorSteps /\ editorSteps' = editorSteps + 1
-----------------------------------------------------------------------------
EditorInit ==
    /\ editor = [content |-> content[draft], application |-> NoApplication, linked |-> NoApplication,
                 state |-> "saved", publishing |-> "no"]
    /\ saves = {} /\ compare = <<>> /\ editorSteps = 0
    /\ \E s \in Schedules : scheduleForm = [shown |-> s, sent |-> s, state |-> "idle"]

\* Changes are possible at any time; the state forgets what is in flight.
ChangeDraft ==
    /\ EditorStep
    /\ \/ \E c \in Contents \ {editor.content} : editor' = [editor EXCEPT !.content = c, !.state = "idle"]
       \/ \E a \in Applications \cup {NoApplication} :
            a # editor.application /\ editor' = [editor EXCEPT !.application = a, !.state = "idle"]
    /\ UNCHANGED <<saves, scheduleForm, compare, revisionVars>>

StartSave(forPublish) ==
    saves' = saves \cup {[n |-> editorSteps, content |-> editor.content, application |-> editor.application,
                          linked |-> editor.linked, publish |-> forPublish, at |-> "sent"]}
AskSave ==
    /\ EditorStep /\ editor.state # "saving"
    /\ editor' = [editor EXCEPT !.state = "saving"] /\ StartSave(FALSE)
    /\ UNCHANGED <<scheduleForm, compare, revisionVars>>
AskPublish ==
    /\ EditorStep /\ editor.state # "saving" /\ editor.publishing = "no"
    /\ editor' = [editor EXCEPT !.state = "saving", !.publishing = "saving"] /\ StartSave(TRUE)
    /\ UNCHANGED <<scheduleForm, compare, revisionVars>>

MoveSave(s, at) == saves' = (saves \ {s}) \cup {[s EXCEPT !.at = at]}
\* The API takes a save it had been sent, and may do so after the page has
\* given it up.
SaveLanded ==
    /\ \E s \in saves :
        /\ s.at \in {"sent", "late"} /\ SaveDraft(s.content)
        /\ IF s.at = "late" THEN saves' = saves \ {s} ELSE MoveSave(s, "landed")
    /\ UNCHANGED <<editor, scheduleForm, compare, editorSteps>>
\* The first failure ends a save, and the publication it was made for.
SaveFails(s) == editor' = [editor EXCEPT !.state = "error", !.publishing = IF s.publish THEN "no" ELSE @]
SaveFailed ==
    /\ \E s \in saves :
        /\ s.at \in {"sent", "landed", "linking"} /\ SaveFails(s)
        /\ saves' \in {saves \ {s}, IF s.at = "sent" THEN (saves \ {s}) \cup {[s EXCEPT !.at = "late"]} ELSE saves \ {s}}
    /\ UNCHANGED <<scheduleForm, compare, editorSteps, revisionVars>>
\* The page says that all is saved, whatever was changed in the meantime.
SaveDone(s) ==
    /\ saves' = saves \ {s}
    /\ editor' = [editor EXCEPT !.state = "saved", !.publishing = IF s.publish THEN "asked" ELSE @,
                                !.linked = IF s.application # s.linked THEN s.application ELSE @]
\* The application is linked once the draft is saved.
SaveAnswered ==
    /\ \E s \in saves :
        \/ s.at = "landed" /\ s.application # s.linked /\ MoveSave(s, "linking") /\ UNCHANGED editor
        \/ s.at = "landed" /\ s.application = s.linked /\ SaveDone(s)
        \/ s.at = "linking" /\ SaveDone(s)
    /\ UNCHANGED <<scheduleForm, compare, editorSteps, revisionVars>>
\* What is published is the draft as the API has it by then.
PublishAsked ==
    /\ editor.publishing = "asked" /\ PublishRead(Editor)
    /\ editor' = [editor EXCEPT !.publishing = "read"]
    /\ UNCHANGED <<saves, scheduleForm, compare, editorSteps>>
PublishAnswered ==
    /\ \/ /\ editor.publishing = "read" /\ PublishCommit(Editor)
          /\ \E state \in {"saved", "error"} : editor' = [editor EXCEPT !.publishing = "no", !.state = state]
       \/ /\ editor.publishing = "read" /\ PublishConflict(Editor)
          /\ editor' = [editor EXCEPT !.publishing = "no", !.state = "error"]
       \/ /\ editor.publishing = "asked" /\ UNCHANGED revisionVars
          /\ editor' = [editor EXCEPT !.publishing = "no", !.state = "error"]
    /\ UNCHANGED <<saves, scheduleForm, compare, editorSteps>>

\* The answer to a save of the schedule takes the place of what is shown.
ScheduleForm ==
    /\ \/ /\ EditorStep
          /\ \E s \in Schedules \ {scheduleForm.shown} : scheduleForm' = [scheduleForm EXCEPT !.shown = s]
       \/ /\ EditorStep /\ scheduleForm.state # "saving"
          /\ scheduleForm' = [scheduleForm EXCEPT !.sent = scheduleForm.shown, !.state = "saving"]
       \/ /\ scheduleForm.state = "saving" /\ UNCHANGED editorSteps
          /\ scheduleForm' \in {[scheduleForm EXCEPT !.shown = scheduleForm.sent, !.state = "saved"],
                                [scheduleForm EXCEPT !.state = "error"]}
    /\ UNCHANGED <<editor, saves, compare, revisionVars>>

\* The list: two revisions are compared, and a published one may be restored.
PickRevision ==
    /\ EditorStep
    /\ \E r \in Rows :
        compare' = IF \E n \in DOMAIN compare : compare[n] = r
                   THEN SelectSeq(compare, LAMBDA q : q # r)
                   ELSE Append(IF Len(compare) >= 2 THEN Tail(compare) ELSE compare, r)
    /\ UNCHANGED <<editor, saves, scheduleForm, revisionVars>>
Restorable(r) == status[r] = "PUBLISHED"
RestorePicked ==
    /\ EditorStep /\ \E r \in Rows : Restorable(r) /\ RestoreRead(r)
    /\ UNCHANGED <<editor, saves, scheduleForm, compare>>

\* What the other users do.
Others ==
    /\ \/ \E c \in Contents : SaveDraft(c)
       \/ \E r \in Rows : RestoreRead(r)
       \/ \E c \in restoring : RestoreWrite(c)
       \/ \E a \in Authors \ {Editor} : PublishRead(a) \/ PublishCommit(a) \/ PublishConflict(a)
       \/ Archive \/ RestoreMonitor
    /\ UNCHANGED editorVars
EditorNext ==
    \/ Others
    \/ ChangeDraft \/ AskSave \/ AskPublish \/ SaveLanded \/ SaveFailed \/ SaveAnswered \/ PublishAsked \/ PublishAnswered
    \/ ScheduleForm \/ PickRevision \/ RestorePicked

\* One page, among the requests of the other users.
EditorSpec == RevisionsInit /\ EditorInit /\ [][EditorNext]_<<revisionVars, editorVars>>
-----------------------------------------------------------------------------
\* What the header says, and which of its buttons work.
EditorHeader ==
    [status |-> CASE editor.state = "saving" -> "saving" [] editor.state = "saved" -> "message" [] OTHER -> "unsaved",
     save |-> editor.state # "saving",
     publish |-> editor.state # "saving" /\ editor.publishing = "no",
     alert |-> editor.state = "error"]
ScheduleCard ==
    [save |-> scheduleForm.state # "saving",
     message |-> scheduleForm.state \in {"saved", "error"}]

\* The page waits for a publication exactly while one is under way: for the save it
\* begins with, which is one of those in flight, or for the API that has read the draft.
PublicationInStep ==
    /\ editor.publishing = "read" <=> publishing[Editor] # NoRead
    /\ editor.publishing = "saving" <=> \E s \in saves : s.publish /\ s.at # "late"

EditorTypeOK ==
    /\ RevisionsTypeOK
    /\ editor.state \in EditorStates /\ editor.content \in Contents
    /\ Len(compare) <= 2 /\ \A m, n \in DOMAIN compare : compare[m] = compare[n] => m = n
    /\ PublicationInStep

\* The page says that there is nothing to save only when what it shows is a
\* draft the API took ("Unsaved-change indicator.", the requirements of the
\* editor).
SavedIsStored == editor.state = "saved" /\ saves = {} /\ editorSteps > 0 => \E r \in Rows : content[r] = editor.content
=============================================================================
