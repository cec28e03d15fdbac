-------------------------- MODULE MonitorRevisions --------------------------
(***************************************************************************)
(* The revisions of one monitor (internal/monitors/service.go and          *)
(* storage/postgres/monitor_repository.go): a draft that is edited in      *)
(* place, and published revisions, which are what schedules execute.       *)
(*                                                                         *)
(* Saving is one transaction on the row of the monitor.  Restoring reads   *)
(* the revision first and saves it as the draft in a transaction of its    *)
(* own; publishing reads the monitor and its draft first, and then freezes *)
(* the draft and adds the next one.  Between the two other requests go on. *)
(***************************************************************************)
EXTENDS Naturals, Sequences, FiniteSets

CONSTANTS
    Contents,       \* definitions of a monitor
    Valid,          \* those ValidateDefinition accepts
    Authors,        \* users whose requests are handled at once
    MaxRevisions,   \* bound: rows
    MaxRestores     \* bound: restores in progress

ASSUME RevisionsAssumption ==
    /\ Valid \subseteq Contents /\ MaxRevisions \in Nat \ {0} /\ MaxRestores \in Nat

VARIABLES
    content,     \* definition_json of the rows
    status,      \* their status
    asRead,      \* history: every publication froze what its publisher had read
    draft,       \* current_draft_revision_id
    published,   \* latest_published_revision_id, 0 for none
    archived,    \* the state of the monitor is ARCHIVED
    publishing,  \* author -> what a request in progress has read
    restoring,   \* definitions that restores in progress have read
    overtaken    \* history: rows restored to while a publication had read them, and not saved since

restoreVars == <<restoring, overtaken>>
revisionVars == <<content, status, asRead, draft, published, archived, publishing, restoreVars>>
NoRead == [rev |-> 0]
Rows == 1..Len(content)
-----------------------------------------------------------------------------
\* Create: the first revision is a draft that nobody validates.
RevisionsInit ==
    /\ \E c \in Contents : content = <<c>>
    /\ status = <<"DRAFT">> /\ draft = 1 /\ published = 0 /\ asRead = TRUE /\ archived = FALSE
    /\ publishing = [a \in Authors |-> NoRead] /\ restoring = {} /\ overtaken = {}

\* Mutant: the row is the one the request read before it took the lock.
UpdateDraftRead(c) ==
    /\ \E r \in Rows : content' = [content EXCEPT ![r] = c]
    /\ UNCHANGED <<status, asRead, draft, published, archived, publishing>>
\* The row of the monitor is locked, and the row it names must be a draft.
UpdateDraft(c) ==
    /\ status[draft] = "DRAFT"
    /\ content' = [content EXCEPT ![draft] = c]
    /\ UNCHANGED <<status, asRead, draft, published, archived, publishing>>
SaveDraft(c) ==
    /\ c \in Valid /\ UpdateDraft(c)
    /\ overtaken' = overtaken \ {draft} /\ UNCHANGED restoring
\* A restore reads a revision, whatever its status.
RestoreRead(r) ==
    /\ Cardinality(restoring) < MaxRestores
    /\ restoring' = restoring \cup {content[r]}
    /\ UNCHANGED <<content, status, asRead, draft, published, archived, publishing, overtaken>>
\* It saves what it read as the draft there is by then, unvalidated.
RestoreWrite(c) ==
    /\ c \in restoring /\ restoring' = restoring \ {c}
    /\ \/ /\ UpdateDraft(c)
          /\ overtaken' = IF \E a \in Authors : publishing[a].rev = draft THEN overtaken \cup {draft} ELSE overtaken
       \/ UNCHANGED <<content, status, asRead, draft, published, archived, publishing, overtaken>>

\* Mutant: what was read is not validated.
PublishReadUnchecked(a) ==
    /\ publishing[a] = NoRead /\ ~archived
    /\ publishing' = [publishing EXCEPT ![a] = [rev |-> draft, content |-> content[draft]]]
    /\ UNCHANGED <<content, status, asRead, draft, published, archived, restoreVars>>
PublishRead(a) ==
    /\ publishing[a] = NoRead /\ ~archived /\ content[draft] \in Valid
    /\ publishing' = [publishing EXCEPT ![a] = [rev |-> draft, content |-> content[draft]]]
    /\ UNCHANGED <<content, status, asRead, draft, published, archived, restoreVars>>
\* The draft that was read is frozen as it is by now; the next draft is the
\* clone of what was read.
PublishCommit(a) ==
    LET call == publishing[a]
    IN  /\ call # NoRead /\ Len(content) < MaxRevisions
        /\ draft = call.rev /\ status[call.rev] = "DRAFT"
        /\ status' = Append([status EXCEPT ![call.rev] = "PUBLISHED"], "DRAFT")
        /\ content' = Append(content, call.content)
        /\ asRead' = (asRead /\ content[call.rev] = call.content)
        /\ draft' = Len(content) + 1 /\ published' = call.rev /\ archived' = FALSE
        /\ publishing' = [publishing EXCEPT ![a] = NoRead] /\ UNCHANGED restoreVars
\* Another draft by now, a lost answer, or a transaction that cannot be
\* serialized: nothing is written.
PublishConflict(a) ==
    /\ publishing[a] # NoRead
    /\ publishing' = [publishing EXCEPT ![a] = NoRead]
    /\ UNCHANGED <<content, status, asRead, draft, published, archived, restoreVars>>
\* SetState, which writes the state whatever it is by then.
Archive == archived' = TRUE /\ UNCHANGED <<content, status, asRead, draft, published, publishing, restoreVars>>
RestoreMonitor ==
    /\ archived /\ archived' = FALSE
    /\ UNCHANGED <<content, status, asRead, draft, published, publishing, restoreVars>>

RevisionsNext ==
    \/ \E c \in Contents : SaveDraft(c)
    \/ \E r \in Rows : RestoreRead(r)
    \/ \E c \in restoring : RestoreWrite(c)
    \/ \E a \in Authors : PublishRead(a) \/ PublishCommit(a) \/ PublishConflict(a)
    \/ Archive \/ RestoreMonitor
RevisionsSpec == RevisionsInit /\ [][RevisionsNext]_revisionVars
-----------------------------------------------------------------------------
RevisionsTypeOK ==
    /\ Len(status) = Len(content) /\ asRead \in BOOLEAN /\ Len(content) \in 1..MaxRevisions
    /\ draft \in Rows /\ published \in 0..Len(content) /\ archived \in BOOLEAN
    /\ restoring \subseteq Contents /\ overtaken \subseteq Rows

\* What schedules execute was validated: no interleaving of saves, restores and
\* publications freezes a definition that the validation refuses, unless a restore
\* replaced the draft between the validation of its publisher and the freeze.
PublishedValid == \A r \in Rows : status[r] = "PUBLISHED" => content[r] \in Valid \/ r \in overtaken

\* A published revision is immutable ("A **published revision** is immutable
\* execution input.", docs getting-started/overview): a save that waited for
\* the lock behind a publication goes to the next draft.
PublishedImmutable ==
    [][\A r \in Rows : status[r] = "PUBLISHED" =>
            r \in DOMAIN content' /\ status'[r] = "PUBLISHED" /\ content'[r] = content[r]]_revisionVars

\* Nothing is published but what the publisher read ("A **draft** is editable
\* but never scheduled.", docs getting-started/overview).
PublishedAsRead == asRead

Releases == INSTANCE ReleaseLog WITH
    Definitions <- Contents,
    Releasable <- Valid,
    log <- SubSeq(content, 1, Len(content) - 1),
    next <- content[draft],
    latest <- published

\* The revisions implement the log: whatever saves, restores, publications and changes of
\* state do to the rows is an edit of the draft, or a release of it that schedules execute
\* from then on; a release is never edited, withdrawn or overtaken by an older one.
ImplementsReleaseLog == Releases!Spec
=============================================================================
