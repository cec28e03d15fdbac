----------------------- MODULE MonitorRevisionsProofs -----------------------
(***************************************************************************)
(* Proofs about MonitorRevisions and the editor that works on it, for      *)
(* every set of definitions, every number of authors and every number of   *)
(* revisions.                                                              *)
(***************************************************************************)
EXTENDS MonitorEditor, SequenceTheorems, TLAPS

Reads == [rev : Nat \ {0}, content : Valid]

\* Every row but the draft is published.  A definition that is not valid is in
\* the draft only, and no longer once a request has read it as valid, unless a
\* restore was the last to write the draft before that request commits.
RInv ==
    /\ content \in Seq(Contents) /\ Len(content) >= 1
    /\ status \in Seq({"DRAFT", "PUBLISHED"}) /\ Len(status) = Len(content)
    /\ draft \in Rows /\ status[draft] = "DRAFT"
    /\ \A r \in Rows \ {draft} : status[r] = "PUBLISHED" /\ (content[r] \in Valid \/ r \in overtaken)
    /\ publishing \in [Authors -> Reads \cup {NoRead}]
    /\ \A a \in Authors : publishing[a].rev = draft => content[draft] \in Valid \/ draft \in overtaken
    /\ restoring \subseteq Contents

LEMMA RInvInit == RevisionsInit => RInv
<1> SUFFICES ASSUME RevisionsInit PROVE RInv
  OBVIOUS
<1>1. PICK c \in Contents : content = <<c>>
  BY DEF RevisionsInit
<1>2. \A a \in Authors : publishing[a].rev = 0
  BY DEF RevisionsInit, NoRead
<1> QED
  BY <1>1, <1>2 DEF RevisionsInit, RInv, Rows

\* A definition written to the draft keeps the invariant when it is valid, when no
\* publication has read the row, or when the row counts as overtaken from then on.
LEMMA DraftWritten ==
    ASSUME RInv, NEW c \in Contents, UpdateDraft(c), restoring' \subseteq Contents,
           overtaken \ {draft} \subseteq overtaken',
           c \in Valid \/ draft \in overtaken' \/ \A a \in Authors : publishing[a].rev # draft
    PROVE  RInv'
<1> USE RevisionsAssumption DEF RInv, UpdateDraft, Rows
<1>1. content' \in Seq(Contents) /\ Len(content') = Len(content)
  OBVIOUS
<1>2. \A r \in Rows \ {draft} : content'[r] = content[r]
  OBVIOUS
<1>3. content'[draft] = c
  OBVIOUS
<1>4. \A a \in Authors : publishing[a].rev = draft => content'[draft] \in Valid \/ draft \in overtaken'
  BY <1>3
<1>5. \A r \in Rows \ {draft} : content'[r] \in Valid \/ r \in overtaken'
  BY <1>2
<1> QED
  BY <1>1, <1>3, <1>4, <1>5

\* What saves and restores do to the rows.
LEMMA SaveWrites ==
    ASSUME RInv, NEW c \in Contents, SaveDraft(c)
    PROVE  RInv'
BY DraftWritten DEF SaveDraft, RInv

LEMMA RestoreWrites ==
    ASSUME RInv, NEW c \in restoring, RestoreWrite(c)
    PROVE  RInv' /\ c \in Contents /\ (UpdateDraft(c) \/ UNCHANGED <<content, draft, published>>)
<1>1. c \in Contents /\ restoring' \subseteq Contents
  BY DEF RInv, RestoreWrite
<1>2. CASE UNCHANGED <<content, status, asRead, draft, published, archived, publishing, overtaken>>
  BY <1>1, <1>2 DEF RInv, Rows
<1>3. CASE /\ UpdateDraft(c)
           /\ overtaken' = IF \E a \in Authors : publishing[a].rev = draft THEN overtaken \cup {draft} ELSE overtaken
  <2>1. overtaken \ {draft} \subseteq overtaken'
    BY <1>3
  <2>2. draft \in overtaken' \/ \A a \in Authors : publishing[a].rev # draft
    BY <1>3
  <2> QED
    BY <1>1, <1>3, <2>1, <2>2, DraftWritten
<1> QED
  BY <1>1, <1>2, <1>3 DEF RestoreWrite

LEMMA RestoreReads ==
    ASSUME RInv, NEW r \in Rows, RestoreRead(r)
    PROVE  RInv' /\ UNCHANGED <<content, draft, published>>
<1>1. content[r] \in Contents
  BY DEF RInv, Rows
<1>2. restoring' \subseteq Contents
  BY <1>1 DEF RestoreRead, RInv
<1> QED
  BY <1>2 DEF RestoreRead, RInv, Rows

\* Publishing adds a draft after a row that is valid or overtaken by the time it is frozen.
LEMMA Published ==
    ASSUME RInv, NEW a \in Authors, PublishCommit(a)
    PROVE  RInv'
<1> USE RevisionsAssumption
<1>1. publishing[a] \in Reads /\ publishing[a].rev = draft
  BY DEF RInv, PublishCommit
<1>2. content' = Append(content, publishing[a].content) /\ publishing[a].content \in Contents
  BY <1>1 DEF PublishCommit, Reads
<1>3. content' \in Seq(Contents) /\ Len(content') = Len(content) + 1
  BY <1>2 DEF RInv
<1>4. \A r \in Rows : content'[r] = content[r]
  BY <1>2 DEF RInv, Rows
<1>5. content'[Len(content) + 1] \in Valid
  BY <1>1, <1>2 DEF RInv, Reads
<1>6. /\ status' \in Seq({"DRAFT", "PUBLISHED"}) /\ Len(status') = Len(content')
      /\ status'[Len(content) + 1] = "DRAFT"
      /\ \A r \in Rows : status'[r] = "PUBLISHED"
  <2>1. status' = Append([status EXCEPT ![draft] = "PUBLISHED"], "DRAFT")
    BY <1>1 DEF PublishCommit
  <2>2. /\ [status EXCEPT ![draft] = "PUBLISHED"] \in Seq({"DRAFT", "PUBLISHED"})
        /\ Len([status EXCEPT ![draft] = "PUBLISHED"]) = Len(status)
    BY DEF RInv, Rows
  <2>3. \A r \in Rows : [status EXCEPT ![draft] = "PUBLISHED"][r] = "PUBLISHED"
    BY DEF RInv, Rows
  <2> QED
    BY <1>3, <2>1, <2>2, <2>3 DEF RInv, Rows
<1>7. content[draft] \in Valid \/ draft \in overtaken
  BY <1>1 DEF RInv
<1>8. draft' = Len(content) + 1 /\ draft' \in Rows'
  BY <1>3 DEF PublishCommit, RInv, Rows
<1>9. \A r \in Rows' \ {draft'} : r \in Rows
  BY <1>3, <1>8 DEF Rows, RInv
<1>10. publishing' \in [Authors -> Reads \cup {NoRead}]
  BY DEF RInv, PublishCommit
<1>11. \A b \in Authors : publishing'[b].rev = draft' => content'[draft'] \in Valid
  BY <1>5, <1>8
<1>12. UNCHANGED <<restoring, overtaken>>
  BY DEF PublishCommit, restoreVars
<1>13. \A r \in Rows' \ {draft'} : status'[r] = "PUBLISHED" /\ (content'[r] \in Valid \/ r \in overtaken')
  BY <1>4, <1>6, <1>7, <1>9, <1>12 DEF RInv
<1>14. status'[draft'] = "DRAFT" /\ Len(content') >= 1
  BY <1>3, <1>6, <1>8 DEF RInv
<1> QED
  BY <1>3, <1>6, <1>8, <1>10, <1>11, <1>12, <1>13, <1>14 DEF RInv

LEMMA RInvStep == RInv /\ [RevisionsNext]_revisionVars => RInv'
<1> SUFFICES ASSUME RInv, [RevisionsNext]_revisionVars PROVE RInv'
  OBVIOUS
<1> USE RevisionsAssumption
<1>1. ASSUME NEW c \in Contents, SaveDraft(c) PROVE RInv'
  BY <1>1, SaveWrites
<1>2. ASSUME NEW r \in Rows, RestoreRead(r) PROVE RInv'
  BY <1>2, RestoreReads
<1>3. ASSUME NEW c \in restoring, RestoreWrite(c) PROVE RInv'
  BY <1>3, RestoreWrites
<1>4. ASSUME NEW a \in Authors, PublishRead(a) PROVE RInv'
  <2>1. [rev |-> draft, content |-> content[draft]] \in Reads
    BY <1>4 DEF PublishRead, RInv, Reads, Rows
  <2>2. publishing' \in [Authors -> Reads \cup {NoRead}]
    BY <1>4, <2>1 DEF PublishRead, RInv
  <2>3. \A b \in Authors : publishing'[b].rev = draft => content[draft] \in Valid \/ draft \in overtaken
    BY <1>4 DEF PublishRead, RInv
  <2> QED
    BY <1>4, <2>2, <2>3 DEF PublishRead, RInv, Rows, restoreVars
<1>5. ASSUME NEW a \in Authors, PublishCommit(a) PROVE RInv'
  BY <1>5, Published
<1>6. ASSUME NEW a \in Authors, PublishConflict(a) PROVE RInv'
  <2>1. publishing' \in [Authors -> Reads \cup {NoRead}]
    BY <1>6 DEF PublishConflict, RInv
  <2>2. \A b \in Authors : publishing'[b].rev = draft => publishing[b].rev = draft
    BY <1>6 DEF PublishConflict, RInv, NoRead, Rows
  <2>3. \A b \in Authors : publishing'[b].rev = draft => content[draft] \in Valid \/ draft \in overtaken
    BY <2>2 DEF RInv
  <2> QED
    BY <1>6, <2>1, <2>3 DEF PublishConflict, RInv, Rows, restoreVars
<1>7. CASE Archive \/ RestoreMonitor \/ UNCHANGED revisionVars
  BY <1>7 DEF Archive, RestoreMonitor, revisionVars, restoreVars, RInv, Rows
<1> QED
  BY <1>1, <1>2, <1>3, <1>4, <1>5, <1>6, <1>7 DEF RevisionsNext

\* The inductive invariant holds throughout.
THEOREM RevisionsInvariance == RevisionsSpec => []RInv
BY RInvInit, RInvStep, PTL DEF RevisionsSpec

\* What schedules execute was validated: Publish validates the draft it read, and
\* freezes the one there is by then (monitors/service.go:268-289).  Saves that land
\* between the two are validated themselves; a restore is not (service.go:135-141), and
\* is the one way past the validation.
THEOREM FrozenIsValid == RevisionsSpec => []PublishedValid
<1>1. RInv => PublishedValid
  BY DEF RInv, PublishedValid
<1> QED
  BY <1>1, RevisionsInvariance, PTL

\* A published revision never changes: UpdateDraft, restores and publications write
\* only to the row that the monitor names as its draft under the lock.
THEOREM FrozenStays == RevisionsSpec => PublishedImmutable
<1> DEFINE Stays ==
      \A r \in Rows : status[r] = "PUBLISHED" =>
        r \in DOMAIN content' /\ status'[r] = "PUBLISHED" /\ content'[r] = content[r]
<1>1. RInv /\ [RevisionsNext]_revisionVars => [Stays]_revisionVars
  <2> SUFFICES ASSUME RInv, RevisionsNext, NEW r \in Rows, status[r] = "PUBLISHED"
               PROVE  r \in DOMAIN content' /\ status'[r] = "PUBLISHED" /\ content'[r] = content[r]
    BY DEF revisionVars
  <2>1. r # draft
    BY DEF RInv
  <2>2. ASSUME NEW c, UpdateDraft(c)
        PROVE  r \in DOMAIN content' /\ status'[r] = "PUBLISHED" /\ content'[r] = content[r]
    BY <2>1, <2>2 DEF UpdateDraft, RInv, Rows
  <2>3. ASSUME NEW a \in Authors, PublishCommit(a)
        PROVE  r \in DOMAIN content' /\ status'[r] = "PUBLISHED" /\ content'[r] = content[r]
    <3>1. content' = Append(content, publishing[a].content)
      BY <2>3 DEF PublishCommit
    <3>2. r \in DOMAIN content' /\ content'[r] = content[r]
      BY <3>1 DEF RInv, Rows
    <3>3. status' = Append([status EXCEPT ![draft] = "PUBLISHED"], "DRAFT")
      BY <2>3 DEF PublishCommit
    <3>4. [status EXCEPT ![draft] = "PUBLISHED"][r] = "PUBLISHED"
      BY DEF RInv, Rows
    <3> QED
      BY <3>2, <3>3, <3>4 DEF RInv, Rows
  <2>4. ASSUME UNCHANGED <<content, status>>
        PROVE  r \in DOMAIN content' /\ status'[r] = "PUBLISHED" /\ content'[r] = content[r]
    BY <2>4 DEF RInv, Rows
  <2>5. CASE \E c \in restoring : RestoreWrite(c)
    BY <2>2, <2>4, <2>5 DEF RestoreWrite
  <2>6. CASE \/ Archive \/ RestoreMonitor \/ (\E a \in Authors : PublishRead(a) \/ PublishConflict(a))
             \/ \E q \in Rows : RestoreRead(q)
    BY <2>4, <2>6 DEF Archive, RestoreMonitor, PublishRead, PublishConflict, RestoreRead
  <2> QED
    BY <2>2, <2>3, <2>5, <2>6 DEF RevisionsNext, SaveDraft
<1> QED
  BY <1>1, RevisionsInvariance, PTL DEF RevisionsSpec, PublishedImmutable
-----------------------------------------------------------------------------
(* The revisions implement ReleaseLog.                                     *)

\* The draft is the last row, and the row before it is what schedules execute.
LInv == RInv /\ draft = Len(content) /\ published = Len(content) - 1
ButLast(rows) == SubSeq(rows, 1, Len(rows) - 1)

LEMMA LInvInit == RevisionsInit => LInv
<1> SUFFICES ASSUME RevisionsInit PROVE LInv
  OBVIOUS
<1>1. PICK c \in Contents : content = <<c>>
  BY DEF RevisionsInit
<1> QED
  BY <1>1, RInvInit DEF RevisionsInit, LInv

LEMMA ButLastRows ==
    ASSUME NEW S, NEW rows, Len(rows) \in Nat \ {0}, \A r \in 1..(Len(rows) - 1) : rows[r] \in S
    PROVE  /\ ButLast(rows) \in Seq(S) /\ Len(ButLast(rows)) = Len(rows) - 1
           /\ \A r \in 1..(Len(rows) - 1) : ButLast(rows)[r] = rows[r]
<1>1. PICK n \in Nat : n = Len(rows) - 1
  OBVIOUS
<1>2. \A i \in 1..n : rows[i] \in S
  BY <1>1
<1>3. /\ SubSeq(rows, 1, n) \in Seq(S) /\ Len(SubSeq(rows, 1, n)) = IF 1 <= n THEN n - 1 + 1 ELSE 0
      /\ \A i \in 1..(n - 1 + 1) : SubSeq(rows, 1, n)[i] = rows[1 + i - 1]
  BY <1>2, SubSeqProperties
<1> QED
  BY <1>1, <1>3 DEF ButLast

\* The log is what is before the last row.
LEMMA LogOf ==
    ASSUME LInv
    PROVE  /\ ButLast(content) \in Seq(Contents) /\ Len(ButLast(content)) = Len(content) - 1
           /\ \A r \in 1..(Len(content) - 1) : ButLast(content)[r] = content[r]
           /\ Len(content) \in Nat \ {0}
<1>1. Len(content) \in Nat \ {0} /\ \A r \in 1..(Len(content) - 1) : content[r] \in Contents
  BY DEF LInv, RInv, Rows
<1> QED
  BY <1>1, ButLastRows

\* A step that writes the draft alone is an edit.
LEMMA DraftEdited ==
    ASSUME LInv, RInv', NEW c \in Contents, UpdateDraft(c)
    PROVE  LInv' /\ Releases!Edit
<1>1. /\ Len(content') = Len(content) /\ UNCHANGED <<draft, published>>
      /\ \A r \in 1..(Len(content) - 1) : content'[r] = content[r]
      /\ content'[draft] = c
  BY DEF UpdateDraft, LInv, RInv, Rows
<1>2. LInv'
  BY <1>1 DEF LInv
<1>3. \A r \in 1..(Len(content') - 1) : content'[r] \in Contents
  BY <1>1 DEF LInv, RInv, Rows
<1>4. /\ ButLast(content') \in Seq(Contents) /\ Len(ButLast(content')) = Len(content) - 1
      /\ \A r \in 1..(Len(content) - 1) : ButLast(content')[r] = content[r]
  BY <1>1, <1>3, LogOf, ButLastRows
<1>5. ButLast(content') = ButLast(content)
  BY <1>4, LogOf, SeqEqual
<1> QED
  BY <1>1, <1>2, <1>5 DEF ButLast, Releases!Edit

\* A publication is a release.
LEMMA PublicationReleases ==
    ASSUME LInv, NEW a \in Authors, PublishCommit(a)
    PROVE  LInv' /\ Releases!Release
<1> USE RevisionsAssumption
<1>1. RInv'
  BY Published DEF LInv
<1>2. publishing[a] \in Reads /\ publishing[a].rev = draft
  BY DEF LInv, RInv, PublishCommit
<1> DEFINE c == publishing[a].content
<1>3. c \in Valid /\ content[draft] \in Contents
  BY <1>2 DEF LInv, RInv, Rows, Reads
<1>4. content' = Append(content, c) /\ draft' = Len(content) + 1 /\ published' = draft
  BY <1>2 DEF PublishCommit
<1> HIDE DEF c
<1>5. content \in Seq(Contents) /\ c \in Contents
  BY <1>3 DEF LInv, RInv
<1>6. /\ Len(content') = Len(content) + 1 /\ content'[Len(content) + 1] = c
      /\ \A r \in 1..Len(content) : content'[r] = content[r]
  BY <1>4, <1>5
<1>7. LInv'
  BY <1>1, <1>4, <1>6 DEF LInv
<1>8. /\ ButLast(content') \in Seq(Contents) /\ Len(ButLast(content')) = Len(content)
      /\ \A r \in 1..Len(content) : ButLast(content')[r] = content[r]
  <2>1. \A r \in 1..(Len(content') - 1) : content'[r] \in Contents
    BY <1>6 DEF LInv, RInv, Rows
  <2> QED
    BY <1>6, <2>1, LogOf, ButLastRows
<1>9. /\ Append(ButLast(content), content[draft]) \in Seq(Contents)
      /\ Len(Append(ButLast(content), content[draft])) = Len(content)
      /\ \A r \in 1..Len(content) : Append(ButLast(content), content[draft])[r] = content[r]
  BY <1>3, LogOf DEF LInv
<1>10. ButLast(content') = Append(ButLast(content), content[draft])
  BY <1>8, <1>9, SeqEqual
<1>11. published' = Len(ButLast(content'))
  BY <1>4, <1>8 DEF LInv
<1>12. content'[draft'] \in Valid
  BY <1>3, <1>4, <1>6
<1> QED
  BY <1>3, <1>7, <1>10, <1>11, <1>12 DEF ButLast, Releases!Release

LEMMA LogStep == LInv /\ [RevisionsNext]_revisionVars => LInv' /\ [Releases!Next]_Releases!vars
<1> SUFFICES ASSUME LInv, [RevisionsNext]_revisionVars PROVE LInv' /\ [Releases!Next]_Releases!vars
  OBVIOUS
<1>0. RInv'
  BY RInvStep DEF LInv
<1>1. ASSUME NEW c \in Contents, UpdateDraft(c) PROVE LInv' /\ [Releases!Next]_Releases!vars
  BY <1>0, <1>1, DraftEdited DEF Releases!Next
<1>2. ASSUME UNCHANGED <<content, draft, published>> PROVE LInv' /\ [Releases!Next]_Releases!vars
  BY <1>0, <1>2 DEF LInv, Releases!vars
<1>3. CASE \E c \in Contents : SaveDraft(c)
  BY <1>1, <1>3 DEF SaveDraft
<1>4. CASE \E c \in restoring : RestoreWrite(c)
  BY <1>1, <1>2, <1>4, RestoreWrites DEF LInv
<1>5. CASE \E r \in Rows : RestoreRead(r)
  BY <1>2, <1>5, RestoreReads DEF LInv
<1>6. ASSUME NEW a \in Authors, PublishCommit(a) PROVE LInv' /\ [Releases!Next]_Releases!vars
  BY <1>6, PublicationReleases DEF Releases!Next
<1>7. CASE Archive \/ RestoreMonitor \/ (\E a \in Authors : PublishRead(a) \/ PublishConflict(a)) \/ UNCHANGED revisionVars
  BY <1>2, <1>7 DEF Archive, RestoreMonitor, PublishRead, PublishConflict, revisionVars
<1> QED
  BY <1>3, <1>4, <1>5, <1>6, <1>7 DEF RevisionsNext

\* The revisions of a monitor are a log of releases that only grows, and
\* schedules execute its latest entry (monitors/service.go:196-330).
THEOREM RevisionsAreALog == RevisionsSpec => ImplementsReleaseLog
<1>1. LInv /\ RevisionsInit => Releases!Init
  <2> SUFFICES ASSUME LInv, RevisionsInit PROVE Releases!Init
    OBVIOUS
  <2>1. PICK c \in Contents : content = <<c>>
    BY DEF RevisionsInit
  <2>2. Len(content) = 1 /\ content[draft] \in Contents
    BY <2>1 DEF RevisionsInit
  <2>3. SubSeq(content, 1, Len(content) - 1) = <<>>
    BY <2>2, SubSeqEmpty
  <2> QED
    BY <2>2, <2>3 DEF Releases!Init, RevisionsInit
<1> QED
  BY <1>1, LInvInit, LogStep, PTL DEF RevisionsSpec, ImplementsReleaseLog, Releases!Spec
-----------------------------------------------------------------------------
(* The editor, which reaches the revisions through the API alone.          *)

\* Whatever the page, its late saves and the other users do is a step of the
\* revisions, or none.
LEMMA EditorMovesRevisions == [EditorNext]_<<revisionVars, editorVars>> => [RevisionsNext]_revisionVars
<1> SUFFICES ASSUME [EditorNext]_<<revisionVars, editorVars>> PROVE RevisionsNext \/ UNCHANGED revisionVars
  OBVIOUS
<1> USE EditorAssumption
<1>1. ASSUME NEW c, SaveDraft(c) PROVE RevisionsNext
  BY <1>1, RevisionsAssumption DEF SaveDraft, RevisionsNext
<1>2. ASSUME NEW a \in Authors, PublishRead(a) \/ PublishCommit(a) \/ PublishConflict(a) PROVE RevisionsNext
  BY <1>2 DEF RevisionsNext
<1>3. CASE Others
  BY <1>1, <1>2, <1>3 DEF Others, RevisionsNext
<1>4. CASE SaveLanded
  BY <1>1, <1>4 DEF SaveLanded
<1>5. CASE PublishAsked
  BY <1>2, <1>5 DEF PublishAsked
<1>6. CASE PublishAnswered
  BY <1>2, <1>6 DEF PublishAnswered
<1>7. CASE RestorePicked
  BY <1>7 DEF RestorePicked, RevisionsNext
<1>8. CASE ChangeDraft \/ AskSave \/ AskPublish \/ SaveFailed \/ SaveAnswered \/ ScheduleForm \/ PickRevision
  BY <1>8 DEF ChangeDraft, AskSave, AskPublish, SaveFailed, SaveAnswered, ScheduleForm, PickRevision
<1> QED
  BY <1>3, <1>4, <1>5, <1>6, <1>7, <1>8 DEF EditorNext

\* The editor implements the revisions: what holds of every interleaving of saves,
\* restores and publications holds of those an editor page makes, its saves that
\* are in flight together and those it gave up included
\* (routes/monitors/$monitorId/edit.tsx).
THEOREM EditorKeepsToRevisions == EditorSpec => RevisionsSpec
BY EditorMovesRevisions, PTL DEF EditorSpec, RevisionsSpec

\* What is published from the editor was validated, unless a restore got in between,
\* although the page publishes the draft as the API has it by then.
THEOREM EditedIsValid == EditorSpec => []PublishedValid
BY EditorKeepsToRevisions, FrozenIsValid, PTL

\* No save from the page, however late it lands, changes a release or takes the place of
\* one: it edits the draft.
THEOREM EditedIsALog == EditorSpec => ImplementsReleaseLog
BY EditorKeepsToRevisions, RevisionsAreALog, PTL

PublishStates == {"no", "saving", "asked", "read"}
EditorSet ==
    [content : Contents, application : Applications \cup {NoApplication},
     linked : Applications \cup {NoApplication}, state : EditorStates, publishing : PublishStates]
SaveSet ==
    [n : Nat, content : Contents, application : Applications \cup {NoApplication},
     linked : Applications \cup {NoApplication}, publish : BOOLEAN, at : {"sent", "landed", "linking", "late"}]
Pending(s) == s.publish /\ s.at # "late"

\* The publication that is asked for waits for one save, and for no other.
EInv ==
    /\ RInv /\ editor \in EditorSet /\ saves \in SUBSET SaveSet /\ editorSteps \in Nat
    /\ editor.publishing = "read" <=> publishing[Editor] # NoRead
    /\ editor.publishing = "saving" <=> \E s \in saves : Pending(s)
    /\ \A s, t \in saves : Pending(s) /\ Pending(t) => s = t

LEMMA EInvInit == RevisionsInit /\ EditorInit => EInv
<1> SUFFICES ASSUME RevisionsInit, EditorInit PROVE EInv
  OBVIOUS
<1>1. RInv
  BY RInvInit
<1>2. content[draft] \in Contents
  BY <1>1 DEF RInv, Rows
<1>3. editor \in EditorSet
  BY <1>2 DEF EditorInit, EditorSet, EditorStates, PublishStates
<1>4. publishing[Editor] = NoRead
  BY EditorAssumption DEF RevisionsInit
<1> QED
  BY <1>1, <1>3, <1>4 DEF EInv, EditorInit

\* A save that moves on is the same save; one that is given up is none that is waited for.
LEMMA SaveMoved ==
    ASSUME EInv, NEW s \in saves, NEW at \in {"sent", "landed", "linking", "late"},
           s.at = "late" => at = "late", MoveSave(s, at)
    PROVE  /\ saves' \in SUBSET SaveSet
           /\ at # "late" => ((\E t \in saves' : Pending(t)) <=> (\E t \in saves : Pending(t)))
           /\ ~Pending(s) => ((\E t \in saves' : Pending(t)) <=> (\E t \in saves : Pending(t)))
           /\ Pending(s) /\ at = "late" => ~ \E t \in saves' : Pending(t)
           /\ \A t, u \in saves' : Pending(t) /\ Pending(u) => t = u
<1>1. s \in SaveSet
  BY DEF EInv
<1> DEFINE moved == [s EXCEPT !.at = at]
<1>2. moved \in SaveSet /\ moved.publish = s.publish /\ moved.at = at
  BY <1>1 DEF SaveSet
<1>3. saves' = (saves \ {s}) \cup {moved}
  BY DEF MoveSave
<1>4. Pending(moved) => Pending(s)
  BY <1>2 DEF Pending
<1>5. ~Pending(s) => ~Pending(moved)
  BY <1>4
<1>6. at # "late" /\ Pending(s) => Pending(moved)
  BY <1>2 DEF Pending
<1>7. at = "late" => ~Pending(moved)
  BY <1>2 DEF Pending
<1> HIDE DEF moved
<1> QED
  BY <1>2, <1>3, <1>4, <1>5, <1>6, <1>7 DEF EInv

LEMMA SaveEnded ==
    ASSUME EInv, NEW s \in saves, saves' = saves \ {s}
    PROVE  /\ saves' \in SUBSET SaveSet
           /\ ~Pending(s) => ((\E t \in saves' : Pending(t)) <=> (\E t \in saves : Pending(t)))
           /\ Pending(s) => ~ \E t \in saves' : Pending(t)
           /\ \A t, u \in saves' : Pending(t) /\ Pending(u) => t = u
BY DEF EInv

\* What the page does to a revision's rows keeps what it waits for.
LEMMA EditorStays ==
    ASSUME EInv, RInv', UNCHANGED <<editor, saves>>, editorSteps' \in Nat, publishing'[Editor] = publishing[Editor]
    PROVE  EInv'
BY DEF EInv, Pending

LEMMA SaveBegins ==
    ASSUME EInv, RInv', EditorStep, NEW forPublish \in BOOLEAN, StartSave(forPublish),
           editor' \in EditorSet, publishing' = publishing,
           forPublish => editor.publishing = "no" /\ editor'.publishing = "saving",
           ~forPublish => editor'.publishing = editor.publishing
    PROVE  EInv'
<1> DEFINE new == [n |-> editorSteps, content |-> editor.content, application |-> editor.application,
                   linked |-> editor.linked, publish |-> forPublish, at |-> "sent"]
<1>1. saves' = saves \cup {new}
  BY DEF StartSave
<1>2. new \in SaveSet
  BY DEF EInv, EditorSet, SaveSet
<1>3. Pending(new) <=> forPublish
  BY DEF Pending
<1> HIDE DEF new
<1>4. forPublish => ~ \E s \in saves : Pending(s)
  BY DEF EInv
<1>5. (\E s \in saves' : Pending(s)) <=> ((\E s \in saves : Pending(s)) \/ forPublish)
  BY <1>1, <1>3
<1>6. \A s, t \in saves' : Pending(s) /\ Pending(t) => s = t
  BY <1>1, <1>3, <1>4 DEF EInv
<1>7. editorSteps' \in Nat
  BY DEF EInv, EditorStep
<1>8. editor'.publishing = "saving" <=> \E s \in saves' : Pending(s)
  BY <1>5 DEF EInv
<1>9. editor'.publishing = "read" <=> publishing'[Editor] # NoRead
  BY DEF EInv
<1>10. saves' \in SUBSET SaveSet
  BY <1>1, <1>2 DEF EInv
<1> QED
  BY <1>6, <1>7, <1>8, <1>9, <1>10 DEF EInv, Pending

\* The end of a save, good or bad: the page waits no longer for the save it was made for.
LEMMA SaveOver ==
    ASSUME EInv, RInv', NEW s \in saves, s.at # "late", publishing' = publishing, editorSteps' = editorSteps,
           saves' = saves \ {s} \/ MoveSave(s, "late"),
           editor' \in EditorSet,
           s.publish => editor'.publishing \in {"no", "asked"},
           ~s.publish => editor'.publishing = editor.publishing
    PROVE  EInv'
<1>1. s.publish \in BOOLEAN /\ (Pending(s) <=> s.publish)
  BY DEF EInv, SaveSet, Pending
<1>2. /\ saves' \in SUBSET SaveSet
      /\ ~Pending(s) => ((\E t \in saves' : Pending(t)) <=> (\E t \in saves : Pending(t)))
      /\ Pending(s) => ~ \E t \in saves' : Pending(t)
      /\ \A t, u \in saves' : Pending(t) /\ Pending(u) => t = u
  BY SaveEnded, SaveMoved
<1>3. editor'.publishing = "saving" <=> \E t \in saves' : Pending(t)
  <2>1. CASE s.publish
    BY <1>1, <1>2, <2>1
  <2>2. CASE ~s.publish
    BY <1>1, <1>2, <2>2 DEF EInv
  <2> QED
    BY <2>1, <2>2
<1>4. editor'.publishing = "read" <=> publishing'[Editor] # NoRead
  <2>1. CASE s.publish
    BY <1>1, <2>1 DEF EInv
  <2>2. CASE ~s.publish
    BY <2>2 DEF EInv
  <2> QED
    BY <2>1, <2>2
<1> QED
  BY <1>2, <1>3, <1>4 DEF EInv, Pending

LEMMA EInvStep == EInv /\ [EditorNext]_<<revisionVars, editorVars>> => EInv'
<1> SUFFICES ASSUME EInv, [EditorNext]_<<revisionVars, editorVars>> PROVE EInv'
  OBVIOUS
<1> USE EditorAssumption
<1>0. RInv'
  BY EditorMovesRevisions, RInvStep DEF EInv
<1>1. CASE Others
  <2>1. editorSteps' \in Nat /\ UNCHANGED <<editor, saves>>
    BY <1>1 DEF Others, editorVars, EInv
  <2>2. publishing'[Editor] = publishing[Editor]
    <3>1. ASSUME NEW a \in Authors \ {Editor}, PublishRead(a) \/ PublishCommit(a) \/ PublishConflict(a)
          PROVE  publishing'[Editor] = publishing[Editor]
      BY <3>1 DEF PublishRead, PublishCommit, PublishConflict, EInv, RInv
    <3>2. ASSUME ~ \E a \in Authors \ {Editor} : PublishRead(a) \/ PublishCommit(a) \/ PublishConflict(a)
          PROVE  publishing' = publishing
      BY <1>1, <3>2 DEF Others, SaveDraft, RestoreRead, RestoreWrite, UpdateDraft, Archive, RestoreMonitor
    <3> QED
      BY <3>1, <3>2
  <2> QED
    BY <1>0, <2>1, <2>2, EditorStays
<1>2. CASE ChangeDraft
  <2>1. saves' = saves /\ publishing' = publishing /\ editorSteps' \in Nat
    <3>1. EditorStep /\ UNCHANGED <<saves, scheduleForm, compare, revisionVars>>
      BY <1>2 DEF ChangeDraft
    <3> QED
      BY <3>1 DEF EditorStep, revisionVars, EInv
  <2>2. editor' \in EditorSet /\ editor'.publishing = editor.publishing
    BY <1>2 DEF ChangeDraft, EInv, EditorSet, EditorStates
  <2> QED
    BY <1>0, <2>1, <2>2 DEF EInv, Pending
<1>3. CASE AskSave
  <2>1. editor' \in EditorSet /\ editor'.publishing = editor.publishing
    BY <1>3 DEF AskSave, EInv, EditorSet, EditorStates
  <2> QED
    BY <1>0, <1>3, <2>1, SaveBegins DEF AskSave, revisionVars
<1>4. CASE AskPublish
  <2>1. editor' \in EditorSet /\ editor'.publishing = "saving"
    BY <1>4 DEF AskPublish, EInv, EditorSet, EditorStates, PublishStates
  <2> QED
    BY <1>0, <1>4, <2>1, SaveBegins DEF AskPublish, revisionVars
<1>5. CASE SaveLanded
  <2>1. PICK s \in saves : /\ s.at \in {"sent", "late"} /\ SaveDraft(s.content)
                           /\ IF s.at = "late" THEN saves' = saves \ {s} ELSE MoveSave(s, "landed")
    BY <1>5 DEF SaveLanded
  <2>2. UNCHANGED <<editor, editorSteps, publishing>>
    BY <1>5, <2>1 DEF SaveLanded, SaveDraft, UpdateDraft
  <2>3. /\ saves' \in SUBSET SaveSet
        /\ (\E t \in saves' : Pending(t)) <=> (\E t \in saves : Pending(t))
        /\ \A t, u \in saves' : Pending(t) /\ Pending(u) => t = u
    <3>1. CASE s.at = "late"
      BY <2>1, <3>1, SaveEnded DEF Pending
    <3>2. CASE s.at # "late"
      BY <2>1, <3>2, SaveMoved
    <3> QED
      BY <3>1, <3>2
  <2> QED
    BY <1>0, <2>2, <2>3 DEF EInv, Pending
<1>6. CASE SaveFailed
  <2>1. PICK s \in saves :
            /\ s.at \in {"sent", "landed", "linking"} /\ SaveFails(s)
            /\ saves' \in {saves \ {s}, IF s.at = "sent" THEN (saves \ {s}) \cup {[s EXCEPT !.at = "late"]} ELSE saves \ {s}}
    BY <1>6 DEF SaveFailed
  <2>2. saves' = saves \ {s} \/ MoveSave(s, "late")
    BY <2>1 DEF MoveSave
  <2>3. editorSteps' = editorSteps /\ publishing' = publishing
    BY <1>6 DEF SaveFailed, revisionVars
  <2>4. /\ editor' \in EditorSet /\ (s.publish => editor'.publishing = "no")
        /\ ~s.publish => editor'.publishing = editor.publishing
    BY <2>1 DEF SaveFails, EInv, EditorSet, EditorStates, PublishStates
  <2> QED
    BY <1>0, <2>1, <2>2, <2>3, <2>4, SaveOver
<1>7. CASE SaveAnswered
  <2>1. editorSteps' = editorSteps /\ publishing' = publishing
    BY <1>7 DEF SaveAnswered, revisionVars
  <2>2. ASSUME NEW s \in saves, s.at \in {"landed", "linking"}, SaveDone(s) PROVE EInv'
    <3>1. s \in SaveSet
      BY DEF EInv
    <3>2. /\ editor' \in EditorSet /\ (s.publish => editor'.publishing = "asked")
          /\ ~s.publish => editor'.publishing = editor.publishing
      BY <2>2, <3>1 DEF SaveDone, EInv, EditorSet, EditorStates, PublishStates, SaveSet
    <3>3. saves' = saves \ {s}
      BY <2>2 DEF SaveDone
    <3> QED
      BY <1>0, <2>1, <2>2, <3>2, <3>3, SaveOver
  <2>3. ASSUME NEW s \in saves, s.at = "landed", MoveSave(s, "linking"), UNCHANGED editor PROVE EInv'
    <3>1. /\ saves' \in SUBSET SaveSet
          /\ (\E t \in saves' : Pending(t)) <=> (\E t \in saves : Pending(t))
          /\ \A t, u \in saves' : Pending(t) /\ Pending(u) => t = u
      BY <2>3, SaveMoved
    <3> QED
      BY <1>0, <2>1, <2>3, <3>1 DEF EInv, Pending
  <2> QED
    BY <1>7, <2>2, <2>3 DEF SaveAnswered
<1>8. CASE PublishAsked
  <2>1. saves' = saves /\ editorSteps' = editorSteps
    BY <1>8 DEF PublishAsked
  <2>2. editor' \in EditorSet /\ editor'.publishing = "read" /\ editor.publishing = "asked"
    BY <1>8 DEF PublishAsked, EInv, EditorSet, PublishStates
  <2>3. publishing'[Editor] # NoRead
    BY <1>8 DEF PublishAsked, PublishRead, EInv, RInv, NoRead, Rows
  <2> QED
    BY <1>0, <2>1, <2>2, <2>3 DEF EInv, Pending
<1>9. CASE PublishAnswered
  <2>1. saves' = saves /\ editorSteps' = editorSteps
    BY <1>9 DEF PublishAnswered
  <2>2. editor' \in EditorSet /\ editor'.publishing = "no" /\ editor.publishing \in {"asked", "read"}
    BY <1>9 DEF PublishAnswered, EInv, EditorSet, PublishStates, EditorStates
  <2>3. publishing'[Editor] = NoRead
    <3>1. CASE editor.publishing = "read"
      BY <1>9, <3>1 DEF PublishAnswered, PublishCommit, PublishConflict, EInv, RInv
    <3>2. CASE editor.publishing = "asked"
      BY <1>9, <3>2 DEF PublishAnswered, revisionVars, EInv
    <3> QED
      BY <2>2, <3>1, <3>2
  <2> QED
    BY <1>0, <2>1, <2>2, <2>3 DEF EInv, Pending
<1>10. CASE ScheduleForm
  <2>1. UNCHANGED <<editor, saves, publishing>> /\ editorSteps' \in Nat
    BY <1>10 DEF ScheduleForm, EditorStep, EInv, revisionVars
  <2> QED
    BY <1>0, <2>1, EditorStays
<1>11. CASE PickRevision \/ RestorePicked
  <2>1. EditorStep /\ UNCHANGED <<editor, saves>>
    BY <1>11 DEF PickRevision, RestorePicked
  <2>2. publishing' = publishing
    BY <1>11 DEF PickRevision, RestorePicked, RestoreRead, revisionVars
  <2>3. editorSteps' \in Nat
    BY <2>1 DEF EditorStep, EInv
  <2> QED
    BY <1>0, <2>1, <2>2, <2>3, EditorStays
<1>12. CASE UNCHANGED <<revisionVars, editorVars>>
  BY <1>0, <1>12, EditorStays DEF EInv, revisionVars, editorVars
<1> QED
  BY <1>1, <1>2, <1>3, <1>4, <1>5, <1>6, <1>7, <1>8, <1>9, <1>10, <1>11, <1>12 DEF EditorNext

\* A page that publishes never waits for a save that was given up or that another click
\* began, and never goes on with a publication the API has answered: with several saves
\* in flight exactly one is the one the publication waits for
\* (routes/monitors/$monitorId/edit.tsx:106-160).
THEOREM EditorWaitsForItsOwn == EditorSpec => []PublicationInStep
<1>1. EInv => PublicationInStep
  BY DEF EInv, PublicationInStep, Pending
<1> QED
  BY <1>1, EInvInit, EInvStep, PTL DEF EditorSpec
=============================================================================
