----------------------- MODULE DeploymentReportProofs -----------------------
(***************************************************************************)
(* Proofs about a deployment validation and its page, for all suites, any  *)
(* number of samples and any number of faults.                             *)
(***************************************************************************)
EXTENDS DeploymentReport, FiniteSetTheorems, TLAPS

CheckKinds == {"MONITOR", "BROWSER_MONITOR", "DYNATRACE", "ELF", "ALERT"}
LateKinds == {"ELF", "ALERT"}   \* checks the report lists when they have run
PhaseSet == {"CAPTURING_BASELINE", "SAMPLING_MONITORS", "SAMPLING_BROWSER_MONITORS",
             "WAITING_FOR_STABILIZATION", "RUNNING_DYNATRACE", "RUNNING_ELF",
             "CHECKING_ALERTS", "ANALYZING"}
JobStatuses == {"QUEUED", "LEASED", "SUCCEEDED", "FAILED", "CANCELLED"}
RowStatuses == {"QUEUED", "RUNNING", "CANCELLING"} \cup Terminal
Gates == {"PENDING", "BLOCK", "ALLOW_WITH_WARNINGS", "ALLOW"}
Classes == {"", "REGRESSED", "IMPROVED", "NORMAL", "INSUFFICIENT_HISTORY"}
CheckStatuses == {"", "PENDING", "ERROR", "FAIL", "WARNING", "PASS", "SUCCESS", "FAILED"}
CheckDecisions == {"", "PENDING", "BLOCK", "ALLOW_WITH_WARNINGS", "ALLOW"}
Posts == {NoPost} \cup {Summarize(s) : s \in Seq(Samples)}

Entries ==
    [listed : BOOLEAN, samples : Seq(Samples), baseline : BOOLEAN, post : Posts, class : Classes,
     steps : SUBSET {"REGRESSED"}, status : CheckStatuses, decision : CheckDecisions,
     required : BOOLEAN, frozen : BOOLEAN]

Ran(e) == e.listed /\ e.status \in {"SUCCESS", "FAILED"}

\* A Dynatrace check blocks by its decision only when it failed, and a log or
\* alert check that is frozen has a result.
Sensible(c, e) ==
    /\ e.decision = "BLOCK" => Kind[c] = "DYNATRACE" /\ e.status \in {"ERROR", "FAIL"}
    /\ Kind[c] \in LateKinds /\ e.frozen => Ran(e)
Evidence(report) == report \in [suite -> Entries] /\ \A c \in suite : Sensible(c, report[c])

\* What the report says of a check when the gate is computed.
Complete(c, e) == IF Kind[c] \in LateKinds THEN Ran(e) ELSE e.listed
Judged(r) ==
    r.status = "COMPLETED" =>
        /\ r.gate = Decision(r.report) /\ r.reasons = Reasons(r.report)
        /\ \A c \in suite : Complete(c, r.report[c])
RowSet ==
    [status : RowStatuses, phase : PhaseSet \cup RowStatuses, gate : Gates, report : [suite -> Entries],
     recommended : BOOLEAN, reasons : SUBSET suite, warnings : SUBSET suite]
RowSound(r) ==
    /\ r \in RowSet /\ Evidence(r.report) /\ Judged(r)
    /\ r.status \in Terminal <=> r.gate # "PENDING"

\* What is behind an executor that has come to phase p.
Behind(p, report) ==
    /\ p \in PhaseSet \ {"CAPTURING_BASELINE"} =>
        \A c \in suite : Kind[c] \notin LateKinds => report[c].listed
    /\ p \in {"CHECKING_ALERTS", "ANALYZING"} => \A c \in suite : Kind[c] = "ELF" => Ran(report[c])
    /\ p = "ANALYZING" => \A c \in suite : Kind[c] = "ALERT" => Ran(report[c])

\* The inductive invariant.  A report is written from nothing once, by the
\* executor that took the job from the queue, when there is nothing in it.
Sound ==
    /\ suite \in Suites
    /\ RowSound(row) /\ RowSound(shown)
    /\ job \in JobStatuses /\ pc \in PhaseSet \cup {"none", "claimed", "finished"}
    /\ job = "QUEUED" => pc = "none"
    /\ job = "QUEUED" \/ pc \in {"claimed", "CAPTURING_BASELINE"} => row.report = EmptyReport
    /\ Behind(pc, row.report)
    /\ pending \in {"", "cancel"} /\ faults \in 0..MaxFaults

\* How what is known of check c may change from e to f.
Grows(c, e, f) ==
    /\ IsPrefix(e.samples, f.samples) /\ (e.frozen => f.frozen) /\ (e.listed => f.listed)
    /\ Kind[c] \in LateKinds /\ Ran(e) => Ran(f)
Grown(report) == Evidence(report) /\ \A c \in suite : Grows(c, row.report[c], report[c])
Kept == \A c \in suite : Grows(c, row.report[c], row'.report[c])
-----------------------------------------------------------------------------
(* Sequences of samples.                                                   *)

LEMMA PrefixOfItself == ASSUME NEW S, NEW s \in Seq(S) PROVE IsPrefix(s, s)
BY DEF IsPrefix

LEMMA PrefixOfLonger ==
    ASSUME NEW S, NEW s \in Seq(S), NEW x \in S
    PROVE  Append(s, x) \in Seq(S) /\ IsPrefix(s, Append(s, x))
<1> DEFINE t == Append(s, x)
<1>1. t \in Seq(S) /\ Len(t) = Len(s) + 1 /\ \A i \in 1..Len(s) : t[i] = s[i]
  OBVIOUS
<1>2. SubSeq(s, 1, Len(s)) = SubSeq(t, 1, Len(s))
  BY <1>1
<1> QED
  BY <1>1, <1>2 DEF IsPrefix

LEMMA NoSamples == ASSUME NEW S PROVE <<>> \in Seq(S) /\ IsPrefix(<<>>, <<>>)
<1>1. <<>> \in Seq(S)
  OBVIOUS
<1> QED
  BY <1>1, PrefixOfItself
-----------------------------------------------------------------------------
(* The order of the phases.                                                *)

LEMMA LeastOf ==
    ASSUME NEW S \in SUBSET (1..8), S # {}
    PROVE  Min(S) \in S /\ \A y \in S : Min(S) <= y
<1>1. \E x \in S : \A y \in S : x <= y
  <2> SUFFICES ASSUME \A x \in S : \E y \in S : y < x PROVE FALSE
    OBVIOUS
  <2>1. 1 \notin S
    OBVIOUS
  <2>2. 2 \notin S
    BY <2>1
  <2>3. 3 \notin S
    BY <2>1, <2>2
  <2>4. 4 \notin S
    BY <2>1, <2>2, <2>3
  <2>5. 5 \notin S /\ 6 \notin S
    BY <2>1, <2>2, <2>3, <2>4
  <2>6. 7 \notin S /\ 8 \notin S
    BY <2>1, <2>2, <2>3, <2>4, <2>5
  <2> QED
    <3>1. PICK x \in 1..8 : x \in S
      OBVIOUS
    <3> QED
      BY <2>1, <2>2, <2>3, <2>4, <2>5, <2>6, <3>1
<1> QED
  BY <1>1 DEF Min

\* An executor gets to the checks of logs and alerts and to the decision one
\* after the other.
LEMMA PhaseOrder ==
    ASSUME pc \in PhaseSet \ {"ANALYZING"}
    PROVE  /\ NextPhase \in PhaseSet \ {"CAPTURING_BASELINE"}
           /\ NextPhase = "CHECKING_ALERTS" => pc = "RUNNING_ELF"
           /\ NextPhase = "ANALYZING" => pc = "CHECKING_ALERTS"
<1> DEFINE Position(phase) == CHOOSE n \in 1..Len(Phases) : Phases[n] = phase
           later == {n \in 1..Len(Phases) : n > Position(pc) /\ ~Skipped(Phases[n])}
<1>1. /\ Len(Phases) = 8
      /\ Phases[1] = "CAPTURING_BASELINE" /\ Phases[2] = "SAMPLING_MONITORS"
      /\ Phases[3] = "SAMPLING_BROWSER_MONITORS" /\ Phases[4] = "WAITING_FOR_STABILIZATION"
      /\ Phases[5] = "RUNNING_DYNATRACE" /\ Phases[6] = "RUNNING_ELF"
      /\ Phases[7] = "CHECKING_ALERTS" /\ Phases[8] = "ANALYZING"
  BY DEF Phases
<1>2. NextPhase = Phases[Min(later)]
  BY DEF NextPhase
<1>3. PICK p \in 1..7 : pc = Phases[p]
  <2>1. pc \in {Phases[1], Phases[2], Phases[3], Phases[4], Phases[5], Phases[6], Phases[7]}
    BY <1>1 DEF PhaseSet
  <2> QED
    BY <2>1
<1>4. Position(pc) = p
  <2>1. \A m, n \in 1..8 : Phases[m] = Phases[n] => m = n
    BY <1>1
  <2> QED
    BY <1>1, <1>3, <2>1
<1>5. \A n \in {6, 7, 8} : ~Skipped(Phases[n])
  BY <1>1 DEF Skipped
<1>6. later = {n \in 1..8 : n > p /\ ~Skipped(Phases[n])}
  BY <1>1, <1>4
<1> HIDE DEF later, Position
<1>7. later \in SUBSET (1..8) /\ 8 \in later
  BY <1>5, <1>6
<1>8. Min(later) \in later /\ \A y \in later : Min(later) <= y
  BY <1>7, LeastOf
<1>9. PICK m \in 1..8 : m = Min(later) /\ m > p
  BY <1>6, <1>8
<1>10. \A n \in {6, 7} : p < n => m <= n
  <2>1. \A n \in {6, 7} : p < n => n \in later
    BY <1>5, <1>6
  <2> QED
    BY <1>8, <1>9, <2>1
<1>11. (m = 7 => p = 6) /\ (m = 8 => p = 7)
  BY <1>9, <1>10
<1>12. m \in 2..8
  BY <1>9
<1>13. Phases[m] \in PhaseSet \ {"CAPTURING_BASELINE"}
  BY <1>1, <1>12 DEF PhaseSet
<1> QED
  BY <1>1, <1>2, <1>3, <1>9, <1>10, <1>11, <1>12, <1>13
-----------------------------------------------------------------------------
(* What is written.                                                        *)

\* Nothing that is said of a row depends on more than the suite.
LEMMA RowNext ==
    ASSUME suite' = suite, RowSound(row'), RowSound(shown')
    PROVE  RowSound(row)' /\ RowSound(shown)'
BY DEF RowSound, RowSet, Evidence, Judged, Decision, Reasons, Warnings, Blocks, Failing, Sampled, OfKind

\* The invariant of the next state, told in terms of the suite of this one.
LEMMA Together ==
    ASSUME Sound, suite' = suite, RowSound(row'), RowSound(shown'),
           job' \in JobStatuses, pc' \in PhaseSet \cup {"none", "claimed", "finished"},
           job' = "QUEUED" => pc' = "none",
           job' = "QUEUED" \/ pc' \in {"claimed", "CAPTURING_BASELINE"} => row'.report = EmptyReport,
           Behind(pc', row'.report), pending' \in {"", "cancel"}, faults' \in 0..MaxFaults
    PROVE  Sound'
<1>1. RowSound(row)' /\ RowSound(shown)'
  BY RowNext
<1>2. EmptyReport' = EmptyReport
  BY DEF EmptyReport, Initial
<1>3. Behind(pc, row.report)'
  BY DEF Behind
<1> QED
  BY <1>1, <1>2, <1>3 DEF Sound

LEMMA NothingGrows ==
    ASSUME NEW c \in suite, NEW e \in Entries
    PROVE  Grows(c, e, e)
<1>1. IsPrefix(e.samples, e.samples)
  BY PrefixOfItself DEF Entries
<1> QED
  BY <1>1 DEF Grows

LEMMA InitialSensible ==
    ASSUME NEW c
    PROVE  /\ Initial(c) \in Entries /\ Sensible(c, Initial(c))
           /\ Initial(c).samples = <<>> /\ ~Initial(c).frozen /\ ~Initial(c).listed
<1>1. NoPost \in Posts
  BY DEF Posts
<1>2. <<>> \in Seq(Samples)
  OBVIOUS
<1>3. PICK r \in BOOLEAN : r = (c \in Required)
  <2>1. CASE c \in Required
    <3>1. TRUE = (c \in Required)
      BY <2>1
    <3> QED
      BY <3>1
  <2>2. CASE c \notin Required
    <3>1. FALSE = (c \in Required)
      BY <2>2
    <3> QED
      BY <3>1
  <2> QED
    BY <2>1, <2>2
<1>4. \E s \in {"", "PENDING"} :
        Initial(c) = [Blank EXCEPT !.required = r, !.status = s, !.decision = s]
  <2>1. CASE Kind[c] = "DYNATRACE"
    BY <1>3, <2>1 DEF Initial
  <2>2. CASE Kind[c] # "DYNATRACE"
    BY <1>3, <2>2 DEF Initial
  <2> QED
    BY <2>1, <2>2
<1>5. PICK s \in {"", "PENDING"} :
        Initial(c) = [Blank EXCEPT !.required = r, !.status = s, !.decision = s]
  BY <1>4
<1> QED
  BY <1>1, <1>2, <1>5 DEF Blank, Entries, Sensible, Classes, CheckStatuses, CheckDecisions, LateKinds

LEMMA RowTyped ==
    ASSUME NEW report \in [suite -> Entries], NEW status \in RowStatuses,
           NEW phase \in PhaseSet \cup RowStatuses, NEW gate \in Gates
    PROVE  Row(status, phase, gate, report) \in RowSet
<1>1. Reasons(report) \subseteq suite /\ Warnings(report) \subseteq suite
  BY DEF Reasons, Warnings
<1> QED
  BY <1>1 DEF Row, RowSet

\* A save by the executor, of a report that has grown.
LEMMA Saves ==
    ASSUME Sound, NEW report, Grown(report), NEW status \in RowStatuses,
           NEW phase \in PhaseSet \cup RowStatuses, NEW gate \in Gates,
           status \in Terminal <=> gate # "PENDING",
           status = "COMPLETED" => gate = Decision(report) /\ \A c \in suite : Complete(c, report[c]),
           row' = Row(status, phase, gate, report)
    PROVE  RowSound(row') /\ Kept /\ row'.report = report
<1>1. report \in [suite -> Entries] /\ Evidence(report)
  BY DEF Grown, Evidence
<1>2. row' \in RowSet
  BY <1>1, RowTyped
<1>3. /\ row'.status = status /\ row'.phase = phase /\ row'.gate = gate /\ row'.report = report
      /\ row'.reasons = IF status = "COMPLETED" THEN Reasons(report) ELSE {}
  BY DEF Row
<1>4. Judged(row')
  BY <1>3 DEF Judged
<1>5. Kept
  BY <1>3 DEF Kept, Grown
<1> QED
  BY <1>1, <1>2, <1>3, <1>4, <1>5 DEF RowSound

\* A row of which only the status, the phase and the gate are written.
LEMMA StatusWritten ==
    ASSUME Sound, NEW status \in {"CANCELLED", "CANCELLING", "FAILED"}, NEW gate \in Gates,
           status \in Terminal <=> gate # "PENDING",
           row' = [row EXCEPT !.status = status, !.phase = status, !.gate = gate]
    PROVE  RowSound(row') /\ Kept /\ row'.report = row.report
<1>1. row \in RowSet /\ Evidence(row.report)
  BY DEF Sound, RowSound
<1>2. row' \in RowSet
  BY <1>1 DEF RowSet, RowStatuses, Terminal
<1>3. row'.status = status /\ row'.gate = gate /\ row'.report = row.report
  BY <1>1 DEF RowSet
<1>4. Judged(row')
  BY <1>3 DEF Judged
<1>5. Kept
  BY <1>1, <1>3, NothingGrows DEF Kept, RowSet
<1> QED
  BY <1>1, <1>2, <1>3, <1>4, <1>5 DEF RowSound

\* An entry that is not about a sample grows from itself when it is rewritten.
LEMMA Rewritten ==
    ASSUME NEW c \in suite, NEW e \in Entries, NEW f \in Entries, f.samples = e.samples,
           e.frozen => f.frozen, e.listed => f.listed, Kind[c] \in LateKinds /\ Ran(e) => Ran(f)
    PROVE  Grows(c, e, f)
<1>1. IsPrefix(e.samples, f.samples)
  BY PrefixOfItself DEF Entries
<1> QED
  BY <1>1 DEF Grows

\* The report as it is has grown from itself.
LEMMA WorkGrown == ASSUME Sound PROVE Grown(work) /\ work = row.report
<1>1. Evidence(row.report)
  BY DEF Sound, RowSound
<1> QED
  BY <1>1, NothingGrows DEF Grown, Evidence, work

LEMMA BaselinesSensible ==
    ASSUME Sound, NEW c \in suite, NEW f \in Baselines(c)
    PROVE  /\ f \in Entries /\ Sensible(c, f) /\ f.samples = <<>>
           /\ Kind[c] \notin LateKinds => f.listed
<1>1. Kind[c] \in CheckKinds
  BY DeploymentAssumption DEF Sound, CheckKinds
<1>2. PICK i \in Entries : i = Initial(c) /\ Sensible(c, i) /\ i.samples = <<>> /\ ~i.frozen
  BY InitialSensible
<1>3. PICK l \in BOOLEAN : l = (Kind[c] \notin {"ELF", "ALERT"})
  OBVIOUS
<1>4. PICK b : b = Listed(c)
  OBVIOUS
<1>5. b = [i EXCEPT !.listed = l]
  BY <1>2, <1>3, <1>4 DEF Listed
<1>6. b \in Entries /\ b.samples = <<>> /\ ~b.frozen /\ b.listed = l
  BY <1>2, <1>5 DEF Entries
<1>7. Sensible(c, b)
  BY <1>2, <1>5, <1>6 DEF Sensible, Entries
<1>8. CASE Kind[c] = "DYNATRACE"
  <2>1. \/ f \in {[b EXCEPT !.status = "ERROR", !.decision = "ALLOW_WITH_WARNINGS",
                             !.required = r, !.frozen = TRUE] : r \in {FALSE, (c \in Required)}}
        \/ f \in {[b EXCEPT !.status = "ERROR"], b}
    BY <1>4, <1>8 DEF Baselines
  <2>2. CASE f \in {[b EXCEPT !.status = "ERROR"], b}
    BY <1>3, <1>6, <1>7, <1>8, <2>2 DEF Entries, Sensible, CheckStatuses, LateKinds
  <2>3. ASSUME NEW r \in BOOLEAN,
               f = [b EXCEPT !.status = "ERROR", !.decision = "ALLOW_WITH_WARNINGS",
                             !.required = r, !.frozen = TRUE]
        PROVE  /\ f \in Entries /\ Sensible(c, f) /\ f.samples = <<>> /\ f.listed
    BY <1>3, <1>6, <1>8, <2>3 DEF Entries, Sensible, CheckStatuses, CheckDecisions, LateKinds
  <2>4. (c \in Required) \in BOOLEAN
    OBVIOUS
  <2> QED
    BY <2>1, <2>2, <2>3, <2>4
<1>9. CASE Kind[c] # "DYNATRACE"
  <2>1. f = b \/ \E enough \in BOOLEAN : f = [b EXCEPT !.baseline = enough]
    BY <1>4, <1>9 DEF Baselines
  <2> QED
    BY <1>3, <1>6, <1>7, <2>1 DEF Entries, Sensible, LateKinds, Ran
<1> QED
  BY <1>8, <1>9

LEMMA ResultsGrow ==
    ASSUME Sound, NEW c \in suite, NEW f \in Results(c)
    PROVE  /\ f \in Entries /\ Sensible(c, f) /\ Grows(c, work[c], f)
           /\ f.frozen /\ (Kind[c] \in LateKinds => Ran(f))
<1>1. PICK e \in Entries : e = work[c] /\ Sensible(c, e)
  BY DEF Sound, RowSound, Evidence, work
<1>2. ASSUME NEW s \in CheckStatuses
      PROVE  \E g \in Entries :
                /\ g = Result(c, s) /\ g.samples = e.samples /\ g.frozen /\ g.listed
                /\ g.status = s /\ g.decision = e.decision
  <2>1. PICK g : g = [e EXCEPT !.status = s, !.frozen = TRUE, !.listed = TRUE]
    OBVIOUS
  <2>2. /\ g \in Entries /\ g.samples = e.samples /\ g.frozen /\ g.listed
        /\ g.status = s /\ g.decision = e.decision
    BY <2>1 DEF Entries
  <2>3. g = Result(c, s)
    BY <1>1, <2>1 DEF Result
  <2> QED
    BY <2>2, <2>3
<1>3. CASE Kind[c] = "DYNATRACE"
  <2>1. PICK r \in DynatraceResults : f = [Result(c, r.status) EXCEPT !.decision = r.decision]
    BY <1>3 DEF Results
  <2>2. /\ r.status \in CheckStatuses /\ r.decision \in CheckDecisions
        /\ r.decision = "BLOCK" => r.status \in {"ERROR", "FAIL"}
    BY DEF DynatraceResults, CheckStatuses, CheckDecisions
  <2>3. PICK g \in Entries : /\ g = Result(c, r.status) /\ g.samples = e.samples /\ g.frozen /\ g.listed
                             /\ g.status = r.status
    BY <1>2, <2>2
  <2>4. f = [g EXCEPT !.decision = r.decision]
    BY <2>1, <2>3
  <2>5. /\ f \in Entries /\ f.samples = e.samples /\ f.frozen /\ f.listed
        /\ f.status = r.status /\ f.decision = r.decision
    BY <2>2, <2>3, <2>4 DEF Entries
  <2>6. Sensible(c, f)
    BY <1>3, <2>2, <2>5 DEF Sensible, LateKinds
  <2> QED
    BY <1>1, <1>3, <2>5, <2>6, Rewritten DEF LateKinds
<1>4. CASE Kind[c] # "DYNATRACE"
  <2>1. PICK s \in {"SUCCESS", "FAILED"} :
            f = Result(c, s) \/ \E r \in BOOLEAN : f = [Result(c, s) EXCEPT !.required = r]
    BY <1>4 DEF Results
  <2>2. /\ f \in Entries /\ f.samples = e.samples /\ f.frozen /\ f.listed
        /\ f.status = s /\ f.decision = e.decision
    <3>1. PICK g \in Entries : /\ g = Result(c, s) /\ g.samples = e.samples /\ g.frozen /\ g.listed
                               /\ g.status = s /\ g.decision = e.decision
      <4>1. s \in CheckStatuses
        BY DEF CheckStatuses
      <4> QED
        BY <1>2, <4>1
    <3>2. f = g \/ \E r \in BOOLEAN : f = [g EXCEPT !.required = r]
      BY <2>1, <3>1
    <3>3. ASSUME NEW r \in BOOLEAN, f = [g EXCEPT !.required = r]
          PROVE  /\ f \in Entries /\ f.samples = e.samples /\ f.frozen /\ f.listed
                 /\ f.status = s /\ f.decision = e.decision
      BY <3>1, <3>3 DEF Entries
    <3> QED
      BY <3>1, <3>2, <3>3
  <2>3. Ran(f)
    BY <2>2 DEF Ran
  <2> QED
    BY <1>1, <1>4, <2>2, <2>3, Rewritten DEF Sensible
<1> QED
  BY <1>3, <1>4

LEMMA SummariesGrow ==
    ASSUME Sound, NEW c \in suite, NEW f \in Summaries(c)
    PROVE  f \in Entries /\ Sensible(c, f) /\ Grows(c, work[c], f)
<1>1. PICK e \in Entries : e = work[c] /\ Sensible(c, e)
  BY DEF Sound, RowSound, Evidence, work
<1>2. e.samples \in Seq(Samples)
  BY DEF Entries
<1>3. PICK post \in Posts : post = Summarize(work[c].samples)
  BY <1>1, <1>2 DEF Posts
<1>4. PICK k \in Classes, steps \in SUBSET {"REGRESSED"} :
        f = [work[c] EXCEPT !.post = post, !.class = k, !.steps = steps]
  <2>1. \A enough, p : Classify(Kind[c], enough, p) \subseteq Classes
    BY DEF Classify, Classes
  <2>2. PICK k \in Classes, steps \in SUBSET {"REGRESSED"} : f = Summarized(c, k, steps)
    BY <2>1 DEF Summaries
  <2> QED
    BY <1>3, <2>2 DEF Summarized
<1>5. f = [e EXCEPT !.post = post, !.class = k, !.steps = steps]
  BY <1>1, <1>4
<1>6. /\ f \in Entries /\ f.samples = e.samples /\ f.frozen = e.frozen /\ f.listed = e.listed
      /\ f.status = e.status /\ f.decision = e.decision
  BY <1>5 DEF Entries
<1>7. Sensible(c, f) /\ (Ran(e) => Ran(f))
  BY <1>1, <1>6 DEF Sensible, Ran
<1> QED
  BY <1>1, <1>6, <1>7, Rewritten

LEMMA SampleGrows ==
    ASSUME Sound, NEW c \in suite, NEW s \in Samples,
           NEW report, report = [work EXCEPT ![c].samples = Append(@, s)]
    PROVE  Grown(report)
<1>1. work \in [suite -> Entries] /\ work = row.report /\ \A d \in suite : Sensible(d, work[d])
  BY WorkGrown DEF Grown, Evidence
<1>2. PICK e \in Entries : e = work[c] /\ Sensible(c, e)
  BY <1>1
<1>3. PICK t : t = Append(e.samples, s)
  OBVIOUS
<1>4. t \in Seq(Samples) /\ IsPrefix(e.samples, t)
  BY <1>3, PrefixOfLonger DEF Entries
<1>5. PICK f : f = [e EXCEPT !.samples = t]
  OBVIOUS
<1>6. /\ f \in Entries /\ f.samples = t /\ f.frozen = e.frozen /\ f.listed = e.listed
      /\ f.status = e.status /\ f.decision = e.decision
  BY <1>4, <1>5 DEF Entries
<1>7. Sensible(c, f) /\ Grows(c, e, f)
  BY <1>2, <1>4, <1>6 DEF Sensible, Grows, Ran
<1>8. report = [work EXCEPT ![c] = f]
  BY <1>1, <1>2, <1>3, <1>5
<1>9. \A d \in suite : report[d] = IF d = c THEN f ELSE work[d]
  BY <1>1, <1>8
<1>10. Evidence(report)
  BY <1>1, <1>6, <1>7, <1>8, <1>9 DEF Evidence
<1>11. ASSUME NEW d \in suite PROVE Grows(d, row.report[d], report[d])
  BY <1>1, <1>2, <1>7, <1>9, NothingGrows
<1> QED
  BY <1>10, <1>11 DEF Grown

\* What is behind an executor stays behind it when the report grows.
LEMMA BehindGrown ==
    ASSUME Sound, NEW report, Grown(report)
    PROVE  Behind(pc, report)
<1>1. Behind(pc, row.report)
  BY DEF Sound
<1>2. \A c \in suite : (row.report[c].listed => report[c].listed)
        /\ (Kind[c] \in LateKinds /\ Ran(row.report[c]) => Ran(report[c]))
  BY DEF Grown, Grows
<1> QED
  BY <1>1, <1>2 DEF Behind, LateKinds

LEMMA UnchangedKept == ASSUME Sound, row' = row PROVE Kept
BY WorkGrown DEF Kept, Grown, work

LEMMA Proceeds ==
    ASSUME Sound, NEW report, Grown(report), pc \in PhaseSet \ {"ANALYZING"}, Proceed(report),
           UNCHANGED <<job, cancel, expired, stop, suite, faults, pageVars>>,
           \A c \in suite : Kind[c] \notin LateKinds => report[c].listed,
           pc = "RUNNING_ELF" => \A c \in suite : Kind[c] = "ELF" => Ran(report[c]),
           pc = "CHECKING_ALERTS" => \A c \in suite : Kind[c] = "ALERT" => Ran(report[c])
    PROVE  Sound' /\ Kept
<1>1. PICK p \in PhaseSet \ {"CAPTURING_BASELINE"} :
        /\ p = NextPhase /\ (p = "CHECKING_ALERTS" => pc = "RUNNING_ELF")
        /\ p = "ANALYZING" => pc = "CHECKING_ALERTS"
  BY PhaseOrder
<1>2. row' = Row("RUNNING", p, "PENDING", report) /\ pc' = p
  BY <1>1 DEF Proceed, Save
<1>3. RowSound(row') /\ Kept /\ row'.report = report
  BY <1>2, Saves DEF RowStatuses, Gates, Terminal
<1>4. Behind(pc, report)
  BY BehindGrown
<1>5. Behind(p, report)
  BY <1>1, <1>4 DEF Behind
<1>6. RowSound(shown') /\ job # "QUEUED" /\ p \notin {"claimed", "CAPTURING_BASELINE"}
  BY DEF Sound, pageVars, PhaseSet
<1> QED
  BY <1>2, <1>3, <1>5, <1>6, Together DEF Sound, pageVars

LEMMA FinishesCancelled ==
    ASSUME Sound, NEW report, Grown(report), pc \in PhaseSet, FinishCancelled(report),
           UNCHANGED <<job, cancel, expired, stop, suite, faults, pageVars>>
    PROVE  Sound' /\ Kept
<1>1. row' = Row("CANCELLED", "CANCELLED", "BLOCK", report) /\ pc' = "finished"
  BY DEF FinishCancelled, Save
<1>2. RowSound(row') /\ Kept /\ row'.report = report
  BY <1>1, Saves DEF RowStatuses, Gates, Terminal
<1>3. Behind("finished", report)
  BY DEF Behind, PhaseSet
<1>4. RowSound(shown') /\ job # "QUEUED"
  BY DEF Sound, pageVars, PhaseSet
<1> QED
  BY <1>1, <1>2, <1>3, <1>4, Together DEF Sound, pageVars

\* A save in the middle of a phase.
LEMMA SavesInPhase ==
    ASSUME Sound, NEW report, Grown(report), pc \in PhaseSet \ {"CAPTURING_BASELINE"},
           Save("RUNNING", pc, "PENDING", report),
           UNCHANGED <<job, cancel, expired, pc, stop, suite, faults, pageVars>>
    PROVE  Sound' /\ Kept
<1>1. RowSound(row') /\ Kept /\ row'.report = report
  BY Saves DEF Save, RowStatuses, Gates, Terminal
<1>2. Behind(pc, report)
  BY BehindGrown
<1>3. RowSound(shown') /\ job # "QUEUED" /\ pc \notin {"claimed", "CAPTURING_BASELINE"}
  BY DEF Sound, pageVars, PhaseSet
<1> QED
  BY <1>1, <1>2, <1>3, Together DEF Sound, pageVars
-----------------------------------------------------------------------------
(* The steps of the executor.                                              *)

Idle == UNCHANGED pageVars

LEMMA ClaimSound == Sound /\ Claim /\ Idle => Sound' /\ Kept
<1> SUFFICES ASSUME Sound, Claim, Idle PROVE Sound' /\ Kept
  OBVIOUS
<1>1. row' = row /\ job' = "LEASED" /\ pc' = "claimed" /\ suite' = suite /\ faults' = faults
      /\ shown' = shown /\ pending' = pending
  BY DEF Claim, Idle, pageVars
<1>2. row.report = EmptyReport /\ RowSound(row) /\ RowSound(shown)
  BY DEF Claim, Sound
<1>3. Behind("claimed", row.report)
  BY DEF Behind, PhaseSet
<1> QED
  BY <1>1, <1>2, <1>3, Together, UnchangedKept DEF JobStatuses, Sound

LEMMA StartSound == Sound /\ Start /\ Idle => Sound' /\ Kept
<1> SUFFICES ASSUME Sound, Start, Idle PROVE Sound' /\ Kept
  OBVIOUS
<1>1. /\ pc = "claimed" /\ pc' = "CAPTURING_BASELINE" /\ suite' = suite /\ job' = job
      /\ row' = Row("RUNNING", "CAPTURING_BASELINE", "PENDING", EmptyReport)
      /\ faults' = faults /\ shown' = shown /\ pending' = pending
  BY DEF Start, Idle, pageVars, Save, Phases
<1>2. row.report = EmptyReport /\ Grown(EmptyReport)
  BY <1>1, WorkGrown DEF Sound, work
<1>3. RowSound(row') /\ Kept /\ row'.report = EmptyReport
  BY <1>1, <1>2, Saves DEF RowStatuses, Gates, Terminal, PhaseSet
<1>4. Behind("CAPTURING_BASELINE", row'.report)
  BY DEF Behind
<1>5. job # "QUEUED" /\ RowSound(shown')
  BY <1>1 DEF Sound
<1> QED
  BY <1>1, <1>3, <1>4, <1>5, Together DEF Sound, PhaseSet

LEMMA FailSound == Sound /\ FailDeployment /\ Idle => Sound' /\ Kept
<1> SUFFICES ASSUME Sound, FailDeployment, Idle PROVE Sound' /\ Kept
  OBVIOUS
<1>1. /\ pc = "CAPTURING_BASELINE" /\ pc' = "finished" /\ suite' = suite /\ job' = job
      /\ row' = Row("FAILED", "FAILED", "BLOCK", work)
      /\ faults' = faults /\ shown' = shown /\ pending' = pending
  BY DEF FailDeployment, Idle, pageVars, Save
<1>2. RowSound(row') /\ Kept
  BY <1>1, WorkGrown, Saves DEF RowStatuses, Gates, Terminal
<1>3. Behind("finished", row'.report)
  BY DEF Behind, PhaseSet
<1>4. job # "QUEUED" /\ RowSound(shown')
  BY <1>1 DEF Sound
<1> QED
  BY <1>1, <1>2, <1>3, <1>4, Together DEF Sound

LEMMA BaselineSound == Sound /\ CaptureBaseline /\ Idle => Sound' /\ Kept
<1> SUFFICES ASSUME Sound, CaptureBaseline, Idle PROVE Sound' /\ Kept
  OBVIOUS
<1>1. PICK report \in [suite -> UNION {Baselines(c) : c \in suite}] :
        (\A c \in suite : report[c] \in Baselines(c)) /\ Leave(report)
  BY DEF CaptureBaseline
<1>2. pc = "CAPTURING_BASELINE" /\ row.report = [c \in suite |-> Initial(c)]
  BY DEF CaptureBaseline, Sound, EmptyReport
<1>3. ASSUME NEW c \in suite
      PROVE  /\ report[c] \in Entries /\ Sensible(c, report[c]) /\ Grows(c, row.report[c], report[c])
             /\ Kind[c] \notin LateKinds => report[c].listed
  <2>1. /\ report[c] \in Entries /\ Sensible(c, report[c]) /\ report[c].samples = <<>>
        /\ Kind[c] \notin LateKinds => report[c].listed
    BY <1>1, BaselinesSensible
  <2>2. row.report[c] = Initial(c)
    BY <1>2
  <2>3. row.report[c].samples = <<>> /\ ~row.report[c].frozen /\ ~row.report[c].listed
    BY <2>2, InitialSensible
  <2>4. Grows(c, row.report[c], report[c])
    BY <2>1, <2>3, NoSamples DEF Grows, Ran
  <2> QED
    BY <2>1, <2>4
<1>4. Grown(report)
  BY <1>1, <1>3 DEF Grown, Evidence
<1>5. Proceed(report) \/ FinishCancelled(report)
  BY <1>1 DEF Leave
<1>6. UNCHANGED <<job, cancel, expired, stop, suite, faults, pageVars>>
  BY <1>1 DEF Leave, Idle
<1>7. pc \in PhaseSet \ {"ANALYZING"}
  BY <1>2 DEF PhaseSet
<1> QED
  BY <1>2, <1>3, <1>4, <1>5, <1>6, <1>7, Proceeds, FinishesCancelled

LEMMA SampleSound == \A c \in suite : Sound /\ TakeSample(c) /\ Idle => Sound' /\ Kept
<1> SUFFICES ASSUME NEW c \in suite, Sound, TakeSample(c), Idle PROVE Sound' /\ Kept
  OBVIOUS
<1>1. PICK s \in Samples :
        \/ FinishCancelled([work EXCEPT ![c].samples = Append(@, s)])
        \/ /\ Save("RUNNING", pc, "PENDING", [work EXCEPT ![c].samples = Append(@, s)])
           /\ UNCHANGED pc
  BY DEF TakeSample, Interrupted
<1>2. PICK report : report = [work EXCEPT ![c].samples = Append(@, s)]
  OBVIOUS
<1>3. Grown(report)
  BY <1>2, SampleGrows
<1>4. FinishCancelled(report) \/ (Save("RUNNING", pc, "PENDING", report) /\ UNCHANGED pc)
  BY <1>1, <1>2
<1>5. pc \in PhaseSet \ {"CAPTURING_BASELINE"}
  <2>1. Kind[c] \in {"MONITOR", "BROWSER_MONITOR"}
    BY DEF TakeSample, Sampled, OfKind
  <2> QED
    BY <2>1 DEF TakeSample, PhaseOf, PhaseSet
<1>6. UNCHANGED <<job, cancel, expired, stop, suite, faults, pageVars>>
  BY DEF TakeSample, Idle
<1> QED
  BY <1>3, <1>4, <1>5, <1>6, FinishesCancelled, SavesInPhase

LEMMA EndSamplingSound == Sound /\ EndSampling /\ Idle => Sound' /\ Kept
<1> SUFFICES ASSUME Sound, EndSampling, Idle PROVE Sound' /\ Kept
  OBVIOUS
<1>1. PICK mine \in SUBSET suite : mine = {c \in Sampled : PhaseOf[Kind[c]] = pc}
  BY DEF Sampled, OfKind
<1>2. \E report : Leave(report) /\ Grown(report)
  <2>1. CASE Interrupt
    BY <2>1, WorkGrown DEF EndSampling
  <2>2. CASE ~Interrupt
    <3>1. PICK s \in [mine -> UNION {Summaries(c) : c \in mine}] :
            /\ \A c \in mine : s[c] \in Summaries(c)
            /\ Leave([c \in suite |-> IF c \in mine THEN s[c] ELSE work[c]])
      BY <1>1, <2>2 DEF EndSampling
    <3>2. PICK report : report = [c \in suite |-> IF c \in mine THEN s[c] ELSE work[c]]
      OBVIOUS
    <3>3. ASSUME NEW c \in suite
          PROVE  report[c] \in Entries /\ Sensible(c, report[c]) /\ Grows(c, row.report[c], report[c])
      <4>1. Evidence(work) /\ work = row.report /\ Grows(c, row.report[c], work[c])
        BY WorkGrown DEF Grown
      <4>2. CASE c \in mine
        BY <3>1, <3>2, <4>1, <4>2, SummariesGrow
      <4>3. CASE c \notin mine
        BY <3>2, <4>1, <4>3 DEF Evidence
      <4> QED
        BY <4>2, <4>3
    <3>4. Grown(report)
      BY <3>2, <3>3 DEF Grown, Evidence
    <3> QED
      BY <3>1, <3>2, <3>4
  <2> QED
    BY <2>1, <2>2
<1>3. PICK report : Leave(report) /\ Grown(report)
  BY <1>2
<1>4. Proceed(report) \/ FinishCancelled(report)
  BY <1>3 DEF Leave
<1>5. UNCHANGED <<job, cancel, expired, stop, suite, faults, pageVars>>
  BY <1>3 DEF Leave, Idle
<1>6. pc \in PhaseSet \ {"ANALYZING", "CAPTURING_BASELINE", "RUNNING_ELF", "CHECKING_ALERTS"}
  BY DEF EndSampling, PhaseSet
<1>7. \A c \in suite : Kind[c] \notin LateKinds => report[c].listed
  BY <1>3, <1>6, BehindGrown DEF Behind
<1> QED
  BY <1>3, <1>4, <1>5, <1>6, <1>7, Proceeds, FinishesCancelled

LEMMA CheckSound == \A c \in suite : Sound /\ RunCheck(c) /\ Idle => Sound' /\ Kept
<1> SUFFICES ASSUME NEW c \in suite, Sound, RunCheck(c), Idle PROVE Sound' /\ Kept
  OBVIOUS
<1>1. PICK result \in Results(c) :
        \/ FinishCancelled([work EXCEPT ![c] = result])
        \/ /\ Save("RUNNING", pc, "PENDING", [work EXCEPT ![c] = result])
           /\ UNCHANGED pc
  BY DEF RunCheck
<1>2. PICK report : report = [work EXCEPT ![c] = result]
  OBVIOUS
<1>3. Grown(report)
  <2>1. Evidence(work) /\ work = row.report
    BY WorkGrown DEF Grown
  <2>2. result \in Entries /\ Sensible(c, result) /\ Grows(c, work[c], result)
    BY ResultsGrow
  <2>3. \A d \in suite : report[d] = IF d = c THEN result ELSE work[d]
    BY <1>2, <2>1 DEF Evidence
  <2>4. Evidence(report)
    BY <1>2, <2>1, <2>2, <2>3 DEF Evidence
  <2>5. ASSUME NEW d \in suite PROVE Grows(d, row.report[d], report[d])
    BY <2>1, <2>2, <2>3, NothingGrows DEF Evidence
  <2> QED
    BY <2>4, <2>5 DEF Grown
<1>4. FinishCancelled(report) \/ (Save("RUNNING", pc, "PENDING", report) /\ UNCHANGED pc)
  BY <1>1, <1>2
<1>5. pc \in PhaseSet \ {"CAPTURING_BASELINE"}
  <2>1. Kind[c] \in CheckKinds
    BY DeploymentAssumption DEF Sound, CheckKinds
  <2> QED
    BY <2>1 DEF RunCheck, PhaseOf, PhaseSet, CheckKinds
<1>6. UNCHANGED <<job, cancel, expired, stop, suite, faults, pageVars>>
  BY DEF RunCheck, Idle
<1> QED
  BY <1>3, <1>4, <1>5, <1>6, FinishesCancelled, SavesInPhase

LEMMA EndChecksSound == Sound /\ EndChecks /\ Idle => Sound' /\ Kept
<1> SUFFICES ASSUME Sound, EndChecks, Idle PROVE Sound' /\ Kept
  OBVIOUS
<1>1. Grown(work) /\ work = row.report /\ Evidence(work)
  BY WorkGrown DEF Grown
<1>2. pc \in {"RUNNING_DYNATRACE", "RUNNING_ELF", "CHECKING_ALERTS"}
  BY DEF EndChecks
<1>3. \A c \in suite : Kind[c] \notin LateKinds => work[c].listed
  BY <1>1, <1>2 DEF Sound, Behind, PhaseSet
<1>4. ASSUME NEW c \in suite, Kind[c] \in LateKinds, PhaseOf[Kind[c]] = pc PROVE Ran(work[c])
  <2>1. c \notin Sampled
    BY <1>4 DEF Sampled, OfKind, LateKinds
  <2>2. work[c].frozen
    BY <1>4, <2>1 DEF EndChecks
  <2> QED
    BY <1>1, <1>4, <2>2 DEF Evidence, Sensible
<1>5. pc = "RUNNING_ELF" => \A c \in suite : Kind[c] = "ELF" => Ran(work[c])
  BY <1>4 DEF PhaseOf, LateKinds
<1>6. pc = "CHECKING_ALERTS" => \A c \in suite : Kind[c] = "ALERT" => Ran(work[c])
  BY <1>4 DEF PhaseOf, LateKinds
<1>7. Proceed(work) /\ UNCHANGED <<job, cancel, expired, stop, suite, faults, pageVars>>
  BY DEF EndChecks, Idle
<1> QED
  BY <1>1, <1>2, <1>3, <1>5, <1>6, <1>7, Proceeds DEF PhaseSet

LEMMA EndWaitSound == Sound /\ EndWait /\ Idle => Sound' /\ Kept
<1> SUFFICES ASSUME Sound, EndWait, Idle PROVE Sound' /\ Kept
  OBVIOUS
<1>1. Grown(work) /\ work = row.report /\ pc = "WAITING_FOR_STABILIZATION"
  BY WorkGrown DEF EndWait
<1>2. \A c \in suite : Kind[c] \notin LateKinds => work[c].listed
  BY <1>1 DEF Sound, Behind, PhaseSet
<1>3. Proceed(work) \/ FinishCancelled(work)
  BY DEF EndWait
<1>4. UNCHANGED <<job, cancel, expired, stop, suite, faults, pageVars>>
  BY DEF EndWait, Idle
<1> QED
  BY <1>1, <1>2, <1>3, <1>4, Proceeds, FinishesCancelled DEF PhaseSet

LEMMA DecideSound == Sound /\ Decide /\ Idle => Sound' /\ Kept
<1> SUFFICES ASSUME Sound, Decide, Idle PROVE Sound' /\ Kept
  OBVIOUS
<1>1. /\ pc = "ANALYZING" /\ pc' = "finished" /\ suite' = suite /\ job' = job
      /\ row' = Row("COMPLETED", "COMPLETED", Decision(work), work)
      /\ faults' = faults /\ shown' = shown /\ pending' = pending
  BY DEF Decide, Idle, pageVars, Save
<1>2. Grown(work) /\ work = row.report
  BY WorkGrown
<1>3. \A c \in suite : Complete(c, work[c])
  BY <1>1, <1>2 DEF Sound, Behind, Complete, LateKinds, PhaseSet
<1>4. Decision(work) \in Gates \ {"PENDING"}
  BY DEF Decision, Gates
<1>5. RowSound(row') /\ Kept
  BY <1>1, <1>2, <1>3, <1>4, Saves DEF RowStatuses, Terminal
<1>6. Behind("finished", row'.report)
  BY DEF Behind, PhaseSet
<1>7. job # "QUEUED" /\ RowSound(shown')
  BY <1>1 DEF Sound
<1> QED
  BY <1>1, <1>5, <1>6, <1>7, Together DEF Sound

LEMMA CompleteSound == Sound /\ CompleteJob /\ Idle => Sound' /\ Kept
<1> SUFFICES ASSUME Sound, CompleteJob, Idle PROVE Sound' /\ Kept
  OBVIOUS
<1>1. /\ pc = "finished" /\ pc' = "none" /\ row' = row /\ suite' = suite
      /\ faults' = faults /\ shown' = shown /\ pending' = pending
      /\ job' \in JobStatuses /\ (job' = "QUEUED" => job = "QUEUED")
  BY DEF CompleteJob, Idle, pageVars, JobStatuses, Sound
<1>2. RowSound(row) /\ RowSound(shown) /\ job # "QUEUED"
  BY <1>1 DEF Sound
<1>3. Behind("none", row'.report)
  BY DEF Behind, PhaseSet
<1> QED
  BY <1>1, <1>2, <1>3, Together, UnchangedKept DEF Sound

LEMMA ExecuteSound == Sound /\ Execute /\ Idle => Sound' /\ Kept
BY StartSound, FailSound, BaselineSound, SampleSound, EndSamplingSound, CheckSound, EndChecksSound,
   EndWaitSound, DecideSound, CompleteSound DEF Execute
-----------------------------------------------------------------------------
(* The steps of the others.                                                *)

\* A step that leaves the row, and where the executor is with it, alone.
LEMMA ElsewhereSound ==
    ASSUME Sound, row' = row, suite' = suite, job' = job, pc' = pc \/ pc' = "none",
           shown' \in {shown, row}, pending' \in {"", "cancel"}, faults' \in 0..MaxFaults
    PROVE  Sound' /\ Kept
<1>1. RowSound(row') /\ RowSound(shown') /\ Kept
  BY UnchangedKept DEF Sound
<1>2. Behind(pc', row'.report)
  <2>1. Behind("none", row'.report)
    BY DEF Behind, PhaseSet
  <2> QED
    BY <2>1 DEF Sound
<1> QED
  BY <1>1, <1>2, Together DEF Sound

LEMMA WatchSound == Sound /\ (Watch \/ Fault \/ Expire) /\ Idle => Sound' /\ Kept
<1> SUFFICES ASSUME Sound, Watch \/ Fault \/ Expire, Idle PROVE Sound' /\ Kept
  OBVIOUS
<1>1. row' = row /\ suite' = suite /\ job' = job /\ (pc' = pc \/ pc' = "none")
  BY DEF Watch, Fault, Expire, Crash, Shutdown, Stall
<1>2. shown' = shown /\ pending' = pending
  BY DEF Idle, pageVars
<1>3. faults' \in 0..MaxFaults
  <2>1. faults \in 0..MaxFaults /\ MaxFaults \in Nat
    BY DeploymentAssumption DEF Sound
  <2>2. faults' = faults \/ (faults < MaxFaults /\ faults' = faults + 1)
    BY DEF Watch, Fault, Expire
  <2> QED
    BY <2>1, <2>2
<1> QED
  BY <1>1, <1>2, <1>3, ElsewhereSound DEF Sound

\* The row is written by a cancellation or by the reaper.
LEMMA EndedSound ==
    ASSUME Sound, suite' = suite, pc' = pc, RowSound(row'), row'.report = row.report,
           job' \in JobStatuses, job' = "QUEUED" => job = "QUEUED",
           shown' = shown, pending' \in {"", "cancel"}, faults' = faults
    PROVE  Sound'
BY Together DEF Sound

LEMMA ReapSound == Sound /\ Reap /\ Idle => Sound' /\ Kept
<1> SUFFICES ASSUME Sound, Reap, Idle PROVE Sound' /\ Kept
  OBVIOUS
<1>1. /\ suite' = suite /\ pc' = pc /\ faults' = faults /\ job' = "FAILED"
      /\ shown' = shown /\ pending' = pending
  BY DEF Reap, Idle, pageVars
<1>2. RowSound(row') /\ Kept /\ row'.report = row.report
  <2>1. CASE row.status \in Terminal
    BY <2>1, UnchangedKept DEF Reap, Sound
  <2>2. CASE row.status \notin Terminal
    <3>1. row' = [row EXCEPT !.status = "FAILED", !.phase = "FAILED", !.gate = "BLOCK"]
      BY <2>2 DEF Reap
    <3> QED
      BY <3>1, StatusWritten DEF Gates, Terminal
  <2> QED
    BY <2>1, <2>2
<1> QED
  BY <1>1, <1>2, EndedSound DEF JobStatuses, Sound

LEMMA CancelSound ==
    ASSUME Sound, CancelDeployment, shown' = shown, pending' \in {"", "cancel"}
    PROVE  Sound' /\ Kept
<1>1. suite' = suite /\ pc' = pc /\ faults' = faults /\ job' \in JobStatuses
      /\ (job' = "QUEUED" => job = "QUEUED")
  BY DEF CancelDeployment, JobStatuses, Sound
<1>2. row.status \notin Terminal /\ row \in RowSet /\ row.gate = "PENDING"
  BY DEF CancelDeployment, Sound, RowSound
<1>3. RowSound(row') /\ Kept /\ row'.report = row.report
  <2>1. CASE row.status = "QUEUED"
    <3>1. row' = [row EXCEPT !.status = "CANCELLED", !.phase = "CANCELLED", !.gate = "BLOCK"]
      BY <2>1 DEF CancelDeployment
    <3> QED
      BY <3>1, StatusWritten DEF Gates, Terminal
  <2>2. CASE row.status # "QUEUED"
    <3>1. row' = [row EXCEPT !.status = "CANCELLING", !.phase = "CANCELLING", !.gate = "PENDING"]
      BY <1>2, <2>2 DEF CancelDeployment, RowSet
    <3> QED
      BY <3>1, StatusWritten DEF Gates, Terminal
  <2> QED
    BY <2>1, <2>2
<1> QED
  BY <1>1, <1>3, EndedSound

LEMMA PageSound == Sound /\ Page => Sound' /\ Kept
<1> SUFFICES ASSUME Sound, Page PROVE Sound' /\ Kept
  OBVIOUS
<1>1. CASE Poll \/ Cancel
  <2>1. row' = row /\ suite' = suite /\ job' = job /\ pc' = pc /\ faults' = faults
        /\ shown' \in {shown, row} /\ pending' \in {pending, "cancel"}
    BY <1>1 DEF Poll, Cancel, deploymentVars
  <2> QED
    BY <2>1, ElsewhereSound DEF Sound
<1>2. CASE CancelAnswer
  <2>1. shown' = shown /\ pending' = ""
    BY <1>2 DEF CancelAnswer
  <2>2. CASE row.status \in Terminal
    <3>1. row' = row /\ suite' = suite /\ job' = job /\ pc' = pc /\ faults' = faults
      BY <1>2, <2>2 DEF CancelAnswer, deploymentVars
    <3> QED
      BY <2>1, <3>1, ElsewhereSound DEF Sound
  <2>3. CASE row.status \notin Terminal
    BY <1>2, <2>1, <2>3, CancelSound DEF CancelAnswer
  <2> QED
    BY <2>2, <2>3
<1> QED
  BY <1>1, <1>2 DEF Page
-----------------------------------------------------------------------------
LEMMA SoundInit == Init => Sound
<1> SUFFICES ASSUME Init PROVE Sound
  OBVIOUS
<1>1. /\ suite \in Suites /\ row = Row("QUEUED", "QUEUED", "PENDING", EmptyReport) /\ job = "QUEUED"
      /\ pc = "none" /\ faults = 0 /\ shown = row /\ pending = ""
  BY DEF Init, DeploymentInit
<1>2. EmptyReport \in [suite -> Entries] /\ \A c \in suite : Sensible(c, EmptyReport[c])
  BY InitialSensible DEF EmptyReport
<1>3. row.report = EmptyReport /\ row.status = "QUEUED" /\ row.gate = "PENDING"
  BY <1>1 DEF Row
<1>4. row \in RowSet
  BY <1>1, <1>2, RowTyped DEF RowStatuses, Gates
<1>5. RowSound(row)
  BY <1>2, <1>3, <1>4 DEF RowSound, Evidence, Judged, Terminal
<1>6. Behind(pc, row.report)
  BY <1>1 DEF Behind, PhaseSet
<1>7. RowSound(shown)
  BY <1>1, <1>5
<1>8. faults \in 0..MaxFaults
  <2>1. MaxFaults \in Nat
    BY DeploymentAssumption
  <2>2. faults = 0
    BY <1>1
  <2> QED
    BY <2>1, <2>2
<1>9. job \in JobStatuses /\ pc \in PhaseSet \cup {"none", "claimed", "finished"}
      /\ (job = "QUEUED" => pc = "none") /\ pending \in {"", "cancel"} /\ suite \in Suites
  BY <1>1 DEF JobStatuses
<1> QED
  BY <1>3, <1>5, <1>6, <1>7, <1>8, <1>9 DEF Sound

LEMMA SoundStep == Sound /\ [Next]_vars => Sound' /\ Kept
<1> SUFFICES ASSUME Sound, [Next]_vars PROVE Sound' /\ Kept
  OBVIOUS
<1>1. CASE Worker
  BY <1>1, ClaimSound, ExecuteSound DEF Worker, Idle
<1>2. CASE Reaper
  BY <1>2, ReapSound, WatchSound DEF Reaper, Idle
<1>3. CASE Others
  BY <1>3, WatchSound DEF Others, Idle
<1>4. CASE Page
  BY <1>4, PageSound
<1>5. CASE UNCHANGED vars
  BY <1>5, ElsewhereSound DEF vars, deploymentVars, pageVars, Sound
<1> QED
  BY <1>1, <1>2, <1>3, <1>4, <1>5 DEF Next

\* Types, and a validation has a decision exactly when it has ended.
THEOREM TypeCorrectness == Spec => []TypeOK
<1>1. Sound => TypeOK
  <2> SUFFICES ASSUME Sound PROVE TypeOK
    OBVIOUS
  <2>1. suite \subseteq Checks /\ row \in RowSet /\ shown \in RowSet
    BY DeploymentAssumption DEF Sound, RowSound
  <2>2. row.status \in Terminal <=> row.gate # "PENDING"
    BY DEF Sound, RowSound
  <2> QED
    BY <2>1, <2>2 DEF TypeOK, Sound, RowSet, RowStatuses, Gates, JobStatuses
<1> QED
  BY <1>1, SoundInit, SoundStep, PTL DEF Spec

\* Evidence that was saved is never lost again: whoever ends the validation,
\* and even an executor that goes on after its job was taken from it, writes a
\* report that has grown from the one in the row.
THEOREM EvidenceStays == Spec => EvidenceKept
<1>1. Sound /\ [Next]_vars =>
        [\A c \in suite :
            /\ IsPrefix(row.report[c].samples, row'.report[c].samples)
            /\ row.report[c].frozen => row'.report[c].frozen]_vars
  BY SoundStep DEF Kept, Grows
<1> QED
  BY <1>1, SoundInit, SoundStep, PTL DEF Spec, EvidenceKept

\* What the page shows of a blocked deployment explains the decision, whatever
\* the page fetched and when.
THEOREM BlockIsExplained == Spec => []BlockExplained
<1>1. Sound => BlockExplained
  <2> SUFFICES ASSUME Sound, shown.status = "COMPLETED", shown.gate = "BLOCK"
               PROVE  /\ Findings(shown).shown /\ Findings(shown).reasons # {}
                      /\ \A c \in shown.reasons :
                            /\ EvidenceRow(c, shown.report[c]).open
                            /\ \A d \in Section(Kind[c], shown).first : ItemFailed(d, shown.report[d])
                      /\ Summary(shown).failed >= Cardinality(shown.reasons)
    BY DEF BlockExplained
  <2> DEFINE report == shown.report
             failed == {c \in Items(shown) : ItemFailed(c, report[c])}
  <2>1. /\ Decision(report) = "BLOCK" /\ shown.reasons = Reasons(report) /\ Evidence(report)
        /\ \A c \in suite : Complete(c, report[c])
    BY DEF Sound, RowSound, Judged
  <2>2. shown.reasons # {} /\ shown.reasons \subseteq suite
    BY <2>1 DEF Decision, Reasons, Evidence
  <2>3. ASSUME NEW c \in shown.reasons
        PROVE  /\ ItemFailed(c, report[c]) /\ c \in Items(shown)
               /\ report[c].required \/ c \notin Sampled
               /\ EvidenceRow(c, report[c]).open
    <3>1. c \in suite /\ Blocks(c, report[c]) /\ Sensible(c, report[c]) /\ Complete(c, report[c])
      BY <2>1, <2>2 DEF Reasons, Evidence
    <3>2. PICK e \in Entries : e = report[c]
      BY <2>1, <3>1 DEF Evidence
    <3>3. Kind[c] \in CheckKinds /\ (c \in Sampled <=> Kind[c] \in {"MONITOR", "BROWSER_MONITOR"})
      BY <3>1, DeploymentAssumption DEF Sound, CheckKinds, Sampled, OfKind
    <3>4. e.listed /\ Failing(c, e)
      BY <3>1, <3>2 DEF Complete, Ran, Blocks
    <3>5. CASE c \in Sampled
      <4>1. MonitorFailed(e) /\ e.required
        BY <3>1, <3>2, <3>3, <3>4, <3>5 DEF Failing, Blocks, MonitorFailed
      <4>2. EvidenceRow(c, e).open
        BY <3>3, <3>5, <4>1 DEF EvidenceRow, MonitorResult, BrowserMonitorResult
      <4> QED
        BY <3>1, <3>2, <3>4, <3>5, <4>1, <4>2 DEF ItemFailed, Items
    <3>6. CASE c \notin Sampled
      <4>1. e.status \in {"ERROR", "FAIL", "NO_DATA", "FAILED"}
        BY <3>1, <3>2, <3>3, <3>4, <3>6
           DEF Failing, Blocks, Sensible, Complete, Ran, LateKinds, CheckKinds
      <4>2. CheckFailed(e.status)
        BY <4>1 DEF CheckFailed, Good
      <4>3. EvidenceRow(c, e).open
        BY <3>3, <3>6, <4>2 DEF EvidenceRow, DynatraceRow, CheckRow, CheckKinds
      <4> QED
        BY <3>1, <3>2, <3>4, <3>6, <4>2, <4>3 DEF ItemFailed, Items
    <3> QED
      BY <3>5, <3>6
  <2>4. ASSUME NEW c \in shown.reasons, NEW d \in Section(Kind[c], shown).first
        PROVE  ItemFailed(d, report[d])
    <3> DEFINE Place(x) == Rank(ItemFailed(x, report[x]), ItemWarned(x, report[x]), report[x].required)
               rows == {x \in Items(shown) : Kind[x] = Kind[c]}
    <3>1. Section(Kind[c], shown).first = {x \in rows : \A y \in rows : Place(x) <= Place(y)}
      BY DEF Section
    <3>2. c \in rows
      BY <2>3
    <3>3. Place(d) <= Place(c)
      BY <3>1, <3>2
    <3>4. Place(c) \in {0, 1}
      BY <2>3 DEF Rank
    <3>5. ItemFailed(d, report[d]) \/ Place(d) \in {2, 3}
      BY DEF Rank
    <3> QED
      BY <3>3, <3>4, <3>5
  <2>5. Summary(shown).failed >= Cardinality(shown.reasons)
    <3>1. Summary(shown).failed = Cardinality(failed)
      BY DEF Summary
    <3>2. failed \subseteq suite /\ shown.reasons \subseteq failed
      BY <2>3 DEF Items
    <3>3. IsFiniteSet(suite)
      BY DeploymentAssumption DEF Sound
    <3>4. IsFiniteSet(failed)
      BY <3>2, <3>3, FS_Subset
    <3>5. Cardinality(failed) \in Nat /\ Cardinality(shown.reasons) \in Nat
          /\ Cardinality(shown.reasons) <= Cardinality(failed)
      BY <3>2, <3>4, FS_Subset, FS_CardinalityType
    <3> QED
      BY <3>1, <3>5
  <2>6. Findings(shown).shown /\ Findings(shown).reasons # {}
    BY <2>2 DEF Findings
  <2> QED
    BY <2>3, <2>4, <2>5, <2>6
<1> QED
  BY <1>1, SoundInit, SoundStep, PTL DEF Spec
-----------------------------------------------------------------------------
(* The job of a validation implements LeasedQueue.                         *)

\* A run is concluded by the executor that finished with it, and by nobody else; a job
\* that was cancelled has no executor.
Concluded ==
    /\ Sound
    /\ job = "QUEUED" => ~row.recommended
    /\ job = "CANCELLED" => pc = "none"
    /\ pc = "finished" => row.recommended

LEMMA RecommendedRow ==
    ASSUME NEW status, NEW phase, NEW gate, NEW report, Save(status, phase, gate, report)
    PROVE  row'.recommended = (status \in Terminal)
BY DEF Save, Row

\* The executor moves the job when it is done with it, and is done with it only when the
\* run has been concluded.
LEMMA ExecutorConcludes ==
    ASSUME Sound, Execute
    PROVE  /\ pc # "none"
           /\ CompleteJob \/ (job' = job /\ (pc' = "finished" => row'.recommended))
<1> DEFINE Goal == pc # "none" /\ job' = job /\ (pc' = "finished" => row'.recommended)
<1>1. CASE CompleteJob
  BY <1>1 DEF CompleteJob
<1>2. ASSUME NEW report, pc \in PhaseSet \ {"ANALYZING"}, Leave(report) \/ Proceed(report) \/ FinishCancelled(report)
      PROVE  pc' = "finished" => row'.recommended
  <2>1. CASE Proceed(report)
    BY <1>2, <2>1, PhaseOrder DEF Proceed, PhaseSet
  <2>2. CASE FinishCancelled(report)
    BY <2>2, RecommendedRow DEF FinishCancelled, Terminal
  <2> QED
    BY <1>2, <2>1, <2>2 DEF Leave
<1>3. CASE Start
  BY <1>3 DEF Start, Phases
<1>4. CASE FailDeployment
  BY <1>4, RecommendedRow DEF FailDeployment, Terminal
<1>5. CASE CaptureBaseline
  <2>1. pc = "CAPTURING_BASELINE" /\ \E report : Leave(report)
    BY <1>5 DEF CaptureBaseline
  <2> QED
    BY <1>2, <2>1 DEF Leave, PhaseSet
<1>6. CASE EndSampling
  <2>1. pc \in {"SAMPLING_MONITORS", "SAMPLING_BROWSER_MONITORS"} /\ \E report : Leave(report)
    BY <1>6 DEF EndSampling
  <2> QED
    BY <1>2, <2>1 DEF Leave, PhaseSet
<1>7. CASE EndChecks
  BY <1>2, <1>7 DEF EndChecks, PhaseSet
<1>8. CASE EndWait
  BY <1>2, <1>8 DEF EndWait, PhaseSet
<1>9. CASE Decide
  BY <1>9, RecommendedRow DEF Decide, Terminal
<1>10. ASSUME NEW c \in suite, TakeSample(c) PROVE Goal
  <2>1. pc = PhaseOf[Kind[c]] /\ pc \in PhaseSet \ {"ANALYZING"} /\ job' = job
    BY <1>10, DeploymentAssumption DEF TakeSample, PhaseOf, PhaseSet, Sound
  <2>2. (\E report : FinishCancelled(report)) \/ pc' = pc
    BY <1>10 DEF TakeSample
  <2> QED
    BY <1>2, <2>1, <2>2 DEF PhaseSet
<1>11. ASSUME NEW c \in suite, RunCheck(c) PROVE Goal
  <2>1. pc = PhaseOf[Kind[c]] /\ pc \in PhaseSet \ {"ANALYZING"} /\ job' = job
    BY <1>11, DeploymentAssumption DEF RunCheck, PhaseOf, PhaseSet, Sound
  <2>2. (\E report : FinishCancelled(report)) \/ pc' = pc
    BY <1>11 DEF RunCheck
  <2> QED
    BY <1>2, <2>1, <2>2 DEF PhaseSet
<1> QED
  BY <1>1, <1>3, <1>4, <1>5, <1>6, <1>7, <1>8, <1>9, <1>10, <1>11 DEF Execute

\* A step of the job alone is a move of the queue.
LEMMA JobMoves ==
    ASSUME NEW from, NEW to, job = from, job' = to
    PROVE  Queue!Move("validation", from, to)
BY DEF Queue!Move

JobStep ==
    \/ Queue!Begin("validation") \/ Queue!Finish("validation") \/ Queue!Withdraw("validation")
    \/ UNCHANGED <<job, WasStarted>>

LEMMA JobClaimed == ASSUME Concluded, Claim, Sound' PROVE Concluded' /\ JobStep
<1>1. job = "QUEUED" /\ job' = "LEASED" /\ pc' = "claimed"
  BY DEF Claim
<1>2. ~WasStarted /\ WasStarted'
  BY <1>1 DEF WasStarted
<1>3. Queue!Begin("validation")
  BY <1>1, <1>2, JobMoves DEF Queue!Begin, Never
<1> QED
  BY <1>1, <1>3 DEF Concluded, JobStep

LEMMA JobExecuted == ASSUME Concluded, Execute, Sound' PROVE Concluded' /\ JobStep
<1>1. pc # "none" /\ job \notin {"QUEUED", "CANCELLED"}
  BY ExecutorConcludes DEF Concluded, Sound
<1>2. CASE CompleteJob
  <2>1. pc = "finished" /\ pc' = "none" /\ row' = row /\ row.recommended
    BY <1>2 DEF CompleteJob, Concluded
  <2>2. job' = job \/ (job = "LEASED" /\ job' \in {"CANCELLED", "SUCCEEDED"})
    BY <1>2 DEF CompleteJob
  <2>3. CASE job' = job
    BY <1>1, <2>1, <2>3 DEF Concluded, JobStep, WasStarted
  <2>4. CASE job = "LEASED" /\ job' \in {"CANCELLED", "SUCCEEDED"}
    <3>1. WasStarted /\ WasStarted'
      BY <2>1, <2>4 DEF WasStarted
    <3>2. Queue!Finish("validation")
      BY <2>4, <3>1, JobMoves DEF Queue!Finish, Queue!Outcomes
    <3> QED
      BY <2>1, <2>4, <3>2 DEF Concluded, JobStep
  <2> QED
    BY <2>2, <2>3, <2>4
<1>3. CASE job' = job /\ (pc' = "finished" => row'.recommended)
  <2>1. WasStarted /\ WasStarted'
    BY <1>1, <1>3 DEF WasStarted
  <2> QED
    BY <1>1, <1>3, <2>1 DEF Concluded, JobStep
<1> QED
  BY <1>2, <1>3, ExecutorConcludes DEF Concluded

\* Nobody else concludes a run: a cancellation and the reaper change its status.
LEMMA RowRewritten ==
    ASSUME Sound, NEW status, NEW phase, NEW gate,
           row' = [row EXCEPT !.status = status, !.phase = phase, !.gate = gate]
    PROVE  row'.recommended = row.recommended
BY DEF Sound, RowSound, RowSet

LEMMA JobReaped == ASSUME Concluded, Reap, Sound' PROVE Concluded' /\ JobStep
<1>1. job = "LEASED" /\ job' = "FAILED" /\ pc' = pc
  BY DEF Reap
<1>2. row'.recommended = row.recommended
  BY RowRewritten DEF Reap, Concluded
<1>3. WasStarted /\ WasStarted'
  BY <1>1 DEF WasStarted
<1>4. Queue!Finish("validation")
  BY <1>1, <1>3, JobMoves DEF Queue!Finish, Queue!Outcomes
<1> QED
  BY <1>1, <1>2, <1>4 DEF Concluded, JobStep

LEMMA JobCancelled == ASSUME Concluded, CancelDeployment, Sound' PROVE Concluded' /\ JobStep
<1>1. pc' = pc /\ job' = IF job = "QUEUED" THEN "CANCELLED" ELSE job
  BY DEF CancelDeployment
<1>2. row'.recommended = row.recommended
  BY DEF CancelDeployment, Concluded, Sound, RowSound, RowSet
<1>3. CASE job = "QUEUED"
  <2>1. ~WasStarted /\ ~WasStarted' /\ pc = "none"
    BY <1>1, <1>2, <1>3 DEF WasStarted, Concluded, Sound
  <2>2. Queue!Withdraw("validation")
    BY <1>1, <1>3, <2>1, JobMoves DEF Queue!Withdraw
  <2> QED
    BY <1>1, <1>2, <1>3, <2>1, <2>2 DEF Concluded, JobStep
<1>4. CASE job # "QUEUED"
  BY <1>1, <1>2, <1>4 DEF Concluded, JobStep, WasStarted
<1> QED
  BY <1>3, <1>4

LEMMA JobElsewhere ==
    ASSUME Concluded, row' = row, job' = job, pc' = pc \/ pc' = "none", Sound'
    PROVE  Concluded' /\ JobStep
BY DEF Concluded, JobStep, WasStarted

LEMMA JobStepped == Concluded /\ [Next]_vars => Concluded' /\ JobStep
<1> SUFFICES ASSUME Concluded, [Next]_vars PROVE Concluded' /\ JobStep
  OBVIOUS
<1>0. Sound'
  BY SoundStep DEF Concluded
<1>1. CASE Worker
  BY <1>0, <1>1, JobClaimed, JobExecuted DEF Worker
<1>2. CASE Reaper
  BY <1>0, <1>2, JobReaped, JobElsewhere DEF Reaper, Expire
<1>3. CASE Others
  BY <1>0, <1>3, JobElsewhere DEF Others, Watch, Fault, Crash, Shutdown, Stall
<1>4. CASE Page
  <2>1. CASE CancelDeployment
    BY <1>0, <2>1, JobCancelled
  <2>2. CASE UNCHANGED deploymentVars
    BY <1>0, <2>2, JobElsewhere DEF deploymentVars
  <2> QED
    BY <1>4, <2>1, <2>2 DEF Page, Poll, Cancel, CancelAnswer
<1>5. CASE UNCHANGED vars
  BY <1>0, <1>5, JobElsewhere DEF vars, deploymentVars
<1> QED
  BY <1>1, <1>2, <1>3, <1>4, <1>5 DEF Next

\* The job of a validation is started once at most and comes to one outcome, whoever
\* cancels it, however often its executor dies, is shut down or stalls, and whatever an
\* executor writes whose lease was taken from it (suites/queue.go): it implements the
\* queue that the executions of API monitors implement.
THEOREM ValidationImplementsQueue == Spec => JobIsLeasedOnce
<1>1. Init => Concluded /\ Queue!Init
  <2> SUFFICES ASSUME Init PROVE Concluded /\ Queue!Init
    OBVIOUS
  <2>1. Sound /\ job = "QUEUED" /\ pc = "none"
    BY SoundInit DEF Init, DeploymentInit
  <2>2. ~row.recommended
    BY DEF Init, DeploymentInit, Row, Terminal
  <2> QED
    BY <2>1, <2>2 DEF Concluded, Queue!Init, WasStarted
<1>2. Concluded /\ [Next]_vars => Concluded' /\ [Queue!Next]_Queue!vars
  <2> SUFFICES ASSUME Concluded, [Next]_vars PROVE Concluded' /\ [Queue!Next]_Queue!vars
    OBVIOUS
  <2>1. Concluded' /\ JobStep
    BY JobStepped
  <2>2. CASE UNCHANGED <<job, WasStarted>>
    BY <2>1, <2>2 DEF Queue!vars
  <2>3. CASE ~UNCHANGED <<job, WasStarted>>
    BY <2>1, <2>3 DEF JobStep, Queue!Next
  <2> QED
    BY <2>1, <2>2, <2>3
<1> QED
  BY <1>1, <1>2, PTL DEF Spec, JobIsLeasedOnce, Queue!Spec
=============================================================================
