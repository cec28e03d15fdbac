-------------------------- MODULE BrowserRunsProofs --------------------------
(***************************************************************************)
(* The safety of browser runs, for any monitors' journeys, any number of   *)
(* runs, executors, slots and faults.                                      *)
(*                                                                         *)
(* The inductive invariant Sound says, part by part, what the agent's      *)
(* memory holds while a journey is played (MemorySound), that the counter  *)
(* of the agent counts its requests (CapacitySound), how the row of a run, *)
(* its job, its executor and the agent's answer go together (RunsSound),   *)
(* and that every artifact row has its object.                             *)
(***************************************************************************)
EXTENDS BrowserRuns, FiniteSetTheorems, SequenceTheorems, WellFoundedInduction, TLAPS

(***************************************************************************)
(* Types of the agent's memory.                                            *)
(***************************************************************************)
Categories ==
    {"", "ACTION_FAILED", "ASSERTION_FAILED", "ARTIFACT_POLICY_BLOCKED", "TIMED_OUT", "SELECTOR_AMBIGUOUS",
     "SELECTOR_NOT_FOUND", "NAVIGATION_FAILED", "BROWSER_CRASH", "POLICY_VIOLATION"}
ResultKinds == CheckKinds \cup {"VISUAL_REGRESSION", "ARTIFACT_POLICY_BLOCKED", "GRAPH_SOURCE_MISSING",
                               "GRAPH_REGRESSION"}
CheckResult == [kind : ResultKinds, gate : Gates \cup {"off"}, passed : BOOLEAN]
PlayedStep == [step : Nat, category : Categories, checks : Seq(CheckResult)]
Final == Good \cup {"FAILED"}
VerdictSet == [status : Final \cup {"none"}, category : Categories \cup ResultKinds, failedStep : Nat]
Work == [at : Nat \ {0}, steps : Seq(PlayedStep), warnings : Nat, slot : Nat,
         stored : SUBSET Nat, artifacts : SUBSET Nat, uploadFailures : Nat, verdict : VerdictSet]
Reply == [status : Final \cup {"none"}, artifacts : SUBSET Nat, uploadFailures : Nat]

MemoryOK == work \in [Runs -> Work] /\ reply \in [Runs -> Reply]

BusyRuns == {r \in Runs : Busy(r)}
CapacitySound == IsFiniteSet(BusyRuns) /\ CapacityExact

\* What a journey has played, and found out, so far.
PlayedBy(w) == {w.steps[i].step : i \in 1..Len(w.steps)}
SomeBlocked(w) == \E i \in 1..Len(w.steps) : Blocks(w.steps[i])
SomeAdvisory(w) == \E i \in 1..Len(w.steps) : Failing(w.steps[i].checks, "ADVISORY") # {}

\* Between two steps, all the enabled ones before the next have been played.
UnderWay(r, w) ==
    /\ w.at \in 1..(Len(Journey[r]) + 1)
    /\ PlayedBy(w) = {i \in EnabledSteps(r) : i < w.at}
    /\ ~SomeBlocked(w)
    /\ w.warnings > 0 <=> SomeAdvisory(w)

Agrees(r, w) ==
    /\ w.verdict.status \in Final
    /\ w.verdict.status \in Good => /\ PlayedBy(w) = EnabledSteps(r)
                                    /\ ~SomeBlocked(w)
                                    /\ w.verdict.status = "SUCCESS" <=> ~SomeAdvisory(w)
    /\ w.verdict.status = "FAILED" => /\ w.verdict.category # ""
                                      /\ SomeBlocked(w) => w.verdict.failedStep = LastStep(w)

JourneysSound ==
    \A r \in Runs : /\ phase[r] = "open" => work[r] = NewWork
                    /\ phase[r] = "steps" => UnderWay(r, work[r])
                    /\ phase[r] \in {"closing", "reply"} => Agrees(r, work[r])

RowsOf(r) == {row \in rows : row[1] = r}

RunsSound ==
    \A r \in Runs :
        /\ run[r] = "none" => job[r] = "none"
        /\ job[r] \in {"none", "QUEUED"} => pc[r] = "none" /\ RowsOf(r) = {}
        /\ RowsOf(r) # {} => pc[r] \in {"none", "storing", "persisting", "finishing"}
        /\ store[r].left \subseteq Slots(r)
        /\ pc[r] = "storing" => RowsOf(r) \subseteq store[r].kept \cup doubted
        /\ pc[r] \in {"preparing", "waiting", "storing", "persisting"}
             => run[r] \in {"STARTING", "RUNNING", "ANALYZING", "ABORTED"}
        /\ call[r] = "answered" => reply[r].status \in Final
        /\ pc[r] \in {"storing", "persisting"} => call[r] = "answered" /\ outcome[r] \in Final
        /\ (pc[r] = "storing" /\ outcome[r] = "SUCCESS") => reply[r].status = "SUCCESS"
        /\ (pc[r] = "persisting" /\ outcome[r] = "SUCCESS")
             => reply[r].status = "SUCCESS" /\ reply[r].uploadFailures = 0

\* v is w with other artifacts.
SameJourney(w, v) ==
    v \in Work /\ v.at = w.at /\ v.steps = w.steps /\ v.warnings = w.warnings /\ v.verdict = w.verdict

\* A set of natural numbers has a least element.
LEMMA Least ==
    ASSUME NEW M \in SUBSET Nat, M # {}
    PROVE  \E i \in M : \A j \in M : i <= j
<1>1. OpToRel(<, Nat) = {ss \in Nat \X Nat : ss[1] < ss[2]}
  BY DEF OpToRel
<1>2. PICK i \in M : \A j \in M : ~ (<<j, i>> \in OpToRel(<, Nat))
  BY NatLessThanWellFounded, WFMin
<1>3. ASSUME NEW j \in M PROVE i <= j
  <2>1. ~ (<<j, i>> \in {ss \in Nat \X Nat : ss[1] < ss[2]})
    BY <1>1, <1>2
  <2>2. i \in Nat /\ j \in Nat
    OBVIOUS
  <2>3. QED
   BY <2>1, <2>2
<1>4. QED
  BY <1>3

\* Every error has a category.
LEMMA ErrorsClassified == ASSUME NEW e PROVE ClassifyError(e) \in Categories \ {""}
<1> DEFINE matching == {i \in 1..Len(Classes) : Classes[i].words \cap e # {}}
           first == CHOOSE i \in matching : \A j \in matching : i <= j
<1>1. Len(Classes) = 7
  BY DEF Classes
<1>2. \A i \in 1..7 : Classes[i].category \in Categories \ {""}
  <2>1. /\ Classes[1].category = "ARTIFACT_POLICY_BLOCKED"
        /\ Classes[2].category = "TIMED_OUT"
        /\ Classes[3].category = "SELECTOR_AMBIGUOUS"
        /\ Classes[4].category = "SELECTOR_NOT_FOUND"
    BY DEF Classes
  <2>2. /\ Classes[5].category = "NAVIGATION_FAILED"
        /\ Classes[6].category = "BROWSER_CRASH"
        /\ Classes[7].category = "POLICY_VIOLATION"
    BY DEF Classes
  <2>3. {Classes[i].category : i \in 1..7} \subseteq Categories \ {""}
    <3>1. \A i \in 1..7 : i = 1 \/ i = 2 \/ i = 3 \/ i = 4 \/ i = 5 \/ i = 6 \/ i = 7
      OBVIOUS
    <3> SUFFICES ASSUME NEW i \in 1..7 PROVE Classes[i].category \in Categories \ {""}
      OBVIOUS
    <3>2. CASE i \in {1, 2, 3, 4}
      BY <2>1, <3>2 DEF Categories
    <3>3. CASE i \in {5, 6, 7}
      BY <2>2, <3>3 DEF Categories
    <3>4. QED
      BY <3>1, <3>2, <3>3
  <2>4. QED
    BY <2>3
<1>3. CASE matching = {}
  BY <1>3 DEF ClassifyError, Categories
<1>4. CASE matching # {}
  <2>1. \E i \in matching : \A j \in matching : i <= j
    <3>1. matching \in SUBSET Nat
      BY <1>1
    <3> HIDE DEF matching
    <3>2. QED
      BY <1>4, <3>1, Least
  <2>2. first \in 1..7
    BY <1>1, <2>1
  <2>3. ClassifyError(e) = Classes[first].category
    BY <1>4 DEF ClassifyError
  <2>4. QED
    BY <1>2, <2>2, <2>3
<1>5. QED
  BY <1>3, <1>4

\* An upload, and a screenshot, touch the artifacts alone.
LEMMA UploadKeeps == ASSUME NEW w \in Work, NEW how PROVE SameJourney(w, Upload(w, how))
<1> DEFINE slot == w.slot + 1
           kept(s) == w.artifacts \cup {s}
<1>1. slot \in Nat /\ w.uploadFailures + 1 \in Nat /\ kept(slot) \in SUBSET Nat /\ kept(0) \in SUBSET Nat
      /\ w.stored \cup {slot} \in SUBSET Nat
  BY DEF Work
<1>2. QED
  BY <1>1 DEF Upload, SameJourney, Work

LEMMA CaptureKeeps == ASSUME NEW w \in Work, NEW how PROVE SameJourney(w, CaptureArtifact(w, how))
BY UploadKeeps DEF CaptureArtifact, SameJourney

\* What a comparison and a screenshot of a step return.
StepPart(w, x) ==
    /\ SameJourney(w, x.w)
    /\ x.checks \in Seq(CheckResult)

LEMMA ResultType ==
    ASSUME NEW kind \in ResultKinds, NEW gate \in Gates \cup {"off"}, NEW passed \in BOOLEAN
    PROVE  [kind |-> kind, gate |-> gate, passed |-> passed] \in CheckResult
BY DEF CheckResult

LEMMA CheckType ==
    ASSUME NEW kind \in {"VISUAL_REGRESSION", "ARTIFACT_POLICY_BLOCKED"}
    PROVE  Unmet(kind) \in Seq(CheckResult) /\ Checked(kind) \subseteq Seq(CheckResult)
<1>1. [kind |-> kind, gate |-> "BLOCKING", passed |-> FALSE] \in CheckResult
  BY ResultType DEF ResultKinds, Gates
<1>2. [kind : {kind}, gate : {"BLOCKING"}, passed : BOOLEAN] \subseteq CheckResult
  BY DEF CheckResult, ResultKinds, Gates
<1>3. \A c \in CheckResult : <<c>> \in Seq(CheckResult)
  OBVIOUS
<1>4. Unmet(kind) \in Seq(CheckResult)
  BY <1>1, <1>3 DEF Unmet
<1>5. Checked(kind) \subseteq Seq(CheckResult)
  BY <1>2, <1>3 DEF Checked
<1>6. QED
  BY <1>4, <1>5

LEMMA PartType ==
    ASSUME NEW w \in Work, NEW v, SameJourney(w, v), NEW checks \in Seq(CheckResult), NEW e
    PROVE  StepPart(w, Part(v, checks, e))
BY DEF StepPart, Part

LEMMA CompareKeeps ==
    ASSUME NEW w \in Work, NEW x \in ComparePNGs(w)
    PROVE  StepPart(w, x)
<1>1. \/ x = Part(w, Unmet("VISUAL_REGRESSION"), {})
      \/ \E how \in Uploads, c \in Checked("VISUAL_REGRESSION") : x = Part(Upload(w, how), c, {})
  BY DEF ComparePNGs
<1>2. QED
  BY <1>1, CheckType, UploadKeeps, PartType DEF SameJourney

LEMMA ScreenshotKeeps ==
    ASSUME NEW w \in Work, NEW shot, NEW x \in Screenshot(w, shot)
    PROVE  StepPart(w, x)
<1>1. << >> \in Seq(CheckResult) /\ Unmet("ARTIFACT_POLICY_BLOCKED") \in Seq(CheckResult)
  BY CheckType
<1>2. \/ \E e : x = Part(w, <<>>, e)
      \/ \E how \in Captures :
            \/ x = Part(CaptureArtifact(w, how), Unmet("ARTIFACT_POLICY_BLOCKED"), {})
            \/ \E e : x = Part(CaptureArtifact(w, how), <<>>, e)
            \/ x \in ComparePNGs(CaptureArtifact(w, how))
  BY DEF Screenshot
<1>3. ASSUME NEW e, x = Part(w, <<>>, e) PROVE StepPart(w, x)
  BY <1>1, <1>3, PartType DEF SameJourney
<1>4. ASSUME NEW how,
             \/ x = Part(CaptureArtifact(w, how), Unmet("ARTIFACT_POLICY_BLOCKED"), {})
             \/ \E e : x = Part(CaptureArtifact(w, how), <<>>, e)
      PROVE  StepPart(w, x)
  BY <1>1, <1>4, CaptureKeeps, PartType
<1>5. ASSUME NEW how, x \in ComparePNGs(CaptureArtifact(w, how))
      PROVE  StepPart(w, x)
  <2>1. SameJourney(w, CaptureArtifact(w, how))
    BY CaptureKeeps
  <2>2. StepPart(CaptureArtifact(w, how), x)
    BY <1>5, <2>1, CompareKeeps DEF SameJourney
  <2>3. QED
    BY <2>1, <2>2 DEF StepPart, SameJourney
<1>6. QED
  BY <1>2, <1>3, <1>4, <1>5

\* A check has one result, of its kind.
LEMMA EvaluateCheckType ==
    ASSUME NEW check \in CheckSet, NEW x \in EvaluateCheck(check)
    PROVE  x \in CheckResult
<1>1. check.kind \in ResultKinds /\ check.gate \in Gates
  BY DEF CheckSet, ResultKinds
<1>2. ASSUME NEW n, NEW m, NEW o PROVE CompareNumber(n, m, o) \in BOOLEAN
  BY DEF CompareNumber
<1>3. PICK p \in BOOLEAN, g \in Gates \cup {"off"} : x = [kind |-> check.kind, gate |-> g, passed |-> p]
  <2>1. CASE ~check.enabled
    BY <1>1, <2>1 DEF EvaluateCheck
  <2>2. CASE check.enabled
    BY <1>1, <1>2, <2>2 DEF EvaluateCheck
  <2>3. QED
    BY <2>1, <2>2
<1>4. QED
  BY <1>1, <1>3, ResultType

LEMMA ResultsType ==
    ASSUME NEW step \in StepSet, NEW n \in Nat, n <= Len(step.checks), NEW c \in ResultsOf(step, n)
    PROVE  c \in Seq(CheckResult)
<1>1. \A i \in 1..n : step.checks[i] \in CheckSet
  BY DEF StepSet
<1>2. c \in [1..n -> CheckResult]
  BY <1>1, EvaluateCheckType DEF ResultsOf
<1>3. QED
  BY <1>2, SeqDef

LEMMA CheckResultsType ==
    ASSUME NEW step \in StepSet, NEW c \in CheckResults(step)
    PROVE  c \in Seq(CheckResult)
<1>1. Len(step.checks) \in Nat
  BY DEF StepSet
<1>2. QED
  BY <1>1, ResultsType DEF CheckResults

LEMMA EvaluateGraphType ==
    ASSUME NEW graph, graph.gate \in Gates, NEW x \in EvaluateGraph(graph)
    PROVE  x \in CheckResult
<1> DEFINE gate == IF graph.source = "VISUAL" THEN "ADVISORY" ELSE graph.gate
<1>1. gate \in Gates
  BY DEF Gates
<1>2. ASSUME NEW n, NEW m, NEW o PROVE CompareNumber(n, m, o) \in BOOLEAN
  BY DEF CompareNumber
<1>3. \/ x = [kind |-> "GRAPH_SOURCE_MISSING", gate |-> gate, passed |-> FALSE]
      \/ \E p \in BOOLEAN : x = [kind |-> "GRAPH_REGRESSION", gate |-> gate, passed |-> p]
  BY <1>2 DEF EvaluateGraph
<1>4. QED
  BY <1>1, <1>3, ResultType DEF ResultKinds

LEMMA GraphKeeps ==
    ASSUME NEW w \in Work, NEW step \in StepSet, NEW x \in GraphResults(w, step)
    PROVE  StepPart(w, x)
<1>1. \/ \E e : x = Part(w, <<>>, e)
      \/ \E g \in EvaluateGraph(step.graph) : x = Part(w, <<g>>, {})
  BY DEF GraphResults
<1>2. \A g \in EvaluateGraph(step.graph) : <<g>> \in Seq(CheckResult)
  BY EvaluateGraphType DEF StepSet
<1>3. <<>> \in Seq(CheckResult)
  OBVIOUS
<1>4. QED
  BY <1>1, <1>2, <1>3, PartType DEF SameJourney

LEMMA ScreenshotResultsKeep ==
    ASSUME NEW w \in Work, NEW step, NEW x \in ScreenshotResults(w, step)
    PROVE  StepPart(w, x)
<1>1. x \in Screenshot(w, step.shot) \/ x = Part(w, <<>>, {})
  BY DEF ScreenshotResults
<1>2. <<>> \in Seq(CheckResult)
  OBVIOUS
<1>3. QED
  BY <1>1, <1>2, ScreenshotKeeps, PartType DEF SameJourney

\* What a step leaves: other artifacts, the results of its checks in their
\* order, and a category.
LEMMA ExecuteStepType ==
    ASSUME NEW w \in Work, NEW step \in StepSet, NEW x \in ExecuteStep(w, step)
    PROVE  StepPart(w, x) /\ x.category \in Categories
<1>1. \A e : ClassifyError(e) \in Categories /\ Thrown(e) \in Categories
  BY ErrorsClassified DEF Thrown, Categories
<1>2. ASSUME NEW v, SameJourney(w, v), NEW c \in Seq(CheckResult), NEW k \in Categories,
             x = Played(v, c, k)
      PROVE  StepPart(w, x) /\ x.category \in Categories
  BY <1>2 DEF Played, StepPart
<1>3. SameJourney(w, w) /\ <<>> \in Seq(CheckResult)
  BY DEF SameJourney
<1>4. \/ \E e : x = Played(w, <<>>, ClassifyError(e))
      \/ \E i \in LocatedChecks(step) : \E c \in ResultsOf(step, i - 1) :
            x = Played(w, c, ClassifyError(UnknownLocator))
      \/ \E c \in CheckResults(step), g \in GraphResults(w, step) :
            \/ x = Played(w, c, Thrown(g.error))
            \/ \E s \in ScreenshotResults(w, step) :
                  x = Played(s.w, c \o g.checks \o s.checks, Thrown(s.error))
  <2>1. x \in Interrupted(w, step) => \E i \in LocatedChecks(step) : \E c \in ResultsOf(step, i - 1) :
            x = Played(w, c, ClassifyError(UnknownLocator))
    BY DEF Interrupted
  <2>2. ASSUME NEW c, NEW g, x \in Completed(w, step, c, g)
        PROVE  \/ x = Played(w, c, Thrown(g.error))
               \/ \E s \in ScreenshotResults(w, step) :
                     x = Played(s.w, c \o g.checks \o s.checks, Thrown(s.error))
    BY <2>2 DEF Completed
  <2>3. \/ \E e : x = Played(w, <<>>, ClassifyError(e))
        \/ x \in Interrupted(w, step)
        \/ \E c \in CheckResults(step), g \in GraphResults(w, step) : x \in Completed(w, step, c, g)
    BY DEF ExecuteStep
  <2>4. QED
    BY <2>1, <2>2, <2>3
<1>5. CASE \E e : x = Played(w, <<>>, ClassifyError(e))
  BY <1>1, <1>2, <1>3, <1>5
<1>6. ASSUME NEW c \in CheckResults(step), NEW g \in GraphResults(w, step),
             x = Played(w, c, Thrown(g.error))
      PROVE  StepPart(w, x) /\ x.category \in Categories
  BY <1>1, <1>2, <1>3, <1>6, CheckResultsType
<1>7. ASSUME NEW c \in CheckResults(step), NEW g \in GraphResults(w, step),
             NEW s \in ScreenshotResults(w, step),
             x = Played(s.w, c \o g.checks \o s.checks, Thrown(s.error))
      PROVE  StepPart(w, x) /\ x.category \in Categories
  <2>1. c \in Seq(CheckResult) /\ g.checks \in Seq(CheckResult) /\ s.checks \in Seq(CheckResult)
    BY CheckResultsType, GraphKeeps, ScreenshotResultsKeep DEF StepPart
  <2>2. c \o g.checks \o s.checks \in Seq(CheckResult)
    BY <2>1
  <2>3. SameJourney(w, s.w)
    BY ScreenshotResultsKeep DEF StepPart
  <2>4. QED
    BY <1>1, <1>2, <1>7, <2>2, <2>3
<1>8. ASSUME NEW i \in LocatedChecks(step), NEW c \in ResultsOf(step, i - 1),
             x = Played(w, c, ClassifyError(UnknownLocator))
      PROVE  StepPart(w, x) /\ x.category \in Categories
  <2>1. i - 1 \in Nat /\ i - 1 <= Len(step.checks)
    BY DEF LocatedChecks, StepSet
  <2>2. c \in Seq(CheckResult)
    BY <2>1, ResultsType
  <2>3. QED
    BY <1>1, <1>2, <1>3, <1>8, <2>2
<1>9. QED
  BY <1>4, <1>5, <1>6, <1>7, <1>8

\* The failed checks of a gate can be counted.
LEMMA FailingCounted ==
    ASSUME NEW checks \in Seq(CheckResult), NEW gate
    PROVE  LET count == Cardinality(Failing(checks, gate))
           IN count \in Nat /\ (count > 0 <=> Failing(checks, gate) # {})
<1>1. IsFiniteSet(1..Len(checks))
  BY FS_Interval
<1>2. IsFiniteSet(Failing(checks, gate))
  BY <1>1, FS_Subset DEF Failing
<1>3. QED
  BY <1>2, FS_CardinalityType, FS_EmptySet

\* The kind of the check that fails a step is a category.
LEMMA FirstBlockingType ==
    ASSUME NEW checks \in Seq(CheckResult), Failing(checks, "BLOCKING") # {}
    PROVE  FirstBlocking(checks) \in CheckResult
<1>1. Failing(checks, "BLOCKING") \in SUBSET Nat
  BY DEF Failing
<1>2. \E i \in Failing(checks, "BLOCKING") : \A j \in Failing(checks, "BLOCKING") : i <= j
  BY <1>1, Least
<1>3. (CHOOSE i \in Failing(checks, "BLOCKING") : \A j \in Failing(checks, "BLOCKING") : i <= j)
          \in Failing(checks, "BLOCKING")
  BY <1>2
<1>4. Failing(checks, "BLOCKING") \subseteq 1..Len(checks)
  BY DEF Failing
<1>5. QED
  BY <1>3, <1>4 DEF FirstBlocking

\* What a step adds to a journey: itself, at the end.
Recorded(w, v, x, at) ==
    /\ v \in Work /\ v.at = w.at /\ v.verdict = w.verdict
    /\ PlayedBy(v) = PlayedBy(w) \cup {at}
    /\ SomeBlocked(v) <=> SomeBlocked(w) \/ Blocks(x)
    /\ (w.warnings > 0 <=> SomeAdvisory(w)) => (v.warnings > 0 <=> SomeAdvisory(v))
    /\ LastStep(v) = at

LEMMA RecordAppends ==
    ASSUME NEW w \in Work, NEW x, StepPart(w, x), x.category \in Categories, NEW at \in Nat
    PROVE  Recorded(w, Record(x, at), x, at)
<1> DEFINE v == Record(x, at)
           this == [step |-> at, category |-> x.category, checks |-> x.checks]
           n == Cardinality(Failing(x.checks, "ADVISORY"))
<1>1. /\ x.w \in Work /\ x.w.at = w.at /\ x.w.steps = w.steps /\ x.w.warnings = w.warnings
      /\ x.w.verdict = w.verdict /\ x.checks \in Seq(CheckResult)
  BY DEF StepPart, SameJourney
<1>2. this \in PlayedStep
  BY <1>1 DEF PlayedStep
<1>3. n \in Nat /\ (n > 0 <=> Failing(x.checks, "ADVISORY") # {})
  BY <1>1, FailingCounted
<1>4. w.steps \in Seq(PlayedStep) /\ Append(w.steps, this) \in Seq(PlayedStep)
      /\ w.warnings \in Nat /\ w.warnings + n \in Nat
  BY <1>2, <1>3 DEF Work
<1>5. /\ v = [x.w EXCEPT !.steps = Append(@, this), !.warnings = @ + n]
      /\ v \in Work /\ v.at = w.at /\ v.verdict = w.verdict
      /\ v.steps = Append(w.steps, this) /\ v.warnings = w.warnings + n
  <2>1. v = [x.w EXCEPT !.steps = Append(@, this), !.warnings = @ + n]
    BY DEF Record
  <2> HIDE DEF v, this, n
  <2>2. QED
    BY <1>1, <1>4, <2>1 DEF Work
<1>6. /\ Len(v.steps) = Len(w.steps) + 1 /\ Len(w.steps) \in Nat
      /\ \A i \in 1..Len(w.steps) : v.steps[i] = w.steps[i]
      /\ v.steps[Len(w.steps) + 1] = this
      /\ 1..Len(v.steps) = 1..Len(w.steps) \cup {Len(w.steps) + 1}
  <2> HIDE DEF v, this
  <2>1. QED
    BY <1>2, <1>4, <1>5
<1>7. this.step = at /\ this.category = x.category /\ this.checks = x.checks
  OBVIOUS
<1> HIDE DEF v, this, n
<1>8. PlayedBy(v) = PlayedBy(w) \cup {at}
  <2>1. \A s : s \in PlayedBy(v) <=> \E i \in 1..Len(v.steps) : s = v.steps[i].step
    BY DEF PlayedBy
  <2>2. \A s : s \in PlayedBy(w) <=> \E i \in 1..Len(w.steps) : s = w.steps[i].step
    BY DEF PlayedBy
  <2>3. \A i \in 1..Len(w.steps) : i \in 1..Len(v.steps) /\ v.steps[i].step = w.steps[i].step
    BY <1>6
  <2>4. Len(w.steps) + 1 \in 1..Len(v.steps) /\ v.steps[Len(w.steps) + 1].step = at
    BY <1>6, <1>7
  <2>5. \A i \in 1..Len(v.steps) : i \in 1..Len(w.steps) \/ i = Len(w.steps) + 1
    BY <1>6
  <2>6. \A s : s \in PlayedBy(v) <=> s \in PlayedBy(w) \/ s = at
    BY <2>1, <2>2, <2>3, <2>4, <2>5
  <2>7. QED
    BY <2>6
<1>9. SomeBlocked(v) <=> SomeBlocked(w) \/ Blocks(x)
  <2>1. Blocks(this) <=> Blocks(x)
    BY <1>7 DEF Blocks
  <2>2. QED
    BY <1>6, <2>1 DEF SomeBlocked
<1>10. SomeAdvisory(v) <=> SomeAdvisory(w) \/ n > 0
  BY <1>3, <1>6, <1>7 DEF SomeAdvisory
<1>11. (w.warnings > 0 <=> SomeAdvisory(w)) => (v.warnings > 0 <=> SomeAdvisory(v))
  BY <1>3, <1>4, <1>5, <1>10
<1>12. LastStep(v) = at
  <2>1. v.steps # <<>>
    BY <1>6
  <2>2. QED
    BY <1>6, <1>7, <2>1 DEF LastStep
<1>13. Recorded(w, v, x, at)
  BY <1>5, <1>8, <1>9, <1>11, <1>12 DEF Recorded
<1>14. QED
  BY <1>13 DEF v

\* A verdict changes nothing else.
Judged(w, v, status, category, failedStep) ==
    /\ v \in Work /\ v.steps = w.steps
    /\ v.verdict.status = status /\ v.verdict.category = category /\ v.verdict.failedStep = failedStep

LEMMA VerdictKeeps ==
    ASSUME NEW w \in Work, NEW status \in Final, NEW category \in Categories \cup ResultKinds,
           NEW failedStep \in Nat
    PROVE  Judged(w, Verdict(w, status, category, failedStep), status, category, failedStep)
<1>1. [status |-> status, category |-> category, failedStep |-> failedStep] \in VerdictSet
  BY DEF VerdictSet
<1>2. QED
  BY <1>1 DEF Judged, Verdict, Work

LEMMA LastStepType == ASSUME NEW w \in Work PROVE LastStep(w) \in Nat
<1>1. w.steps \in Seq(PlayedStep)
  BY DEF Work
<1>2. w.steps # <<>> => Len(w.steps) \in 1..Len(w.steps)
  BY <1>1
<1>3. \A p \in PlayedStep : p.step \in Nat
  BY DEF PlayedStep
<1>4. w.steps # <<>> => w.steps[Len(w.steps)] \in PlayedStep
  BY <1>1, <1>2
<1>5. QED
  BY <1>3, <1>4 DEF LastStep

\* Only the steps and the verdict matter to the agreement of the two.
LEMMA AgreementKept ==
    ASSUME NEW r, NEW w \in Work, NEW v, SameJourney(w, v), Agrees(r, w)
    PROVE  v \in Work /\ Agrees(r, v)
BY DEF SameJourney, Agrees, PlayedBy, SomeBlocked, SomeAdvisory, LastStep

LEMMA FailureAgrees ==
    ASSUME NEW r, NEW w \in Work, NEW category \in (Categories \cup ResultKinds) \ {""}
    PROVE  LET v == Verdict(w, "FAILED", category, LastStep(w)) IN v \in Work /\ Agrees(r, v)
<1>1. LastStep(w) \in Nat /\ "FAILED" \in Final /\ category \in Categories \cup ResultKinds
  BY LastStepType DEF Final
<1>2. PICK last \in Nat : last = LastStep(w)
  BY <1>1
<1> DEFINE v == Verdict(w, "FAILED", category, last)
<1>3. Judged(w, v, "FAILED", category, last)
  BY <1>1, VerdictKeeps
<1> HIDE DEF v
<1>4. LastStep(v) = LastStep(w)
  BY <1>3 DEF LastStep, Judged
<1>5. Agrees(r, v)
  <2>1. "FAILED" \notin Good
    BY DEF Good
  <2>2. v.verdict.status \in Final /\ v.verdict.status \notin Good
    BY <1>1, <1>3, <2>1 DEF Judged
  <2>3. category # ""
    OBVIOUS
  <2>4. v.verdict.category # "" /\ v.verdict.failedStep = LastStep(v)
    BY <1>2, <1>3, <1>4, <2>3 DEF Judged
  <2>5. QED
    BY <2>2, <2>4 DEF Agrees
<1>6. QED
  BY <1>2, <1>3, <1>5 DEF v, Judged

LEMMA CatchAgrees ==
    ASSUME NEW r, NEW w \in Work, NEW e, NEW hasPage, NEW v \in Catch(w, e, hasPage)
    PROVE  v \in Work /\ Agrees(r, v)
<1> DEFINE failed == Verdict(w, "FAILED", ClassifyError(e), LastStep(w))
<1>1. failed \in Work /\ Agrees(r, failed)
  BY ErrorsClassified, FailureAgrees
<1>2. v = failed \/ \E how : v = CaptureArtifact(failed, how)
  BY DEF Catch
<1> HIDE DEF failed
<1>3. QED
  BY <1>1, <1>2, CaptureKeeps, AgreementKept

LEMMA ConcludeAgrees ==
    ASSUME NEW r, NEW w \in Work, Agrees(r, w), NEW v \in Conclude(w)
    PROVE  v \in Work /\ Agrees(r, v)
<1>1. (\E how : v = CaptureArtifact(w, how)) \/ (\E e : v \in Catch(w, e, TRUE))
  BY DEF Conclude
<1>2. QED
  BY <1>1, CaptureKeeps, AgreementKept, CatchAgrees

\* A step that blocks gives the journey a category and its own number.
LEMMA FailJourneyAgrees ==
    ASSUME NEW r, NEW w \in Work, NEW x, x.category \in Categories, x.checks \in Seq(CheckResult), Blocks(x)
    PROVE  FailJourney(w, x) \in Work /\ Agrees(r, FailJourney(w, x))
<1>1. x.category = "" => FirstBlocking(x.checks).kind \in ResultKinds
  BY FirstBlockingType DEF Blocks, CheckResult
<1>2. "ASSERTION_FAILED" \in Categories \ {""}
  BY DEF Categories
<1>3. PICK k \in (Categories \cup ResultKinds) \ {""} : FailJourney(w, x) = Verdict(w, "FAILED", k, LastStep(w))
  BY <1>1, <1>2 DEF FailJourney
<1>4. QED
  BY <1>3, FailureAgrees

LEMMA CompleteJourneyAgrees ==
    ASSUME NEW r, NEW w \in Work, PlayedBy(w) = EnabledSteps(r), ~SomeBlocked(w),
           w.warnings > 0 <=> SomeAdvisory(w)
    PROVE  CompleteJourney(w) \in Work /\ Agrees(r, CompleteJourney(w))
<1> DEFINE status == IF w.warnings > 0 THEN "SUCCESS_WITH_WARNINGS" ELSE "SUCCESS"
<1>1. status \in Good /\ status \in Final /\ "" \in Categories \cup ResultKinds /\ 0 \in Nat
      /\ (status = "SUCCESS" <=> ~SomeAdvisory(w))
  BY DEF Good, Final, Categories
<1>2. CompleteJourney(w) = Verdict(w, status, "", 0)
  BY DEF CompleteJourney
<1> HIDE DEF status
<1>3. Judged(w, Verdict(w, status, "", 0), status, "", 0)
  BY <1>1, VerdictKeeps
<1> DEFINE v == Verdict(w, status, "", 0)
<1> HIDE DEF v
<1>4. v \in Work /\ v.steps = w.steps /\ v.verdict.status = status
  BY <1>3 DEF v, Judged
<1>5. PlayedBy(v) = PlayedBy(w) /\ (SomeBlocked(v) <=> SomeBlocked(w)) /\ (SomeAdvisory(v) <=> SomeAdvisory(w))
  BY <1>4 DEF PlayedBy, SomeBlocked, SomeAdvisory
<1>6. v.verdict.status # "FAILED"
  BY <1>1, <1>4 DEF Good
<1>7. Agrees(r, v)
  BY <1>1, <1>4, <1>5, <1>6 DEF Agrees
<1>8. QED
  BY <1>2, <1>4, <1>7 DEF v

MemorySound == MemoryOK /\ JourneysSound

LEMMA NewWorkType == NewWork \in Work
BY DEF NewWork, NoVerdict, Work, VerdictSet, Categories

LEMMA SetKeeps ==
    ASSUME TypeOK, MemorySound, NEW r \in Runs, NEW w \in Work, NEW p \in Phases,
           Set(r, w), phase' = [phase EXCEPT ![r] = p],
           p = "open" => w = NewWork, p = "steps" => UnderWay(r, w),
           p \in {"closing", "reply"} => Agrees(r, w)
    PROVE  MemorySound'
<1>1. work' = [work EXCEPT ![r] = w] /\ reply' = reply
  BY DEF Set
<1>2. MemoryOK'
  BY <1>1 DEF MemorySound, MemoryOK
<1>3. ASSUME NEW q \in Runs
      PROVE  /\ phase'[q] = "open" => work'[q] = NewWork
             /\ phase'[q] = "steps" => UnderWay(q, work'[q])
             /\ phase'[q] \in {"closing", "reply"} => Agrees(q, work'[q])
  <2>1. CASE q = r
    <3>1. work'[q] = w /\ phase'[q] = p
      BY <1>1, <2>1 DEF TypeOK, MemorySound, MemoryOK
    <3>2. QED
      BY <2>1, <3>1
  <2>2. CASE q # r
    <3>1. work'[q] = work[q] /\ phase'[q] = phase[q]
      BY <1>1, <2>2 DEF TypeOK, MemorySound, MemoryOK
    <3>2. QED
      BY <3>1 DEF MemorySound, JourneysSound
  <2>3. QED
    BY <2>1, <2>2
<1>4. JourneysSound'
  BY <1>3 DEF JourneysSound
<1>5. QED
  BY <1>2, <1>4 DEF MemorySound

\* Nothing of a journey moves, or the journey is over.
LEMMA IdleKeeps ==
    ASSUME TypeOK, MemorySound, NEW r \in Runs, NEW p \in {"idle", "body"},
           phase' = phase \/ phase' = [phase EXCEPT ![r] = p],
           \A q \in Runs : work'[q] = work[q] \/ phase'[q] = "idle",
           MemoryOK'
    PROVE  MemorySound'
<1>1. ASSUME NEW q \in Runs PROVE (phase'[q] = phase[q] /\ work'[q] = work[q]) \/ phase'[q] \in {"idle", "body"}
  BY DEF TypeOK
<1>2. ASSUME NEW q \in Runs
      PROVE  /\ phase'[q] = "open" => work'[q] = NewWork
             /\ phase'[q] = "steps" => UnderWay(q, work'[q])
             /\ phase'[q] \in {"closing", "reply"} => Agrees(q, work'[q])
  BY <1>1 DEF MemorySound, JourneysSound
<1>3. QED
  BY <1>2 DEF MemorySound, JourneysSound

LEMMA JourneyStarts == ASSUME NEW r \in Runs PROVE UnderWay(r, NewWork)
<1>1. /\ NewWork.at = 1 /\ NewWork.warnings = 0 /\ NewWork.steps = <<>>
  BY DEF NewWork
<1>2. Len(Journey[r]) \in Nat
  BY AgentAssumption
<1>3. 1 \in 1..(Len(Journey[r]) + 1) /\ \A i \in EnabledSteps(r) : ~ (i < 1)
  BY <1>2 DEF EnabledSteps
<1>4. PlayedBy(NewWork) = {} /\ ~SomeBlocked(NewWork) /\ ~SomeAdvisory(NewWork)
  BY <1>1 DEF PlayedBy, SomeBlocked, SomeAdvisory
<1>5. QED
  BY <1>1, <1>3, <1>4 DEF UnderWay

\* The next step of a journey that is under way.
LEMMA StepToPlay ==
    ASSUME TypeOK, MemorySound, NEW r \in Runs, phase[r] = "steps", work[r].at <= Len(Journey[r])
    PROVE  /\ work[r] \in Work /\ UnderWay(r, work[r])
           /\ work[r].at \in 1..Len(Journey[r]) /\ work[r].at \in Nat
           /\ Len(Journey[r]) \in Nat
           /\ Journey[r][work[r].at] \in StepSet
<1>1. work[r] \in Work /\ UnderWay(r, work[r])
  BY DEF MemorySound, MemoryOK, JourneysSound
<1>2. Journey[r] \in Seq(StepSet) /\ Len(Journey[r]) \in Nat
  BY AgentAssumption
<1>3. work[r].at \in 1..Len(Journey[r]) /\ work[r].at \in Nat
  BY <1>1, <1>2 DEF UnderWay
<1>4. QED
  BY <1>1, <1>2, <1>3

LEMMA AcceptInputKeeps ==
    ASSUME TypeOK, MemorySound, NEW r \in Runs, AcceptInput(r)
    PROVE  MemorySound'
<1>1. Set(r, NewWork) /\ phase' = [phase EXCEPT ![r] = "open"] /\ "open" \in Phases
  BY DEF AcceptInput, Phases
<1>2. QED
  BY <1>1, NewWorkType, SetKeeps

LEMMA OpenPageKeeps ==
    ASSUME TypeOK, MemorySound, NEW r \in Runs, OpenPage(r)
    PROVE  MemorySound'
<1>1. phase[r] = "open" /\ work[r] = NewWork
  BY DEF OpenPage, MemorySound, JourneysSound
<1>2. CASE phase' = [phase EXCEPT ![r] = "steps"] /\ UNCHANGED <<work, reply, objects>>
  <2>1. MemoryOK'
    BY <1>2 DEF MemorySound, MemoryOK
  <2>2. ASSUME NEW q \in Runs
        PROVE  \/ phase'[q] = phase[q] /\ work'[q] = work[q]
               \/ phase'[q] = "steps" /\ UnderWay(q, work'[q])
    BY <1>1, <1>2, JourneyStarts DEF TypeOK
  <2>3. JourneysSound'
    BY <2>2 DEF MemorySound, JourneysSound
  <2>4. QED
    BY <2>1, <2>3 DEF MemorySound
<1>3. ASSUME NEW e, NEW hasPage, NEW w \in Catch(work[r], e, hasPage), Set(r, w),
             phase' = [phase EXCEPT ![r] = "reply"]
      PROVE  MemorySound'
  <2>1. w \in Work /\ Agrees(r, w) /\ "reply" \in Phases
    BY <1>1, <1>3, NewWorkType, CatchAgrees DEF Phases
  <2>2. QED
    BY <1>3, <2>1, SetKeeps
<1>4. QED
  BY <1>2, <1>3 DEF OpenPage

LEMMA SkipStepKeeps ==
    ASSUME TypeOK, MemorySound, NEW r \in Runs, SkipStep(r)
    PROVE  MemorySound'
<1> DEFINE at == work[r].at
           w == [work[r] EXCEPT !.at = @ + 1]
<1>1. phase[r] = "steps" /\ at <= Len(Journey[r]) /\ ~Journey[r][at].enabled /\ Set(r, w)
      /\ phase' = phase
  BY DEF SkipStep
<1>2. /\ work[r] \in Work /\ UnderWay(r, work[r]) /\ at \in 1..Len(Journey[r]) /\ at \in Nat
      /\ Len(Journey[r]) \in Nat
  BY <1>1, StepToPlay
<1>3. /\ w \in Work /\ w.at = at + 1 /\ w.steps = work[r].steps /\ w.warnings = work[r].warnings
  <2>1. at + 1 \in Nat \ {0}
    BY <1>2
  <2>2. QED
    BY <1>2, <2>1 DEF Work
<1>4. {i \in EnabledSteps(r) : i < at + 1} = {i \in EnabledSteps(r) : i < at}
  <2>1. at \notin EnabledSteps(r) /\ EnabledSteps(r) \subseteq Nat
    BY <1>1 DEF EnabledSteps
  <2>2. \A i \in EnabledSteps(r) : i < at + 1 <=> i < at
    BY <1>2, <2>1
  <2>3. QED
    BY <2>2
<1>5. w.at \in 1..(Len(Journey[r]) + 1)
  BY <1>2, <1>3
<1> HIDE DEF w
<1>6. UnderWay(r, w)
  BY <1>2, <1>3, <1>4, <1>5 DEF UnderWay, PlayedBy, SomeBlocked, SomeAdvisory
<1>7. phase' = [phase EXCEPT ![r] = "steps"] /\ "steps" \in Phases
  BY <1>1 DEF TypeOK, Phases
<1>8. QED
  BY <1>1, <1>3, <1>6, <1>7, SetKeeps

LEMMA StepThrowsKeeps ==
    ASSUME TypeOK, MemorySound, NEW r \in Runs, StepThrows(r)
    PROVE  MemorySound'
<1>1. PICK w \in Catch(work[r], UnknownLocator, TRUE) : Set(r, w)
  BY DEF StepThrows
<1>2. phase' = [phase EXCEPT ![r] = "reply"] /\ "reply" \in Phases /\ work[r] \in Work
  BY DEF StepThrows, Phases, MemorySound, MemoryOK
<1>3. w \in Work /\ Agrees(r, w)
  BY <1>2, CatchAgrees
<1>4. QED
  BY <1>1, <1>2, <1>3, SetKeeps

LEMMA RunStepKeeps ==
    ASSUME TypeOK, MemorySound, NEW r \in Runs, RunStep(r)
    PROVE  MemorySound'
<1> DEFINE at == work[r].at
<1>1. phase[r] = "steps" /\ at <= Len(Journey[r]) /\ Journey[r][at].enabled
  BY DEF RunStep, NextStep
<1>2. /\ work[r] \in Work /\ UnderWay(r, work[r]) /\ at \in 1..Len(Journey[r]) /\ at \in Nat
      /\ Len(Journey[r]) \in Nat /\ Journey[r][at] \in StepSet
  BY <1>1, StepToPlay
<1>3. PICK x \in ExecuteStep(work[r], Journey[r][at]) :
        IF Blocks(x)
        THEN Set(r, FailJourney(Record(x, at), x)) /\ phase' = [phase EXCEPT ![r] = "closing"]
        ELSE Set(r, [Record(x, at) EXCEPT !.at = @ + 1]) /\ UNCHANGED phase
  BY DEF RunStep, NextStep
<1>4. StepPart(work[r], x) /\ x.category \in Categories /\ x.checks \in Seq(CheckResult)
  BY <1>2, ExecuteStepType DEF StepPart
<1> DEFINE v == Record(x, at)
<1>5. Recorded(work[r], v, x, at)
  BY <1>2, <1>4, RecordAppends
<1> HIDE DEF v
<1>6. CASE Blocks(x)
  <2>1. FailJourney(v, x) \in Work /\ Agrees(r, FailJourney(v, x)) /\ "closing" \in Phases
    BY <1>4, <1>5, <1>6, FailJourneyAgrees DEF Recorded, Phases
  <2>2. Set(r, FailJourney(v, x)) /\ phase' = [phase EXCEPT ![r] = "closing"]
    BY <1>3, <1>6 DEF v
  <2>3. QED
    BY <2>1, <2>2, SetKeeps
<1>7. CASE ~Blocks(x)
  <2> DEFINE w == [v EXCEPT !.at = @ + 1]
  <2>1. v \in Work /\ v.at = at /\ at + 1 \in Nat \ {0}
    BY <1>2, <1>5 DEF Recorded
  <2>2. w \in Work /\ w.at = at + 1 /\ w.steps = v.steps /\ w.warnings = v.warnings
    BY <2>1 DEF Work
  <2>3. {i \in EnabledSteps(r) : i < at + 1} = {i \in EnabledSteps(r) : i < at} \cup {at}
    <3>1. at \in EnabledSteps(r) /\ EnabledSteps(r) \subseteq Nat
      BY <1>1, <1>2 DEF EnabledSteps
    <3>2. \A i \in EnabledSteps(r) : i < at + 1 <=> i < at \/ i = at
      BY <1>2, <3>1
    <3>3. QED
      BY <3>1, <3>2
  <2>4. w.at \in 1..(Len(Journey[r]) + 1)
    BY <1>2, <2>2
  <2> HIDE DEF w
  <2>5. PlayedBy(w) = PlayedBy(v) /\ (SomeBlocked(w) <=> SomeBlocked(v)) /\ (SomeAdvisory(w) <=> SomeAdvisory(v))
    BY <2>2 DEF PlayedBy, SomeBlocked, SomeAdvisory
  <2>6. PlayedBy(w) = {i \in EnabledSteps(r) : i < w.at}
    BY <1>2, <1>5, <2>2, <2>3, <2>5 DEF Recorded, UnderWay
  <2>7. ~SomeBlocked(w) /\ (w.warnings > 0 <=> SomeAdvisory(w))
    BY <1>2, <1>5, <1>7, <2>2, <2>5 DEF Recorded, UnderWay
  <2>8. UnderWay(r, w)
    BY <2>4, <2>6, <2>7 DEF UnderWay
  <2>9. Set(r, w) /\ phase' = [phase EXCEPT ![r] = "steps"] /\ "steps" \in Phases
    BY <1>1, <1>3, <1>7 DEF v, w, TypeOK, Phases
  <2>10. QED
    BY <2>2, <2>8, <2>9, SetKeeps
<1>8. QED
  BY <1>6, <1>7

LEMMA EndJourneyKeeps ==
    ASSUME TypeOK, MemorySound, NEW r \in Runs, EndJourney(r)
    PROVE  MemorySound'
<1>1. /\ phase[r] = "steps" /\ work[r].at > Len(Journey[r]) /\ Set(r, CompleteJourney(work[r]))
      /\ phase' = [phase EXCEPT ![r] = "closing"] /\ "closing" \in Phases
  BY DEF EndJourney, Phases
<1>2. work[r] \in Work /\ UnderWay(r, work[r])
  BY <1>1 DEF MemorySound, MemoryOK, JourneysSound
<1>3. {i \in EnabledSteps(r) : i < work[r].at} = EnabledSteps(r)
  <2>1. Len(Journey[r]) \in Nat
    BY AgentAssumption
  <2>2. work[r].at \in Nat /\ \A i \in EnabledSteps(r) : i \in Nat /\ i <= Len(Journey[r])
    BY <1>2, <2>1 DEF EnabledSteps, Work
  <2>3. QED
    BY <1>1, <2>1, <2>2
<1>4. CompleteJourney(work[r]) \in Work /\ Agrees(r, CompleteJourney(work[r]))
  BY <1>2, <1>3, CompleteJourneyAgrees DEF UnderWay
<1>5. QED
  BY <1>1, <1>4, SetKeeps

LEMMA TakeFinalScreenshotKeeps ==
    ASSUME TypeOK, MemorySound, NEW r \in Runs, TakeFinalScreenshot(r)
    PROVE  MemorySound'
<1>1. PICK w \in Conclude(work[r]) : Set(r, w)
  BY DEF TakeFinalScreenshot
<1>2. phase[r] = "closing" /\ phase' = [phase EXCEPT ![r] = "reply"] /\ "reply" \in Phases
  BY DEF TakeFinalScreenshot, Phases
<1>3. work[r] \in Work /\ Agrees(r, work[r])
  BY <1>2 DEF MemorySound, MemoryOK, JourneysSound
<1>4. w \in Work /\ Agrees(r, w)
  BY <1>3, ConcludeAgrees
<1>5. QED
  BY <1>1, <1>2, <1>4, SetKeeps

LEMMA RespondKeeps ==
    ASSUME TypeOK, MemorySound, NEW r \in Runs, Respond(r)
    PROVE  MemorySound'
<1> DEFINE answer == [status |-> work[r].verdict.status, artifacts |-> work[r].artifacts,
                      uploadFailures |-> work[r].uploadFailures]
<1>1. /\ phase' = [phase EXCEPT ![r] = "idle"] /\ work' = [work EXCEPT ![r] = NewWork]
      /\ reply' = [reply EXCEPT ![r] = IF call[r] # "sent" THEN @ ELSE answer]
  BY DEF Respond, Leave
<1>2. answer \in Reply
  BY DEF MemorySound, MemoryOK, Work, VerdictSet, Reply
<1> HIDE DEF answer
<1>3. MemoryOK'
  BY <1>1, <1>2, NewWorkType DEF MemorySound, MemoryOK
<1>4. \A q \in Runs : work'[q] = work[q] \/ phase'[q] = "idle"
  BY <1>1 DEF TypeOK, MemorySound, MemoryOK
<1>5. QED
  BY <1>1, <1>3, <1>4, IdleKeeps

\* An agent keeps what it finds out of a journey in step with what it plays.
LEMMA AgentKeepsMemory ==
    ASSUME TypeOK, MemorySound, NEW r \in Runs, AgentStep(r)
    PROVE  MemorySound'
<1>1. ASSUME \/ Admit(r) \/ Refuse(r) \/ RejectInput(r) PROVE MemorySound'
  <2>1. UNCHANGED <<work, reply>> /\ \E p \in {"idle", "body"} : phase' = phase \/ phase' = [phase EXCEPT ![r] = p]
    BY <1>1 DEF Admit, Refuse, RejectInput, Leave
  <2>2. MemoryOK'
    BY <2>1 DEF MemorySound, MemoryOK
  <2>3. QED
    BY <2>1, <2>2, IdleKeeps
<1>2. QED
  BY <1>1, AcceptInputKeeps, OpenPageKeeps, SkipStepKeeps, StepThrowsKeeps, RunStepKeeps, EndJourneyKeeps,
     TakeFinalScreenshotKeeps, RespondKeeps DEF AgentStep

(***************************************************************************)
(* The invariant, one component after the other.                           *)
(***************************************************************************)
AgentTypes ==
    /\ call \in [Runs -> CallStates] /\ phase \in [Runs -> Phases] /\ active \in Nat /\ others \in Nat
    /\ objects \subseteq Runs \X Nat

\* A busy run is one of those the counter counts.
LEMMA BusyIsCounted ==
    ASSUME CapacitySound, AgentTypes, NEW r \in Runs, Busy(r)
    PROVE  active - 1 \in Nat
<1>1. BusyRuns # {} /\ IsFiniteSet(BusyRuns) /\ active = others + Cardinality(BusyRuns)
  BY DEF BusyRuns, CapacitySound, CapacityExact
<1>2. Cardinality(BusyRuns) \in Nat /\ Cardinality(BusyRuns) # 0
  BY <1>1, FS_CardinalityType, FS_EmptySet
<1>3. QED
  BY <1>1, <1>2 DEF AgentTypes

LEMMA SameBusy ==
    ASSUME CapacitySound, UNCHANGED <<active, others>>,
           \A q \in Runs : phase'[q] = "idle" <=> phase[q] = "idle"
    PROVE  CapacitySound'
<1>1. BusyRuns' = BusyRuns
  BY DEF BusyRuns, Busy
<1>2. QED
  BY <1>1 DEF CapacitySound, CapacityExact, BusyRuns

LEMMA OneMoreBusy ==
    ASSUME CapacitySound, AgentTypes, NEW r \in Runs, phase[r] = "idle", active < MaxConcurrency,
           NEW p \in Phases \ {"idle"}, phase' = [phase EXCEPT ![r] = p], active' = active + 1, others' = others
    PROVE  CapacitySound'
<1>1. BusyRuns' = BusyRuns \cup {r} /\ r \notin BusyRuns
  BY DEF BusyRuns, Busy, AgentTypes
<1>2. IsFiniteSet(BusyRuns)
  BY DEF CapacitySound
<1>3. IsFiniteSet(BusyRuns') /\ Cardinality(BusyRuns') = Cardinality(BusyRuns) + 1
  BY <1>1, <1>2, FS_AddElement
<1>4. Cardinality(BusyRuns) \in Nat
  BY <1>2, FS_CardinalityType
<1>5. active' = others' + Cardinality(BusyRuns')
  BY <1>3, <1>4 DEF CapacitySound, CapacityExact, BusyRuns, AgentTypes
<1>6. active' <= MaxConcurrency
  BY AgentAssumption DEF AgentTypes
<1>7. QED
  BY <1>3, <1>5, <1>6 DEF CapacitySound, CapacityExact, BusyRuns

LEMMA OneLessBusy ==
    ASSUME CapacitySound, AgentTypes, NEW r \in Runs, Busy(r), Leave(r), others' = others
    PROVE  CapacitySound'
<1>1. BusyRuns' = BusyRuns \ {r} /\ r \in BusyRuns
  BY DEF BusyRuns, Busy, AgentTypes, Leave
<1>2. IsFiniteSet(BusyRuns)
  BY DEF CapacitySound
<1>3. IsFiniteSet(BusyRuns') /\ Cardinality(BusyRuns') = Cardinality(BusyRuns) - 1
  BY <1>1, <1>2, FS_RemoveElement
<1>4. Cardinality(BusyRuns) \in Nat
  BY <1>2, FS_CardinalityType
<1>5. active' = others' + Cardinality(BusyRuns')
  BY <1>3, <1>4 DEF CapacitySound, CapacityExact, BusyRuns, AgentTypes, Leave
<1>6. active' <= MaxConcurrency
  BY AgentAssumption DEF AgentTypes, Leave, CapacitySound, CapacityExact
<1>7. QED
  BY <1>3, <1>5, <1>6 DEF CapacitySound, CapacityExact, BusyRuns

\* Whatever a request does, the counter follows.
LEMMA AgentKeepsCapacity ==
    ASSUME CapacitySound, AgentTypes, NEW r \in Runs, AgentStep(r)
    PROVE  CapacitySound'
<1>1. CASE Admit(r)
  <2>1. "body" \in Phases \ {"idle"}
    BY DEF Phases
  <2>2. QED
    BY <1>1, <2>1, OneMoreBusy DEF Admit
<1>2. CASE Refuse(r)
  BY <1>2, SameBusy DEF Refuse
<1>3. CASE RejectInput(r)
  BY <1>3, OneLessBusy DEF RejectInput, Busy
<1>4. CASE Respond(r)
  BY <1>4, OneLessBusy DEF Respond, Busy
<1>5. ASSUME \/ AcceptInput(r) \/ OpenPage(r) \/ SkipStep(r) \/ StepThrows(r) \/ RunStep(r) \/ EndJourney(r)
             \/ TakeFinalScreenshot(r)
      PROVE  CapacitySound'
  <2>1. UNCHANGED <<active, others>> /\ phase[r] # "idle"
        /\ \/ phase' = phase
           \/ \E p \in Phases \ {"idle"} : phase' = [phase EXCEPT ![r] = p]
    BY <1>5 DEF AcceptInput, OpenPage, SkipStep, StepThrows, RunStep, EndJourney, TakeFinalScreenshot, Phases
  <2>2. \A q \in Runs : phase'[q] = "idle" <=> phase[q] = "idle"
    BY <2>1 DEF AgentTypes
  <2>3. QED
    BY <2>1, <2>2, SameBusy
<1>6. QED
  BY <1>1, <1>2, <1>3, <1>4, <1>5 DEF AgentStep

LEMMA OthersKeepCapacity ==
    ASSUME CapacitySound, AgentTypes, AdmitOther \/ LeaveOther
    PROVE  CapacitySound'
<1>1. BusyRuns' = BusyRuns /\ IsFiniteSet(BusyRuns)
  BY DEF AdmitOther, LeaveOther, BusyRuns, Busy, CapacitySound
<1>2. Cardinality(BusyRuns) \in Nat
  BY <1>1, FS_CardinalityType
<1>3. active = others + Cardinality(BusyRuns) /\ active <= MaxConcurrency /\ MaxConcurrency \in Nat
      /\ active \in Nat /\ others \in Nat
  BY AgentAssumption DEF CapacitySound, CapacityExact, BusyRuns, AgentTypes
<1>4. \/ active < MaxConcurrency /\ active' = active + 1 /\ others' = others + 1
      \/ active' = active - 1 /\ others' = others - 1
  BY DEF AdmitOther, LeaveOther
<1>5. active' = others' + Cardinality(BusyRuns') /\ active' <= MaxConcurrency
  BY <1>1, <1>2, <1>3, <1>4
<1>6. QED
  BY <1>1, <1>5 DEF CapacitySound, CapacityExact, BusyRuns

LEMMA RestartKeepsCapacity == ASSUME AgentRestart PROVE CapacitySound'
<1>1. BusyRuns' = {}
  BY DEF AgentRestart, BusyRuns, Busy
<1>2. IsFiniteSet(BusyRuns') /\ Cardinality(BusyRuns') = 0
  BY <1>1, FS_EmptySet
<1>3. active' = 0 /\ others' = 0 /\ MaxConcurrency \in Nat
  BY AgentAssumption DEF AgentRestart
<1>4. active' = others' + Cardinality(BusyRuns') /\ active' <= MaxConcurrency
  BY <1>2, <1>3
<1>5. QED
  BY <1>2, <1>4 DEF CapacitySound, CapacityExact, BusyRuns

----------------------------------------------------------------------------
\* Types of the agent's variables.
LEMMA SetTypes ==
    ASSUME AgentTypes, NEW r \in Runs, NEW w \in Work, Set(r, w)
    PROVE  objects' \subseteq Runs \X Nat
BY DEF AgentTypes, Set, Work

LEMMA WorkSet ==
    ASSUME TypeOK, MemorySound, NEW r \in Runs, AgentStep(r)
    PROVE  objects' = objects \/ \E w \in Work : Set(r, w)
<1>1. work' \in [Runs -> Work]
  BY AgentKeepsMemory DEF MemorySound, MemoryOK
<1>2. ASSUME NEW w, Set(r, w) PROVE w \in Work
  BY <1>1, <1>2 DEF Set, MemorySound, MemoryOK
<1>3. objects' = objects \/ \E w : Set(r, w)
  BY DEF AgentStep, Admit, Refuse, RejectInput, AcceptInput, OpenPage, SkipStep, StepThrows, RunStep, EndJourney,
         TakeFinalScreenshot, Respond
<1>4. QED
  BY <1>2, <1>3

LEMMA AgentKeepsTypes ==
    ASSUME TypeOK, MemorySound, CapacitySound, NEW r \in Runs, AgentStep(r)
    PROVE  AgentTypes'
<1>1. AgentTypes
  BY DEF TypeOK, AgentTypes
<1>2. objects' \subseteq Runs \X Nat
  BY <1>1, WorkSet, SetTypes DEF AgentTypes
<1>3. \/ call' = call \/ \E how \in {"answered", "rejected"} : Answer(r, how)
  BY DEF AgentStep, Admit, Refuse, RejectInput, AcceptInput, OpenPage, SkipStep, StepThrows, RunStep, EndJourney,
         TakeFinalScreenshot, Respond
<1>4. call' \in [Runs -> CallStates]
  BY <1>1, <1>3 DEF AgentTypes, Answer, CallStates
<1>5. phase' = phase \/ \E p \in Phases : phase' = [phase EXCEPT ![r] = p]
  BY DEF AgentStep, Admit, Refuse, RejectInput, AcceptInput, OpenPage, SkipStep, StepThrows, RunStep, EndJourney,
         TakeFinalScreenshot, Respond, Leave, Phases
<1>6. phase' \in [Runs -> Phases]
  BY <1>1, <1>5 DEF AgentTypes
<1>7. others' = others /\ (active' = active \/ active' = active + 1 \/ (active' = active - 1 /\ Busy(r)))
  BY DEF AgentStep, Admit, Refuse, RejectInput, AcceptInput, OpenPage, SkipStep, StepThrows, RunStep, EndJourney,
         TakeFinalScreenshot, Respond, Leave, Busy
<1>8. active' \in Nat /\ others' \in Nat
  BY <1>1, <1>7, BusyIsCounted DEF AgentTypes
<1>9. QED
  BY <1>2, <1>4, <1>6, <1>8 DEF AgentTypes

EvidenceTypes ==
    /\ rows \subseteq Runs \X Nat
    /\ overdue \subseteq rows /\ doubted \subseteq Runs \X Nat /\ purging \subseteq overdue
    /\ store \in [Runs -> [left : SUBSET (Runs \X Nat), kept : SUBSET (Runs \X Nat)]]

RunTypes ==
    /\ EvidenceTypes
    /\ run \in [Runs -> Active \cup Terminal \cup {"none"}]
    /\ job \in [Runs -> JobsOpen \cup {"none", "SUCCEEDED", "FAILED", "CANCELLED"}]
    /\ cancel \in [Runs -> BOOLEAN] /\ expired \in [Runs -> BOOLEAN] /\ attempts \in [Runs -> Nat]
    /\ failures \in Nat /\ alert \in {"none", "OPEN", "RESOLVED"}
    /\ pc \in [Runs -> Places] /\ stop \in [Runs -> {"no", "requested", "lost"}]
    /\ error \in [Runs -> BOOLEAN] /\ snapshot \in [Runs -> Nat]
    /\ outcome \in [Runs -> Good \cup {"FAILED", "none"}]
    /\ up \in BOOLEAN /\ faults \in 0..MaxFaults

Sound == TypeOK /\ MemorySound /\ CapacitySound /\ RunsSound /\ ArtifactsBacked

LEMMA SoundNext ==
    ASSUME AgentTypes', RunTypes', MemorySound', CapacitySound', RunsSound', ArtifactsBacked'
    PROVE  Sound'
BY DEF Sound, TypeOK, AgentTypes, RunTypes, EvidenceTypes

\* The parts of the agent that the steps of the API service leave alone.
LEMMA AgentKept ==
    ASSUME Sound, UNCHANGED <<phase, active, others, work>>, MemoryOK'
    PROVE  MemorySound' /\ CapacitySound'
<1>1. CapacitySound'
  BY SameBusy DEF Sound
<1>2. JourneysSound'
  BY DEF Sound, MemorySound, JourneysSound
<1>3. QED
  BY <1>1, <1>2 DEF MemorySound

LEMMA AgentStill ==
    ASSUME Sound, UNCHANGED agentVars
    PROVE  MemorySound' /\ CapacitySound' /\ AgentTypes'
<1>1. MemoryOK' /\ UNCHANGED <<phase, active, others, work>> /\ AgentTypes'
  BY DEF Sound, MemorySound, MemoryOK, agentVars, TypeOK, AgentTypes
<1>2. QED
  BY <1>1, AgentKept

\* The artifacts, and what the executor remembers of them.
LEMMA EvidenceKept ==
    ASSUME Sound, UNCHANGED <<rowVars, store>>
    PROVE  EvidenceTypes'
BY DEF Sound, TypeOK, EvidenceTypes, rowVars

LEMMA RequestsKeep ==
    ASSUME Sound, NEW r \in Runs, StartRun(r) \/ CancelRun(r)
    PROVE  Sound'
<1>1. MemorySound' /\ CapacitySound' /\ AgentTypes'
  BY AgentStill DEF StartRun, CancelRun
<1>2. RunTypes'
  BY DEF Sound, TypeOK, RunTypes, EvidenceTypes, StartRun, CancelRun, sessionVars, Active, Terminal, Good, Failed, JobsOpen, rowVars
<1>3. RunsSound'
  BY DEF Sound, TypeOK, RunsSound, RowsOf, StartRun, CancelRun, sessionVars, agentVars, Active, JobsOpen, rowVars
<1>4. ArtifactsBacked'
  BY DEF Sound, ArtifactsBacked, StartRun, CancelRun, agentVars, rowVars
<1>5. QED
  BY <1>1, <1>2, <1>3, <1>4, SoundNext

LEMMA ClaimKeeps ==
    ASSUME Sound, NEW r \in Runs, Claim(r)
    PROVE  Sound'
<1>1. MemorySound' /\ CapacitySound' /\ AgentTypes'
  BY AgentStill DEF Claim
<1>2. RunTypes'
  BY DEF Sound, TypeOK, RunTypes, EvidenceTypes, Claim, Goto, JobsOpen, Places, rowVars
<1>3. RunsSound'
  BY DEF Sound, TypeOK, RunsSound, RowsOf, Claim, Goto, agentVars, rowVars
<1>4. ArtifactsBacked'
  BY DEF Sound, ArtifactsBacked, Claim, agentVars, rowVars
<1>5. QED
  BY <1>1, <1>2, <1>3, <1>4, SoundNext

LEMMA LoadKeeps ==
    ASSUME Sound, NEW r \in Runs, Load(r)
    PROVE  Sound'
<1>1. MemorySound' /\ CapacitySound' /\ AgentTypes'
  BY AgentStill DEF Load
<1>2. RunTypes'
  <2>1. EvidenceTypes'
    BY EvidenceKept DEF Load, dbVars
  <2>2. pc \in [Runs -> Places] /\ error \in [Runs -> BOOLEAN] /\ snapshot \in [Runs -> Nat] /\ failures \in Nat
    BY DEF Sound, TypeOK
  <2>3. pc' \in [Runs -> Places] /\ error' \in [Runs -> BOOLEAN] /\ snapshot' \in [Runs -> Nat]
    BY <2>2 DEF Load, Goto, Places
  <2>4. UNCHANGED <<run, job, cancel, expired, attempts, failures, alert, stop, outcome, up, faults>>
    BY DEF Load, dbVars
  <2>5. QED
    BY <2>1, <2>3, <2>4 DEF Sound, TypeOK, RunTypes
<1>3. RunsSound'
  BY DEF Sound, TypeOK, RunsSound, RowsOf, Load, Goto, agentVars, dbVars, rowVars
<1>4. ArtifactsBacked'
  BY DEF Sound, ArtifactsBacked, Load, agentVars, dbVars, rowVars
<1>5. QED
  BY <1>1, <1>2, <1>3, <1>4, SoundNext

\* Steps of the executor before the call, and failures around it.
LEMMA PreparationKeeps ==
    ASSUME Sound, NEW r \in Runs, Begin(r) \/ PrepareFails(r) \/ PersistFails(r)
    PROVE  Sound'
<1>1. MemorySound' /\ CapacitySound' /\ AgentTypes'
  BY AgentStill DEF Begin, PrepareFails, PersistFails
<1>2. RunTypes'
  <2>1. EvidenceTypes'
    BY EvidenceKept DEF Begin, PrepareFails, PersistFails
  <2>2. run' \in [Runs -> Active \cup Terminal \cup {"none"}]
    BY DEF Begin, PrepareFails, PersistFails, UpdateRunState, FinishFailure, Active, Terminal, Failed, Sound, TypeOK
  <2>3. pc' \in [Runs -> Places]
    BY DEF Begin, PrepareFails, PersistFails, Goto, Places, Sound, TypeOK
  <2>4. UNCHANGED <<job, cancel, expired, attempts, failures, alert, stop, error, snapshot, outcome, up, faults>>
    BY DEF Begin, PrepareFails, PersistFails
  <2>5. QED
    BY <2>1, <2>2, <2>3, <2>4 DEF Sound, TypeOK, RunTypes
<1>3. RunsSound'
  <2>1. UNCHANGED <<rows, doubted, store, call, reply, outcome, job>>
    BY DEF Begin, PrepareFails, PersistFails, agentVars, rowVars
  <2>2. \A q \in Runs : q # r => UNCHANGED <<run[q], pc[q]>>
    BY DEF Begin, PrepareFails, PersistFails, Goto, UpdateRunState, FinishFailure, Sound, TypeOK
  <2>3. /\ pc[r] \in {"loaded", "preparing", "persisting"} /\ run'[r] # "none"
        /\ pc'[r] = "finishing" \/ (pc[r] = "loaded" /\ pc'[r] = "preparing" /\ run'[r] = "STARTING")
    BY DEF Begin, PrepareFails, PersistFails, Goto, UpdateRunState, FinishFailure, Sound, TypeOK
  <2>4. job[r] \notin {"none", "QUEUED"}
    BY <2>3 DEF Sound, RunsSound
  <2>5. QED
    BY <2>1, <2>2, <2>3, <2>4 DEF Sound, RunsSound, RowsOf
<1>4. ArtifactsBacked'
  BY DEF Sound, ArtifactsBacked, Begin, PrepareFails, PersistFails, agentVars, rowVars
<1>5. QED
  BY <1>1, <1>2, <1>3, <1>4, SoundNext

LEMMA PostKeeps ==
    ASSUME Sound, NEW r \in Runs, Post(r)
    PROVE  Sound'
<1>1. MemoryOK' /\ AgentTypes'
  BY DEF Post, Sound, MemorySound, MemoryOK, TypeOK, AgentTypes, CallStates
<1>2. MemorySound' /\ CapacitySound'
  BY <1>1, AgentKept DEF Post
<1>3. RunTypes'
  BY DEF Sound, TypeOK, RunTypes, EvidenceTypes, Post, Goto, UpdateRunState, Places, Active, rowVars
<1>4. RunsSound'
  BY DEF Sound, TypeOK, RunsSound, RowsOf, Post, Goto, UpdateRunState, rowVars
<1>5. ArtifactsBacked'
  BY DEF Sound, ArtifactsBacked, Post, rowVars
<1>6. QED
  BY <1>1, <1>2, <1>3, <1>4, <1>5, SoundNext

LEMMA AgentFailsKeeps ==
    ASSUME Sound, NEW r \in Runs, AgentFails(r)
    PROVE  Sound'
<1>1. objects' \subseteq objects
  BY DEF AgentFails, CleanupUploads
<1>2. MemoryOK' /\ AgentTypes'
  BY <1>1 DEF AgentFails, Sound, MemorySound, MemoryOK, TypeOK, AgentTypes, CallStates
<1>3. MemorySound' /\ CapacitySound'
  BY <1>2, AgentKept DEF AgentFails
<1>4. RunTypes'
  BY DEF Sound, TypeOK, RunTypes, EvidenceTypes, AgentFails, Goto, FinishFailure, Places, Terminal, Failed, rowVars
<1>5. RunsSound'
  <2>1. UNCHANGED <<rows, doubted, store, reply, outcome, job>> /\ pc[r] = "waiting"
    BY DEF AgentFails, rowVars
  <2>2. \A q \in Runs : q # r => UNCHANGED <<run[q], pc[q], call[q]>>
    BY DEF AgentFails, Goto, FinishFailure
  <2>3. pc'[r] = "finishing" /\ run'[r] \in {"FAILED", "CANCELLED"} /\ call'[r] # "answered"
    BY DEF AgentFails, Goto, FinishFailure, Sound, TypeOK
  <2>4. RowsOf(r) = {} /\ job[r] \notin {"none", "QUEUED"}
    BY <2>1 DEF Sound, RunsSound
  <2>5. QED
    BY <2>1, <2>2, <2>3, <2>4 DEF Sound, RunsSound, RowsOf
<1>6. ArtifactsBacked'
  <2>1. RowsOf(r) = {}
    BY DEF Sound, RunsSound, AgentFails
  <2>2. UNCHANGED <<rows, overdue, doubted>> /\ \A o \in objects : o \notin objects' => o[1] = r
    BY DEF AgentFails, CleanupUploads, Slots, rowVars
  <2>3. QED
    BY <2>1, <2>2 DEF Sound, ArtifactsBacked, RowsOf
<1>7. QED
  BY <1>2, <1>3, <1>4, <1>5, <1>6, SoundNext

LEMMA ReceiveKeeps ==
    ASSUME Sound, NEW r \in Runs, Receive(r)
    PROVE  Sound'
<1>1. MemorySound' /\ CapacitySound' /\ AgentTypes'
  BY AgentStill DEF Receive
<1>2. reply[r].status \in Final
  BY DEF Sound, RunsSound, Receive, rowVars
<1>3. RunTypes'
  <2>1. Announced(r) \cap Slots(r) \subseteq Runs \X Nat
    BY AgentAssumption DEF Slots
  <2>2. UNCHANGED rowVars /\ store' = [store EXCEPT ![r] = [left |-> Announced(r) \cap Slots(r), kept |-> {}]]
    BY DEF Receive
  <2>3. EvidenceTypes'
    BY <2>1, <2>2 DEF Sound, TypeOK, EvidenceTypes, rowVars
  <2>4. QED
    BY <1>2, <2>3 DEF Sound, TypeOK, RunTypes, Receive, Goto, UpdateRunState, Places, Active, Final
<1>4. RunsSound'
  BY <1>2 DEF Sound, TypeOK, RunsSound, RowsOf, Receive, Goto, UpdateRunState, agentVars, rowVars
<1>5. ArtifactsBacked'
  BY DEF Sound, ArtifactsBacked, Receive, agentVars, rowVars
<1>6. QED
  BY <1>1, <1>3, <1>4, <1>5, SoundNext

LEMMA PersistResultKeeps ==
    ASSUME Sound, NEW r \in Runs, PersistResult(r)
    PROVE  Sound'
<1>1. MemorySound' /\ CapacitySound' /\ AgentTypes'
  BY AgentStill DEF PersistResult
<1>2. RunTypes'
  <2>1. snapshot[r] + 1 \in Nat /\ outcome[r] \in Active \cup Terminal \cup {"none"}
    BY DEF Sound, TypeOK, Terminal, Failed
  <2>2. failures' \in Nat /\ alert' \in {"none", "OPEN", "RESOLVED"}
    BY <2>1 DEF Sound, TypeOK, PersistResult, AlertAfter
  <2>3. QED
    BY <2>1, <2>2 DEF Sound, TypeOK, RunTypes, EvidenceTypes, PersistResult, Goto, Places, rowVars
<1>3. RunsSound'
  BY DEF Sound, TypeOK, RunsSound, RowsOf, PersistResult, Goto, agentVars, Final, Good, rowVars
<1>4. ArtifactsBacked'
  BY DEF Sound, ArtifactsBacked, PersistResult, agentVars, rowVars
<1>5. QED
  BY <1>1, <1>2, <1>3, <1>4, SoundNext

\* A payload is taken out of the list; its row is one of the run, and its object is there.
LEMMA StoreArtifactKeeps ==
    ASSUME Sound, NEW r \in Runs, StoreArtifact(r)
    PROVE  Sound'
<1>1. PICK a \in store[r].left :
         \/ store' = [store EXCEPT ![r] = [left |-> @.left \ {a}, kept |-> @.kept]] /\ UNCHANGED <<rows, doubted, outcome>>
         \/ /\ a \in objects /\ rows' = rows \cup {a}
            /\ store' = [store EXCEPT ![r] = [left |-> @.left \ {a}, kept |-> @.kept \cup {a}]]
            /\ UNCHANGED <<doubted, outcome>>
         \/ /\ a \in objects
            /\ UNCHANGED <<rows, doubted>> \/ (rows' = rows \cup {a} /\ doubted' = doubted \cup {a})
            /\ store' = [store EXCEPT ![r] = [left |-> {}, kept |-> @.kept]]
            /\ outcome' = [outcome EXCEPT ![r] = Warned(@)]
  BY DEF StoreArtifact
<1>2. /\ pc[r] = "storing" /\ UNCHANGED <<run, job, cancel, expired, attempts, overdue, purging, failures, alert, pc>>
      /\ UNCHANGED <<stop, error, snapshot, up, faults>> /\ UNCHANGED agentVars
  BY DEF StoreArtifact
<1>3. MemorySound' /\ CapacitySound' /\ AgentTypes'
  BY <1>2, AgentStill
<1>4. /\ a[1] = r /\ a \in Runs \X Nat /\ store[r].left \subseteq Slots(r) /\ RowsOf(r) \subseteq store[r].kept \cup doubted
      /\ outcome[r] \in Final
  BY <1>1, <1>2 DEF Sound, RunsSound, Slots, TypeOK
<1>5. /\ store[r] \in [left : SUBSET (Runs \X Nat), kept : SUBSET (Runs \X Nat)]
      /\ \A q \in Runs : q # r => store'[q] = store[q]
  <2>1. \E v : store' = [store EXCEPT ![r] = v]
    BY <1>1
  <2>2. QED
    BY <2>1 DEF Sound, TypeOK
<1>6. \/ store'[r] = [left |-> store[r].left \ {a}, kept |-> store[r].kept] /\ UNCHANGED <<rows, doubted, outcome>>
      \/ /\ store'[r] = [left |-> store[r].left \ {a}, kept |-> store[r].kept \cup {a}]
         /\ rows' = rows \cup {a} /\ UNCHANGED <<doubted, outcome>>
      \/ /\ store'[r] = [left |-> {}, kept |-> store[r].kept]
         /\ UNCHANGED <<rows, doubted>> \/ (rows' = rows \cup {a} /\ doubted' = doubted \cup {a})
         /\ outcome' = [outcome EXCEPT ![r] = Warned(@)]
  <2>1. \A v : store' = [store EXCEPT ![r] = v] => store'[r] = v
    <3>1. r \in DOMAIN store
      BY DEF Sound, TypeOK
    <3>2. QED
      BY <3>1
  <2>2. \/ store'[r] = [left |-> store[r].left \ {a}, kept |-> store[r].kept] /\ UNCHANGED <<rows, doubted, outcome>>
        \/ store'[r] = [left |-> store[r].left \ {a}, kept |-> store[r].kept \cup {a}]
           /\ rows' = rows \cup {a} /\ UNCHANGED <<doubted, outcome>>
        \/ store'[r] = [left |-> {}, kept |-> store[r].kept]
    BY <1>1, <2>1
  <2>3. QED
    BY <1>1, <2>1, <2>2
<1>7. EvidenceTypes'
  <2>1. store' \in [Runs -> [left : SUBSET (Runs \X Nat), kept : SUBSET (Runs \X Nat)]]
    <3>1. store'[r] \in [left : SUBSET (Runs \X Nat), kept : SUBSET (Runs \X Nat)]
      BY <1>4, <1>5, <1>6
    <3>2. \E v : store' = [store EXCEPT ![r] = v]
      BY <1>1
    <3>3. QED
      BY <1>5, <3>1, <3>2 DEF Sound, TypeOK
  <2>2. rows' \subseteq Runs \X Nat /\ rows \subseteq rows' /\ doubted' \subseteq Runs \X Nat
    BY <1>4, <1>6 DEF Sound, TypeOK
  <2>3. QED
    BY <1>2, <2>1, <2>2 DEF Sound, TypeOK, EvidenceTypes
<1>8. outcome' = outcome \/ outcome' = [outcome EXCEPT ![r] = Warned(@)]
  BY <1>6
<1>9. Warned(outcome[r]) \in Final /\ Warned(outcome[r]) # "SUCCESS"
  BY <1>4 DEF Warned, Final, Good
<1>10. RunTypes'
  <2>1. outcome' \in [Runs -> Good \cup {"FAILED", "none"}]
    BY <1>8, <1>9 DEF Sound, TypeOK, Final
  <2>2. QED
    BY <1>2, <1>7, <2>1 DEF Sound, TypeOK, RunTypes
<1>11. RunsSound'
  <2>1. \A q \in Runs : q # r => RowsOf(q)' = RowsOf(q) /\ outcome'[q] = outcome[q] /\ doubted \subseteq doubted'
    BY <1>4, <1>6, <1>8 DEF RowsOf, Sound, TypeOK
  <2>2. RowsOf(r)' \subseteq store'[r].kept \cup doubted' /\ store'[r].left \subseteq Slots(r)
    BY <1>4, <1>6 DEF RowsOf
  <2>3. outcome'[r] \in Final /\ (outcome'[r] = "SUCCESS" => outcome[r] = "SUCCESS")
    BY <1>4, <1>8, <1>9 DEF Sound, TypeOK
  <2>4. UNCHANGED <<run, job, pc, call, reply>>
    BY <1>2 DEF agentVars
  <2>5. job[r] \notin {"none", "QUEUED"}
    BY <1>2 DEF Sound, RunsSound
  <2>6. QED
    BY <1>2, <1>5, <2>1, <2>2, <2>3, <2>4, <2>5 DEF Sound, RunsSound
<1>12. ArtifactsBacked'
  BY <1>1, <1>2 DEF Sound, ArtifactsBacked, agentVars
<1>13. QED
  BY <1>3, <1>10, <1>11, <1>12, SoundNext

\* The cleanup deletes slots of the run that were not stored.
LEMMA EndStoreKeeps ==
    ASSUME Sound, NEW r \in Runs, EndStore(r)
    PROVE  Sound'
<1>1. /\ pc[r] = "storing" /\ pc' = [pc EXCEPT ![r] = "persisting"]
      /\ outcome' = [outcome EXCEPT ![r] = IF reply[r].uploadFailures > 0 THEN Warned(@) ELSE @]
      /\ UNCHANGED <<call, phase, active, others, work, reply, dbVars, stop, error, snapshot, store, up, faults>>
  BY DEF EndStore, Goto
<1>2. objects' \subseteq objects /\ \A o \in objects : o \notin objects' => o[1] = r /\ o \notin store[r].kept
  BY DEF EndStore, CleanupUploads, Slots
<1>3. /\ RowsOf(r) \subseteq store[r].kept \cup doubted /\ outcome[r] \in Final /\ call[r] = "answered"
      /\ outcome[r] = "SUCCESS" => reply[r].status = "SUCCESS"
  BY <1>1 DEF Sound, RunsSound
<1>4. MemoryOK' /\ AgentTypes'
  BY <1>1, <1>2 DEF Sound, MemorySound, MemoryOK, TypeOK, AgentTypes
<1>5. MemorySound' /\ CapacitySound'
  BY <1>1, <1>4, AgentKept
<1>6. /\ outcome'[r] \in Final
      /\ outcome'[r] = "SUCCESS" => reply[r].status = "SUCCESS" /\ ~ (reply[r].uploadFailures > 0)
  BY <1>1, <1>3 DEF Sound, TypeOK, Warned, Final, Good
<1>7. RunTypes'
  <2>1. outcome' \in [Runs -> Good \cup {"FAILED", "none"}]
    BY <1>1, <1>6 DEF Sound, TypeOK, Final
  <2>2. QED
    BY <1>1, <2>1 DEF Sound, TypeOK, RunTypes, EvidenceTypes, Places, dbVars, rowVars
<1>8. RunsSound'
  <2>1. reply[r].uploadFailures \in Nat
    BY DEF Sound, MemorySound, MemoryOK, Reply
  <2>2. ASSUME NEW q \in Runs, q # r PROVE pc'[q] = pc[q] /\ outcome'[q] = outcome[q]
    BY <1>1, <2>2 DEF Sound, TypeOK
  <2>3. pc'[r] = "persisting" /\ UNCHANGED <<run, job, call, reply, store, rows, doubted>>
    BY <1>1 DEF Sound, TypeOK, dbVars, rowVars
  <2>4. run[r] \in {"STARTING", "RUNNING", "ANALYZING", "ABORTED"} /\ job[r] \notin {"none", "QUEUED"}
    BY <1>1 DEF Sound, RunsSound
  <2>5. QED
    BY <1>3, <1>6, <2>1, <2>2, <2>3, <2>4 DEF Sound, RunsSound, RowsOf
<1>9. ArtifactsBacked'
  BY <1>1, <1>2, <1>3 DEF Sound, ArtifactsBacked, RowsOf, dbVars, rowVars
<1>10. QED
  BY <1>4, <1>5, <1>7, <1>8, <1>9, SoundNext

\* The purge of orphans leaves what has a row, and that of the expired what has not expired.
LEMMA PurgeKeeps ==
    ASSUME Sound, PurgeOrphans \/ PurgeExpired
    PROVE  Sound'
<1>1. /\ UNCHANGED <<call, phase, active, others, work, reply, run, job, cancel, expired, attempts, failures, alert>>
      /\ UNCHANGED <<rows, overdue, doubted, sessionVars, up, faults>> /\ purging' \subseteq overdue
  BY DEF PurgeOrphans, PurgeListed, PurgeExpired, dbVars, rowVars, Sound, TypeOK
<1>2. objects' \subseteq objects /\ \A o \in rows \ overdue : o \in objects => o \in objects'
  BY DEF PurgeOrphans, PurgeListed, PurgeExpired
<1>3. MemoryOK' /\ AgentTypes'
  BY <1>1, <1>2 DEF Sound, MemorySound, MemoryOK, TypeOK, AgentTypes
<1>4. MemorySound' /\ CapacitySound'
  BY <1>1, <1>3, AgentKept
<1>5. RunTypes'
  BY <1>1 DEF Sound, TypeOK, RunTypes, EvidenceTypes, sessionVars
<1>6. RunsSound'
  BY <1>1 DEF Sound, RunsSound, RowsOf, sessionVars
<1>7. ArtifactsBacked'
  BY <1>1, <1>2 DEF Sound, ArtifactsBacked
<1>8. QED
  BY <1>3, <1>4, <1>5, <1>6, <1>7, SoundNext

\* Rows expire, and are deleted.
LEMMA ExpiryKeeps ==
    ASSUME Sound, (\E r \in Runs : Expire(r)) \/ DeleteExpiredRow
    PROVE  Sound'
<1>1. /\ UNCHANGED agentVars
      /\ UNCHANGED <<run, job, cancel, expired, attempts, failures, alert, doubted, sessionVars, up, faults>>
  BY DEF Expire, DeleteExpiredRow
<1>2. /\ rows' \subseteq rows /\ overdue' \subseteq rows' /\ purging' \subseteq overdue'
      /\ rows' \ overdue' \subseteq rows \ overdue
  BY DEF Expire, DeleteExpiredRow, Sound, TypeOK
<1>3. MemorySound' /\ CapacitySound' /\ AgentTypes'
  BY <1>1, AgentStill
<1>4. RunTypes'
  BY <1>1, <1>2 DEF Sound, TypeOK, RunTypes, EvidenceTypes, sessionVars
<1>5. RunsSound'
  <2>1. \A q \in Runs : RowsOf(q)' \subseteq RowsOf(q)
    BY <1>2 DEF RowsOf
  <2>2. UNCHANGED <<run, job, pc, call, reply, outcome, store, doubted>>
    BY <1>1 DEF agentVars, sessionVars
  <2>3. QED
    BY <2>1, <2>2 DEF Sound, RunsSound
<1>6. ArtifactsBacked'
  BY <1>1, <1>2 DEF Sound, ArtifactsBacked, agentVars
<1>7. QED
  BY <1>3, <1>4, <1>5, <1>6, SoundNext

\* The goroutines of some runs end, orderly or not.
LEMMA ForgetKeeps ==
    ASSUME Sound, NEW gone \in SUBSET Runs, Forget(gone),
           UNCHANGED <<phase, active, others, work, objects, rowVars>>
    PROVE  AgentTypes' /\ MemorySound' /\ CapacitySound' /\ ArtifactsBacked'
<1>1. NoReply \in Reply
  BY DEF NoReply, Reply
<1>2. MemoryOK'
  BY <1>1 DEF Forget, Sound, MemorySound, MemoryOK
<1>3. AgentTypes'
  BY DEF Forget, Sound, TypeOK, AgentTypes, CallStates
<1>4. QED
  BY <1>2, <1>3, AgentKept DEF Sound, ArtifactsBacked, rowVars

LEMMA CompleteKeeps ==
    ASSUME Sound, NEW r \in Runs, Complete(r)
    PROVE  Sound'
<1>1. AgentTypes' /\ MemorySound' /\ CapacitySound' /\ ArtifactsBacked'
  BY ForgetKeeps DEF Complete
<1>2. RunTypes'
  <2>1. /\ pc' \in [Runs -> Places] /\ stop' \in [Runs -> {"no", "requested", "lost"}]
        /\ error' \in [Runs -> BOOLEAN] /\ snapshot' \in [Runs -> Nat]
        /\ outcome' \in [Runs -> Good \cup {"FAILED", "none"}]
        /\ store' \in [Runs -> [left : SUBSET (Runs \X Nat), kept : SUBSET (Runs \X Nat)]]
    BY DEF Complete, Forget, NoStore, Sound, TypeOK, Places
  <2>2. run' \in [Runs -> Active \cup Terminal \cup {"none"}]
    BY DEF Complete, FinishFailure, Sound, TypeOK, Terminal, Failed
  <2>3. job' \in [Runs -> JobsOpen \cup {"none", "SUCCEEDED", "FAILED", "CANCELLED"}]
    BY DEF Complete, Sound, TypeOK
  <2>4. QED
    BY <2>1, <2>2, <2>3 DEF Complete, Sound, TypeOK, RunTypes, EvidenceTypes, rowVars
<1>3. RunsSound'
  <2>1. /\ pc' = [pc EXCEPT ![r] = "none"] /\ outcome' = [outcome EXCEPT ![r] = "none"]
        /\ reply' = [reply EXCEPT ![r] = NoReply] /\ call'[r] # "answered"
        /\ \A q \in Runs : q # r => call'[q] = call[q]
    BY DEF Complete, Forget, Sound, TypeOK, MemorySound, MemoryOK
  <2>2. pc[r] = "finishing" /\ rows' = rows /\ doubted' = doubted
        /\ store'[r].left = {} /\ \A q \in Runs : q # r => store'[q] = store[q]
    BY DEF Complete, Forget, NoStore, rowVars
  <2>3. job[r] \notin {"none", "QUEUED"} /\ run[r] # "none"
    BY <2>2 DEF Sound, RunsSound, rowVars
  <2>4. job'[r] \notin {"none", "QUEUED"} /\ run'[r] # "none"
        /\ \A q \in Runs : q # r => job'[q] = job[q] /\ run'[q] = run[q]
    BY <2>3 DEF Complete, FinishFailure, Sound, TypeOK
  <2>5. \A q \in Runs : RowsOf(q)' = RowsOf(q)
    BY <2>2 DEF RowsOf
  <2>6. \A q \in Runs : q # r => pc'[q] = pc[q] /\ outcome'[q] = outcome[q] /\ reply'[q] = reply[q]
    BY <2>1 DEF Sound, TypeOK, MemorySound, MemoryOK
  <2>7. pc'[r] = "none"
    BY <2>1 DEF Sound, TypeOK
  <2>8. QED
    BY <2>1, <2>2, <2>4, <2>5, <2>6, <2>7 DEF Sound, RunsSound, rowVars
<1>4. QED
  BY <1>1, <1>2, <1>3, SoundNext

LEMMA CrashKeeps ==
    ASSUME Sound, Crash
    PROVE  Sound'
<1>1. AgentTypes' /\ MemorySound' /\ CapacitySound' /\ ArtifactsBacked'
  BY ForgetKeeps DEF Crash, dbVars, rowVars
<1>2. RunTypes'
  <2>1. /\ pc' \in [Runs -> Places] /\ stop' \in [Runs -> {"no", "requested", "lost"}]
        /\ error' \in [Runs -> BOOLEAN] /\ snapshot' \in [Runs -> Nat]
        /\ outcome' \in [Runs -> Good \cup {"FAILED", "none"}]
        /\ store' \in [Runs -> [left : SUBSET (Runs \X Nat), kept : SUBSET (Runs \X Nat)]]
    BY DEF Crash, Forget, NoStore, Sound, TypeOK, Places
  <2>2. faults' \in 0..MaxFaults
    BY BrowserAssumption DEF Crash, Sound, TypeOK
  <2>3. QED
    BY <2>1, <2>2 DEF Crash, dbVars, Sound, TypeOK, RunTypes, EvidenceTypes, rowVars
<1>3. RunsSound'
  <2>1. \A q \in Runs : pc'[q] = "none" /\ call'[q] # "answered" /\ store'[q].left = {}
    BY DEF Crash, Forget, NoStore
  <2>2. UNCHANGED <<run, job>> /\ \A q \in Runs : RowsOf(q)' = RowsOf(q)
    BY DEF Crash, dbVars, RowsOf, rowVars
  <2>3. QED
    BY <2>1, <2>2 DEF Sound, RunsSound, rowVars
<1>4. QED
  BY <1>1, <1>2, <1>3, SoundNext

\* The watcher, the lease and the reaper.
LEMMA LeaseKeeps ==
    ASSUME Sound, NEW r \in Runs, Watch(r) \/ LeaseExpires(r) \/ Reap(r)
    PROVE  Sound'
<1>1. MemorySound' /\ CapacitySound' /\ AgentTypes'
  BY AgentStill DEF Watch, LeaseExpires, Reap
<1>2. RunTypes'
  <2>1. CASE Watch(r)
    BY <2>1 DEF Sound, TypeOK, RunTypes, EvidenceTypes, Watch, rowVars
  <2>2. CASE LeaseExpires(r)
    BY <2>2, BrowserAssumption DEF Sound, TypeOK, RunTypes, EvidenceTypes, LeaseExpires, sessionVars, rowVars
  <2>3. CASE Reap(r)
    BY <2>3 DEF Sound, TypeOK, RunTypes, EvidenceTypes, Reap, sessionVars, Terminal, Failed, rowVars
  <2>4. QED
    BY <2>1, <2>2, <2>3
<1>3. RunsSound'
  <2>1. CASE Watch(r)
    BY <2>1 DEF Sound, TypeOK, RunsSound, RowsOf, Watch, agentVars, rowVars
  <2>2. CASE LeaseExpires(r)
    BY <2>2 DEF Sound, TypeOK, RunsSound, RowsOf, LeaseExpires, agentVars, sessionVars, rowVars
  <2>3. CASE Reap(r)
    BY <2>3 DEF Sound, TypeOK, RunsSound, RowsOf, Reap, agentVars, sessionVars, Active, rowVars
  <2>4. QED
    BY <2>1, <2>2, <2>3
<1>4. ArtifactsBacked'
  BY DEF Sound, ArtifactsBacked, Watch, LeaseExpires, Reap, agentVars, rowVars
<1>5. QED
  BY <1>1, <1>2, <1>3, <1>4, SoundNext

LEMMA ExecutorStopKeeps ==
    ASSUME Sound, Shutdown \/ Restart
    PROVE  Sound'
<1>1. MemorySound' /\ CapacitySound' /\ AgentTypes'
  BY AgentStill DEF Shutdown, Restart
<1>2. RunTypes'
  <2>1. up' \in BOOLEAN
    BY DEF Shutdown, Restart
  <2>2. faults' \in 0..MaxFaults
    <3>1. faults' = faults \/ (faults < MaxFaults /\ faults' = faults + 1)
      BY DEF Shutdown, Restart
    <3>2. QED
      BY <3>1, BrowserAssumption DEF Sound, TypeOK
  <2>3. UNCHANGED <<dbVars, sessionVars>>
    BY DEF Shutdown, Restart
  <2>4. QED
    BY <2>1, <2>2, <2>3 DEF Sound, TypeOK, RunTypes, EvidenceTypes, dbVars, sessionVars, rowVars
<1>3. RunsSound'
  BY DEF Sound, RunsSound, RowsOf, Shutdown, Restart, dbVars, sessionVars, agentVars, rowVars
<1>4. ArtifactsBacked'
  BY DEF Sound, ArtifactsBacked, Shutdown, Restart, dbVars, agentVars, rowVars
<1>5. QED
  BY <1>1, <1>2, <1>3, <1>4, SoundNext

LEMMA RestartAgentKeeps ==
    ASSUME Sound, RestartAgent
    PROVE  Sound'
<1>1. AgentRestart /\ UNCHANGED <<dbVars, sessionVars, up>> /\ faults' \in 0..MaxFaults
  BY BrowserAssumption DEF RestartAgent, Sound, TypeOK
<1>2. CapacitySound'
  BY <1>1, RestartKeepsCapacity
<1>3. MemorySound'
  BY <1>1, NewWorkType DEF AgentRestart, Sound, MemorySound, MemoryOK, JourneysSound
<1>4. AgentTypes'
  BY <1>1 DEF AgentRestart, Sound, TypeOK, AgentTypes, CallStates, Phases
<1>5. RunTypes'
  BY <1>1 DEF Sound, TypeOK, RunTypes, EvidenceTypes, dbVars, sessionVars, rowVars
<1>6. RunsSound'
  <2>1. \A q \in Runs : call'[q] = "answered" <=> call[q] = "answered"
    BY <1>1 DEF AgentRestart
  <2>2. reply' = reply
    BY <1>1 DEF AgentRestart
  <2>3. QED
    BY <1>1, <2>1, <2>2 DEF Sound, RunsSound, RowsOf, dbVars, sessionVars, rowVars
<1>7. ArtifactsBacked'
  BY <1>1 DEF AgentRestart, Sound, ArtifactsBacked, dbVars, rowVars
<1>8. QED
  BY <1>2, <1>3, <1>4, <1>5, <1>6, <1>7, SoundNext

\* The agent never takes an object away, and answers with a verdict.
LEMMA AgentKeeps ==
    ASSUME Sound, NEW r \in Runs, Agent(r)
    PROVE  Sound'
<1>1. AgentStep(r) /\ UNCHANGED <<dbVars, sessionVars, up, faults>>
  BY DEF Agent
<1>2. AgentTypes' /\ MemorySound' /\ CapacitySound'
  BY <1>1, AgentKeepsTypes, AgentKeepsMemory, AgentKeepsCapacity DEF Sound, TypeOK, AgentTypes
<1>3. RunTypes'
  BY <1>1 DEF Sound, TypeOK, RunTypes, EvidenceTypes, dbVars, sessionVars, rowVars
<1>4. objects \subseteq objects'
  BY <1>1 DEF AgentStep, Admit, Refuse, RejectInput, AcceptInput, OpenPage, SkipStep, StepThrows, RunStep, EndJourney,
         TakeFinalScreenshot, Respond, Set
<1>5. ArtifactsBacked'
  BY <1>1, <1>4 DEF Sound, ArtifactsBacked, dbVars, rowVars
<1>6. RunsSound'
  <2>1. CASE Respond(r)
    <3>1. work[r].verdict.status \in Final
      BY <2>1 DEF Respond, Sound, MemorySound, JourneysSound, Agrees
    <3>2. \A q \in Runs : q # r => call'[q] = call[q] /\ reply'[q] = reply[q]
      BY <2>1 DEF Respond, Answer, Sound, TypeOK, MemorySound, MemoryOK
    <3>3. call[r] # "sent" => call'[r] = call[r] /\ reply'[r] = reply[r]
      BY <2>1 DEF Respond, Answer, Sound, TypeOK, MemorySound, MemoryOK
    <3>4. call[r] = "sent" => call'[r] = "answered" /\ reply'[r].status = work[r].verdict.status
      BY <2>1 DEF Respond, Answer, Sound, TypeOK, MemorySound, MemoryOK
    <3>5. call[r] = "sent" => pc[r] \notin {"storing", "persisting"}
      BY DEF Sound, RunsSound, rowVars
    <3>6. UNCHANGED <<run, job, rows, doubted, store, pc, outcome>>
      BY <1>1 DEF dbVars, sessionVars, rowVars
    <3>7. ASSUME NEW q \in Runs
          PROVE  \/ call'[q] = call[q] /\ reply'[q] = reply[q]
                 \/ call'[q] = "answered" /\ reply'[q].status \in Final /\ pc[q] \notin {"storing", "persisting"}
      BY <3>1, <3>2, <3>3, <3>4, <3>5
    <3>8. QED
      BY <3>6, <3>7 DEF Sound, RunsSound, RowsOf, rowVars
  <2>2. CASE ~Respond(r)
    <3>1. reply' = reply /\ (call' = call \/ Answer(r, "rejected"))
      BY <1>1, <2>2 DEF AgentStep, Admit, Refuse, RejectInput, AcceptInput, OpenPage, SkipStep, StepThrows, RunStep,
             EndJourney, TakeFinalScreenshot, Set
    <3>2. \A q \in Runs : call'[q] = "answered" <=> call[q] = "answered"
      BY <3>1 DEF Answer, Sound, TypeOK
    <3>3. UNCHANGED <<run, job, rows, doubted, store, pc, outcome>>
      BY <1>1 DEF dbVars, sessionVars, rowVars
    <3>4. QED
      BY <3>1, <3>2, <3>3 DEF Sound, RunsSound, RowsOf, rowVars
  <2>3. QED
    BY <2>1, <2>2
<1>7. QED
  BY <1>2, <1>3, <1>5, <1>6, SoundNext

LEMMA OtherMonitorsKeep ==
    ASSUME Sound, AdmitOther \/ LeaveOther, UNCHANGED <<dbVars, sessionVars, up, faults>>
    PROVE  Sound'
<1>1. UNCHANGED <<call, phase, work, reply, objects>>
  BY DEF AdmitOther, LeaveOther
<1>2. AgentTypes
  BY DEF Sound, TypeOK, AgentTypes
<1>3. CapacitySound'
  BY <1>2, OthersKeepCapacity DEF Sound
<1>4. MemorySound'
  BY <1>1 DEF Sound, MemorySound, MemoryOK, JourneysSound
<1>5. AgentTypes'
  <2>1. others' \in Nat
    BY DEF AdmitOther, LeaveOther, Sound, TypeOK
  <2>2. active' \in Nat
    <3>1. others > 0 => active > 0
      <4>1. Cardinality(BusyRuns) \in Nat /\ active = others + Cardinality(BusyRuns)
        BY FS_CardinalityType DEF Sound, CapacitySound, CapacityExact, BusyRuns
      <4>2. QED
        BY <4>1 DEF Sound, TypeOK
    <3>2. QED
      BY <3>1 DEF AdmitOther, LeaveOther, Sound, TypeOK
  <2>3. QED
    BY <1>1, <2>1, <2>2 DEF Sound, TypeOK, AgentTypes
<1>6. RunTypes'
  BY DEF Sound, TypeOK, RunTypes, EvidenceTypes, dbVars, sessionVars, rowVars
<1>7. RunsSound' /\ ArtifactsBacked'
  BY <1>1 DEF Sound, RunsSound, RowsOf, ArtifactsBacked, dbVars, sessionVars, rowVars
<1>8. QED
  BY <1>3, <1>4, <1>5, <1>6, <1>7, SoundNext

LEMMA SoundInit == ASSUME BrowserInit PROVE Sound
<1> USE DEF BrowserInit, AgentInit
<1>1. TypeOK
  <2>1. NoStore \in [left : SUBSET (Runs \X Nat), kept : SUBSET (Runs \X Nat)]
    BY DEF NoStore
  <2>2. QED
    BY <2>1, BrowserAssumption DEF TypeOK, CallStates, Phases, Active, Terminal, JobsOpen, Places
<1>2. NoReply \in Reply
  BY DEF NoReply, Reply
<1>3. MemorySound
  BY <1>2, NewWorkType DEF MemorySound, MemoryOK, JourneysSound
<1>4. BusyRuns = {}
  BY DEF BusyRuns, Busy
<1>5. CapacitySound
  <2>1. IsFiniteSet(BusyRuns) /\ Cardinality(BusyRuns) = 0
    BY <1>4, FS_EmptySet
  <2>2. active = others + Cardinality(BusyRuns) /\ active <= MaxConcurrency
    BY <2>1, AgentAssumption
  <2>3. QED
    BY <2>1, <2>2 DEF CapacitySound, CapacityExact, BusyRuns
<1>6. RunsSound /\ ArtifactsBacked
  BY DEF RunsSound, RowsOf, ArtifactsBacked, NoStore
<1>7. QED
  BY <1>1, <1>3, <1>5, <1>6 DEF Sound

LEMMA SoundStep == ASSUME Sound, [Next]_vars PROVE Sound'
<1>1. CASE UNCHANGED vars
  <2>1. UNCHANGED agentVars /\ RunTypes' /\ RunsSound' /\ ArtifactsBacked'
    BY <1>1 DEF vars, dbVars, sessionVars, agentVars, Sound, TypeOK, RunTypes, EvidenceTypes, RunsSound, RowsOf,
       ArtifactsBacked, rowVars
  <2>2. QED
    BY <2>1, AgentStill, SoundNext
<1>2. ASSUME NEW r \in Runs, Execute(r) PROVE Sound'
  BY <1>2, LoadKeeps, PreparationKeeps, PostKeeps, AgentFailsKeeps, ReceiveKeeps, StoreArtifactKeeps,
     EndStoreKeeps, PersistResultKeeps, CompleteKeeps DEF Execute
<1>3. CASE \E r \in Runs :
             \/ StartRun(r) \/ CancelRun(r) \/ Claim(r) \/ Execute(r) \/ Watch(r)
             \/ Agent(r) \/ LeaseExpires(r) \/ Reap(r) \/ Expire(r)
  BY <1>2, <1>3, RequestsKeep, ClaimKeeps, LeaseKeeps, AgentKeeps, ExpiryKeeps
<1>4. CASE (AdmitOther \/ LeaveOther) /\ UNCHANGED <<dbVars, sessionVars, up, faults, history>>
  BY <1>4, OtherMonitorsKeep
<1>5. CASE Crash \/ Shutdown \/ Restart \/ RestartAgent
  BY <1>5, CrashKeeps, ExecutorStopKeeps, RestartAgentKeeps
<1>6. CASE PurgeOrphans \/ PurgeExpired \/ DeleteExpiredRow
  BY <1>6, PurgeKeeps, ExpiryKeeps
<1>7. QED
  BY <1>1, <1>3, <1>4, <1>5, <1>6 DEF Next

----------------------------------------------------------------------------
\* Types of every variable of the agent, of the executor and of the database,
\* the running journeys of the agent included (execute, server.mjs:228-372).
THEOREM TypeCorrectness == Spec => [](TypeOK /\ MemoryOK)
<1>1. Sound => TypeOK /\ MemoryOK
  BY DEF Sound, MemorySound
<1>2. QED
  BY <1>1, SoundInit, SoundStep, PTL DEF Spec

\* activeExecutions is the number of requests in progress, for any number of
\* monitors, journeys and callers that go away: no slot leaks, and the limit
\* holds (server.mjs:64-100).
THEOREM CapacityIsExact == Spec => []CapacityExact
<1>1. Sound => CapacityExact
  BY DEF Sound, CapacitySound
<1>2. QED
  BY <1>1, SoundInit, SoundStep, PTL DEF Spec

\* Whatever the steps, checks, gates and screenshots of a journey, its verdict
\* is the one its evidence supports (execute, server.mjs:228-372).
THEOREM VerdictIsFounded == Spec => []VerdictMatchesEvidence
<1>1. ASSUME Sound PROVE VerdictMatchesEvidence
  <2>1. ASSUME NEW r \in Runs, phase[r] = "reply" PROVE Agrees(r, work[r]) /\ work[r] \in Work
    BY <1>1, <2>1 DEF Sound, MemorySound, MemoryOK, JourneysSound
  <2>2. ASSUME NEW w \in Work, SomeBlocked(w) PROVE LastStep(w) = w.steps[Len(w.steps)].step
    BY <2>2 DEF SomeBlocked, LastStep
  <2>3. QED
    BY <2>1, <2>2 DEF VerdictMatchesEvidence, Agrees, PlayedBy, SomeBlocked, SomeAdvisory, Final, Good
<1>2. QED
  BY <1>1, SoundInit, SoundStep, PTL DEF Spec

\* Until it expires a row of browser_artifacts has its object: the cleanup of a run, the
\* purge of orphans, that of the expired and late uploads leave it.  The rows whose INSERT
\* was committed and answered by an error are the ones it may be taken from
\* (service.go:1123-1246, 1885-1937).
THEOREM ArtifactsStayBacked == Spec => []ArtifactsBacked
<1>1. Sound => ArtifactsBacked
  BY DEF Sound
<1>2. QED
  BY <1>1, SoundInit, SoundStep, PTL DEF Spec

(***************************************************************************)
(* A run that has ended while it is executed was overtaken: cancelled, or  *)
(* its job taken away by the reaper.                                       *)
(***************************************************************************)
Executing == {"claimed", "loaded", "preparing", "waiting", "storing", "persisting"}
Overtaken(r) == cancel[r] \/ job[r] # "LEASED"
OvertakenSound ==
    \A r \in Runs :
        /\ job[r] = "QUEUED" => run[r] = "QUEUED"
        /\ pc[r] = "none" => ~error[r] /\ stop[r] = "no"
        /\ error[r] => Cancelled(r)
        /\ stop[r] = "lost" => job[r] # "LEASED"
        /\ pc[r] \in Executing /\ run[r] \in Terminal => Overtaken(r)

\* Where runs, jobs, requests to cancel and errors are left alone, and no goroutine
\* but those past their execution moves.
LEMMA OvertakenKept ==
    ASSUME OvertakenSound, UNCHANGED <<run, job, cancel, error, stop, up>>,
           \A q \in Runs : pc'[q] = pc[q] \/ (pc[q] \in Executing /\ pc'[q] \in Executing)
    PROVE  OvertakenSound'
<1>1. \A q \in Runs : pc'[q] = "none" => pc[q] = "none"
  BY DEF Executing
<1>2. QED
  BY <1>1 DEF OvertakenSound, Overtaken, Cancelled

LEMMA OvertakenByRequests ==
    ASSUME Sound, OvertakenSound, NEW r \in Runs, StartRun(r) \/ CancelRun(r) \/ Claim(r)
    PROVE  OvertakenSound'
<1>1. CASE StartRun(r)
  <2>1. job[r] = "none" /\ pc[r] = "none"
    BY <1>1 DEF Sound, RunsSound, StartRun
  <2>2. QED
    BY <1>1, <2>1 DEF Sound, TypeOK, OvertakenSound, Overtaken, Cancelled, StartRun, sessionVars, Executing
<1>2. CASE CancelRun(r)
  <2>1. UNCHANGED <<pc, error, stop, up>>
    BY <1>2 DEF CancelRun, sessionVars
  <2>2. \A q \in Runs : q # r => UNCHANGED <<run[q], job[q], cancel[q]>>
    BY <1>2 DEF CancelRun, Sound, TypeOK
  <2>3. /\ job'[r] # "QUEUED" /\ (job[r] # "LEASED" => job'[r] # "LEASED")
        /\ cancel'[r] \/ (job'[r] = job[r] /\ job[r] # "LEASED")
    BY <1>2 DEF CancelRun, JobsOpen, Sound, TypeOK
  <2>4. QED
    BY <2>1, <2>2, <2>3 DEF OvertakenSound, Overtaken, Cancelled
<1>3. CASE Claim(r)
  <2>1. /\ job[r] = "QUEUED" /\ run[r] = "QUEUED" /\ stop[r] = "no" /\ ~error[r]
        /\ UNCHANGED <<run, cancel, error, stop, up>> /\ job'[r] = "LEASED" /\ pc'[r] = "claimed"
        /\ \A q \in Runs : q # r => UNCHANGED <<job[q], pc[q]>>
    BY <1>3 DEF Claim, Goto, OvertakenSound, Sound, TypeOK
  <2>2. "QUEUED" \notin Terminal
    BY DEF Terminal, Good, Failed
  <2>3. QED
    BY <2>1, <2>2 DEF OvertakenSound, Overtaken, Cancelled
<1>4. QED
  BY <1>1, <1>2, <1>3

\* The executor writes a run that is under way, or goes on to its completion.
LEMMA OvertakenByExecution ==
    ASSUME Sound, OvertakenSound, NEW r \in Runs, Execute(r)
    PROVE  OvertakenSound'
<1>1. ASSUME NEW place \in {"preparing", "waiting", "storing", "finishing"},
             NEW to, to \in Terminal => place = "finishing",
             pc[r] \in Executing, pc' = [pc EXCEPT ![r] = place], run' = [run EXCEPT ![r] = to],
             UNCHANGED <<job, cancel, error, stop, up>>
      PROVE  OvertakenSound'
  <2>1. /\ pc'[r] = place /\ run'[r] = to /\ \A q \in Runs : q # r => UNCHANGED <<pc[q], run[q]>>
        /\ job[r] # "QUEUED" /\ place \notin {"none"} /\ "finishing" \notin Executing
    BY <1>1 DEF Sound, TypeOK, RunsSound, Executing
  <2>2. QED
    BY <1>1, <2>1 DEF OvertakenSound, Overtaken, Cancelled
<1>2. CASE Begin(r) \/ Post(r) \/ Receive(r)
  <2>1. \A to \in {"STARTING", "RUNNING", "ANALYZING"} : to \notin Terminal
    BY DEF Terminal, Good, Failed
  <2>2. QED
    BY <1>1, <1>2, <2>1 DEF Begin, Post, Receive, UpdateRunState, Goto, Executing
<1>3. CASE PrepareFails(r) \/ AgentFails(r) \/ PersistResult(r) \/ PersistFails(r)
  BY <1>1, <1>3 DEF PrepareFails, AgentFails, PersistResult, PersistFails, FinishFailure, Goto, Executing
<1>4. CASE Load(r)
  <2>1. CASE Cancelled(r)
    <3>1. /\ pc' = [pc EXCEPT ![r] = "finishing"] /\ error' = [error EXCEPT ![r] = TRUE]
          /\ UNCHANGED <<run, job, cancel, stop, up>> /\ Cancelled(r)'
      BY <1>4, <2>1 DEF Load, Goto, dbVars, Cancelled
    <3>2. /\ pc'[r] = "finishing" /\ "finishing" \notin Executing /\ error'[r]
          /\ \A q \in Runs : q # r => UNCHANGED <<pc[q], error[q]>> /\ Cancelled(q)' = Cancelled(q)
      BY <3>1 DEF Sound, TypeOK, Executing, Cancelled
    <3>3. QED
      BY <3>1, <3>2 DEF OvertakenSound, Overtaken
  <2>2. CASE ~Cancelled(r)
    <3>1. UNCHANGED <<run, job, cancel, error, stop, up>>
          /\ \A q \in Runs : pc'[q] = pc[q] \/ (pc[q] \in Executing /\ pc'[q] \in Executing)
      BY <1>4, <2>2 DEF Load, Goto, dbVars, Sound, TypeOK, Executing
    <3>2. QED
      BY <3>1, OvertakenKept
  <2>3. QED
    BY <2>1, <2>2
<1>5. CASE StoreArtifact(r) \/ EndStore(r)
  <2>1. UNCHANGED <<run, job, cancel, error, stop, up>>
        /\ \A q \in Runs : pc'[q] = pc[q] \/ (pc[q] \in Executing /\ pc'[q] \in Executing)
    BY <1>5 DEF StoreArtifact, EndStore, Goto, dbVars, Sound, TypeOK, Executing
  <2>2. QED
    BY <2>1, OvertakenKept
<1>6. CASE Complete(r)
  <2>1. /\ pc[r] = "finishing" /\ UNCHANGED <<cancel, up>> /\ pc'[r] = "none" /\ ~error'[r] /\ stop'[r] = "no"
        /\ \A q \in Runs : q # r => UNCHANGED <<pc[q], error[q], stop[q], job[q], run[q]>>
    BY <1>6 DEF Complete, Forget, FinishFailure, Sound, TypeOK
  <2>2. job'[r] # "QUEUED"
    BY <1>6, <2>1 DEF Complete, Sound, TypeOK, RunsSound
  <2>3. QED
    BY <2>1, <2>2 DEF OvertakenSound, Overtaken, Cancelled, Executing
<1>7. QED
  BY <1>2, <1>3, <1>4, <1>5, <1>6 DEF Execute

LEMMA OvertakenByTime ==
    ASSUME Sound, OvertakenSound, NEW r \in Runs, Watch(r) \/ LeaseExpires(r) \/ Reap(r) \/ Expire(r) \/ Agent(r)
    PROVE  OvertakenSound'
<1>1. CASE LeaseExpires(r) \/ Expire(r) \/ Agent(r)
  <2>1. UNCHANGED <<run, job, cancel, error, stop, up, pc>>
    BY <1>1 DEF LeaseExpires, Expire, Agent, dbVars, sessionVars
  <2>2. QED
    BY <2>1, OvertakenKept
<1>2. CASE Watch(r)
  <2>1. /\ UNCHANGED <<run, job, cancel, error, pc, up>> /\ pc[r] # "none" /\ ~error[r]
        /\ \A q \in Runs : q # r => stop'[q] = stop[q]
        /\ stop'[r] = "lost" => job[r] # "LEASED" \/ stop[r] = "lost"
    BY <1>2 DEF Watch, Sound, TypeOK, OvertakenSound
  <2>2. QED
    BY <2>1 DEF OvertakenSound, Overtaken, Cancelled
<1>3. CASE Reap(r)
  <2>1. /\ UNCHANGED <<cancel, error, pc, stop, up>> /\ job'[r] = "FAILED"
        /\ \A q \in Runs : q # r => UNCHANGED <<run[q], job[q]>>
    BY <1>3 DEF Reap, sessionVars, Sound, TypeOK
  <2>2. QED
    BY <2>1 DEF OvertakenSound, Overtaken, Cancelled
<1>4. QED
  BY <1>1, <1>2, <1>3

LEMMA OvertakenByFaults ==
    ASSUME Sound, OvertakenSound, Crash \/ Shutdown \/ Restart \/ RestartAgent
    PROVE  OvertakenSound'
<1>1. CASE Crash
  <2>1. UNCHANGED <<run, job, cancel, up>> /\ \A q \in Runs : pc'[q] = "none" /\ ~error'[q] /\ stop'[q] = "no"
    BY <1>1 DEF Crash, Forget, dbVars
  <2>2. QED
    BY <2>1 DEF OvertakenSound, Overtaken, Executing
<1>2. CASE Shutdown \/ Restart
  <2>1. UNCHANGED <<run, job, cancel, pc, error, stop>>
    BY <1>2 DEF Shutdown, Restart, dbVars, sessionVars
  <2>2. \A q \in Runs : error[q] => Cancelled(q)'
    BY <1>2, <2>1 DEF Shutdown, Restart, OvertakenSound, Cancelled
  <2>3. QED
    BY <2>1, <2>2 DEF OvertakenSound, Overtaken
<1>3. CASE RestartAgent
  <2>1. UNCHANGED <<run, job, cancel, pc, error, stop, up>>
    BY <1>3 DEF RestartAgent, dbVars, sessionVars
  <2>2. QED
    BY <2>1, OvertakenKept
<1>4. QED
  BY <1>1, <1>2, <1>3

LEMMA OvertakenStep == ASSUME Sound, OvertakenSound, [Next]_vars PROVE OvertakenSound'
<1>1. CASE \/ UNCHANGED vars
           \/ (AdmitOther \/ LeaveOther) /\ UNCHANGED <<dbVars, sessionVars, up, faults, history>>
           \/ PurgeOrphans \/ PurgeExpired \/ DeleteExpiredRow
  <2>1. UNCHANGED <<run, job, cancel, error, stop, up, pc>>
    BY <1>1 DEF vars, dbVars, sessionVars, PurgeOrphans, PurgeListed, PurgeExpired, DeleteExpiredRow
  <2>2. QED
    BY <2>1, OvertakenKept
<1>2. QED
  BY <1>1, OvertakenByRequests, OvertakenByExecution, OvertakenByTime, OvertakenByFaults DEF Next

LEMMA OvertakenInit == ASSUME BrowserInit PROVE OvertakenSound
BY DEF BrowserInit, OvertakenSound, Executing

\* Who writes the row of a run, and what.
LEMMA WhoWrites ==
    ASSUME Sound, Next, NEW r \in Runs, run'[r] # run[r]
    PROVE  \/ StartRun(r) \/ CancelRun(r) \/ Reap(r)
           \/ Begin(r) \/ PrepareFails(r) \/ Post(r) \/ AgentFails(r) \/ Receive(r)
           \/ PersistResult(r) \/ PersistFails(r) \/ Complete(r)
<1>1. run' # run
  OBVIOUS
<1>2. ASSUME NEW q \in Runs, q # r, \/ StartRun(q) \/ CancelRun(q) \/ Reap(q) \/ Execute(q) PROVE FALSE
  <2>1. ASSUME NEW v, run' = [run EXCEPT ![q] = v] PROVE FALSE
    BY <1>2, <2>1 DEF Sound, TypeOK
  <2>2. CASE StartRun(q) \/ CancelRun(q) \/ Reap(q)
    BY <2>1, <2>2 DEF StartRun, CancelRun, Reap
  <2>3. CASE Begin(q) \/ PrepareFails(q) \/ Post(q) \/ AgentFails(q) \/ Receive(q)
    BY <2>1, <2>3 DEF Begin, PrepareFails, Post, AgentFails, Receive, UpdateRunState, FinishFailure
  <2>4. CASE PersistResult(q) \/ PersistFails(q) \/ Complete(q)
    BY <1>1, <2>1, <2>4 DEF PersistResult, PersistFails, Complete, FinishFailure
  <2>5. CASE Load(q) \/ StoreArtifact(q) \/ EndStore(q)
    BY <1>1, <2>5 DEF Load, StoreArtifact, EndStore, dbVars
  <2>6. QED
    BY <1>2, <2>2, <2>3, <2>4, <2>5 DEF Execute
<1>3. ~Load(r) /\ ~StoreArtifact(r) /\ ~EndStore(r)
  BY <1>1 DEF Load, StoreArtifact, EndStore, dbVars
<1>4. ASSUME NEW q \in Runs, Claim(q) \/ Watch(q) \/ Agent(q) \/ LeaseExpires(q) \/ Expire(q) PROVE FALSE
  BY <1>1, <1>4 DEF Claim, Watch, Agent, LeaseExpires, Expire, dbVars
<1>5. ~PurgeOrphans /\ ~PurgeExpired /\ ~DeleteExpiredRow /\ ~ (UNCHANGED dbVars)
  BY <1>1 DEF PurgeOrphans, PurgeListed, PurgeExpired, DeleteExpiredRow, dbVars
<1>6. ~Crash /\ ~Shutdown /\ ~Restart /\ ~RestartAgent
  BY <1>1 DEF Crash, Shutdown, Restart, RestartAgent, dbVars
<1>7. QED
  BY <1>2, <1>3, <1>4, <1>5, <1>6 DEF Next, Execute

\* No step makes a run SUCCESS unless the agent said so of that execution and lost none of
\* its uploads; and a run that ended, as CANCELLED or otherwise, is written again only by
\* the execution that its cancellation or the reaper has overtaken, for any number of
\* runs, executors and faults (service.go execute, completeBrowserJob).
THEOREM SuccessIsFounded == Spec => SuccessIsTheAgents
<1> DEFINE Step == \A r \in Runs :
        /\ run'[r] = "SUCCESS" /\ run[r] # "SUCCESS" => reply[r].status = "SUCCESS" /\ reply[r].uploadFailures = 0
        /\ run[r] \in Terminal /\ run'[r] # run[r] => pc[r] # "none" /\ (cancel[r] \/ job[r] # "LEASED")
<1>1. ASSUME Sound, OvertakenSound, [Next]_vars PROVE [Step]_vars
  <2>1. ASSUME Next, NEW r \in Runs, run'[r] = "SUCCESS", run[r] # "SUCCESS"
        PROVE  reply[r].status = "SUCCESS" /\ reply[r].uploadFailures = 0
    <3>1. PersistResult(r)
      <4>1. ~StartRun(r) /\ ~CancelRun(r) /\ ~Reap(r)
        BY <1>1, <2>1 DEF StartRun, CancelRun, Reap, Sound, TypeOK
      <4>2. ~Begin(r) /\ ~PrepareFails(r) /\ ~Post(r) /\ ~AgentFails(r) /\ ~Receive(r) /\ ~PersistFails(r)
        BY <1>1, <2>1 DEF Begin, PrepareFails, Post, AgentFails, Receive, PersistFails, UpdateRunState,
           FinishFailure, Sound, TypeOK
      <4>3. ~Complete(r)
        BY <1>1, <2>1 DEF Complete, FinishFailure, Sound, TypeOK
      <4>4. QED
        BY <1>1, <2>1, <4>1, <4>2, <4>3, WhoWrites
    <3>2. pc[r] = "persisting" /\ outcome[r] = "SUCCESS"
      BY <1>1, <2>1, <3>1 DEF PersistResult, Sound, TypeOK
    <3>3. QED
      BY <1>1, <3>2 DEF Sound, RunsSound
  <2>2. ASSUME Next, NEW r \in Runs, run[r] \in Terminal, run'[r] # run[r]
        PROVE  pc[r] # "none" /\ Overtaken(r)
    <3>1. "none" \notin Executing /\ "finishing" \notin Executing
      BY DEF Executing
    <3>2. ~StartRun(r) /\ ~CancelRun(r) /\ ~Reap(r)
      BY <1>1, <2>2 DEF StartRun, CancelRun, Reap, Sound, TypeOK, Terminal, Good, Failed, Active
    <3>3. CASE \/ Begin(r) \/ PrepareFails(r) \/ Post(r) \/ AgentFails(r) \/ Receive(r)
               \/ PersistResult(r) \/ PersistFails(r)
      <4>1. pc[r] \in Executing
        BY <3>3 DEF Begin, PrepareFails, Post, AgentFails, Receive, PersistResult, PersistFails, Executing
      <4>2. QED
        BY <1>1, <2>2, <3>1, <4>1 DEF OvertakenSound
    <3>4. CASE Complete(r)
      <4>1. pc[r] = "finishing" /\ up /\ error[r] /\ stop[r] # "requested"
        BY <2>2, <3>4 DEF Complete
      <4>2. stop[r] = "lost"
        BY <1>1, <4>1 DEF OvertakenSound, Cancelled, Sound, TypeOK
      <4>3. QED
        BY <1>1, <4>1, <4>2 DEF OvertakenSound, Overtaken
    <3>5. QED
      BY <1>1, <2>2, <3>2, <3>3, <3>4, WhoWrites
  <2>3. QED
    BY <1>1, <2>1, <2>2 DEF Overtaken
<1>2. QED
  BY <1>1, SoundInit, SoundStep, OvertakenInit, OvertakenStep, PTL DEF Spec, SuccessIsTheAgents

----------------------------------------------------------------------------
(* The jobs as jobs of the durable queue.                                   *)

\* How one job may move, and its count of attempts with it.
JobMoves(r) ==
    \/ job[r] = "none" /\ job' = [job EXCEPT ![r] = "QUEUED"] /\ attempts' = attempts
    \/ /\ job[r] = "QUEUED" /\ job' = [job EXCEPT ![r] = "LEASED"]
       /\ attempts' = [attempts EXCEPT ![r] = @ + 1]
    \/ job[r] = "QUEUED" /\ job' = [job EXCEPT ![r] = "CANCELLED"] /\ attempts' = attempts
    \/ /\ job[r] = "LEASED" /\ attempts' = attempts
       /\ \E o \in {"SUCCEEDED", "FAILED", "CANCELLED"} : job' = [job EXCEPT ![r] = o]

JobTypes ==
    /\ job \in [Runs -> JobsOpen \cup {"none", "SUCCEEDED", "FAILED", "CANCELLED"}]
    /\ attempts \in [Runs -> Nat]

\* A run is queued once, as it has no job before; its executor completes the job only
\* while it is leased, and so does the reaper.
LEMMA JobRequested ==
    ASSUME TypeOK, RunsSound, NEW r \in Runs, StartRun(r) \/ CancelRun(r)
    PROVE  JobMoves(r) \/ UNCHANGED <<job, attempts>>
<1>0. JobTypes
  BY DEF TypeOK, JobTypes
<1>1. CASE StartRun(r)
  BY <1>0, <1>1 DEF StartRun, JobMoves, RunsSound, rowVars
<1>2. CASE CancelRun(r)
  <2>1. CASE job[r] = "QUEUED"
    BY <1>0, <1>2, <2>1 DEF CancelRun, JobMoves, JobsOpen
  <2>2. CASE job[r] # "QUEUED"
    BY <1>0, <1>2, <2>2 DEF CancelRun, JobTypes
  <2> QED BY <2>1, <2>2
<1> QED BY <1>1, <1>2

LEMMA JobCompleted ==
    ASSUME TypeOK, NEW r \in Runs, Complete(r)
    PROVE  JobMoves(r) \/ UNCHANGED <<job, attempts>>
<1>0. JobTypes /\ attempts' = attempts
  BY DEF TypeOK, JobTypes, Complete
<1>1. CASE job[r] = "LEASED" /\ up
  <2>1. PICK o \in {"SUCCEEDED", "FAILED", "CANCELLED"} : job' = [job EXCEPT ![r] = o]
    BY <1>1 DEF Complete
  <2> QED BY <1>0, <1>1, <2>1 DEF JobMoves
<1>2. CASE ~(job[r] = "LEASED" /\ up)
  BY <1>0, <1>2 DEF Complete, JobTypes
<1> QED BY <1>1, <1>2

LEMMA JobStepped ==
    ASSUME Sound, [Next]_vars
    PROVE  (\E r \in Runs : JobMoves(r)) \/ UNCHANGED <<job, attempts>>
<1>1. TypeOK /\ RunsSound
  BY DEF Sound
<1>2. CASE UNCHANGED vars
  BY <1>2 DEF vars, dbVars, rowVars
<1>3. ASSUME NEW r \in Runs, Execute(r) PROVE JobMoves(r) \/ UNCHANGED <<job, attempts>>
  <2>1. CASE Complete(r)
    BY <1>1, <2>1, JobCompleted
  <2>2. CASE Load(r) \/ Begin(r) \/ PrepareFails(r) \/ Post(r) \/ AgentFails(r) \/ Receive(r)
    BY <2>2 DEF Load, Begin, PrepareFails, Post, AgentFails, Receive, dbVars, rowVars
  <2>3. CASE StoreArtifact(r) \/ EndStore(r) \/ PersistResult(r) \/ PersistFails(r)
    BY <2>3 DEF StoreArtifact, EndStore, PersistResult, PersistFails, dbVars
  <2> QED BY <1>3, <2>1, <2>2, <2>3 DEF Execute
<1>4. ASSUME NEW r \in Runs, Claim(r) PROVE JobMoves(r)
  BY <1>4 DEF Claim, JobMoves
<1>5. ASSUME NEW r \in Runs, Reap(r) PROVE JobMoves(r)
  BY <1>5 DEF Reap, JobMoves
<1>6. ASSUME NEW r \in Runs, Watch(r) \/ Agent(r) \/ LeaseExpires(r) \/ Expire(r)
      PROVE  UNCHANGED <<job, attempts>>
  BY <1>6 DEF Watch, Agent, LeaseExpires, Expire, dbVars, rowVars
<1>7. CASE \/ (AdmitOther \/ LeaveOther) /\ UNCHANGED <<dbVars, sessionVars, up, faults, history>>
           \/ PurgeOrphans \/ PurgeExpired \/ DeleteExpiredRow
           \/ Crash \/ Shutdown \/ Restart \/ RestartAgent
  BY <1>7 DEF PurgeOrphans, PurgeListed, PurgeExpired, DeleteExpiredRow, Crash, Shutdown, Restart, RestartAgent,
     dbVars, rowVars
<1> QED
  BY <1>1, <1>2, <1>3, <1>4, <1>5, <1>6, <1>7, JobRequested DEF Next

\* The four moves are steps of the queue.
LEMMA MoveIsQueued ==
    ASSUME JobTypes, NEW r \in Runs, JobMoves(r)
    PROVE  Queue!Next
<1> DEFINE state == [q \in Runs |-> IF job[q] = "none" THEN "NONE" ELSE job[q]]
<1>1. ASSUME NEW to \in {"QUEUED", "LEASED", "SUCCEEDED", "FAILED", "CANCELLED"}, job' = [job EXCEPT ![r] = to]
      PROVE  state' = [state EXCEPT ![r] = to]
  BY <1>1 DEF JobTypes
<1>2. ASSUME NEW from, NEW to \in {"QUEUED", "LEASED", "SUCCEEDED", "FAILED", "CANCELLED"},
             state[r] = from, job' = [job EXCEPT ![r] = to]
      PROVE  Queue!Move(r, from, to)
  BY <1>1, <1>2 DEF Queue!Move
<1>3. CASE job[r] = "none" /\ job' = [job EXCEPT ![r] = "QUEUED"] /\ attempts' = attempts
  <2>1. state[r] = "NONE"
    BY <1>3
  <2> HIDE DEF state
  <2> QED BY <1>2, <1>3, <2>1 DEF Queue!Next, Queue!Submit
<1>4. CASE /\ job[r] = "QUEUED" /\ job' = [job EXCEPT ![r] = "LEASED"]
           /\ attempts' = [attempts EXCEPT ![r] = @ + 1]
  <2>1. state[r] = "QUEUED"
    BY <1>4
  <2> HIDE DEF state
  <2> QED BY <1>2, <1>4, <2>1 DEF Queue!Next, Queue!Begin, Never
<1>5. CASE job[r] = "QUEUED" /\ job' = [job EXCEPT ![r] = "CANCELLED"] /\ attempts' = attempts
  <2>1. state[r] = "QUEUED"
    BY <1>5
  <2> HIDE DEF state
  <2> QED BY <1>2, <1>5, <2>1 DEF Queue!Next, Queue!Withdraw
<1>6. CASE /\ job[r] = "LEASED" /\ attempts' = attempts
           /\ \E o \in {"SUCCEEDED", "FAILED", "CANCELLED"} : job' = [job EXCEPT ![r] = o]
  <2>1. state[r] = "LEASED"
    BY <1>6
  <2> HIDE DEF state
  <2> QED BY <1>2, <1>6, <2>1 DEF Queue!Next, Queue!Finish, Queue!Outcomes
<1> QED
  BY <1>3, <1>4, <1>5, <1>6 DEF JobMoves

\* The job of a run is started once at most and comes to one outcome, whoever cancels the
\* run, however often executors die, are shut down or stall, and whatever one does whose
\* lease was reaped: it implements the queue that the executions of API monitors implement.
THEOREM BrowserJobsImplementQueue == Spec => JobsAreLeasedOnce
<1>1. BrowserInit => Queue!Init
  BY DEF BrowserInit, Queue!Init
<1>2. ASSUME Sound, [Next]_vars PROVE [Queue!Next]_Queue!vars
  <2>1. CASE UNCHANGED <<job, attempts>>
    BY <2>1 DEF Queue!vars
  <2>2. CASE \E r \in Runs : JobMoves(r)
    <3>1. JobTypes
      BY <1>2 DEF Sound, TypeOK, JobTypes
    <3> QED BY <2>2, <3>1, MoveIsQueued
  <2> QED BY <1>2, <2>1, <2>2, JobStepped
<1> QED
  BY <1>1, <1>2, SoundInit, SoundStep, PTL DEF Spec, JobsAreLeasedOnce, Queue!Spec
=============================================================================
