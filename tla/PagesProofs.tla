---------------------------- MODULE PagesProofs -----------------------------
(***************************************************************************)
(* Proofs about the pages that show what the server keeps: the page of a   *)
(* run, the list of monitors, the workbench with its picker of variables,  *)
(* and the builder of suites with the wizard.                              *)
(***************************************************************************)
EXTENDS RunPages, ListPages, Workbench, SuitePages,
    FiniteSetTheorems, SequenceTheorems, WellFoundedInduction, TLAPS

(***************************************************************************)
(* The page of a run shows a run it fetched, so that what holds of it is   *)
(* what holds of every run on the server and of every answer that may      *)
(* still be shown: an answer of a poll that was disposed of is not, and    *)
(* the answer of a cancellation is shown wherever it comes, but no other   *)
(* run can be opened from the page of a browser run.                       *)
(***************************************************************************)
StepOutcomes ==
    {"SUCCESS", "SKIPPED", "CONDITION", "PRE_SCRIPT", "DNS", "TIMEOUT", "EXTRACTOR", "TEST_SCRIPT", "ASSERTION", "CANCELLED"}
StepRuns == {StepRun(def, outcome) : def \in Nat, outcome \in StepOutcomes}
RunFields == {"id", "status", "steps", "failedStep", "category", "setup", "lab", "cancel"}
FlightFields == {"kind", "disposed", "run"}

\* Only the last step of a run may have failed, and then it is the failed step
\* and gives the run its status and category.
Conclusive(run) ==
    /\ run.steps \in Seq(StepRuns)
    /\ \A i \in 1..Len(run.steps) : run.steps[i].error => i = Len(run.steps)
    /\ ~LoopsAllowed => \A i \in 1..Len(run.steps) : run.steps[i].def = i
    /\ run.status \in ActiveStatuses =>
        run.failedStep = 0 /\ \A i \in 1..Len(run.steps) : ~run.steps[i].error
    /\ run.failedStep # 0 =>
        /\ run.steps # <<>>
        /\ LET last == run.steps[Len(run.steps)]
           IN  last.error /\ last.def = run.failedStep /\ last.status = run.status /\ last.category = run.category
RunSound(run, r) == DOMAIN run = RunFields /\ run.id = r /\ Conclusive(run)

FlightSound(f) ==
    /\ DOMAIN f = FlightFields /\ f.kind \in {"poll", "cancel"}
    /\ f.kind = "cancel" => PageOf[route] = "browser"
    /\ (f.kind = "poll" /\ f.disposed) \/ RunSound(f.run, route)
PageSound ==
    /\ route \in Runs /\ DOMAIN executed = Runs
    /\ \A r \in Runs : RunSound(executed[r], r)
    /\ RunSound(shown, route)
    /\ \A f \in flights : FlightSound(f)

\* What a step left: a status of its own where it failed, and then a category.
LEMMA StepFacts ==
    ASSUME NEW s \in StepRuns
    PROVE  /\ s.error => s.status \in {"FAILED", "TIMED_OUT", "CANCELLED"} /\ s.category # ""
           /\ ~s.error => s.status \in {"SUCCESS", "SKIPPED_CONDITION"}
<1>1. PICK def \in Nat, outcome \in StepOutcomes : s = StepRun(def, outcome)
  BY DEF StepRuns
<1>2. s.status = StatusOf(outcome) /\ s.category = Category(outcome)
      /\ s.error = (StatusOf(outcome) \notin {"SUCCESS", "SKIPPED_CONDITION"})
  BY <1>1 DEF StepRun
<1>3. StatusOf(outcome) \in {"SUCCESS", "SKIPPED_CONDITION", "FAILED", "TIMED_OUT", "CANCELLED"}
      /\ (outcome \notin {"SUCCESS", "SKIPPED"} => Category(outcome) # "")
      /\ (outcome \in {"SUCCESS", "SKIPPED"} => StatusOf(outcome) \in {"SUCCESS", "SKIPPED_CONDITION"})
  BY DEF StatusOf, Category, StepOutcomes
<1> QED BY <1>2, <1>3

LEMMA StepDef ==
    ASSUME NEW def \in Nat, NEW outcome \in StepOutcomes
    PROVE  /\ StepRun(def, outcome) \in StepRuns
           /\ StepRun(def, outcome).def = def
           /\ StepRun(def, outcome).error = (outcome \notin {"SUCCESS", "SKIPPED"})
<1>1. StepRun(def, outcome).def = def /\ StepRun(def, outcome).error = (StatusOf(outcome) \notin {"SUCCESS", "SKIPPED_CONDITION"})
  BY DEF StepRun
<1>2. (StatusOf(outcome) \notin {"SUCCESS", "SKIPPED_CONDITION"}) = (outcome \notin {"SUCCESS", "SKIPPED"})
  BY DEF StatusOf, StepOutcomes
<1> QED BY <1>1, <1>2 DEF StepRuns

\* A step after others that did not fail, of a run that was active.
LEMMA Executed ==
    ASSUME NEW run, NEW r, RunSound(run, r), run.status = "RUNNING",
           NEW def \in Nat, ~LoopsAllowed => def = Len(run.steps) + 1, NEW outcome \in StepOutcomes
    PROVE  LET step == StepRun(def, outcome)
           IN  RunSound([run EXCEPT !.steps = Append(@, step), !.status = IF step.error THEN step.status ELSE @,
                                    !.category = step.category, !.failedStep = IF step.error THEN def ELSE 0], r)
<1> DEFINE step == StepRun(def, outcome)
           after == [run EXCEPT !.steps = Append(@, step), !.status = IF step.error THEN step.status ELSE @,
                                !.category = step.category, !.failedStep = IF step.error THEN def ELSE 0]
<1>1. step \in StepRuns /\ step.def = def
  BY StepDef
<1>2. step.error => step.status \notin ActiveStatuses
  BY <1>1, StepFacts DEF ActiveStatuses
<1> HIDE DEF step
<1>3. /\ DOMAIN after = RunFields /\ after.id = r /\ after.steps = Append(run.steps, step)
      /\ after.status = IF step.error THEN step.status ELSE "RUNNING"
      /\ after.category = step.category /\ after.failedStep = IF step.error THEN def ELSE 0
  BY DEF RunSound, RunFields
<1> HIDE DEF after
<1>4. run.steps \in Seq(StepRuns) /\ \A i \in 1..Len(run.steps) : ~run.steps[i].error
  BY DEF RunSound, Conclusive, ActiveStatuses
<1>5. /\ after.steps \in Seq(StepRuns) /\ after.steps # <<>> /\ Len(run.steps) \in Nat
      /\ Len(after.steps) = Len(run.steps) + 1 /\ after.steps[Len(after.steps)] = step
      /\ \A i \in 1..Len(run.steps) : after.steps[i] = run.steps[i]
  BY <1>1, <1>3, <1>4
<1>6. \A i \in 1..Len(after.steps) : i = Len(after.steps) \/ ~after.steps[i].error
  BY <1>4, <1>5
<1>7. ~step.error => \A i \in 1..Len(after.steps) : ~after.steps[i].error
  BY <1>5, <1>6
<1>l. ~LoopsAllowed => \A i \in 1..Len(after.steps) : after.steps[i].def = i
  <2>1. ~LoopsAllowed => \A i \in 1..Len(run.steps) : run.steps[i].def = i
    BY DEF RunSound, Conclusive
  <2> QED BY <1>1, <1>5, <2>1
<1>8. Conclusive(after)
  BY <1>1, <1>2, <1>3, <1>5, <1>6, <1>7, <1>l DEF Conclusive
<1>9. RunSound(after, r)
  BY <1>3, <1>8 DEF RunSound
<1> QED BY <1>9 DEF after, step

\* A journey, or a run that ended before: a last step after others that did not fail.
LEMMA Series ==
    ASSUME NEW length \in Nat \ {0}, NEW before \in {"SUCCESS", "SKIPPED"}, NEW outcome \in StepOutcomes
    PROVE  LET steps == StepsRun(length, before, outcome)
           IN  /\ steps \in [1..length -> StepRuns] /\ steps[length] = StepRun(length, outcome)
               /\ \A i \in 1..length : i # length => ~steps[i].error
               /\ \A i \in 1..length : steps[i].def = i
<1> DEFINE steps == StepsRun(length, before, outcome)
<1>1. StepRun(length, outcome) \in StepRuns /\ StepRun(length, outcome).def = length
  BY StepDef
<1>2. \A i \in 1..length :
        StepRun(i, before) \in StepRuns /\ ~StepRun(i, before).error /\ StepRun(i, before).def = i
  <2>1. before \in StepOutcomes /\ ~(before \notin {"SUCCESS", "SKIPPED"})
    BY DEF StepOutcomes
  <2>2. \A i \in 1..length : i \in Nat
    OBVIOUS
  <2> QED BY <2>1, <2>2, StepDef
<1>3. DOMAIN steps = 1..length /\ \A i \in 1..length : steps[i] = StepRun(i, IF i = length THEN outcome ELSE before)
  BY DEF StepsRun
<1>4. steps \in [1..length -> {steps[i] : i \in 1..length}] /\ steps[length] = StepRun(length, outcome)
      /\ \A i \in 1..length : i # length => steps[i] = StepRun(i, before)
  BY <1>3 DEF StepsRun
<1> HIDE DEF steps
<1>5. \A i \in 1..length : steps[i] \in StepRuns
  BY <1>1, <1>2, <1>4
<1>6. /\ steps \in [1..length -> StepRuns] /\ \A i \in 1..length : i # length => ~steps[i].error
      /\ \A i \in 1..length : steps[i].def = i
  BY <1>1, <1>2, <1>4, <1>5
<1> QED BY <1>4, <1>6 DEF steps

LEMMA Concluded ==
    ASSUME NEW run, NEW length \in Nat \ {0}, NEW outcome \in StepOutcomes,
           run.steps \in [1..length -> StepRuns], run.steps[length] = StepRun(length, outcome),
           \A i \in 1..length : i # length => ~run.steps[i].error,
           \A i \in 1..length : run.steps[i].def = i,
           run.status = run.steps[length].status, run.category = run.steps[length].category,
           run.failedStep = IF run.steps[length].error THEN length ELSE 0
    PROVE  Conclusive(run)
<1> DEFINE last == run.steps[length]
<1>1. last \in StepRuns /\ last.def = length
  BY StepDef
<1>2. run.steps \in Seq(StepRuns) /\ Len(run.steps) = length /\ run.steps # <<>>
  OBVIOUS
<1>3. run.status \notin ActiveStatuses
  BY <1>1, StepFacts DEF ActiveStatuses
<1> QED BY <1>1, <1>2, <1>3 DEF Conclusive

\* A run that changes in a status without steps: it is started, ended or cancelled.
LEMMA StatusChanged ==
    ASSUME NEW run, NEW r, RunSound(run, r), NEW after, DOMAIN after = RunFields,
           after.id = run.id, after.steps = run.steps, after.failedStep = run.failedStep,
           run.status \in ActiveStatuses \/ (after.status = run.status /\ after.category = run.category)
    PROVE  RunSound(after, r)
  BY DEF RunSound, Conclusive

LEMMA ExecutingSound ==
    ASSUME PageSound, Executing
    PROVE  PageSound'
<1>1. PICK r \in Reachable : StartExecution(r) \/ ExecuteStep(r) \/ EndExecution(r) \/ FinishJourney(r)
  BY DEF Executing
<1>2. r \in Runs
  BY <1>1 DEF Reachable, PageSound
<1>3. SUFFICES ASSUME NEW run, RunSound(run, r), executed' = [executed EXCEPT ![r] = run], UNCHANGED pageVars
               PROVE  PageSound'
  <2>0. RunSound(executed[r], r) /\ UNCHANGED pageVars
    BY <1>1, <1>2 DEF PageSound, StartExecution, ExecuteStep, EndExecution, FinishJourney
  <2>a. Outcomes[r] \subseteq StepOutcomes \cup {"SETUP"}
    BY <1>2, RunPagesAssumption DEF StepOutcomes
  <2>1. CASE StartExecution(r)
    <3>1. executed[r].status \in ActiveStatuses
      BY <2>1 DEF StartExecution, ActiveStatuses
    <3>2. CASE executed' = [executed EXCEPT ![r].status = "RUNNING"]
      <4> DEFINE run == [executed[r] EXCEPT !.status = "RUNNING"]
      <4>1. RunSound(run, r)
        BY <2>0, <3>1, StatusChanged DEF RunSound, RunFields
      <4> QED BY <1>3, <2>0, <3>2, <4>1
    <3>3. CASE executed' = [executed EXCEPT ![r].status = "FAILED", ![r].category = "SCRIPT_RUNTIME_ERROR",
                                            ![r].setup = Script("FAILED", <<>>)]
      <4> DEFINE run == [executed[r] EXCEPT !.status = "FAILED", !.category = "SCRIPT_RUNTIME_ERROR",
                                            !.setup = Script("FAILED", <<>>)]
      <4>1. RunSound(run, r)
        BY <2>0, <3>1, StatusChanged DEF RunSound, RunFields
      <4>2. executed' = [executed EXCEPT ![r] = run]
        BY <1>2, <3>3 DEF PageSound
      <4> QED BY <1>3, <2>0, <4>1, <4>2
    <3> QED BY <2>1, <3>2, <3>3 DEF StartExecution
  <2>2. CASE ExecuteStep(r)
    <3>1. PICK outcome \in Outcomes[r], def \in Nat :
            /\ MayHappen(r, outcome) /\ (~LoopsAllowed => def = Len(executed[r].steps) + 1)
            /\ LET step == StepRun(def, outcome)
               IN  executed' = [executed EXCEPT ![r].steps = Append(@, step),
                        ![r].status = IF step.error THEN step.status ELSE @,
                        ![r].category = step.category,
                        ![r].failedStep = IF step.error THEN def ELSE 0]
      <4>1. Len(executed[r].steps) + 1 \in Nat
        <5>1. executed[r].steps \in Seq(StepRuns)
          BY <2>0 DEF RunSound, Conclusive
        <5> QED BY <5>1
      <4>2. \A n \in 1..MaxExecuted : n \in Nat
        BY RunPagesAssumption
      <4> QED BY <2>2, <4>1, <4>2 DEF ExecuteStep
    <3>2. outcome \in StepOutcomes /\ executed[r].status = "RUNNING"
      BY <2>2, <2>a, <3>1 DEF MayHappen, ExecuteStep
    <3> DEFINE step == StepRun(def, outcome)
               run == [executed[r] EXCEPT !.steps = Append(@, step), !.status = IF step.error THEN step.status ELSE @,
                            !.category = step.category, !.failedStep = IF step.error THEN def ELSE 0]
    <3>3. RunSound(run, r)
      BY <2>0, <3>1, <3>2, Executed
    <3>4. executed' = [executed EXCEPT ![r] = run]
      <4> HIDE DEF step
      <4> QED BY <1>2, <3>1 DEF PageSound, step
    <3> QED BY <1>3, <2>0, <3>3, <3>4
  <2>3. CASE EndExecution(r)
    <3>1. executed[r].status \in ActiveStatuses
      BY <2>3 DEF EndExecution, ActiveStatuses
    <3>2. CASE executed' = [executed EXCEPT ![r].status = "SUCCESS"]
      <4> DEFINE run == [executed[r] EXCEPT !.status = "SUCCESS"]
      <4>1. RunSound(run, r)
        BY <2>0, <3>1, StatusChanged DEF RunSound, RunFields
      <4> QED BY <1>3, <2>0, <3>2, <4>1
    <3>3. CASE executed' = [executed EXCEPT ![r].status = "CANCELLED", ![r].category = "RUN_CANCELLED"]
      <4> DEFINE run == [executed[r] EXCEPT !.status = "CANCELLED", !.category = "RUN_CANCELLED"]
      <4>1. RunSound(run, r)
        BY <2>0, <3>1, StatusChanged DEF RunSound, RunFields
      <4>2. executed' = [executed EXCEPT ![r] = run]
        BY <1>2, <3>3 DEF PageSound
      <4> QED BY <1>3, <2>0, <4>1, <4>2
    <3> QED BY <2>3, <3>2, <3>3 DEF EndExecution
  <2>4. CASE FinishJourney(r)
    <3>1. PICK outcome \in Outcomes[r], length \in 1..MaxExecuted, lab \in Labs :
            /\ MayHappen(r, outcome) /\ outcome \in {"SUCCESS", "ASSERTION", "DNS", "CANCELLED"}
            /\ LET last == StepRun(length, outcome)
               IN  executed' = [executed EXCEPT ![r].lab = lab,
                        ![r].steps = StepsRun(length, "SUCCESS", outcome),
                        ![r].status = last.status, ![r].category = last.category,
                        ![r].failedStep = IF last.error THEN length ELSE 0]
      BY <2>4, Zenon DEF FinishJourney
    <3>2. outcome \in StepOutcomes /\ length \in Nat \ {0}
      <4>1. \A n \in 1..MaxExecuted : n \in Nat \ {0}
        BY RunPagesAssumption
      <4> QED BY <3>1, <4>1 DEF StepOutcomes
    <3> DEFINE last == StepRun(length, outcome)
               steps == StepsRun(length, "SUCCESS", outcome)
               run == [executed[r] EXCEPT !.lab = lab, !.steps = steps, !.status = last.status,
                            !.category = last.category, !.failedStep = IF last.error THEN length ELSE 0]
    <3>3. executed' = [executed EXCEPT ![r] = run]
      <4> HIDE DEF last, steps
      <4> QED BY <1>2, <3>1 DEF PageSound, last, steps
    <3>4. DOMAIN run = RunFields /\ run.id = r /\ run.steps = steps /\ run.status = last.status
          /\ run.category = last.category /\ run.failedStep = IF last.error THEN length ELSE 0
      <4> HIDE DEF last, steps
      <4> QED BY <2>0 DEF RunSound, RunFields
    <3> HIDE DEF run
    <3>s. steps \in [1..length -> StepRuns] /\ steps[length] = last
          /\ (\A i \in 1..length : i # length => ~steps[i].error) /\ \A i \in 1..length : steps[i].def = i
      BY <3>2, Series
    <3>l. last = StepRun(length, outcome)
      OBVIOUS
    <3> HIDE DEF last, steps
    <3>5. Conclusive(run)
      BY <3>2, <3>4, <3>s, <3>l, Concluded
    <3> QED BY <1>3, <2>0, <3>3, <3>4, <3>5 DEF RunSound
  <2> QED BY <1>1, <2>1, <2>2, <2>3, <2>4
<1>4. UNCHANGED <<route, shown, flights>>
  BY <1>3 DEF pageVars
<1> QED BY <1>2, <1>3, <1>4 DEF PageSound, FlightSound

\* Answers that are disposed of are shown on no page; only a cancellation is.
LEMMA DisposedSound ==
    ASSUME NEW answers, \A f \in answers : FlightSound(f), NEW g \in Dispose(answers)
    PROVE  /\ FlightSound(g)
           /\ g.kind = "cancel" \/ g.disposed
           /\ \E f \in answers : g.kind = f.kind
<1>1. PICK f \in answers : g = [f EXCEPT !.disposed = (f.kind = "poll")]
  BY DEF Dispose
<1>2. DOMAIN f = FlightFields /\ f.kind \in {"poll", "cancel"}
  BY DEF FlightSound
<1>3. PICK b : b = (f.kind = "poll") /\ g = [f EXCEPT !.disposed = b]
  BY <1>1
<1>4. DOMAIN g = FlightFields /\ g.kind = f.kind /\ g.run = f.run /\ g.disposed = b
  BY <1>2, <1>3 DEF FlightFields
<1> QED BY <1>2, <1>3, <1>4 DEF FlightSound

\* A run is shown in place of the one before.
LEMMA ShowSound ==
    ASSUME PageSound, UNCHANGED <<executed, route>>, NEW run, RunSound(run, route),
           NEW answers, answers \subseteq flights, Show(run, answers)
    PROVE  PageSound'
<1>1. \A f \in answers : FlightSound(f)
  BY DEF PageSound
<1>2. \A f \in flights' : FlightSound(f)
  BY <1>1, DisposedSound DEF Show
<1> QED BY <1>2 DEF Show, PageSound, FlightSound

LEMMA OpenSound ==
    ASSUME PageSound, Opening
    PROVE  PageSound'
<1>1. PICK r \in Reachable : Open(r)
  BY DEF Opening
<1>2. r \in Runs /\ PageOf[route] = "api"
  BY <1>1 DEF Reachable, Opening, PageSound
<1>3. \A f \in flights : FlightSound(f) /\ f.kind = "poll"
  BY <1>2 DEF PageSound, FlightSound
<1>4. \A g \in Dispose(flights) : FlightSound(g) /\ g.kind = "poll" /\ g.disposed
  BY <1>3, DisposedSound
<1>5. \A g \in flights' : DOMAIN g = FlightFields /\ g.kind = "poll" /\ g.disposed
  BY <1>1, <1>4 DEF Open, FlightSound
<1>6. UNCHANGED executed /\ route' = r /\ shown' = executed[r]
  BY <1>1 DEF Open
<1> QED BY <1>2, <1>5, <1>6 DEF PageSound, FlightSound

LEMMA CancelSound ==
    ASSUME PageSound, Cancel
    PROVE  PageSound'
<1> DEFINE run == executed[route]
<1>1. PICK after :
        /\ after = IF run.status = "QUEUED"
                   THEN [run EXCEPT !.status = "CANCELLED", !.category = "RUN_CANCELLED", !.cancel = TRUE]
                   ELSE IF Ended(run) THEN run ELSE [run EXCEPT !.cancel = TRUE]
        /\ executed' = [executed EXCEPT ![route] = after]
        /\ flights' = IF PageOf[route] = "api" THEN flights
                       ELSE flights \cup {[kind |-> "cancel", disposed |-> FALSE, run |-> after]}
  BY DEF Cancel
<1>2. route \in Runs /\ RunSound(run, route) /\ UNCHANGED <<route, shown>>
  BY DEF PageSound, Cancel
<1>3. RunSound(after, route)
  <2>1. CASE run.status = "QUEUED"
    <3>1. after = [run EXCEPT !.status = "CANCELLED", !.category = "RUN_CANCELLED", !.cancel = TRUE]
      BY <1>1, <2>1
    <3>2. /\ DOMAIN after = RunFields /\ after.id = run.id /\ after.steps = run.steps
          /\ after.failedStep = run.failedStep
      BY <1>2, <3>1 DEF RunSound, RunFields
    <3> HIDE DEF run
    <3> QED BY <1>2, <2>1, <3>2, StatusChanged DEF ActiveStatuses
  <2>2. CASE run.status # "QUEUED" /\ Ended(run)
    BY <1>1, <1>2, <2>2
  <2>3. CASE run.status # "QUEUED" /\ ~Ended(run)
    <3>1. after = [run EXCEPT !.cancel = TRUE]
      BY <1>1, <2>3
    <3>2. /\ DOMAIN after = RunFields /\ after.id = run.id /\ after.steps = run.steps
          /\ after.failedStep = run.failedStep /\ after.status = run.status /\ after.category = run.category
      BY <1>2, <3>1 DEF RunSound, RunFields
    <3> HIDE DEF run
    <3> QED BY <1>2, <3>2, StatusChanged
  <2> QED BY <2>1, <2>2, <2>3
<1>4. PageOf[route] = "api" \/ PageOf[route] = "browser"
  BY <1>2, RunPagesAssumption
<1>5. DEFINE answer == [kind |-> "cancel", disposed |-> FALSE, run |-> after]
<1>6. /\ DOMAIN answer = FlightFields /\ answer.kind = "cancel" /\ answer.run = after
      /\ \A f \in flights' : f \in flights \/ (f = answer /\ PageOf[route] # "api")
  BY <1>1 DEF FlightFields
<1> HIDE DEF answer
<1>7. \A f \in flights' : FlightSound(f)
  BY <1>3, <1>4, <1>6 DEF PageSound, FlightSound
<1> HIDE DEF run
<1>8. DOMAIN executed' = Runs /\ \A r \in Runs : RunSound(executed'[r], r)
  BY <1>1, <1>2, <1>3 DEF PageSound
<1> QED BY <1>2, <1>7, <1>8 DEF PageSound, FlightSound

LEMMA PageInitially == RunPagesInit => PageSound
<1> SUFFICES ASSUME RunPagesInit PROVE PageSound
  OBVIOUS
<1>1. PICK run \in IF route \in Past THEN PastRuns(route) ELSE {NewRun(route)} :
        executed = [r \in Runs |-> IF r = route THEN run ELSE NewRun(r)]
  BY DEF RunPagesInit
<1>2. route \in Runs /\ shown = executed[route] /\ flights = {}
  BY DEF RunPagesInit
<1>3. ASSUME NEW r PROVE RunSound(NewRun(r), r)
  <2>1. DOMAIN NewRun(r) = RunFields /\ NewRun(r).id = r /\ NewRun(r).steps = <<>> /\ NewRun(r).failedStep = 0
    BY DEF NewRun, RunFields
  <2>2. <<>> \in Seq(StepRuns) /\ Len(<<>>) = 0
    OBVIOUS
  <2> QED BY <2>1, <2>2 DEF RunSound, Conclusive
<1>4. ASSUME NEW past \in PastRuns(route) PROVE RunSound(past, route)
  <2>1. PICK length \in 1..MaxExecuted, before \in {"SUCCESS", "SKIPPED"},
             outcome \in Outcomes[route] \ {"SUCCESS", "SKIPPED", "SETUP"} :
             past = PastRun(route, length, before, outcome)
    BY DEF PastRuns
  <2>2. outcome \in StepOutcomes /\ length \in Nat \ {0}
    <3>1. \A n \in 1..MaxExecuted : n \in Nat \ {0}
      BY RunPagesAssumption
    <3>2. Outcomes[route] \subseteq StepOutcomes \cup {"SETUP"}
      BY <1>2, RunPagesAssumption DEF StepOutcomes
    <3> QED BY <2>1, <3>1, <3>2
  <2> DEFINE last == StepRun(length, outcome)
             steps == StepsRun(length, before, outcome)
  <2>3. last.error
    BY <2>1, <2>2, StepDef
  <2>4. DOMAIN NewRun(route) = RunFields /\ NewRun(route).id = route
    BY DEF NewRun, RunFields
  <2>5. past = [NewRun(route) EXCEPT !.status = last.status, !.category = last.category, !.steps = steps,
                    !.failedStep = length]
    BY <2>1 DEF PastRun
  <2>s. steps \in [1..length -> StepRuns] /\ steps[length] = last
          /\ (\A i \in 1..length : i # length => ~steps[i].error) /\ \A i \in 1..length : steps[i].def = i
    <3>1. length \in Nat \ {0} /\ before \in {"SUCCESS", "SKIPPED"} /\ outcome \in StepOutcomes
      BY <2>2
    <3> QED BY <3>1, Series
  <2>l. last = StepRun(length, outcome)
    OBVIOUS
  <2> HIDE DEF last, steps
  <2>6. /\ DOMAIN past = RunFields /\ past.id = route /\ past.steps = steps /\ past.status = last.status
        /\ past.category = last.category /\ past.failedStep = length
    BY <2>4, <2>5 DEF RunFields
  <2>7. Conclusive(past)
    BY <2>2, <2>3, <2>6, <2>s, <2>l, Concluded
  <2> QED BY <2>6, <2>7 DEF RunSound
<1> QED BY <1>1, <1>2, <1>3, <1>4 DEF PageSound

LEMMA PageInductive == PageSound /\ [RunPagesNext]_runPageVars => PageSound'
<1> SUFFICES ASSUME PageSound, [RunPagesNext]_runPageVars PROVE PageSound'
  OBVIOUS
<1>1. CASE UNCHANGED <<executed, route, shown, flights>>
  BY <1>1 DEF PageSound, FlightSound
<1>2. CASE Poll
  <2>1. DEFINE asked == [kind |-> "poll", disposed |-> FALSE, run |-> executed[route]]
  <2>2. /\ DOMAIN asked = FlightFields /\ asked.kind = "poll" /\ asked.run = executed[route]
        /\ flights' = flights \cup {asked}
    BY <1>2 DEF Poll, FlightFields
  <2> HIDE DEF asked
  <2> QED BY <1>2, <2>2 DEF Poll, PageSound, FlightSound
<1>3. CASE Answer
  <2>1. PICK f \in flights : f.kind = "poll" /\ ~f.disposed /\ Deliver(f.run)
    BY <1>3 DEF Answer
  <2>2. RunSound(f.run, route)
    BY <2>1 DEF PageSound, FlightSound
  <2> QED BY <1>3, <2>1, <2>2, ShowSound DEF Answer, Deliver
<1>4. CASE Ignore
  BY <1>4 DEF Ignore, PageSound, FlightSound
<1>5. CASE CancelAnswered
  <2>1. PICK f \in flights : f.kind = "cancel" /\ Show(f.run, flights \ {f})
    BY <1>5 DEF CancelAnswered
  <2>2. RunSound(f.run, route)
    BY <2>1 DEF PageSound, FlightSound
  <2> QED BY <1>5, <2>1, <2>2, ShowSound DEF CancelAnswered
<1>6. CASE Select
  BY <1>1, <1>6 DEF Select
<1> QED
  BY <1>1, <1>2, <1>3, <1>4, <1>5, <1>6, ExecutingSound, OpenSound, CancelSound DEF RunPagesNext, runPageVars

\* A page shows the run it was opened for, whichever answers are still on their
\* way from an earlier page (the effect that shows what the loader of another
\* run answered, and the polling effect that disposes of what it asked for).
THEOREM PageShowsItsRun == RunPagesSpec => []ShowsItsRun
<1>1. PageSound => ShowsItsRun
  BY DEF PageSound, RunSound, ShowsItsRun
<1> QED BY <1>1, PageInitially, PageInductive, PTL DEF RunPagesSpec

\* No step was executed twice: no script has selected one that was executed before.
OnceExecuted(run) ==
    \A i, j \in DOMAIN run.steps : run.steps[i].def = run.steps[j].def => i = j

LEMMA OnlyIndex ==
    ASSUME NEW n \in Nat
    PROVE  Min({n}) = n
  BY DEF Min

\* The step that is found for the failed one is the one that failed.
LEMMA FailedFound ==
    ASSUME NEW run, Conclusive(run), OnceExecuted(run), run.failedStep # 0
    PROVE  SelectedStep(run, run.failedStep) = run.steps[Len(run.steps)]
<1>1. run.steps \in Seq(StepRuns) /\ run.steps # <<>> /\ run.steps[Len(run.steps)].def = run.failedStep
  BY DEF Conclusive
<1>2. Len(run.steps) \in Nat \ {0} /\ DOMAIN run.steps = 1..Len(run.steps)
  BY <1>1
<1>3. {i \in 1..Len(run.steps) : run.steps[i].def = run.failedStep} = {Len(run.steps)}
  BY <1>1, <1>2 DEF OnceExecuted
<1>4. SelectInSeq(run.steps, LAMBDA s : s.def = run.failedStep) = Len(run.steps)
  BY <1>2, <1>3, OnlyIndex DEF SelectInSeq
<1> QED BY <1>2, <1>4 DEF SelectedStep

LEMMA FailureIsFound ==
    ASSUME NEW run, Conclusive(run), OnceExecuted(run), run.failedStep # 0, run.status \notin ActiveStatuses
    PROVE  /\ Failing(run) /\ run.category # ""
           /\ FailurePanel(PrimaryFailure(run)).step = run.failedStep
           /\ PrimaryFailure(run).step = run.failedStep
<1> DEFINE last == run.steps[Len(run.steps)]
           failing == {i \in DOMAIN run.steps :
                        run.steps[i].def = run.failedStep \/ run.steps[i].status \in {"FAILED", "TIMED_OUT"}}
<1>1. /\ run.steps \in Seq(StepRuns) /\ run.steps # <<>> /\ last.def = run.failedStep /\ last.error
      /\ last.status = run.status /\ last.category = run.category
      /\ \A i \in 1..Len(run.steps) : run.steps[i].error => i = Len(run.steps)
  BY DEF Conclusive
<1>2. /\ Len(run.steps) \in Nat \ {0} /\ DOMAIN run.steps = 1..Len(run.steps)
      /\ \A i \in 1..Len(run.steps) : run.steps[i] \in StepRuns
  BY <1>1
<1>3. run.status \in {"FAILED", "TIMED_OUT", "CANCELLED"} /\ run.category # ""
  <2>1. last \in StepRuns
    BY <1>2
  <2> HIDE DEF last
  <2> QED BY <1>1, <2>1, StepFacts
<1>4. failing = {Len(run.steps)}
  <2>1. \A i \in failing : i = Len(run.steps)
    <3> SUFFICES ASSUME NEW i \in failing PROVE i = Len(run.steps)
      OBVIOUS
    <3>1. CASE run.steps[i].def = run.failedStep
      BY <1>1, <1>2, <3>1 DEF OnceExecuted
    <3>2. CASE run.steps[i].status \in {"FAILED", "TIMED_OUT"}
      BY <1>1, <1>2, <3>2, StepFacts
    <3> QED BY <3>1, <3>2
  <2> QED BY <1>1, <1>2, <2>1
<1>5. Min(failing) = Len(run.steps) /\ failing # {}
  BY <1>2, <1>4, OnlyIndex
<1>6. PrimaryFailure(run).step = run.failedStep /\ PrimaryFailure(run).named
  <2>1. run.status \notin Succeeded \cup ActiveStatuses
    BY <1>3 DEF Succeeded, ActiveStatuses
  <2>2. PICK attempt :
            PrimaryFailure(run) =
                [step |-> IF failing = {} THEN run.failedStep ELSE run.steps[Min(failing)].def,
                 named |-> failing # {}, phase |-> PhaseOfCategory(run)[1], attempt |-> attempt,
                 help |-> PhaseOfCategory(run)[2]]
    BY <2>1 DEF PrimaryFailure
  <2>3. PrimaryFailure(run).step = last.def /\ PrimaryFailure(run).named
    <3>1. run.steps[Min(failing)] = last
      BY <1>5
    <3>2. /\ PrimaryFailure(run).step = IF failing = {} THEN run.failedStep ELSE run.steps[Min(failing)].def
          /\ PrimaryFailure(run).named = (failing # {})
      <4> HIDE DEF failing
      <4> QED BY <2>2
    <3> HIDE DEF failing, last
    <3> QED BY <1>5, <3>1, <3>2
  <2> QED BY <1>1, <2>3
<1>7. FailurePanel(PrimaryFailure(run)).step = run.failedStep
  BY <1>6 DEF FailurePanel
<1>8. Failing(run)
  BY <1>3 DEF Failing, Succeeded, ActiveStatuses
<1> QED BY <1>3, <1>6, <1>7, <1>8

LEMMA ShownIsTraceable == PageSound /\ OnceExecuted(shown) => FailureTraceable
<1> SUFFICES ASSUME PageSound, OnceExecuted(shown), Ended(shown), shown.status # "SUCCESS", shown.failedStep # 0
             PROVE  /\ Rendered.failed
                    /\ PageOf[route] = "api" =>
                        /\ FailurePanel(PrimaryFailure(shown)).step = shown.failedStep
                        /\ StepPanel(shown, SelectedStep(shown, PrimaryFailure(shown).step)).alert
                    /\ BrowserPage(shown, shown.failedStep).panel.alert
  BY DEF FailureTraceable
<1>1. Conclusive(shown) /\ shown.status \notin ActiveStatuses
  BY DEF PageSound, RunSound, Ended, BrowserActive
<1>2. /\ Failing(shown) /\ shown.category # "" /\ PrimaryFailure(shown).step = shown.failedStep
      /\ FailurePanel(PrimaryFailure(shown)).step = shown.failedStep
  BY <1>1, FailureIsFound
<1>3. SelectedStep(shown, shown.failedStep).error /\ shown.steps # <<>>
  BY <1>1, FailedFound DEF Conclusive
<1>4. Rendered.failed
  <2>1. ApiPage(shown, selected).failed /\ BrowserPage(shown, selected).failed
    BY <1>2 DEF ApiPage, BrowserPage
  <2> QED BY <2>1 DEF Rendered
<1>5. StepPanel(shown, SelectedStep(shown, PrimaryFailure(shown).step)).alert
  BY <1>2, <1>3 DEF StepPanel
<1>6. BrowserPage(shown, shown.failedStep).panel.alert
  <2>1. JourneyTabs(shown, shown.failedStep).alert
    BY <1>3 DEF JourneyTabs
  <2> QED BY <2>1 DEF BrowserPage
<1> QED BY <1>2, <1>4, <1>5, <1>6

\* A failed run is explained, whatever its steps left and whichever answer is
\* shown: the panel names the step that failed, and opening it shows the error
\* (diagnostics.go and both pages), unless the run has executed a step twice,
\* of which the pages show the first execution only.
THEOREM FailuresAreTraceable == RunPagesSpec => [](OnceExecuted(shown) => FailureTraceable)
<1>1. PageSound => (OnceExecuted(shown) => FailureTraceable)
  BY ShownIsTraceable
<1> QED BY <1>1, PageInitially, PageInductive, PTL DEF RunPagesSpec

\* Without scripts that select a step again every failure is traceable.
THEOREM FailuresTraceable ==
    ASSUME ~LoopsAllowed
    PROVE  RunPagesSpec => []FailureTraceable
<1>1. PageSound => FailureTraceable
  <2> SUFFICES ASSUME PageSound PROVE FailureTraceable
    OBVIOUS
  <2>1. shown.steps \in Seq(StepRuns) /\ \A i \in 1..Len(shown.steps) : shown.steps[i].def = i
    BY DEF PageSound, RunSound, Conclusive
  <2>2. OnceExecuted(shown)
    BY <2>1 DEF OnceExecuted
  <2> QED BY <2>2, ShownIsTraceable
<1> QED BY <1>1, PageInitially, PageInductive, PTL DEF RunPagesSpec

(***************************************************************************)
(* Induction over the natural numbers, for sets of them: a predicate is    *)
(* the set of the numbers it holds for.  It rests on there being a         *)
(* smallest element of every set of numbers.                               *)
(***************************************************************************)
Less == {p \in Nat \X Nat : p[1] < p[2]}
LEMMA LessIsWellFounded == IsWellFoundedOn(Less, Nat)
<1>1. Less = OpToRel(<, Nat)
  BY DEF Less, OpToRel
<1> QED BY <1>1, NatLessThanWellFounded

LEMMA SmallestExists ==
    ASSUME NEW T \in SUBSET Nat, T # {}
    PROVE  \E x \in T : \A y \in T : x <= y
<1>1. PICK x \in T : \A y \in T : ~(<<y, x>> \in Less)
  BY LessIsWellFounded, WFMin
<1>2. ASSUME NEW y \in T PROVE x <= y
  <2>1. x \in Nat /\ y \in Nat
    OBVIOUS
  <2>2. y < x => <<y, x>> \in Less
    BY <2>1 DEF Less
  <2> QED BY <1>1, <2>1, <2>2
<1> QED BY <1>2

LEMMA Induction ==
    ASSUME NEW T \in SUBSET Nat, 0 \in T, \A n \in T : n + 1 \in T
    PROVE  T = Nat
<1>1. SUFFICES ASSUME T # Nat PROVE FALSE
  OBVIOUS
<1>2. PICK x \in Nat \ T : \A y \in Nat \ T : x <= y
  BY <1>1, SmallestExists
<1>3. x # 0 /\ x - 1 \in Nat
  BY <1>2
<1>4. x - 1 \notin Nat \ T
  BY <1>2, <1>3
<1>5. (x - 1) + 1 = x
  BY <1>2
<1> QED BY <1>2, <1>3, <1>4, <1>5

LEMMA LargestExists ==
    ASSUME NEW n \in Nat, NEW T \in SUBSET (1..n), T # {}
    PROVE  \E x \in T : \A y \in T : y <= x
<1> DEFINE Mirror == {n - x : x \in T}
<1>1. Mirror \in SUBSET Nat /\ Mirror # {}
  <2>1. \A x \in T : x \in Nat /\ n - x \in Nat
    OBVIOUS
  <2> QED BY <2>1
<1>2. PICK z \in Mirror : \A y \in Mirror : z <= y
  <2> HIDE DEF Mirror
  <2> QED BY <1>1, SmallestExists
<1>3. PICK x \in T : z = n - x
  BY <1>2
<1>4. ASSUME NEW y \in T PROVE y <= x
  <2>1. n - x <= n - y
    BY <1>2, <1>3
  <2> QED BY <2>1
<1> QED BY <1>4

(***************************************************************************)
(* The list of monitors.  A cursor is known by its rank, how many of the   *)
(* monitors that match there are up to it: as long as those stay the same, *)
(* the page n is read from a cursor of rank n - 1 pages, and the cursors   *)
(* by which the user came have the ranks of the pages before.              *)
(***************************************************************************)

LEMMA MonitorNumbers ==
    ASSUME NEW S \in SUBSET Monitors
    PROVE  S \in SUBSET Nat /\ \A k \in S : k \in Nat /\ k > 0
<1>1. Monitors \in SUBSET Nat /\ \A k \in Monitors : k \in Nat /\ k > 0
  BY ListAssumption DEF Monitors
<1> QED BY <1>1

\* Sets of monitors are finite, and ranks are numbers.
LEMMA MonitorsFinite ==
    ASSUME NEW S \in SUBSET Monitors
    PROVE  IsFiniteSet(S) /\ Cardinality(S) \in Nat
<1>1. IsFiniteSet(Monitors)
  BY ListAssumption, FS_Interval DEF Monitors
<1> QED BY <1>1, FS_Subset, FS_CardinalityType

LEMMA RankType ==
    ASSUME NEW S \in SUBSET Monitors, NEW c \in Nat
    PROVE  /\ Rank(c, S) \in Nat /\ Rank(c, S) <= Cardinality(S)
           /\ Rank(0, S) = 0
           /\ c \in S => Rank(c, S) >= 1
<1>1. IsFiniteSet(S)
  BY MonitorsFinite
<1>2. {k \in S : k <= c} \in SUBSET S /\ {k \in S : k <= c} \in SUBSET Monitors
  OBVIOUS
<1>3. Rank(c, S) \in Nat /\ Rank(c, S) <= Cardinality(S)
  BY <1>1, <1>2, FS_Subset, MonitorsFinite DEF Rank
<1>4. {k \in S : k <= 0} = {}
  <2>1. \A k \in S : ~(k <= 0)
    BY MonitorNumbers
  <2> QED BY <2>1
<1>5. c \in S => {k \in S : k <= c} # {}
  <2>1. c <= c
    OBVIOUS
  <2> QED BY <2>1
<1>6. c \in S => Rank(c, S) # 0
  BY <1>2, <1>5, MonitorsFinite, FS_EmptySet DEF Rank
<1> QED BY <1>3, <1>4, <1>6, FS_EmptySet DEF Rank

\* The monitors up to m are those up to an earlier c, and those after it up to m.
LEMMA RankSplit ==
    ASSUME NEW S \in SUBSET Monitors, NEW c \in Nat, NEW m \in Nat, c <= m
    PROVE  Rank(m, S) = Rank(c, S) + Rank(m, {k \in S : k > c})
<1> DEFINE A == {k \in S : k <= c}
           B == {k \in {j \in S : j > c} : k <= m}
<1>1. \A k \in S : /\ k <= m <=> (k <= c \/ (k > c /\ k <= m))
                  /\ ~(k <= c /\ k > c)
  BY MonitorNumbers
<1>2. A \cup B = {k \in S : k <= m} /\ A \cap B = {}
  BY <1>1
<1>3. A \in SUBSET Monitors /\ B \in SUBSET Monitors
  OBVIOUS
<1>4. IsFiniteSet(A) /\ IsFiniteSet(B) /\ Cardinality(A) \in Nat /\ Cardinality(B) \in Nat
  BY <1>3, MonitorsFinite
<1>5. Cardinality(A \cup B) = Cardinality(A) + Cardinality(B) - Cardinality(A \cap B)
  <2> HIDE DEF A, B
  <2> QED BY <1>4, FS_Union
<1>6. Cardinality(A \cap B) = 0
  BY <1>2, FS_EmptySet
<1>7. Cardinality(A \cup B) = Cardinality(A) + Cardinality(B)
  <2> HIDE DEF A, B
  <2> QED BY <1>4, <1>5, <1>6
<1> QED BY <1>2, <1>7 DEF Rank

LEMMA CountSplit ==
    ASSUME NEW S \in SUBSET Monitors, NEW c \in Nat
    PROVE  Cardinality(S) = Rank(c, S) + Cardinality({k \in S : k > c})
<1> DEFINE A == {k \in S : k <= c}
           B == {k \in S : k > c}
<1>1. \A k \in S : (k <= c \/ k > c) /\ ~(k <= c /\ k > c)
  BY MonitorNumbers
<1>2. A \cup B = S /\ A \cap B = {}
  BY <1>1
<1>3. A \in SUBSET Monitors /\ B \in SUBSET Monitors
  OBVIOUS
<1>4. IsFiniteSet(A) /\ IsFiniteSet(B) /\ Cardinality(A) \in Nat /\ Cardinality(B) \in Nat
  BY <1>3, MonitorsFinite
<1>5. Cardinality(A \cup B) = Cardinality(A) + Cardinality(B) - Cardinality(A \cap B)
  <2> HIDE DEF A, B
  <2> QED BY <1>4, FS_Union
<1>6. Cardinality(A \cap B) = 0
  BY <1>2, FS_EmptySet
<1>7. Cardinality(A \cup B) = Cardinality(A) + Cardinality(B)
  <2> HIDE DEF A, B
  <2> QED BY <1>4, <1>5, <1>6
<1> QED BY <1>2, <1>7 DEF Rank

\* There is a monitor of every rank: the first whose rank is not smaller.
LEMMA RankExists ==
    ASSUME NEW S \in SUBSET Monitors, NEW n \in Nat \ {0}, n <= Cardinality(S)
    PROVE  \E m \in S : Rank(m, S) = n
<1> DEFINE T == {m \in S : Rank(m, S) >= n}
<1>0. S \in SUBSET Nat /\ S \in SUBSET (1..MonitorCount) /\ MonitorCount \in Nat
  BY ListAssumption, MonitorNumbers DEF Monitors
<1>1. S # {}
  BY FS_EmptySet
<1>2. PICK top \in S : \A y \in S : y <= top
  BY <1>0, <1>1, LargestExists
<1>3. {k \in S : k <= top} = S
  BY <1>2
<1>4. top \in T
  BY <1>3, MonitorsFinite DEF Rank
<1>5. PICK x \in T : \A y \in T : x <= y
  <2>1. T \in SUBSET Nat /\ T # {}
    BY <1>0, <1>4
  <2> HIDE DEF T
  <2> QED BY <2>1, SmallestExists
<1>6. x \in S /\ x \in Nat /\ Rank(x, S) >= n /\ Rank(x, S) \in Nat
  BY <1>0, <1>5, RankType
<1> DEFINE Below == {k \in S : k < x}
<1>7. Below \in SUBSET Monitors /\ Below \in SUBSET (1..MonitorCount) /\ x \notin Below
  <2>1. ~(x < x)
    BY <1>6
  <2> QED BY <1>0, <2>1
<1>8. {k \in S : k <= x} = Below \cup {x}
  <2>1. \A k \in S : k <= x <=> (k < x \/ k = x)
    BY <1>0, <1>6
  <2> QED BY <1>6, <2>1
<1>9. IsFiniteSet(Below) /\ Cardinality(Below) \in Nat
  BY <1>7, MonitorsFinite
<1>10. Rank(x, S) = Cardinality(Below) + 1
  <2>1. Cardinality(Below \cup {x}) = Cardinality(Below) + 1
    <3> HIDE DEF Below
    <3> QED BY <1>7, <1>9, FS_AddElement
  <2> QED BY <1>8, <2>1 DEF Rank
<1>11. Cardinality(Below) < n
  <2>1. CASE Below = {}
    BY <2>1, FS_EmptySet
  <2>2. CASE Below # {}
    <3>1. PICK y \in Below : \A k \in Below : k <= y
      <4> HIDE DEF Below
      <4> QED BY <1>0, <1>7, <2>2, LargestExists
    <3>2. y \in S /\ y \in Nat /\ y < x
      BY <1>0, <3>1
    <3>3. {k \in S : k <= y} = Below
      <4>1. \A k \in S : k <= y => k < x
        BY <1>0, <1>6, <3>2
      <4> QED BY <3>1, <4>1
    <3>4. y \notin T
      BY <1>5, <1>6, <3>2
    <3>5. Rank(y, S) = Cardinality(Below)
      BY <3>3 DEF Rank
    <3> QED BY <1>9, <3>2, <3>4, <3>5
  <2> QED BY <2>1, <2>2
<1> QED BY <1>6, <1>9, <1>10, <1>11

\* The monitors of a page are those whose ranks are the numbers of its rows.
RowsAfter(c, S) == {m \in {k \in S : k > c} : Rank(m, {k \in S : k > c}) <= PageSize}
NextAfter(c, S) ==
    IF Cardinality({k \in S : k > c}) > PageSize
    THEN CHOOSE m \in {k \in S : k > c} : Rank(m, {k \in S : k > c}) = PageSize ELSE NoCursor

LEMMA RowsByRank ==
    ASSUME NEW S \in SUBSET Monitors, NEW c \in Nat
    PROVE  RowsAfter(c, S) = {m \in S : Rank(m, S) \in (Rank(c, S) + 1)..(Rank(c, S) + PageSize)}
<1> DEFINE rest == {k \in S : k > c}
<1>1. rest \in SUBSET Monitors /\ S \in SUBSET Nat /\ PageSize \in Nat
  BY ListAssumption, MonitorNumbers
<1>2. ASSUME NEW m \in S
      PROVE  (m \in rest /\ Rank(m, rest) <= PageSize)
                <=> Rank(m, S) \in (Rank(c, S) + 1)..(Rank(c, S) + PageSize)
  <2>1. m \in Nat /\ Rank(m, S) \in Nat /\ Rank(c, S) \in Nat
    BY <1>1, RankType
  <2>2. CASE m > c
    <3>1. m \in rest
      BY <2>2
    <3>2. Rank(m, rest) \in Nat /\ Rank(m, rest) >= 1
      <4> HIDE DEF rest
      <4> QED BY <1>1, <2>1, <3>1, RankType
    <3>3. Rank(m, S) = Rank(c, S) + Rank(m, rest)
      BY <2>1, <2>2, RankSplit
    <3> HIDE DEF rest
    <3> QED BY <1>1, <2>1, <3>1, <3>2, <3>3
  <2>3. CASE ~(m > c)
    <3>1. m <= c /\ m \notin rest
      BY <2>1, <2>3
    <3> DEFINE beyond == {k \in S : k > m}
    <3>2. Rank(c, S) = Rank(m, S) + Rank(c, beyond)
      BY <2>1, <3>1, RankSplit
    <3>3. Rank(c, beyond) \in Nat
      <4>1. beyond \in SUBSET Monitors
        OBVIOUS
      <4> HIDE DEF beyond
      <4> QED BY <4>1, RankType
    <3> HIDE DEF rest, beyond
    <3> QED BY <1>1, <2>1, <3>1, <3>2, <3>3
  <2> QED BY <2>2, <2>3
<1> QED BY <1>2 DEF RowsAfter

\* The cursor to the next page is a page further, and not the last monitor.
LEMMA NextByRank ==
    ASSUME NEW S \in SUBSET Monitors, NEW c \in Nat, NextAfter(c, S) # NoCursor
    PROVE  /\ NextAfter(c, S) \in S
           /\ Rank(NextAfter(c, S), S) = Rank(c, S) + PageSize
           /\ Cardinality(S) > Rank(c, S) + PageSize
<1> DEFINE rest == {k \in S : k > c}
<1>1. rest \in SUBSET Monitors /\ S \in SUBSET Nat /\ PageSize \in Nat \ {0}
  BY ListAssumption, MonitorNumbers
<1>2. Cardinality(rest) > PageSize /\ NextAfter(c, S) = CHOOSE m \in rest : Rank(m, rest) = PageSize
  BY DEF NextAfter
<1>3. Cardinality(rest) \in Nat
  <2> HIDE DEF rest
  <2> QED BY <1>1, MonitorsFinite
<1>4. \E m \in rest : Rank(m, rest) = PageSize
  <2> HIDE DEF rest
  <2> QED BY <1>1, <1>2, <1>3, RankExists
<1>5. NextAfter(c, S) \in rest /\ Rank(NextAfter(c, S), rest) = PageSize
  <2> HIDE DEF rest
  <2> QED BY <1>2, <1>4
<1>6. NextAfter(c, S) \in S /\ NextAfter(c, S) \in Nat /\ c <= NextAfter(c, S)
  <2>1. \A m \in rest : m \in S /\ m \in Nat /\ c <= m
    BY <1>1
  <2> HIDE DEF rest
  <2> QED BY <1>5, <2>1
<1>7. Rank(NextAfter(c, S), S) = Rank(c, S) + PageSize
  BY <1>5, <1>6, RankSplit
<1>8. Cardinality(S) = Rank(c, S) + Cardinality(rest)
  BY CountSplit
<1>9. Rank(c, S) \in Nat
  BY RankType
<1> HIDE DEF rest
<1> QED BY <1>1, <1>2, <1>3, <1>6, <1>7, <1>8, <1>9

\* The pages there are: one more as soon as there is a row after the last.
LEMMA PageCountFacts ==
    ASSUME NEW total \in Nat
    PROVE  /\ PageCount(total) \in Nat \ {0}
           /\ \A q \in Nat : total > q * PageSize => q + 1 <= PageCount(total)
<1>0. PageSize \in Nat \ {0}
  BY ListAssumption
<1> DEFINE d == (total + PageSize - 1) \div PageSize
<1>1. CASE total = 0
  <2>1. \A q \in Nat : q * PageSize >= 0
    BY <1>0
  <2> QED BY <1>0, <1>1, <2>1 DEF PageCount
<1>2. CASE total # 0
  <2>1. PageCount(total) = d
    BY <1>2 DEF PageCount
  <2>2. d \in Nat /\ total + PageSize - 1 < (d + 1) * PageSize /\ d * PageSize <= total + PageSize - 1
    BY <1>0
  <2>3. d # 0
    BY <1>0, <1>2, <2>2
  <2>4. ASSUME NEW q \in Nat, total > q * PageSize, ~(q + 1 <= d) PROVE FALSE
    <3>1. d <= q
      BY <2>2, <2>4
    <3>2. d * PageSize <= q * PageSize
      BY <1>0, <2>2, <3>1
    <3>3. (d + 1) * PageSize = d * PageSize + PageSize
      BY <1>0, <2>2
    <3> HIDE DEF d
    <3>4. q * PageSize \in Nat /\ d * PageSize \in Nat
      BY <1>0, <2>2
    <3>5. total >= q * PageSize + 1
      BY <2>4, <3>4
    <3> QED BY <1>0, <2>2, <3>2, <3>3, <3>4, <3>5
  <2> HIDE DEF d
  <2> QED BY <2>1, <2>2, <2>3, <2>4
<1> QED BY <1>1, <1>2

\* Where a page is read from, the rows then shown, and what of it holds however the
\* monitors change.
PlaceSet == [search : BOOLEAN, paused : BOOLEAN, page : Nat \ {0}, cursor : Nat, trail : Seq(Nat)]
OnPage(p, ms) ==
    /\ p.page = Len(p.trail) + 1
    /\ Rank(p.cursor, ms) = (p.page - 1) * PageSize
    /\ \A k \in 1..Len(p.trail) : Rank(p.trail[k], ms) = (k - 1) * PageSize
    /\ p.page # 1 => Cardinality(ms) > (p.page - 1) * PageSize
ShowsPage(l, p, ms) ==
    DOMAIN l.rows = RowsAfter(p.cursor, ms) /\ l.total = Cardinality(ms) /\ l.next = NextAfter(p.cursor, ms)
FromTheFirst(p) ==
    /\ p.page <= Len(p.trail) + 1
    /\ p.trail = <<>> => p.cursor = NoCursor
    /\ p.trail # <<>> => p.trail[1] = NoCursor
ListInv ==
    /\ place \in PlaceSet /\ typed \in BOOLEAN /\ listing.total \in Nat /\ listing.next \in Nat
    /\ FromTheFirst(place)
    /\ steady => OnPage(place, Matching(place)) /\ ShowsPage(listing, place, Matching(place))

LEMMA LoadShows ==
    ASSUME NEW p \in PlaceSet
    PROVE  /\ Matching(p) \in SUBSET Monitors
           /\ ShowsPage(Load(p), p, Matching(p))
           /\ Load(p).total \in Nat /\ Load(p).next \in Nat
<1>1. Matching(p) \in SUBSET Monitors /\ p.cursor \in Nat
  BY DEF Matching, PlaceSet
<1>2. ShowsPage(Load(p), p, Matching(p))
  BY DEF ShowsPage, Load, RowsAfter, NextAfter
<1>3. Cardinality(Matching(p)) \in Nat
  BY <1>1, MonitorsFinite
<1>4. NextAfter(p.cursor, Matching(p)) \in Nat
  <2>1. CASE NextAfter(p.cursor, Matching(p)) = NoCursor
    BY <2>1 DEF NoCursor
  <2>2. CASE NextAfter(p.cursor, Matching(p)) # NoCursor
    BY <1>1, <2>2, NextByRank, MonitorNumbers
  <2> QED BY <2>1, <2>2
<1> QED BY <1>1, <1>2, <1>3, <1>4 DEF ShowsPage

\* The first page is where the cursors begin.
LEMMA FirstIsOnPage ==
    ASSUME NEW p \in PlaceSet, FromTheFirst(p), p.trail = <<>>, NEW ms \in SUBSET Monitors
    PROVE  OnPage(p, ms)
<1>1. p.page = 1 /\ p.cursor = 0 /\ Len(p.trail) = 0
  BY DEF PlaceSet, FromTheFirst, NoCursor
<1>2. Rank(0, ms) = 0 /\ PageSize \in Nat
  BY RankType, ListAssumption
<1> QED BY <1>1, <1>2 DEF OnPage

\* What is loaded at a place that follows from a settled one is settled.
LEMMA NavigateKeeps ==
    ASSUME ListInv, NEW p \in PlaceSet, Navigate(p), typed' \in BOOLEAN, FromTheFirst(p),
           steady /\ p.trail # <<>> => OnPage(p, Matching(p))
    PROVE  ListInv'
<1>1. place' = p /\ listing' = Load(p) /\ catalog' = catalog
  BY DEF Navigate
<1>2. Matching(place)' = Matching(p)
  BY <1>1 DEF Matching, Matches, Paused
<1>3. steady' => OnPage(p, Matching(p))
  BY LoadShows, FirstIsOnPage DEF Navigate
<1> QED BY <1>1, <1>2, <1>3, LoadShows DEF ListInv

\* A page that is settled, and nothing that it is read from changes.
LEMMA SameListKeeps ==
    ASSUME ListInv, UNCHANGED <<catalog, place, typed, listing, steady>>
    PROVE  ListInv'
<1>1. Matching(place)' = Matching(place)
  BY DEF Matching, Matches, Paused
<1> QED BY <1>1 DEF ListInv

LEMMA ChangedKeeps ==
    ASSUME ListInv, NEW after, Changed(after), UNCHANGED <<typed, listing>>
    PROVE  ListInv'
<1>1. place' = place /\ steady' = (steady /\ Matching(place) = Matching(place)')
  BY DEF Changed, Resettled
<1> QED BY <1>1 DEF ListInv

LEMMA AnsweredKeeps ==
    ASSUME ListInv, NEW c, NEW selection, NEW dialog, NEW again \in BOOLEAN, AnsweredAs(c, selection, dialog, again)
    PROVE  ListInv'
<1>1. /\ place' = place /\ catalog' = catalog /\ typed' = typed
      /\ listing' = (IF again THEN Load(place) ELSE listing)
      /\ steady' = (steady \/ (again /\ place.trail = <<>>))
  BY DEF AnsweredAs
<1>2. Matching(place)' = Matching(place)
  BY <1>1 DEF Matching, Matches, Paused
<1>3. place \in PlaceSet /\ FromTheFirst(place)
  BY DEF ListInv
<1>4. Matching(place) \in SUBSET Monitors
  BY <1>3, LoadShows
<1>5. CASE again
  <2>1. steady' => OnPage(place, Matching(place))
    BY <1>1, <1>3, <1>4, FirstIsOnPage DEF ListInv
  <2> QED BY <1>1, <1>2, <1>3, <1>5, <2>1, LoadShows DEF ListInv
<1>6. CASE ~again
  BY <1>1, <1>2, <1>6 DEF ListInv
<1> QED BY <1>5, <1>6

\* The page shown is the page of the address.
LEMMA ShownIsPage ==
    ASSUME NEW p \in PlaceSet, NEW ms \in SUBSET Monitors, OnPage(p, ms)
    PROVE  p.page <= PageCount(Cardinality(ms)) /\ p.page * PageSize = (p.page - 1) * PageSize + PageSize
<1>1. PageSize \in Nat \ {0} /\ p.page \in Nat \ {0} /\ Cardinality(ms) \in Nat
  BY ListAssumption, MonitorsFinite DEF PlaceSet
<1>2. p.page * PageSize = (p.page - 1) * PageSize + PageSize
  BY <1>1
<1>3. CASE p.page = 1
  BY <1>1, <1>2, <1>3, PageCountFacts
<1>4. CASE p.page # 1
  <2>1. Cardinality(ms) > (p.page - 1) * PageSize /\ p.page - 1 \in Nat
    BY <1>1, <1>4 DEF OnPage
  <2>2. (p.page - 1) + 1 <= PageCount(Cardinality(ms))
    BY <1>1, <2>1, PageCountFacts
  <2> QED BY <1>1, <1>2, <2>2
<1> QED BY <1>3, <1>4

LEMMA ListInvImplies == ListInv => PageIsPlace
<1> SUFFICES ASSUME ListInv, steady PROVE PageIsPlace
  BY DEF PageIsPlace
<1> DEFINE ms == Matching(place)
<1>1. /\ place \in PlaceSet /\ OnPage(place, ms) /\ ShowsPage(listing, place, ms) /\ FromTheFirst(place)
      /\ ms \in SUBSET Monitors
  BY LoadShows DEF ListInv
<1> HIDE DEF ms
<1>2. place.page \in Nat \ {0} /\ place.cursor \in Nat /\ PageSize \in Nat \ {0}
  BY <1>1, ListAssumption DEF PlaceSet
<1>3. listing.total = Cardinality(ms) /\ Cardinality(ms) \in Nat
  BY <1>1, MonitorsFinite DEF ShowsPage
<1>4. ShownPage = place.page
  <2>1. place.page <= PageCount(listing.total) /\ PageCount(listing.total) \in Nat
    BY <1>1, <1>3, ShownIsPage, PageCountFacts
  <2> QED BY <1>2, <2>1 DEF ShownPage, Least
<1>5. Visible = {m \in ms : Rank(m, ms) \in ((ShownPage - 1) * PageSize + 1)..(ShownPage * PageSize)}
  <2>1. Visible = RowsAfter(place.cursor, ms)
    BY <1>1 DEF ShowsPage, Visible
  <2>2. /\ Rank(place.cursor, ms) = (ShownPage - 1) * PageSize
        /\ ShownPage * PageSize = (ShownPage - 1) * PageSize + PageSize
    BY <1>1, <1>4, ShownIsPage DEF OnPage
  <2> QED BY <1>1, <1>2, <2>1, <2>2, RowsByRank
<1>6. (ShownPage = 1) = (place.cursor = NoCursor)
  <2>1. CASE place.page = 1
    <3>1. Len(place.trail) = 0 /\ place.trail \in Seq(Nat)
      BY <1>1, <1>2, <2>1 DEF OnPage, PlaceSet
    <3>2. place.trail = <<>>
      BY <3>1
    <3> QED BY <1>1, <1>4, <2>1, <3>2 DEF FromTheFirst
  <2>2. CASE place.page # 1
    <3>1. place.page - 1 \in Nat \ {0}
      BY <1>2, <2>2
    <3>2. (place.page - 1) * PageSize # 0
      BY <1>2, <3>1
    <3>3. Rank(place.cursor, ms) # Rank(0, ms)
      BY <1>1, <3>2, RankType DEF OnPage
    <3> QED BY <1>4, <2>2, <3>3 DEF NoCursor
  <2> QED BY <2>1, <2>2
<1> QED BY <1>5, <1>6 DEF PageIsPlace, ms

LEMMA NarrowKeeps ==
    ASSUME ListInv, NEW search \in BOOLEAN, NEW paused \in BOOLEAN,
           Navigate(Narrowed(search, paused)), typed' \in BOOLEAN
    PROVE  ListInv'
<1> DEFINE p == Narrowed(search, paused)
<1>1. p \in PlaceSet /\ FromTheFirst(p) /\ p.trail = <<>>
  BY DEF Narrowed, FirstPlace, PlaceSet, FromTheFirst, NoCursor
<1> HIDE DEF p
<1> QED BY <1>1, NavigateKeeps DEF p

\* Turning a page leads a page further, along the cursor the page was loaded with.
LEMMA NextPageKeeps == ASSUME ListInv, NextPage PROVE ListInv'
<1> DEFINE p == [place EXCEPT !.page = Least(PageCount(listing.total), ShownPage + 1),
                              !.cursor = listing.next, !.trail = Append(@, place.cursor)]
           ms == Matching(place)
<1>1. Navigate(p) /\ listing.next # NoCursor /\ typed' = typed
  BY DEF NextPage
<1>2. /\ place \in PlaceSet /\ FromTheFirst(place) /\ typed \in BOOLEAN
      /\ listing.next \in Nat /\ listing.total \in Nat /\ ms \in SUBSET Monitors
  BY LoadShows DEF ListInv
<1>3. PageSize \in Nat \ {0} /\ PageCount(listing.total) \in Nat \ {0}
  BY <1>2, ListAssumption, PageCountFacts
<1>4. /\ place.page \in Nat \ {0} /\ place.cursor \in Nat /\ place.trail \in Seq(Nat)
      /\ Len(place.trail) \in Nat
  BY <1>2 DEF PlaceSet
<1>5. ShownPage \in Nat \ {0} /\ ShownPage <= place.page
  BY <1>3, <1>4 DEF ShownPage, Least
<1>6. /\ p.page = Least(PageCount(listing.total), ShownPage + 1)
      /\ p.cursor = listing.next /\ p.trail = Append(place.trail, place.cursor)
      /\ p.page \in Nat \ {0} /\ p.page <= ShownPage + 1
  BY <1>2, <1>3, <1>5 DEF PlaceSet, Least
<1>7. /\ Len(p.trail) = Len(place.trail) + 1 /\ p.trail # <<>> /\ p.trail \in Seq(Nat)
      /\ \A k \in 1..Len(place.trail) : p.trail[k] = place.trail[k]
      /\ p.trail[Len(place.trail) + 1] = place.cursor
  BY <1>4, <1>6
<1>8. p \in PlaceSet
  BY <1>2, <1>6, <1>7 DEF PlaceSet
<1>9. FromTheFirst(p)
  <2>1. p.page <= Len(p.trail) + 1
    BY <1>2, <1>4, <1>5, <1>6, <1>7 DEF FromTheFirst
  <2>2. p.trail[1] = NoCursor
    <3>1. CASE place.trail = <<>>
      BY <1>2, <1>7, <3>1 DEF FromTheFirst
    <3>2. CASE place.trail # <<>>
      <4>1. 1 \in 1..Len(place.trail)
        BY <1>4, <3>2
      <4> QED BY <1>2, <1>7, <3>2, <4>1 DEF FromTheFirst
    <3> QED BY <3>1, <3>2
  <2> QED BY <1>7, <2>1, <2>2 DEF FromTheFirst
<1>10. Matching(p) = ms
  BY <1>2 DEF Matching, Matches, PlaceSet
<1>11. ASSUME steady PROVE OnPage(p, ms)
  <2>1. OnPage(place, ms) /\ ShowsPage(listing, place, ms)
    BY <1>11 DEF ListInv
  <2>2. listing.next = NextAfter(place.cursor, ms) /\ listing.total = Cardinality(ms)
    BY <2>1 DEF ShowsPage
  <2>3. /\ Rank(listing.next, ms) = Rank(place.cursor, ms) + PageSize
        /\ Cardinality(ms) > Rank(place.cursor, ms) + PageSize
    BY <1>1, <1>2, <1>4, <2>2, NextByRank
  <2>4. /\ Rank(place.cursor, ms) = (place.page - 1) * PageSize
        /\ place.page * PageSize = (place.page - 1) * PageSize + PageSize
        /\ place.page <= PageCount(listing.total)
    BY <1>2, <2>1, <2>2, ShownIsPage DEF OnPage
  <2>5. place.page + 1 <= PageCount(listing.total)
    BY <1>2, <1>4, <2>2, <2>3, <2>4, PageCountFacts
  <2>6. ShownPage = place.page /\ p.page = place.page + 1
    BY <1>3, <1>4, <1>6, <2>4, <2>5 DEF ShownPage, Least
  <2>7. p.page = Len(p.trail) + 1 /\ place.page = Len(place.trail) + 1
    BY <1>7, <2>1, <2>6 DEF OnPage
  <2>8. ASSUME NEW k \in 1..Len(p.trail) PROVE Rank(p.trail[k], ms) = (k - 1) * PageSize
    <3>1. CASE k \in 1..Len(place.trail)
      BY <1>7, <2>1, <3>1 DEF OnPage
    <3>2. CASE k = Len(place.trail) + 1
      BY <1>7, <2>4, <2>7, <3>2
    <3> QED BY <1>4, <1>7, <3>1, <3>2
  <2>9. (p.page - 1) * PageSize = place.page * PageSize
    BY <1>4, <2>6
  <2> QED BY <1>6, <2>3, <2>4, <2>7, <2>8, <2>9 DEF OnPage
<1> HIDE DEF p
<1> QED BY <1>1, <1>2, <1>8, <1>9, <1>10, <1>11, NavigateKeeps

\* Turning back leads to the cursor of the page before.
LEMMA PreviousPageKeeps == ASSUME ListInv, PreviousPage PROVE ListInv'
<1> DEFINE p == [place EXCEPT !.page = ShownPage - 1,
                              !.cursor = IF place.trail = <<>> THEN NoCursor ELSE Last(place.trail),
                              !.trail = IF @ = <<>> THEN @ ELSE Front(@)]
           ms == Matching(place)
<1>1. Navigate(p) /\ ShownPage # 1 /\ typed' = typed
  BY DEF PreviousPage
<1>2. /\ place \in PlaceSet /\ FromTheFirst(place) /\ typed \in BOOLEAN
      /\ listing.total \in Nat /\ ms \in SUBSET Monitors
  BY LoadShows DEF ListInv
<1>3. PageSize \in Nat \ {0} /\ PageCount(listing.total) \in Nat \ {0}
  BY <1>2, ListAssumption, PageCountFacts
<1>4. /\ place.page \in Nat \ {0} /\ place.cursor \in Nat /\ place.trail \in Seq(Nat)
      /\ Len(place.trail) \in Nat
  BY <1>2 DEF PlaceSet
<1>5. ShownPage \in Nat /\ ShownPage > 1 /\ ShownPage <= place.page
  BY <1>1, <1>3, <1>4 DEF ShownPage, Least
<1>6. place.trail # <<>> /\ Len(place.trail) > 0
  BY <1>2, <1>4, <1>5 DEF FromTheFirst
<1>7. /\ p.page = ShownPage - 1 /\ p.page \in Nat \ {0}
      /\ p.cursor = place.trail[Len(place.trail)] /\ p.cursor \in Nat
      /\ p.trail = SubSeq(place.trail, 1, Len(place.trail) - 1)
  BY <1>2, <1>4, <1>5, <1>6 DEF PlaceSet, Last, Front
<1>8. /\ p.trail \in Seq(Nat) /\ Len(p.trail) = Len(place.trail) - 1
      /\ \A k \in 1..(Len(place.trail) - 1) : p.trail[k] = place.trail[k]
  <2> DEFINE n == Len(place.trail) - 1
  <2>1. n \in 0..Len(place.trail) /\ \A k \in 1..n : place.trail[k] \in Nat
    BY <1>4, <1>6
  <2>2. SubSeq(place.trail, 1, n) = [k \in 1..n |-> place.trail[k]]
    BY <1>4, <2>1
  <2> HIDE DEF p, n
  <2>3. p.trail \in Seq(Nat) /\ Len(p.trail) = n /\ \A k \in 1..n : p.trail[k] = place.trail[k]
    BY <1>7, <2>1, <2>2 DEF n
  <2> QED BY <2>3 DEF n
<1>9. p \in PlaceSet
  BY <1>2, <1>7, <1>8 DEF PlaceSet
<1>10. FromTheFirst(p)
  <2>1. p.page <= Len(p.trail) + 1
    BY <1>2, <1>4, <1>5, <1>7, <1>8 DEF FromTheFirst
  <2>2. place.trail[1] = NoCursor
    BY <1>2, <1>6 DEF FromTheFirst
  <2>3. p.trail = <<>> => p.cursor = NoCursor
    BY <1>4, <1>7, <1>8, <2>2
  <2>4. p.trail # <<>> => p.trail[1] = NoCursor
    <3>1. p.trail # <<>> => Len(p.trail) > 0
      BY <1>8
    <3>2. p.trail # <<>> => 1 \in 1..(Len(place.trail) - 1)
      BY <1>4, <1>8, <3>1
    <3> QED BY <1>8, <2>2, <3>2
  <2> QED BY <2>1, <2>3, <2>4 DEF FromTheFirst
<1>11. Matching(p) = ms
  BY <1>2 DEF Matching, Matches, PlaceSet
<1>12. ASSUME steady PROVE OnPage(p, ms)
  <2>1. OnPage(place, ms) /\ ShowsPage(listing, place, ms)
    BY <1>12 DEF ListInv
  <2>2. place.page <= PageCount(listing.total)
    BY <1>2, <2>1, ShownIsPage DEF ShowsPage
  <2>3. ShownPage = place.page
    BY <1>3, <1>4, <2>2 DEF ShownPage, Least
  <2>4. p.page = Len(p.trail) + 1 /\ p.page = Len(place.trail) /\ place.page = p.page + 1
    BY <1>4, <1>7, <1>8, <2>1, <2>3 DEF OnPage
  <2>5. Rank(p.cursor, ms) = (p.page - 1) * PageSize
    BY <1>4, <1>6, <1>7, <2>1, <2>4 DEF OnPage
  <2>6. \A k \in 1..Len(p.trail) : Rank(p.trail[k], ms) = (k - 1) * PageSize
    <3>1. \A k \in 1..Len(p.trail) : k \in 1..Len(place.trail) /\ p.trail[k] = place.trail[k]
      BY <1>4, <1>8
    <3> QED BY <2>1, <3>1 DEF OnPage
  <2>7. Cardinality(ms) > (p.page - 1) * PageSize
    <3>1. Cardinality(ms) > (place.page - 1) * PageSize
      BY <1>5, <2>1, <2>3 DEF OnPage
    <3>2. (place.page - 1) * PageSize = (p.page - 1) * PageSize + PageSize
      BY <1>3, <1>7, <2>4
    <3>3. Cardinality(ms) \in Nat /\ (p.page - 1) * PageSize \in Nat
      <4> DEFINE q == p.page
      <4>1. q \in Nat \ {0}
        BY <1>7
      <4> HIDE DEF q
      <4>2. q - 1 \in Nat
        BY <4>1
      <4>3. (q - 1) * PageSize \in Nat
        BY <1>3, <4>2
      <4> QED BY <1>2, <4>3, MonitorsFinite DEF q
    <3> HIDE DEF p, ms
    <3> QED BY <1>3, <3>1, <3>2, <3>3
  <2> QED BY <2>4, <2>5, <2>6, <2>7 DEF OnPage
<1> HIDE DEF p
<1> QED BY <1>1, <1>2, <1>9, <1>10, <1>11, <1>12, NavigateKeeps

LEMMA ListInitInv == ListInit => ListInv
<1> SUFFICES ASSUME ListInit PROVE ListInv
  OBVIOUS
<1>1. place = FirstPlace(FALSE, FALSE) /\ typed = FALSE /\ listing = Load(place)
  BY DEF ListInit
<1>2. place \in PlaceSet /\ FromTheFirst(place) /\ place.trail = <<>> /\ typed \in BOOLEAN
  <2> DEFINE none == <<>>
  <2>1. none \in Seq(Nat) /\ Len(none) = 0
    OBVIOUS
  <2> HIDE DEF none
  <2>2. place = [search |-> FALSE, paused |-> FALSE, page |-> 1, cursor |-> 0, trail |-> none]
    BY <1>1 DEF FirstPlace, NoCursor, none
  <2>3. place \in PlaceSet /\ place.trail = none /\ place.page = 1 /\ place.cursor = 0
    BY <2>1, <2>2 DEF PlaceSet
  <2>4. place.page <= Len(place.trail) + 1 /\ place.cursor = NoCursor
    BY <2>1, <2>3 DEF NoCursor
  <2>5. place.trail = <<>>
    BY <2>3 DEF none
  <2> QED BY <1>1, <2>3, <2>4, <2>5 DEF FromTheFirst
<1> QED BY <1>1, <1>2, LoadShows, FirstIsOnPage DEF ListInv

LEMMA ListNextInv == ListInv /\ [ListNext]_listVars => ListInv'
<1> SUFFICES ASSUME ListInv, [ListNext]_listVars PROVE ListInv'
  OBVIOUS
<1>1. place.search \in BOOLEAN /\ place.paused \in BOOLEAN /\ typed \in BOOLEAN
  BY DEF ListInv, PlaceSet
<1>2. CASE ChooseStatus
  BY <1>1, <1>2, NarrowKeeps DEF ChooseStatus
<1>3. CASE SearchTyped
  BY <1>1, <1>3, NarrowKeeps DEF SearchTyped
<1>4. CASE NextPage
  BY <1>4, NextPageKeeps
<1>5. CASE PreviousPage
  BY <1>5, PreviousPageKeeps
<1>6. CASE TypeSearch
  <2>1. UNCHANGED <<catalog, place, listing, steady>> /\ typed' \in BOOLEAN
    BY <1>1, <1>6 DEF TypeSearch
  <2>2. Matching(place)' = Matching(place)
    BY <2>1 DEF Matching, Matches, Paused
  <2> QED BY <2>1, <2>2 DEF ListInv
<1>7. CASE ToggleMonitor \/ ToggleAllVisible \/ ClearSelection \/ BulkAction \/ RowAction
           \/ RequestDeletion \/ ConfirmDeletion \/ CancelDeletion \/ NotApplied
  <2>1. UNCHANGED <<catalog, place, typed, listing, steady>>
    BY <1>7 DEF ToggleMonitor, ToggleAllVisible, ClearSelection, BulkAction, RowAction, RequestDeletion,
                ConfirmDeletion, CancelDeletion, NotApplied, Choose, OpenDialog, SendList
  <2> QED BY <2>1, SameListKeeps
<1>8. CASE Applied
  BY <1>8, ChangedKeeps DEF Applied
<1>9. CASE DeletedAll
  BY <1>9, ChangedKeeps DEF DeletedAll
<1>10. CASE ChangedElsewhere
  BY <1>10, ChangedKeeps DEF ChangedElsewhere
<1>11. CASE BulkAnswered
  BY <1>11, AnsweredKeeps DEF BulkAnswered
<1>12. CASE RowAnswered
  <2>1. PICK c \in listCalls : AnsweredAs(c, chosen, targets, ~c.failed)
    BY <1>12 DEF RowAnswered
  <2> QED BY <2>1, AnsweredKeeps
<1>13. CASE DeleteAnswered
  BY <1>13, AnsweredKeeps DEF DeleteAnswered
<1>14. CASE InboxNext
  <2>1. UNCHANGED <<catalog, place, typed, listing, steady>>
    BY <1>14 DEF InboxNext, FilterInbox, TurnInbox, MoveInbox, ViewEvidence, ActOnAlert, SendList, Transitioned,
                 AlertChanges, AlertAnswered, NotApplied, monitorListVars
  <2> QED BY <2>1, SameListKeeps
<1>15. CASE UNCHANGED listVars
  BY <1>15, SameListKeeps DEF listVars
<1> QED BY <1>2, <1>3, <1>4, <1>5, <1>6, <1>7, <1>8, <1>9, <1>10, <1>11, <1>12, <1>13, <1>14, <1>15
        DEF ListNext, MonitorListNext

\* The list of monitors is where it says it is: page n shows the n-th rows that match, for
\* as long as those have stayed the same since its first page was loaded.
THEOREM PageIsPlaceHolds == ListSpec => []PageIsPlace
<1> QED BY ListInitInv, ListNextInv, ListInvImplies, PTL DEF ListSpec

(***************************************************************************)
(* The workbench.  Without scripts a run of a workflow leaves, under the   *)
(* bare name and among the variables, the value of a step that no later    *)
(* one was sure to replace, under the outputs of a step that is sure to    *)
(* run its own, and for the environment the one of the profile.            *)
(***************************************************************************)
Values == [Places -> Nat]
MaybeLast(w, k) == {i \in 1..k : w.steps[i].by \in Giving /\ \A j \in (i + 1)..k : ~Sure(w.steps[j])}
QuietWays == {"none"} \cup Giving \cup NamedOnly
WithOutputs == {"step action", "extractor", "secret extractor"}
Quiet(w) == w \in Workflows /\ Len(w.steps) \in 1..MaxSteps /\ ~w.sensitive /\ NoScripts(w)
LeftSound(w, k, v) ==
    /\ v \in Values
    /\ \/ v = FromProfile(w.profile) /\ \A j \in 1..k : ~Sure(w.steps[j])
       \/ \E i \in MaybeLast(w, k) : v["variables"] = Given(i)
    /\ w.profile => v["environment"] # 0
    /\ \A i \in 1..k : Sure(w.steps[i]) /\ w.steps[i].by \in WithOutputs => v[OutputsOf(i)] # 0

LEMMA PutFacts ==
    ASSUME NEW v \in Values, NEW places, NEW new \in Nat
    PROVE  /\ Put(v, places, new) \in Values
           /\ \A p \in Places : Put(v, places, new)[p] = IF p \in places THEN new ELSE v[p]
BY DEF Put, Values

LEMMA PlaceNames ==
    /\ Scopes \subseteq Places /\ "bare" \in Places
    /\ \A i \in 1..MaxSteps : OutputsOf(i) \in Places
BY DEF Places, Scopes, Outputs

LEMMA GivenValue == ASSUME NEW i \in Nat PROVE Given(i) \in Nat /\ Given(i) # 0
BY DEF Given

LEMMA QuietStep ==
    ASSUME NEW w, Quiet(w), NEW i \in 1..Len(w.steps)
    PROVE  /\ i \in 1..MaxSteps /\ i \in Nat
           /\ w.steps[i].by \in QuietWays
<1>1. w.steps \in Seq(Producers) /\ Len(w.steps) \in 1..MaxSteps
  BY DEF Quiet, Workflows
<1>2. i \in 1..MaxSteps /\ w.steps[i] \in Producers /\ i \in DOMAIN w.steps
  BY <1>1, WorkflowAssumption
<1>3. w.steps[i].by \notin Scripts
  BY <1>2 DEF Quiet, NoScripts
<1>4. \A d \in Producers :
        d.by \in QuietWays \cup Scripts
  BY DEF Producers, Scripts, QuietWays
<1>5. i \in Nat
  BY <1>2
<1> QED BY <1>2, <1>3, <1>4, <1>5

\* One step of such a workflow: what its request is rendered from, and what it leaves.
Renders(v, step, i) ==
    IF step.by # "action" THEN v
    ELSE IF v["variables"] = 0 THEN Put(v, {"variables", "bare"}, Given(i)) ELSE Put(v, {"bare"}, Given(i))
Leaves(v, step, i) ==
    IF step.by \notin Giving THEN v
    ELSE Put(v, IF step.by = "action" THEN {"variables", "bare"} ELSE {"variables", "bare", OutputsOf(i)}, Given(i))

LEMMA QuietPrivate ==
    ASSUME NEW w, Quiet(w), NEW i \in 1..Len(w.steps), NEW v \in Values, NEW rendered,
           w.steps[i].by \notin {"step action", "step unset"}
    PROVE  AfterPrivate(AfterResponse(AfterAction(v, w.steps[i], Given(i)), w.steps[i], i), rendered, w.steps[i], i, FALSE)
              = {Leaves(v, w.steps[i], i)}
<1> DEFINE step == w.steps[i]
           s == AfterResponse(AfterAction(v, step, Given(i)), step, i)
<1>1. /\ i \in 1..MaxSteps /\ i \in Nat
      /\ step.by \in {"none", "extractor off", "unset", "action", "extractor", "secret extractor"}
  BY QuietStep DEF QuietWays, Giving, Extractors, NamedOnly
<1>2. Given(i) \in Nat /\ Given(i) # 0
  BY <1>1, GivenValue
<1> HIDE DEF step
<1>3. CASE step.by # "secret extractor"
  <2>1. s = Leaves(v, step, i) /\ s \in Values
    <3>1. CASE step.by \in {"none", "extractor off", "unset"}
      BY <3>1, <1>2 DEF AfterResponse, AfterAction, Leaves, Giving, Extractors
    <3>2. CASE step.by = "action"
      BY <3>2, <1>2, PutFacts DEF AfterResponse, AfterAction, Leaves, Giving, Extractors
    <3>3. CASE step.by = "extractor"
      <4>1. s = Put(v, {"variables", "bare", OutputsOf(i)}, Given(i))
        BY <3>3 DEF AfterResponse, AfterAction
      <4>2. Leaves(v, step, i) = Put(v, {"variables", "bare", OutputsOf(i)}, Given(i))
        BY <3>3 DEF Leaves, Giving, Extractors
      <4> DEFINE places == {"variables", "bare", OutputsOf(i)}
      <4>3. s = Put(v, places, Given(i))
        BY <4>1
      <4> HIDE DEF s, places
      <4>4. Put(v, places, Given(i)) \in Values
        BY <1>2, PutFacts
      <4> QED BY <4>2, <4>3, <4>4 DEF places
    <3> QED BY <1>1, <1>3, <3>1, <3>2, <3>3
  <2>2. [p \in Places |-> s[p]] = s
    BY <2>1 DEF Values
  <2> HIDE DEF s
  <2>3. AfterPrivate(s, rendered, step, i, FALSE) = {s}
    BY <1>3, <2>2 DEF AfterPrivate
  <2> QED BY <2>1, <2>3 DEF s, step
<1>4. CASE step.by = "secret extractor"
  <2>1. s = v
    BY <1>4 DEF AfterResponse, AfterAction
  <2> HIDE DEF s
  <2> DEFINE kept == [p \in Places |-> IF p \in {"bare", OutputsOf(i)} THEN Given(i) ELSE v[p]]
  <2>2. AfterPrivate(s, rendered, step, i, FALSE) = {Put(kept, {"variables"}, Given(i))}
    BY <1>2, <1>4, <2>1 DEF AfterPrivate
  <2>3. Put(kept, {"variables"}, Given(i)) = Put(v, {"variables", "bare", OutputsOf(i)}, Given(i))
    BY DEF Put
  <2> HIDE DEF kept
  <2> QED BY <1>4, <2>2, <2>3 DEF Leaves, s, step, Giving, Extractors
<1> QED BY <1>3, <1>4

LEMMA QuietOutcome ==
    ASSUME NEW w, Quiet(w), NEW i \in 1..Len(w.steps), NEW v \in Values
    PROVE  Step(v, w.steps[i], i, w.sensitive)
              = {[rendered |-> Renders(v, w.steps[i], i), values |-> Leaves(v, w.steps[i], i)]}
<1> DEFINE step == w.steps[i]
<1>1. step.by \in QuietWays /\ step.by \notin Scripts /\ w.sensitive = FALSE
  <2>1. step.by \in QuietWays /\ w.sensitive = FALSE
    BY QuietStep DEF Quiet, Workflows
  <2> QED BY <2>1 DEF QuietWays, Giving, Extractors, NamedOnly, Scripts
<1>2. CASE step.by \in {"step action", "step unset"}
  BY <1>2 DEF Step, Renders, Leaves, Giving, Extractors
<1>3. CASE step.by \notin {"step action", "step unset"}
  <2>1. CopiedForRequest(v, step, Given(i)) = Renders(v, step, i)
    BY DEF CopiedForRequest, Renders
  <2> DEFINE acted == AfterAction(v, step, Given(i))
             copy == Renders(v, step, i)
  <2>2. AfterPrivate(AfterResponse(acted, step, i), copy, step, i, FALSE) = {Leaves(v, step, i)}
    BY <1>3, QuietPrivate
  <2> HIDE DEF step
  <2>3. Requested(v, step, i) = {[rendered |-> copy, values |-> acted]}
    BY <1>1, <2>1 DEF Requested, Scripts
  <2> HIDE DEF acted, copy
  <2>4. AfterTests(acted, step, i) = {acted}
    BY <1>1 DEF AfterTests, Scripts
  <2>5. Left(copy, acted, step, i, FALSE) = {[rendered |-> copy, values |-> Leaves(v, step, i)]}
    BY <2>2 DEF Left
  <2>6. Step(v, step, i, FALSE) =
          UNION {UNION {Left(r.rendered, t, step, i, FALSE) : t \in AfterTests(r.values, step, i)}
                    : r \in {[rendered |-> copy, values |-> acted]}}
    BY <1>3, <2>3 DEF Step
  <2>7. Step(v, step, i, FALSE) = UNION {Left(copy, t, step, i, FALSE) : t \in {acted}}
    <3> DEFINE r0 == [rendered |-> copy, values |-> acted]
    <3>1. r0.rendered = copy /\ r0.values = acted
      OBVIOUS
    <3> HIDE DEF r0
    <3>2. {UNION {Left(r.rendered, t, step, i, FALSE) : t \in AfterTests(r.values, step, i)} : r \in {r0}}
            = {UNION {Left(r0.rendered, t, step, i, FALSE) : t \in AfterTests(r0.values, step, i)}}
      OBVIOUS
    <3> DEFINE all == UNION {Left(r0.rendered, t, step, i, FALSE) : t \in AfterTests(r0.values, step, i)}
    <3>3. Step(v, step, i, FALSE) = UNION {all}
      BY <2>6, <3>2 DEF r0
    <3>4. all = UNION {Left(copy, t, step, i, FALSE) : t \in {acted}}
      BY <2>4, <3>1
    <3> HIDE DEF all
    <3> QED BY <3>3, <3>4
  <2> QED BY <1>1, <2>5, <2>7 DEF step, copy
<1> QED BY <1>2, <1>3

\* What the steps leave is defined step by step.
LEMMA ValuesAfterExist ==
    ASSUME NEW w, NEW n \in Nat
    PROVE  \E f : f = [i \in 0..n |-> IF i = 0 THEN {FromProfile(w.profile)} ELSE LeftBy(w, i, f[i - 1])]
<1> DEFINE First == {FromProfile(w.profile)}
           Good(f, k) == f = [i \in 0..k |-> IF i = 0 THEN First ELSE LeftBy(w, i, f[i - 1])]
           T == {k \in Nat : \E f : Good(f, k)}
<1> HIDE DEF First
<1>1. 0 \in T
  <2> DEFINE f == [i \in 0..0 |-> First]
  <2>1. f = [i \in 0..0 |-> IF i = 0 THEN First ELSE LeftBy(w, i, f[i - 1])]
    OBVIOUS
  <2> QED BY <2>1
<1>2. ASSUME NEW k \in T PROVE k + 1 \in T
  <2>1. k \in Nat
    OBVIOUS
  <2>2. PICK f : f = [i \in 0..k |-> IF i = 0 THEN First ELSE LeftBy(w, i, f[i - 1])]
    OBVIOUS
  <2> DEFINE g == [i \in 0..(k + 1) |-> IF i = k + 1 THEN LeftBy(w, i, f[k]) ELSE f[i]]
  <2>3. ASSUME NEW i \in 0..(k + 1)
        PROVE  g[i] = IF i = 0 THEN First ELSE LeftBy(w, i, g[i - 1])
    <3>1. CASE i = k + 1
      <4>1. i # 0 /\ i - 1 = k /\ k \in 0..(k + 1) /\ k # k + 1
        BY <2>1, <3>1
      <4> QED BY <3>1, <4>1
    <3>2. CASE i # k + 1
      <4>1. i \in 0..k /\ (i # 0 => i - 1 \in 0..(k + 1) /\ i - 1 # k + 1)
        BY <2>1, <3>2
      <4>2. f[i] = IF i = 0 THEN First ELSE LeftBy(w, i, f[i - 1])
        BY <2>2, <4>1
      <4> QED BY <3>2, <4>1, <4>2
    <3> QED BY <3>1, <3>2
  <2>4. g = [i \in 0..(k + 1) |-> IF i = 0 THEN First ELSE LeftBy(w, i, g[i - 1])]
    BY <2>3
  <2> HIDE DEF g
  <2>5. \E h : Good(h, k + 1)
    BY <2>4
  <2> QED BY <2>1, <2>5
<1>3. T \in SUBSET Nat
  OBVIOUS
<1>4. T = Nat
  <2> HIDE DEF T
  <2> QED BY <1>1, <1>2, <1>3, Induction
<1>5. n \in T
  BY <1>4
<1> QED BY <1>5 DEF First

LEMMA ValuesAfterStep ==
    ASSUME NEW w, Len(w.steps) \in Nat
    PROVE  /\ ValuesAfter(w)[0] = {FromProfile(w.profile)}
           /\ \A i \in 1..Len(w.steps) : ValuesAfter(w)[i] = LeftBy(w, i, ValuesAfter(w)[i - 1])
<1> DEFINE n == Len(w.steps)
           Good(f) == f = [i \in 0..n |-> IF i = 0 THEN {FromProfile(w.profile)} ELSE LeftBy(w, i, f[i - 1])]
<1>1. ValuesAfter(w) = CHOOSE f : Good(f)
  BY DEF ValuesAfter
<1>2. \E f : Good(f)
  BY ValuesAfterExist
<1> HIDE DEF Good
<1>3. Good(ValuesAfter(w))
  BY <1>1, <1>2
<1> USE DEF Good
<1>4. \A i \in 0..n : ValuesAfter(w)[i] = IF i = 0 THEN {FromProfile(w.profile)} ELSE LeftBy(w, i, ValuesAfter(w)[i - 1])
  BY <1>3
<1> QED BY <1>4

\* What holds of the values left so far still holds after a step that is not sure to give one.
LEMMA NotSureSound ==
    ASSUME NEW w, NEW k \in Nat, NEW i, i = k + 1, NEW v, LeftSound(w, k, v), ~Sure(w.steps[i])
    PROVE  LeftSound(w, i, v)
<1>1. \A j \in 1..i : j \in 1..k \/ j = i
  OBVIOUS
<1>2. (\A j \in 1..k : ~Sure(w.steps[j])) => \A j \in 1..i : ~Sure(w.steps[j])
  BY <1>1
<1>3. ASSUME NEW last \in MaybeLast(w, k) PROVE last \in MaybeLast(w, i)
  <2>1. last \in 1..k /\ w.steps[last].by \in Giving /\ \A j \in (last + 1)..k : ~Sure(w.steps[j])
    BY <1>3 DEF MaybeLast
  <2>2. last \in 1..i /\ \A j \in (last + 1)..i : j \in (last + 1)..k \/ j = i
    BY <2>1
  <2> QED BY <2>1, <2>2 DEF MaybeLast
<1>4. \A j \in 1..i : Sure(w.steps[j]) /\ w.steps[j].by \in WithOutputs => v[OutputsOf(j)] # 0
  BY <1>1 DEF LeftSound
<1> QED BY <1>2, <1>3, <1>4 DEF LeftSound

\* A step that runs keeps what holds of the values left so far.
LEMMA LeavesSound ==
    ASSUME NEW w, Quiet(w), NEW k \in Nat, NEW i \in 1..Len(w.steps), i = k + 1, NEW v, LeftSound(w, k, v)
    PROVE  LeftSound(w, i, Leaves(v, w.steps[i], i))
<1> DEFINE by == w.steps[i].by
           left == Leaves(v, w.steps[i], i)
           places == IF by = "action" THEN {"variables", "bare"} ELSE {"variables", "bare", OutputsOf(i)}
<1>0. i \in 1..MaxSteps /\ i \in Nat /\ MaxSteps \in Nat
  BY QuietStep, WorkflowAssumption
<1>g. Given(i) = i + 1 /\ Given(i) \in Nat /\ Given(i) # 0
  BY <1>0, GivenValue DEF Given
<1>2. v \in Values
  BY DEF LeftSound
<1>3. \A j \in 1..i : j \in 1..k \/ j = i
  OBVIOUS
<1>4. \A j \in 1..i : j \in 1..MaxSteps
  BY <1>0
<1>5. CASE by \notin Giving
  <2>1. left = v
    BY <1>5 DEF Leaves
  <2>2. ~Sure(w.steps[i])
    BY <1>5 DEF Sure
  <2> QED BY <2>1, <2>2, NotSureSound
<1>6. CASE by \in Giving
  <2>1. left = Put(v, places, Given(i))
    BY <1>6 DEF Leaves
  <2> HIDE DEF places
  <2>2. left \in Values /\ \A p \in Places : left[p] = IF p \in places THEN Given(i) ELSE v[p]
    BY <1>g, <1>2, <2>1, PutFacts
  <2> HIDE DEF left
  <2>3. i \in MaybeLast(w, i)
    <3>1. (i + 1)..i = {} /\ i \in 1..i
      BY <1>0
    <3> QED BY <1>6, <3>1 DEF MaybeLast
  <2>5. left["variables"] = Given(i)
    BY <1>g, <2>2, PlaceNames DEF places, Scopes
  <2>6. w.profile => left["environment"] # 0
    <3>1. w.profile => v["environment"] # 0
      BY DEF LeftSound
    <3> QED BY <1>g, <2>2, <3>1, PlaceNames DEF Scopes
  <2>7. ASSUME NEW j \in 1..i, Sure(w.steps[j]), w.steps[j].by \in WithOutputs
        PROVE  left[OutputsOf(j)] # 0
    <3>1. OutputsOf(j) \in Places
      BY <1>4, PlaceNames
    <3>2. CASE j = i
      <4>1. OutputsOf(j) \in places
        BY <2>7, <3>2 DEF places, WithOutputs
      <4> QED BY <1>g, <2>2, <3>1, <4>1
    <3>3. CASE j \in 1..k
      <4>1. v[OutputsOf(j)] # 0
        BY <2>7, <3>3 DEF LeftSound
      <4> QED BY <1>g, <2>2, <3>1, <4>1
    <3> QED BY <1>3, <3>2, <3>3
  <2>8. \E last \in MaybeLast(w, i) : left["variables"] = Given(last)
    BY <2>3, <2>5
  <2>9. LeftSound(w, i, left)
    BY <2>2, <2>6, <2>7, <2>8 DEF LeftSound
  <2> QED BY <2>9 DEF left
<1> QED BY <1>5, <1>6

LEMMA ValuesAfterSound ==
    ASSUME NEW w, Quiet(w)
    PROVE  \A k \in 0..Len(w.steps) : \A v \in ValuesAfter(w)[k] : LeftSound(w, k, v)
<1> DEFINE n == Len(w.steps)
           T == {k \in Nat : k <= n => \A v \in ValuesAfter(w)[k] : LeftSound(w, k, v)}
<1>0. n \in Nat /\ n \in 1..MaxSteps
  BY WorkflowAssumption DEF Quiet
<1>1. 0 \in T
  <2>1. ValuesAfter(w)[0] = {FromProfile(w.profile)}
    BY <1>0, ValuesAfterStep
  <2> DEFINE v == FromProfile(w.profile)
  <2>2. v \in Values /\ (w.profile => v["environment"] # 0)
    BY PlaceNames DEF FromProfile, Values, Scopes
  <2>3. 1..0 = {}
    OBVIOUS
  <2> HIDE DEF v
  <2>4. LeftSound(w, 0, v)
    BY <2>2, <2>3 DEF LeftSound, v
  <2> QED BY <2>1, <2>4 DEF v
<1>2. ASSUME NEW k \in T PROVE k + 1 \in T
  <2>1. k \in Nat
    OBVIOUS
  <2>2. SUFFICES ASSUME k + 1 <= n, NEW v \in ValuesAfter(w)[k + 1] PROVE LeftSound(w, k + 1, v)
    BY <2>1
  <2>3. k + 1 \in 1..n /\ k <= n /\ (k + 1) - 1 = k
    BY <1>0, <2>1, <2>2
  <2>4. v \in LeftBy(w, k + 1, ValuesAfter(w)[k])
    BY <1>0, <2>2, <2>3, ValuesAfterStep
  <2>5. CASE v \in ValuesAfter(w)[k] /\ ~w.steps[k + 1].sure
    <3>1. LeftSound(w, k, v) /\ ~Sure(w.steps[k + 1])
      BY <2>3, <2>5 DEF Sure
    <3> QED BY <2>1, <3>1, NotSureSound
  <2>6. ASSUME NEW u \in ValuesAfter(w)[k], v \in {o.values : o \in Step(u, w.steps[k + 1], k + 1, w.sensitive)}
        PROVE  LeftSound(w, k + 1, v)
    <3>1. LeftSound(w, k, u)
      BY <2>3
    <3>2. u \in Values
      BY <3>1 DEF LeftSound
    <3>3. v = Leaves(u, w.steps[k + 1], k + 1)
      BY <2>3, <2>6, <3>2, QuietOutcome
    <3> QED BY <2>1, <2>3, <3>1, <3>3, LeavesSound
  <2> QED BY <2>4, <2>5, <2>6 DEF LeftBy
<1>3. T \in SUBSET Nat
  OBVIOUS
<1>4. T = Nat
  <2> HIDE DEF T
  <2> QED BY <1>1, <1>2, <1>3, Induction
<1>5. \A k \in 0..n : k \in T /\ k <= n
  BY <1>0, <1>4
<1> QED BY <1>5

\* The first of the places that has a value is the one the step is rendered with.
LEMMA ResolveFirst ==
    ASSUME NEW values
    PROVE  /\ values["variables"] # 0 => Resolve(values) = values["variables"]
           /\ values["variables"] = 0 /\ values["bare"] # 0 => Resolve(values) = values["bare"]
           /\ (\A i \in 1..5 : values[Resolution[i]] = 0) => Resolve(values) = 0
<1> DEFINE Held(i) == values[Resolution[i]] # 0
           First(i) == Held(i) /\ \A j \in 1..(i - 1) : ~Held(j)
<1>1. DOMAIN Resolution = 1..5 /\ Resolution[1] = "variables" /\ Resolution[2] = "bare"
  BY DEF Resolution
<1>2. Resolve(values) =
        IF \E i \in 1..5 : Held(i) THEN values[Resolution[CHOOSE i \in 1..5 : First(i)]] ELSE 0
  BY <1>1 DEF Resolve, FirstValue
<1>3. ASSUME NEW n \in 1..5, First(n) PROVE Resolve(values) = values[Resolution[n]]
  <2>1. ASSUME NEW m \in 1..5, First(m) PROVE m = n
    BY <1>3, <2>1
  <2>2. (CHOOSE i \in 1..5 : First(i)) = n
    <3> HIDE DEF First
    <3> QED BY <1>3, <2>1
  <2> QED BY <1>2, <1>3, <2>2
<1>4. values["variables"] # 0 => First(1)
  BY <1>1
<1>5. values["variables"] = 0 /\ values["bare"] # 0 => First(2)
  BY <1>1
<1> HIDE DEF First
<1>6. values["variables"] # 0 => Resolve(values) = values["variables"]
  BY <1>1, <1>3, <1>4
<1>7. values["variables"] = 0 /\ values["bare"] # 0 => Resolve(values) = values["bare"]
  BY <1>1, <1>3, <1>5
<1> QED BY <1>2, <1>6, <1>7

\* What the picker offers at a step has a value if it is backed, one that was given last.
LEMMA OfferedSound ==
    ASSUME NEW w, Quiet(w), NEW k \in DOMAIN w.steps, NEW n \in Nat, n = k - 1, NEW values \in RequestsOf(w, k)
    PROVE  /\ w.profile => values["environment"] # 0
           /\ w.steps[k].by = "action" => values["variables"] # 0
           /\ \A i \in 1..n : Sure(w.steps[i]) => \A p \in Entries(w, i) : values[p] # 0
           /\ w.steps[k].by # "action" => Resolve(values) \in LastGiven(w, k)
<1>0. w.steps \in Seq(Producers) /\ Len(w.steps) \in 1..MaxSteps /\ MaxSteps \in Nat
  BY WorkflowAssumption DEF Quiet, Workflows
<1> DEFINE step == w.steps[k]
<1>1. k \in 1..Len(w.steps) /\ n \in Nat /\ n \in 0..Len(w.steps) /\ k \in 1..MaxSteps /\ k \in Nat
  BY <1>0
<1>2. PICK v \in ValuesAfter(w)[n] : values \in {o.rendered : o \in Step(v, step, k, w.sensitive)}
  BY DEF RequestsOf
<1>3. LeftSound(w, n, v)
  BY <1>1, <1>2, ValuesAfterSound
<1>4. v \in Values
  BY <1>3 DEF LeftSound
<1>5. values = Renders(v, step, k)
  BY <1>1, <1>2, <1>4, QuietOutcome
<1>6. Given(k) \in Nat /\ Given(k) # 0
  BY <1>1, GivenValue
<1>8. \A p \in Places : v[p] # 0 => values[p] # 0
  <2>1. CASE step.by # "action"
    BY <1>5, <2>1 DEF Renders
  <2>2. CASE step.by = "action"
    BY <1>4, <1>5, <1>6, <2>2, PutFacts DEF Renders
  <2> QED BY <2>1, <2>2
\* What there is of a step that may have been the last.
<1>9. \A i \in MaybeLast(w, n) : Given(i) # 0 /\ Given(i) \in LastGiven(w, k)
  <2>1. SUFFICES ASSUME NEW i \in MaybeLast(w, n) PROVE Given(i) # 0 /\ Given(i) \in LastGiven(w, k)
    OBVIOUS
  <2>2. i \in Nat
    BY DEF MaybeLast
  <2>3. MaybeLast(w, n) =
          {m \in 1..(k - 1) : w.steps[m].by \in Giving /\ \A j \in (m + 1)..(k - 1) : ~Sure(w.steps[j])}
    BY DEF MaybeLast
  <2> QED BY <2>2, <2>3, GivenValue DEF LastGiven
<1>10. w.profile => values["environment"] # 0
  BY <1>3, <1>8, PlaceNames DEF LeftSound, Scopes
<1>11. ASSUME step.by = "action" PROVE values["variables"] # 0
  <2>1. CASE v["variables"] # 0
    BY <1>8, <2>1, PlaceNames DEF Scopes
  <2>2. CASE v["variables"] = 0
    BY <1>4, <1>5, <1>6, <1>11, <2>2, PutFacts, PlaceNames DEF Renders, Scopes
  <2> QED BY <2>1, <2>2
<1>12. ASSUME NEW i \in 1..n, Sure(w.steps[i]), NEW p \in Entries(w, i) PROVE values[p] # 0
  <2>1. w.steps[i].by \in Giving
    BY <1>12 DEF Sure
  <2>2. p = "variables" \/ (p = OutputsOf(i) /\ w.steps[i].by \in WithOutputs)
    BY <2>1 DEF Entries, EntriesOf, Giving, Extractors, WithOutputs
  <2>3. CASE p = "variables"
    <3>1. \E m \in MaybeLast(w, n) : v["variables"] = Given(m)
      BY <1>3, <1>12 DEF LeftSound
    <3>2. v["variables"] # 0
      BY <1>9, <3>1
    <3> QED BY <1>8, <2>3, <3>2, PlaceNames DEF Scopes
  <2>4. CASE p = OutputsOf(i) /\ w.steps[i].by \in WithOutputs
    <3>1. v[OutputsOf(i)] # 0
      BY <1>3, <1>12, <2>4 DEF LeftSound
    <3>2. OutputsOf(i) \in Places
      <4>1. i \in 1..MaxSteps
        BY <1>0, <1>1
      <4> QED BY <4>1, PlaceNames
    <3> QED BY <1>8, <2>4, <3>1, <3>2
  <2> QED BY <2>2, <2>3, <2>4
<1>13. ASSUME step.by # "action" PROVE Resolve(values) \in LastGiven(w, k)
  <2>1. values = v
    BY <1>5, <1>13 DEF Renders
  <2>2. CASE \E i \in MaybeLast(w, n) : v["variables"] = Given(i)
    <3>1. PICK i \in MaybeLast(w, n) : v["variables"] = Given(i)
      BY <2>2
    <3>2. Given(i) # 0 /\ Given(i) \in LastGiven(w, k)
      BY <1>9
    <3> QED BY <2>1, <3>1, <3>2, ResolveFirst
  <2>3. CASE v = FromProfile(w.profile) /\ \A j \in 1..n : ~Sure(w.steps[j])
    <3>1. (IF w.profile THEN 1 ELSE 0) \in LastGiven(w, k)
      BY <2>3 DEF LastGiven
    <3>2. \A p \in Places : v[p] = IF w.profile /\ p \in {"bare", "environment"} THEN 1 ELSE 0
      BY <2>3 DEF FromProfile
    <3>3. v["variables"] = 0 /\ v["bare"] = IF w.profile THEN 1 ELSE 0
      BY <3>2, PlaceNames DEF Scopes
    <3>4. \A i \in 1..5 : Resolution[i] \in Places
      BY PlaceNames DEF Resolution, Scopes
    <3>5. ~w.profile => \A i \in 1..5 : v[Resolution[i]] = 0
      BY <3>2, <3>4
    <3>6. Resolve(v) = IF w.profile THEN 1 ELSE 0
      BY <3>3, <3>5, ResolveFirst
    <3> QED BY <2>1, <3>1, <3>6
  <2> QED BY <1>3, <2>2, <2>3 DEF LeftSound
<1> QED BY <1>10, <1>11, <1>12, <1>13

WorkbenchInv ==
    /\ workflow \in Workflows /\ Len(Steps) \in 1..MaxSteps
    /\ selectedStep \in 0..Len(Steps)

LEMMA StepsTyped ==
    ASSUME WorkbenchInv
    PROVE  /\ Steps \in Seq(Producers) /\ Len(Steps) \in Nat /\ Len(Steps) >= 1 /\ Len(Steps) <= MaxSteps
           /\ MaxSteps \in Nat /\ DOMAIN Steps = 1..Len(Steps)
           /\ SelectedIndex \in 1..Len(Steps) /\ SelectedIndex \in Nat
           /\ \A i \in 1..Len(Steps) : Steps[i] \in Producers
<1>1. Steps \in Seq(Producers) /\ Len(Steps) \in 1..MaxSteps /\ MaxSteps \in Nat
  BY WorkflowAssumption DEF WorkbenchInv, Workflows, Steps
<1>2. Len(Steps) \in Nat /\ Len(Steps) >= 1 /\ Len(Steps) <= MaxSteps
  BY <1>1
<1>3. SelectedIndex \in 1..Len(Steps) /\ SelectedIndex \in Nat
  BY <1>2 DEF SelectedIndex, WorkbenchInv
<1> QED BY <1>1, <1>2, <1>3

\* The steps are replaced by others that there may be.
LEMMA SetStepsKeeps ==
    ASSUME WorkbenchInv, NEW steps \in Seq(Producers), SetSteps(steps), Len(steps) \in 1..MaxSteps,
           selectedStep' \in 0..Len(steps)
    PROVE  WorkbenchInv'
<1>1. workflow' \in Workflows /\ Steps' = steps
  BY DEF SetSteps, WorkbenchInv, Workflows, Steps
<1> QED BY <1>1 DEF WorkbenchInv

LEMMA UpdateStepKeeps == ASSUME WorkbenchInv, UpdateStep PROVE WorkbenchInv'
<1>1. PICK does \in Producers : SetSteps([Steps EXCEPT ![SelectedIndex] = does])
  BY DEF UpdateStep
<1> DEFINE new == [Steps EXCEPT ![SelectedIndex] = does]
<1>2. new \in Seq(Producers) /\ Len(new) = Len(Steps)
  BY StepsTyped
<1> HIDE DEF new
<1> QED BY <1>1, <1>2, SetStepsKeeps DEF new, UpdateStep, WorkbenchInv

LEMMA AddStepKeeps == ASSUME WorkbenchInv, AddStep PROVE WorkbenchInv'
<1>1. Nothing \in Producers
  BY DEF Nothing, Producers
<1> DEFINE new == Append(Steps, Nothing)
<1>2. new \in Seq(Producers) /\ Len(new) = Len(Steps) + 1
  BY <1>1, StepsTyped
<1>3. SetSteps(new) /\ selectedStep' = Len(Steps) + 1 /\ Len(Steps) < MaxSteps
  BY DEF AddStep
<1> HIDE DEF new
<1>4. Len(new) \in 1..MaxSteps /\ selectedStep' \in 0..Len(new)
  BY <1>2, <1>3, StepsTyped
<1> QED BY <1>2, <1>3, <1>4, SetStepsKeeps

LEMMA DuplicateStepKeeps == ASSUME WorkbenchInv, DuplicateStep PROVE WorkbenchInv'
<1> DEFINE i == SelectedIndex
           s == Steps
           before == SubSeq(s, 1, (i + 1) - 1)
           after == SubSeq(s, i + 1, Len(s))
           new == InsertAt(s, i + 1, s[i])
<1>1. i \in Nat /\ i \in 1..Len(s) /\ Len(s) \in Nat /\ s \in Seq(Producers) /\ MaxSteps \in Nat
      /\ s[i] \in Producers
  BY StepsTyped
<1>2. before \in Seq(Producers) /\ Len(before) = i
  <2>1. \A j \in 1..((i + 1) - 1) : s[j] \in Producers
    BY <1>1
  <2> HIDE DEF i, s
  <2> QED BY <1>1, <2>1, SubSeqProperties
<1>3. after \in Seq(Producers) /\ Len(after) = Len(s) - i
  <2>1. \A j \in (i + 1)..Len(s) : s[j] \in Producers
    BY <1>1
  <2> HIDE DEF i, s
  <2> QED BY <1>1, <2>1, SubSeqProperties
<1>4. new = before \o <<s[i]>> \o after
  BY DEF InsertAt
<1>5. SetSteps(new) /\ selectedStep' = i + 1 /\ Len(s) < MaxSteps
  BY DEF DuplicateStep
<1> HIDE DEF i, s, before, after, new
<1>6. <<s[i]>> \in Seq(Producers) /\ Len(<<s[i]>>) = 1
  BY <1>1
<1>7. new \in Seq(Producers) /\ Len(new) = Len(s) + 1
  <2> DEFINE one == <<s[i]>>
             start == before \o one
  <2> HIDE DEF one
  <2>1. start \in Seq(Producers) /\ Len(start) = i + 1
    BY <1>1, <1>2, <1>6, ConcatProperties DEF one
  <2>2. new = start \o after
    BY <1>4 DEF one
  <2> HIDE DEF start
  <2>3. new \in Seq(Producers) /\ Len(new) = Len(start) + Len(after)
    BY <1>3, <2>1, <2>2, ConcatProperties
  <2>4. Len(new) = i + 1 + (Len(s) - i)
    BY <1>3, <2>1, <2>3
  <2> QED BY <1>1, <2>3, <2>4
<1>8. Len(new) \in 1..MaxSteps /\ selectedStep' \in 0..Len(new)
  BY <1>1, <1>5, <1>7
<1> QED BY <1>5, <1>7, <1>8, SetStepsKeeps

LEMMA RemoveStepKeeps == ASSUME WorkbenchInv, RemoveStep PROVE WorkbenchInv'
<1> DEFINE i == SelectedIndex
           s == Steps
           before == SubSeq(s, 1, i - 1)
           after == SubSeq(s, i + 1, Len(s))
           new == RemoveAt(s, i)
<1>1. i \in Nat /\ i \in 1..Len(s) /\ Len(s) \in Nat /\ s \in Seq(Producers) /\ MaxSteps \in Nat /\ Len(s) <= MaxSteps
  BY StepsTyped
<1>2. before \in Seq(Producers) /\ Len(before) = i - 1
  <2>1. \A j \in 1..(i - 1) : s[j] \in Producers
    BY <1>1
  <2> HIDE DEF i, s
  <2> QED BY <1>1, <2>1, SubSeqProperties
<1>3. after \in Seq(Producers) /\ Len(after) = Len(s) - i
  <2>1. \A j \in (i + 1)..Len(s) : s[j] \in Producers
    BY <1>1
  <2> HIDE DEF i, s
  <2> QED BY <1>1, <2>1, SubSeqProperties
<1>4. new = before \o after
  BY DEF RemoveAt
<1>5. SetSteps(new) /\ selectedStep' = (IF i = 1 THEN 1 ELSE i - 1) /\ Len(s) > 1
  BY DEF RemoveStep
<1> HIDE DEF i, s, before, after, new
<1>6. new \in Seq(Producers) /\ Len(new) = Len(s) - 1
  BY <1>1, <1>2, <1>3, <1>4, ConcatProperties
<1>7. Len(new) \in 1..MaxSteps /\ selectedStep' \in 0..Len(new)
  BY <1>1, <1>5, <1>6
<1> QED BY <1>5, <1>6, <1>7, SetStepsKeeps

LEMMA MoveStepKeeps == ASSUME WorkbenchInv, MoveStep PROVE WorkbenchInv'
<1>1. PICK target \in {SelectedIndex - 1, SelectedIndex + 1} \cap DOMAIN Steps :
        /\ SetSteps([Steps EXCEPT ![SelectedIndex] = Steps[target], ![target] = Steps[SelectedIndex]])
        /\ selectedStep' = IF selectedStep = 0 THEN 0 ELSE target
  BY DEF MoveStep
<1> DEFINE new == [Steps EXCEPT ![SelectedIndex] = Steps[target], ![target] = Steps[SelectedIndex]]
<1>2. target \in 1..Len(Steps)
  BY <1>1, StepsTyped
<1>3. new \in Seq(Producers) /\ Len(new) = Len(Steps)
  BY <1>2, StepsTyped
<1> HIDE DEF new
<1>4. Len(new) \in 1..MaxSteps /\ selectedStep' \in 0..Len(new)
  BY <1>1, <1>2, <1>3, StepsTyped
<1> QED BY <1>1, <1>3, <1>4, SetStepsKeeps DEF new

LEMMA WorkbenchNextInv == WorkbenchInv /\ [WorkbenchNext]_workbenchVars => WorkbenchInv'
<1> SUFFICES ASSUME WorkbenchInv, [WorkbenchNext]_workbenchVars PROVE WorkbenchInv'
  OBVIOUS
<1>1. CASE EditSteps
  BY <1>1, UpdateStepKeeps, AddStepKeeps, DuplicateStepKeeps, MoveStepKeeps DEF EditSteps
<1>2. CASE RemoveStep
  BY <1>2, RemoveStepKeeps
<1>3. CASE AskDeleteStep \/ KeepStep \/ SelectStep \/ SelectSection \/ FocusTarget \/ UNCHANGED workbenchVars
  <2>1. workflow' = workflow /\ selectedStep' \in {selectedStep, 0} \cup DOMAIN Steps
    BY <1>3 DEF AskDeleteStep, KeepStep, SelectStep, SelectSection, FocusTarget, workbenchVars
  <2>2. selectedStep' \in 0..Len(Steps)
    BY <2>1, StepsTyped DEF WorkbenchInv
  <2> QED BY <2>1, <2>2 DEF WorkbenchInv, Steps
<1> QED BY <1>1, <1>2, <1>3 DEF WorkbenchNext

LEMMA WorkbenchInitInv == WorkbenchInit => WorkbenchInv
<1> SUFFICES ASSUME WorkbenchInit PROVE WorkbenchInv
  OBVIOUS
<1>1. PICK profile \in BOOLEAN, sensitive \in BOOLEAN, sure \in BOOLEAN :
        workflow = [steps |-> <<[Nothing EXCEPT !.sure = sure]>>, profile |-> profile, sensitive |-> sensitive]
  BY DEF WorkbenchInit
<1> DEFINE first == [Nothing EXCEPT !.sure = sure]
<1>2. first \in Producers
  BY DEF Nothing, Producers
<1> HIDE DEF first
<1>3. workflow.steps = <<first>> /\ <<first>> \in Seq(Producers) /\ Len(<<first>>) = 1
  BY <1>1, <1>2 DEF first
<1>4. workflow \in Workflows
  BY <1>1, <1>3 DEF Workflows
<1>5. selectedStep = 1
  BY DEF WorkbenchInit
<1> QED BY <1>3, <1>4, <1>5, WorkflowAssumption DEF WorkbenchInv, Steps

LEMMA WorkbenchInvImplies == WorkbenchInv => OfferedResolves
<1> SUFFICES ASSUME WorkbenchInv, ~workflow.sensitive, NoScripts(workflow), NEW k \in DOMAIN Steps,
                    NEW values \in RequestsOf(workflow, k)
             PROVE  /\ \A p \in AvailableNow(workflow, k) : Backed(p, k) => values[p] # 0
                    /\ Steps[k].by # "action" => Resolve(values) \in LastGiven(workflow, k)
  BY DEF OfferedResolves
<1>1. Quiet(workflow)
  BY DEF Quiet, WorkbenchInv, Steps
<1>2. k \in DOMAIN workflow.steps /\ k - 1 \in Nat
  BY StepsTyped DEF Steps
<1>3. /\ workflow.profile => values["environment"] # 0
      /\ Steps[k].by = "action" => values["variables"] # 0
      /\ \A i \in 1..(k - 1) : Sure(Steps[i]) => \A p \in Entries(workflow, i) : values[p] # 0
      /\ Steps[k].by # "action" => Resolve(values) \in LastGiven(workflow, k)
  BY <1>1, <1>2, OfferedSound DEF Steps
<1> QED BY <1>3 DEF Backed

\* What the picker of variables offers as available, and a step gives that is sure to
\* run, has a value when the request of the step is rendered, and the request gets one
\* that may be the last given: for every workflow without scripts under a public name,
\* however it was put together.
THEOREM OfferedResolvesHolds == WorkbenchSpec => []OfferedResolves
<1> QED BY WorkbenchInitInv, WorkbenchNextInv, WorkbenchInvImplies, PTL DEF WorkbenchSpec

(***************************************************************************)
(* The builder of suites and the wizard: late answers change what is shown *)
(* by then.  The builder, what is on its way and what is stored are made   *)
(* of checks whose gate mode agrees with their kind; a preview that may    *)
(* still be shown is one of the choices that are made.                     *)
(***************************************************************************)
AgreeingChecks ==
    {c \in [id : Nat \X Nat, kind : Kinds, target : BOOLEAN, required : BOOLEAN, gate : {"ADVISORY", "BLOCKING"}] :
        GateAgrees(c)}
SoundStages == {s \in [id : Nat, named : BOOLEAN, checks : Seq(AgreeingChecks)] : s.checks # <<>>}
SoundBuilders ==
    {b \in [open : BOOLEAN, editing : BOOLEAN, named : BOOLEAN, stages : Seq(SoundStages)] : b.stages # <<>>}

BuilderSound ==
    /\ builder \in SoundBuilders
    /\ \A b \in saving : b \in SoundBuilders /\ WellFormed(b)
    /\ \A a, b \in saving : a = b
    /\ stored \in Seq(SoundStages)
    /\ deletion \in {"closed", "open", "pending"} /\ edits \in 0..MaxEdits

\* Replacing a member of a sequence, adding one and removing one.
LEMMA Replaced ==
    ASSUME NEW S, NEW s \in Seq(S), NEW i \in DOMAIN s, NEW x \in S
    PROVE  ReplaceAt(s, i, x) \in Seq(S) \ {<<>>}
<1>1. Len(s) \in Nat /\ i \in 1..Len(s)
  BY LenProperties
<1>2. ReplaceAt(s, i, x) \in Seq(S) /\ Len(ReplaceAt(s, i, x)) = Len(s)
  BY <1>1, ExceptSeq DEF ReplaceAt
<1> QED BY <1>1, <1>2

LEMMA Added ==
    ASSUME NEW S, NEW s \in Seq(S), NEW x \in S
    PROVE  Append(s, x) \in Seq(S) \ {<<>>}
<1>1. Append(s, x) \in Seq(S) /\ Len(Append(s, x)) = Len(s) + 1 /\ Len(s) \in Nat
  BY AppendProperties
<1> QED BY <1>1

LEMMA Removed ==
    ASSUME NEW S, NEW s \in Seq(S), NEW i \in DOMAIN s, Len(s) > 1
    PROVE  RemoveAt(s, i) \in Seq(S) \ {<<>>}
<1>1. PICK m \in Nat : m = Len(s) /\ DOMAIN s = 1..m /\ i \in 1..m
  BY LenProperties
<1>2. \A n \in 1..m : s[n] \in S
  BY <1>1, ElementOfSeq
<1>3. SubSeq(s, 1, i - 1) \in Seq(S) /\ Len(SubSeq(s, 1, i - 1)) = i - 1
  <2>1. 1 \in Int /\ i - 1 \in Int /\ \A n \in 1..(i - 1) : s[n] \in S
    BY <1>1, <1>2
  <2> QED BY <2>1, <1>1, SubSeqProperties
<1>4. SubSeq(s, i + 1, m) \in Seq(S) /\ Len(SubSeq(s, i + 1, m)) = m - i
  <2>1. i + 1 \in Int /\ m \in Int /\ \A n \in (i + 1)..m : s[n] \in S
    BY <1>1, <1>2
  <2> QED BY <2>1, <1>1, SubSeqProperties
<1>5. RemoveAt(s, i) = SubSeq(s, 1, i - 1) \o SubSeq(s, i + 1, m)
  BY <1>1 DEF RemoveAt
<1>6. RemoveAt(s, i) \in Seq(S) /\ Len(RemoveAt(s, i)) = (i - 1) + (m - i)
  BY <1>3, <1>4, <1>5, ConcatProperties
<1>7. Len(RemoveAt(s, i)) > 0
  BY <1>1, <1>6
<1> QED BY <1>6, <1>7

LEMMA StageUpdated ==
    ASSUME builder \in SoundBuilders, NEW i \in DOMAIN builder.stages, NEW stage \in SoundStages, UpdateStage(i, stage)
    PROVE  builder' \in SoundBuilders
<1>1. ReplaceAt(builder.stages, i, stage) \in Seq(SoundStages) \ {<<>>}
  BY Replaced DEF SoundBuilders
<1> QED BY <1>1 DEF UpdateStage, SoundBuilders

LEMMA StageHasChecks ==
    ASSUME builder \in SoundBuilders, NEW i \in DOMAIN builder.stages
    PROVE  /\ builder.stages[i] \in SoundStages
           /\ \A j \in DOMAIN builder.stages[i].checks : builder.stages[i].checks[j] \in AgreeingChecks
<1>1. builder.stages[i] \in SoundStages
  BY ElementOfSeq, LenProperties DEF SoundBuilders
<1> QED BY <1>1, ElementOfSeq, LenProperties DEF SoundStages

LEMMA CheckUpdated ==
    ASSUME builder \in SoundBuilders, NEW i \in DOMAIN builder.stages,
           NEW j \in DOMAIN builder.stages[i].checks, NEW check \in AgreeingChecks, UpdateCheck(i, j, check)
    PROVE  builder' \in SoundBuilders
<1> DEFINE checks == builder.stages[i].checks
           replaced == ReplaceAt(checks, j, check)
<1>1. builder.stages[i] \in SoundStages
  BY StageHasChecks
<1>2. replaced \in Seq(AgreeingChecks) \ {<<>>}
  BY <1>1, Replaced DEF SoundStages
<1>3. [builder.stages[i] EXCEPT !.checks = replaced] \in SoundStages
  BY <1>1, <1>2 DEF SoundStages
<1> QED BY <1>3, StageUpdated DEF UpdateCheck

\* A check and a stage as they are added, and the builder as it is reset.
LEMMA AddedSound ==
    /\ \A id \in Nat \X Nat : FirstCheck(id) \in AgreeingChecks
    /\ NewStage(1, TRUE) \in SoundStages /\ \A n \in Nat : NewStage(n, FALSE) \in SoundStages
    /\ NewBuilder \in SoundBuilders /\ StoredSuite \in Seq(SoundStages)
<1>1. ASSUME NEW id \in Nat \X Nat PROVE FirstCheck(id) \in AgreeingChecks
  BY DEF FirstCheck, AgreeingChecks, GateAgrees, Kinds
<1>2. ASSUME NEW n \in Nat PROVE NewStage(n, TRUE) \in SoundStages /\ NewStage(n, FALSE) \in SoundStages
  <2>1. FirstCheck(<<n, 1>>) \in AgreeingChecks
    BY <1>1
  <2>2. <<FirstCheck(<<n, 1>>)>> \in Seq(AgreeingChecks) /\ <<FirstCheck(<<n, 1>>)>> # <<>>
    BY <2>1
  <2> QED BY <2>2 DEF NewStage, SoundStages
<1>3. <<NewStage(1, TRUE)>> \in Seq(SoundStages) /\ <<NewStage(1, TRUE)>> # <<>>
  <2> DEFINE stage == NewStage(1, TRUE)
  <2>1. stage \in SoundStages
    BY <1>2
  <2> HIDE DEF stage
  <2>2. <<stage>> \in Seq(SoundStages) /\ <<stage>> # <<>>
    BY <2>1
  <2> QED BY <2>2 DEF stage
<1>4. NewBuilder \in SoundBuilders /\ StoredSuite \in Seq(SoundStages)
  BY <1>3 DEF NewBuilder, StoredSuite, SoundBuilders
<1> QED BY <1>1, <1>2, <1>4

\* What a check becomes when its kind or its target is chosen, or its box is ticked.
LEMMA CheckEdited ==
    ASSUME NEW check \in AgreeingChecks
    PROVE  /\ \A kind \in Kinds, target \in BOOLEAN : OfKind(check, kind, target) \in AgreeingChecks
           /\ \A target \in BOOLEAN : [check EXCEPT !.target = target] \in AgreeingChecks
           /\ \A blocking \in BOOLEAN : check.kind # "DYNATRACE_INFRASTRUCTURE" =>
                [check EXCEPT !.target = TRUE,
                    !.required = IF check.kind = "ELF_QUERY" THEN blocking ELSE @] \in AgreeingChecks
           /\ [check EXCEPT !.required = ~@,
                !.gate = IF check.kind # "DYNATRACE_INFRASTRUCTURE" THEN @
                         ELSE IF check.required THEN "ADVISORY" ELSE "BLOCKING"] \in AgreeingChecks
<1>1. ASSUME NEW kind \in Kinds, NEW target \in BOOLEAN PROVE OfKind(check, kind, target) \in AgreeingChecks
  BY DEF OfKind, AgreeingChecks, GateAgrees
<1>2. ASSUME NEW target \in BOOLEAN PROVE [check EXCEPT !.target = target] \in AgreeingChecks
  BY DEF AgreeingChecks, GateAgrees
<1>3. ASSUME NEW blocking \in BOOLEAN, check.kind # "DYNATRACE_INFRASTRUCTURE"
      PROVE  [check EXCEPT !.target = TRUE,
                !.required = IF check.kind = "ELF_QUERY" THEN blocking ELSE @] \in AgreeingChecks
  BY <1>3 DEF AgreeingChecks, GateAgrees
<1>4. [check EXCEPT !.required = ~@,
        !.gate = IF check.kind # "DYNATRACE_INFRASTRUCTURE" THEN @
                 ELSE IF check.required THEN "ADVISORY" ELSE "BLOCKING"] \in AgreeingChecks
  BY DEF AgreeingChecks, GateAgrees
<1> QED BY <1>1, <1>2, <1>3, <1>4

LEMMA BuilderOpened ==
    ASSUME BuilderSound, OpenCreateBuilder \/ OpenEditBuilder \/ CloseBuilder \/ Rename
    PROVE  BuilderSound'
<1>1. builder' \in SoundBuilders
  <2>1. CASE OpenCreateBuilder
    BY <2>1, AddedSound DEF OpenCreateBuilder, SoundBuilders
  <2>2. CASE OpenEditBuilder
    BY <2>2 DEF OpenEditBuilder, SoundBuilders, BuilderSound
  <2>3. CASE CloseBuilder
    BY <2>3, AddedSound DEF CloseBuilder
  <2>4. CASE Rename
    BY <2>4 DEF Rename, SoundBuilders, BuilderSound
  <2> QED BY <2>1, <2>2, <2>3, <2>4
<1>2. UNCHANGED <<saving, stored, deletion>>
  BY DEF OpenCreateBuilder, OpenEditBuilder, CloseBuilder, Rename
<1>3. edits' \in 0..MaxEdits
  BY SuitePagesAssumption DEF OpenCreateBuilder, OpenEditBuilder, CloseBuilder, Rename, Edit, BuilderSound
<1> QED BY <1>1, <1>2, <1>3 DEF BuilderSound

LEMMA StagesEdited ==
    ASSUME BuilderSound, NameStage \/ AddStage \/ AddCheck \/ RemoveStage \/ RemoveCheck
    PROVE  BuilderSound'
<1>0. builder \in SoundBuilders
  BY DEF BuilderSound
<1>1. builder' \in SoundBuilders
  <2>1. CASE NameStage
    <3>1. PICK i \in DOMAIN builder.stages : UpdateStage(i, [builder.stages[i] EXCEPT !.named = ~@])
      BY <2>1 DEF NameStage
    <3>2. builder.stages[i] \in SoundStages
      BY <1>0, StageHasChecks
    <3>3. [builder.stages[i] EXCEPT !.named = ~@] \in SoundStages
      BY <3>2 DEF SoundStages
    <3> QED BY <1>0, <3>1, <3>3, StageUpdated
  <2>2. CASE AddStage
    <3>1. Len(builder.stages) \in Nat
      BY <1>0, LenProperties DEF SoundBuilders
    <3>2. NewStage(Len(builder.stages) + 1, FALSE) \in SoundStages
      <4>1. Len(builder.stages) + 1 \in Nat
        BY <3>1
      <4> QED BY <4>1, AddedSound, Zenon
    <3>3. Append(builder.stages, NewStage(Len(builder.stages) + 1, FALSE)) \in Seq(SoundStages) \ {<<>>}
      BY <1>0, <3>2, Added DEF SoundBuilders
    <3> QED BY <1>0, <2>2, <3>3 DEF AddStage, SoundBuilders
  <2>3. CASE AddCheck
    <3>1. PICK i \in DOMAIN builder.stages :
            UpdateStage(i, [builder.stages[i] EXCEPT
                !.checks = Append(@, FirstCheck(<<builder.stages[i].id, Len(builder.stages[i].checks) + 1>>))])
      BY <2>3 DEF AddCheck
    <3> DEFINE stage == builder.stages[i]
               check == FirstCheck(<<stage.id, Len(stage.checks) + 1>>)
    <3>2. stage \in SoundStages
      BY <1>0, StageHasChecks
    <3>3. stage.id \in Nat /\ Len(stage.checks) \in Nat
      BY <3>2, LenProperties DEF SoundStages
    <3>4. check \in AgreeingChecks
      BY <3>3, AddedSound
    <3>5. Append(stage.checks, check) \in Seq(AgreeingChecks) \ {<<>>}
      BY <3>2, <3>4, Added DEF SoundStages
    <3>6. [stage EXCEPT !.checks = Append(@, check)] \in SoundStages
      BY <3>2, <3>5 DEF SoundStages
    <3> QED BY <1>0, <3>1, <3>6, StageUpdated
  <2>4. CASE RemoveStage
    <3>1. PICK i \in DOMAIN builder.stages :
            Len(builder.stages) > 1 /\ builder' = [builder EXCEPT !.stages = RemoveAt(@, i)]
      BY <2>4 DEF RemoveStage
    <3>2. RemoveAt(builder.stages, i) \in Seq(SoundStages) \ {<<>>}
      BY <1>0, <3>1, Removed DEF SoundBuilders
    <3> QED BY <1>0, <3>1, <3>2 DEF SoundBuilders
  <2>5. CASE RemoveCheck
    <3>1. PICK p \in CheckPlaces :
            /\ Len(builder.stages[p[1]].checks) > 1
            /\ UpdateStage(p[1], [builder.stages[p[1]] EXCEPT !.checks = RemoveAt(@, p[2])])
      BY <2>5 DEF RemoveCheck
    <3>2. p[1] \in DOMAIN builder.stages /\ p[2] \in DOMAIN builder.stages[p[1]].checks
      BY DEF CheckPlaces
    <3>3. builder.stages[p[1]] \in SoundStages
      BY <1>0, <3>2, StageHasChecks
    <3>4. RemoveAt(builder.stages[p[1]].checks, p[2]) \in Seq(AgreeingChecks) \ {<<>>}
      BY <3>1, <3>2, <3>3, Removed DEF SoundStages
    <3>5. [builder.stages[p[1]] EXCEPT !.checks = RemoveAt(@, p[2])] \in SoundStages
      BY <3>3, <3>4 DEF SoundStages
    <3> QED BY <1>0, <3>1, <3>2, <3>5, StageUpdated
  <2> QED BY <2>1, <2>2, <2>3, <2>4, <2>5
<1>2. UNCHANGED <<saving, stored, deletion>>
  BY DEF NameStage, AddStage, AddCheck, RemoveStage, RemoveCheck
<1>3. edits' \in 0..MaxEdits
  <2>1. Edit
    BY DEF NameStage, AddStage, AddCheck, RemoveStage, RemoveCheck
  <2> QED BY <2>1, SuitePagesAssumption DEF Edit, BuilderSound
<1> QED BY <1>1, <1>2, <1>3 DEF BuilderSound

LEMMA PlaceHasCheck ==
    ASSUME builder \in SoundBuilders, NEW p \in CheckPlaces
    PROVE  /\ p[1] \in DOMAIN builder.stages /\ p[2] \in DOMAIN builder.stages[p[1]].checks
           /\ builder.stages[p[1]].checks[p[2]] \in AgreeingChecks
<1>1. p[1] \in DOMAIN builder.stages /\ p[2] \in DOMAIN builder.stages[p[1]].checks
  BY DEF CheckPlaces
<1> QED BY <1>1, StageHasChecks

LEMMA ChecksEdited ==
    ASSUME BuilderSound, ChooseKind \/ Ensured \/ ChooseTarget \/ ToggleRequired
    PROVE  BuilderSound'
<1>0. builder \in SoundBuilders
  BY DEF BuilderSound
<1>1. builder' \in SoundBuilders
  <2>1. CASE ChooseKind
    <3>1. PICK p \in CheckPlaces, kind \in Kinds :
            \/ UNCHANGED builder
            \/ UpdateCheck(p[1], p[2], OfKind(builder.stages[p[1]].checks[p[2]], kind, kind \in Offered))
      BY <2>1 DEF ChooseKind
    <3> DEFINE check == builder.stages[p[1]].checks[p[2]]
               target == kind \in Offered
    <3>2. target \in BOOLEAN
      OBVIOUS
    <3>3. check \in AgreeingChecks
      BY <1>0, PlaceHasCheck
    <3> HIDE DEF target
    <3>4. OfKind(check, kind, target) \in AgreeingChecks
      BY <3>2, <3>3, CheckEdited
    <3> QED BY <1>0, <3>1, <3>4, PlaceHasCheck, CheckUpdated DEF target
  <2>2. CASE Ensured
    <3>1. PICK e \in ensuring, ok \in BOOLEAN :
            LET check == builder.stages[e.place[1]].checks[e.place[2]]
            IN  IF e.place \notin CheckPlaces THEN UNCHANGED builder
                ELSE UpdateCheck(e.place[1], e.place[2],
                    CASE e.by = "kind" -> OfKind(check, "DYNATRACE_INFRASTRUCTURE", ok)
                      [] e.by = "application" /\ check.kind = "DYNATRACE_INFRASTRUCTURE" ->
                            [check EXCEPT !.target = ok]
                      [] OTHER -> check)
      BY <2>2 DEF Ensured
    <3>2. CASE e.place \notin CheckPlaces
      BY <1>0, <3>1, <3>2
    <3>3. CASE e.place \in CheckPlaces
      <4> DEFINE check == builder.stages[e.place[1]].checks[e.place[2]]
                 next == CASE e.by = "kind" -> OfKind(check, "DYNATRACE_INFRASTRUCTURE", ok)
                           [] e.by = "application" /\ check.kind = "DYNATRACE_INFRASTRUCTURE" ->
                                [check EXCEPT !.target = ok]
                           [] OTHER -> check
      <4>1. check \in AgreeingChecks
        BY <1>0, <3>3, PlaceHasCheck
      <4>2. "DYNATRACE_INFRASTRUCTURE" \in Kinds
        BY DEF Kinds
      <4>4. UpdateCheck(e.place[1], e.place[2], next)
        BY <3>1, <3>3
      <4> HIDE DEF check
      <4>a. OfKind(check, "DYNATRACE_INFRASTRUCTURE", ok) \in AgreeingChecks
        BY <4>1, <4>2, CheckEdited
      <4>b. [check EXCEPT !.target = ok] \in AgreeingChecks
        BY <4>1, CheckEdited
      <4>5. next \in AgreeingChecks
        <5>1. CASE e.by = "kind"
          BY <4>a, <5>1
        <5>2. CASE e.by # "kind" /\ e.by = "application" /\ check.kind = "DYNATRACE_INFRASTRUCTURE"
          BY <4>b, <5>2
        <5>3. CASE e.by # "kind" /\ ~(e.by = "application" /\ check.kind = "DYNATRACE_INFRASTRUCTURE")
          BY <4>1, <5>3
        <5> QED BY <5>1, <5>2, <5>3
      <4> HIDE DEF next
      <4> QED BY <1>0, <3>3, <4>4, <4>5, PlaceHasCheck, CheckUpdated
    <3> QED BY <3>2, <3>3
  <2>3. CASE ChooseTarget
    <3>1. PICK p \in CheckPlaces, blocking \in BOOLEAN :
            LET check == builder.stages[p[1]].checks[p[2]]
            IN  /\ check.kind \in Offered
                /\ IF check.kind = "DYNATRACE_INFRASTRUCTURE" /\ ~Bound
                   THEN UNCHANGED builder
                   ELSE UpdateCheck(p[1], p[2],
                            [check EXCEPT !.target = TRUE,
                                !.required = IF check.kind = "ELF_QUERY" THEN blocking ELSE @])
      BY <2>3 DEF ChooseTarget
    <3> DEFINE check == builder.stages[p[1]].checks[p[2]]
               next == [check EXCEPT !.target = TRUE,
                            !.required = IF check.kind = "ELF_QUERY" THEN blocking ELSE @]
    <3>2. check \in AgreeingChecks
      BY <1>0, PlaceHasCheck
    <3>3. UNCHANGED builder \/ UpdateCheck(p[1], p[2], next)
      BY <3>1
    <3>4. next \in AgreeingChecks
      <4>1. CASE check.kind = "DYNATRACE_INFRASTRUCTURE"
        <5>1. next = [check EXCEPT !.target = TRUE]
          BY <3>2, <4>1 DEF AgreeingChecks
        <5> QED BY <3>2, <5>1, CheckEdited
      <4>2. CASE check.kind # "DYNATRACE_INFRASTRUCTURE"
        BY <3>2, <4>2, CheckEdited
      <4> QED BY <4>1, <4>2
    <3> HIDE DEF next
    <3> QED BY <1>0, <3>3, <3>4, PlaceHasCheck, CheckUpdated
  <2>4. CASE ToggleRequired
    <3>1. PICK p \in CheckPlaces :
            LET check == builder.stages[p[1]].checks[p[2]]
            IN  UpdateCheck(p[1], p[2],
                    [check EXCEPT !.required = ~@,
                        !.gate = IF check.kind # "DYNATRACE_INFRASTRUCTURE" THEN @
                                 ELSE IF check.required THEN "ADVISORY" ELSE "BLOCKING"])
      BY <2>4 DEF ToggleRequired
    <3> DEFINE check == builder.stages[p[1]].checks[p[2]]
               next == [check EXCEPT !.required = ~@,
                        !.gate = IF check.kind # "DYNATRACE_INFRASTRUCTURE" THEN @
                                 ELSE IF check.required THEN "ADVISORY" ELSE "BLOCKING"]
    <3>2. next \in AgreeingChecks
      BY <1>0, PlaceHasCheck, CheckEdited
    <3>3. UpdateCheck(p[1], p[2], next)
      BY <3>1
    <3> HIDE DEF next
    <3> QED BY <1>0, <3>2, <3>3, PlaceHasCheck, CheckUpdated
  <2> QED BY <2>1, <2>2, <2>3, <2>4
<1>2. UNCHANGED <<saving, stored, deletion>>
  BY DEF ChooseKind, Ensured, ChooseTarget, ToggleRequired
<1>3. edits' \in 0..MaxEdits
  <2>1. Edit \/ edits' = edits
    BY DEF ChooseKind, Ensured, ChooseTarget, ToggleRequired
  <2> QED BY <2>1, SuitePagesAssumption DEF Edit, BuilderSound
<1> QED BY <1>1, <1>2, <1>3 DEF BuilderSound

LEMMA SaveIsWellFormed ==
    ASSUME NEW b \in SoundBuilders, ~SaveDisabled(b)
    PROVE  WellFormed(b)
<1>1. ASSUME NEW i \in DOMAIN b.stages PROVE b.stages[i].checks # <<>>
  <2>1. b.stages[i] \in SoundStages
    BY ElementOfSeq, LenProperties DEF SoundBuilders
  <2> QED BY <2>1 DEF SoundStages
<1> QED BY <1>1 DEF SaveDisabled, WellFormed, SoundBuilders

LEMMA SuiteSaved ==
    ASSUME BuilderSound, Save \/ Saved \/ RequestDelete \/ AnswerDialog \/ Deleted
    PROVE  BuilderSound'
<1>1. CASE Save
  <2>1. WellFormed(builder)
    BY <1>1, SaveIsWellFormed DEF Save, BuilderSound
  <2> QED BY <1>1, <2>1 DEF Save, BuilderSound
<1>2. CASE Saved
  <2>1. PICK b \in saving :
          \/ UNCHANGED <<builder, stored>>
          \/ builder' = NewBuilder /\ (stored' = b.stages \/ stored' = stored)
    BY <1>2 DEF Saved
  <2>2. b.stages \in Seq(SoundStages)
    BY DEF BuilderSound, SoundBuilders
  <2>3. builder' \in SoundBuilders /\ stored' \in Seq(SoundStages)
    BY <2>1, <2>2, AddedSound DEF BuilderSound
  <2> QED BY <1>2, <2>3 DEF Saved, BuilderSound
<1>3. CASE RequestDelete
  BY <1>3, SuitePagesAssumption DEF RequestDelete, Edit, BuilderSound
<1>4. CASE AnswerDialog
  BY <1>4 DEF AnswerDialog, BuilderSound
<1>5. CASE Deleted
  <2>1. builder' \in SoundBuilders /\ stored' \in Seq(SoundStages)
    BY <1>5, AddedSound, EmptySeq DEF Deleted, BuilderSound
  <2> QED BY <1>5, <2>1 DEF Deleted, BuilderSound
<1> QED BY <1>1, <1>2, <1>3, <1>4, <1>5

LEMMA BuilderStep == BuilderSound /\ BuilderNext => BuilderSound'
BY BuilderOpened, StagesEdited, ChecksEdited, SuiteSaved DEF BuilderNext

LEMMA BuilderStands == BuilderSound /\ UNCHANGED builderVars => BuilderSound'
BY DEF BuilderSound, builderVars

\* A loop follows a run that was started.
SuiteStatuses == {"none", "QUEUED", "RUNNING", "CANCELLING", "SUCCESS", "FAILED", "CANCELLED"}
FollowSound ==
    /\ suiteRuns \in [RunIds -> [suite : SuiteNames \cup {"none"}, status : SuiteStatuses]]
    /\ loops \in [RunIds -> {"none", "starting", "following", "cut"}]
    /\ \A r \in RunIds : loops[r] # "none" => suiteRuns[r].status # "none"

LEMMA FollowStep == FollowSound /\ FollowNext => FollowSound'
<1> SUFFICES ASSUME FollowSound, FollowNext PROVE FollowSound'
  OBVIOUS
<1>1. CASE Execute
  <2>1. PICK r \in RunIds, s \in SuiteNames :
          /\ suiteRuns' = [suiteRuns EXCEPT ![r] = [suite |-> s, status |-> "QUEUED"]]
          /\ loops' = [loops EXCEPT ![r] = "starting"]
    BY <1>1 DEF Execute
  <2> QED BY <2>1 DEF FollowSound, SuiteStatuses
<1>2. CASE Started
  BY <1>2 DEF Started, FollowSound
<1>3. CASE NotStarted \/ Refresh \/ RefreshFails
  <2>1. PICK r \in RunIds : loops' = [loops EXCEPT ![r] = "none"] \/ loops' = loops
    BY <1>3 DEF NotStarted, Refresh, RefreshFails
  <2>2. suiteRuns' = suiteRuns
    BY <1>3 DEF NotStarted, Refresh, RefreshFails
  <2> QED BY <2>1, <2>2 DEF FollowSound
<1>6. CASE CallRejected
  <2>1. PICK r \in RunIds : loops[r] # "none" /\ loops' = [loops EXCEPT ![r] = "cut"]
    BY <1>6 DEF CallRejected
  <2>2. suiteRuns' = suiteRuns
    BY <1>6 DEF CallRejected
  <2> QED BY <2>1, <2>2 DEF FollowSound
<1>4. CASE Advance
  <2>1. PICK r \in RunIds, to \in {"RUNNING", "SUCCESS", "FAILED", "CANCELLED"} :
          suiteRuns' = [suiteRuns EXCEPT ![r].status = to]
    BY <1>4 DEF Advance
  <2>2. loops' = loops
    BY <1>4 DEF Advance
  <2> QED BY <2>1, <2>2 DEF FollowSound, SuiteStatuses
<1>5. CASE CancelElsewhere
  <2>1. PICK r \in RunIds :
          suiteRuns' = [suiteRuns EXCEPT ![r].status = IF @ = "QUEUED" THEN "CANCELLED" ELSE "CANCELLING"]
    BY <1>5 DEF CancelElsewhere
  <2>2. loops' = loops
    BY <1>5 DEF CancelElsewhere
  <2> QED BY <2>1, <2>2 DEF FollowSound, SuiteStatuses
<1> QED BY <1>1, <1>2, <1>3, <1>4, <1>5, <1>6 DEF FollowNext

LEMMA FollowStands == FollowSound /\ UNCHANGED followVars => FollowSound'
BY DEF FollowSound, followVars

\* Of the previews that were asked for, at most those of the choices made may still be
\* shown, and the second step is waiting for one, told of a failure or shows it.
WizardSet ==
    [step : 1..4, suite : Suites, window : Windows, preview : {<<>>} \cup (Suites \X Windows),
     loading : BOOLEAN, error : BOOLEAN, pending : BOOLEAN, left : BOOLEAN]
PreviewSet == [suite : Suites, window : Windows, cancelled : BOOLEAN]
WizardSound ==
    /\ wizard \in WizardSet /\ previews \in SUBSET PreviewSet
    /\ \A p \in previews :
        ~p.cancelled => wizard.step = 2 /\ p.suite = wizard.suite /\ p.window = wizard.window
    /\ wizard.step = 2 => wizard.loading \/ wizard.error \/ wizard.preview = <<wizard.suite, wizard.window>>

\* The effect disposes of all requests before it makes another.
LEMMA EffectSound ==
    ASSUME WizardSound, NEW w \in WizardSet, Effect(w)
    PROVE  WizardSound'
<1> DEFINE disposed == {[p EXCEPT !.cancelled = TRUE] : p \in previews}
<1>1. \A q \in disposed : q \in PreviewSet /\ q.cancelled
  BY DEF WizardSound, PreviewSet
<1>2. CASE w.step = 2
  <2>1. wizard' = [w EXCEPT !.loading = TRUE, !.error = FALSE]
    BY <1>2 DEF Effect
  <2>2. previews' = disposed \cup {[suite |-> w.suite, window |-> w.window, cancelled |-> FALSE]}
    BY <1>2 DEF Effect
  <2>3. /\ wizard' \in WizardSet /\ wizard'.step = 2 /\ wizard'.loading
        /\ wizard'.suite = w.suite /\ wizard'.window = w.window
    BY <1>2, <2>1 DEF WizardSet
  <2>4. [suite |-> w.suite, window |-> w.window, cancelled |-> FALSE] \in PreviewSet
    BY DEF WizardSet, PreviewSet
  <2> HIDE DEF disposed
  <2>5. previews' \in SUBSET PreviewSet
    BY <1>1, <2>2, <2>4
  <2>6. ASSUME NEW p \in previews', ~p.cancelled PROVE p.suite = w.suite /\ p.window = w.window
    BY <1>1, <2>2, <2>6
  <2> QED BY <2>3, <2>5, <2>6 DEF WizardSound
<1>3. CASE w.step # 2
  <2>1. wizard' = w /\ previews' = disposed
    BY <1>3 DEF Effect
  <2> HIDE DEF disposed
  <2> QED BY <1>1, <1>3, <2>1 DEF WizardSound
<1> QED BY <1>2, <1>3

LEMMA WizardStep == WizardSound /\ WizardNext => WizardSound'
<1> SUFFICES ASSUME WizardSound, WizardNext PROVE WizardSound'
  OBVIOUS
<1>0. wizard \in WizardSet
  BY DEF WizardSound
<1>1. CASE ChooseSuite
  <2>1. PICK s \in Suites : Effect([wizard EXCEPT !.suite = s])
    BY <1>1 DEF ChooseSuite
  <2>2. [wizard EXCEPT !.suite = s] \in WizardSet
    BY <1>0 DEF WizardSet
  <2> QED BY <2>1, <2>2, EffectSound
<1>2. CASE ChooseWindow
  <2>1. PICK v \in Windows : Effect([wizard EXCEPT !.window = v])
    BY <1>2 DEF ChooseWindow
  <2>2. [wizard EXCEPT !.window = v] \in WizardSet
    BY <1>0 DEF WizardSet
  <2> QED BY <2>1, <2>2, EffectSound
<1>3. CASE Continue
  <2>1. [wizard EXCEPT !.step = @ + 1] \in WizardSet
    BY <1>0, <1>3 DEF Continue, WizardSet
  <2> QED BY <1>3, <2>1, EffectSound DEF Continue
<1>4. CASE Back
  <2>1. [wizard EXCEPT !.step = @ - 1] \in WizardSet
    BY <1>0, <1>4 DEF Back, WizardSet
  <2> QED BY <1>4, <2>1, EffectSound DEF Back
<1>5. CASE PreviewAnswered
  <2>1. PICK p \in previews :
          /\ previews' = previews \ {p}
          /\ \/ UNCHANGED wizard
             \/ ~p.cancelled /\ wizard' = [wizard EXCEPT !.preview = <<p.suite, p.window>>, !.loading = FALSE]
             \/ wizard' = [wizard EXCEPT !.preview = <<>>, !.error = TRUE, !.loading = FALSE]
    BY <1>5 DEF PreviewAnswered
  <2>2. p.suite \in Suites /\ p.window \in Windows
    BY DEF WizardSound, PreviewSet
  <2>3. CASE UNCHANGED wizard
    BY <2>1, <2>3 DEF WizardSound
  <2>4. CASE ~p.cancelled /\ wizard' = [wizard EXCEPT !.preview = <<p.suite, p.window>>, !.loading = FALSE]
    <3>1. p.suite = wizard.suite /\ p.window = wizard.window
      BY <2>4 DEF WizardSound
    <3>2. /\ wizard' \in WizardSet /\ wizard'.step = wizard.step
          /\ wizard'.suite = wizard.suite /\ wizard'.window = wizard.window
          /\ wizard'.preview = <<wizard.suite, wizard.window>>
      BY <1>0, <2>2, <2>4, <3>1 DEF WizardSet
    <3> QED BY <2>1, <3>2 DEF WizardSound
  <2>5. CASE wizard' = [wizard EXCEPT !.preview = <<>>, !.error = TRUE, !.loading = FALSE]
    <3>1. /\ wizard' \in WizardSet /\ wizard'.step = wizard.step /\ wizard'.error
          /\ wizard'.suite = wizard.suite /\ wizard'.window = wizard.window
      BY <1>0, <2>5 DEF WizardSet
    <3> QED BY <2>1, <3>1 DEF WizardSound
  <2> QED BY <2>1, <2>3, <2>4, <2>5
<1>6. CASE StartValidation \/ StartAnswered
  <2>1. /\ wizard' \in WizardSet /\ previews' = previews
        /\ wizard'.step = wizard.step /\ wizard'.suite = wizard.suite /\ wizard'.window = wizard.window
        /\ wizard'.preview = wizard.preview /\ wizard'.loading = wizard.loading /\ wizard'.error = wizard.error
    <3>1. CASE StartValidation
      BY <1>0, <3>1 DEF StartValidation, WizardSet
    <3>2. CASE StartAnswered
      BY <1>0, <3>2 DEF StartAnswered, WizardSet
    <3> QED BY <1>6, <3>1, <3>2
  <2> QED BY <2>1 DEF WizardSound
<1> QED BY <1>1, <1>2, <1>3, <1>4, <1>5, <1>6 DEF WizardNext

LEMMA WizardStands == WizardSound /\ UNCHANGED wizardVars => WizardSound'
BY DEF WizardSound, wizardVars

SuiteSound == BuilderSound /\ FollowSound /\ WizardSound

LEMMA SuiteInitSound == SuitePagesInit => SuiteSound
<1> SUFFICES ASSUME SuitePagesInit PROVE SuiteSound
  OBVIOUS
<1>1. BuilderSound
  BY AddedSound, SuitePagesAssumption DEF SuitePagesInit, BuilderSound
<1>2. FollowSound
  BY DEF SuitePagesInit, FollowSound, NotRun, SuiteStatuses
<1>3. WizardSound
  BY DEF SuitePagesInit, WizardSound, WizardSet, Suites, Windows
<1> QED BY <1>1, <1>2, <1>3 DEF SuiteSound

LEMMA SuiteStepSound == SuiteSound /\ [SuiteNext]_suiteVars => SuiteSound'
<1> SUFFICES ASSUME SuiteSound, [SuiteNext]_suiteVars PROVE SuiteSound'
  OBVIOUS
<1>1. BuilderNext => UNCHANGED <<followVars, wizardVars>>
  BY DEF BuilderNext
<1>2. FollowNext => UNCHANGED <<builderVars, wizardVars>>
  BY DEF FollowNext
<1>3. WizardNext => UNCHANGED <<builderVars, followVars>>
  BY DEF WizardNext
<1>4. UNCHANGED suiteVars => UNCHANGED <<builderVars, followVars, wizardVars>>
  BY DEF suiteVars
<1> QED BY <1>1, <1>2, <1>3, <1>4, BuilderStep, BuilderStands, FollowStep, FollowStands, WizardStep, WizardStands
         DEF SuiteNext, SuiteSound

\* What the builder sends is what the server's guard lets through, but for identifiers
\* that repeat, whatever was edited while environments and saves were on their way
\* (suites.tsx saveDisabled, suites/service.go suiteFromInput).
THEOREM SuiteSentIsWellFormed == SuiteSpec => []SuitePagesTypeOK
<1>1. SuiteSound => SuitePagesTypeOK
  <2> SUFFICES ASSUME SuiteSound PROVE SuitePagesTypeOK
    OBVIOUS
  <2>1. Cardinality(saving) <= 1
    <3>1. CASE saving = {}
      BY <3>1, FS_EmptySet
    <3>2. CASE saving # {}
      <4>1. PICK b \in saving : TRUE
        BY <3>2
      <4>2. saving = {b}
        BY <4>1 DEF SuiteSound, BuilderSound
      <4>3. Cardinality({b}) = 1
        BY FS_Singleton
      <4> QED BY <4>2, <4>3
    <3> QED BY <3>1, <3>2
  <2>2. \A r \in RunIds : loops[r] # "none" => suiteRuns[r] # NotRun
    BY DEF SuiteSound, FollowSound, NotRun
  <2> QED BY <2>1, <2>2 DEF SuiteSound, BuilderSound, SuitePagesTypeOK
<1> QED BY <1>1, SuiteInitSound, SuiteStepSound, PTL DEF SuiteSpec

\* The gate mode of a check agrees with its kind and its box, in what is edited, sent and
\* stored, in whatever order they were changed and late environments were written to their
\* places (suites.tsx updateStage, ensureApplicationDynatraceContext).
THEOREM GateFollowsKindHolds == SuiteSpec => []GateFollowsKind
<1>1. ASSUME NEW stages \in Seq(SoundStages) PROVE AllAgree(stages)
  <2> SUFFICES ASSUME NEW i \in DOMAIN stages, NEW j \in DOMAIN stages[i].checks
               PROVE  GateAgrees(stages[i].checks[j])
    BY DEF AllAgree
  <2>1. stages[i] \in SoundStages
    BY ElementOfSeq, LenProperties
  <2>2. stages[i].checks[j] \in AgreeingChecks
    BY <2>1, ElementOfSeq, LenProperties DEF SoundStages
  <2> QED BY <2>2 DEF AgreeingChecks
<1>2. SuiteSound => GateFollowsKind
  BY <1>1 DEF SuiteSound, BuilderSound, SoundBuilders, GateFollowsKind
<1> QED BY <1>2, SuiteInitSound, SuiteStepSound, PTL DEF SuiteSpec

\* On its second step the wizard shows the baseline of the suite and the window that are
\* chosen, however fast they were changed (deployment-workflow.tsx, the effect that loads it).
THEOREM PreviewIsCurrentHolds == SuiteSpec => []PreviewIsCurrent
<1>1. SuiteSound => PreviewIsCurrent
  <2> SUFFICES ASSUME SuiteSound, wizard.step = 2, BaselineStep(wizard) \notin {"loading", "error"}
               PROVE  wizard.preview = <<wizard.suite, wizard.window>>
    BY DEF PreviewIsCurrent
  <2>1. wizard.loading \in BOOLEAN /\ wizard.error \in BOOLEAN
    BY DEF SuiteSound, WizardSound, WizardSet
  <2>2. ~wizard.loading /\ ~wizard.error
    BY <2>1 DEF BaselineStep
  <2> QED BY <2>2 DEF SuiteSound, WizardSound
<1> QED BY <1>1, SuiteInitSound, SuiteStepSound, PTL DEF SuiteSpec
=============================================================================
