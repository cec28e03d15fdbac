----------------------------- MODULE Workbench ------------------------------
(***************************************************************************)
(* The workbench in which a workflow is put together                       *)
(* (features/monitors/request-workbench.tsx): the steps and their order,   *)
(* the step and the section at hand, and what of a step bears on the       *)
(* variables of the later ones.  The step at hand is kept by its id, which *)
(* is here the position of that step, or 0 for an id no step has.          *)
(***************************************************************************)
EXTENDS WorkflowVariables

CONSTANT OpenedSections    \* bound: the sections of a request that are opened

VARIABLES
    workflow,      \* the draft
    selectedStep,  \* the step at hand; 0 is an id of no step
    section,       \* section of the request at hand
    deleting       \* the page asks before it deletes a step

workbenchVars == <<workflow, selectedStep, section, deleting>>

RequestSections ==
    {"params", "auth", "headers", "body", "cookies", "pre-request", "extractors", "assertions",
     "tls", "proxy", "settings"}
ASSUME SectionsAssumption == OpenedSections \subseteq RequestSections
\* Where each way to produce a variable is edited.
EditedIn(by) ==
    CASE by = "pre-request script" -> {"pre-request"}
      [] by = "tests script" -> {"assertions"}
      [] by \in Extractors \cup {"extractor off"} -> {"extractors"}
      [] OTHER -> RequestSections

Steps == workflow.steps
\* The step at hand; an id of no step stands for the first one.
SelectedIndex == IF selectedStep = 0 THEN 1 ELSE selectedStep
Nothing == [by |-> "none", scope |-> "variables", sure |-> TRUE]

WorkbenchInit ==
    \* The definition is loaded with a step that may be disabled or have a condition.
    /\ \E profile, sensitive, sure \in BOOLEAN :
          workflow = [steps |-> <<[Nothing EXCEPT !.sure = sure]>>, profile |-> profile, sensitive |-> sensitive]
    /\ selectedStep = 1
    /\ section = "params" /\ deleting = FALSE

SetSteps(steps) == workflow' = [workflow EXCEPT !.steps = steps]
\* No editor writes whether a step is enabled, or its condition: a step keeps them.
UpdateStep ==
    /\ \E does \in Producers :
          /\ section \in EditedIn(does.by) /\ does.sure = Steps[SelectedIndex].sure
          /\ SetSteps([Steps EXCEPT ![SelectedIndex] = does])
    /\ UNCHANGED <<selectedStep, section, deleting>>
AddStep ==
    /\ Len(Steps) < MaxSteps
    /\ SetSteps(Append(Steps, Nothing))
    /\ selectedStep' = Len(Steps) + 1
    /\ UNCHANGED <<section, deleting>>
DuplicateStep ==
    /\ Len(Steps) < MaxSteps
    /\ SetSteps(InsertAt(Steps, SelectedIndex + 1, Steps[SelectedIndex]))
    /\ selectedStep' = SelectedIndex + 1
    /\ UNCHANGED <<section, deleting>>
AskDeleteStep ==
    /\ Len(Steps) > 1
    /\ deleting' = TRUE
    /\ UNCHANGED <<workflow, selectedStep, section>>
KeepStep ==
    /\ deleting /\ deleting' = FALSE
    /\ UNCHANGED <<workflow, selectedStep, section>>
RemoveStep ==
    /\ deleting /\ Len(Steps) > 1
    /\ SetSteps(RemoveAt(Steps, SelectedIndex))
    /\ selectedStep' = IF SelectedIndex = 1 THEN 1 ELSE SelectedIndex - 1
    /\ deleting' = FALSE
    /\ UNCHANGED section
MoveStep ==
    /\ \E target \in {SelectedIndex - 1, SelectedIndex + 1} \cap DOMAIN Steps :
          /\ SetSteps([Steps EXCEPT ![SelectedIndex] = Steps[target], ![target] = Steps[SelectedIndex]])
          /\ selectedStep' = IF selectedStep = 0 THEN 0 ELSE target
    /\ UNCHANGED <<section, deleting>>
SelectStep ==
    /\ ~deleting
    /\ selectedStep' \in DOMAIN Steps
    /\ UNCHANGED <<workflow, section, deleting>>
SelectSection ==
    /\ ~deleting
    /\ section' \in OpenedSections
    /\ UNCHANGED <<workflow, selectedStep, deleting>>
\* A failed check, or the preview of an older draft, leads to a step by its id.
FocusTarget ==
    /\ selectedStep' \in {0} \cup DOMAIN Steps
    /\ section' \in OpenedSections
    /\ UNCHANGED <<workflow, deleting>>
EditSteps == ~deleting /\ (UpdateStep \/ AddStep \/ DuplicateStep \/ MoveStep)
WorkbenchNext ==
    EditSteps \/ AskDeleteStep \/ KeepStep \/ RemoveStep \/ SelectStep \/ SelectSection \/ FocusTarget

\* The buttons above the steps.
StepButtons ==
    {"Duplicate", "Add request", "Variables"}
    \cup (IF SelectedIndex > 1 THEN {"Move up"} ELSE {})
    \cup (IF SelectedIndex < Len(Steps) THEN {"Move down"} ELSE {})
    \cup (IF Len(Steps) > 1 THEN {"Delete"} ELSE {})
-----------------------------------------------------------------------------
\* The workflow and the page.
WorkbenchTypeOK ==
    /\ Len(Steps) \in 1..MaxSteps
    /\ \A i \in DOMAIN Steps : Steps[i] \in Producers
    /\ selectedStep \in {0} \cup DOMAIN Steps /\ section \in RequestSections /\ deleting \in BOOLEAN

\* What the picker offers at a step as available has a value when the request of the
\* step is rendered, where a step gives it that is sure to run; and the request is
\* rendered with the last value that was given ("Values shown here are available at this
\* workflow step.", variable-picker.tsx). That is so for workflows without scripts, under
\* a name that is not kept private. It is not so of what the picker also offers: extractors
\* that are switched off, actions that unset, and steps that are disabled or skipped.
Backed(p, k) ==
    \/ p = "environment" /\ workflow.profile
    \/ p = "variables" /\ Steps[k].by = "action"
    \/ \E i \in 1..(k - 1) : Sure(Steps[i]) /\ p \in Entries(workflow, i)
OfferedResolves ==
    ~workflow.sensitive /\ NoScripts(workflow) =>
        \A k \in DOMAIN Steps : \A values \in RequestsOf(workflow, k) :
            /\ \A p \in AvailableNow(workflow, k) : Backed(p, k) => values[p] # 0
            /\ Steps[k].by # "action" => Resolve(values) \in LastGiven(workflow, k)

\* What a pre-request action generates is what the request of its step is given
\* ("Make generated values available in the current step and all later steps.",
\* Rhythm_Detailed_PRD.md).
GeneratedUsed ==
    \A k \in DOMAIN Steps : Steps[k].by = "action" =>
        \A values \in RequestsOf(workflow, k) : Resolve(values) = k + 1

WorkbenchSpec == WorkbenchInit /\ [][WorkbenchNext]_workbenchVars
=============================================================================
