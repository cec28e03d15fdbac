---------------------------- MODULE ScriptEditor ----------------------------
(***************************************************************************)
(* The editor of the scripts of a step                                     *)
(* (features/monitors/pre-request-script-editor.tsx): the code, what a     *)
(* validation or a preview answered about it, and what is shown of the     *)
(* answer.  The workbench keeps one editor while the author goes from step *)
(* to step within the section of the scripts.                              *)
(*                                                                         *)
(* A code is a number: 0 is blank, and every edit writes a new one.        *)
(***************************************************************************)
EXTENDS Naturals, FiniteSets

CONSTANTS
    MaxCode,       \* bound on the edits
    MaxCalls       \* bound on the validations and previews

VARIABLES
    codes,         \* the code of each of two steps
    editorStep,    \* the step whose code is in the editor
    mounted,       \* step and code when the editor was mounted
    scriptCalls,   \* validations and previews that are not answered, with what they were about
    scriptResult,  \* what the evidence panel shows: what a preview was about, or NoEvidence
    problemsOf,    \* what the listed problems are about
    previewing,    \* the button says that a preview runs
    written, asked \* how many edits and calls there were

scriptVars == <<codes, editorStep, mounted, scriptCalls, scriptResult, problemsOf, previewing, written, asked>>

NoEvidence == [step |-> 0, code |-> 0]
About(step) == [step |-> step, code |-> codes[step]]
Calls == [kind : {"validate", "preview"}, about : [step : 1..2, code : 0..MaxCode], id : 1..MaxCalls]

ScriptInit ==
    /\ codes \in [1..2 -> {0}] /\ editorStep = 1
    /\ mounted = NoEvidence /\ scriptCalls = {} /\ scriptResult = NoEvidence /\ problemsOf = NoEvidence
    /\ previewing = FALSE /\ written = 0 /\ asked = 0

MountEditor ==
    /\ mounted = NoEvidence
    /\ mounted' = About(editorStep)
    /\ UNCHANGED <<codes, editorStep, scriptCalls, scriptResult, problemsOf, previewing, written, asked>>

\* Typing, a snippet and the starter all change the code, and drop what was said of it.
ChangeCode ==
    /\ mounted # NoEvidence /\ written < MaxCode
    /\ written' = written + 1
    /\ codes' = [codes EXCEPT ![editorStep] = written']
    /\ scriptResult' = NoEvidence /\ problemsOf' = NoEvidence
    /\ UNCHANGED <<editorStep, mounted, scriptCalls, previewing, asked>>

Ask(kind, about) ==
    /\ asked < MaxCalls
    /\ asked' = asked + 1
    /\ scriptCalls' = scriptCalls \cup {[kind |-> kind, about |-> about, id |-> asked']}
AskValidation ==
    /\ mounted # NoEvidence /\ Ask("validate", About(editorStep))
    /\ UNCHANGED <<codes, editorStep, mounted, scriptResult, problemsOf, previewing, written>>
\* The button is off while a preview runs and over blank code.
AskPreviewOfScript ==
    /\ mounted # NoEvidence /\ ~previewing /\ codes[editorStep] # 0
    /\ Ask("preview", About(editorStep))
    /\ previewing' = TRUE
    /\ UNCHANGED <<codes, editorStep, mounted, scriptResult, problemsOf, written>>
\* The key runs the preview the editor was mounted with.
PreviewByKey ==
    /\ mounted # NoEvidence /\ Ask("preview", mounted)
    /\ previewing' = TRUE
    /\ UNCHANGED <<codes, editorStep, mounted, scriptResult, problemsOf, written>>

\* An answer is shown whatever the editor holds by then.
ScriptAnswered ==
    /\ \E c \in scriptCalls :
          /\ scriptCalls' = scriptCalls \ {c}
          /\ problemsOf' = c.about
          /\ IF c.kind = "preview" THEN scriptResult' = c.about /\ previewing' = FALSE
             ELSE UNCHANGED <<scriptResult, previewing>>
    /\ UNCHANGED <<codes, editorStep, mounted, written, asked>>
ScriptCallFails ==
    /\ \E c \in scriptCalls :
          /\ scriptCalls' = scriptCalls \ {c}
          /\ previewing' = (previewing /\ c.kind # "preview")
    /\ UNCHANGED <<codes, editorStep, mounted, scriptResult, problemsOf, written, asked>>
\* Another step, the editor and what it shows stay.
EditOtherStep ==
    /\ editorStep' = 3 - editorStep
    /\ UNCHANGED <<codes, mounted, scriptCalls, scriptResult, problemsOf, previewing, written, asked>>
\* Another section, and back: a new editor, which the answers to the old one do not reach.
LeaveEditor ==
    /\ mounted' = NoEvidence /\ scriptCalls' = {} /\ scriptResult' = NoEvidence /\ problemsOf' = NoEvidence
    /\ previewing' = FALSE
    /\ UNCHANGED <<codes, editorStep, written, asked>>
ScriptNext ==
    MountEditor \/ ChangeCode \/ AskValidation \/ AskPreviewOfScript \/ PreviewByKey \/ ScriptAnswered
    \/ ScriptCallFails \/ EditOtherStep \/ LeaveEditor
ScriptSpec == ScriptInit /\ [][ScriptNext]_scriptVars
-----------------------------------------------------------------------------
(* What the page shows.                                                    *)

\* The buttons of the editor of a phase, with the draft stored or not.
Toolbar(test, stored, packages) ==
    {"Snippets", "Packages", "Validate", IF test THEN "Run Tests preview" ELSE "Run pre-request only"}
    \cup (IF test THEN {} ELSE {"API mode", "Templates", "Continue on failure"})
    \cup (IF codes[editorStep] = 0 THEN {"Starter"} ELSE {})
    \cup (IF stored THEN {} ELSE {"Save the draft to run a preview"})
RunnableScript(stored) == stored /\ ~previewing /\ codes[editorStep] # 0
\* A row of the package library.
PackageRows(packages) == [p \in 1..packages |-> {"name", "code", "Remove"}]
\* What the editor completes: after an accessor the names of its scope, after the vault
\* the secrets, in a template all that is available now.
Completions(entries, context, scope) ==
    {e \in entries : /\ e.now
                     /\ context = "vault" => e.scope = "secret"
                     /\ context = "accessor" => e.scope = scope}
\* The parts of the evidence, each empty until a preview fills it.
EvidenceTabs == {"logs", "requests", "packages", "variables", "request changes", "tests", "problems"}
Evidence(tab) ==
    IF tab = "problems" THEN problemsOf ELSE scriptResult
VariableChange(masked) == IF masked THEN "MASKED" ELSE "before and after"
DependencyRow(answered, failed) ==
    [mark |-> IF failed THEN "failed" ELSE "ok", status |-> IF answered THEN "HTTP status" ELSE "No response"]
TestMark(skipped, passed) == IF skipped THEN "skipped" ELSE IF passed THEN "passed" ELSE "failed"
-----------------------------------------------------------------------------
ScriptTypeOK ==
    /\ codes \in [1..2 -> 0..MaxCode] /\ editorStep \in 1..2 /\ scriptCalls \subseteq Calls
    /\ previewing \in BOOLEAN /\ written \in 0..MaxCode /\ asked \in 0..MaxCalls
    /\ {mounted, scriptResult, problemsOf} \subseteq ([step : 1..2, code : 0..MaxCode] \cup {NoEvidence})

\* What the preview shows is about the code in the editor, as long as the step at hand
\* is the one it was asked in ("Ctrl/Cmd+Enter to preview").
PreviewOfThisCode ==
    scriptResult # NoEvidence /\ scriptResult.step = editorStep => scriptResult.code = codes[editorStep]
=============================================================================
