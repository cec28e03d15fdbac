-------------------------- MODULE WorkflowVariables --------------------------
(***************************************************************************)
(* The variables of a workflow, as a run of it gives them values           *)
(* (internal/runs: executor.go, service.go), and as the workbench offers   *)
(* them to the author of a step (features/monitors/variable-catalog.ts).   *)
(*                                                                         *)
(* One variable is followed.  A run keeps it at several places: under its  *)
(* bare name, under a scope, and under the outputs of a step; the places   *)
(* of the service and the application are read last and written like the   *)
(* globals, and are left out.  A value is a number: 0 is none, 1 the one   *)
(* of the environment profile, i + 1 the one step i gave.  A step has its  *)
(* position for its id: nothing moves while a run of the workflow goes on, *)
(* or while the catalog is made.                                           *)
(***************************************************************************)
EXTENDS Naturals, Sequences, FiniteSets, SequencesExt

Scopes == {"variables", "environment", "collection", "globals"}

CONSTANTS
    MaxSteps,       \* bound on the steps of a workflow
    ScriptScopes    \* bound: the scopes its scripts set the variable in

ASSUME WorkflowAssumption == MaxSteps \in Nat \ {0} /\ ScriptScopes \subseteq Scopes

OutputsOf(i) == ToString(i)    \* the outputs of step i
Outputs == {OutputsOf(i) : i \in 1..MaxSteps}
Places == Scopes \cup {"bare"} \cup Outputs
Given(i) == i + 1              \* the value step i gives

\* What a step does about the variable: a controlled action of an ACTION step, a
\* pre-request action, a script that sets it in a scope, an extractor of the response.
\* An extractor that is switched off and an action that unsets the variable name it too,
\* and give it nothing. A step is sure to run, or it is disabled or has a condition and
\* may run or not; a script that skips the request of its step, or goes on with another
\* step, is left out.
Scripts == {"pre-request script", "tests script"}
Extractors == {"extractor", "secret extractor"}
Giving == {"step action", "action"} \cup Extractors
NamedOnly == {"extractor off", "step unset", "unset"}
Producers ==
    [by : {"none"} \cup Giving \cup NamedOnly, scope : {"variables"}, sure : BOOLEAN]
    \cup [by : Scripts, scope : ScriptScopes, sure : BOOLEAN]
Workflows ==
    [steps : Seq(Producers), profile : BOOLEAN, sensitive : BOOLEAN]
-----------------------------------------------------------------------------
(* A run of the steps.                                                     *)

Put(values, places, new) == [p \in Places |-> IF p \in places THEN new ELSE values[p]]
\* What the environment profile provides.
FromProfile(profile) == [p \in Places |-> IF profile /\ p \in {"bare", "environment"} THEN 1 ELSE 0]

\* The value at the first of some places that has one.
FirstValue(places, values) ==
    IF \E i \in DOMAIN places : values[places[i]] # 0
    THEN values[places[CHOOSE i \in DOMAIN places :
                          values[places[i]] # 0 /\ \A j \in 1..(i - 1) : values[places[j]] = 0]]
    ELSE 0
\* The value of {{name}}.
Resolution == <<"variables", "bare", "environment", "collection", "globals">>
Resolve(values) == FirstValue(Resolution, values)

\* The variables a script is given hold the scoped and the bare value under one
\* name; when both are there, the order of a map decides which is left.
Seen(values) ==
    LET held == {values["variables"], values["bare"]} \ {0}
    IN IF held = {} THEN {0} ELSE held

\* A script sets the variable in a scope, and all it was given is written back:
\* variables, then environment, then collection, each also under the bare name.
AfterScript(values, scope, new) ==
    {LET held == [Put(values, {"variables"}, seen) EXCEPT ![scope] = new]
         last == FirstValue(<<"collection", "environment", "variables">>, held)
     IN IF last = 0 THEN held ELSE Put(held, {"bare"}, last)
     : seen \in Seen(values)}

\* The request is rendered from a copy taken before the script ran, in which only
\* the bare name follows what the script left among the variables.
RenderedAfter(before, after) ==
    IF after["variables"] = 0 THEN before ELSE Put(before, {"bare"}, after["variables"])

\* Mutant: a variable keeps its first value, what a later extractor finds is kept under
\* the outputs of its step alone.
AfterResponseFirst(values, step, i) ==
    IF step.by # "extractor" THEN values
    ELSE Put(values, IF values["variables"] = 0 THEN {"variables", "bare", OutputsOf(i)} ELSE {OutputsOf(i)}, Given(i))
\* After the step: what an open extractor found is kept ...
AfterResponse(values, step, i) ==
    IF step.by = "extractor" THEN Put(values, {"variables", "bare", OutputsOf(i)}, Given(i)) ELSE values
\* ... and then the private values, in any order: those the request was rendered from
\* under a sensitive name, and what a secret extractor found.
AfterPrivate(values, rendered, step, i, sensitive) ==
    LET private(p) ==
            IF p = "bare" /\ step.by = "secret extractor" THEN Given(i)
            ELSE IF sensitive THEN rendered[p] ELSE 0
        bare == private("bare")
        kept == [p \in Places |->
                    IF p \in {"bare", OutputsOf(i)} /\ bare # 0 THEN bare
                    ELSE IF p \notin {"variables", "bare"} /\ private(p) # 0 THEN private(p) ELSE values[p]]
        last == {bare, private("variables")} \ {0}
    IN IF last = {} THEN {kept} ELSE {Put(kept, {"variables"}, w) : w \in last}

\* A pre-request action gives the variable a value in the run ...
AfterAction(values, step, new) ==
    IF step.by = "action" THEN Put(values, {"variables", "bare"}, new) ELSE values
\* ... and, in the copy the request is rendered from, under the bare name: a scoped
\* value that was there before stays.
CopiedForRequest(values, step, new) ==
    IF step.by # "action" THEN values
    ELSE IF values["variables"] = 0 THEN Put(values, {"variables", "bare"}, new) ELSE Put(values, {"bare"}, new)

\* Before the response: what the request of a step is rendered from, and what the run
\* then holds.
Requested(values, step, i) ==
    LET copy == CopiedForRequest(values, step, Given(i))
        acted == AfterAction(values, step, Given(i))
    IN  IF step.by # "pre-request script" THEN {[rendered |-> copy, values |-> acted]}
        ELSE {[rendered |-> RenderedAfter(copy, s), values |-> s] : s \in AfterScript(acted, step.scope, Given(i))}
\* The tests see what the request left.
AfterTests(values, step, i) == IF step.by = "tests script" THEN AfterScript(values, step.scope, Given(i)) ELSE {values}
\* What the extractors and the private values then leave.
Left(rendered, tested, step, i, sensitive) ==
    {[rendered |-> rendered, values |-> kept] :
        kept \in AfterPrivate(AfterResponse(tested, step, i), rendered, step, i, sensitive)}

\* A step that runs: what its request is rendered from, and what it leaves. An ACTION
\* step takes nothing away from the run: it unsets the variable in a copy.
Step(values, step, i, sensitive) ==
    IF step.by = "step unset" THEN {[rendered |-> values, values |-> values]}
    ELSE IF step.by = "step action"
    THEN {[rendered |-> values, values |-> Put(values, {"variables", "bare", OutputsOf(i)}, Given(i))]}
    ELSE UNION {UNION {Left(r.rendered, t, step, i, sensitive) : t \in AfterTests(r.values, step, i)}
                   : r \in Requested(values, step, i)}

\* All that step i can leave of what it may find, and so the first steps of a workflow.
\* A step that does not run leaves what it finds.
LeftBy(w, i, found) ==
    (IF w.steps[i].sure THEN {} ELSE found)
    \cup UNION {{o.values : o \in Step(v, w.steps[i], i, w.sensitive)} : v \in found}
ValuesAfter(w) ==
    LET reached[i \in 0..Len(w.steps)] ==
            IF i = 0 THEN {FromProfile(w.profile)} ELSE LeftBy(w, i, reached[i - 1])
    IN  reached
\* All that the request of step k can be rendered from.
RequestsOf(w, k) ==
    UNION {{o.rendered : o \in Step(v, w.steps[k], k, w.sensitive)} : v \in ValuesAfter(w)[k - 1]}
-----------------------------------------------------------------------------
(* The catalog of the workbench at a step.                                 *)

\* The variables the code of a script is seen to set.
DiscoveredScope(step) == IF step.by \in Scripts THEN {step.scope} ELSE {}
\* The places an entry of a step is inserted as. Neither the switch of an extractor, nor
\* the type of an action, nor whether the step runs is looked at.
EntriesOf(step, i) ==
    CASE step.by = "none" -> {}
      [] step.by \in {"step action", "action", "step unset", "unset"} -> {"variables"}
      [] step.by = "pre-request script" -> DiscoveredScope(step)
      [] step.by = "tests script" -> DiscoveredScope(step) \cup {OutputsOf(i)}
      [] OTHER -> {"variables", OutputsOf(i)}
Entries(w, i) == EntriesOf(w.steps[i], i)
\* Mutant: what a step makes of its response is offered in the step itself.
NowAndHere(w, at) ==
    (IF w.profile THEN {"environment"} ELSE {})
    \cup (UNION {Entries(w, i) : i \in 1..at})
\* What is offered as available: from the profile, from the earlier steps, and what
\* the step at hand makes before its request.
AvailableNow(w, at) ==
    (IF w.profile THEN {"environment"} ELSE {})
    \cup (UNION {Entries(w, i) : i \in 1..(at - 1)})
    \cup (IF w.steps[at].by \in {"action", "unset", "pre-request script"} THEN Entries(w, at) ELSE {})
AvailableLater(w, at) == (UNION {Entries(w, i) : i \in at..Len(w.steps)}) \ AvailableNow(w, at)
\* Of the entries of one name, the one of the first scope is marked as the winner.
Precedence == <<"variables", "environment", "collection", "globals">>
Shadowed(w, at) ==
    LET now == SelectSeq(Precedence, LAMBDA p : p \in AvailableNow(w, at))
    IN IF now = <<>> THEN {} ELSE (AvailableNow(w, at) \cap Scopes) \ {Head(now)}
\* A row of the picker, and of the sheet, which inserts nothing.
CatalogRow(w, at, place, inserts) ==
    [scope |-> IF place \in Outputs THEN "step" ELSE place,
     masked |-> w.sensitive,
     shadowed |-> place \in Shadowed(w, at),
     note |-> IF place \in AvailableLater(w, at) THEN "Available after the step" ELSE "Resolved at runtime",
     insert |-> inserts /\ place \notin AvailableLater(w, at)]
SheetCount(w, at) == Cardinality(AvailableNow(w, at))
-----------------------------------------------------------------------------
\* A step that is sure to give the variable a value.
Sure(step) == step.by \in Giving /\ step.sure
\* The values that may be the last one given before step k: that of a step no later one
\* is sure to replace, and the one of the profile where no step is sure.
LastGiven(w, k) ==
    {Given(i) : i \in {i \in 1..(k - 1) : w.steps[i].by \in Giving /\ \A j \in (i + 1)..(k - 1) : ~Sure(w.steps[j])}}
    \cup (IF \E j \in 1..(k - 1) : Sure(w.steps[j]) THEN {} ELSE {IF w.profile THEN 1 ELSE 0})
NoScripts(w) == \A i \in DOMAIN w.steps : w.steps[i].by \notin Scripts
=============================================================================
