------------------------------ MODULE MCPages -------------------------------
(***************************************************************************)
(* The pages that follow what runs on the server.  They share no state:    *)
(* each behaviour plays one scene, and what the others are about stands    *)
(* still.                                                                  *)
(***************************************************************************)
EXTENDS SuitePages, RunPages

CONSTANTS a1, a2, b1, old    \* runs

MCRuns == {a1, a2, b1, old}
MCPageOf == [r \in MCRuns |-> IF r = b1 THEN "browser" ELSE "api"]
MCOutcomes ==
    [r \in MCRuns |->
        CASE r = a2 -> {"SUCCESS"}
          [] r = old -> {"CONDITION", "PRE_SCRIPT", "DNS", "TIMEOUT", "EXTRACTOR", "TEST_SCRIPT", "ASSERTION", "CANCELLED"}
          [] OTHER -> {"SUCCESS", "ASSERTION", "CANCELLED"}]

VARIABLE scene

vars == <<scene, suiteVars, runPageVars>>
Scenes == {"builder", "follow", "wizard", "runs"}

\* What is not on the scene is in one of its initial states.
SomePast == CHOOSE run \in PastRuns(old) : TRUE
Init ==
    /\ scene \in Scenes
    /\ scene # "runs" => route = old /\ executed = [r \in Runs |-> IF r = old THEN SomePast ELSE NewRun(r)]
    /\ SuitePagesInit /\ RunPagesInit
Next ==
    /\ UNCHANGED scene
    /\ \/ scene = "builder" /\ BuilderNext /\ UNCHANGED runPageVars
       \/ scene = "follow" /\ FollowNext /\ UNCHANGED runPageVars
       \/ scene = "wizard" /\ WizardNext /\ UNCHANGED runPageVars
       \/ scene = "runs" /\ RunPagesNext /\ UNCHANGED suiteVars
Spec ==
    /\ Init /\ [][Next]_vars
    /\ scene = "follow" => FollowFairness
    /\ scene = "runs" => RunPagesFairness

\* The types of the pages.
TypeOK == scene \in Scenes /\ SuitePagesTypeOK /\ RunPagesTypeOK
=============================================================================
