------------------------ MODULE MCDeploymentReport -------------------------
(* An instance of DeploymentReport for TLC.                                *)
EXTENDS DeploymentReport

CONSTANTS api, journey, hosts, logs

KindOf ==
    [c \in Checks |->
        CASE c = api -> "MONITOR" [] c = journey -> "BROWSER_MONITOR"
          [] c = hosts -> "DYNATRACE" [] OTHER -> "ELF"]
=============================================================================
