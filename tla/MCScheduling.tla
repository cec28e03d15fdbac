---------------------------- MODULE MCScheduling ----------------------------
(* Instances of Scheduling for TLC.                                        *)
EXTENDS Scheduling

AllOps == {"configure", "enable", "disable", "archive", "restore", "delete"}
AllKinds == {"MANUAL", "INTERVAL", "CRON"}
BothPolicies == {"SKIP", "RUN_ONCE"}
OneSecond(r) == TicksPerSecond
NoJitter(r) == 0
=============================================================================
