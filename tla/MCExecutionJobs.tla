-------------------------- MODULE MCExecutionJobs --------------------------
(* Instances of ExecutionJobs for TLC.                                     *)
EXTENDS ExecutionJobs, TLC

Scheduled(policy) ==
    [class |-> "scheduled", policy |-> policy, recovery |-> "abort", revision |-> "published"]
Manual(recovery, revision) ==
    [class |-> "manual", policy |-> "ALLOW", recovery |-> recovery, revision |-> revision]

\* Everything that contends for a monitor.
ContendingKinds == {Scheduled("SKIP_IF_RUNNING"), Scheduled("QUEUE"), Manual("abort", "published")}
\* One replayable and one non-replayable kind, and the draft.
RecoveryKinds == {Manual("replay", "published"), Manual("abort", "published"), Manual("replay", "draft")}
SafeOnly == {Manual("replay", "published")}
UnsafeOnly == {Manual("abort", "published")}
\* One kind that waits for its monitor and one that is replayed.
WaitingKinds == {Scheduled("QUEUE"), Manual("replay", "published")}

Symmetry == Permutations(Jobs) \cup Permutations(Workers) \cup Permutations(Slots)
=============================================================================
