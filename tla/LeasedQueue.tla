---------------------------- MODULE LeasedQueue ----------------------------
(***************************************************************************)
(* What the durable queue promises of its jobs, without workers, leases,   *)
(* clocks or failures: an abstract specification that the queues of the    *)
(* system are shown to implement.                                          *)
(*                                                                         *)
(* A job is submitted once, is started when the policy of its kind allows  *)
(* it, and comes to exactly one outcome.  Only a replayable job is ever    *)
(* started again.                                                          *)
(***************************************************************************)
EXTENDS Naturals

CONSTANTS
    Jobs,
    Replayable(_),   \* by kind: may be started again after it was lost
    Exclusive(_),    \* by kind: does not start while its group is active
    Skippable(_)     \* by kind: is dropped instead of waiting for its group

VARIABLES
    state,   \* job |-> "NONE", "QUEUED", "LEASED" or an outcome
    kind,    \* job |-> its kind
    group,   \* job |-> what exclusive jobs exclude each other on
    starts   \* job |-> how often it was started

vars == <<state, kind, group, starts>>

Outcomes == {"SUCCEEDED", "FAILED", "CANCELLED"}

\* Jobs may be on the queue already where a component begins.
Init ==
    /\ state \in [Jobs -> {"NONE", "QUEUED"}]
    /\ starts = [j \in Jobs |-> 0]

Move(j, from, to) ==
    /\ state[j] = from
    /\ state' = [state EXCEPT ![j] = to]
    /\ UNCHANGED <<kind, group>>

GroupActive(j) == \E i \in Jobs \ {j} : state[i] = "LEASED" /\ group[i] = group[j]

Submit(j) == Move(j, "NONE", "QUEUED") /\ UNCHANGED starts

Begin(j) ==
    /\ Move(j, "QUEUED", "LEASED")
    /\ Exclusive(kind[j]) => ~GroupActive(j)
    /\ starts' = [starts EXCEPT ![j] = @ + 1]

Finish(j) == \E o \in Outcomes : Move(j, "LEASED", o) /\ UNCHANGED starts

Withdraw(j) == Move(j, "QUEUED", "CANCELLED") /\ UNCHANGED starts

Drop(j) ==
    /\ Exclusive(kind[j]) /\ Skippable(kind[j]) /\ GroupActive(j)
    /\ Move(j, "QUEUED", "SUCCEEDED")
    /\ UNCHANGED starts

Replay(j) == Replayable(kind[j]) /\ Move(j, "LEASED", "QUEUED") /\ UNCHANGED starts

Next ==
    \E j \in Jobs : \/ Submit(j) \/ Begin(j) \/ Finish(j)
                    \/ Withdraw(j) \/ Drop(j) \/ Replay(j)

Spec == Init /\ [][Next]_vars
=============================================================================
