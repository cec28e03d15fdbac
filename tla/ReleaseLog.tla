----------------------------- MODULE ReleaseLog -----------------------------
(***************************************************************************)
(* What the revisions of a monitor promise to the schedules that execute   *)
(* them, without rows, statuses, locks or requests: a log of releases that *)
(* only grows, and one definition that is worked on, which after a release *)
(* is one that was validated.                                              *)
(***************************************************************************)
EXTENDS Naturals, Sequences

CONSTANTS
    Definitions,   \* of a monitor
    Releasable     \* those the validation accepts

VARIABLES
    log,     \* the releases, the latest last
    next,    \* the definition worked on
    latest   \* which release schedules execute, 0 for none

vars == <<log, next, latest>>

Init == log = <<>> /\ next \in Definitions /\ latest = 0

\* Restoring puts back whatever the monitor once was.
Edit == next' \in Definitions /\ UNCHANGED <<log, latest>>

\* The definition worked on is released as it is; another one takes its place.
Release ==
    /\ log' = Append(log, next) /\ latest' = Len(log')
    /\ next' \in Releasable

Next == Edit \/ Release

Spec == Init /\ [][Next]_vars
=============================================================================
