----------------------------- MODULE Scheduling -----------------------------
(***************************************************************************)
(* Schedules of API monitors: the scheduler of the control role            *)
(* (internal/scheduler) claims due schedules and enqueues their runs,      *)
(* while requests at the front door configure schedules and enable,        *)
(* disable, archive, restore and delete monitors (internal/monitors).      *)
(*                                                                         *)
(* A poll is one transaction.  A request is a sequence of statements       *)
(* without a transaction around them, so requests interleave with polls    *)
(* and with each other, and may be abandoned between two statements.       *)
(*                                                                         *)
(* Time is counted in ticks of the poll interval.  The deduplication key   *)
(* of a scheduled job is the schedule and the second of its due time.      *)
(* Abstracted: time zones and cron expressions (a cron schedule fires at   *)
(* the multiples of CronPeriod), revisions, and the payload of a job.      *)
(***************************************************************************)
EXTENDS Integers, FiniteSets, FiniteSetsExt

CONSTANTS
    Monitors, Clients,
    RowIds,          \* ids of monitor_schedules rows, with their monitor
    Ops,             \* the requests users make
    Kinds,           \* schedule types they configure
    Policies,        \* missed-run policies they configure
    Interval,        \* interval_seconds, in ticks
    CronPeriod,      \* distance of cron times, in ticks
    Jitter(_),       \* deterministicJitter of a schedule id, in ticks
    TicksPerSecond,  \* polls per second
    BatchSize,       \* LIMIT of a poll
    MaxTime,         \* bound: the clock
    MaxRequests,     \* bound: requests, abandoned ones included
    MaxLatency       \* bound: ticks from the lookup of a request to its write

Rows == Monitors \X RowIds
MonitorOf(r) == r[1]

ASSUME ConstantsAssumption ==
    /\ Ops \subseteq {"configure", "enable", "disable", "archive", "restore", "delete", "abandon"}
    /\ Kinds \subseteq {"MANUAL", "INTERVAL", "CRON"}
    /\ Policies \subseteq {"SKIP", "RUN_ONCE"}
    /\ {Interval, CronPeriod, TicksPerSecond, BatchSize} \subseteq Nat \ {0}
    /\ \A r \in Rows : Jitter(r) \in Nat
    /\ \A r \in Rows : {Interval, CronPeriod, Jitter(r)} \subseteq {t \in Nat : t % TicksPerSecond = 0}
    /\ {MaxTime, MaxRequests, MaxLatency} \subseteq Nat

\* next_run_at IS NULL, and the memory of a request that names no row.
Never == -1
NoRow == <<>>

VARIABLES
    now,
    state,     \* monitors.state, and whether the monitor is deleted
    kind,      \* schedule_type, "NONE" where there is no row
    policy,    \* missed_run_policy
    active,    \* the rows with active = TRUE
    next,      \* next_run_at
    updated,   \* updated_at
    keys,      \* deduplication keys of the jobs enqueued so far
    request,   \* what a client's request is doing, and what it has read
    made,      \* requests made so far
    last       \* history: when a row was last enqueued, if no request has
               \* written it since

rowVars == <<kind, policy, active, next, updated>>
vars == <<now, state, rowVars, keys, request, made, last>>

Idle == [pc |-> "idle"]
Enabled(m) == state[m] = "ENABLED"
RowsOf(m) == {r \in Rows : MonitorOf(r) = m /\ kind[r] # "NONE"}
Second(t) == t \div TicksPerSecond

\* Types; a clock value, a stored time or its absence.
TypeOK ==
    /\ now \in 0..MaxTime
    /\ state \in [Monitors -> {"ENABLED", "DISABLED", "ARCHIVED", "DELETED"}]
    /\ kind \in [Rows -> {"NONE", "MANUAL", "INTERVAL", "CRON"}]
    /\ policy \in [Rows -> {"SKIP", "RUN_ONCE"}]
    /\ active \subseteq Rows
    /\ next \in [Rows -> Nat \cup {Never}]
    /\ updated \in [Rows -> Nat \cup {Never}]
    /\ keys \subseteq Rows \X Nat
    /\ \A c \in Clients : request[c].pc \in {"idle", "lookup", "write", "monitor", "schedules"}
    /\ made \in 0..MaxRequests
    /\ last \in [Rows -> Nat \cup {Never}]

Init ==
    /\ now = 0
    /\ state \in [Monitors -> {"ENABLED", "DISABLED"}]
    /\ kind = [r \in Rows |-> "NONE"]
    /\ policy = [r \in Rows |-> "SKIP"]
    /\ active = {}
    /\ next = [r \in Rows |-> Never]
    /\ updated = [r \in Rows |-> Never]
    /\ keys = {}
    /\ request = [c \in Clients |-> Idle]
    /\ made = 0
    /\ last = [r \in Rows |-> Never]

\* A request is not left hanging between its lookup and its write for longer
\* than MaxLatency.
Tick ==
    /\ now < MaxTime
    /\ \A c \in Clients : request[c].pc = "write" => now < request[c].stamp + MaxLatency
    /\ now' = now + 1
    /\ UNCHANGED <<state, rowVars, keys, request, made, last>>

-----------------------------------------------------------------------------
(* The scheduler.                                                          *)

\* Service.next; a cron time is jittered always, an interval only initially.
NextRun(r, k, after, initial) ==
    IF k = "INTERVAL" THEN after + Interval + (IF initial THEN Jitter(r) ELSE 0)
    ELSE (after \div CronPeriod + 1) * CronPeriod + Jitter(r)

Due == {r \in active : next[r] # Never /\ next[r] <= now /\ Enabled(MonitorOf(r))}

Key(r) == <<r, Second(next[r])>>

Overdue(r) == now - next[r] > 1

\* Mutant: the schedule is not moved on.
FollowingUnmoved(r) == next[r]

\* Mutant: the missed-run policy is not looked at.
FollowingAnyPolicy(r) == NextRun(r, kind[r], next[r], FALSE)

\* What a poll makes of next_run_at: SKIP forgets the times it is late for.
Following(r) ==
    IF policy[r] = "SKIP" /\ Overdue(r)
    THEN NextRun(r, kind[r], now, kind[r] = "INTERVAL")
    ELSE NextRun(r, kind[r], next[r], FALSE)

\* Mutant: only full batches are claimed.
IsFullBatch(B) ==
    /\ B \subseteq Due
    /\ Cardinality(B) = BatchSize
    /\ \A b \in B, d \in Due \ B : next[b] <= next[d]

\* The oldest due schedules, up to the limit.
IsBatch(B) ==
    /\ B \subseteq Due
    /\ Cardinality(B) = Min({BatchSize, Cardinality(Due)})
    /\ \A b \in B, d \in Due \ B : next[b] <= next[d]

\* enqueueDue: runs, jobs and outbox rows are inserted and the schedules moved
\* on in one transaction.  A job whose key exists violates the unique index and
\* rolls all of it back.
Poll(B) ==
    /\ B # {} /\ IsBatch(B)
    /\ \A r \in B : Key(r) \notin keys
    /\ keys' = keys \cup {Key(r) : r \in B}
    /\ next' = [r \in Rows |-> IF r \in B THEN Following(r) ELSE next[r]]
    /\ updated' = [r \in Rows |-> IF r \in B THEN now ELSE updated[r]]
    /\ last' = [r \in Rows |-> IF r \in B THEN now ELSE last[r]]
    /\ UNCHANGED <<now, state, kind, policy, active, request, made>>

-----------------------------------------------------------------------------
(* Requests.                                                               *)

Begin(c, op, memory) ==
    /\ request[c] = Idle /\ op \in Ops /\ made < MaxRequests
    /\ made' = made + 1
    /\ request' = [request EXCEPT ![c] = memory]

End(c) == request' = [request EXCEPT ![c] = Idle]

\* Mutant: whether the monitor is enabled is not looked at.
RunsTimedAlways(m, k) == k # "MANUAL"

\* applyRuntimeState: a schedule is active while its monitor is enabled.
RunsTimed(m, k) == Enabled(m) /\ k # "MANUAL"

\* Configure reads whether the monitor is enabled.
ConfigureBegin(c, m, k, p) ==
    /\ state[m] # "DELETED"
    /\ Begin(c, "configure", [pc |-> "lookup", monitor |-> m, kind |-> k, policy |-> p,
                              active |-> RunsTimed(m, k)])
    /\ UNCHANGED <<now, state, rowVars, keys, last>>

\* Ids of the rows that requests are about to insert.
Reserved == {request[c].row : c \in {d \in Clients : request[d].pc = "write"}}

\* It looks the latest row up, or allocates an id, and applyRuntimeState
\* computes the next run from the current time.
ConfigureLookup(c, r) ==
    LET memory == request[c] IN
    /\ memory.pc = "lookup"
    /\ MonitorOf(r) = memory.monitor
    /\ IF RowsOf(memory.monitor) = {}
       THEN kind[r] = "NONE" /\ r \notin Reserved
       ELSE r \in RowsOf(memory.monitor) /\ \A q \in RowsOf(memory.monitor) : updated[q] <= updated[r]
    /\ request' = [request EXCEPT ![c] =
         [pc |-> "write", row |-> r, kind |-> memory.kind, policy |-> memory.policy,
          active |-> memory.active, stamp |-> now,
          next |-> IF memory.active THEN NextRun(r, memory.kind, now, TRUE) ELSE Never]]
    /\ UNCHANGED <<now, state, rowVars, keys, made, last>>

\* It updates or inserts the row; a second active row of a monitor violates
\* the unique index, and the request fails.
ConfigureWrite(c) ==
    LET memory == request[c]
        r == memory.row
        others == active \ {r}
    IN
    /\ memory.pc = "write"
    /\ End(c)
    /\ IF memory.active /\ \E q \in others : MonitorOf(q) = MonitorOf(r)
       THEN UNCHANGED <<rowVars, last>>
       ELSE /\ kind' = [kind EXCEPT ![r] = memory.kind]
            /\ policy' = [policy EXCEPT ![r] = memory.policy]
            /\ active' = IF memory.active THEN others \cup {r} ELSE others
            /\ next' = [next EXCEPT ![r] = memory.next]
            /\ updated' = [updated EXCEPT ![r] = memory.stamp]
            /\ last' = [last EXCEPT ![r] = Never]
    /\ UNCHANGED <<now, state, keys, made>>

\* Mutant: a restored monitor becomes a draft although it was published.
TargetOfUnpublished(op) == CASE op = "enable" -> "ENABLED"
                             [] op = "archive" -> "ARCHIVED"
                             [] op = "restore" -> "DRAFT"
                             [] OTHER -> "DISABLED"

\* The state a request sets; the monitor was published before.
Target(op) == CASE op = "enable" -> "ENABLED"
                [] op = "archive" -> "ARCHIVED"
                [] OTHER -> "DISABLED"

\* Enable, Disable, Archive and Restore check the state they read ...
ChangeBegin(c, m, op) ==
    /\ op \in {"enable", "disable", "archive", "restore"}
    /\ op \in {"enable", "disable"} => state[m] \notin {"ARCHIVED", "DELETED"}
    /\ op = "restore" => state[m] = "ARCHIVED"
    /\ Begin(c, op, [pc |-> "monitor", monitor |-> m, state |-> Target(op), stamp |-> now])
    /\ UNCHANGED <<now, state, rowVars, keys, last>>

\* ... and SetState overwrites it, unless the monitor was deleted ...
ChangeMonitor(c) ==
    LET memory == request[c]
        found == state[memory.monitor] # "DELETED"
    IN
    /\ memory.pc = "monitor"
    /\ IF found
       THEN /\ state' = [state EXCEPT ![memory.monitor] = memory.state]
            /\ request' = [request EXCEPT ![c].pc = "schedules"]
       ELSE End(c) /\ UNCHANGED state
    /\ UNCHANGED <<now, rowVars, keys, made, last>>

\* ... and then switches the monitor's schedules.  Enabling makes every
\* schedule that is not manual due at once; two of them would be two active
\* rows, and the statement fails.
ChangeSchedules(c) ==
    LET memory == request[c]
        rows == RowsOf(memory.monitor)
        timed == {r \in rows : kind[r] # "MANUAL"}
        on == memory.state = "ENABLED"
        written == IF on THEN rows ELSE rows \cap active
    IN
    /\ memory.pc = "schedules"
    /\ End(c)
    /\ IF on /\ Cardinality(timed) > 1
       THEN UNCHANGED <<active, next, updated, last>>
       ELSE /\ active' = IF on THEN (active \ rows) \cup timed ELSE active \ rows
            /\ next' = [r \in Rows |-> IF on /\ r \in rows
                                       THEN (IF r \in timed THEN now ELSE Never) ELSE next[r]]
            /\ updated' = [r \in Rows |-> IF r \in written THEN memory.stamp ELSE updated[r]]
            /\ last' = [r \in Rows |-> IF r \in written THEN Never ELSE last[r]]
    /\ UNCHANGED <<now, state, kind, policy, keys, made>>

\* SoftDelete: one statement, which leaves the schedules alone.
Delete(m) ==
    /\ "delete" \in Ops /\ made < MaxRequests
    /\ state[m] # "DELETED"
    /\ state' = [state EXCEPT ![m] = "DELETED"]
    /\ made' = made + 1
    /\ UNCHANGED <<now, rowVars, keys, request, last>>

\* The connection is closed or a statement fails: the rest is not done.
Abandon(c) ==
    /\ "abandon" \in Ops /\ request[c] # Idle /\ made < MaxRequests
    /\ made' = made + 1
    /\ End(c)
    /\ UNCHANGED <<now, state, rowVars, keys, last>>

-----------------------------------------------------------------------------

RequestStep(c) ==
    \/ \E m \in Monitors, k \in Kinds, p \in Policies : ConfigureBegin(c, m, k, p)
    \/ \E r \in Rows : ConfigureLookup(c, r)
    \/ ConfigureWrite(c)
    \/ \E m \in Monitors, op \in Ops : ChangeBegin(c, m, op)
    \/ ChangeMonitor(c) \/ ChangeSchedules(c) \/ Abandon(c)

PollSome == \E B \in SUBSET Due : Poll(B)

Next ==
    \/ Tick \/ PollSome
    \/ \E m \in Monitors : Delete(m)
    \/ \E c \in Clients : RequestStep(c)

Spec == Init /\ [][Next]_vars

\* The poller's ticker ticks on, and a request that was begun is carried out;
\* nobody has to make one.
Continue(c) == (\E r \in Rows : ConfigureLookup(c, r)) \/ ConfigureWrite(c)
               \/ ChangeMonitor(c) \/ ChangeSchedules(c)

Fairness == WF_vars(Tick) /\ WF_vars(PollSome) /\ \A c \in Clients : WF_vars(Continue(c))

FairSpec == Spec /\ Fairness

-----------------------------------------------------------------------------
(* Properties.                                                             *)

\* "An enabled monitor schedules its published revision": between requests, a
\* monitor's timed schedules are active exactly while it is enabled, and an
\* active schedule has a next run.
ScheduleFollowsMonitor ==
    (\A c \in Clients : request[c] = Idle) =>
        \A m \in Monitors : state[m] # "DELETED" =>
            \A r \in RowsOf(m) :
                /\ r \in active <=> Enabled(m) /\ kind[r] # "MANUAL"
                /\ r \in active => next[r] # Never

\* Between two runs of an interval schedule that skips missed times lies an
\* interval, less the one poll a run may be late by: an outage is followed by
\* one run and not by a burst.
SkippingKeepsInterval ==
    [][\A r \in Rows :
         (/\ Key(r) \in keys' \ keys /\ next'[r] # next[r]
          /\ kind[r] = "INTERVAL" /\ policy[r] = "SKIP" /\ last[r] # Never)
         => now - last[r] >= Interval - 1]_vars

\* "Idempotent due-job claims": the run of a due schedule was not enqueued
\* before, so the transaction of the poll that claims it commits.
DueClaimable == \A r \in Due : Key(r) \notin keys

\* A schedule that is due gets its run enqueued, or stops being due because
\* somebody changed it.
DueRuns == \A r \in Rows : r \in Due ~> r \notin Due

\* "Restore the monitor before enabling": an archived monitor becomes enabled
\* only after it was restored.
ArchivedNotEnabled ==
    [][\A m \in Monitors : state[m] = "ARCHIVED" => state'[m] # "ENABLED"]_vars
=============================================================================
