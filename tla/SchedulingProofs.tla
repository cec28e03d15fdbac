--------------------------- MODULE SchedulingProofs ---------------------------
(***************************************************************************)
(* What schedules guarantee for any number of monitors, rows, clients and  *)
(* polls, any interval, jitter and batch size.                             *)
(***************************************************************************)
EXTENDS Scheduling, FiniteSetTheorems, TLAPS

(***************************************************************************)
(* Operators.                                                              *)
(***************************************************************************)
\* A later time has no earlier second, and a later one a second later.
LEMMA SecondsOrdered ==
    ASSUME NEW a \in Nat, NEW b \in Nat, a <= b
    PROVE  Second(a) \in Nat /\ Second(b) \in Nat /\ Second(a) <= Second(b)
<1>1. TicksPerSecond \in Nat \ {0}
  BY ConstantsAssumption
<1>2. QED
  BY <1>1 DEF Second

LEMMA SecondsGrow ==
    ASSUME NEW a \in Nat, NEW b \in Nat, a + TicksPerSecond <= b
    PROVE  Second(a) \in Nat /\ Second(b) \in Nat /\ Second(a) < Second(b)
<1>1. TicksPerSecond \in Nat \ {0}
  BY ConstantsAssumption
<1>2. QED
  BY <1>1 DEF Second

LEMMA NextRunLater ==
    ASSUME NEW r \in Rows, NEW k, NEW after \in Nat, NEW initial \in BOOLEAN
    PROVE  /\ NextRun(r, k, after, initial) \in Nat
           /\ NextRun(r, k, after, initial) # Never
           /\ k = "INTERVAL" => NextRun(r, k, after, initial) >= after + Interval
<1>1. Interval \in Nat /\ CronPeriod \in Nat \ {0} /\ Jitter(r) \in Nat
  BY ConstantsAssumption
<1>2. (after \div CronPeriod + 1) * CronPeriod \in Nat
  BY <1>1
<1>3. QED
  BY <1>1, <1>2 DEF NextRun, Never

\* What a poll makes of the time of a due schedule.  An interval schedule is
\* moved on by an interval at least; one that skips, from now on but for the
\* one tick a claim may be late by.
LEMMA FollowingLater ==
    ASSUME TypeOK, NEW r \in Due
    PROVE  /\ next[r] \in Nat /\ next[r] <= now /\ now \in Nat
           /\ Following(r) \in Nat
           /\ kind[r] = "INTERVAL" =>
                /\ Following(r) >= next[r] + Interval
                /\ policy[r] = "SKIP" => Following(r) >= now + Interval - 1
<1>1. r \in Rows /\ next[r] \in Nat /\ next[r] <= now /\ now \in Nat /\ Interval \in Nat
  BY ConstantsAssumption DEF Due, TypeOK
<1> DEFINE skipping == NextRun(r, kind[r], now, kind[r] = "INTERVAL")
           following == NextRun(r, kind[r], next[r], FALSE)
<1>2. /\ skipping \in Nat /\ following \in Nat
      /\ kind[r] = "INTERVAL" => skipping >= now + Interval /\ following >= next[r] + Interval
  BY <1>1, NextRunLater
<1>3. Following(r) = IF policy[r] = "SKIP" /\ Overdue(r) THEN skipping ELSE following
  BY DEF Following
<1>4. ~Overdue(r) => next[r] >= now - 1
  BY <1>1 DEF Overdue
<1> HIDE DEF skipping, following
<1>5. QED
  BY <1>1, <1>2, <1>3, <1>4

----------------------------------------------------------------------------
(***************************************************************************)
(* Types, those of the requests' memory included.                          *)
(***************************************************************************)
States == {"ENABLED", "DISABLED", "ARCHIVED", "DELETED"}
Lookup == [pc : {"lookup"}, monitor : Monitors, kind : Kinds, policy : Policies, active : BOOLEAN]
Write == [pc : {"write"}, row : Rows, kind : Kinds, policy : Policies, active : BOOLEAN, stamp : Nat,
          next : Nat \cup {Never}]
Change == [pc : {"monitor", "schedules"}, monitor : Monitors, state : {"ENABLED", "DISABLED", "ARCHIVED"},
           stamp : Nat]
RequestsOK == request \in [Clients -> {Idle} \cup Lookup \cup Write \cup Change]
Typed == TypeOK /\ RequestsOK

\* What a client is doing tells what it remembers.
LEMMA Memory ==
    ASSUME Typed, NEW c \in Clients
    PROVE  /\ request[c].pc = "lookup" => request[c] \in Lookup
           /\ request[c].pc = "write" => request[c] \in Write
           /\ request[c].pc \in {"monitor", "schedules"} => request[c] \in Change
           /\ request[c] = Idle <=> request[c].pc = "idle"
BY DEF Typed, RequestsOK, Idle, Lookup, Write, Change

LEMMA TypedInit == ASSUME Init PROVE Typed
BY ConstantsAssumption DEF Init, Typed, TypeOK, RequestsOK, Idle

LEMMA RequestTyped ==
    ASSUME Typed, NEW c \in Clients, NEW memory \in {Idle} \cup Lookup \cup Write \cup Change,
           request' = [request EXCEPT ![c] = memory]
    PROVE  RequestsOK' /\ \A d \in Clients : request'[d].pc \in {"idle", "lookup", "write", "monitor", "schedules"}
<1>1. RequestsOK'
  BY DEF Typed, RequestsOK
<1>2. \A x \in {Idle} \cup Lookup \cup Write \cup Change : x.pc \in {"idle", "lookup", "write", "monitor", "schedules"}
  BY DEF Idle, Lookup, Write, Change
<1>3. QED
  BY <1>1, <1>2 DEF RequestsOK

LEMMA Counted == ASSUME Typed, made < MaxRequests PROVE made + 1 \in 0..MaxRequests
BY ConstantsAssumption DEF Typed, TypeOK

LEMMA PollTyped == ASSUME Typed, NEW B, Poll(B) PROVE Typed'
<1>1. B \subseteq Due /\ \A r \in B : r \in Rows
  BY DEF Poll, IsBatch, Due, Typed, TypeOK
<1>2. \A r \in B : Following(r) \in Nat /\ next[r] \in Nat /\ now \in Nat
  BY <1>1, FollowingLater DEF Typed
<1>3. \A r \in B : Key(r) \in Rows \X Nat
  BY <1>1, <1>2, SecondsOrdered DEF Key
<1>4. next' \in [Rows -> Nat \cup {Never}] /\ updated' \in [Rows -> Nat \cup {Never}]
      /\ last' \in [Rows -> Nat \cup {Never}]
  BY <1>2 DEF Poll, Typed, TypeOK
<1>5. keys' \subseteq Rows \X Nat
  BY <1>3 DEF Poll, Typed, TypeOK
<1>6. QED
  BY <1>4, <1>5 DEF Poll, Typed, TypeOK, RequestsOK

LEMMA ConfigureBeginTyped ==
    ASSUME Typed, NEW c \in Clients, NEW m \in Monitors, NEW k \in Kinds, NEW p \in Policies,
           ConfigureBegin(c, m, k, p)
    PROVE  Typed'
<1> DEFINE memory == [pc |-> "lookup", monitor |-> m, kind |-> k, policy |-> p, active |-> RunsTimed(m, k)]
<1>1. memory \in Lookup
  BY DEF Lookup, RunsTimed, Enabled
<1>2. request' = [request EXCEPT ![c] = memory]
  BY DEF ConfigureBegin, Begin
<1> HIDE DEF memory
<1>3. RequestsOK' /\ \A d \in Clients : request'[d].pc \in {"idle", "lookup", "write", "monitor", "schedules"}
  BY <1>1, <1>2, RequestTyped
<1>4. made' \in 0..MaxRequests
  BY Counted DEF ConfigureBegin, Begin
<1>5. QED
  BY <1>3, <1>4 DEF ConfigureBegin, rowVars, Typed, TypeOK

\* What a configuration that looked row r up is about to write.
Configured(c, r) ==
    [pc |-> "write", row |-> r, kind |-> request[c].kind, policy |-> request[c].policy,
     active |-> request[c].active, stamp |-> now,
     next |-> IF request[c].active THEN NextRun(r, request[c].kind, now, TRUE) ELSE Never]

LEMMA ConfigureLookupTyped ==
    ASSUME Typed, NEW c \in Clients, NEW r \in Rows, ConfigureLookup(c, r)
    PROVE  Typed' /\ Configured(c, r) \in Write /\ request' = [request EXCEPT ![c] = Configured(c, r)]
<1>1. request[c] \in Lookup
  BY Memory DEF ConfigureLookup
<1>2. now \in Nat
  BY DEF Typed, TypeOK
<1>3. NextRun(r, request[c].kind, now, TRUE) \in Nat
  BY <1>2, NextRunLater
<1>4. Configured(c, r) \in Write
  BY <1>1, <1>2, <1>3 DEF Configured, Write, Lookup
<1>5. request' = [request EXCEPT ![c] = Configured(c, r)]
  BY DEF ConfigureLookup, Configured
<1>6. RequestsOK' /\ \A d \in Clients : request'[d].pc \in {"idle", "lookup", "write", "monitor", "schedules"}
  BY <1>4, <1>5, RequestTyped
<1>7. Typed'
  BY <1>6 DEF ConfigureLookup, rowVars, Typed, TypeOK
<1>8. QED
  BY <1>4, <1>5, <1>7

LEMMA ConfigureWriteTyped ==
    ASSUME Typed, NEW c \in Clients, ConfigureWrite(c)
    PROVE  Typed'
<1>1. request[c] \in Write
  BY Memory DEF ConfigureWrite
<1>2. RequestsOK' /\ \A d \in Clients : request'[d].pc \in {"idle", "lookup", "write", "monitor", "schedules"}
  BY RequestTyped DEF ConfigureWrite, End
<1>3. /\ kind' \in [Rows -> {"NONE", "MANUAL", "INTERVAL", "CRON"}]
      /\ policy' \in [Rows -> {"SKIP", "RUN_ONCE"}]
      /\ active' \subseteq Rows
      /\ next' \in [Rows -> Nat \cup {Never}]
      /\ updated' \in [Rows -> Nat \cup {Never}]
      /\ last' \in [Rows -> Nat \cup {Never}]
  <2> DEFINE q == request[c].row
  <2>1. /\ q \in Rows /\ request[c].kind \in {"MANUAL", "INTERVAL", "CRON"}
        /\ request[c].policy \in {"SKIP", "RUN_ONCE"} /\ request[c].next \in Nat \cup {Never}
        /\ request[c].stamp \in Nat
    BY <1>1, ConstantsAssumption DEF Write
  <2> HIDE DEF q
  <2>2. CASE UNCHANGED <<rowVars, last>>
    BY <2>2 DEF rowVars, Typed, TypeOK
  <2>3. CASE ~ UNCHANGED <<rowVars, last>>
    <3>1. /\ kind' = [kind EXCEPT ![q] = request[c].kind] /\ policy' = [policy EXCEPT ![q] = request[c].policy]
          /\ active' \subseteq active \cup {q}
          /\ next' = [next EXCEPT ![q] = request[c].next] /\ updated' = [updated EXCEPT ![q] = request[c].stamp]
          /\ last' = [last EXCEPT ![q] = Never]
      BY <2>3 DEF ConfigureWrite, q
    <3>2. QED
      BY <2>1, <3>1 DEF Typed, TypeOK
  <2>4. QED
    BY <2>2, <2>3
<1>4. QED
  BY <1>2, <1>3 DEF ConfigureWrite, Typed, TypeOK

LEMMA ChangeTyped ==
    ASSUME Typed, NEW c \in Clients,
           \/ \E m \in Monitors, op \in Ops : ChangeBegin(c, m, op)
           \/ ChangeMonitor(c) \/ ChangeSchedules(c) \/ Abandon(c)
    PROVE  Typed'
<1>1. ASSUME NEW m \in Monitors, NEW op \in Ops, ChangeBegin(c, m, op) PROVE Typed'
  <2> DEFINE memory == [pc |-> "monitor", monitor |-> m, state |-> Target(op), stamp |-> now]
  <2>1. memory \in Change
    BY DEF Change, Target, Typed, TypeOK
  <2>2. request' = [request EXCEPT ![c] = memory]
    BY <1>1 DEF ChangeBegin, Begin
  <2> HIDE DEF memory
  <2>3. RequestsOK' /\ \A d \in Clients : request'[d].pc \in {"idle", "lookup", "write", "monitor", "schedules"}
    BY <2>1, <2>2, RequestTyped
  <2>4. made' \in 0..MaxRequests
    BY <1>1, Counted DEF ChangeBegin, Begin
  <2>5. QED
    BY <1>1, <2>3, <2>4 DEF ChangeBegin, rowVars, Typed, TypeOK
<1>2. CASE ChangeMonitor(c)
  <2>1. request[c] \in Change
    BY <1>2, Memory DEF ChangeMonitor
  <2>2. PICK memory \in {Idle} \cup Change : request' = [request EXCEPT ![c] = memory]
    <3>1. [request[c] EXCEPT !.pc = "schedules"] \in Change
      BY <2>1 DEF Change
    <3>2. request' = [request EXCEPT ![c] = Idle]
          \/ request' = [request EXCEPT ![c] = [request[c] EXCEPT !.pc = "schedules"]]
      BY <1>2 DEF ChangeMonitor, End
    <3>3. QED
      BY <3>1, <3>2
  <2>3. RequestsOK' /\ \A d \in Clients : request'[d].pc \in {"idle", "lookup", "write", "monitor", "schedules"}
    BY <2>2, RequestTyped
  <2>4. state' \in [Monitors -> States]
    BY <1>2, <2>1 DEF ChangeMonitor, Change, Typed, TypeOK, States
  <2>5. QED
    BY <1>2, <2>3, <2>4 DEF ChangeMonitor, rowVars, Typed, TypeOK, States
<1>3. CASE ChangeSchedules(c)
  <2>1. request[c] \in Change
    BY <1>3, Memory DEF ChangeSchedules
  <2>2. RequestsOK' /\ \A d \in Clients : request'[d].pc \in {"idle", "lookup", "write", "monitor", "schedules"}
    BY <1>3, RequestTyped DEF ChangeSchedules, End
  <2>3. active' \subseteq Rows
    BY <1>3 DEF ChangeSchedules, RowsOf, Typed, TypeOK
  <2>4. now \in Nat /\ request[c].stamp \in Nat
    BY <2>1 DEF Change, Typed, TypeOK
  <2>5. next' \in [Rows -> Nat \cup {Never}]
    BY <1>3, <2>4 DEF ChangeSchedules, Typed, TypeOK
  <2>6. updated' \in [Rows -> Nat \cup {Never}] /\ last' \in [Rows -> Nat \cup {Never}]
    BY <1>3, <2>4 DEF ChangeSchedules, Typed, TypeOK
  <2>7. QED
    BY <1>3, <2>2, <2>3, <2>5, <2>6 DEF ChangeSchedules, Typed, TypeOK
<1>4. CASE Abandon(c)
  <2>1. RequestsOK' /\ \A d \in Clients : request'[d].pc \in {"idle", "lookup", "write", "monitor", "schedules"}
    BY <1>4, RequestTyped DEF Abandon, End
  <2>2. made' \in 0..MaxRequests
    BY <1>4, Counted DEF Abandon
  <2>3. QED
    BY <1>4, <2>1, <2>2 DEF Abandon, rowVars, Typed, TypeOK
<1>5. QED
  BY <1>1, <1>2, <1>3, <1>4

LEMMA TypedStep == ASSUME Typed, [Next]_vars PROVE Typed'
<1>1. CASE UNCHANGED vars
  BY <1>1 DEF vars, rowVars, Typed, TypeOK, RequestsOK
<1>2. CASE Tick
  BY <1>2, ConstantsAssumption DEF Tick, rowVars, Typed, TypeOK, RequestsOK
<1>3. CASE PollSome
  BY <1>3, PollTyped DEF PollSome
<1>4. ASSUME NEW m \in Monitors, Delete(m) PROVE Typed'
  <2>1. made' \in 0..MaxRequests
    BY <1>4, Counted DEF Delete
  <2>2. QED
    BY <1>4, <2>1 DEF Delete, rowVars, Typed, TypeOK, RequestsOK
<1>5. ASSUME NEW c \in Clients, RequestStep(c) PROVE Typed'
  BY <1>5, ConfigureBeginTyped, ConfigureLookupTyped, ConfigureWriteTyped, ChangeTyped DEF RequestStep
<1>6. QED
  BY <1>1, <1>2, <1>3, <1>4, <1>5 DEF Next

\* Types of the clock, the tables and what the requests remember.
THEOREM TypeCorrectness == Spec => []Typed
BY TypedInit, TypedStep, PTL DEF Spec

----------------------------------------------------------------------------
(***************************************************************************)
(* The interval between two runs.                                          *)
(***************************************************************************)
\* Since it was enqueued, a schedule that skips was not moved on by less than
\* an interval.
MovedOn ==
    \A r \in Rows : last[r] # Never /\ kind[r] = "INTERVAL" /\ policy[r] = "SKIP"
        => next[r] \in Nat /\ next[r] >= last[r] + Interval - 1

LEMMA MovedOnStep == ASSUME Typed, MovedOn, [Next]_vars PROVE MovedOn'
<1>1. ASSUME UNCHANGED <<rowVars, last>> PROVE MovedOn'
  BY <1>1 DEF MovedOn, rowVars
<1>2. ASSUME NEW B, Poll(B) PROVE MovedOn'
  <2>1. B \subseteq Due
    BY <1>2 DEF Poll, IsBatch
  <2>2. ASSUME NEW r \in Rows, last'[r] # Never, kind'[r] = "INTERVAL", policy'[r] = "SKIP"
        PROVE  next'[r] \in Nat /\ next'[r] >= last'[r] + Interval - 1
    <3>1. CASE r \in B
      <4>1. next'[r] = Following(r) /\ last'[r] = now
        BY <1>2, <3>1 DEF Poll
      <4>2. QED
        BY <1>2, <2>1, <2>2, <3>1, <4>1, FollowingLater DEF Poll, Typed
    <3>2. CASE r \notin B
      BY <1>2, <2>2, <3>2 DEF Poll, MovedOn
    <3>3. QED
      BY <3>1, <3>2
  <2>3. QED
    BY <2>2 DEF MovedOn
<1>3. ASSUME NEW c \in Clients, ConfigureWrite(c) PROVE MovedOn'
  <2>1. CASE UNCHANGED <<rowVars, last>>
    BY <1>1, <2>1
  <2>2. CASE ~ UNCHANGED <<rowVars, last>>
    <3> DEFINE q == request[c].row
    <3>1. /\ last'[q] = Never
          /\ \A r \in Rows : r # q => last'[r] = last[r] /\ kind'[r] = kind[r] /\ policy'[r] = policy[r]
                                      /\ next'[r] = next[r]
      <4>1. request[c] \in Write
        BY <1>3, Memory DEF ConfigureWrite
      <4>2. q \in Rows
        BY <4>1 DEF Write
      <4>3. QED
        BY <1>3, <2>2, <4>2 DEF ConfigureWrite, Typed, TypeOK
    <3>2. QED
      BY <3>1 DEF MovedOn
  <2>3. QED
    BY <2>1, <2>2
<1>4. ASSUME NEW c \in Clients, ChangeSchedules(c) PROVE MovedOn'
  <2>1. UNCHANGED <<kind, policy>>
    BY <1>4 DEF ChangeSchedules
  <2>2. ASSUME NEW r \in Rows PROVE last'[r] = Never \/ (last'[r] = last[r] /\ next'[r] = next[r])
    BY <1>4 DEF ChangeSchedules, Typed, TypeOK
  <2>3. QED
    BY <2>1, <2>2 DEF MovedOn
<1>5. QED
  BY <1>1, <1>2, <1>3, <1>4 DEF Next, vars, PollSome, RequestStep, Tick, Delete, ConfigureBegin,
     ConfigureLookup,
     ChangeBegin, ChangeMonitor, Abandon

\* A schedule is enqueued by a poll.
LEMMA EnqueuedByPoll ==
    ASSUME Typed, Next, NEW r \in Rows, Key(r) \in keys' \ keys
    PROVE  r \in Due
<1>1. keys' # keys
  OBVIOUS
<1>2. PollSome
  BY <1>1 DEF Next, Tick, Delete, RequestStep, ConfigureBegin, ConfigureLookup, ConfigureWrite, ChangeBegin,
     ChangeMonitor, ChangeSchedules, Abandon
<1>3. PICK B : Poll(B)
  BY <1>2 DEF PollSome
<1>4. PICK q \in B : Key(r) = Key(q)
  BY <1>3 DEF Poll
<1>5. QED
  BY <1>3, <1>4 DEF Key, Poll, IsBatch

\* An interval schedule that skips missed times is not enqueued twice within
\* an interval, less the one poll a claim may be late by, whatever requests
\* come in between (enqueueDue, scheduler/service.go:196-330).
THEOREM IntervalIsKept == Spec => SkippingKeepsInterval
<1> DEFINE Step == \A r \in Rows :
         (/\ Key(r) \in keys' \ keys /\ next'[r] # next[r]
          /\ kind[r] = "INTERVAL" /\ policy[r] = "SKIP" /\ last[r] # Never)
         => now - last[r] >= Interval - 1
<1>1. Init => MovedOn
  BY DEF Init, MovedOn
<1>2. ASSUME Typed, MovedOn, [Next]_vars PROVE [Step]_vars
  <2> SUFFICES ASSUME Next, NEW r \in Rows, Key(r) \in keys' \ keys, kind[r] = "INTERVAL", policy[r] = "SKIP",
                      last[r] # Never
               PROVE  now - last[r] >= Interval - 1
    BY <1>2
  <2>1. r \in Due
    BY <1>2, EnqueuedByPoll
  <2>2. next[r] \in Nat /\ next[r] <= now /\ next[r] >= last[r] + Interval - 1
    BY <1>2, <2>1 DEF MovedOn, Due, Typed, TypeOK
  <2>3. now \in Nat /\ last[r] \in Nat /\ Interval \in Nat
    BY <1>2, ConstantsAssumption DEF Typed, TypeOK
  <2>4. QED
    BY <2>2, <2>3
<1>3. QED
  BY <1>1, <1>2, TypedInit, TypedStep, MovedOnStep, PTL DEF Spec, SkippingKeepsInterval

----------------------------------------------------------------------------
(***************************************************************************)
(* Claims.  Enabling makes a schedule due at once, also when its current   *)
(* second has a run already; a slow configuration may write a time that    *)
(* passed meanwhile, which the nearness of the next cron time makes easy.  *)
(* Without those the times of a schedule have ever later seconds.          *)
(***************************************************************************)
Unhurried ==
    /\ Kinds \subseteq {"MANUAL", "INTERVAL"} /\ "enable" \notin Ops
    /\ MaxLatency + TicksPerSecond <= Interval

\* What a request may write of a schedule.
RequestsUnhurried ==
    \A c \in Clients :
        /\ request[c].pc = "lookup" /\ request[c].active => request[c].kind = "INTERVAL"
        /\ request[c].pc = "write" /\ request[c].active =>
             /\ request[c].kind = "INTERVAL"
             /\ now <= request[c].stamp + MaxLatency
             /\ request[c].next \in Nat /\ request[c].next >= request[c].stamp + Interval
        /\ request[c].pc \in {"monitor", "schedules"} => request[c].state # "ENABLED"

TimesUnclaimed ==
    /\ \A r \in Rows, s \in Nat : <<r, s>> \in keys => s <= Second(now)
    /\ \A r \in active : kind[r] = "INTERVAL"
    /\ \A r \in active, s \in Nat : <<r, s>> \in keys /\ next[r] # Never => s < Second(next[r])

ClaimInv == RequestsUnhurried /\ TimesUnclaimed

\* Of a step that moves one client, the other clients have nothing to say.
LEMMA OthersUnhurried ==
    ASSUME Typed, RequestsUnhurried, now' = now, NEW c \in Clients, NEW memory,
           request' = [request EXCEPT ![c] = memory],
           /\ memory.pc = "lookup" /\ memory.active => memory.kind = "INTERVAL"
           /\ memory.pc = "write" /\ memory.active =>
                /\ memory.kind = "INTERVAL"
                /\ now <= memory.stamp + MaxLatency
                /\ memory.next \in Nat /\ memory.next >= memory.stamp + Interval
           /\ memory.pc \in {"monitor", "schedules"} => memory.state # "ENABLED"
    PROVE  RequestsUnhurried'
BY DEF Typed, RequestsOK, RequestsUnhurried

LEMMA PollUnclaimed ==
    ASSUME Unhurried, Typed, ClaimInv, NEW B, Poll(B)
    PROVE  ClaimInv'
<1>1. RequestsUnhurried'
  BY DEF Poll, ClaimInv, RequestsUnhurried
<1>2. B \subseteq Due /\ \A r \in B : r \in active
  BY DEF Poll, IsBatch, Due
<1>3. ASSUME NEW r \in B
      PROVE  /\ Second(next[r]) \in Nat /\ Second(next[r]) <= Second(now)
             /\ Second(next[r]) < Second(Following(r)) /\ next[r] # Never /\ Following(r) \in Nat
             /\ Second(Following(r)) \in Nat
  <2>1. kind[r] = "INTERVAL"
    BY <1>2 DEF ClaimInv, TimesUnclaimed
  <2>2. /\ next[r] \in Nat /\ next[r] <= now /\ now \in Nat /\ Following(r) \in Nat
        /\ Following(r) >= next[r] + Interval
    BY <1>2, <2>1, FollowingLater DEF Typed
  <2>3. MaxLatency \in Nat /\ TicksPerSecond \in Nat /\ Interval \in Nat
    BY ConstantsAssumption
  <2>4. next[r] + TicksPerSecond <= Following(r)
    BY <2>2, <2>3 DEF Unhurried
  <2>5. QED
    BY <2>2, <2>4, SecondsOrdered, SecondsGrow DEF Never
<1>4. /\ \A r \in Rows, s \in Nat : <<r, s>> \in keys' <=>
              <<r, s>> \in keys \/ (r \in B /\ s = Second(next[r]))
      /\ now' = now /\ active' = active /\ kind' = kind
      /\ \A r \in Rows : next'[r] = IF r \in B THEN Following(r) ELSE next[r]
  BY DEF Poll, Key
<1>5. \A r \in Rows, s \in Nat : <<r, s>> \in keys' => s <= Second(now')
  BY <1>3, <1>4 DEF ClaimInv, TimesUnclaimed
<1>6. ASSUME NEW r \in active, NEW s \in Nat, <<r, s>> \in keys', next'[r] # Never
      PROVE  s < Second(next'[r])
  <2>1. r \in Rows
    BY DEF Typed, TypeOK
  <2>2. CASE r \in B
    <3>1. s = Second(next[r]) \/ s < Second(next[r])
      BY <1>3, <1>4, <1>6, <2>1, <2>2 DEF ClaimInv, TimesUnclaimed
    <3>2. QED
      BY <1>3, <1>4, <2>1, <2>2, <3>1
  <2>3. CASE r \notin B
    BY <1>4, <1>6, <2>1, <2>3 DEF ClaimInv, TimesUnclaimed
  <2>4. QED
    BY <2>2, <2>3
<1>7. TimesUnclaimed'
  BY <1>4, <1>5, <1>6 DEF ClaimInv, TimesUnclaimed
<1>8. QED
  BY <1>1, <1>7 DEF ClaimInv

LEMMA WriteUnclaimed ==
    ASSUME Unhurried, Typed, ClaimInv, NEW c \in Clients, ConfigureWrite(c)
    PROVE  ClaimInv'
<1> DEFINE r == request[c].row
<1>1. request[c] \in Write /\ r \in Rows
  BY Memory DEF ConfigureWrite, Write
<1>2. RequestsUnhurried'
  BY OthersUnhurried DEF ConfigureWrite, End, Idle, ClaimInv
<1>3. UNCHANGED <<now, keys>>
  BY DEF ConfigureWrite
<1>4. CASE UNCHANGED <<rowVars, last>>
  BY <1>2, <1>3, <1>4 DEF ClaimInv, TimesUnclaimed, rowVars
<1>5. CASE ~ UNCHANGED <<rowVars, last>>
  <2>1. /\ active' = IF request[c].active THEN (active \ {r}) \cup {r} ELSE active \ {r}
        /\ kind' = [kind EXCEPT ![r] = request[c].kind] /\ next' = [next EXCEPT ![r] = request[c].next]
    BY <1>5 DEF ConfigureWrite
  <2>2. ASSUME request[c].active, NEW s \in Nat, <<r, s>> \in keys
        PROVE  s < Second(request[c].next)
    <3>1. /\ now <= request[c].stamp + MaxLatency /\ request[c].next \in Nat /\ now \in Nat
          /\ request[c].next >= request[c].stamp + Interval /\ request[c].stamp \in Nat
      BY <1>1, <2>2 DEF ClaimInv, RequestsUnhurried, ConfigureWrite, Write, Typed, TypeOK
    <3>2. MaxLatency \in Nat /\ TicksPerSecond \in Nat /\ Interval \in Nat
      BY ConstantsAssumption
    <3>3. now + TicksPerSecond <= request[c].next
      BY <3>1, <3>2 DEF Unhurried
    <3>4. Second(now) < Second(request[c].next) /\ Second(now) \in Nat /\ Second(request[c].next) \in Nat
      BY <3>1, <3>3, SecondsGrow
    <3>5. s <= Second(now)
      BY <1>1, <2>2 DEF ClaimInv, TimesUnclaimed
    <3>6. QED
      BY <3>4, <3>5
  <2>3. request[c].active => request[c].kind = "INTERVAL"
    BY DEF ClaimInv, RequestsUnhurried, ConfigureWrite
  <2> HIDE DEF r
  <2>4. ASSUME NEW q \in active'
        PROVE  /\ q = r => request[c].active /\ kind'[q] = request[c].kind /\ next'[q] = request[c].next
               /\ q # r => q \in active /\ kind'[q] = kind[q] /\ next'[q] = next[q]
    BY <1>1, <2>1 DEF Typed, TypeOK
  <2>5. \A q \in active' : kind'[q] = "INTERVAL"
    BY <2>3, <2>4 DEF ClaimInv, TimesUnclaimed
  <2>6. \A q \in active', s \in Nat : <<q, s>> \in keys /\ next'[q] # Never => s < Second(next'[q])
    BY <2>2, <2>4 DEF ClaimInv, TimesUnclaimed, r
  <2>7. TimesUnclaimed'
    BY <1>3, <2>5, <2>6 DEF ClaimInv, TimesUnclaimed
  <2>8. QED
    BY <1>2, <2>7 DEF ClaimInv
<1>6. QED
  BY <1>4, <1>5

LEMMA ClaimStep ==
    ASSUME Unhurried, Typed, ClaimInv, [Next]_vars
    PROVE  ClaimInv'
<1>1. CASE UNCHANGED vars
  BY <1>1 DEF vars, rowVars, ClaimInv, RequestsUnhurried, TimesUnclaimed
<1>2. CASE Tick
  <2>1. now \in Nat /\ now' = now + 1 /\ UNCHANGED <<request, keys, active, kind, next>>
    BY <1>2 DEF Tick, rowVars, Typed, TypeOK
  <2>2. Second(now) \in Nat /\ Second(now') \in Nat /\ Second(now) <= Second(now')
    BY <2>1, SecondsOrdered
  <2>3. TimesUnclaimed'
    BY <2>1, <2>2 DEF ClaimInv, TimesUnclaimed
  <2>4. ASSUME NEW c \in Clients, request[c].pc = "write" PROVE now' <= request[c].stamp + MaxLatency
    <3>1. request[c].stamp \in Nat /\ MaxLatency \in Nat
      BY <2>4, Memory, ConstantsAssumption DEF Write
    <3>2. QED
      BY <1>2, <2>1, <2>4, <3>1 DEF Tick
  <2>5. RequestsUnhurried'
    BY <2>1, <2>4 DEF ClaimInv, RequestsUnhurried
  <2>6. QED
    BY <2>3, <2>5 DEF ClaimInv
<1>3. CASE PollSome
  BY <1>3, PollUnclaimed DEF PollSome
<1>4. ASSUME NEW m \in Monitors, Delete(m) PROVE ClaimInv'
  BY <1>4 DEF Delete, rowVars, ClaimInv, RequestsUnhurried, TimesUnclaimed
<1>5. ASSUME NEW c \in Clients, RequestStep(c) PROVE ClaimInv'
  <2>1. ASSUME UNCHANGED <<now, rowVars, keys>>, RequestsUnhurried' PROVE ClaimInv'
    BY <2>1 DEF ClaimInv, TimesUnclaimed, rowVars
  <2>2. ASSUME NEW m \in Monitors, NEW k \in Kinds, NEW p \in Policies, ConfigureBegin(c, m, k, p)
        PROVE  ClaimInv'
    <3> DEFINE memory == [pc |-> "lookup", monitor |-> m, kind |-> k, policy |-> p, active |-> RunsTimed(m, k)]
    <3>1. memory.pc = "lookup" /\ (memory.active => memory.kind = "INTERVAL")
      BY DEF RunsTimed, Unhurried
    <3>2. request' = [request EXCEPT ![c] = memory] /\ UNCHANGED <<now, rowVars, keys>>
      BY <2>2 DEF ConfigureBegin, Begin
    <3> HIDE DEF memory
    <3>3. RequestsUnhurried'
      BY <3>1, <3>2, OthersUnhurried DEF ClaimInv
    <3>4. QED
      BY <2>1, <3>2, <3>3
  <2>3. ASSUME NEW r \in Rows, ConfigureLookup(c, r) PROVE ClaimInv'
    <3>1. Configured(c, r) \in Write /\ request' = [request EXCEPT ![c] = Configured(c, r)]
      BY <2>3, ConfigureLookupTyped
    <3>2. request[c].active => request[c].kind = "INTERVAL"
      BY <2>3 DEF ClaimInv, RequestsUnhurried, ConfigureLookup
    <3>3. now \in Nat /\ MaxLatency \in Nat
      BY ConstantsAssumption DEF Typed, TypeOK
    <3> DEFINE memory == Configured(c, r)
               time == NextRun(r, request[c].kind, now, TRUE)
    <3>4. request[c].kind = "INTERVAL" => time \in Nat /\ time >= now + Interval
      BY <3>3, NextRunLater
    <3>5. /\ memory.pc = "write"
          /\ memory.active => request[c].active
          /\ memory.kind = request[c].kind /\ memory.stamp = now
          /\ request[c].active => memory.next = time
      BY DEF Configured
    <3> HIDE DEF memory, time
    <3>6. memory.active => /\ memory.kind = "INTERVAL" /\ now <= memory.stamp + MaxLatency
                           /\ memory.next \in Nat /\ memory.next >= memory.stamp + Interval
      BY <3>2, <3>3, <3>4, <3>5
    <3>7. request' = [request EXCEPT ![c] = memory] /\ UNCHANGED <<now, rowVars, keys>>
      BY <2>3, <3>1 DEF memory, ConfigureLookup
    <3>8. RequestsUnhurried'
      BY <3>5, <3>6, <3>7, OthersUnhurried DEF ClaimInv
    <3>9. QED
      BY <2>1, <3>7, <3>8
  <2>4. ASSUME NEW m \in Monitors, NEW op \in Ops, ChangeBegin(c, m, op) PROVE ClaimInv'
    <3> DEFINE memory == [pc |-> "monitor", monitor |-> m, state |-> Target(op), stamp |-> now]
    <3>1. memory.pc = "monitor" /\ memory.state # "ENABLED"
      BY DEF Unhurried, Target
    <3>2. request' = [request EXCEPT ![c] = memory] /\ UNCHANGED <<now, rowVars, keys>>
      BY <2>4 DEF ChangeBegin, Begin
    <3> HIDE DEF memory
    <3>3. RequestsUnhurried'
      BY <3>1, <3>2, OthersUnhurried DEF ClaimInv
    <3>4. QED
      BY <2>1, <3>2, <3>3
  <2>5. CASE ChangeMonitor(c)
    <3>1. request[c] \in Change /\ request[c].state # "ENABLED"
      BY <2>5, Memory DEF ChangeMonitor, ClaimInv, RequestsUnhurried
    <3>2. /\ request' = [request EXCEPT ![c] = [request[c] EXCEPT !.pc = "schedules"]]
             \/ request' = [request EXCEPT ![c] = Idle]
          /\ UNCHANGED <<now, rowVars, keys>>
      BY <2>5 DEF ChangeMonitor, End
    <3>3. [request[c] EXCEPT !.pc = "schedules"].pc = "schedules"
          /\ [request[c] EXCEPT !.pc = "schedules"].state # "ENABLED"
      BY <3>1 DEF Change
    <3>4. RequestsUnhurried'
      BY <3>2, <3>3, OthersUnhurried DEF ClaimInv, Idle
    <3>5. QED
      BY <2>1, <3>2, <3>4
  <2>6. CASE ChangeSchedules(c)
    <3>1. request[c].state # "ENABLED"
      BY <2>6 DEF ChangeSchedules, ClaimInv, RequestsUnhurried
    <3>2. /\ active' \subseteq active /\ UNCHANGED <<now, keys, kind>>
          /\ \A r \in Rows : next'[r] = next[r]
      BY <2>6, <3>1 DEF ChangeSchedules, Typed, TypeOK
    <3>3. active \subseteq Rows
      BY DEF Typed, TypeOK
    <3>4. TimesUnclaimed'
      BY <3>2, <3>3 DEF ClaimInv, TimesUnclaimed
    <3>5. RequestsUnhurried'
      BY <2>6, OthersUnhurried DEF ChangeSchedules, End, Idle, ClaimInv
    <3>6. QED
      BY <3>4, <3>5 DEF ClaimInv
  <2>7. CASE Abandon(c)
    <3>1. RequestsUnhurried'
      BY <2>7, OthersUnhurried DEF Abandon, End, Idle, ClaimInv
    <3>2. QED
      BY <2>1, <2>7, <3>1 DEF Abandon
  <2>8. QED
    BY <1>5, <2>2, <2>3, <2>4, <2>5, <2>6, <2>7, WriteUnclaimed DEF RequestStep
<1>6. QED
  BY <1>1, <1>2, <1>3, <1>4, <1>5 DEF Next

\* The second of a due time was never enqueued before, so that the transaction
\* of a poll cannot violate the unique index and be rolled back for ever
\* (enqueueDue, scheduler/service.go:196-330), unless a schedule is enabled
\* again or written late.
THEOREM DueIsClaimable == ASSUME Unhurried PROVE Spec => []DueClaimable
<1>1. Init => ClaimInv
  BY DEF Init, ClaimInv, RequestsUnhurried, TimesUnclaimed, Idle
<1>2. ASSUME Typed, ClaimInv PROVE DueClaimable
  <2> SUFFICES ASSUME NEW r \in Due, Key(r) \in keys PROVE FALSE
    BY DEF DueClaimable
  <2>1. r \in active /\ next[r] # Never /\ next[r] \in Nat /\ <<r, Second(next[r])>> \in keys
    BY <1>2 DEF Due, Key, Typed, TypeOK
  <2>2. Second(next[r]) \in Nat
    BY <2>1, SecondsOrdered
  <2>3. QED
    BY <1>2, <2>1, <2>2 DEF ClaimInv, TimesUnclaimed
<1>3. QED
  BY <1>1, <1>2, TypedInit, TypedStep, ClaimStep, PTL DEF Spec

----------------------------------------------------------------------------
(***************************************************************************)
(* Schedules and monitors.  Requests are no transactions: two on the same  *)
(* monitor may mix, and one may be abandoned half way.                     *)
(***************************************************************************)
At(c) == IF request[c].pc = "write" THEN MonitorOf(request[c].row) ELSE request[c].monitor

\* One request at a time on each monitor.
Apart == \A c, d \in Clients : c # d /\ request[c] # Idle /\ request[d] # Idle => At(c) # At(d)

\* A monitor has one schedule row.
OneRow == \A r, q \in Rows : kind[r] # "NONE" /\ kind[q] # "NONE" /\ MonitorOf(r) = MonitorOf(q) => r = q
ActiveTimed == \A r \in active : kind[r] # "NONE" /\ next[r] # Never

\* What a request remembers of its monitor is still so.
Wanted(m, k) == Enabled(m) /\ k # "MANUAL"
RequestFollows(c) ==
    LET memory == request[c] IN
    /\ memory.pc = "lookup" /\ state[memory.monitor] # "DELETED"
         => (memory.active <=> Wanted(memory.monitor, memory.kind))
    /\ memory.pc = "write" =>
         /\ \A q \in RowsOf(MonitorOf(memory.row)) : q = memory.row
         /\ memory.active => memory.next # Never
         /\ state[MonitorOf(memory.row)] # "DELETED"
              => (memory.active <=> Wanted(MonitorOf(memory.row), memory.kind))
    /\ memory.pc = "schedules" /\ state[memory.monitor] # "DELETED" => state[memory.monitor] = memory.state

Switching(m) == \E c \in Clients : request[c].pc = "schedules" /\ request[c].monitor = m
MonitorFollows(m) ==
    state[m] # "DELETED" /\ ~Switching(m) => \A r \in RowsOf(m) : r \in active <=> Wanted(m, kind[r])

FollowInv ==
    /\ OneRow /\ ActiveTimed
    /\ \A c \in Clients : RequestFollows(c)
    /\ \A m \in Monitors : MonitorFollows(m)

LEMMA MonitorsOfRows == \A r \in Rows : MonitorOf(r) \in Monitors
BY DEF Rows, MonitorOf

\* A monitor has one timed schedule at most, so that switching it cannot fail.
LEMMA OneTimed ==
    ASSUME OneRow, NEW m
    PROVE  ~ (Cardinality({r \in RowsOf(m) : kind[r] # "MANUAL"}) > 1)
<1> DEFINE timed == {r \in RowsOf(m) : kind[r] # "MANUAL"}
<1>1. \A r, q \in timed : r = q
  BY DEF OneRow, RowsOf
<1> HIDE DEF timed
<1>2. CASE timed = {}
  <2>1. Cardinality(timed) = 0
    BY <1>2, FS_EmptySet
  <2>2. QED
    BY <2>1 DEF timed
<1>3. CASE timed # {}
  <2>1. PICK r : timed = {r}
    BY <1>1, <1>3
  <2>2. Cardinality(timed) = 1
    BY <2>1, FS_Singleton
  <2>3. QED
    BY <2>2 DEF timed
<1>4. QED
  BY <1>2, <1>3

\* A request that begins, or goes on without writing, changes nothing of the others.
LEMMA RequestAlone ==
    ASSUME Typed, FollowInv, NEW c \in Clients, NEW memory,
           request' = [request EXCEPT ![c] = memory], UNCHANGED <<state, rowVars>>,
           request[c].pc # "schedules", RequestFollows(c)'
    PROVE  FollowInv'
<1>1. \A d \in Clients : d # c => request'[d] = request[d]
  BY DEF Typed, RequestsOK
<1>2. \A d \in Clients : d # c => RequestFollows(d)'
  BY <1>1 DEF FollowInv, RequestFollows, Wanted, Enabled, RowsOf, rowVars
<1>3. \A m \in Monitors : Switching(m) => Switching(m)'
  BY <1>1 DEF Switching
<1>4. \A m \in Monitors : MonitorFollows(m)'
  BY <1>3 DEF FollowInv, MonitorFollows, Wanted, Enabled, RowsOf, rowVars
<1>5. QED
  BY <1>2, <1>4 DEF FollowInv, OneRow, ActiveTimed, rowVars

LEMMA ConfigureFollows ==
    ASSUME Typed, FollowInv, NEW c \in Clients,
           \/ \E m \in Monitors, k \in Kinds, p \in Policies : ConfigureBegin(c, m, k, p)
           \/ \E r \in Rows : ConfigureLookup(c, r)
    PROVE  FollowInv'
<1>1. ASSUME NEW m \in Monitors, NEW k \in Kinds, NEW p \in Policies, ConfigureBegin(c, m, k, p)
      PROVE  FollowInv'
  <2> DEFINE memory == [pc |-> "lookup", monitor |-> m, kind |-> k, policy |-> p, active |-> RunsTimed(m, k)]
  <2>1. request' = [request EXCEPT ![c] = memory] /\ UNCHANGED <<state, rowVars>> /\ request[c].pc # "schedules"
    BY <1>1 DEF ConfigureBegin, Begin, Idle
  <2>2. memory.pc = "lookup" /\ memory.monitor = m /\ memory.kind = k /\ (memory.active <=> Wanted(m, k))
    BY DEF RunsTimed, Wanted
  <2> HIDE DEF memory
  <2>3. RequestFollows(c)'
    BY <2>1, <2>2 DEF RequestFollows, Wanted, Enabled, Typed, RequestsOK
  <2>4. QED
    BY <2>1, <2>3, RequestAlone
<1>2. ASSUME NEW r \in Rows, ConfigureLookup(c, r) PROVE FollowInv'
  <2>1. Configured(c, r) \in Write /\ request' = [request EXCEPT ![c] = Configured(c, r)]
    BY <1>2, ConfigureLookupTyped
  <2>2. UNCHANGED <<state, rowVars>> /\ request[c].pc = "lookup"
    BY <1>2 DEF ConfigureLookup
  <2>3. now \in Nat
    BY DEF Typed, TypeOK
  <2>4. NextRun(r, request[c].kind, now, TRUE) # Never
    BY <2>3, NextRunLater
  <2>5. PICK m : m = request[c].monitor
    OBVIOUS
  <2>6. PICK memory \in Write : memory = Configured(c, r)
    BY <2>1
  <2>7. /\ memory.pc = "write" /\ memory.row = r /\ memory.kind = request[c].kind
        /\ memory.active <=> request[c].active
        /\ memory.active => memory.next # Never
    BY <2>4, <2>6 DEF Configured
  <2>8. MonitorOf(r) = m /\ (RowsOf(m) = {} \/ r \in RowsOf(m))
    BY <1>2, <2>5 DEF ConfigureLookup
  <2>9. state[m] # "DELETED" => (memory.active <=> Wanted(m, memory.kind))
    BY <2>2, <2>5, <2>7 DEF FollowInv, RequestFollows
  <2>10. \A q \in RowsOf(m) : q = r
    BY <2>8 DEF RowsOf, FollowInv, OneRow
  <2>11. request'[c] = memory
    BY <2>1, <2>6 DEF Typed, RequestsOK
  <2>12. RowsOf(m)' = RowsOf(m) /\ (Wanted(m, memory.kind)' <=> Wanted(m, memory.kind)) /\ state' = state
    BY <2>2 DEF rowVars, RowsOf, Wanted, Enabled
  <2>13. RequestFollows(c)'
    BY <2>7, <2>8, <2>9, <2>10, <2>11, <2>12 DEF RequestFollows
  <2>14. QED
    BY <2>1, <2>2, <2>13, RequestAlone
<1>3. QED
  BY <1>1, <1>2

LEMMA WriteFollows ==
    ASSUME Typed, Apart, FollowInv, NEW c \in Clients, ConfigureWrite(c)
    PROVE  FollowInv'
<1>1. PICK memory \in Write : memory = request[c]
  BY Memory DEF ConfigureWrite
<1>2. PICK r \in Rows : r = memory.row
  BY <1>1 DEF Write
<1>3. PICK m \in Monitors : m = MonitorOf(r)
  BY MonitorsOfRows
<1>4. memory.pc = "write" /\ request[c] # Idle /\ At(c) = m
  BY <1>1, <1>2, <1>3 DEF ConfigureWrite, At, Idle
<1>5. /\ \A q \in RowsOf(m) : q = r
      /\ memory.active => memory.next # Never
      /\ state[m] # "DELETED" => (memory.active <=> Wanted(m, memory.kind))
  BY <1>1, <1>2, <1>3, <1>4 DEF FollowInv, RequestFollows
<1>6. memory.kind # "NONE" /\ Never \notin Nat
  BY ConstantsAssumption DEF Write, Never
<1>7. ~ (memory.active /\ \E q \in active \ {r} : MonitorOf(q) = MonitorOf(r))
  <2>1. \A q \in active : q \in Rows /\ (MonitorOf(q) = m => q \in RowsOf(m))
    BY DEF FollowInv, ActiveTimed, RowsOf, Typed, TypeOK
  <2>2. QED
    BY <1>3, <1>5, <2>1
<1>8. /\ kind' = [kind EXCEPT ![r] = memory.kind] /\ next' = [next EXCEPT ![r] = memory.next]
      /\ active' = IF memory.active THEN (active \ {r}) \cup {r} ELSE active \ {r}
      /\ request' = [request EXCEPT ![c] = Idle] /\ state' = state
  BY <1>1, <1>2, <1>7 DEF ConfigureWrite, End
<1>9. /\ kind'[r] = memory.kind /\ next'[r] = memory.next /\ (r \in active' <=> memory.active)
      /\ \A q \in Rows : q # r => kind'[q] = kind[q] /\ next'[q] = next[q] /\ (q \in active' <=> q \in active)
      /\ active' \subseteq Rows
  BY <1>8 DEF Typed, TypeOK
<1>10. OneRow'
  <2>1. ASSUME NEW q \in Rows, kind'[q] # "NONE", MonitorOf(q) = m PROVE q = r
    BY <1>5, <1>9, <2>1 DEF RowsOf
  <2>2. ASSUME NEW p \in Rows, NEW q \in Rows, kind'[p] # "NONE", kind'[q] # "NONE", MonitorOf(p) = MonitorOf(q)
        PROVE  p = q
    <3>1. CASE p = r \/ q = r
      BY <1>3, <2>1, <2>2, <3>1
    <3>2. CASE p # r /\ q # r
      BY <1>9, <2>2, <3>2 DEF FollowInv, OneRow
    <3>3. QED
      BY <3>1, <3>2
  <2>3. QED
    BY <2>2 DEF OneRow
<1>11. ActiveTimed'
  BY <1>5, <1>6, <1>9 DEF FollowInv, ActiveTimed
<1>12. RowsOf(m)' = {r} /\ \A n \in Monitors : n # m => RowsOf(n)' = RowsOf(n)
  BY <1>3, <1>5, <1>6, <1>9 DEF RowsOf
<1>13. \A d \in Clients : (d # c => request'[d] = request[d]) /\ request'[c] = Idle
  BY <1>8 DEF Typed, RequestsOK
<1>14. \A d \in Clients : RequestFollows(d)'
  <2>1. CASE \A d \in Clients : d = c
    BY <1>13, <2>1 DEF RequestFollows, Idle
  <2>2. ASSUME NEW d \in Clients, d # c PROVE RequestFollows(d)'
    <3>1. request'[d] = request[d] /\ RequestFollows(d) /\ (request[d] # Idle => At(d) # m)
      BY <1>4, <1>13, <2>2 DEF FollowInv, Apart
    <3>2. request[d].pc = "write" => /\ request[d].row \in Rows /\ MonitorOf(request[d].row) \in Monitors
                                     /\ MonitorOf(request[d].row) # m
      BY <3>1, Memory, MonitorsOfRows DEF At, Write, Idle
    <3>3. request[d].pc = "write" => RowsOf(MonitorOf(request[d].row))' = RowsOf(MonitorOf(request[d].row))
      BY <1>12, <3>1, <3>2
    <3>4. UNCHANGED state
      BY <1>8
    <3>5. QED
      BY <3>1, <3>3, <3>4 DEF RequestFollows, Wanted, Enabled
  <2>3. RequestFollows(c)'
    BY <1>13 DEF RequestFollows, Idle
  <2>4. QED
    BY <2>2, <2>3
<1>15. ASSUME NEW n \in Monitors PROVE MonitorFollows(n)'
  <2>1. Switching(n)' <=> Switching(n)
    BY <1>1, <1>4, <1>13 DEF Switching, Idle
  <2>2. CASE n = m
    BY <1>5, <1>8, <1>9, <1>12, <2>2 DEF MonitorFollows, Wanted, Enabled
  <2>3. CASE n # m
    <3>1. RowsOf(n)' = RowsOf(n) /\ \A q \in RowsOf(n) : kind'[q] = kind[q] /\ (q \in active' <=> q \in active)
      BY <1>3, <1>9, <1>12, <2>3 DEF RowsOf
    <3>2. QED
      BY <1>8, <2>1, <3>1 DEF FollowInv, MonitorFollows, Wanted, Enabled
  <2>4. QED
    BY <2>2, <2>3
<1>16. QED
  BY <1>10, <1>11, <1>14, <1>15 DEF FollowInv

LEMMA ChangeFollows ==
    ASSUME Typed, Apart, FollowInv, "abandon" \notin Ops, NEW c \in Clients,
           \/ \E m \in Monitors, op \in Ops : ChangeBegin(c, m, op)
           \/ ChangeMonitor(c) \/ ChangeSchedules(c) \/ Abandon(c)
    PROVE  FollowInv'
<1>1. ASSUME NEW m \in Monitors, NEW op \in Ops, ChangeBegin(c, m, op) PROVE FollowInv'
  <2>1. PICK memory : memory = [pc |-> "monitor", monitor |-> m, state |-> Target(op), stamp |-> now]
    OBVIOUS
  <2>2. request' = [request EXCEPT ![c] = memory] /\ UNCHANGED <<state, rowVars>> /\ request[c].pc # "schedules"
    BY <1>1, <2>1 DEF ChangeBegin, Begin, Idle
  <2>3. RequestFollows(c)'
    BY <2>1, <2>2 DEF RequestFollows, Typed, RequestsOK
  <2>4. QED
    BY <2>2, <2>3, RequestAlone
<1>2. CASE ChangeMonitor(c)
  <2>1. PICK memory \in Change : memory = request[c]
    BY <1>2, Memory DEF ChangeMonitor
  <2>2. PICK m \in Monitors : m = memory.monitor
    BY <2>1 DEF Change
  <2>3. memory.pc = "monitor" /\ request[c] # Idle /\ At(c) = m /\ UNCHANGED rowVars
    BY <1>2, <2>1, <2>2 DEF ChangeMonitor, At, Idle
  <2>4. CASE state[m] = "DELETED"
    <3>1. request' = [request EXCEPT ![c] = Idle] /\ UNCHANGED <<state, rowVars>> /\ request[c].pc # "schedules"
      BY <1>2, <2>1, <2>2, <2>3, <2>4 DEF ChangeMonitor, End
    <3>2. RequestFollows(c)'
      BY <3>1 DEF RequestFollows, Idle, Typed, RequestsOK
    <3>3. PICK idle : idle = Idle
      OBVIOUS
    <3>4. QED
      BY <3>1, <3>2, RequestAlone
  <2>5. CASE state[m] # "DELETED"
    <3>1. state' = [state EXCEPT ![m] = memory.state] /\ request' = [request EXCEPT ![c].pc = "schedules"]
      BY <1>2, <2>1, <2>2, <2>5 DEF ChangeMonitor
    <3>2. /\ state'[m] = memory.state /\ \A n \in Monitors : n # m => state'[n] = state[n]
          /\ request'[c].pc = "schedules" /\ request'[c].monitor = m /\ request'[c].state = memory.state
          /\ \A d \in Clients : d # c => request'[d] = request[d]
      <4>1. request'[c] = [memory EXCEPT !.pc = "schedules"]
        BY <2>1, <3>1 DEF Typed, RequestsOK
      <4>2. /\ [memory EXCEPT !.pc = "schedules"].pc = "schedules"
            /\ [memory EXCEPT !.pc = "schedules"].monitor = memory.monitor
            /\ [memory EXCEPT !.pc = "schedules"].state = memory.state
        BY <2>1 DEF Change
      <4>3. QED
        BY <2>2, <3>1, <4>1, <4>2 DEF Typed, TypeOK, RequestsOK
    <3>3. RequestFollows(c)'
      BY <3>2 DEF RequestFollows
    <3>4. ASSUME NEW d \in Clients, d # c PROVE RequestFollows(d)'
      <4>1. request'[d] = request[d] /\ RequestFollows(d) /\ (request[d] # Idle => At(d) # m)
        BY <2>3, <3>2, <3>4 DEF FollowInv, Apart
      <4>2. /\ request[d].pc \in {"lookup", "schedules"}
                 => request[d].monitor \in Monitors /\ request[d].monitor # m
            /\ request[d].pc = "write" => MonitorOf(request[d].row) \in Monitors /\ MonitorOf(request[d].row) # m
        BY <4>1, Memory, MonitorsOfRows DEF At, Lookup, Write, Change, Idle
      <4>3. UNCHANGED <<kind, next, active>>
        BY <2>3 DEF rowVars
      <4>4. QED
        BY <3>2, <4>1, <4>2, <4>3 DEF RequestFollows, Wanted, Enabled, RowsOf
    <3>5. ASSUME NEW n \in Monitors PROVE MonitorFollows(n)'
      <4>1. CASE n = m
        BY <3>2, <4>1 DEF MonitorFollows, Switching
      <4>2. CASE n # m
        <5>1. Switching(n) => Switching(n)'
          BY <2>1, <2>3, <3>2 DEF Switching
        <5>2. QED
          BY <2>3, <3>2, <4>2, <5>1 DEF FollowInv, MonitorFollows, Wanted, Enabled, RowsOf, rowVars
      <4>3. QED
        BY <4>1, <4>2
    <3>6. OneRow' /\ ActiveTimed'
      BY <2>3 DEF FollowInv, OneRow, ActiveTimed, rowVars
    <3>7. QED
      BY <3>3, <3>4, <3>5, <3>6 DEF FollowInv
  <2>6. QED
    BY <2>4, <2>5
<1>3. CASE ChangeSchedules(c)
  <2>1. PICK memory \in Change : memory = request[c]
    BY <1>3, Memory DEF ChangeSchedules
  <2>2. PICK m \in Monitors : m = memory.monitor
    BY <2>1 DEF Change
  <2>3. /\ memory.pc = "schedules" /\ request[c] # Idle /\ At(c) = m
        /\ UNCHANGED <<state, kind>> /\ request' = [request EXCEPT ![c] = Idle]
    BY <1>3, <2>1, <2>2 DEF ChangeSchedules, At, Idle, End
  <2>4. \A d \in Clients : (d # c => request'[d] = request[d]) /\ request'[c] = Idle
    BY <2>3 DEF Typed, RequestsOK
  <2>5. PICK rows : rows = RowsOf(m)
    OBVIOUS
  <2>6. PICK timed : timed = {r \in rows : kind[r] # "MANUAL"}
    OBVIOUS
  <2>7. /\ memory.state = "ENABLED" => /\ active' = (active \ rows) \cup timed
                                       /\ next' = [r \in Rows |-> IF r \in rows THEN (IF r \in timed THEN now ELSE Never)
                                                                  ELSE next[r]]
        /\ memory.state # "ENABLED" => active' = active \ rows /\ next' = [r \in Rows |-> next[r]]
    <3>1. ~ (Cardinality({r \in RowsOf(memory.monitor) : kind[r] # "MANUAL"}) > 1)
      BY OneTimed DEF FollowInv
    <3>2. QED
      BY <1>3, <2>1, <2>2, <2>5, <2>6, <3>1 DEF ChangeSchedules
  <2>8. \A r \in rows : r \in active' <=> memory.state = "ENABLED" /\ kind[r] # "MANUAL"
    BY <2>6, <2>7
  <2>9. \A r \in Rows \ rows : r \in active' <=> r \in active
    BY <2>6, <2>7
  <2>10. now # Never
    BY DEF Typed, TypeOK, Never
  <2>11. ActiveTimed'
    <3>1. active' \subseteq Rows /\ rows \subseteq Rows
      BY <2>5, <2>6, <2>7 DEF RowsOf, Typed, TypeOK
    <3>2. ASSUME NEW r \in active' PROVE kind[r] # "NONE" /\ next'[r] # Never
      <4>1. CASE r \in rows
        BY <2>5, <2>6, <2>7, <2>8, <2>10, <3>1, <3>2, <4>1 DEF RowsOf
      <4>2. CASE r \notin rows
        BY <2>6, <2>7, <3>1, <3>2, <4>2 DEF FollowInv, ActiveTimed
      <4>3. QED
        BY <4>1, <4>2
    <3>3. QED
      BY <2>3, <3>2 DEF ActiveTimed
  <2>12. \A d \in Clients : RequestFollows(d)'
    <3>1. RequestFollows(c)'
      BY <2>4 DEF RequestFollows, Idle
    <3>2. ASSUME NEW d \in Clients, d # c PROVE RequestFollows(d)'
      BY <2>3, <2>4, <3>2 DEF FollowInv, RequestFollows, Wanted, Enabled, RowsOf
    <3>3. QED
      BY <3>1, <3>2
  <2>13. ASSUME NEW n \in Monitors PROVE MonitorFollows(n)'
    <3>1. RowsOf(n)' = RowsOf(n) /\ (n # m => \A r \in RowsOf(n) : r \in Rows \ rows)
      BY <2>3, <2>5 DEF RowsOf
    <3>2. CASE n = m
      <4>1. state[m] # "DELETED" => state[m] = memory.state
        BY <2>1, <2>2, <2>3 DEF FollowInv, RequestFollows
      <4>2. QED
        BY <2>3, <2>5, <2>8, <3>1, <3>2, <4>1 DEF MonitorFollows, Wanted, Enabled
    <3>3. CASE n # m
      <4>1. Switching(n) => Switching(n)'
        BY <2>1, <2>2, <2>3, <2>4, <3>3 DEF Switching
      <4>2. QED
        BY <2>3, <2>9, <3>1, <3>3, <4>1 DEF FollowInv, MonitorFollows, Wanted, Enabled
    <3>4. QED
      BY <3>2, <3>3
  <2>14. OneRow'
    BY <2>3 DEF FollowInv, OneRow
  <2>15. QED
    BY <2>11, <2>12, <2>13, <2>14 DEF FollowInv
<1>4. CASE Abandon(c)
  BY <1>4 DEF Abandon
<1>5. QED
  BY <1>1, <1>2, <1>3, <1>4

LEMMA FollowStep ==
    ASSUME Typed, Apart, FollowInv, "abandon" \notin Ops, [Next]_vars
    PROVE  FollowInv'
<1>1. ASSUME UNCHANGED <<state, kind, active, request>>, \A r \in active : next'[r] # Never PROVE FollowInv'
  BY <1>1 DEF FollowInv, OneRow, ActiveTimed, RequestFollows, MonitorFollows, Switching, Wanted,
     Enabled, RowsOf
<1>2. CASE UNCHANGED vars \/ Tick
  BY <1>1, <1>2 DEF vars, Tick, rowVars, FollowInv, ActiveTimed
<1>3. ASSUME NEW B, Poll(B) PROVE FollowInv'
  <2>1. ASSUME NEW r \in active PROVE next'[r] # Never
    <3>1. r \in Rows /\ B \subseteq Due
      BY <1>3 DEF Poll, IsBatch, Typed, TypeOK
    <3>2. r \in B => Following(r) \in Nat
      BY <3>1, FollowingLater DEF Typed
    <3>3. QED
      BY <1>3, <3>1, <3>2 DEF Poll, FollowInv, ActiveTimed, Never
  <2>2. QED
    BY <1>1, <1>3, <2>1 DEF Poll
<1>4. ASSUME NEW m \in Monitors, Delete(m) PROVE FollowInv'
  <2>1. /\ state'[m] = "DELETED" /\ \A n \in Monitors : n # m => state'[n] = state[n]
        /\ UNCHANGED <<kind, active, next, request>>
    BY <1>4 DEF Delete, rowVars, Typed, TypeOK
  <2>2. ASSUME NEW c \in Clients PROVE RequestFollows(c)'
    <3>1. /\ request[c].pc \in {"lookup", "schedules"} => request[c].monitor \in Monitors
          /\ request[c].pc = "write" => MonitorOf(request[c].row) \in Monitors
      BY Memory, MonitorsOfRows DEF Lookup, Write, Change
    <3>2. QED
      BY <2>1, <3>1 DEF FollowInv, RequestFollows, Wanted, Enabled, RowsOf
  <2>3. ASSUME NEW n \in Monitors PROVE MonitorFollows(n)'
    BY <2>1 DEF FollowInv, MonitorFollows, Switching, Wanted, Enabled, RowsOf
  <2>4. QED
    BY <2>1, <2>2, <2>3 DEF FollowInv, OneRow, ActiveTimed
<1>5. ASSUME NEW c \in Clients, RequestStep(c) PROVE FollowInv'
  BY <1>5, ConfigureFollows, WriteFollows, ChangeFollows DEF RequestStep
<1>6. QED
  BY <1>2, <1>3, <1>4, <1>5 DEF Next, PollSome

\* Between requests a monitor that is enabled has its schedules active and one
\* that is not has none, as long as requests on the same monitor do not overlap
\* and none is abandoned between its two statements; those on other monitors,
\* deletions and polls come in anywhere (monitors/service.go SetState,
\* scheduler/service.go Configure).
THEOREM SchedulesFollow ==
    ASSUME "abandon" \notin Ops
    PROVE  Spec /\ []Apart => []ScheduleFollowsMonitor
<1>1. Init => FollowInv
  BY DEF Init, FollowInv, OneRow, ActiveTimed, RequestFollows, MonitorFollows, RowsOf, Idle
<1>2. ASSUME Typed, FollowInv PROVE ScheduleFollowsMonitor
  <2> SUFFICES ASSUME \A c \in Clients : request[c] = Idle, NEW m \in Monitors, state[m] # "DELETED",
                      NEW r \in RowsOf(m)
               PROVE  /\ r \in active <=> Enabled(m) /\ kind[r] # "MANUAL"
                      /\ r \in active => next[r] # Never
    BY DEF ScheduleFollowsMonitor
  <2>1. ~Switching(m)
    BY DEF Switching, Idle
  <2>2. QED
    BY <1>2, <2>1 DEF FollowInv, MonitorFollows, ActiveTimed, Wanted
<1>3. QED
  BY <1>1, <1>2, TypedInit, TypedStep, FollowStep, PTL DEF Spec
===============================================================================
