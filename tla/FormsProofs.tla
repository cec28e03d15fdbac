---------------------------- MODULE FormsProofs -----------------------------
(***************************************************************************)
(* Proofs about the pages that change what the server keeps: the form that *)
(* creates a monitor, the workspace of an application, the panels of       *)
(* Dynatrace and of the configuration, and the workbench of a journey; and *)
(* about the sandbox in which scripts run, and the import of requests.     *)
(***************************************************************************)
EXTENDS MonitorCreation, ApplicationPages, DynatracePages, ConfigPanels, JourneyPages,
    ScriptSandbox, MonitorImport, TLAPS

(***************************************************************************)
(* The creation of a monitor.  A server function, or a request of one that *)
(* was given up, that has come past the creation proves that its monitor   *)
(* is there.  What a stage was reached by stays: nothing that is in flight *)
(* takes back a publication or disables a monitor.                         *)
(***************************************************************************)
CreationStages ==
    {"create", "creating", "schedule", "scheduling", "publish", "enable", "check", "enableAgain", "verify",
     "ok", "partial", "refused", "unavailable"}
ScheduleStates == {"none", "manual", "running", "waiting"}
CallSet ==
    [stage : CreationStages, slug : Slugs, enabled : BOOLEAN, timed : BOOLEAN,
     retry : BOOLEAN, seen : BOOLEAN, unread : BOOLEAN, monitor : Nat]
MonitorSet == [slug : Slugs, published : BOOLEAN, enabled : BOOLEAN, schedule : ScheduleStates]

Sendable == WriteStages \cup {"create", "schedule"}

FormTyped == form \in [problem : Problems, slug : Slugs, enabled : BOOLEAN, timed : BOOLEAN]
CallsTyped ==
    /\ calls \in [Submissions -> {NoCall} \cup CallSet]
    /\ late \subseteq {call \in CallSet : call.stage \in Sendable}
    /\ monitors \in Seq(MonitorSet) /\ unseen \in BOOLEAN

\* What the stage of a call says of its monitor.
Unborn == {"create", "creating", "refused", "unavailable"}
Past(ms, call) ==
    /\ call.stage \in {"create", "creating"} => ~call.retry
    /\ call.stage \notin Unborn => call.monitor \in DOMAIN ms
    /\ call.stage = "enable" => ms[call.monitor].published
    /\ call.stage \in {"check", "verify", "enableAgain"} \/ (call.retry /\ call.stage \in Sendable) =>
        call.monitor \in DOMAIN ms /\ ms[call.monitor].published /\ ms[call.monitor].enabled
Founded ==
    /\ \A t \in Submissions : calls[t] # NoCall => Past(monitors, calls[t])
    /\ \A call \in late : Past(monitors, call)

CreationSound == FormTyped /\ CallsTyped /\ Founded

\* A write that keeps the monitors, their publications and their being enabled.
Keeps(ms) ==
    /\ ms \in Seq(MonitorSet) /\ DOMAIN monitors \subseteq DOMAIN ms
    /\ \A n \in DOMAIN monitors : (monitors[n].published => ms[n].published) /\ (monitors[n].enabled => ms[n].enabled)

\* A write to one monitor that takes nothing back.
LEMMA Rewritten ==
    ASSUME monitors \in Seq(MonitorSet), NEW n \in DOMAIN monitors, NEW m \in MonitorSet,
           monitors[n].published => m.published, monitors[n].enabled => m.enabled
    PROVE  /\ Keeps([monitors EXCEPT ![n] = m]) /\ [monitors EXCEPT ![n] = m][n] = m
           /\ Len([monitors EXCEPT ![n] = m]) = Len(monitors)
  BY DEF Keeps

\* A request leaves the monitors there are, and takes nothing back.
LEMMA EffectKeeps ==
    ASSUME monitors \in Seq(MonitorSet), NEW sent \in CallSet, sent.stage \in Sendable \ {"create"},
           Past(monitors, sent)
    PROVE  /\ Keeps(EffectOf(sent)) /\ Len(EffectOf(sent)) <= Len(monitors) + 1
           /\ sent.stage # "creating" => Len(EffectOf(sent)) = Len(monitors)
           /\ sent.stage = "creating" /\ ~Refused(sent) =>
                Len(EffectOf(sent)) = Len(monitors) + 1 /\ Len(EffectOf(sent)) \in DOMAIN EffectOf(sent)
           /\ sent.stage = "publish" => EffectOf(sent)[sent.monitor].published
           /\ sent.stage \in {"enable", "enableAgain"} /\ ~Refused(sent) =>
                EffectOf(sent)[sent.monitor].published /\ EffectOf(sent)[sent.monitor].enabled
<1>0. Keeps(monitors)
  BY DEF Keeps
<1>1. CASE sent.stage = "creating"
  <2>1. CASE Unique(sent.slug)
    <3>1. EffectOf(sent) = Append(monitors, NewMonitor(sent.slug)) /\ NewMonitor(sent.slug) \in MonitorSet
      BY <1>1, <2>1 DEF EffectOf, NewMonitor, MonitorSet, CallSet, ScheduleStates
    <3>2. /\ EffectOf(sent) \in Seq(MonitorSet) /\ Len(EffectOf(sent)) = Len(monitors) + 1
          /\ \A n \in DOMAIN monitors : EffectOf(sent)[n] = monitors[n]
      BY <3>1
    <3>3. Len(EffectOf(sent)) \in DOMAIN EffectOf(sent) /\ DOMAIN monitors \subseteq DOMAIN EffectOf(sent)
      BY <3>2
    <3> QED BY <1>1, <3>2, <3>3 DEF Keeps
  <2>2. CASE ~Unique(sent.slug)
    BY <1>0, <1>1, <2>2 DEF EffectOf, Refused
  <2> QED BY <2>1, <2>2
<1>2. CASE sent.stage = "schedule"
  BY <1>0, <1>2 DEF EffectOf
<1>3. CASE sent.stage \in {"scheduling", "publish", "enable", "enableAgain"}
  <2>1. PICK k \in DOMAIN monitors : k = sent.monitor
    BY <1>3 DEF Past, Unborn
  <2>2. monitors[k] \in MonitorSet
    OBVIOUS
  <2>3. CASE sent.stage = "scheduling"
    <3> DEFINE n == [monitors[k] EXCEPT !.schedule = Scheduled(sent.timed \/ sent.retry, sent.seen)]
    <3>1. EffectOf(sent) = [monitors EXCEPT ![k] = n]
      BY <2>1, <2>3 DEF EffectOf
    <3>2. n \in MonitorSet /\ n.published = monitors[k].published /\ n.enabled = monitors[k].enabled
      BY <2>2 DEF MonitorSet, Scheduled, ScheduleStates
    <3> HIDE DEF n
    <3>3. /\ Keeps([monitors EXCEPT ![k] = n]) /\ [monitors EXCEPT ![k] = n][k] = n
          /\ Len([monitors EXCEPT ![k] = n]) = Len(monitors) /\ Len(monitors) \in Nat
      BY <3>2, Rewritten
    <3> QED BY <2>3, <3>1, <3>3
  <2>4. CASE sent.stage = "publish"
    <3> DEFINE n == [monitors[k] EXCEPT !.published = TRUE]
    <3>1. EffectOf(sent) = [monitors EXCEPT ![k] = n]
      BY <2>1, <2>4 DEF EffectOf
    <3>2. n \in MonitorSet /\ n.published /\ n.enabled = monitors[k].enabled
      BY <2>2 DEF MonitorSet
    <3> HIDE DEF n
    <3>3. /\ Keeps([monitors EXCEPT ![k] = n]) /\ [monitors EXCEPT ![k] = n][k] = n
          /\ Len([monitors EXCEPT ![k] = n]) = Len(monitors) /\ Len(monitors) \in Nat
      BY <3>2, Rewritten
    <3> QED BY <2>1, <2>4, <3>1, <3>2, <3>3
  <2>5. CASE sent.stage \in {"enable", "enableAgain"} /\ ~monitors[k].published
    BY <1>0, <2>1, <2>5 DEF EffectOf, Refused
  <2>6. CASE sent.stage \in {"enable", "enableAgain"} /\ monitors[k].published
    <3> DEFINE n == [monitors[k] EXCEPT !.enabled = TRUE,
                              !.schedule = IF @ = "none" THEN @ ELSE Scheduled(@ # "manual", TRUE)]
    <3>1. EffectOf(sent) = [monitors EXCEPT ![k] = n]
      BY <2>1, <2>6 DEF EffectOf
    <3>2. n \in MonitorSet /\ n.published /\ n.enabled
      BY <2>2, <2>6 DEF MonitorSet, Scheduled, ScheduleStates
    <3> HIDE DEF n
    <3>3. /\ Keeps([monitors EXCEPT ![k] = n]) /\ [monitors EXCEPT ![k] = n][k] = n
          /\ Len([monitors EXCEPT ![k] = n]) = Len(monitors) /\ Len(monitors) \in Nat
      BY <2>6, <3>2, Rewritten
    <3>4. Keeps(EffectOf(sent)) /\ Len(EffectOf(sent)) = Len(monitors)
      BY <3>1, <3>3
    <3>5. EffectOf(sent)[sent.monitor] = n
      BY <2>1, <3>1, <3>3
    <3>6. sent.stage # "creating" /\ sent.stage # "publish"
      BY <2>6
    <3>7. EffectOf(sent)[sent.monitor].published /\ EffectOf(sent)[sent.monitor].enabled
      BY <3>2, <3>5
    <3>8. Len(EffectOf(sent)) <= Len(monitors) + 1
      BY <3>3, <3>4
    <3> QED BY <3>4, <3>6, <3>7, <3>8, Zenon
  <2> QED BY <1>3, <2>3, <2>4, <2>5, <2>6
<1> QED BY <1>1, <1>2, <1>3 DEF Sendable, WriteStages

\* What calls are founded on stays when the monitors do.
LEMMA PastStays ==
    ASSUME NEW ms, Keeps(ms), NEW call \in CallSet, Past(monitors, call)
    PROVE  Past(ms, call)
<1>1. ASSUME call.monitor \in DOMAIN monitors
      PROVE  /\ call.monitor \in DOMAIN ms
             /\ monitors[call.monitor].published => ms[call.monitor].published
             /\ monitors[call.monitor].enabled => ms[call.monitor].enabled
  BY <1>1 DEF Keeps
<1>2. call.stage = "enable" => call.monitor \in DOMAIN monitors
  BY DEF Past, Unborn
<1> QED BY <1>1, <1>2 DEF Past

\* A call of its own moves; the monitors are kept.
LEMMA CallMoves ==
    ASSUME CreationSound, Keeps(monitors'), UNCHANGED form, unseen' \in BOOLEAN,
           NEW t \in Submissions, NEW call \in CallSet, Past(monitors', call),
           calls' = [calls EXCEPT ![t] = call],
           late' \subseteq late \cup {calls[t]},
           late' # late => calls[t] \in CallSet /\ calls[t].stage \in Sendable
    PROVE  CreationSound'
<1>1. late' \subseteq {c \in CallSet : c.stage \in Sendable} /\ \A c \in late' : Past(monitors', c)
  <2>1. \A c \in late : c \in CallSet /\ c.stage \in Sendable /\ Past(monitors', c)
    BY PastStays DEF CreationSound, CallsTyped, Founded
  <2>2. calls[t] \in CallSet => Past(monitors', calls[t])
    <3>1. calls[t] \in CallSet => calls[t] # NoCall
      BY DEF CallSet, NoCall, CreationStages
    <3> QED BY <3>1, PastStays DEF CreationSound, Founded
  <2> QED BY <2>1, <2>2
<1>2. calls' \in [Submissions -> {NoCall} \cup CallSet]
  BY DEF CreationSound, CallsTyped
<1>3. ASSUME NEW u \in Submissions, calls'[u] # NoCall PROVE Past(monitors', calls'[u])
  <2>1. CASE u = t
    BY <2>1 DEF CreationSound, CallsTyped
  <2>2. CASE u # t
    <3>1. calls'[u] = calls[u] /\ calls[u] \in CallSet
      BY <1>3, <2>2 DEF CreationSound, CallsTyped
    <3> QED BY <1>3, <3>1, PastStays DEF CreationSound, Founded
  <2> QED BY <2>1, <2>2
<1>4. monitors' \in Seq(MonitorSet)
  BY DEF Keeps
<1> QED BY <1>1, <1>2, <1>3, <1>4 DEF CreationSound, CallsTyped, Founded, FormTyped

\* The requests that were given up change; the monitors are kept.
LEMMA LateMoves ==
    ASSUME CreationSound, Keeps(monitors'), UNCHANGED <<form, calls>>, unseen' \in BOOLEAN,
           NEW more \in SUBSET CallSet, \A c \in more : c.stage = "creating" /\ ~c.retry,
           late' \subseteq late \cup more
    PROVE  CreationSound'
<1>1. \A c \in late : c \in CallSet /\ c.stage \in Sendable /\ Past(monitors', c)
  BY PastStays DEF CreationSound, CallsTyped, Founded
<1>2. \A c \in more : c \in CallSet /\ c.stage \in Sendable /\ Past(monitors', c)
  BY DEF Past, Sendable, WriteStages, Unborn
<1>3. \A t \in Submissions : calls[t] # NoCall => calls[t] \in CallSet /\ Past(monitors', calls[t])
  BY PastStays DEF CreationSound, CallsTyped, Founded
<1>4. monitors' \in Seq(MonitorSet)
  BY DEF Keeps
<1> QED BY <1>1, <1>2, <1>3, <1>4 DEF CreationSound, CallsTyped, Founded, FormTyped

LEMMA CreationInitially == CreationInit => CreationSound
<1> SUFFICES ASSUME CreationInit PROVE CreationSound
  OBVIOUS
<1>1. calls = [t \in Submissions |-> NoCall] /\ late = {} /\ monitors = <<>> /\ unseen = FALSE
  BY DEF CreationInit
<1>2. FormTyped
  BY DEF CreationInit, FormTyped
<1>3. monitors \in Seq(MonitorSet) /\ unseen \in BOOLEAN
  <2>1. <<>> \in Seq(MonitorSet)
    OBVIOUS
  <2>2. monitors \in Seq(MonitorSet)
    BY <1>1, <2>1, Zenon
  <2> QED BY <1>1, <2>2
<1>4. calls \in [Submissions -> {NoCall} \cup CallSet] /\ \A t \in Submissions : calls[t] = NoCall
  BY <1>1
<1>5. CallsTyped
  BY <1>1, <1>3, <1>4 DEF CallsTyped
<1>6. Founded
  BY <1>1, <1>4 DEF Founded
<1> QED BY <1>2, <1>5, <1>6 DEF CreationSound

\* What a lookup makes of a request that is not made again.
LEMMA LookupFinds ==
    ASSUME monitors \in Seq(MonitorSet), NEW asking \in CallSet, asking.stage = "create",
           NEW n \in LookedUp \cup {0}
    PROVE  /\ Looked(asking, n) \in CallSet /\ Looked(asking, n).retry = asking.retry
           /\ Looked(asking, n).stage \in {"creating", "schedule", "refused"}
           /\ Looked(asking, n).stage = "schedule" => Looked(asking, n).monitor \in DOMAIN monitors
<1>1. n = 0 \/ n \in DOMAIN monitors
  BY DEF LookedUp
<1>2. CASE n = 0
  BY <1>2 DEF Looked, CallSet, CreationStages
<1>3. CASE n # 0 /\ monitors[n].slug = asking.slug
  <2>1. Looked(asking, n) = [asking EXCEPT !.stage = "schedule", !.monitor = n] /\ n \in Nat /\ n \in DOMAIN monitors
    BY <1>1, <1>3 DEF Looked
  <2> QED BY <2>1 DEF CallSet, CreationStages
<1>4. CASE n # 0 /\ monitors[n].slug # asking.slug
  BY <1>4 DEF Looked, CallSet, CreationStages
<1> QED BY <1>2, <1>3, <1>4

LEMMA ServerFunctionSound == CreationSound /\ ServerFunction => CreationSound'
<1> SUFFICES ASSUME CreationSound, ServerFunction PROVE CreationSound'
  OBVIOUS
<1>0. /\ UNCHANGED form /\ monitors \in Seq(MonitorSet) /\ unseen \in BOOLEAN
      /\ \A c \in late : c \in CallSet /\ c.stage \in Sendable /\ Past(monitors, c)
  BY DEF ServerFunction, CreationSound, CallsTyped, Founded
<1>1. Keeps(monitors)
  BY <1>0 DEF Keeps
<1>2. ASSUME NEW t \in Submissions, calls[t].stage \in CreationStages
      PROVE  calls[t] \in CallSet /\ Past(monitors, calls[t]) /\ calls[t] # NoCall
  <2>1. calls[t] # NoCall
    BY <1>2 DEF NoCall, CreationStages
  <2> QED BY <2>1 DEF CreationSound, CallsTyped, Founded
<1>3. ASSUME NEW t \in Submissions, NEW s \in CreationStages, calls[t] \in CallSet
      PROVE  [calls[t] EXCEPT !.stage = s] \in CallSet
  BY <1>3 DEF CallSet
<1>a. CASE LateLanded
  <2>1. PICK sent \in late :
            sent.stage # "create" /\ monitors' = EffectOf(sent) /\ late' = late \ {sent} /\ UNCHANGED <<calls, unseen>>
    BY <1>a DEF LateLanded
  <2>2. Keeps(monitors')
    BY <1>0, <2>1, EffectKeeps
  <2>3. late' \subseteq late \cup {}
    BY <2>1
  <2>4. {} \in SUBSET CallSet /\ \A c \in {} : c.stage = "creating" /\ ~c.retry
    OBVIOUS
  <2>5. unseen' \in BOOLEAN /\ UNCHANGED <<form, calls>>
    BY <1>0, <2>1
  <2> QED BY <2>2, <2>3, <2>4, <2>5, LateMoves
<1>l. CASE LateLookup
  <2>1. PICK asking \in late, n \in LookedUp \cup {0} :
            /\ asking.stage = "create" /\ unseen' \in BOOLEAN
            /\ late' \subseteq late \cup {r \in {Looked(asking, n)} : r.stage = "creating"}
    <3>1. PICK asking \in late :
            /\ asking.stage = "create"
            /\ \/ \E n \in LookedUp :
                    /\ late' = (late \ {asking}) \cup {r \in {Looked(asking, n)} : r.stage = "creating"}
                    /\ unseen' = (unseen \/ (n = 0 /\ Raced))
               \/ late' = (late \ {asking}) \cup {Looked(asking, 0)} /\ unseen' = TRUE
      BY <1>l DEF LateLookup
    <3>2. Looked(asking, 0).stage = "creating"
      BY <1>0, <3>1 DEF Looked, CallSet
    <3>3. ASSUME NEW n \in LookedUp,
                 late' = (late \ {asking}) \cup {r \in {Looked(asking, n)} : r.stage = "creating"},
                 unseen' = (unseen \/ (n = 0 /\ Raced))
          PROVE  late' \subseteq late \cup {r \in {Looked(asking, n)} : r.stage = "creating"} /\ unseen' \in BOOLEAN
      BY <1>0, <3>3
    <3>4. ASSUME late' = (late \ {asking}) \cup {Looked(asking, 0)}, unseen' = TRUE
          PROVE  late' \subseteq late \cup {r \in {Looked(asking, 0)} : r.stage = "creating"} /\ unseen' \in BOOLEAN
      BY <3>2, <3>4
    <3> QED BY <3>1, <3>3, <3>4
  <2> DEFINE more == {r \in {Looked(asking, n)} : r.stage = "creating"}
  <2>2. Looked(asking, n) \in CallSet /\ Looked(asking, n).retry = asking.retry /\ ~asking.retry
    BY <1>0, <2>1, LookupFinds DEF Past
  <2>3. more \in SUBSET CallSet /\ \A c \in more : c.stage = "creating" /\ ~c.retry
    BY <2>2
  <2>4. late' \subseteq late \cup more
    BY <2>1
  <2>5. UNCHANGED <<calls, monitors>>
    BY <1>l DEF LateLookup
  <2> HIDE DEF more
  <2> QED BY <1>0, <1>1, <2>1, <2>3, <2>4, <2>5, LateMoves
<1>m. ASSUME NEW t \in Submissions, CreateLookup(t) PROVE CreationSound'
  <2>1. calls[t].stage = "create" /\ monitors' = monitors /\ late' = late
    BY <1>m DEF CreateLookup, InStage
  <2>2. calls[t] \in CallSet /\ Past(monitors, calls[t])
    BY <1>2, <2>1 DEF CreationStages
  <2>3. ~calls[t].retry
    BY <2>1, <2>2 DEF Past
  <2>4. ASSUME NEW n \in LookedUp \cup {0}, calls' = [calls EXCEPT ![t] = Looked(calls[t], n)], unseen' \in BOOLEAN
        PROVE  CreationSound'
    <3> DEFINE call == Looked(calls[t], n)
    <3>1. /\ call \in CallSet /\ ~call.retry /\ call.stage \in {"creating", "schedule", "refused"}
          /\ call.stage = "schedule" => call.monitor \in DOMAIN monitors
      BY <1>0, <2>1, <2>2, <2>3, LookupFinds
    <3> HIDE DEF call
    <3>2. Past(monitors, call)
      BY <3>1 DEF Past, Unborn
    <3>3. calls' = [calls EXCEPT ![t] = call]
      BY <2>4 DEF call
    <3> QED BY <1>0, <1>1, <2>1, <2>4, <3>1, <3>2, <3>3, CallMoves
  <2>5. ASSUME GoTo(t, "refused"), UNCHANGED unseen PROVE CreationSound'
    <3> DEFINE call == [calls[t] EXCEPT !.stage = "refused"]
    <3>1. call \in CallSet /\ call.stage = "refused"
      BY <2>2 DEF CallSet, CreationStages
    <3>2. calls' = [calls EXCEPT ![t] = call]
      BY <2>5 DEF GoTo
    <3> HIDE DEF call
    <3>3. Past(monitors, call)
      BY <3>1 DEF Past, Unborn, Sendable, WriteStages
    <3> QED BY <1>0, <1>1, <2>1, <2>5, <3>1, <3>2, <3>3, CallMoves
  <2> QED BY <1>0, <1>m, <2>4, <2>5 DEF CreateLookup
<1>b. ASSUME NEW t \in Submissions, ScheduleRead(t) PROVE CreationSound'
  <2>1. calls[t].stage = "schedule" /\ monitors' = monitors /\ late' = late /\ unseen' = unseen
    BY <1>b DEF ScheduleRead, InStage
  <2>2. calls[t] \in CallSet /\ Past(monitors, calls[t]) /\ calls[t].monitor \in DOMAIN monitors
    BY <1>2, <2>1 DEF CreationStages, Past, Unborn
  <2> DEFINE call == [calls[t] EXCEPT !.stage = "scheduling", !.seen = monitors[calls[t].monitor].enabled]
  <2>3. monitors[calls[t].monitor].enabled \in BOOLEAN
    <3>1. monitors[calls[t].monitor] \in MonitorSet
      BY <1>0, <2>2
    <3> QED BY <3>1 DEF MonitorSet
  <2>4. /\ call \in CallSet /\ call.retry = calls[t].retry /\ call.stage = "scheduling"
        /\ call.monitor = calls[t].monitor
    BY <2>2, <2>3 DEF CallSet, CreationStages
  <2>6. calls' = [calls EXCEPT ![t] = call]
    BY <1>b DEF ScheduleRead, CreationSound, CallsTyped
  <2> HIDE DEF call
  <2>5. Past(monitors, call)
    BY <2>1, <2>2, <2>4 DEF Past, Sendable, WriteStages
  <2> QED BY <1>0, <1>1, <2>1, <2>4, <2>5, <2>6, CallMoves
<1>c. ASSUME NEW t \in Submissions, StageAnswered(t) PROVE CreationSound'
  <2>1. calls[t].stage \in WriteStages /\ late' = late /\ unseen' = unseen
    BY <1>c DEF StageAnswered, InStage
  <2>2. calls[t] \in CallSet /\ Past(monitors, calls[t]) /\ calls[t].stage \in Sendable \ {"create"}
    BY <1>2, <2>1 DEF CreationStages, WriteStages, Sendable
  <2>3. CASE /\ ~Refused(calls[t]) /\ monitors' = EffectOf(calls[t])
             /\ calls' = [calls EXCEPT ![t] = [AboutNew(calls[t], monitors') EXCEPT !.stage = NextStage(calls[t])]]
    <3>1. PICK s \in CreationStages : s = NextStage(calls[t])
      BY <2>1 DEF NextStage, WriteStages, CreationStages
    <3>2. Keeps(monitors')
      BY <1>0, <2>2, <2>3, EffectKeeps
    <3> DEFINE call == [AboutNew(calls[t], monitors') EXCEPT !.stage = s]
    <3>3. /\ call \in CallSet /\ call.stage = s /\ call.retry = calls[t].retry
          /\ call.monitor = IF calls[t].stage = "creating" THEN Len(monitors') ELSE calls[t].monitor
      <4>1. Len(monitors') \in Nat
        BY <3>2 DEF Keeps
      <4> QED BY <2>2, <4>1 DEF CallSet, AboutNew
    <3>4. calls' = [calls EXCEPT ![t] = call]
      BY <2>3, <3>1
    <3> HIDE DEF call
    <3>5. Past(monitors', call)
      <4>a. /\ calls[t].stage = "creating" => Len(monitors') \in DOMAIN monitors'
            /\ calls[t].stage = "publish" => monitors'[calls[t].monitor].published
            /\ calls[t].stage \in {"enable", "enableAgain"} =>
                  monitors'[calls[t].monitor].published /\ monitors'[calls[t].monitor].enabled
        BY <1>0, <2>2, <2>3, EffectKeeps
      <4>1. CASE calls[t].stage = "creating"
        <5>1. s = "schedule" /\ ~calls[t].retry
          BY <2>2, <3>1, <4>1 DEF NextStage, Past
        <5> QED BY <3>3, <4>1, <4>a, <5>1 DEF Past, Unborn
      <4>b. Past(monitors', calls[t])
        BY <2>2, <3>2, PastStays
      <4>2. CASE calls[t].stage = "scheduling"
        BY <3>1, <3>3, <4>2, <4>b DEF Past, NextStage, Sendable, WriteStages, Unborn
      <4>3. CASE calls[t].stage = "publish"
        BY <3>1, <3>3, <4>3, <4>a, <4>b DEF Past, NextStage, Sendable, WriteStages, Unborn
      <4>4. CASE calls[t].stage \in {"enable", "enableAgain"}
        BY <3>1, <3>3, <4>4, <4>a, <4>b DEF Past, NextStage, Sendable, WriteStages, Unborn
      <4> QED BY <2>1, <4>1, <4>2, <4>3, <4>4 DEF WriteStages
    <3> QED BY <1>0, <2>1, <3>2, <3>3, <3>4, <3>5, CallMoves
  <2>4. ASSUME monitors' = monitors \/ (calls[t].stage \in {"enable", "enableAgain"} /\ monitors' = HalfEnabled(calls[t])),
               GoTo(t, RefusedStage(calls[t]))
        PROVE  CreationSound'
    <3>1. PICK s \in CreationStages : s = RefusedStage(calls[t])
      BY <2>1 DEF RefusedStage, WriteStages, CreationStages
    <3> DEFINE call == [calls[t] EXCEPT !.stage = s]
    <3>2. Keeps(monitors')
      <4>1. CASE monitors' = monitors
        BY <1>1, <4>1
      <4>2. CASE calls[t].stage \in {"enable", "enableAgain"} /\ monitors' = HalfEnabled(calls[t])
        <5>1. PICK k \in DOMAIN monitors : k = calls[t].monitor
          BY <2>2, <4>2 DEF Past, Unborn
        <5> DEFINE n == [monitors[k] EXCEPT !.enabled = TRUE]
        <5>2. monitors' = [monitors EXCEPT ![k] = n]
          BY <4>2, <5>1 DEF HalfEnabled
        <5>a. monitors[k] \in MonitorSet
          BY <1>0
        <5>3. n \in MonitorSet /\ n.published = monitors[k].published /\ n.enabled
          BY <5>a DEF MonitorSet
        <5> HIDE DEF n
        <5> QED BY <1>0, <5>2, <5>3, Rewritten
      <4> QED BY <2>4, <4>1, <4>2
    <3>3. call \in CallSet /\ call.stage = s /\ call.retry = calls[t].retry /\ call.monitor = calls[t].monitor
      BY <1>3, <2>2 DEF CallSet
    <3>4. calls' = [calls EXCEPT ![t] = call]
      BY <2>4, <3>1 DEF GoTo
    <3> HIDE DEF call
    <3>5. Past(monitors', call)
      <4>1. Past(monitors', calls[t])
        BY <2>2, <3>2, PastStays
      <4> QED BY <2>1, <3>1, <3>3, <4>1 DEF Past, RefusedStage, Sendable, WriteStages, Unborn
    <3> QED BY <1>0, <2>1, <3>2, <3>3, <3>4, <3>5, CallMoves
  <2> QED BY <1>c, <2>3, <2>4 DEF StageAnswered
<1>d. ASSUME NEW t \in Submissions, StageLost(t) PROVE CreationSound'
  <2>1. /\ calls[t].stage \in Sendable /\ monitors' = monitors /\ late' \in {late, late \cup {calls[t]}}
        /\ calls' = [calls EXCEPT ![t].stage = "unavailable"] /\ unseen' = unseen
    BY <1>d DEF StageLost, InStage, GoTo, Sendable
  <2>2. calls[t] \in CallSet
    BY <1>2, <2>1 DEF CreationStages, WriteStages, Sendable
  <2> DEFINE call == [calls[t] EXCEPT !.stage = "unavailable"]
  <2>3. call \in CallSet /\ call.stage = "unavailable"
    BY <2>2 DEF CallSet, CreationStages
  <2>4. Past(monitors, call)
    BY <2>3 DEF Past, Sendable, WriteStages, Unborn
  <2>5. calls' = [calls EXCEPT ![t] = call]
    BY <2>1
  <2> HIDE DEF call
  <2> QED BY <1>0, <1>1, <2>1, <2>2, <2>3, <2>4, <2>5, CallMoves
<1>e. ASSUME NEW t \in Submissions, ScheduleChecked(t) PROVE CreationSound'
  <2>1. calls[t].stage = "check" /\ monitors' = monitors /\ late' = late /\ unseen' = unseen
    BY <1>e DEF ScheduleChecked, InStage
  <2>2. calls[t] \in CallSet /\ Past(monitors, calls[t])
    BY <1>2, <2>1 DEF CreationStages
  <2>3. PICK call \in CallSet :
            /\ call.stage \in {"schedule", "verify", "unavailable"}
            /\ calls' = [calls EXCEPT ![t] = call] /\ call.monitor = calls[t].monitor
    <3>1. CASE calls' = [calls EXCEPT ![t].stage = "schedule", ![t].retry = TRUE]
      <4> DEFINE c == [calls[t] EXCEPT !.stage = "schedule", !.retry = TRUE]
      <4>1. c \in CallSet /\ c.stage = "schedule" /\ calls' = [calls EXCEPT ![t] = c] /\ c.monitor = calls[t].monitor
        BY <2>2, <3>1 DEF CallSet, CreationStages, CreationSound, CallsTyped
      <4> HIDE DEF c
      <4> QED BY <4>1
    <3>2. ASSUME NEW s \in {"verify", "unavailable"}, GoTo(t, s)
          PROVE  \E c \in CallSet : c.stage = s /\ calls' = [calls EXCEPT ![t] = c] /\ c.monitor = calls[t].monitor
      <4> DEFINE c == [calls[t] EXCEPT !.stage = s]
      <4>1. c \in CallSet /\ c.stage = s /\ calls' = [calls EXCEPT ![t] = c] /\ c.monitor = calls[t].monitor
        BY <2>2, <3>2 DEF CallSet, CreationStages, GoTo
      <4> HIDE DEF c
      <4> QED BY <4>1
    <3> QED BY <1>e, <3>1, <3>2 DEF ScheduleChecked
  <2>4. Past(monitors, call)
    BY <2>1, <2>2, <2>3 DEF Past, Sendable, WriteStages, Unborn
  <2> QED BY <1>0, <1>1, <2>1, <2>3, <2>4, CallMoves
<1>f. ASSUME NEW t \in Submissions, ScheduleVerified(t) PROVE CreationSound'
  <2>1. calls[t].stage = "verify" /\ monitors' = monitors /\ late' = late /\ unseen' = unseen
    BY <1>f DEF ScheduleVerified, InStage
  <2>2. calls[t] \in CallSet /\ Past(monitors, calls[t])
    BY <1>2, <2>1 DEF CreationStages
  <2>3. PICK call \in CallSet :
            /\ call.stage \in {"ok", "partial", "unavailable"}
            /\ calls' = [calls EXCEPT ![t] = call] /\ call.monitor = calls[t].monitor
    <3>1. CASE calls' = [calls EXCEPT ![t].stage = "ok", ![t].unread = TRUE]
      <4> DEFINE c == [calls[t] EXCEPT !.stage = "ok", !.unread = TRUE]
      <4>1. c \in CallSet /\ c.stage = "ok" /\ calls' = [calls EXCEPT ![t] = c] /\ c.monitor = calls[t].monitor
        BY <2>2, <3>1 DEF CallSet, CreationStages, CreationSound, CallsTyped
      <4> HIDE DEF c
      <4> QED BY <4>1
    <3>2. ASSUME NEW s \in {"ok", "partial", "unavailable"}, GoTo(t, s)
          PROVE  \E c \in CallSet : c.stage = s /\ calls' = [calls EXCEPT ![t] = c] /\ c.monitor = calls[t].monitor
      <4> DEFINE c == [calls[t] EXCEPT !.stage = s]
      <4>1. c \in CallSet /\ c.stage = s /\ calls' = [calls EXCEPT ![t] = c] /\ c.monitor = calls[t].monitor
        BY <2>2, <3>2 DEF CallSet, CreationStages, GoTo
      <4> HIDE DEF c
      <4> QED BY <4>1
    <3> QED BY <1>f, <3>1, <3>2 DEF ScheduleVerified
  <2>4. Past(monitors, call)
    BY <2>1, <2>2, <2>3 DEF Past, Sendable, WriteStages, Unborn
  <2> QED BY <1>0, <1>1, <2>1, <2>3, <2>4, CallMoves
<1> QED BY <1>a, <1>l, <1>m, <1>b, <1>c, <1>d, <1>e, <1>f DEF ServerFunction

\* What the form does: only Submit makes a call.
LEMMA FormSound ==
    CreationSound /\ (CreationNext \/ TrialNext) /\ ~ServerFunction => CreationSound'
<1> SUFFICES ASSUME CreationSound, CreationNext \/ TrialNext, ~ServerFunction PROVE CreationSound'
  OBVIOUS
<1> USE DEF CreationSound
<1>1. CASE EditForm
  <2>1. form' \in [problem : Problems, slug : Slugs, enabled : BOOLEAN, timed : BOOLEAN]
    BY <1>1 DEF EditForm, FormTyped
  <2> QED BY <1>1, <2>1 DEF EditForm, FormTyped, CallsTyped, Founded
<1>2. CASE ApplyImport
  <2>1. form' \in [problem : Problems, slug : Slugs, enabled : BOOLEAN, timed : BOOLEAN]
    BY <1>2 DEF ApplyImport, FormTyped
  <2> QED BY <1>2, <2>1 DEF ApplyImport, FormTyped, CallsTyped, Founded
<1>3. CASE Submit
  <2>1. PICK t \in Submissions : calls' = [calls EXCEPT ![t] =
            [stage |-> "create", slug |-> form.slug, enabled |-> form.enabled, timed |-> form.timed,
             retry |-> FALSE, seen |-> FALSE, unread |-> FALSE, monitor |-> 0]]
    BY <1>3 DEF Submit
  <2> DEFINE call == [stage |-> "create", slug |-> form.slug, enabled |-> form.enabled, timed |-> form.timed,
             retry |-> FALSE, seen |-> FALSE, unread |-> FALSE, monitor |-> 0]
  <2>2. call \in CallSet /\ call.stage = "create" /\ call.retry = FALSE
    BY DEF CallSet, CreationStages, FormTyped
  <2>3. Past(monitors, call)
    BY <2>2 DEF Past, Unborn
  <2>4. Keeps(monitors) /\ monitors' = monitors /\ late' = late /\ UNCHANGED <<form, unseen>> /\ unseen \in BOOLEAN
    BY <1>3 DEF Keeps, Submit, CallsTyped
  <2>5. calls' = [calls EXCEPT ![t] = call]
    BY <2>1
  <2> HIDE DEF call
  <2> QED BY <2>2, <2>3, <2>4, <2>5, CallMoves
<1>4. CASE UNCHANGED <<form, calls, late, monitors, unseen>>
  BY <1>4 DEF FormTyped, CallsTyped, Founded
<1> QED
  BY <1>1, <1>2, <1>3, <1>4 DEF CreationNext, TrialNext, SubmitRefused, CallAnswered, CallThrown,
     RequestDraftPreview, ConfirmDraftPreview, DraftPreviewAnswered, CancelDraftPreview

LEMMA CreationInductive == CreationSound /\ [CreationNext \/ TrialNext]_creationVars => CreationSound'
<1> SUFFICES ASSUME CreationSound, [CreationNext \/ TrialNext]_creationVars PROVE CreationSound'
  OBVIOUS
<1>1. CASE UNCHANGED creationVars
  BY <1>1 DEF creationVars, CreationSound, FormTyped, CallsTyped, Founded
<1> QED BY <1>1, ServerFunctionSound, FormSound

\* Unless a lookup failed or raced with another replica, one request creates, and only
\* while there is no monitor.
Alone ==
    /\ \A t, u \in CreatingNow : t = u
    /\ \A c, d \in CreatingLate : c = d
    /\ CreatingNow = {} \/ CreatingLate = {}
    /\ Raced => monitors = <<>>
    /\ Len(monitors) <= 1
Sole == ~unseen => Alone

LEMMA StaysAlone ==
    ASSUME CreationSound, Alone, Len(monitors') = Len(monitors), monitors' \in Seq(MonitorSet),
           CreatingNow' \subseteq CreatingNow, CreatingLate' \subseteq CreatingLate
    PROVE  Alone'
<1>1. monitors = <<>> => monitors' = <<>>
  BY DEF CreationSound, CallsTyped
<1> QED BY <1>1 DEF Alone, Raced

\* A request goes on to create, and nobody else does.
LEMMA BecomesAlone ==
    ASSUME ~Raced, monitors = <<>>, monitors' = monitors,
           \/ \E t : CreatingNow' \subseteq {t} /\ CreatingLate' = {}
           \/ \E c : CreatingLate' \subseteq {c} /\ CreatingNow' = {}
    PROVE  Alone'
  BY DEF Alone, Raced

LEMMA CallLeaves ==
    ASSUME CreationSound, NEW t \in Submissions, NEW call, calls' = [calls EXCEPT ![t] = call],
           call.stage # "creating"
    PROVE  CreatingNow' = CreatingNow \ {t}
  BY DEF CreatingNow, CreationSound, CallsTyped

\* The requests of the server function, but for the lookups and creations.
LEMMA OthersStayAlone ==
    ASSUME CreationSound, Alone, NEW t \in Submissions,
           ScheduleRead(t) \/ ScheduleChecked(t) \/ ScheduleVerified(t)
    PROVE  Alone'
<1>1. PICK call : call.stage # "creating" /\ calls' = [calls EXCEPT ![t] = call]
  <2>1. calls[t] \in CallSet
    <3>1. calls[t] # NoCall
      BY DEF ScheduleRead, ScheduleChecked, ScheduleVerified, InStage, NoCall
    <3> QED BY <3>1 DEF CreationSound, CallsTyped
  <2>2. ASSUME NEW stage \in {"verify", "unavailable", "partial", "ok"}, GoTo(t, stage)
        PROVE  \E call : call.stage # "creating" /\ calls' = [calls EXCEPT ![t] = call]
    <3>1. [calls[t] EXCEPT !.stage = stage].stage = stage
      BY <2>1 DEF CallSet
    <3> QED BY <2>2, <3>1 DEF GoTo
  <2>3. ASSUME calls' = [calls EXCEPT ![t].stage = "scheduling", ![t].seen = monitors[calls[t].monitor].enabled]
        PROVE  \E call : call.stage # "creating" /\ calls' = [calls EXCEPT ![t] = call]
    <3> DEFINE c == [calls[t] EXCEPT !.stage = "scheduling", !.seen = monitors[calls[t].monitor].enabled]
    <3>1. c.stage = "scheduling" /\ calls' = [calls EXCEPT ![t] = c]
      BY <2>1, <2>3 DEF CallSet, CreationSound, CallsTyped
    <3> QED BY <3>1
  <2>4. ASSUME calls' = [calls EXCEPT ![t].stage = "schedule", ![t].retry = TRUE]
        PROVE  \E call : call.stage # "creating" /\ calls' = [calls EXCEPT ![t] = call]
    <3> DEFINE c == [calls[t] EXCEPT !.stage = "schedule", !.retry = TRUE]
    <3>1. c.stage = "schedule" /\ calls' = [calls EXCEPT ![t] = c]
      BY <2>1, <2>4 DEF CallSet, CreationSound, CallsTyped
    <3> QED BY <3>1
  <2>5. ASSUME calls' = [calls EXCEPT ![t].stage = "ok", ![t].unread = TRUE]
        PROVE  \E call : call.stage # "creating" /\ calls' = [calls EXCEPT ![t] = call]
    <3> DEFINE c == [calls[t] EXCEPT !.stage = "ok", !.unread = TRUE]
    <3>1. c.stage = "ok" /\ calls' = [calls EXCEPT ![t] = c]
      BY <2>1, <2>5 DEF CallSet, CreationSound, CallsTyped
    <3> QED BY <3>1
  <2>6. CASE ScheduleVerified(t)
    <3>1. PICK stage \in {"partial", "ok", "unavailable"} :
            \/ GoTo(t, stage)
            \/ calls' = [calls EXCEPT ![t].stage = "ok", ![t].unread = TRUE]
      BY <2>6 DEF ScheduleVerified
    <3> QED BY <2>2, <2>5, <3>1
  <2> QED BY <2>2, <2>3, <2>4, <2>6 DEF ScheduleRead, ScheduleChecked
<1>2. CreatingNow' = CreatingNow \ {t}
  BY <1>1, CallLeaves
<1>3. monitors' = monitors /\ CreatingLate' = CreatingLate /\ monitors \in Seq(MonitorSet)
  BY DEF ScheduleRead, ScheduleChecked, ScheduleVerified, CreatingLate, CreationSound, CallsTyped
<1> QED BY <1>2, <1>3, StaysAlone

LEMMA AnswerStaysAlone ==
    ASSUME CreationSound, Alone, NEW t \in Submissions, StageAnswered(t)
    PROVE  Alone'
<1>1. calls[t].stage \in WriteStages /\ late' = late /\ calls[t] # NoCall
  BY DEF StageAnswered, InStage, WriteStages, NoCall
<1>2. /\ calls[t] \in CallSet /\ Past(monitors, calls[t]) /\ calls[t].stage \in Sendable \ {"create"}
      /\ monitors \in Seq(MonitorSet)
  BY <1>1 DEF CreationSound, CallsTyped, Founded, WriteStages, Sendable
<1>3. CreatingLate' = CreatingLate
  BY <1>1 DEF CreatingLate
<1>4. CreatingNow' = CreatingNow \ {t}
  <2>1. CASE calls' = [calls EXCEPT ![t] = [AboutNew(calls[t], monitors') EXCEPT !.stage = NextStage(calls[t])]]
    <3>1. NextStage(calls[t]) # "creating"
      BY <1>1 DEF NextStage, WriteStages
    <3>2. [AboutNew(calls[t], monitors') EXCEPT !.stage = NextStage(calls[t])].stage = NextStage(calls[t])
      BY <1>2 DEF AboutNew, CallSet
    <3> QED BY <2>1, <3>1, <3>2, CallLeaves
  <2>2. CASE GoTo(t, RefusedStage(calls[t]))
    <3>1. RefusedStage(calls[t]) # "creating"
      BY <1>1 DEF RefusedStage, WriteStages
    <3>2. [calls[t] EXCEPT !.stage = RefusedStage(calls[t])].stage = RefusedStage(calls[t])
      BY <1>2 DEF CallSet
    <3> QED BY <2>2, <3>1, <3>2, CallLeaves DEF GoTo
  <2> QED BY <2>1, <2>2 DEF StageAnswered
<1>5. CASE calls[t].stage = "creating"
  <2>1. t \in CreatingNow
    BY <1>5 DEF CreatingNow
  <2>2. CreatingNow' = {} /\ CreatingLate' = {} /\ Len(monitors) = 0
    BY <1>3, <1>4, <2>1 DEF Alone, Raced
  <2>3. Len(monitors') <= 1
    BY <1>2, <1>5, <2>2, EffectKeeps DEF StageAnswered
  <2> QED BY <2>2, <2>3 DEF Alone, Raced
<1>6. CASE calls[t].stage # "creating"
  <2>1. Len(monitors') = Len(monitors) /\ monitors' \in Seq(MonitorSet)
    <3>1. CASE monitors' = EffectOf(calls[t])
      BY <1>2, <1>6, <3>1, EffectKeeps DEF Keeps
    <3>2. CASE monitors' = monitors
      BY <1>2, <3>2
    <3>3. CASE calls[t].stage \in {"enable", "enableAgain"} /\ monitors' = HalfEnabled(calls[t])
      <4>1. PICK k \in DOMAIN monitors : k = calls[t].monitor
        BY <1>2, <3>3 DEF Past, Unborn
      <4> DEFINE n == [monitors[k] EXCEPT !.enabled = TRUE]
      <4>2. monitors' = [monitors EXCEPT ![k] = n]
        BY <3>3, <4>1 DEF HalfEnabled
      <4>3. monitors[k] \in MonitorSet
        BY <1>2
      <4>4. n \in MonitorSet
        BY <4>3 DEF MonitorSet
      <4> HIDE DEF n
      <4> QED BY <1>2, <4>2, <4>4
    <3> QED BY <3>1, <3>2, <3>3 DEF StageAnswered
  <2> QED BY <1>3, <1>4, <2>1, StaysAlone
<1> QED BY <1>5, <1>6

LEMMA LostStaysAlone ==
    ASSUME CreationSound, Alone, NEW t \in Submissions, StageLost(t)
    PROVE  Alone'
<1>1. /\ calls[t] # NoCall /\ monitors' = monitors /\ late' \in {late, late \cup {calls[t]}}
      /\ GoTo(t, "unavailable")
  BY DEF StageLost, InStage, WriteStages, NoCall
<1>2. calls[t] \in CallSet /\ monitors \in Seq(MonitorSet)
  BY <1>1 DEF CreationSound, CallsTyped
<1>3. [calls[t] EXCEPT !.stage = "unavailable"].stage = "unavailable"
  BY <1>2 DEF CallSet
<1>4. CreatingNow' = CreatingNow \ {t}
  BY <1>1, <1>3, CallLeaves DEF GoTo
<1>5. CASE calls[t].stage = "creating"
  <2>1. t \in CreatingNow
    BY <1>5 DEF CreatingNow
  <2>2. CreatingNow' = {} /\ CreatingLate = {} /\ monitors' = <<>>
    BY <1>1, <1>4, <2>1 DEF Alone, Raced
  <2>3. \A c \in CreatingLate' : c = calls[t]
    BY <1>1, <2>2 DEF CreatingLate
  <2>4. Len(monitors') <= 1
    BY <2>2
  <2> QED BY <2>2, <2>3, <2>4 DEF Alone
<1>6. CASE calls[t].stage # "creating"
  <2>1. CreatingLate' = CreatingLate
    BY <1>1, <1>6 DEF CreatingLate
  <2> QED BY <1>1, <1>2, <1>4, <2>1, StaysAlone
<1> QED BY <1>5, <1>6

LEMMA LookupStaysAlone ==
    ASSUME CreationSound, Alone, ~unseen', NEW t \in Submissions, CreateLookup(t)
    PROVE  Alone'
<1>1. calls[t] # NoCall /\ calls[t].stage = "create" /\ monitors' = monitors /\ late' = late
  BY DEF CreateLookup, InStage, NoCall
<1>2. calls[t] \in CallSet /\ monitors \in Seq(MonitorSet)
  BY <1>1 DEF CreationSound, CallsTyped
<1>3. CreatingLate' = CreatingLate
  BY <1>1 DEF CreatingLate
<1>4. CASE GoTo(t, "refused")
  <2>1. [calls[t] EXCEPT !.stage = "refused"].stage = "refused"
    BY <1>2 DEF CallSet
  <2>2. CreatingNow' = CreatingNow \ {t}
    BY <1>4, <2>1, CallLeaves DEF GoTo
  <2> QED BY <1>1, <1>2, <1>3, <2>2, StaysAlone
<1>5. ASSUME NEW n \in LookedUp, calls' = [calls EXCEPT ![t] = Looked(calls[t], n)], ~(n = 0 /\ Raced)
      PROVE  Alone'
  <2>1. CASE n = 0
    <3>1. monitors = <<>> /\ ~Raced
      BY <1>2, <1>5, <2>1 DEF LookedUp
    <3>2. CreatingNow' \subseteq {t}
      BY <1>5, <3>1 DEF CreatingNow, Raced, CreationSound, CallsTyped
    <3> QED BY <1>1, <1>3, <3>1, <3>2, BecomesAlone DEF Raced
  <2>2. CASE n # 0
    <3>1. Looked(calls[t], n).stage # "creating"
      BY <1>2, <2>2 DEF Looked, CallSet
    <3> QED BY <1>1, <1>2, <1>3, <1>5, <3>1, CallLeaves, StaysAlone
  <2> QED BY <2>1, <2>2
<1> QED BY <1>4, <1>5 DEF CreateLookup

LEMMA LateStaysAlone ==
    ASSUME CreationSound, Alone, ~unseen', LateLanded \/ LateLookup
    PROVE  Alone'
<1>1. /\ monitors \in Seq(MonitorSet) /\ CreatingNow' = CreatingNow
      /\ \A c \in late : c \in CallSet /\ c.stage \in Sendable /\ Past(monitors, c)
  BY DEF CreationSound, CallsTyped, Founded, LateLanded, LateLookup, CreatingNow
<1>2. CASE LateLanded
  <2>1. PICK asking \in late :
            asking.stage # "create" /\ monitors' = EffectOf(asking) /\ late' = late \ {asking}
    BY <1>2 DEF LateLanded
  <2>2. CreatingLate' = CreatingLate \ {asking}
    BY <2>1 DEF CreatingLate
  <2>3. CASE asking.stage = "creating"
    <3>1. asking \in CreatingLate
      BY <2>3 DEF CreatingLate
    <3>2. CreatingNow' = {} /\ CreatingLate' = {} /\ Len(monitors) = 0
      BY <1>1, <2>2, <3>1 DEF Alone, Raced
    <3>3. Len(monitors') <= 1
      BY <1>1, <2>1, <3>2, EffectKeeps
    <3> QED BY <3>2, <3>3 DEF Alone, Raced
  <2>4. CASE asking.stage # "creating"
    <3>1. Len(monitors') = Len(monitors) /\ monitors' \in Seq(MonitorSet)
      BY <1>1, <2>1, <2>4, EffectKeeps DEF Keeps
    <3> QED BY <1>1, <2>2, <3>1, StaysAlone
  <2> QED BY <2>3, <2>4
<1>3. CASE LateLookup
  <2>1. PICK asking \in late, n \in LookedUp :
            /\ asking.stage = "create" /\ ~(n = 0 /\ Raced)
            /\ late' = (late \ {asking}) \cup {r \in {Looked(asking, n)} : r.stage = "creating"}
    BY <1>3 DEF LateLookup
  <2>2. monitors' = monitors
    BY <1>3 DEF LateLookup
  <2>3. CASE n = 0
    <3>1. monitors = <<>> /\ ~Raced
      BY <1>1, <2>1, <2>3 DEF LookedUp
    <3>2. CreatingLate' \subseteq {Looked(asking, n)} /\ CreatingNow' = {}
      BY <1>1, <2>1, <3>1 DEF CreatingLate, Raced
    <3> QED BY <2>2, <3>1, <3>2, BecomesAlone
  <2>4. CASE n # 0
    <3>1. Looked(asking, n).stage # "creating"
      BY <1>1, <2>4 DEF Looked, CallSet
    <3>2. CreatingLate' \subseteq CreatingLate
      BY <2>1, <3>1 DEF CreatingLate
    <3> QED BY <1>1, <2>2, <3>2, StaysAlone
  <2> QED BY <2>3, <2>4
<1> QED BY <1>2, <1>3

LEMMA SoleInductive ==
    CreationSound /\ Sole /\ [CreationNext \/ TrialNext]_creationVars => Sole'
<1> SUFFICES ASSUME CreationSound, Sole, [CreationNext \/ TrialNext]_creationVars, ~unseen' PROVE Alone'
  BY DEF Sole
<1>1. Alone /\ monitors \in Seq(MonitorSet)
  <2>1. ~unseen
    <3>1. CASE UNCHANGED unseen
      BY <3>1
    <3>2. CASE ServerFunction
      BY <3>2 DEF ServerFunction, LateLanded, LateLookup, CreateLookup, ScheduleRead, StageAnswered, StageLost,
         ScheduleChecked, ScheduleVerified
    <3>3. CASE CreationNext \/ TrialNext
      BY <3>1, <3>2, <3>3 DEF CreationNext, TrialNext, EditForm, ApplyImport, Submit, SubmitRefused, CallAnswered,
         CallThrown, RequestDraftPreview, ConfirmDraftPreview, DraftPreviewAnswered, CancelDraftPreview
    <3> QED BY <3>1, <3>3 DEF creationVars
  <2> QED BY <2>1 DEF Sole, CreationSound, CallsTyped
<1>2. CASE ServerFunction
  BY <1>1, <1>2, OthersStayAlone, AnswerStaysAlone, LostStaysAlone, LookupStaysAlone, LateStaysAlone
     DEF ServerFunction
<1>3. CASE Submit
  <2>1. PICK t \in Submissions : calls[t] = NoCall /\ calls' = [calls EXCEPT ![t] =
            [stage |-> "create", slug |-> form.slug, enabled |-> form.enabled, timed |-> form.timed,
             retry |-> FALSE, seen |-> FALSE, unread |-> FALSE, monitor |-> 0]]
    BY <1>3 DEF Submit
  <2>2. CreatingNow' = CreatingNow \ {t}
    <3> DEFINE call == [stage |-> "create", slug |-> form.slug, enabled |-> form.enabled, timed |-> form.timed,
             retry |-> FALSE, seen |-> FALSE, unread |-> FALSE, monitor |-> 0]
    <3>1. call.stage # "creating" /\ calls' = [calls EXCEPT ![t] = call]
      BY <2>1
    <3> HIDE DEF call
    <3> QED BY <3>1, CallLeaves
  <2>3. CreatingLate' = CreatingLate /\ monitors' = monitors
    BY <1>3 DEF Submit, CreatingLate
  <2> QED BY <1>1, <2>2, <2>3, StaysAlone
<1>4. CASE UNCHANGED <<calls, late, monitors>>
  <2>1. CreatingNow' = CreatingNow /\ CreatingLate' = CreatingLate
    BY <1>4 DEF CreatingNow, CreatingLate
  <2> QED BY <1>1, <1>4, <2>1, StaysAlone
<1>5. CASE UNCHANGED creationVars
  BY <1>4, <1>5 DEF creationVars
<1>6. CASE CreationNext \/ TrialNext
  BY <1>2, <1>3, <1>4, <1>6 DEF CreationNext, TrialNext, EditForm, ApplyImport, SubmitRefused, CallAnswered,
     CallThrown, RequestDraftPreview, ConfirmDraftPreview, DraftPreviewAnswered, CancelDraftPreview
<1> QED BY <1>5, <1>6

\* However often a form is submitted, and whatever requests are lost on the way
\* or land late, it creates one monitor at most ("creationId", and the
\* Idempotency-Key under which the API keeps the answer): the lock of a replica keeps
\* its lookups and creations apart, so a second monitor takes a lookup that failed,
\* or two replicas.
THEOREM OneMonitor == CreationSpec => []OneMonitorPerForm
<1>1. CreationSound /\ Sole => OneMonitorPerForm
  <2> SUFFICES ASSUME CreationSound, Sole, ~unseen PROVE ~(Len(monitors) > 1)
    BY DEF OneMonitorPerForm, CreationSound, CallsTyped
  <2>1. Len(monitors) <= 1 /\ Len(monitors) \in Nat
    BY DEF Sole, Alone, CreationSound, CallsTyped
  <2> QED BY <2>1
<1>2. CreationInit => Sole
  BY DEF CreationInit, Sole, Alone, Raced, CreatingNow, CreatingLate, NoCall
<1> QED BY <1>1, <1>2, CreationInitially, CreationInductive, SoleInductive, PTL DEF CreationSpec

LEMMA LookupNotOk ==
    ASSUME CreationSound, NEW t \in Submissions, CreateLookup(t)
    PROVE  calls'[t].stage # "ok"
<1>1. calls[t].stage = "create" /\ calls[t] # NoCall
  BY DEF CreateLookup, InStage, NoCall
<1>2. calls[t] \in CallSet /\ monitors \in Seq(MonitorSet)
  BY <1>1 DEF CreationSound, CallsTyped
<1>3. ASSUME NEW n \in LookedUp \cup {0}, calls' = [calls EXCEPT ![t] = Looked(calls[t], n)]
      PROVE  calls'[t].stage # "ok"
  BY <1>1, <1>2, <1>3, LookupFinds DEF CreationSound, CallsTyped
<1>4. ASSUME GoTo(t, "refused") PROVE calls'[t].stage # "ok"
  BY <1>2, <1>4 DEF GoTo, CreationSound, CallsTyped, CallSet
<1> QED BY <1>3, <1>4 DEF CreateLookup

LEMMA OkIsFounded ==
    ASSUME CreationSound, [CreationNext \/ TrialNext]_creationVars, NEW t \in Submissions,
           calls[t].stage # "ok", calls'[t].stage = "ok", calls[t].enabled
    PROVE  /\ monitors[calls[t].monitor].published /\ monitors[calls[t].monitor].enabled
           /\ monitors[calls[t].monitor].schedule = "waiting" => calls'[t].unread \/ ~calls[t].timed
<1>0. \A u \in Submissions : calls[u] \in {NoCall} \cup CallSet /\ (calls[u] # NoCall => Past(monitors, calls[u]))
  BY DEF CreationSound, CallsTyped, Founded
<1>1. PICK u \in Submissions : CreateLookup(u) \/ ScheduleRead(u) \/ StageAnswered(u) \/ StageLost(u) \/ ScheduleChecked(u) \/ ScheduleVerified(u)
  <2>1. ServerFunction
    <3>1. ~UNCHANGED calls
      OBVIOUS
    <3>2. ~Submit
      <4> SUFFICES ASSUME Submit PROVE FALSE
        OBVIOUS
      <4>1. PICK u \in Submissions : calls' = [calls EXCEPT ![u] =
                [stage |-> "create", slug |-> form.slug, enabled |-> form.enabled, timed |-> form.timed,
                 retry |-> FALSE, seen |-> FALSE, unread |-> FALSE, monitor |-> 0]]
        BY DEF Submit
      <4>2. calls'[t] = calls[t] \/ calls'[t].stage = "create"
        BY <4>1 DEF CreationSound, CallsTyped
      <4> QED BY <4>2
    <3> QED
      BY <3>1, <3>2 DEF creationVars, CreationNext, TrialNext, EditForm, ApplyImport,
         SubmitRefused, CallAnswered,
         CallThrown, RequestDraftPreview, ConfirmDraftPreview, DraftPreviewAnswered, CancelDraftPreview
  <2> QED BY <2>1 DEF ServerFunction, LateLanded, LateLookup
<1>2. u = t
  <2> SUFFICES ASSUME u # t PROVE calls'[t] = calls[t]
    OBVIOUS
  <2> QED
    BY <1>1 DEF CreateLookup, ScheduleRead, StageAnswered, StageLost, ScheduleChecked, ScheduleVerified, GoTo,
       CreationSound, CallsTyped
<1>3. ~CreateLookup(t) /\ ~ScheduleRead(t) /\ ~StageLost(t) /\ ~ScheduleChecked(t)
  BY <1>0, LookupNotOk DEF ScheduleRead, StageLost, ScheduleChecked, GoTo, CreationSound, CallsTyped, NoCall, CallSet
<1>4. ~StageAnswered(t)
  <2> SUFFICES ASSUME StageAnswered(t) PROVE FALSE
    OBVIOUS
  <2>1. calls[t].stage \in WriteStages /\ calls[t] \in CallSet
    BY <1>0 DEF StageAnswered, InStage, NoCall, WriteStages
  <2>2. PICK s : s \in {NextStage(calls[t]), RefusedStage(calls[t])} /\ calls'[t].stage = s
    <3>1. CASE calls' = [calls EXCEPT ![t] = [AboutNew(calls[t], monitors') EXCEPT !.stage = NextStage(calls[t])]]
      BY <2>1, <3>1 DEF AboutNew, CreationSound, CallsTyped, CallSet
    <3>2. CASE GoTo(t, RefusedStage(calls[t]))
      BY <2>1, <3>2 DEF GoTo, CreationSound, CallsTyped, CallSet
    <3> QED BY <3>1, <3>2 DEF StageAnswered
  <2>3. s # "ok"
    BY <2>1, <2>2 DEF NextStage, RefusedStage, WriteStages
  <2> QED BY <2>2, <2>3
<1>5. ScheduleVerified(t)
  BY <1>1, <1>2, <1>3, <1>4
<1>6. calls[t].stage = "verify" /\ calls[t] \in CallSet
  BY <1>0, <1>5 DEF ScheduleVerified, InStage, NoCall
<1>7. monitors[calls[t].monitor].published /\ monitors[calls[t].monitor].enabled
  BY <1>0, <1>6 DEF Past, NoCall, CallSet
<1>8. ASSUME monitors[calls[t].monitor].schedule = "waiting", calls[t].timed PROVE calls'[t].unread
  <2>1. CASE GoTo(t, IF calls[t].timed /\ monitors[calls[t].monitor].schedule = "waiting" THEN "partial" ELSE "ok")
    BY <1>6, <1>8, <2>1 DEF GoTo, CreationSound, CallsTyped, CallSet
  <2>2. CASE GoTo(t, "unavailable")
    BY <1>6, <2>2 DEF GoTo, CreationSound, CallsTyped, CallSet
  <2>3. CASE calls' = [calls EXCEPT ![t].stage = "ok", ![t].unread = TRUE]
    BY <1>6, <2>3 DEF CreationSound, CallsTyped, CallSet
  <2> QED BY <1>5, <2>1, <2>2, <2>3 DEF ScheduleVerified
<1> QED BY <1>7, <1>8

\* A call that answers that the monitor was created and enabled leaves it
\* published, enabled and scheduled, whatever landed late in between: only a
\* schedule that could not be read may still be waiting.
THEOREM CreatedMonitorRuns == CreationSpec => CreatedRuns
<1>1. CreationSound /\ [CreationNext \/ TrialNext]_creationVars =>
        [\A t \in Submissions :
            calls[t].stage # "ok" /\ calls'[t].stage = "ok" /\ calls[t].enabled =>
                LET itsMonitor == monitors[calls[t].monitor]
                IN  /\ itsMonitor.published /\ itsMonitor.enabled
                    /\ itsMonitor.schedule = "waiting" => calls'[t].unread \/ ~calls[t].timed]_creationVars
  BY OkIsFounded
<1> QED BY <1>1, CreationInitially, CreationInductive, PTL DEF CreationSpec, CreatedRuns
-----------------------------------------------------------------------------
(***************************************************************************)
(* The workspace of an application.  Whenever the page will show something *)
(* else than what is stored, a request that changed it has yet to make the *)
(* page load again, or an answer, a setup or a load was lost since a load  *)
(* last read.                                                              *)
(***************************************************************************)
SendingFields == {"kind", "about", "body", "live", "stage"}
Changes == LoadsAfter \cup SetupFollows
Reloading(r) == r.kind \in Changes /\ r.stage \in {"done", "fetching"}
SendingsTyped == \A r \in sendings : DOMAIN r = SendingFields
LoadTyped == load = NoLoad \/ load.stage \in {"asked", "read"}
\* What the page will show, when no load begins, is what is stored.
Current ==
    \/ load = NoLoad /\ listed = registered
    \/ load.stage = "asked"
    \/ load.stage = "read" /\ load.found = registered
BehindStored == Current \/ lost \/ \E r \in sendings : Reloading(r)
WorkspaceSound == SendingsTyped /\ LoadTyped /\ BehindStored

LEMMA WorkspaceInitially == ApplicationInit => WorkspaceSound
  BY DEF ApplicationInit, WorkspaceSound, SendingsTyped, LoadTyped, BehindStored, Current

\* What leaves the stored and the listed alone, and what is sent, reloads nothing.
LEMMA SentSound ==
    ASSUME WorkspaceSound, UNCHANGED <<registered, listed, load, lost>>, sendings \subseteq sendings',
           \A r \in sendings' \ sendings : DOMAIN r = SendingFields
    PROVE  WorkspaceSound'
  BY DEF WorkspaceSound, SendingsTyped, LoadTyped, Current, BehindStored, Reloading

\* A load that begins will read what is stored.
LEMMA BegunSound ==
    ASSUME SendingsTyped', NEW s, LoadBegins(s)
    PROVE  WorkspaceSound'
  BY DEF LoadBegins, WorkspaceSound, LoadTyped, Current, BehindStored

\* A request that the server answers was only sent: those that reload the page stay.
LEMMA MovesOn ==
    ASSUME WorkspaceSound, NEW r \in sendings, NEW stage, UNCHANGED <<listed, load, lost>>,
           r.stage = "sent", sendings' = (sendings \ {r}) \cup {[r EXCEPT !.stage = stage]},
           registered' = registered \/ (r.kind \in Changes /\ stage = "done")
    PROVE  WorkspaceSound'
<1> DEFINE moved == [r EXCEPT !.stage = stage]
<1>1. DOMAIN moved = SendingFields /\ moved.stage = stage /\ moved.kind = r.kind
  BY DEF WorkspaceSound, SendingsTyped, SendingFields
<1>2. sendings' = (sendings \ {r}) \cup {moved}
  OBVIOUS
<1> HIDE DEF moved
<1>3. SendingsTyped' /\ LoadTyped'
  BY <1>1, <1>2 DEF WorkspaceSound, SendingsTyped, LoadTyped
<1>4. CASE registered' = registered
  <2>1. \A w \in sendings : Reloading(w) => w \in sendings'
    BY <1>2 DEF Reloading
  <2>2. Current => Current'
    BY <1>4 DEF Current
  <2> QED BY <1>3, <1>4, <2>1, <2>2 DEF WorkspaceSound, BehindStored, Reloading
<1>5. CASE r.kind \in Changes /\ stage = "done"
  BY <1>1, <1>2, <1>3, <1>5 DEF WorkspaceSound, BehindStored, Reloading
<1> QED BY <1>4, <1>5

LEMMA HandleSound == WorkspaceSound /\ Handle => WorkspaceSound'
<1> SUFFICES ASSUME WorkspaceSound, Handle PROVE WorkspaceSound'
  OBVIOUS
<1>1. PICK r \in sendings :
        /\ r.stage = "sent"
        /\ SettingsSaved(r) \/ ServiceSaved(r) \/ ServiceDeleted(r) \/ ReceiverSaved(r) \/ Assigned(r) \/ Read(r) \/ Rejected(r)
  BY DEF Handle
<1>2. \/ /\ sendings' = (sendings \ {r}) \cup {[r EXCEPT !.stage = "done"]}
         /\ UNCHANGED <<listed, load, lost>>
         /\ registered' = registered \/ r.kind \in Changes
      \/ /\ sendings' = (sendings \ {r}) \cup {[r EXCEPT !.stage = "refused"]}
         /\ UNCHANGED <<registered, listed, load, lost>>
  <2>1. ASSUME NEW written, Becomes(r, written), r.kind \in Changes \/ written = registered
        PROVE  <1>2!1
    BY <2>1 DEF Becomes
  <2> USE DEF Changes, LoadsAfter, SetupFollows
  <2>2. SettingsSaved(r) => <1>2!1
    BY <2>1 DEF SettingsSaved
  <2>3. ServiceSaved(r) => <1>2!1
    BY <2>1 DEF ServiceSaved
  <2>4. ServiceDeleted(r) => <1>2!1
    BY <2>1 DEF ServiceDeleted
  <2>5. ReceiverSaved(r) => <1>2!1
    BY <2>1 DEF ReceiverSaved
  <2>6. Assigned(r) => <1>2!1
    BY <2>1 DEF Assigned
  <2>7. Read(r) => <1>2!1
    BY <2>1 DEF Read
  <2>8. Rejected(r) => <1>2!2
    BY DEF Rejected
  <2> QED BY <1>1, <2>2, <2>3, <2>4, <2>5, <2>6, <2>7, <2>8
<1> QED BY <1>1, <1>2, MovesOn

LEMMA AnswersSound ==
    WorkspaceSound /\ (SendingFailed \/ SendingConfirmed \/ SetupFetched) => WorkspaceSound'
<1> SUFFICES ASSUME WorkspaceSound PROVE (SendingFailed \/ SendingConfirmed \/ SetupFetched) => WorkspaceSound'
  OBVIOUS
<1>1. ASSUME SendingFailed PROVE WorkspaceSound'
  <2>1. PICK r \in sendings :
            /\ (r.stage = "refused" /\ lost' = lost) \/ lost' = TRUE
            /\ sendings' = sendings \ {r} /\ UNCHANGED <<registered, listed, load>>
    BY <1>1 DEF SendingFailed, Leave
  <2>2. Current => Current'
    BY <2>1 DEF Current
  <2> QED BY <2>1, <2>2 DEF WorkspaceSound, SendingsTyped, LoadTyped, BehindStored, Reloading
<1>2. ASSUME SendingConfirmed PROVE WorkspaceSound'
  <2>1. PICK r \in sendings :
            /\ r.stage = "done"
            /\ IF r.kind \in SetupFollows
               THEN sendings' = (sendings \ {r}) \cup {[r EXCEPT !.stage = "fetching"]} /\ UNCHANGED load
               ELSE sendings' = sendings \ {r} /\ Reload(r)
            /\ UNCHANGED <<registered, listed, lost>>
    BY <1>2 DEF SendingConfirmed, Leave
  <2>2. CASE r.kind \in SetupFollows
    <3>1. PICK moved : moved = [r EXCEPT !.stage = "fetching"]
      OBVIOUS
    <3>2. DOMAIN moved = SendingFields /\ moved.stage = "fetching" /\ moved.kind = r.kind
      BY <3>1 DEF WorkspaceSound, SendingsTyped, SendingFields
    <3>3. sendings' = (sendings \ {r}) \cup {moved} /\ UNCHANGED load
      BY <2>1, <2>2, <3>1
    <3>4. Reloading(moved) /\ moved \in sendings'
      BY <2>2, <3>2, <3>3 DEF Reloading, Changes
    <3> QED BY <3>2, <3>3, <3>4 DEF WorkspaceSound, SendingsTyped, LoadTyped, BehindStored
  <2>3. CASE r.kind \in LoadsAfter \ SetupFollows
    BY <2>1, <2>3, BegunSound DEF Reload, WorkspaceSound, SendingsTyped
  <2>4. CASE r.kind \notin Changes
    <3>1. sendings' = sendings \ {r} /\ UNCHANGED <<registered, listed, load, lost>>
      BY <2>1, <2>4 DEF Reload, Changes
    <3>2. Current => Current'
      BY <3>1 DEF Current
    <3> QED BY <2>4, <3>1, <3>2 DEF WorkspaceSound, SendingsTyped, LoadTyped, BehindStored, Reloading
  <2> QED BY <2>2, <2>3, <2>4 DEF Changes
<1>3. ASSUME SetupFetched PROVE WorkspaceSound'
  <2>1. PICK r \in sendings :
            /\ sendings' = sendings \ {r}
            /\ LoadBegins(workspace) \/ (lost' = TRUE /\ UNCHANGED load)
    BY <1>3 DEF SetupFetched
  <2>2. SendingsTyped'
    BY <2>1 DEF WorkspaceSound, SendingsTyped
  <2> QED BY <2>1, <2>2, BegunSound DEF WorkspaceSound, LoadTyped, BehindStored
<1> QED BY <1>1, <1>2, <1>3

\* Whatever was lost before, a load shows what is stored, until that changes.
LEMMA LoadsSound ==
    WorkspaceSound /\ (OpenSection \/ LoadReads \/ LoadShown \/ LoadFails) => WorkspaceSound'
<1> SUFFICES ASSUME WorkspaceSound PROVE (OpenSection \/ LoadReads \/ LoadShown \/ LoadFails) => WorkspaceSound'
  OBVIOUS
<1>1. OpenSection => WorkspaceSound'
  BY BegunSound DEF OpenSection, WorkspaceSound, SendingsTyped
<1>2. LoadReads => WorkspaceSound'
  BY DEF LoadReads, WorkspaceSound, SendingsTyped, LoadTyped, Current, BehindStored
<1>3. SendingsTyped /\ sendings' = Replaced =>
        SendingsTyped' /\ ((\E r \in sendings : Reloading(r)) => \E r \in sendings' : Reloading(r))
  <2> SUFFICES ASSUME SendingsTyped, sendings' = Replaced PROVE <1>3!2
    OBVIOUS
  <2>1. ASSUME NEW r \in sendings
        PROVE  /\ DOMAIN [r EXCEPT !.live = FALSE] = SendingFields
               /\ Reloading(r) => Reloading([r EXCEPT !.live = FALSE])
    BY DEF SendingsTyped, SendingFields, Reloading
  <2> QED BY <2>1 DEF Replaced, SendingsTyped
<1>4. ASSUME LoadShown PROVE WorkspaceSound'
  <2>1. /\ load.stage = "read" /\ load' = NoLoad /\ listed' = load.found
        /\ sendings' = sendings \/ sendings' = Replaced
        /\ UNCHANGED <<registered, lost>>
    BY <1>4 DEF LoadShown
  <2>2. SendingsTyped' /\ ((\E r \in sendings : Reloading(r)) => \E r \in sendings' : Reloading(r))
    BY <1>3, <2>1 DEF WorkspaceSound, SendingsTyped, Reloading
  <2>3. Current => Current'
    BY <2>1 DEF Current, NoLoad
  <2> QED BY <2>1, <2>2, <2>3 DEF WorkspaceSound, LoadTyped, BehindStored
<1>5. ASSUME LoadFails PROVE WorkspaceSound'
  BY <1>3, <1>5 DEF LoadFails, WorkspaceSound, LoadTyped, BehindStored
<1> QED BY <1>1, <1>2, <1>4, <1>5

LEMMA WorkspaceInductive == WorkspaceSound /\ [ApplicationNext]_applicationVars => WorkspaceSound'
<1> SUFFICES ASSUME WorkspaceSound, [ApplicationNext]_applicationVars PROVE WorkspaceSound'
  OBVIOUS
<1>1. CASE UNCHANGED <<registered, listed, load, lost, sendings>>
  BY <1>1, SentSound
<1>2. ASSUME NEW s, NEW ask, NEW about, NEW body, Send(s, ask, about, body) PROVE WorkspaceSound'
  <2>1. sendings' = sendings \cup {[kind |-> ask, about |-> about, body |-> body, live |-> TRUE, stage |-> "sent"]}
    BY <1>2 DEF Send
  <2>2. \A r \in sendings' \ sendings : DOMAIN r = SendingFields
    BY <2>1 DEF SendingFields
  <2> QED BY <1>2, <2>1, <2>2, SentSound DEF Send
<1>3. ASSUME NEW s, NEW changed, Change(s, changed) PROVE WorkspaceSound'
  BY <1>3, SentSound DEF Change
<1>4. CASE OpenSection \/ LoadReads \/ LoadShown \/ LoadFails
  BY <1>4, LoadsSound
<1>5. CASE EditOwner \/ AddService \/ EditService \/ ResetService \/ AskDeleteService \/ CancelDelete
           \/ OpenReceiverForm \/ SelectAlert \/ ChooseService
  BY <1>3, <1>5 DEF EditOwner, AddService, EditService, ResetService, ServiceForm,
     AskDeleteService, CancelDelete,
     OpenReceiverForm, SelectAlert, ChooseService
<1>6. CASE SaveSettings \/ SaveService \/ ConfirmDeleteService \/ DeleteReceiver \/ AssignService
  BY <1>2, <1>6 DEF SaveSettings, SaveService, ConfirmDeleteService, DeleteReceiver, AssignService
<1>7. CASE CreateReceiver \/ ShowSetup \/ ToggleReceiver \/ RotateToken \/ TestOrSync
  BY <1>2, <1>7 DEF CreateReceiver, ShowSetup, ToggleReceiver, RotateToken, TestOrSync, Act
<1> QED
  BY <1>1, <1>4, <1>5, <1>6, <1>7, HandleSound, AnswersSound DEF ApplicationNext, applicationVars

\* When nothing is on its way the workspace shows what is stored, in whatever
\* order its requests were carried out, answered and followed by a load; only
\* an answer, a setup or a load that was lost since the last load read leaves it
\* behind.
THEOREM WorkspaceShowsStored == ApplicationSpec => []ShownIsStored
<1>1. WorkspaceSound => ShownIsStored
  BY DEF WorkspaceSound, BehindStored, Current, NoLoad, ShownIsStored
<1> QED BY <1>1, WorkspaceInitially, WorkspaceInductive, PTL DEF ApplicationSpec
-----------------------------------------------------------------------------
(***************************************************************************)
(* The Dynatrace workspace.  A save carries a whole configuration; of the  *)
(* fields that are not its panel's it carries what it was composed from,   *)
(* from the moment it is composed until the server stores it.              *)
(***************************************************************************)
CallFields == {"kind", "body", "base", "first", "live", "stage"}
Storable(c) ==
    (c.kind \in {"connection", "resources"} /\ c.stage = "sent") \/ (c.kind = "rules" /\ c.stage = "read")
Carries(c) == \A p \in Governed \ EditedBy(c.kind) : c.body[p] = c.base[p]
CallComposed(c) == DOMAIN c = CallFields /\ (Storable(c) => Carries(c))
Composed == \A c \in panelCalls : CallComposed(c)

\* A call that is given another stage, or another owner, carries what it did.
LEMMA StillComposed ==
    ASSUME NEW c, CallComposed(c)
    PROVE  /\ CallComposed([c EXCEPT !.live = FALSE])
           /\ CallComposed([c EXCEPT !.stage = "reloading", !.live = FALSE])
           /\ \A stage \in {"done", "refused", "unusable"} : CallComposed([c EXCEPT !.stage = stage])
<1>1. CallComposed([c EXCEPT !.live = FALSE])
  <2> DEFINE d == [c EXCEPT !.live = FALSE]
  <2>1. DOMAIN d = CallFields /\ d.kind = c.kind /\ d.stage = c.stage /\ d.body = c.body /\ d.base = c.base
    BY DEF CallComposed, CallFields
  <2> HIDE DEF d
  <2> QED BY <2>1 DEF CallComposed, Storable, Carries
<1>2. CallComposed([c EXCEPT !.stage = "reloading", !.live = FALSE])
  BY DEF CallComposed, CallFields, Storable
<1>3. ASSUME NEW stage \in {"done", "refused", "unusable"} PROVE CallComposed([c EXCEPT !.stage = stage])
  BY DEF CallComposed, CallFields, Storable
<1> QED BY <1>1, <1>2, <1>3

\* What a panel sends is composed from what the page had loaded.
LEMMA AskComposed ==
    ASSUME Composed, NEW v, NEW ask, NEW body, AskPanel(v, ask, body),
           ask \in {"connection", "resources"} => \A p \in Governed \ EditedBy(ask) : body[p] = seen[p]
    PROVE  Composed'
<1> DEFINE c == [kind |-> ask, body |-> body, base |-> [p \in Governed |-> seen[p]],
                 first |-> ~Exists(seen), live |-> TRUE, stage |-> "sent"]
<1>1. panelCalls' = panelCalls \cup {c}
  BY DEF AskPanel
<1>2. /\ DOMAIN c = CallFields /\ c.kind = ask /\ c.stage = "sent" /\ c.body = body
      /\ \A p \in Governed : c.base[p] = seen[p]
  BY DEF CallFields
<1> HIDE DEF c
<1>3. CallComposed(c)
  BY <1>2 DEF CallComposed, Storable, Carries
<1> QED BY <1>1, <1>3 DEF Composed, CallComposed, Storable, Carries

LEMMA ServeComposed == Composed /\ Serve => Composed'
<1> SUFFICES ASSUME Composed, Serve PROVE Composed'
  OBVIOUS
<1>1. PICK c \in panelCalls : Commit(c) \/ ReadForRules(c) \/ Tested(c) \/ Queried(c) \/ PanelRefused(c)
  BY DEF Serve
<1>2. ASSUME NEW d, CallComposed(d), panelCalls' = (panelCalls \ {c}) \cup {d} PROVE Composed'
  BY <1>2 DEF Composed, CallComposed, Storable, Carries
<1>3. ASSUME NEW stage \in {"done", "refused", "unusable"}, To(c, stage) PROVE Composed'
  <2>1. CallComposed([c EXCEPT !.stage = stage])
    BY StillComposed DEF Composed
  <2> QED BY <1>2, <1>3, <2>1 DEF To
<1>4. CASE ReadForRules(c)
  <2> DEFINE d == [c EXCEPT !.stage = "read", !.base = [p \in Governed |-> governed[p]],
                            !.body = [[p \in Governed |-> governed[p]] EXCEPT !["rules"] = c.body.rules]]
  <2>1. CASE Exists(governed)
    <3>1. panelCalls' = (panelCalls \ {c}) \cup {d}
      BY <1>4, <2>1 DEF ReadForRules
    <3>2. DOMAIN c = CallFields /\ c.kind = "rules"
      BY <1>4 DEF Composed, CallComposed, ReadForRules
    <3>3. /\ DOMAIN d = CallFields /\ d.kind = "rules"
          /\ \A p \in Governed \ {"rules"} : d.body[p] = d.base[p]
      BY <3>2 DEF CallFields
    <3> HIDE DEF d
    <3>4. CallComposed(d)
      BY <3>3 DEF CallComposed, Carries, EditedBy
    <3> QED BY <1>2, <3>1, <3>4
  <2>2. CASE ~Exists(governed)
    BY <1>3, <1>4, <2>2 DEF ReadForRules
  <2> QED BY <2>1, <2>2
<1>5. CASE Commit(c) \/ Tested(c) \/ Queried(c) \/ PanelRefused(c)
  BY <1>3, <1>5 DEF Commit, Tested, Queried, PanelRefused
<1> QED BY <1>1, <1>4, <1>5

LEMMA ComposedInitially == DynatraceInit => Composed
  BY DEF DynatraceInit, Composed

LEMMA ComposedInductive == Composed /\ [DynatraceNext]_dynatraceVars => Composed'
<1> SUFFICES ASSUME Composed, [DynatraceNext]_dynatraceVars PROVE Composed'
  OBVIOUS
<1>1. CASE panelCalls' \subseteq panelCalls
  BY <1>1 DEF Composed, CallComposed, Storable, Carries
<1>2. ASSUME NEW v, OpenView(v) PROVE Composed'
  BY <1>2, StillComposed DEF OpenView, Composed
<1>3. ASSUME NEW v, NEW changed, EditPanel(v, changed) PROVE Composed'
  BY <1>1, <1>3 DEF EditPanel
<1>4. CASE OpenTab \/ ContinueToConnection
  BY <1>2, <1>4 DEF OpenTab, ContinueToConnection
<1>5. CASE ChooseProfile \/ TogglePlatform \/ ToggleZone \/ ToggleApplicationService \/ ToggleServer \/ AddMapping
           \/ ChangeMapping \/ RemoveMapping \/ AddRule \/ UpdateRule \/ RemoveRule
  BY <1>3, <1>5 DEF ChooseProfile, TogglePlatform, ToggleZone, ToggleApplicationService,
     ToggleServer, AddMapping,
     ChangeMapping, RemoveMapping, AddRule, UpdateRule, RemoveRule
<1>6. CASE SaveConnection
  <2>1. \A p \in Governed \ EditedBy("connection") : ConnectionBody[p] = seen[p]
    BY DEF Governed, EditedBy, ConnectionBody
  <2> QED BY <1>6, <2>1, AskComposed DEF SaveConnection
<1>7. CASE SaveResources
  <2>1. \A p \in Governed \ EditedBy("resources") : ResourcesBody[p] = seen[p]
    BY DEF Governed, EditedBy, ResourcesBody
  <2> QED BY <1>7, <2>1, AskComposed DEF SaveResources
<1>8. ASSUME NEW v, NEW ask \in {"test", "zones", "servers", "preview", "rules", "query"}, NEW body, AskPanel(v, ask, body)
      PROVE  Composed'
  BY <1>8, AskComposed
<1>9. CASE TestConnection \/ LoadZones \/ DiscoverServers \/ RunPreview \/ SaveRules \/ RunQuery
  BY <1>8, <1>9 DEF TestConnection, LoadZones, DiscoverServers, RunPreview, SaveRules, RunQuery
<1>10. CASE SaveUnnamed
  BY <1>10 DEF SaveUnnamed, Composed, CallComposed, Storable, Carries, CallFields
<1>11. CASE PanelListed \/ PanelFailed \/ Reloaded
  BY <1>1, <1>11 DEF PanelListed, PanelFailed, Reloaded, Loads
<1>12. CASE PanelSaved
  BY <1>12, StillComposed DEF PanelSaved, Composed
<1>13. CASE UNCHANGED dynatraceVars
  BY <1>1, <1>13 DEF dynatraceVars
<1> QED
  BY <1>4, <1>5, <1>6, <1>7, <1>9, <1>10, <1>11, <1>12, <1>13, ServeComposed DEF DynatraceNext

\* A save composed from what is stored changes only what its panel is for, in
\* whatever order the panels, their answers and the loads of the page follow.
THEOREM DynatraceKeepsOthers == DynatraceSpec => PanelsKeepOthers
<1>1. Composed /\ [DynatraceNext]_dynatraceVars =>
        [\A c \in panelCalls :
            Commit(c) /\ c.base = [p \in Governed |-> governed[p]]
                => \A p \in Governed \ EditedBy(c.kind) : governed'[p] = governed[p]]_dynatraceVars
  <2> SUFFICES ASSUME Composed, NEW c \in panelCalls, Commit(c), c.base = [p \in Governed |-> governed[p]],
                      NEW p \in Governed \ EditedBy(c.kind)
               PROVE  governed'[p] = governed[p]
    OBVIOUS
  <2>1. Storable(c)
    BY DEF Commit, Storable
  <2>2. c.body[p] = governed[p]
    BY <2>1 DEF Composed, CallComposed, Carries
  <2>3. governed'[p] = c.body[p]
    BY DEF Commit, Governed
  <2> QED BY <2>2, <2>3
<1> QED BY <1>1, ComposedInitially, ComposedInductive, PTL DEF DynatraceSpec, PanelsKeepOthers
-----------------------------------------------------------------------------
(***************************************************************************)
(* The configuration.  A profile that is stored always has its material: a *)
(* save that leaves it empty is one of a profile that has some, carries    *)
(* what it read there until it writes, and is refused where the API does   *)
(* not fall back on what was read.                                         *)
(***************************************************************************)
Given == Materials \cup {Empty}
ProfileSet == [active : BOOLEAN, material : Materials]
RequestSet ==
    [n : Nat, op : {"save", "delete"}, id : Nat, material : Given, mine : BOOLEAN,
     at : {"sent", "read", "done", "refused"}, read : Given]
FormSet == [named : BOOLEAN, material : Given, complete : BOOLEAN]
PanelSet ==
    [open : BOOLEAN, editing : Nat, form : FormSet,
     pending : BOOLEAN, target : Nat, deleting : BOOLEAN]
Stored(id) == id \in 0..Len(profiles)
RequestSound(q) ==
    /\ q \in RequestSet /\ Stored(q.id)
    /\ q.op = "save" /\ q.id = 0 /\ kind \in {"certificates", "notifications"} => q.material # Empty
    /\ q.op = "save" /\ q.at = "read" => q.read # Empty
PanelSound == panel \in PanelSet /\ Stored(panel.editing) /\ Stored(panel.target)
ConfigTyped == kind \in PanelKinds /\ configSteps \in Nat /\ profiles \in Seq(ProfileSet)
ConfigSound == ConfigTyped /\ PanelSound /\ \A q \in requests : RequestSound(q)

LEMMA WrittenSeq ==
    ASSUME NEW S, NEW s \in Seq(S), NEW i, NEW x \in S
    PROVE  [s EXCEPT ![i] = x] \in Seq(S) /\ Len([s EXCEPT ![i] = x]) = Len(s)
<1>1. CASE i \in 1..Len(s)
  BY <1>1
<1>2. CASE i \notin 1..Len(s)
  <2>1. [s EXCEPT ![i] = x] = s
    BY <1>2
  <2> QED BY <2>1
<1> QED BY <1>1, <1>2

\* Profiles are added and written, never taken off the list.
Grown == profiles' \in Seq(ProfileSet) /\ Len(profiles') >= Len(profiles)

LEMMA ConfigInitially == ConfigInit => ConfigSound
<1> SUFFICES ASSUME ConfigInit PROVE ConfigSound
  OBVIOUS
<1>1. PICK m \in Materials : profiles = <<[active |-> TRUE, material |-> m]>>
  BY DEF ConfigInit
<1>2. [active |-> TRUE, material |-> m] \in ProfileSet
  BY DEF ProfileSet
<1>3. profiles \in Seq(ProfileSet) /\ Len(profiles) = 1
  BY <1>1, <1>2
<1>4. ClosedPanel \in PanelSet /\ ClosedPanel.editing = 0 /\ ClosedPanel.target = 0
  BY DEF ClosedPanel, BlankForm, FormSet, PanelSet, Given
<1> QED BY <1>3, <1>4 DEF ConfigInit, ConfigSound, ConfigTyped, PanelSound, Stored

\* A step that keeps what is stored may change the panel, and one request.
LEMMA RequestStep ==
    ASSUME ConfigSound, UNCHANGED kind, configSteps' \in Nat, Grown, PanelSound',
           \A q \in requests' : q \in requests \/ RequestSound(q)'
    PROVE  ConfigSound'
<1>1. \A q \in requests : RequestSound(q) => RequestSound(q)'
  BY DEF RequestSound, Stored, Grown, ConfigSound, ConfigTyped
<1> QED BY <1>1 DEF ConfigSound, ConfigTyped, Grown

LEMMA PanelStays ==
    ASSUME ConfigSound, UNCHANGED panel, Grown
    PROVE  PanelSound'
  BY DEF ConfigSound, ConfigTyped, PanelSound, Stored, Grown

LEMMA Counted == ConfigSound /\ ConfigStep => configSteps' \in Nat
  BY DEF ConfigSound, ConfigTyped, ConfigStep

\* The user and the answers: the panel changes, what is stored does not.
LEMMA PanelStep ==
    ASSUME ConfigSound,
           \/ BeginCreate \/ BeginEdit \/ TypeInForm \/ CloseForm \/ AskDelete \/ RequestAnswered \/ RequestThrown
           \/ BeginTest \/ TestAnswered
    PROVE  ConfigSound' /\ Grown
<1>0. UNCHANGED <<kind, profiles>>
  BY DEF BeginCreate, BeginEdit, TypeInForm, CloseForm, AskDelete, RequestAnswered, RequestThrown,
     BeginTest, TestAnswered
<1>1. Grown
  BY <1>0 DEF ConfigSound, ConfigTyped, Grown
<1>2. UNCHANGED <<kind, profiles>> /\ configSteps' \in Nat
  <2>1. CASE ConfigStep
    BY <2>1, Counted DEF BeginCreate, BeginEdit, TypeInForm, CloseForm, AskDelete, RequestAnswered,
       RequestThrown,
       BeginTest, TestAnswered
  <2>2. CASE UNCHANGED configSteps
    BY <2>2 DEF ConfigSound, ConfigTyped, BeginCreate, BeginEdit, TypeInForm, CloseForm, AskDelete,
       RequestAnswered,
       RequestThrown, BeginTest, TestAnswered
  <2> QED BY <2>1, <2>2 DEF BeginCreate, BeginEdit, TypeInForm, CloseForm, AskDelete, RequestAnswered, RequestThrown,
       BeginTest, TestAnswered
<1>3. PanelSound'
  <2>0. /\ BlankForm \in FormSet /\ Stored(0)
        /\ panel \in PanelSet /\ Stored(panel.editing) /\ Stored(panel.target)
    BY DEF BlankForm, FormSet, Given, ConfigTyped, ConfigSound, PanelSound, Stored
  <2>a. ASSUME NEW p \in PanelSet, panel' = p, Stored(p.editing), Stored(p.target) PROVE PanelSound'
    BY <1>2, <2>a DEF PanelSound, Stored
  <2>b. ASSUME NEW f \in FormSet, NEW e \in Nat, Stored(e),
               panel' = [panel EXCEPT !.open = TRUE, !.editing = e, !.form = f]
        PROVE  PanelSound'
    <3> DEFINE p == [panel EXCEPT !.open = TRUE, !.editing = e, !.form = f]
    <3>1. p \in PanelSet /\ p.editing = e /\ p.target = panel.target
      BY <2>0 DEF PanelSet
    <3>2. panel' = p
      BY <2>b
    <3> HIDE DEF p
    <3> QED BY <2>0, <2>a, <2>b, <3>1, <3>2
  <2>1. CASE BeginCreate
    <3>1. CASE Editable
      <4>1. panel' = [panel EXCEPT !.open = TRUE, !.editing = 0, !.form = BlankForm]
        BY <2>1, <3>1 DEF BeginCreate
      <4> QED BY <2>0, <2>b, <4>1
    <3>2. CASE ~Editable
      <4> DEFINE p == [panel EXCEPT !.open = TRUE]
      <4>1. p \in PanelSet /\ p.editing = panel.editing /\ p.target = panel.target
        BY <2>0 DEF PanelSet
      <4>2. panel' = p
        BY <2>1, <3>2 DEF BeginCreate
      <4> HIDE DEF p
      <4> QED BY <2>0, <2>a, <4>1, <4>2
    <3> QED BY <3>1, <3>2
  <2>2. CASE BeginEdit
    <3>1. PICK p \in PanelList \ {0} : panel' = [panel EXCEPT !.open = TRUE, !.editing = p, !.form = Loaded(profiles[p])]
      BY <2>2 DEF BeginEdit
    <3>a. kind \in {"certificates", "proxies", "auth", "telemetry"}
      BY <2>2 DEF BeginEdit, Editable
    <3>2. p \in DOMAIN profiles
      BY <3>a DEF PanelList, CertificateList, ProxyList, AuthList, TelemetryList, ListOrInvitation, Listed
    <3>3. p \in Nat /\ Stored(p) /\ profiles[p].material \in Materials
      <4>1. profiles \in Seq(ProfileSet)
        BY DEF ConfigSound, ConfigTyped
      <4>2. p \in 1..Len(profiles) /\ Len(profiles) \in Nat /\ profiles[p] \in ProfileSet
        BY <3>2, <4>1
      <4> QED BY <4>2 DEF Stored, ProfileSet
    <3>4. Loaded(profiles[p]) \in FormSet
      <4>1. \A m \in Given : [named |-> TRUE, material |-> m, complete |-> TRUE] \in FormSet
        BY DEF FormSet
      <4>2. \E m \in Given : Loaded(profiles[p]) = [named |-> TRUE, material |-> m, complete |-> TRUE]
        <5>1. profiles[p].material \in Given /\ Empty \in Given
          BY <3>3 DEF Given
        <5>2. PICK stored : stored = profiles[p]
          OBVIOUS
        <5> QED BY <3>a, <5>1, <5>2 DEF Loaded, LoadedCertificate, LoadedProxy, LoadedAuth, LoadedTelemetry
      <4> QED BY <4>1, <4>2
    <3> QED BY <2>b, <3>1, <3>3, <3>4
  <2>3. CASE TypeInForm
    <3>1. PICK m \in Given, complete \in BOOLEAN :
            panel' = [panel EXCEPT !.form = [named |-> TRUE, material |-> m, complete |-> complete]]
      BY <2>3 DEF TypeInForm, Given
    <3> DEFINE p == [panel EXCEPT !.form = [named |-> TRUE, material |-> m, complete |-> complete]]
    <3>2. p \in PanelSet /\ p.editing = panel.editing /\ p.target = panel.target
      BY <2>0 DEF PanelSet, FormSet
    <3>3. panel' = p
      BY <3>1
    <3> HIDE DEF p
    <3> QED BY <2>0, <2>a, <3>2, <3>3
  <2>4. CASE CloseForm
    <3>1. PICK p : p = ClosedForm
      OBVIOUS
    <3>2. p \in PanelSet /\ p.editing \in {0, panel.editing} /\ p.target = panel.target
      BY <2>0, <3>1 DEF ClosedForm, PanelSet
    <3> QED BY <2>0, <2>4, <2>a, <3>1, <3>2 DEF CloseForm
  <2>5. CASE AskDelete
    <3>1. PICK t \in Listed \cup {0} : panel' = [panel EXCEPT !.target = t]
      BY <2>5 DEF AskDelete
    <3>2. t \in Nat /\ Stored(t)
      BY <2>0, <3>1 DEF Listed, Stored, ConfigSound, ConfigTyped
    <3>3. PICK p : p = [panel EXCEPT !.target = t]
      OBVIOUS
    <3>4. p \in PanelSet /\ p.editing = panel.editing /\ p.target = t
      BY <2>0, <3>2, <3>3 DEF PanelSet
    <3> QED BY <2>0, <2>a, <3>1, <3>2, <3>3, <3>4
  <2>6. CASE RequestAnswered
    <3>1. PICK p : p = panel'
      OBVIOUS
    <3>2. p \in PanelSet /\ p.editing \in {0, panel.editing} /\ p.target \in {0, panel.target}
      <4>1. CASE p = [panel EXCEPT !.pending = FALSE, !.open = FALSE, !.editing = 0, !.form = BlankForm]
        BY <2>0, <4>1 DEF PanelSet
      <4>2. CASE p = [panel EXCEPT !.pending = FALSE]
        BY <2>0, <4>2 DEF PanelSet
      <4>3. CASE \E t \in {0, panel.target} : p = [panel EXCEPT !.deleting = FALSE, !.target = t]
        <5>1. PICK t \in {0, panel.target} : p = [panel EXCEPT !.deleting = FALSE, !.target = t]
          BY <4>3
        <5>2. t \in Nat
          BY <2>0, <5>1 DEF PanelSet
        <5> QED BY <2>0, <5>1, <5>2 DEF PanelSet
      <4>4. PICK q \in requests : panel' =
            IF q.op = "save" /\ q.at = "done" THEN [panel EXCEPT !.pending = FALSE, !.open = FALSE, !.editing = 0, !.form = BlankForm]
            ELSE IF q.op = "save" THEN [panel EXCEPT !.pending = FALSE]
            ELSE [panel EXCEPT !.deleting = FALSE, !.target = IF q.at = "done" THEN 0 ELSE @]
        BY <2>6 DEF RequestAnswered
      <4>5. CASE q.op = "save"
        BY <3>1, <4>1, <4>2, <4>4, <4>5
      <4>6. CASE q.op # "save"
        <5>1. panel' = [panel EXCEPT !.deleting = FALSE, !.target = IF q.at = "done" THEN 0 ELSE panel.target]
          BY <4>4, <4>6
        <5> QED BY <3>1, <4>3, <5>1
      <4> QED BY <4>5, <4>6
    <3> QED BY <2>0, <2>a, <3>1, <3>2
  <2>7. CASE UNCHANGED panel
    BY <1>1, <2>7, PanelStays
  <2> QED BY <2>1, <2>2, <2>3, <2>4, <2>5, <2>6, <2>7 DEF RequestThrown, BeginTest, TestAnswered
<1>4. \A q \in requests' : q \in requests \/ RequestSound(q)'
  <2>1. CASE RequestThrown
    <3>1. PICK q \in requests : requests' = (requests \ {q}) \cup {[q EXCEPT !.mine = FALSE]}
      BY <2>1 DEF RequestThrown
    <3>2. RequestSound([q EXCEPT !.mine = FALSE])
      BY DEF ConfigSound, RequestSound, RequestSet
    <3>3. RequestSound([q EXCEPT !.mine = FALSE])'
      BY <1>2, <3>1, <3>2 DEF RequestSound, Stored
    <3> QED BY <3>1, <3>3
  <2>2. CASE requests' \subseteq requests
    BY <2>2
  <2> QED
    BY <2>1, <2>2 DEF BeginCreate, BeginEdit, TypeInForm, CloseForm, AskDelete, RequestAnswered,
       BeginTest, TestAnswered
<1> QED BY <1>1, <1>2, <1>3, <1>4, RequestStep

\* One request is put in the place of another, or beside those there are.
LEMMA RequestPut ==
    ASSUME ConfigSound, UNCHANGED <<kind, panel>>, configSteps' \in Nat, Grown,
           NEW q, RequestSound(q), requests' \subseteq requests \cup {q}
    PROVE  ConfigSound'
<1>1. RequestSound(q)'
  BY DEF RequestSound, Stored, Grown, ConfigSound, ConfigTyped
<1> QED BY <1>1, PanelStays, RequestStep

LEMMA ProgressSound ==
    ASSUME NEW q, RequestSound(q), NEW at \in {"done", "refused"}
    PROVE  RequestSound([q EXCEPT !.at = at])
  BY DEF RequestSound, RequestSet

\* What is sent: a form that was accepted, a deletion, the form of another user.
LEMMA SendStep ==
    ASSUME ConfigSound, SaveForm \/ ConfirmDelete \/ OtherUser
    PROVE  ConfigSound' /\ Grown
<1>1. UNCHANGED <<kind, profiles>> /\ configSteps' \in Nat /\ configSteps \in Nat
  BY Counted DEF SaveForm, ConfirmDelete, OtherUser, ConfigSound, ConfigTyped
<1>2. Grown
  BY <1>1 DEF ConfigSound, ConfigTyped, Grown
<1>3. panel \in PanelSet /\ Stored(panel.editing) /\ Stored(panel.target) /\ panel.form \in FormSet
  BY DEF ConfigSound, PanelSound, PanelSet
<1>4. CASE SaveForm
  <2>1. PICK q : q = Request("save", panel.editing, panel.form.material, TRUE)
    OBVIOUS
  <2>2. requests' = requests \cup {q} /\ ~FormProblem(panel.form) /\ panel' = [panel EXCEPT !.pending = TRUE]
    BY <1>4, <2>1 DEF SaveForm
  <2>3. q \in RequestSet /\ q.op = "save" /\ q.id = panel.editing /\ q.material = panel.form.material /\ q.at = "sent"
    BY <1>1, <1>3, <2>1 DEF Request, RequestSet, PanelSet, FormSet, Given
  <2>4. panel.editing = 0 /\ kind \in {"certificates", "notifications"} => panel.form.material # Empty
    BY <2>2 DEF FormProblem, CertificateProblem, ChannelProblem
  <2>5. RequestSound(q)'
    BY <1>1, <1>3, <2>3, <2>4 DEF RequestSound, Stored
  <2>6. PanelSound'
    <3>1. PICK p : p = [panel EXCEPT !.pending = TRUE]
      OBVIOUS
    <3>2. p \in PanelSet /\ p.editing = panel.editing /\ p.target = panel.target
      BY <1>3, <3>1 DEF PanelSet
    <3> QED BY <1>1, <1>3, <2>2, <3>1, <3>2 DEF PanelSound, Stored
  <2> QED BY <1>1, <1>2, <2>2, <2>5, <2>6, RequestStep
<1>5. CASE ConfirmDelete
  <2>1. PICK q : q = Request("delete", panel.target, Empty, TRUE)
    OBVIOUS
  <2>2. requests' = requests \cup {q} /\ panel' = [panel EXCEPT !.deleting = TRUE]
    BY <1>5, <2>1 DEF ConfirmDelete
  <2>3. q \in RequestSet /\ q.op = "delete" /\ q.id = panel.target
    BY <1>1, <1>3, <2>1 DEF Request, RequestSet, PanelSet, Given
  <2>4. RequestSound(q)'
    BY <1>1, <1>3, <2>3 DEF RequestSound, Stored
  <2>5. PanelSound'
    <3>1. PICK p : p = [panel EXCEPT !.deleting = TRUE]
      OBVIOUS
    <3>2. p \in PanelSet /\ p.editing = panel.editing /\ p.target = panel.target
      BY <1>3, <3>1 DEF PanelSet
    <3> QED BY <1>1, <1>3, <2>2, <3>1, <3>2 DEF PanelSound, Stored
  <2> QED BY <1>1, <1>2, <2>2, <2>4, <2>5, RequestStep
<1>6. CASE OtherUser
  <2>1. PICK p \in Listed, m \in Given, op \in {"save", "delete"} : requests' = requests \cup {Request(op, p, m, FALSE)}
    BY <1>6 DEF OtherUser, Given
  <2>2. PICK q : q = Request(op, p, m, FALSE)
    OBVIOUS
  <2>3. p \in Nat /\ p # 0 /\ Stored(p)
    <3>1. profiles \in Seq(ProfileSet)
      BY DEF ConfigSound, ConfigTyped
    <3>2. p \in 1..Len(profiles) /\ Len(profiles) \in Nat
      BY <3>1 DEF Listed
    <3> QED BY <3>2 DEF Stored
  <2>4. q \in RequestSet /\ q.op = op /\ q.id = p /\ q.at = "sent"
    BY <1>1, <2>2, <2>3 DEF Request, RequestSet, Given
  <2>5. RequestSound(q)
    BY <2>3, <2>4 DEF RequestSound
  <2>6. UNCHANGED panel
    BY <1>6 DEF OtherUser
  <2> QED BY <1>1, <1>2, <2>1, <2>2, <2>5, <2>6, RequestPut
<1> QED BY <1>4, <1>5, <1>6

\* The API.
LEMMA ServeStep ==
    ASSUME ConfigSound, SaveRead \/ SaveWrite \/ CreateProfile \/ DeleteProfile \/ RequestFailed
    PROVE  ConfigSound' /\ Grown
<1>1. UNCHANGED <<kind, panel, configSteps>> /\ configSteps' \in Nat
  BY DEF SaveRead, SaveWrite, CreateProfile, DeleteProfile, RequestFailed, ConfigSound, ConfigTyped
<1>2. profiles \in Seq(ProfileSet) /\ Len(profiles) \in Nat
  BY DEF ConfigSound, ConfigTyped
<1>3. UNCHANGED profiles => Grown
  BY <1>2 DEF Grown
<1>4. \A q \in requests : RequestSound(q)
  BY DEF ConfigSound
<1>5. ASSUME Grown, NEW q \in requests, NEW at \in {"done", "refused"}, Progress(q, at) PROVE ConfigSound'
  <2>1. PICK r : r = [q EXCEPT !.at = at]
    OBVIOUS
  <2>2. RequestSound(r)
    BY <1>4, <2>1, ProgressSound
  <2>3. requests' \subseteq requests \cup {r}
    BY <1>5, <2>1 DEF Progress
  <2> QED BY <1>1, <1>5, <2>2, <2>3, RequestPut
<1>6. CASE SaveRead
  <2>0. UNCHANGED profiles
    BY <1>6 DEF SaveRead
  <2>1. PICK q \in requests :
            /\ q.op = "save" /\ q.at = "sent" /\ q.id # 0
            /\ IF profiles[q.id].active
               THEN requests' = (requests \ {q}) \cup {[q EXCEPT !.at = "read", !.read = profiles[q.id].material]}
               ELSE Progress(q, "refused")
    BY <1>6 DEF SaveRead
  <2>2. CASE profiles[q.id].active
    <3>1. profiles[q.id] \in ProfileSet
      <4>1. q.id \in 1..Len(profiles)
        BY <1>2, <1>4, <2>1 DEF RequestSound, Stored
      <4> QED BY <1>2, <4>1
    <3>2. profiles[q.id].material \in Given /\ profiles[q.id].material # Empty
      BY <3>1, ConfigAssumption DEF ProfileSet, Given
    <3>3. PICK r : r = [q EXCEPT !.at = "read", !.read = profiles[q.id].material]
      OBVIOUS
    <3>4. RequestSound(r)
      BY <1>4, <2>1, <3>2, <3>3 DEF RequestSound, RequestSet
    <3>5. requests' \subseteq requests \cup {r}
      BY <2>1, <2>2, <3>3
    <3> QED BY <1>1, <1>3, <2>0, <3>4, <3>5, RequestPut
  <2>3. CASE ~profiles[q.id].active
    BY <1>3, <1>5, <2>0, <2>1, <2>3
  <2> QED BY <2>2, <2>3, <1>3, <2>0
<1>7. CASE SaveWrite
  <2>1. PICK q \in requests :
            /\ q.op = "save" /\ q.at = "read"
            /\ IF Invalid(Prepared(q.material, q.read)) THEN Progress(q, "refused") /\ UNCHANGED profiles
               ELSE /\ profiles' = [profiles EXCEPT ![q.id] = [active |-> TRUE, material |-> Prepared(q.material, q.read)]]
                    /\ Progress(q, "done")
    BY <1>7 DEF SaveWrite
  <2>2. CASE Invalid(Prepared(q.material, q.read))
    BY <1>3, <1>5, <2>1, <2>2
  <2>3. CASE ~Invalid(Prepared(q.material, q.read))
    <3>1. Prepared(q.material, q.read) \in Materials
      <4>1. q.material \in Given /\ q.read \in Materials
        BY <1>4, <2>1 DEF RequestSound, RequestSet, Given
      <4>2. kind \in PanelKinds
        BY DEF ConfigSound, ConfigTyped
      <4> QED BY <2>3, <4>1, <4>2 DEF Prepared, Invalid, Given, PanelKinds
    <3>2. PICK p : p = [active |-> TRUE, material |-> Prepared(q.material, q.read)]
      OBVIOUS
    <3>3. p \in ProfileSet
      BY <3>1, <3>2 DEF ProfileSet
    <3>4. profiles' = [profiles EXCEPT ![q.id] = p] /\ Progress(q, "done")
      BY <2>1, <2>3, <3>2
    <3>5. Grown
      <4>1. [profiles EXCEPT ![q.id] = p] \in Seq(ProfileSet) /\ Len([profiles EXCEPT ![q.id] = p]) = Len(profiles)
        BY <1>2, <3>3, WrittenSeq
      <4> QED BY <1>2, <3>4, <4>1 DEF Grown
    <3> QED BY <1>5, <3>4, <3>5
  <2> QED BY <2>2, <2>3, <1>3, <2>1
<1>8. CASE CreateProfile
  <2>1. PICK q \in requests :
            /\ q.op = "save" /\ q.at = "sent" /\ q.id = 0
            /\ \/ Progress(q, "refused") /\ UNCHANGED profiles
               \/ /\ ~Invalid(q.material) /\ profiles' = Append(profiles, [active |-> TRUE, material |-> q.material])
                  /\ Progress(q, "done")
    BY <1>8 DEF CreateProfile
  <2>2. CASE Progress(q, "refused") /\ UNCHANGED profiles
    BY <1>3, <1>5, <2>2
  <2>3. CASE ~Invalid(q.material) /\ profiles' = Append(profiles, [active |-> TRUE, material |-> q.material]) /\ Progress(q, "done")
    <3>1. q.material \in Materials
      <4>1. q.material \in Given /\ (kind \in {"certificates", "notifications"} => q.material # Empty)
        BY <1>4, <2>1 DEF RequestSound, RequestSet
      <4>2. kind \in PanelKinds
        BY DEF ConfigSound, ConfigTyped
      <4> QED BY <2>3, <4>1, <4>2 DEF Invalid, Given, PanelKinds
    <3>2. PICK p : p = [active |-> TRUE, material |-> q.material]
      OBVIOUS
    <3>3. p \in ProfileSet
      BY <3>1, <3>2 DEF ProfileSet
    <3>4. Grown
      BY <1>2, <2>3, <3>2, <3>3 DEF Grown
    <3> QED BY <1>5, <2>3, <3>4
  <2> QED BY <2>1, <2>2, <2>3, <1>3
<1>9. CASE DeleteProfile
  <2>1. PICK q \in requests :
            /\ profiles' = [profiles EXCEPT ![q.id].active = FALSE]
            /\ Progress(q, IF profiles[q.id].active THEN "done" ELSE "refused")
    BY <1>9 DEF DeleteProfile
  <2>2. Grown
    <3>1. \A p \in ProfileSet : [p EXCEPT !.active = FALSE] \in ProfileSet
      BY DEF ProfileSet
    <3>2. PICK p : p = [profiles[q.id] EXCEPT !.active = FALSE]
      OBVIOUS
    <3>3. profiles' = [profiles EXCEPT ![q.id] = p]
      BY <2>1, <3>2
    <3>4. CASE q.id \in 1..Len(profiles)
      <4>1. p \in ProfileSet
        BY <1>2, <3>1, <3>2, <3>4
      <4> QED BY <1>2, <3>3, <4>1, WrittenSeq DEF Grown
    <3>5. CASE q.id \notin 1..Len(profiles)
      <4>1. profiles' = profiles
        BY <1>2, <3>3, <3>5
      <4> QED BY <1>3, <4>1
    <3> QED BY <3>4, <3>5
  <2> QED BY <1>5, <2>1, <2>2
<1>10. CASE RequestFailed
  <2>1. UNCHANGED profiles /\ \E q \in requests : Progress(q, "refused")
    BY <1>10 DEF RequestFailed
  <2> QED BY <1>3, <1>5, <2>1
<1> QED BY <1>6, <1>7, <1>8, <1>9, <1>10

LEMMA ConfigInductive ==
    ASSUME ConfigSound, ConfigNext \/ UNCHANGED configVars
    PROVE  ConfigSound' /\ Grown
<1>1. CASE UNCHANGED configVars
  <2>1. Grown
    BY <1>1 DEF configVars, Grown, ConfigSound, ConfigTyped
  <2> QED
    BY <1>1, <2>1 DEF configVars, ConfigSound, ConfigTyped, PanelSound, Stored, RequestSound
<1> QED BY <1>1, PanelStep, SendStep, ServeStep DEF ConfigNext

\* The provider's settings are one record.
SettingsSound == DOMAIN settings = {"version", "key", "status", "tested"}
LEMMA SettingsKeepKey ==
    ASSUME SettingsSound, ProviderNext \/ UNCHANGED providerVars
    PROVE  SettingsSound' /\ (settings.key => settings'.key)
<1>1. CASE UNCHANGED settings
  BY <1>1 DEF SettingsSound
<1>2. ASSUME NEW q \in providerCalls, settings' = [settings EXCEPT !.version = q.version, !.key = ProviderKey(q.key)]
      PROVE  SettingsSound' /\ (settings.key => settings'.key)
  BY <1>2 DEF SettingsSound, ProviderKey
<1>3. ASSUME NEW q \in providerCalls, NEW status, settings' = [settings EXCEPT !.status = status, !.tested = q.version]
      PROVE  SettingsSound' /\ (settings.key => settings'.key)
  BY <1>3 DEF SettingsSound
<1> QED
  BY <1>1, <1>2, <1>3 DEF ProviderNext, providerVars, ProviderLoaded, ProviderEdit, ProviderSave,
     ProviderSaved,
     ProviderTest, ProviderTested

\* Nothing takes from a profile its material, nor from the AI provider its key:
\* not a save that leaves it empty, nor one that writes over a deletion, nor
\* two users who save at once.
THEOREM ConfigurationKept == ConfigSpec => NothingLost
<1> DEFINE Sound == ConfigSound /\ SettingsSound
           Step == (ConfigNext /\ UNCHANGED providerVars) \/ (ProviderNext /\ UNCHANGED configVars)
<1>1. ConfigInit /\ ProviderInit => Sound
  BY ConfigInitially DEF ProviderInit, SettingsSound
<1>2. Sound /\ [Step]_<<configVars, providerVars>> => Sound'
  BY ConfigInductive, SettingsKeepKey
<1>3. Sound /\ [Step]_<<configVars, providerVars>> =>
        [/\ \A p \in DOMAIN profiles : profiles'[p].material # Empty
         /\ settings.key => settings'.key]_<<configVars, providerVars>>
  <2> SUFFICES ASSUME Sound, Step
               PROVE  (\A p \in DOMAIN profiles : profiles'[p].material # Empty) /\ (settings.key => settings'.key)
    OBVIOUS
  <2>1. Grown /\ (settings.key => settings'.key)
    BY ConfigInductive, SettingsKeepKey
  <2>2. ASSUME NEW p \in DOMAIN profiles PROVE profiles'[p].material # Empty
    <3>1. profiles \in Seq(ProfileSet) /\ profiles' \in Seq(ProfileSet) /\ Len(profiles') >= Len(profiles)
      BY <2>1 DEF Grown, ConfigSound, ConfigTyped
    <3>2. profiles'[p] \in ProfileSet
      BY <3>1
    <3> QED BY <3>2, ConfigAssumption DEF ProfileSet
  <2> QED BY <2>1, <2>2
<1> QED BY <1>1, <1>2, <1>3, PTL DEF ConfigSpec, NothingLost
-----------------------------------------------------------------------------
(***************************************************************************)
(* The workbench of a journey.  It does not create, update or delete, so   *)
(* that the revisions there are stay; what it takes for saved is one of    *)
(* them, because an answer names the revision its save has stored.         *)
(***************************************************************************)
SheetFields == {"page", "url", "keep", "steps", "enabled", "selected", "minted", "preview", "saved"}
SaveFields == {"stage", "row", "definition", "then"}
JourneyTyped ==
    /\ DOMAIN sheet = SheetFields
    /\ DOMAIN jcalls = Kinds
    /\ jcalls["save"] # NoJourneyCall => DOMAIN jcalls["save"] = SaveFields
    /\ DOMAIN monitor = {"draft", "published", "enabled"}
    /\ \E S : journeys \in Seq(S)
\* What is saved is stored, and so is what a save that was answered has stored.
SavedIsStored ==
    /\ \A act \in {"create", "update", "delete"} : jcalls[act] = NoJourneyCall
    /\ \E row \in DOMAIN journeys : journeys[row] = sheet.saved
    /\ StageOf("save") = "done" => jcalls["save"].row \in DOMAIN journeys
JourneySound == JourneyTyped /\ (sheet.page = "journey" => SavedIsStored)

LEMMA JourneyInitially == JourneyInit => JourneySound
<1> SUFFICES ASSUME JourneyInit PROVE JourneySound
  OBVIOUS
<1>1. jcalls = [k \in Kinds |-> NoJourneyCall] /\ monitor = [NoMonitor EXCEPT !.draft = Len(journeys)]
      /\ journeys = IF sheet.page = "new" THEN <<>> ELSE <<FirstStored>>
  BY DEF JourneyInit
<1>2. DOMAIN sheet = SheetFields /\ sheet.page \in {"new", "journey", "settings"}
      /\ (sheet.page = "journey" => sheet.saved = FirstStored)
  <2>1. CASE sheet = NewSheet
    BY <2>1 DEF NewSheet, SheetFields
  <2>2. CASE \E p \in {"journey", "settings"} :
                sheet = [NewSheet EXCEPT !.page = p, !.url = "u1", !.steps = FirstStored.steps, !.saved = FirstStored]
    <3> HIDE DEF FirstStored
    <3> QED BY <2>2 DEF NewSheet, SheetFields
  <2>3. \/ sheet = NewSheet
        \/ \E p \in {"journey", "settings"} :
                sheet = [NewSheet EXCEPT !.page = p, !.url = "u1", !.steps = FirstStored.steps, !.saved = FirstStored]
    BY DEF JourneyInit
  <2> QED BY <2>1, <2>2, <2>3
<1>3. \E S : journeys \in Seq(S)
  <2>1. CASE sheet.page = "new"
    <3>1. journeys = <<>> /\ <<>> \in Seq({})
      BY <1>1, <2>1
    <3> QED BY <3>1
  <2>2. CASE sheet.page # "new"
    <3>1. PICK d : journeys = <<d>>
      BY <1>1, <2>2
    <3>2. <<d>> \in Seq({d})
      OBVIOUS
    <3> QED BY <3>1, <3>2
  <2> QED BY <2>1, <2>2
<1>4. JourneyTyped
  BY <1>1, <1>2, <1>3 DEF JourneyTyped, Kinds, NoMonitor
<1>5. sheet.page = "journey" => SavedIsStored
  BY <1>1, <1>2 DEF SavedIsStored, Kinds, StageOf, NoJourneyCall
<1> QED BY <1>4, <1>5 DEF JourneySound

\* The page is edited: what was saved stays.
LEMMA SheetStep ==
    ASSUME JourneySound, UNCHANGED <<journeys, monitor, jcalls>>,
           DOMAIN sheet' = SheetFields, sheet'.page = sheet.page, sheet'.saved = sheet.saved
    PROVE  JourneySound'
  BY DEF JourneySound, JourneyTyped, SavedIsStored, StageOf

LEMMA EditStep ==
    ASSUME JourneySound, NEW s, EditSheet(s), DOMAIN s = SheetFields, s.page = sheet.page, s.saved = sheet.saved
    PROVE  JourneySound'
  BY SheetStep DEF EditSheet

LEMMA BuilderSound ==
    ASSUME JourneySound,
           \/ \E type \in Addable : addStep(type)
           \/ \E field \in {"name", "timeout", "locator"} \cup Optional : updateSelected(field)
           \/ toggleSelected \/ moveSelected \/ removeSelected \/ duplicateSelected \/ selectStep \/ editFields
    PROVE  JourneySound'
<1>0. DOMAIN sheet = SheetFields
  BY DEF JourneySound, JourneyTyped
<1>1. ASSUME NEW type \in Addable, addStep(type) PROVE JourneySound'
  BY <1>0, <1>1, EditStep DEF addStep, SheetFields
<1>2. ASSUME NEW field, updateSelected(field) PROVE JourneySound'
  BY <1>0, <1>2, EditStep DEF updateSelected, SheetFields
<1>3. CASE toggleSelected
  BY <1>0, <1>3, EditStep DEF toggleSelected, SheetFields
<1>4. CASE moveSelected
  BY <1>0, <1>4, EditStep DEF moveSelected, SheetFields
<1>5. CASE removeSelected
  BY <1>0, <1>5, EditStep DEF removeSelected, SheetFields
<1>6. CASE duplicateSelected
  BY <1>0, <1>6, EditStep DEF duplicateSelected, SheetFields
<1>7. CASE selectStep
  BY <1>0, <1>7, SheetStep DEF selectStep, SheetFields
<1>8. CASE editFields
  BY <1>0, <1>8, EditStep DEF editFields, SheetFields
<1> QED BY <1>1, <1>2, <1>3, <1>4, <1>5, <1>6, <1>7, <1>8

\* A call is sent: one of the three is not, from the workbench.
LEMMA SendSound ==
    ASSUME JourneySound, NEW k \in Kinds, NEW call, SendCall(k, call), call.stage = "sent",
           k = "save" => DOMAIN call = SaveFields,
           k \in {"create", "update", "delete"} => sheet.page # "journey"
    PROVE  JourneySound'
<1>1. jcalls' = [jcalls EXCEPT ![k] = call] /\ UNCHANGED <<journeys, monitor, sheet>>
  BY DEF SendCall
<1>2. /\ DOMAIN jcalls = Kinds /\ DOMAIN jcalls' = Kinds
      /\ jcalls'[k] = call /\ \A u \in Kinds \ {k} : jcalls'[u] = jcalls[u]
  BY <1>1 DEF JourneySound, JourneyTyped
<1>3. "save" \in Kinds /\ {"create", "update", "delete"} \subseteq Kinds
  BY DEF Kinds
<1>4. JourneyTyped'
  BY <1>1, <1>2, <1>3 DEF JourneySound, JourneyTyped
<1>5. ASSUME sheet.page = "journey" PROVE SavedIsStored'
  BY <1>1, <1>2, <1>3, <1>5 DEF JourneySound, SavedIsStored, StageOf
<1> QED BY <1>1, <1>4, <1>5 DEF JourneySound

LEMMA ButtonsSound ==
    ASSUME JourneySound, createMonitor \/ runPreview \/ saveDraft \/ publish \/ saveSettings \/ removeMonitor
    PROVE  JourneySound'
<1>0. Kinds = {"create", "update", "save", "publish", "preview", "delete"}
  BY DEF Kinds
<1>s. ASSUME NEW definition, NEW then
      PROVE  SaveCall(definition, then).stage = "sent" /\ DOMAIN SaveCall(definition, then) = SaveFields
  BY DEF SaveCall, SaveFields
<1>1. CASE createMonitor
  BY <1>0, <1>1, SendSound DEF createMonitor
<1>2. CASE runPreview
  BY <1>0, <1>2, SendSound DEF runPreview
<1>3. CASE saveDraft
  BY <1>0, <1>s, <1>3, SendSound DEF saveDraft
<1>4. CASE publish
  BY <1>0, <1>s, <1>4, SendSound DEF publish, PublishCall
<1>5. CASE saveSettings
  BY <1>0, <1>5, SendSound DEF saveSettings
<1>6. CASE removeMonitor
  BY <1>0, <1>6, SendSound DEF removeMonitor
<1> QED BY <1>1, <1>2, <1>3, <1>4, <1>5, <1>6

\* A revision is added to those there are.
LEMMA Added ==
    ASSUME JourneyTyped, NEW d, StoreDraft(d)
    PROVE  /\ \E S : journeys' \in Seq(S)
           /\ \A row \in DOMAIN journeys : row \in DOMAIN journeys' /\ journeys'[row] = journeys[row]
           /\ DOMAIN monitor' = {"draft", "published", "enabled"} /\ monitor'.draft \in DOMAIN journeys'
<1>1. PICK S : journeys \in Seq(S)
  BY DEF JourneyTyped
<1>2. PICK e : journeys' = Append(journeys, e) /\ monitor' = [monitor EXCEPT !.draft = Len(journeys) + 1]
  BY DEF StoreDraft
<1>3. journeys \in Seq(S \cup {e}) /\ e \in S \cup {e}
  BY <1>1
<1>4. journeys' \in Seq(S \cup {e}) /\ Len(journeys') = Len(journeys) + 1 /\ Len(journeys) \in Nat
      /\ \A row \in 1..Len(journeys) : journeys'[row] = journeys[row]
  BY <1>2, <1>3
<1>5. DOMAIN journeys = 1..Len(journeys) /\ DOMAIN journeys' = 1..(Len(journeys) + 1)
  BY <1>1, <1>4
<1>6. DOMAIN monitor' = {"draft", "published", "enabled"} /\ monitor'.draft = Len(journeys) + 1
  BY <1>2 DEF JourneyTyped
<1> QED BY <1>4, <1>5, <1>6

LEMMA RivalsSound ==
    ASSUME JourneySound, RivalSaves \/ RivalPublishes PROVE JourneySound'
<1>1. UNCHANGED <<sheet, jcalls>>
  BY DEF RivalSaves, RivalPublishes
<1>2. CASE RivalSaves
  <2>1. PICK d : StoreDraft(d)
    BY <1>2 DEF RivalSaves
  <2> QED BY <1>1, <2>1, Added DEF JourneySound, JourneyTyped, SavedIsStored, StageOf
<1>3. CASE RivalPublishes
  BY <1>1, <1>3 DEF RivalPublishes, Publish, JourneySound, JourneyTyped, SavedIsStored, StageOf
<1> QED BY <1>2, <1>3

LEMMA PerformedSound ==
    ASSUME JourneySound, NEW act \in Kinds, CallPerformed(act) PROVE JourneySound'
<1>0. Kinds = {"create", "update", "save", "publish", "preview", "delete"} /\ JourneyTyped /\ UNCHANGED sheet
      /\ jcalls[act].stage = "sent"
  BY DEF Kinds, JourneySound, CallPerformed, StageOf
<1>1. /\ DOMAIN jcalls' = Kinds /\ \A u \in Kinds \ {act} : jcalls'[u] = jcalls[u]
      /\ act \notin {"save", "publish"} => jcalls'[act] = [jcalls[act] EXCEPT !.stage = "done"]
      /\ act = "save" => jcalls'[act] = [jcalls[act] EXCEPT !.stage = "done", !.row = monitor'.draft]
  <2>1. PICK call : /\ jcalls' = [jcalls EXCEPT ![act] = call]
                    /\ act \notin {"save", "publish"} => call = [jcalls[act] EXCEPT !.stage = "done"]
                    /\ act = "save" => call = [jcalls[act] EXCEPT !.stage = "done", !.row = monitor'.draft]
    BY DEF CallPerformed
  <2> QED BY <1>0, <2>1 DEF JourneyTyped
<1>2. CASE act = "save"
  <2>1. StoreDraft(jcalls[act].definition)
    BY <1>2 DEF CallPerformed
  <2>2. DOMAIN jcalls[act] = SaveFields
    BY <1>0, <1>2 DEF JourneyTyped, NoJourneyCall
  <2>3. DOMAIN jcalls'[act] = SaveFields /\ jcalls'[act].row = monitor'.draft
    BY <1>1, <1>2, <2>2 DEF SaveFields
  <2> QED BY <1>0, <1>1, <1>2, <2>1, <2>3, Added DEF JourneySound, JourneyTyped, SavedIsStored, StageOf
<1>3. CASE act \in {"create", "update", "delete"}
  <2>1. sheet.page # "journey"
    BY <1>0, <1>3 DEF JourneySound, SavedIsStored, NoJourneyCall
  <2>2. (\E S : journeys' \in Seq(S)) /\ DOMAIN monitor' = {"draft", "published", "enabled"}
    <3>1. CASE act = "create"
      <4>1. PICK d : journeys' = <<d>>
        BY <3>1 DEF CallPerformed, Create
      <4>2. journeys' \in Seq({d})
        BY <4>1
      <4>3. DOMAIN monitor' = {"draft", "published", "enabled"}
        BY <3>1 DEF CallPerformed, Create
      <4> QED BY <4>2, <4>3
    <3>2. CASE act = "update"
      BY <1>0, <3>2 DEF CallPerformed, Update, JourneyTyped
    <3>3. CASE act = "delete"
      <4>1. journeys' \in Seq({})
        BY <3>3 DEF CallPerformed, Delete
      <4>2. DOMAIN monitor' = {"draft", "published", "enabled"}
        BY <3>3 DEF CallPerformed, Delete, NoMonitor
      <4> QED BY <4>1, <4>2
    <3> QED BY <1>3, <3>1, <3>2, <3>3
  <2> QED BY <1>0, <1>1, <1>3, <2>1, <2>2 DEF JourneySound, JourneyTyped
<1>4. CASE act \in {"publish", "preview"}
  <2>1. UNCHANGED <<journeys, monitor>>
    BY <1>4 DEF CallPerformed
  <2> QED BY <1>0, <1>1, <1>4, <2>1 DEF JourneySound, JourneyTyped, SavedIsStored, StageOf
<1> QED BY <1>0, <1>2, <1>3, <1>4

\* A call moves on, or is over; one that was answered as a save has its row.
LEMMA MoveSound ==
    ASSUME JourneySound, UNCHANGED <<journeys, monitor>>,
           DOMAIN sheet' = SheetFields, sheet'.page = sheet.page, sheet'.saved = sheet.saved,
           DOMAIN jcalls' = Kinds,
           \A k \in {"create", "update", "delete"} : jcalls[k] = NoJourneyCall => jcalls'[k] = NoJourneyCall,
           jcalls'["save"] # NoJourneyCall => DOMAIN jcalls'["save"] = SaveFields,
           jcalls'["save"].stage = "done" => jcalls'["save"] = jcalls["save"]
    PROVE  JourneySound'
  BY DEF JourneySound, JourneyTyped, SavedIsStored, StageOf

LEMMA FailedSound ==
    ASSUME JourneySound, NEW act \in Kinds, CallFailed(act) \/ LoadedAgain(act) PROVE JourneySound'
<1>0. /\ DOMAIN sheet = SheetFields /\ DOMAIN jcalls = Kinds
      /\ jcalls["save"] # NoJourneyCall => DOMAIN jcalls["save"] = SaveFields
  BY DEF JourneySound, JourneyTyped
<1>1. UNCHANGED <<journeys, monitor>>
  BY DEF CallFailed, LoadedAgain
<1>2. DOMAIN sheet' = SheetFields /\ sheet'.page = sheet.page /\ sheet'.saved = sheet.saved
  BY <1>0 DEF CallFailed, LoadedAgain, SheetFields
<1>3. PICK p : jcalls' \in {[jcalls EXCEPT ![act] = NoJourneyCall],
                            [jcalls EXCEPT !["save"] = NoJourneyCall, !["publish"] = p]}
  BY DEF CallFailed, LoadedAgain
<1>4. \A k \in Kinds : jcalls'[k] = NoJourneyCall \/ jcalls'[k] = jcalls[k] \/ k = "publish"
  BY <1>0, <1>3
<1>5. DOMAIN jcalls' = Kinds /\ {"save", "create", "update", "delete"} \subseteq Kinds
  BY <1>0, <1>3 DEF Kinds
<1> QED BY <1>0, <1>1, <1>2, <1>4, <1>5, MoveSound DEF NoJourneyCall

LEMMA CommittedSound ==
    ASSUME JourneySound, PublishCommitted PROVE JourneySound'
<1>1. /\ UNCHANGED <<journeys, sheet>> /\ DOMAIN monitor' = {"draft", "published", "enabled"}
      /\ jcalls' = [jcalls EXCEPT !["publish"].stage = "done"]
  BY DEF PublishCommitted, Publish, MoveTo, JourneySound, JourneyTyped
<1>2. DOMAIN jcalls' = Kinds /\ \A k \in Kinds \ {"publish"} : jcalls'[k] = jcalls[k]
  BY <1>1 DEF JourneySound, JourneyTyped
<1>3. {"save", "create", "update", "delete"} \subseteq Kinds
  BY DEF Kinds
<1> QED BY <1>1, <1>2, <1>3 DEF JourneySound, JourneyTyped, SavedIsStored, StageOf

LEMMA AnsweredSound ==
    ASSUME JourneySound, JourneyAnswered PROVE JourneySound'
<1>0. /\ DOMAIN sheet = SheetFields /\ DOMAIN jcalls = Kinds
      /\ jcalls["save"] # NoJourneyCall => DOMAIN jcalls["save"] = SaveFields
      /\ {"save", "create", "update", "delete", "publish", "preview"} \subseteq Kinds
      /\ UNCHANGED <<journeys, monitor>>
  BY DEF JourneySound, JourneyTyped, Kinds, JourneyAnswered
<1>l. ASSUME sheet' = [sheet EXCEPT !.page = "left"], NEW act \in {"create", "delete"},
             jcalls' = [jcalls EXCEPT ![act] = NoJourneyCall]
      PROVE  JourneySound'
  BY <1>0, <1>l DEF JourneySound, JourneyTyped, SheetFields
<1>1. CASE StageOf("save") = "done" /\ Present /\ MoveTo("save", "loading")
           /\ sheet' = IF sheet.page = "journey" THEN SavedAnswered(sheet, jcalls["save"]) ELSE sheet
  <2>1. /\ DOMAIN jcalls' = Kinds /\ \A k \in Kinds \ {"save"} : jcalls'[k] = jcalls[k]
        /\ jcalls'["save"].stage = "loading" /\ DOMAIN jcalls'["save"] = SaveFields
    BY <1>0, <1>1 DEF MoveTo, StageOf, NoJourneyCall, SaveFields
  <2>2. CASE sheet.page = "journey"
    <3>1. sheet' = [sheet EXCEPT !.saved = journeys[jcalls["save"].row]]
      BY <1>1, <2>2 DEF SavedAnswered
    <3>2. DOMAIN sheet' = SheetFields /\ sheet'.page = "journey" /\ sheet'.saved = journeys[jcalls["save"].row]
      BY <1>0, <2>2, <3>1 DEF SheetFields
    <3>3. jcalls["save"].row \in DOMAIN journeys
      BY <1>1, <2>2 DEF JourneySound, SavedIsStored
    <3> QED BY <1>0, <2>1, <2>2, <3>2, <3>3 DEF JourneySound, JourneyTyped, SavedIsStored, StageOf
  <2>3. CASE sheet.page # "journey"
    BY <1>0, <1>1, <2>1, <2>3 DEF JourneySound, JourneyTyped
  <2> QED BY <2>2, <2>3
<1>2. CASE StageOf("preview") = "done" /\ sheet' = [sheet EXCEPT !.preview = jcalls["preview"].definition]
           /\ jcalls' = [jcalls EXCEPT !["preview"] = NoJourneyCall]
  BY <1>0, <1>2, MoveSound DEF SheetFields
<1>3. CASE StageOf("publish") = "done" /\ MoveTo("publish", "loading") /\ UNCHANGED sheet
  BY <1>0, <1>3, MoveSound DEF MoveTo
<1>4. CASE StageOf("update") = "done" /\ UNCHANGED sheet
           /\ LET call == jcalls["update"]
              IN  IF call.definition # call.draft
                  THEN jcalls' = [jcalls EXCEPT !["update"] = NoJourneyCall, !["save"] = SaveCall(call.definition, "nothing")]
                  ELSE MoveTo("update", "loading")
  <2>1. jcalls["update"] # NoJourneyCall
    BY <1>4 DEF StageOf, NoJourneyCall
  <2>2. sheet.page # "journey"
    BY <2>1 DEF JourneySound, SavedIsStored
  <2>3. DOMAIN jcalls' = Kinds /\ (jcalls'["save"] = jcalls["save"] \/ DOMAIN jcalls'["save"] = SaveFields)
    BY <1>0, <1>4 DEF MoveTo, SaveCall, SaveFields
  <2> QED BY <1>0, <1>4, <2>2, <2>3 DEF JourneySound, JourneyTyped
<1> QED BY <1>l, <1>1, <1>2, <1>3, <1>4 DEF JourneyAnswered, AnswerHandled

LEMMA JourneyInductive == JourneySound /\ [JourneyNext]_journeyVars => JourneySound'
<1> SUFFICES ASSUME JourneySound, [JourneyNext]_journeyVars PROVE JourneySound'
  OBVIOUS
<1>1. CASE UNCHANGED journeyVars
  BY <1>1 DEF journeyVars, JourneySound, JourneyTyped, SavedIsStored, StageOf
<1> QED
  BY <1>1, BuilderSound, ButtonsSound, RivalsSound, PerformedSound, FailedSound, CommittedSound, AnsweredSound
     DEF JourneyNext

\* "Draft saved" is said only of a journey that was stored as it is shown,
\* whatever was edited while a save was on its way, and whatever other users
\* have stored meanwhile (savedFingerprint, journey.tsx).
THEOREM SavedDraftIsStored == JourneySpec => []DraftShownIsStored
<1>1. JourneySound => DraftShownIsStored
  BY DEF JourneySound, SavedIsStored, DraftShownIsStored, Dirty
<1> QED BY <1>1, JourneyInitially, JourneyInductive, PTL DEF JourneySpec
-----------------------------------------------------------------------------
(***************************************************************************)
(* The sandbox.  The tests that a body awaits at its end are those it      *)
(* started with a promise; no test becomes early once the body has been    *)
(* left, and none changes once the script has ended.                       *)
(***************************************************************************)
TestFields == {"done", "promise", "early", "records", "outcome", "skipped"}
TestSound(one) ==
    /\ DOMAIN one = TestFields /\ one.records \in {0, 1} /\ (one.records = 0 => one.outcome = "none")
    /\ \A f \in {"promise", "early"} : one[f] \in BOOLEAN
CountedTest(one) == one.outcome # "error"
TestsSound ==
    /\ \E S : started \in Seq(S)
    /\ \A i \in DOMAIN started : TestSound(started[i])
    /\ code \in {"returned", "SUCCESS"} /\ exit = "end" =>
        \A i \in DOMAIN started : started[i].promise /\ started[i].early => i \in awaited
    /\ code = "SUCCESS" =>
        /\ \A i \in awaited : started[i].records # 0
        /\ \A i \in DOMAIN started : CountedTest(started[i])
BodyTyped == DOMAIN request = {"url", "body", "type"} /\ (request.body \in {"text", "object"} => request.type # "none")
SandboxSound == TestsSound /\ BodyTyped

\* A test that is recorded stays as it was, but for the result of its first time.
LEMMA RecordedSound ==
    ASSUME NEW one, TestSound(one), NEW outcome
    PROVE  /\ TestSound(Recorded(one, outcome))
           /\ Recorded(one, outcome).promise = one.promise /\ Recorded(one, outcome).early = one.early
<1>1. CASE one.records > 0
  BY <1>1 DEF Recorded
<1>2. CASE ~(one.records > 0)
  <2>1. PICK r : r = [one EXCEPT !.records = 1, !.outcome = outcome] /\ r = Recorded(one, outcome)
    BY <1>2 DEF Recorded
  <2>2. DOMAIN r = TestFields /\ r.records = 1 /\ r.promise = one.promise /\ r.early = one.early
    BY <2>1 DEF TestSound, TestFields
  <2>3. r.promise \in BOOLEAN /\ r.early \in BOOLEAN /\ r.records # 0
    BY <2>2 DEF TestSound
  <2>4. TestSound(r)
    BY <2>2, <2>3 DEF TestSound
  <2> QED BY <2>1, <2>2, <2>4
<1> QED BY <1>1, <1>2

LEMMA StartSound ==
    ASSUME TestsSound, NEW one, TestSound(one), one.early = (code = "running"), StartTest(one)
    PROVE  TestsSound'
<1>1. PICK S : started \in Seq(S)
  BY DEF TestsSound
<1>2. started' = Append(started, one) /\ UNCHANGED <<code, exit, awaited>> /\ code \in {"running", "returned"}
  BY DEF StartTest, Runs
<1>3. started \in Seq(S \cup {one}) /\ one \in S \cup {one}
  BY <1>1
<1>a. Len(started) \in Nat /\ DOMAIN started = 1..Len(started)
  BY <1>1
<1>4. /\ started' \in Seq(S \cup {one}) /\ Len(started) \in Nat
      /\ DOMAIN started = 1..Len(started) /\ DOMAIN started' = 1..(Len(started) + 1)
      /\ started'[Len(started) + 1] = one /\ \A i \in DOMAIN started : started'[i] = started[i]
  BY <1>2, <1>3, <1>a
<1>5. \A i \in DOMAIN started' : IF i \in DOMAIN started THEN started'[i] = started[i] ELSE started'[i] = one
  BY <1>4
<1> QED BY <1>2, <1>4, <1>5 DEF TestsSound

LEMMA NewTestSound ==
    ASSUME NEW done \in BOOLEAN, NEW promise \in BOOLEAN
    PROVE  /\ TestSound(NewTest(done, promise)) /\ NewTest(done, promise).early = (code = "running")
           /\ LET skipping == [NewTest(FALSE, FALSE) EXCEPT !.records = 1, !.skipped = TRUE]
              IN  TestSound(skipping) /\ skipping.early = (code = "running")
<1> DEFINE blank == NewTest(FALSE, FALSE)
<1>1. TestSound(NewTest(done, promise)) /\ NewTest(done, promise).early = (code = "running")
  BY DEF NewTest, TestSound, TestFields
<1>2. TestSound(blank) /\ blank.early = (code = "running")
  BY DEF NewTest, TestSound, TestFields
<1> HIDE DEF blank
<1>3. PICK s : s = [blank EXCEPT !.records = 1, !.skipped = TRUE]
  OBVIOUS
<1>4. DOMAIN s = TestFields /\ s.records = 1 /\ s.promise = blank.promise /\ s.early = blank.early
  BY <1>2, <1>3 DEF TestSound, TestFields
<1>5. TestSound(s) /\ s.early = (code = "running")
  BY <1>2, <1>4 DEF TestSound
<1> QED BY <1>1, <1>3, <1>5 DEF blank

LEMMA SettleSound ==
    ASSUME TestsSound, TestSettles
    PROVE  TestsSound'
<1>1. PICK i \in DOMAIN started, outcome \in Outcomes : started' = [started EXCEPT ![i] = Recorded(@, outcome)]
  BY DEF TestSettles
<1>2. UNCHANGED <<code, exit, awaited>> /\ code \in {"running", "returned"}
  BY DEF TestSettles, Runs
<1>3. PICK S : started \in Seq(S)
  BY DEF TestsSound
<1>4. PICK r : r = Recorded(started[i], outcome) /\ started' = [started EXCEPT ![i] = r]
  BY <1>1
<1>5. TestSound(r) /\ r.promise = started[i].promise /\ r.early = started[i].early
  BY <1>4, RecordedSound DEF TestsSound
<1>6. started' \in Seq(S \cup {r}) /\ DOMAIN started' = DOMAIN started
  <2>1. started \in Seq(S \cup {r}) /\ r \in S \cup {r}
    BY <1>3
  <2> QED BY <1>4, <2>1
<1>7. \A j \in DOMAIN started : started'[j] = IF j = i THEN r ELSE started[j]
  BY <1>4
<1> QED BY <1>2, <1>5, <1>6, <1>7 DEF TestsSound

LEMMA SandboxInitially == SandboxInit => SandboxSound
<1> SUFFICES ASSUME SandboxInit PROVE SandboxSound
  OBVIOUS
<1>1. started = <<>> /\ <<>> \in Seq({}) /\ DOMAIN started = {} /\ code = "running"
  BY DEF SandboxInit
<1>2. TestsSound
  BY <1>1 DEF TestsSound
<1>3. BodyTyped
  BY DEF SandboxInit, Requests, BodyTyped
<1> QED BY <1>2, <1>3 DEF SandboxSound

LEMMA SandboxInductive == SandboxSound /\ [TestingNext \/ WritingNext]_sandboxVars => SandboxSound'
<1> SUFFICES ASSUME SandboxSound, [TestingNext \/ WritingNext]_sandboxVars PROVE SandboxSound'
  OBVIOUS
<1>0. TestsSound /\ BodyTyped
  BY DEF SandboxSound
<1>1. CASE UNCHANGED <<code, exit, started, awaited, request>>
  BY <1>1 DEF SandboxSound, TestsSound, BodyTyped
<1>2. CASE \E one : StartTest(one) /\ TestSound(one) /\ one.early = (code = "running")
  <2>1. UNCHANGED request
    BY <1>2 DEF StartTest
  <2> QED BY <1>0, <1>2, <2>1, StartSound DEF SandboxSound, BodyTyped
<1>3. CASE TestNow
  <2>1. PICK done \in BOOLEAN, outcome \in Outcomes : StartTest(Recorded(NewTest(done, FALSE), outcome))
    BY <1>3 DEF TestNow
  <2>2. TestSound(NewTest(done, FALSE)) /\ NewTest(done, FALSE).early = (code = "running")
    BY NewTestSound
  <2> QED BY <1>2, <2>1, <2>2, RecordedSound
<1>4. CASE TestPromised
  BY <1>2, <1>4, NewTestSound DEF TestPromised
<1>5. CASE TestDetached
  BY <1>2, <1>5, NewTestSound DEF TestDetached
<1>6. CASE TestSkipped
  BY <1>2, <1>6, NewTestSound DEF TestSkipped
<1>7. CASE TestSettles
  BY <1>0, <1>7, SettleSound DEF TestSettles, SandboxSound, BodyTyped
<1>8. CASE WriteRequest
  <2>1. UNCHANGED <<code, exit, started, awaited>>
    BY <1>8 DEF WriteRequest
  <2>2. BodyTyped'
    BY <1>0, <1>8 DEF WriteRequest, WithBody, BodyTyped
  <2> QED BY <1>0, <2>1, <2>2 DEF SandboxSound, TestsSound
<1>9. CASE BodyEnds \/ BodyReturns
  BY <1>0, <1>9 DEF BodyEnds, BodyReturns, Awaited, Promised, SandboxSound, TestsSound, BodyTyped
<1>10. CASE BodyThrows \/ Interrupted
  BY <1>0, <1>10 DEF BodyThrows, Interrupted, SandboxSound, TestsSound, BodyTyped
<1>11. CASE QueueDrained
  <2>1. code' = "SUCCESS" =>
            /\ \A i \in awaited : started[i].records # 0
            /\ \A i \in DOMAIN started : CountedTest(started[i])
    BY <1>0, <1>11 DEF QueueDrained, Verdict, Failed, CountedTest, TestsSound, TestSound
  <2> QED BY <1>0, <1>11, <2>1 DEF QueueDrained, Verdict, SandboxSound, TestsSound, BodyTyped
<1>12. CASE WriteVariable \/ WriteState \/ SendRequest \/ AskRun
  BY <1>1, <1>12 DEF WriteVariable, WriteState, SendRequest, AskRun
<1> QED
  BY <1>1, <1>3, <1>4, <1>5, <1>6, <1>7, <1>8, <1>9, <1>10, <1>11, <1>12 DEF TestingNext,
     WritingNext, sandboxVars

\* A script that succeeds recorded no test as failed, and, unless it left its body
\* by a return of its own, every test that the body started and that returned a
\* promise, however many there are and whenever they settle; none is recorded
\* twice; and a body that setBody wrote is sent with a type (__test, done and
\* setBody of runtime_bootstrap_v2.js, the wait of compiledProgram).
THEOREM SuccessIsTested == SandboxSpec => []TestsCounted
<1>1. SandboxSound => TestsCounted
  BY DEF SandboxSound, TestsSound, BodyTyped, TestSound, CountedTest, TestsCounted
<1> QED BY <1>1, SandboxInitially, SandboxInductive, PTL DEF SandboxSpec
-----------------------------------------------------------------------------
(***************************************************************************)
(* Imports.  What is reviewed is the draft of the source at hand, or of    *)
(* another one: a file that arrives late puts the text of the one beside   *)
(* the draft of the other.                                                 *)
(***************************************************************************)
DraftOf(c) == IF c.kind = "postman" THEN ParsePostmanCollection(c) ELSE ParseCurlCommand(c)
IsCollection(c) ==
    /\ c.kind = "postman" /\ c.field.value \in {"literal", "reference", "template"}
    /\ c.auth \in {"literal", "reference", "empty"}
IsCommand(c) == c.kind = "curl" /\ c.header \in {"none"} \cup Options.header
ReviewSound ==
    /\ IsCollection(pasted) \/ IsCommand(pasted)
    /\ reviewed \in {NoDraft, DraftOf(pasted), DraftOf(Other)}

\* What an import of c must withhold.
Withheld(c, draft) ==
    /\ LookedFor(c) => "literal" \notin Literals(draft)
    /\ "secret" \in Literals(draft) \cup {draft.auth.value} => draft.warnings # {}
    /\ draft.auth.value # "literal"
    /\ (c.kind = "postman" /\ c.variable = "sensitive") => "reference" \notin {draft.value, draft.auth.value}

\* The field of a collection.
LEMMA FieldWithheld ==
    ASSUME NEW c, IsCollection(c)
    PROVE  LET value == SensitiveReplaced(c, ImportedValue(c.field))
           IN  /\ LookedFor(c) => value # "literal"
               /\ value = "secret" => c.variable = "sensitive" \/ FieldWarnings(c.field) # {}
               /\ c.variable = "sensitive" => value # "reference"
<1> DEFINE f == c.field
<1>1. LookedFor(c) => ImportedValue(f) # "literal"
  BY DEF IsCollection, LookedFor, ImportedValue, ImportedBody, EncodedField, ProtectBody, ProtectSecretValue,
     SensitiveName, IsTemplate, JsonPlaces
<1>2. ImportedValue(f) = "secret" => FieldWarnings(f) # {}
  <2>1. CASE f.at = "cookie"
    BY <2>1 DEF FieldWarnings
  <2>2. CASE f.at \in {"param", "header"}
    BY <2>2 DEF IsCollection, FieldWarnings, ImportedValue, ProtectSecretValue
  <2>3. CASE f.at \in {"urlencoded", "formdata"}
    BY <2>3 DEF ImportedValue, ImportedBody, EncodedField, JsonPlaces
  <2>4. CASE f.at = "json"
    BY <2>4 DEF IsCollection, FieldWarnings, ImportedValue, ImportedBody, ProtectBody, JsonPlaces
  <2>5. CASE f.at \notin {"cookie", "param", "header", "urlencoded", "formdata", "json"}
    BY <2>5 DEF IsCollection, ImportedValue, ImportedBody, ProtectBody
  <2> QED BY <2>1, <2>2, <2>3, <2>4, <2>5
<1> HIDE DEF f
<1>3. QED
  BY <1>1, <1>2 DEF SensitiveReplaced, f

LEMMA AuthWithheld ==
    ASSUME NEW c, IsCollection(c)
    PROVE  LET value == SensitiveReplaced(c, ImportedAuth(c).value)
           IN  /\ value # "literal"
               /\ value = "secret" => c.variable = "sensitive" \/ AuthWarnings(c) # {}
               /\ c.variable = "sensitive" => value # "reference"
<1>1. ImportedAuth(c).value # "literal"
  BY DEF IsCollection, ImportedAuth, SecretOrTemplate, IsTemplate
<1>2. ImportedAuth(c).value = "secret" => AuthWarnings(c) # {}
  <2>1. CASE AuthOf(c) \in {"basic", "bearer", "apikey"} \/ (AuthOf(c) = "oauth2" /\ c.auth # "empty")
    BY <2>1 DEF IsCollection, ImportedAuth, AuthWarnings, SecretOrTemplate, IsTemplate
  <2>2. CASE ~(AuthOf(c) \in {"basic", "bearer", "apikey"} \/ (AuthOf(c) = "oauth2" /\ c.auth # "empty"))
    BY <2>2 DEF ImportedAuth
  <2> QED BY <2>1, <2>2
<1> QED BY <1>1, <1>2 DEF SensitiveReplaced

LEMMA CollectionWithheld ==
    ASSUME NEW c, IsCollection(c), NEW d, d = ParsePostmanCollection(c), d # NoDraft
    PROVE  d.source = "postman" /\ Withheld(c, d)
<1>1. c.item
  BY DEF ParsePostmanCollection, Unreadable
<1>2. /\ d.source = "postman" /\ d.value = SensitiveReplaced(c, ImportedValue(c.field))
      /\ d.auth = [ImportedAuth(c) EXCEPT !.value = SensitiveReplaced(c, ImportedAuth(c).value)]
      /\ FieldWarnings(c.field) \subseteq d.warnings /\ AuthWarnings(c) \subseteq d.warnings
      /\ c.variable = "sensitive" => "SECRET_VARIABLE" \in d.warnings
  BY <1>1 DEF ParsePostmanCollection
<1>3. d.auth.value = SensitiveReplaced(c, ImportedAuth(c).value)
  BY <1>2 DEF ImportedAuth
<1> QED BY <1>2, <1>3, FieldWithheld, AuthWithheld DEF Withheld, Literals, IsCollection

LEMMA CommandWithheld ==
    ASSUME NEW c, IsCommand(c), NEW d, d = ParseCurlCommand(c), d # NoDraft
    PROVE  d.source = "curl" /\ Withheld(c, d)
<1>1. /\ d.source = "curl" /\ d.auth = CurlAuth(c) /\ d.warnings = CurlWarnings(c)
      /\ d.values = {CurlHeader(c), CurlBody(c), CurlProxy(c), CurlQuery(c)}
              \cup (IF c.cookie = "pair" THEN {"secret"} ELSE {})
  BY DEF ParseCurlCommand, Unreadable
<1>2. LookedFor(c) => "literal" \notin {CurlHeader(c), CurlBody(c), CurlProxy(c), CurlQuery(c)}
  BY DEF IsCommand, LookedFor, CurlHeader, CurlBody, CurlProxy, CurlQuery, ProtectBody, ProtectSecretValue,
     SensitiveName, IsTemplate, JsonPlaces
<1>3. CurlAuth(c).value # "literal" /\ (CurlAuth(c).value = "secret" => CurlWarnings(c) # {})
  BY DEF CurlAuth, CurlWarnings
<1>4. "secret" \in {CurlHeader(c), CurlBody(c), CurlProxy(c), CurlQuery(c)} \/ c.cookie = "pair"
        => CurlWarnings(c) # {}
  <2>1. CurlHeader(c) = "secret" => CurlWarnings(c) # {}
    BY DEF IsCommand, Options, CurlHeader, CurlWarnings, ProtectSecretValue, SensitiveName, IsTemplate
  <2>2. CurlQuery(c) = "secret" => CurlWarnings(c) # {}
    BY DEF CurlQuery, CurlWarnings
  <2>3. CurlBody(c) = "secret" \/ c.cookie = "pair" => CurlWarnings(c) # {}
    BY DEF CurlWarnings
  <2>4. CurlProxy(c) # "secret"
    BY DEF CurlProxy
  <2> QED BY <2>1, <2>2, <2>3, <2>4
<1> QED BY <1>1, <1>2, <1>3, <1>4 DEF Withheld, Literals, IsCommand

\* The other source is a command with a credential in a header.
LEMMA OtherLookedFor == IsCommand(Other) /\ LookedFor(Other)
<1>1. Other.kind = "curl" /\ Other.header = "key" /\ Other.data = "none" /\ Other.form = "none"
      /\ Other.url = "plain" /\ Other.proxy = "none"
  BY DEF Other, NoOptions
<1> QED BY <1>1 DEF IsCommand, Options, LookedFor

LEMMA SourceIsTyped == SourceInit => IsCollection(pasted) \/ IsCommand(pasted)
<1> SUFFICES ASSUME SourceInit PROVE IsCollection(pasted) \/ IsCommand(pasted)
  OBVIOUS
<1>1. CASE pasted \in Collections
  <2>1. IsCollection(PlainCollection)
    BY DEF IsCollection, PlainCollection
  <2>2. CASE \E f \in CollectionFields : \E v : pasted = WithField(f, v)
    <3>1. PICK f \in CollectionFields : \E v : pasted = WithField(f, v)
      BY <2>2
    <3>2. pasted.kind = "postman" /\ pasted.field = f /\ pasted.auth = "literal"
      BY <3>1 DEF WithField, PlainCollection
    <3> QED BY <3>2 DEF IsCollection, CollectionFields
  <2>3. CASE \E r, o, q : \E v \in {"literal", "reference", "empty"} : pasted = WithAuth(r, o, q, v)
    BY <2>3 DEF IsCollection, PlainCollection, WithAuth
  <2>4. CASE \E s, d, v : pasted = WithScripts(s, d, v)
    BY <2>4 DEF IsCollection, PlainCollection, WithScripts
  <2>5. CASE \E s, e, x, i : pasted = WithItem(s, e, x, i)
    BY <2>5 DEF IsCollection, PlainCollection, WithItem
  <2> QED BY <1>1, <2>2, <2>3, <2>4, <2>5 DEF Collections
<1>2. CASE pasted \in Commands
  <2>1. pasted = NoOptions \/ \E a, b \in DOMAIN Options : \E x \in Options[a], y \in Options[b] :
            pasted = [NoOptions EXCEPT ![a] = x, ![b] = y]
    BY <1>2 DEF Commands
  <2>2. CASE pasted = NoOptions
    BY <2>2 DEF NoOptions, IsCommand
  <2>3. CASE \E a, b \in DOMAIN Options : \E x \in Options[a], y \in Options[b] :
            pasted = [NoOptions EXCEPT ![a] = x, ![b] = y]
    <3>1. PICK a \in DOMAIN Options, b \in DOMAIN Options : \E x \in Options[a], y \in Options[b] :
            pasted = [NoOptions EXCEPT ![a] = x, ![b] = y]
      BY <2>3
    <3>x. PICK x \in Options[a], y \in Options[b] : pasted = [NoOptions EXCEPT ![a] = x, ![b] = y]
      BY <3>1
    <3>2. a # "kind" /\ b # "kind"
      BY DEF Options
    <3>3. pasted.kind = "curl"
      BY <3>x, <3>2 DEF NoOptions
    <3>5. pasted.header = IF b = "header" THEN y ELSE IF a = "header" THEN x ELSE "none"
      BY <3>x DEF NoOptions
    <3> QED BY <3>3, <3>5 DEF IsCommand
  <2> QED BY <2>1, <2>2, <2>3
<1> QED BY <1>1, <1>2 DEF SourceInit

LEMMA ReviewInductive == ReviewSound /\ [ImportNext]_importVars => ReviewSound'
<1> SUFFICES ASSUME ReviewSound, [ImportNext]_importVars PROVE ReviewSound'
  OBVIOUS
<1>1. CASE reviewed' \in {reviewed, NoDraft} /\ UNCHANGED pasted
  BY <1>1 DEF ReviewSound
<1>2. CASE Review
  <2>1. reviewed' \in {NoDraft, DraftOf(pasted), DraftOf(Other)} /\ UNCHANGED pasted
    BY <1>2 DEF Review, ParsedText, DraftOf, Unreadable
  <2> QED BY <2>1 DEF ReviewSound
<1>3. ~Review => reviewed' \in {reviewed, NoDraft} /\ UNCHANGED pasted
  BY DEF importVars, ImportNext, OpenImport, CloseImport, ChangeKind, Paste, ChooseFile, FileRead, BackToSource,
     FinishImport, ImportLanded, ImportAnswered
<1> QED BY <1>1, <1>2, <1>3

\* Whatever is pasted, read from files, reviewed and imported, in any order: a credential
\* is not imported where the importer looks for one, and what is withheld is warned of
\* (monitor-import.ts).
THEOREM CredentialsStay == ImportSpec => []CredentialsWithheld
<1>1. SourceInit /\ ImportInit => ReviewSound
  BY SourceIsTyped DEF ImportInit, ReviewSound
<1>2. ReviewSound => CredentialsWithheld
  <2> SUFFICES ASSUME ReviewSound, ReviewOfPasted PROVE Withheld(pasted, reviewed)
    BY DEF CredentialsWithheld, Withheld
  <2>1. reviewed # NoDraft /\ reviewed.source = pasted.kind
    BY DEF ReviewSound, IsCollection, IsCommand, ReviewOfPasted, NoDraft
  <2>2. CASE IsCollection(pasted)
    <3>1. reviewed # DraftOf(Other)
      BY <2>1, <2>2, OtherLookedFor, CommandWithheld DEF DraftOf, IsCollection, IsCommand
    <3> QED BY <2>1, <2>2, <3>1, CollectionWithheld DEF ReviewSound, DraftOf, IsCollection
  <2>3. CASE IsCommand(pasted)
    <3>1. CASE reviewed = DraftOf(pasted)
      BY <2>1, <2>3, <3>1, CommandWithheld DEF DraftOf, IsCommand
    <3>2. CASE reviewed = DraftOf(Other)
      <4>1. Withheld(Other, reviewed)
        BY <2>1, <3>2, OtherLookedFor, CommandWithheld DEF DraftOf, IsCommand
      <4> QED BY <2>3, <4>1, OtherLookedFor DEF Withheld, IsCommand
    <3> QED BY <2>1, <3>1, <3>2 DEF ReviewSound
  <2> QED BY <2>2, <2>3 DEF ReviewSound
<1> QED BY <1>1, <1>2, ReviewInductive, PTL DEF ImportSpec
-----------------------------------------------------------------------------
(***************************************************************************)
(* Tries to import.  All tries of one opening of the dialog carry its      *)
(* identifier, whatever answers come of tries of earlier openings.         *)
(***************************************************************************)
Drafts == {NoDraft, DraftOf(pasted), DraftOf(Other)}
DialogStates ==
    [open : BOOLEAN, opening : Nat, kind : {"postman", "curl"}, text : Texts, importing : BOOLEAN, failed : BOOLEAN]
ImportRequests ==
    [id : Nat, try : Nat, opening : Nat, draft : Drafts, at : {"sent", "created", "lost"}]
ImportedMonitors == [id : Nat, opening : Nat, draft : Drafts]
ImportTyped ==
    /\ ReviewSound /\ dialog \in DialogStates /\ importTries \in Nat /\ importId \in Nat
    /\ imports \subseteq ImportRequests /\ monitorsMade \subseteq ImportedMonitors
\* A try, or what has become of it, is of an opening that was, and carries its identifier.
ImportIdentified ==
    /\ \A x, y \in imports \cup monitorsMade : x.opening = y.opening => x.id = y.id
    /\ \A x \in imports \cup monitorsMade :
        /\ x.opening <= dialog.opening
        /\ dialog.open /\ x.opening = dialog.opening => importId # 0 /\ x.id = importId
    /\ \A m, n \in monitorsMade : m.id = n.id => m = n
ImportSound == ImportTyped /\ ImportIdentified

LEMMA ImportInitially == SourceInit /\ ImportInit => ImportSound
<1>1. SourceInit => pasted.kind \in {"postman", "curl"}
  BY SourceIsTyped DEF IsCollection, IsCommand
<1>2. SourceInit /\ ImportInit => ReviewSound
  BY SourceIsTyped DEF ImportInit, ReviewSound
<1> QED BY <1>1, <1>2 DEF ImportInit, ImportSound, ImportTyped, ImportIdentified, DialogStates, Texts

\* Steps of the dialog send nothing; one that opens it begins another opening, one that
\* leaves it open keeps its identifier.
LEMMA DialogKeepsImports ==
    ASSUME ImportSound, ReviewSound', UNCHANGED <<pasted, imports, monitorsMade, importTries>>,
           dialog' \in DialogStates, importId' \in Nat,
           \/ ~dialog'.open /\ dialog'.opening = dialog.opening
           \/ dialog'.open /\ dialog'.opening = dialog.opening + 1
           \/ dialog.open /\ dialog'.opening = dialog.opening /\ importId' = importId
    PROVE  ImportSound'
<1>1. ImportTyped'
  BY DEF ImportSound, ImportTyped, ImportRequests, ImportedMonitors, Drafts
<1>2. \A x \in imports \cup monitorsMade : x.opening \in Nat
  BY DEF ImportSound, ImportTyped, ImportRequests, ImportedMonitors
<1>3. dialog.opening \in Nat
  BY DEF ImportSound, ImportTyped, DialogStates
<1>4. ImportIdentified'
  BY <1>2, <1>3 DEF ImportSound, ImportIdentified
<1> QED BY <1>1, <1>4 DEF ImportSound

LEMMA ImportFinishSound == ImportSound /\ FinishImport => ImportSound'
<1> SUFFICES ASSUME ImportSound, FinishImport PROVE ImportSound'
  OBVIOUS
<1> DEFINE try == [id |-> importId', try |-> importTries', opening |-> dialog.opening, draft |-> reviewed, at |-> "sent"]
<1>1. /\ dialog.open /\ dialog' = [dialog EXCEPT !.importing = TRUE, !.failed = FALSE]
      /\ importTries' = importTries + 1 /\ imports' = imports \cup {try}
      /\ UNCHANGED <<pasted, reviewed, monitorsMade>>
  BY DEF FinishImport, Readable
<1>2. importId' \in Nat \ {0} /\ (importId # 0 => importId' = importId)
  BY DEF FinishImport, ImportIdentifier, ImportSound, ImportTyped
<1>3. dialog'.open /\ dialog'.opening = dialog.opening /\ dialog' \in DialogStates /\ dialog.opening \in Nat
  BY <1>1 DEF ImportSound, ImportTyped, DialogStates
<1>4. try \in ImportRequests
  BY <1>1, <1>2, <1>3 DEF ImportSound, ImportTyped, ImportRequests, ReviewSound, Drafts
<1>5. ImportTyped'
  BY <1>1, <1>2, <1>3, <1>4 DEF ImportSound, ImportTyped, ReviewSound, ImportRequests, ImportedMonitors, Drafts
<1>6. \A x \in imports \cup monitorsMade : x.opening = dialog.opening => x.id = importId'
  BY <1>1, <1>2 DEF ImportSound, ImportIdentified
<1>7. try.id = importId' /\ try.opening = dialog.opening
  OBVIOUS
<1>8. imports' \cup monitorsMade' = imports \cup monitorsMade \cup {try}
  BY <1>1
<1> HIDE DEF try
<1>9. ImportIdentified'
  BY <1>1, <1>2, <1>3, <1>6, <1>7, <1>8 DEF ImportSound, ImportIdentified
<1> QED BY <1>5, <1>9 DEF ImportSound

LEMMA MovedSound ==
    ASSUME ImportSound, NEW i \in imports, NEW at \in {"sent", "created", "lost"}
    PROVE  /\ [i EXCEPT !.at = at] \in ImportRequests
           /\ [i EXCEPT !.at = at].id = i.id /\ [i EXCEPT !.at = at].opening = i.opening
<1>1. i \in ImportRequests
  BY DEF ImportSound, ImportTyped
<1> QED BY <1>1 DEF ImportRequests

LEMMA ImportLandedSound == ImportSound /\ ImportLanded => ImportSound'
<1> SUFFICES ASSUME ImportSound, ImportLanded PROVE ImportSound'
  OBVIOUS
<1>1. PICK i \in imports, at \in {"sent", "created", "lost"} :
        /\ imports' = (imports \ {i}) \cup {[i EXCEPT !.at = at]}
        /\ \/ UNCHANGED monitorsMade
           \/ /\ \A m \in monitorsMade : m.id # i.id
              /\ monitorsMade' = monitorsMade \cup {[id |-> i.id, opening |-> i.opening, draft |-> i.draft]}
  BY DEF ImportLanded, MoveImport
<1> DEFINE j == [i EXCEPT !.at = at]
           m == [id |-> i.id, opening |-> i.opening, draft |-> i.draft]
<1>2. j \in ImportRequests /\ j.id = i.id /\ j.opening = i.opening
  BY MovedSound
<1>3. m \in ImportedMonitors /\ m.id = i.id /\ m.opening = i.opening
  BY DEF ImportSound, ImportTyped, ImportRequests, ImportedMonitors
<1>4. UNCHANGED <<pasted, dialog, reviewed, importId, importTries>>
  BY DEF ImportLanded
<1>5. imports' \subseteq imports \cup {j}
  BY <1>1
<1>6. monitorsMade' \subseteq monitorsMade \cup {m}
  BY <1>1
<1>7. \A a, b \in monitorsMade' : a.id = b.id => a = b
  BY <1>1, <1>3 DEF ImportSound, ImportIdentified
<1> HIDE DEF j, m
<1>8. ImportTyped'
  BY <1>2, <1>3, <1>4, <1>5, <1>6 DEF ImportSound, ImportTyped, ReviewSound, ImportRequests, ImportedMonitors, Drafts
<1>9. \A x \in imports' \cup monitorsMade' : \E y \in imports \cup monitorsMade : x.id = y.id /\ x.opening = y.opening
  BY <1>2, <1>3, <1>5, <1>6
<1>10. ImportIdentified'
  BY <1>4, <1>7, <1>9 DEF ImportSound, ImportIdentified
<1> QED BY <1>8, <1>10 DEF ImportSound

LEMMA ImportAnsweredSound == ImportSound /\ ImportAnswered => ImportSound'
<1> SUFFICES ASSUME ImportSound, ImportAnswered PROVE ImportSound'
  OBVIOUS
<1>1. imports' \subseteq imports /\ UNCHANGED <<pasted, monitorsMade, importTries>>
  BY DEF ImportAnswered
<1>2. /\ dialog' \in DialogStates /\ dialog'.opening = dialog.opening
      /\ \/ ~dialog'.open /\ importId' = 0 /\ reviewed' = NoDraft
         \/ dialog'.open = dialog.open /\ UNCHANGED <<importId, reviewed>>
  <2>1. dialog \in DialogStates
    BY DEF ImportSound, ImportTyped
  <2>2. CASE dialog' = Closed /\ reviewed' = NoDraft /\ importId' = 0
    BY <2>1, <2>2 DEF Closed, DialogStates, Texts
  <2>3. CASE dialog' = [dialog EXCEPT !.importing = FALSE, !.failed = TRUE] /\ UNCHANGED <<reviewed, importId>>
    BY <2>1, <2>3 DEF DialogStates
  <2> QED BY <2>2, <2>3 DEF ImportAnswered
<1>3. ImportTyped'
  BY <1>1, <1>2 DEF ImportSound, ImportTyped, ReviewSound, ImportRequests, ImportedMonitors, Drafts
<1>4. ImportIdentified'
  BY <1>1, <1>2 DEF ImportSound, ImportIdentified
<1> QED BY <1>3, <1>4 DEF ImportSound

LEMMA ImportInductive == ImportSound /\ [ImportNext]_importVars => ImportSound'
<1> SUFFICES ASSUME ImportSound, [ImportNext]_importVars PROVE ImportSound'
  OBVIOUS
<1>1. ReviewSound'
  BY ReviewInductive DEF ImportSound, ImportTyped
<1>2. dialog \in DialogStates /\ importId \in Nat
  BY DEF ImportSound, ImportTyped
<1>3. CASE OpenImport
  <2>1. /\ UNCHANGED <<pasted, imports, monitorsMade, importTries, importId>>
        /\ dialog' \in DialogStates /\ dialog'.open /\ dialog'.opening = dialog.opening + 1
    <3>1. dialog' = [dialog EXCEPT !.open = TRUE, !.opening = dialog.opening + 1]
      BY <1>3 DEF OpenImport
    <3>2. dialog.opening + 1 \in Nat
      BY <1>2 DEF DialogStates
    <3> QED BY <1>2, <1>3, <3>1, <3>2 DEF OpenImport, DialogStates
  <2> QED BY <1>1, <1>2, <2>1, DialogKeepsImports
<1>4. CASE CloseImport
  <2>1. /\ UNCHANGED <<pasted, imports, monitorsMade, importTries>> /\ importId' = 0
        /\ dialog' \in DialogStates /\ ~dialog'.open /\ dialog'.opening = dialog.opening
    BY <1>2, <1>4 DEF CloseImport, Closed, DialogStates, Texts
  <2> QED BY <1>1, <2>1, DialogKeepsImports
<1>5. CASE ChangeKind \/ Paste \/ ChooseFile \/ Review \/ BackToSource
  <2> DEFINE Kept ==
        /\ UNCHANGED <<pasted, imports, monitorsMade, importTries, importId>> /\ dialog.open
        /\ dialog' \in DialogStates /\ dialog'.opening = dialog.opening
  <2>0. Kept => ImportSound'
    BY <1>1, <1>2, DialogKeepsImports
  <2>1. CASE ChangeKind
    <3>1. Kept
      BY <1>2, <2>1 DEF ChangeKind, EnteringSource, DialogStates, Texts
    <3> QED BY <2>0, <3>1
  <2>2. CASE Paste
    <3>1. Kept
      BY <1>2, <2>2 DEF Paste, EnteringSource, DialogStates, Texts
    <3> QED BY <2>0, <3>1
  <2>3. CASE ChooseFile
    <3>1. Kept
      BY <1>2, <2>3 DEF ChooseFile, EnteringSource, DialogStates
    <3> QED BY <2>0, <3>1
  <2>4. CASE Review
    <3>1. Kept
      BY <1>2, <2>4 DEF Review, EnteringSource, DialogStates
    <3> QED BY <2>0, <3>1
  <2>5. CASE BackToSource
    <3>1. Kept
      BY <1>2, <2>5 DEF BackToSource, Readable, DialogStates
    <3> QED BY <2>0, <3>1
  <2> QED BY <1>5, <2>1, <2>2, <2>3, <2>4, <2>5
<1>6. CASE FileRead \/ UNCHANGED importVars
  <2>1. UNCHANGED <<pasted, imports, monitorsMade, importTries, importId>>
    BY <1>6 DEF FileRead, importVars
  <2>2. dialog' \in DialogStates /\ dialog'.opening = dialog.opening /\ dialog'.open = dialog.open
    BY <1>2, <1>6 DEF FileRead, importVars, DialogStates, Texts
  <2> QED BY <1>1, <1>2, <2>1, <2>2, DialogKeepsImports DEF DialogStates
<1> QED BY <1>3, <1>4, <1>5, <1>6, ImportFinishSound, ImportLandedSound, ImportAnsweredSound DEF ImportNext

\* Each time the dialog is opened one monitor is imported at most, however often it is tried,
\* closed and opened again, and whichever tries were lost or answered late
\* (monitor-import-dialog.tsx finishImport, monitors/service.go Create).
THEOREM ImportedOnceHolds == ImportSpec => []ImportedOnce
<1>1. ImportSound => ImportedOnce
  BY DEF ImportSound, ImportIdentified, ImportedOnce
<1> QED BY <1>1, ImportInitially, ImportInductive, PTL DEF ImportSpec
=============================================================================

