------------------------ MODULE QueueConsumersProofs ------------------------
(***************************************************************************)
(* The schedules of CloudWatch stay whole, and the consumers of queues     *)
(* lose nothing and launch nothing twice, for any number of versions,      *)
(* requests, replicas, messages and faults.                                *)
(***************************************************************************)
EXTENDS QueueConsumers, TLAPS

-----------------------------------------------------------------------------
(* Schedules.                                                              *)

Serving ==
    [pc: {"removeTargets", "deleteRule", "putRule", "putTargets", "setActive", "setInactive"},
     version: Versions, enable: BOOLEAN]

SchedulesTyped ==
    /\ active \in Versions \cup {None}
    /\ rule \in Versions \cup {None}
    /\ target \in Versions \cup {None}
    /\ caller \in [Callers -> {Idle} \cup Serving]
    /\ failed \in BOOLEAN /\ ownPrefix \in BOOLEAN

\* A request adds a schedule only to enable a version, and deactivates one only
\* to disable it.
Purposeful ==
    \A c \in Callers :
       /\ caller[c].pc \in {"putRule", "putTargets", "setActive"} => caller[c].enable = TRUE
       /\ caller[c].pc = "setInactive" => caller[c].enable = FALSE

\* The rule and the target are of the same version.
Whole == rule # None /\ target # None => rule = target

\* As long as no two requests to enable overlap there is one at most, and only
\* between its two calls may rule and target differ: the others only remove.
OneEnables ==
    ~failed /\ {TRUE} \notin overlapped =>
       /\ \A c, d \in Callers :
             caller[c] # Idle /\ caller[c].enable = TRUE
             /\ caller[d] # Idle /\ caller[d].enable = TRUE => c = d
       /\ \A c \in Callers : caller[c].pc = "putTargets" => rule \in {None, caller[c].version}
       /\ (\A c \in Callers : caller[c].pc # "putTargets") => Whole

\* The schedule is the active version's, or is left of a version that was where
\* disableSchedule has not its name.
Aligned == rule # None /\ target # None => rule = active \/ (ownPrefix /\ active = None)

\* As long as no two requests overlap there is one at most, and it finds the
\* schedule as it left it, or as it was before where it cannot be removed.
OneServes ==
    ~failed /\ overlapped = {} =>
       /\ \A c, d \in Callers : caller[c] # Idle /\ caller[d] # Idle => c = d
       /\ \A c \in Callers :
             /\ caller[c].pc \in {"putTargets", "setActive"} => rule = caller[c].version
             /\ caller[c].pc = "setInactive" => ownPrefix \/ rule = None
       /\ ownPrefix /\ (\A c \in Callers : caller[c].pc \notin {"putTargets", "setActive"}) => Aligned
       /\ (\A c \in Callers : caller[c] = Idle) => Aligned

SInv == SchedulesTyped /\ Purposeful /\ OneEnables /\ OneServes

LEMMA CallerKinds ==
    ASSUME SchedulesTyped, NEW c \in Callers
    PROVE  /\ caller[c] # Idle => caller[c] \in Serving
           /\ caller[c].pc # "idle" => caller[c] \in Serving
           /\ caller[c].pc = "idle" => caller[c] = Idle
BY DEF SchedulesTyped, Serving, Idle

LEMMA SInit == Init => SInv
<1>. SUFFICES ASSUME Init PROVE SInv
  OBVIOUS
<1>1. PICK w \in Workloads : CWInit(w.active, w.requests, w.prefix)
  BY DEF Init
<1>2. w.active \in Versions \cup {None} /\ w.prefix \in BOOLEAN
  BY WorkloadAssumption
<1>3. SchedulesTyped
  BY <1>1, <1>2, Zenon DEF CWInit, SchedulesTyped
<1>4. \A c \in Callers : caller[c] = Idle /\ caller[c].pc = "idle"
  BY <1>1 DEF CWInit, Idle
<1>5. rule = target /\ rule = active
  BY <1>1 DEF CWInit
<1>. QED  BY <1>3, <1>4, <1>5 DEF SInv, Purposeful, OneEnables, OneServes, Whole, Aligned

\* What becomes of the request of c and of the others when it goes on.
LEMMA Goes ==
    ASSUME SchedulesTyped, NEW c \in Callers, caller[c] \in Serving, NEW pc, Goto(c, pc)
    PROVE  /\ caller'[c].pc = pc
           /\ caller'[c].version = caller[c].version
           /\ caller'[c].enable = caller[c].enable
           /\ caller[c] # Idle
           /\ pc # "idle" => caller'[c] # Idle
           /\ \A d \in Callers : d # c => caller'[d] = caller[d]
           /\ pc \in {"removeTargets", "deleteRule", "putRule", "putTargets", "setActive",
                      "setInactive"} => caller' \in [Callers -> {Idle} \cup Serving]
<1>1. /\ caller'[c] = [caller[c] EXCEPT !.pc = pc]
      /\ \A d \in Callers : d # c => caller'[d] = caller[d]
  BY DEF Goto, SchedulesTyped
<1>2. /\ caller'[c].pc = pc
      /\ caller'[c].version = caller[c].version
      /\ caller'[c].enable = caller[c].enable
  BY <1>1 DEF Serving
<1>3. caller[c] # Idle /\ (pc # "idle" => caller'[c] # Idle)
  BY <1>2 DEF Serving, Idle
<1>4. ASSUME pc \in {"removeTargets", "deleteRule", "putRule", "putTargets", "setActive",
                     "setInactive"}
      PROVE  caller' \in [Callers -> {Idle} \cup Serving]
  <2>1. [caller[c] EXCEPT !.pc = pc] \in Serving
    BY <1>4 DEF Serving
  <2>. QED  BY <2>1 DEF Goto, SchedulesTyped
<1>. QED  BY <1>1, <1>2, <1>3, <1>4

LEMMA StartS ==
    ASSUME SInv, NEW c \in Callers, NEW pc \in {"removeTargets", "putRule"},
           NEW v \in Versions, NEW enable \in BOOLEAN, pc = "putRule" => enable = TRUE,
           Start(c, [pc |-> pc, version |-> v, enable |-> enable])
    PROVE  SInv'
<1>. DEFINE request == [pc |-> pc, version |-> v, enable |-> enable]
<1>1. /\ caller[c] = Idle
      /\ caller'[c] = request
      /\ \A d \in Callers : d # c => caller'[d] = caller[d]
      /\ overlapped' = overlapped \cup
           {{enable, caller[d].enable} : d \in {e \in Callers : caller[e] # Idle}}
      /\ UNCHANGED <<active, rule, target, failed, ownPrefix>>
  BY DEF Start, SInv, SchedulesTyped
<1>2. SchedulesTyped'
  <2>1. request \in Serving
    BY DEF Serving
  <2>2. caller' = [caller EXCEPT ![c] = request]
    BY DEF Start
  <2>3. caller' \in [Callers -> {Idle} \cup Serving]
    BY <2>1, <2>2 DEF SInv, SchedulesTyped
  <2>. QED  BY <1>1, <2>3 DEF SInv, SchedulesTyped
<1>3. Purposeful'
  BY <1>1 DEF SInv, Purposeful
<1>4. \A d \in Callers : caller[d] # Idle => {enable, caller[d].enable} \in overlapped'
  BY <1>1
<1>5. caller'[c].enable = enable
  BY <1>1
<1>6. ASSUME {TRUE} \notin overlapped', enable = TRUE, NEW d \in Callers, caller[d] # Idle
      PROVE  caller[d].enable # TRUE
  <2>. SUFFICES ASSUME caller[d].enable = TRUE PROVE FALSE
    BY Zenon
  <2>1. {enable, caller[d].enable} \in overlapped'
    BY <1>6, <1>4, Zenon
  <2>2. {enable, caller[d].enable} = {TRUE}
    BY <1>6, Zenon
  <2>. QED  BY <1>6, <2>1, <2>2, Zenon
<1>7. \A d \in Callers : caller'[d].pc = "putTargets" => caller[d].pc = "putTargets" /\ d # c
  BY <1>1
<1>8. \A d \in Callers : caller[d].pc = "putTargets" => d # c
  BY <1>1 DEF Idle
<1>9. OneEnables'
  <2>. SUFFICES ASSUME ~failed, {TRUE} \notin overlapped' PROVE OneEnables'
    BY <1>1, Zenon DEF OneEnables
  <2>1. {TRUE} \notin overlapped
    BY <1>1, Zenon
  <2>2. ASSUME NEW d \in Callers, NEW e \in Callers,
               caller'[d] # Idle, caller'[d].enable = TRUE,
               caller'[e] # Idle, caller'[e].enable = TRUE
        PROVE  d = e
    <3>1. CASE d # c /\ e # c
      BY <1>1, <2>1, <2>2, <3>1 DEF SInv, OneEnables
    <3>2. ASSUME NEW g \in Callers, NEW i \in Callers, g = c, i # c,
                 caller'[g].enable = TRUE, caller'[i] # Idle, caller'[i].enable = TRUE
          PROVE  FALSE
      <4>1. enable = TRUE
        BY <1>5, <3>2
      <4>2. caller[i] # Idle /\ caller[i].enable = TRUE
        BY <1>1, <3>2
      <4>. QED  BY <1>6, <4>1, <4>2, Zenon
    <3>. QED  BY <2>2, <3>1, <3>2, Zenon
  <2>3. \A d \in Callers : caller'[d].pc = "putTargets" => rule \in {None, caller'[d].version}
    BY <1>1, <1>7, <2>1 DEF SInv, OneEnables
  <2>4. (\A d \in Callers : caller'[d].pc # "putTargets") => Whole
    BY <1>1, <1>8, <2>1 DEF SInv, OneEnables
  <2>. QED  BY <1>1, <2>2, <2>3, <2>4, Zenon DEF OneEnables, Whole
<1>10. OneServes'
  <2>. SUFFICES ASSUME ~failed, overlapped' = {} PROVE OneServes'
    BY <1>1 DEF OneServes
  <2>1. ASSUME NEW d \in Callers PROVE caller[d] = Idle
    <3>. SUFFICES ASSUME caller[d] # Idle PROVE FALSE
      OBVIOUS
    <3>1. {enable, caller[d].enable} \in overlapped'
      BY <1>4
    <3>. QED  BY <3>1
  <2>2. \A d \in Callers : d # c => caller'[d] = Idle
    BY <1>1, <2>1
  <2>3. caller'[c].pc \notin {"putTargets", "setActive", "setInactive"} /\ caller'[c] # Idle
    BY <1>1 DEF Idle
  <2>4. overlapped = {}
    BY <1>1
  <2>5. Aligned
    BY <2>1, <2>4, Zenon DEF SInv, OneServes
  <2>6. Aligned'
    BY <1>1, <2>5 DEF Aligned
  <2>. QED  BY <2>2, <2>3, <2>6 DEF OneServes, Idle
<1>. QED  BY <1>2, <1>3, <1>9, <1>10 DEF SInv

LEMMA RemoveTargetsS ==
    ASSUME SInv, NEW c \in Callers, RemoveTargets(c)
    PROVE  SInv'
<1>1. caller[c].pc = "removeTargets" /\ caller[c] \in Serving
  BY CallerKinds DEF RemoveTargets, SInv
<1>2. /\ target' = IF ownPrefix THEN target ELSE None
      /\ Goto(c, "deleteRule")
      /\ UNCHANGED <<active, rule, failed, overlapped, ownPrefix>>
  BY DEF RemoveTargets
<1>3. /\ caller'[c].pc = "deleteRule"
      /\ caller'[c].enable = caller[c].enable
      /\ caller[c] # Idle /\ caller'[c] # Idle
      /\ \A d \in Callers : d # c => caller'[d] = caller[d]
      /\ caller' \in [Callers -> {Idle} \cup Serving]
  BY <1>1, <1>2, Goes DEF SInv
<1>4. SchedulesTyped'
  BY <1>2, <1>3 DEF SInv, SchedulesTyped
<1>5. Purposeful'
  BY <1>3 DEF SInv, Purposeful
<1>6. OneEnables'
  <2>. SUFFICES ASSUME ~failed, {TRUE} \notin overlapped PROVE OneEnables'
    BY <1>2, Zenon DEF OneEnables
  <2>1. \A d, e \in Callers :
           caller'[d] # Idle /\ caller'[d].enable = TRUE
           /\ caller'[e] # Idle /\ caller'[e].enable = TRUE => d = e
    BY <1>3 DEF SInv, OneEnables
  <2>2. \A d \in Callers : caller'[d].pc = "putTargets" => caller[d].pc = "putTargets" /\ d # c
    BY <1>3, Zenon
  <2>3. \A d \in Callers : caller'[d].pc = "putTargets" => rule' \in {None, caller'[d].version}
    BY <1>2, <1>3, <2>2 DEF SInv, OneEnables
  <2>4. (\A d \in Callers : caller'[d].pc # "putTargets") => Whole
    BY <1>1, <1>3 DEF SInv, OneEnables
  <2>5. Whole => Whole'
    BY <1>2 DEF Whole
  <2>. QED  BY <1>2, <2>1, <2>3, <2>4, <2>5, Zenon DEF OneEnables
<1>7. OneServes'
  BY <1>1, <1>2, <1>3 DEF SInv, OneServes, Aligned
<1>. QED  BY <1>4, <1>5, <1>6, <1>7 DEF SInv

LEMMA DeleteRuleS ==
    ASSUME SInv, NEW c \in Callers, DeleteRule(c)
    PROVE  SInv'
<1>1. caller[c].pc = "deleteRule" /\ caller[c] \in Serving
  BY CallerKinds DEF DeleteRule, SInv
<1>2. /\ rule' = IF ownPrefix THEN rule ELSE None
      /\ Goto(c, AfterRemoval(c))
      /\ UNCHANGED <<active, target, failed, overlapped, ownPrefix>>
  BY DEF DeleteRule
<1>3. /\ AfterRemoval(c) = "putRule" => caller[c].enable = TRUE
      /\ AfterRemoval(c) = "setInactive" => caller[c].enable = FALSE
      /\ AfterRemoval(c) \in {"putRule", "setInactive"}
  BY <1>1 DEF AfterRemoval, Serving
<1>4. /\ caller'[c].pc = AfterRemoval(c)
      /\ caller'[c].enable = caller[c].enable
      /\ caller[c] # Idle /\ caller'[c] # Idle
      /\ \A d \in Callers : d # c => caller'[d] = caller[d]
      /\ caller' \in [Callers -> {Idle} \cup Serving]
  BY <1>1, <1>2, <1>3, Goes DEF SInv
<1>5. SchedulesTyped'
  BY <1>2, <1>4 DEF SInv, SchedulesTyped
<1>6. Purposeful'
  BY <1>3, <1>4 DEF SInv, Purposeful
<1>7. OneEnables'
  <2>. SUFFICES ASSUME ~failed, {TRUE} \notin overlapped PROVE OneEnables'
    BY <1>2, Zenon DEF OneEnables
  <2>1. \A d, e \in Callers :
           caller'[d] # Idle /\ caller'[d].enable = TRUE
           /\ caller'[e] # Idle /\ caller'[e].enable = TRUE => d = e
    BY <1>3, <1>4 DEF SInv, OneEnables
  <2>2. \A d \in Callers : caller'[d].pc = "putTargets" => caller[d].pc = "putTargets" /\ d # c
    BY <1>3, <1>4, Zenon
  <2>3. \A d \in Callers : caller'[d].pc = "putTargets" => rule' \in {None, caller'[d].version}
    BY <1>2, <1>3, <1>4, <2>2 DEF SInv, OneEnables
  <2>4. (\A d \in Callers : caller'[d].pc # "putTargets") => Whole
    BY <1>1, <1>3, <1>4 DEF SInv, OneEnables
  <2>5. Whole => Whole'
    BY <1>2 DEF Whole
  <2>. QED  BY <1>2, <2>1, <2>3, <2>4, <2>5, Zenon DEF OneEnables
<1>8. OneServes'
  BY <1>1, <1>2, <1>3, <1>4 DEF SInv, OneServes, Aligned, Idle
<1>. QED  BY <1>5, <1>6, <1>7, <1>8 DEF SInv

\* A request that fails leaves nothing to show.
LEMMA StopS ==
    ASSUME SInv, NEW c \in Callers, Stop(c)
    PROVE  SInv'
<1>1. /\ caller' = [caller EXCEPT ![c] = Idle]
      /\ failed' = TRUE
      /\ UNCHANGED <<active, rule, target, ownPrefix>>
  BY DEF Stop
<1>2. SchedulesTyped'
  BY <1>1 DEF SInv, SchedulesTyped
<1>3. Purposeful'
  BY <1>1 DEF SInv, SchedulesTyped, Purposeful, Idle
<1>. QED  BY <1>1, <1>2, <1>3 DEF SInv, OneEnables, OneServes

LEMMA PutRuleS ==
    ASSUME SInv, NEW c \in Callers, PutRule(c)
    PROVE  SInv'
<1>1. caller[c].pc = "putRule" /\ caller[c] \in Serving /\ caller[c].enable = TRUE
  BY CallerKinds DEF PutRule, SInv, Purposeful
<1>2. /\ rule' = caller[c].version
      /\ Goto(c, "putTargets")
      /\ UNCHANGED <<active, target, failed, overlapped, ownPrefix>>
  BY DEF PutRule
<1>3. /\ caller'[c].pc = "putTargets"
      /\ caller'[c].version = caller[c].version
      /\ caller'[c].enable = caller[c].enable
      /\ caller[c] # Idle /\ caller'[c] # Idle
      /\ \A d \in Callers : d # c => caller'[d] = caller[d]
      /\ caller' \in [Callers -> {Idle} \cup Serving]
  BY <1>1, <1>2, Goes DEF SInv
<1>4. caller[c].version \in Versions
  BY <1>1 DEF Serving
<1>5. SchedulesTyped'
  BY <1>2, <1>3, <1>4 DEF SInv, SchedulesTyped
<1>6. Purposeful'
  BY <1>1, <1>3 DEF SInv, Purposeful
<1>7. ASSUME NEW d \in Callers, d # c, caller[d].pc = "putTargets"
      PROVE  caller[d] # Idle /\ caller[d].enable = TRUE
  BY <1>7 DEF SInv, Purposeful, Idle
<1>8. OneEnables'
  <2>. SUFFICES ASSUME ~failed, {TRUE} \notin overlapped PROVE OneEnables'
    BY <1>2, Zenon DEF OneEnables
  <2>1. \A d \in Callers : d # c => caller'[d].pc # "putTargets"
    BY <1>1, <1>3, <1>7, Zenon DEF SInv, OneEnables
  <2>2. \A d, e \in Callers :
           caller'[d] # Idle /\ caller'[d].enable = TRUE
           /\ caller'[e] # Idle /\ caller'[e].enable = TRUE => d = e
    BY <1>3 DEF SInv, OneEnables
  <2>. QED  BY <1>2, <1>3, <2>1, <2>2 DEF OneEnables
<1>9. OneServes'
  BY <1>1, <1>2, <1>3 DEF SInv, OneServes, Idle
<1>. QED  BY <1>5, <1>6, <1>8, <1>9 DEF SInv

LEMMA PutTargetsS ==
    ASSUME SInv, NEW c \in Callers, PutTargets(c)
    PROVE  SInv'
<1>1. caller[c].pc = "putTargets" /\ caller[c] \in Serving /\ caller[c].enable = TRUE
  BY CallerKinds DEF PutTargets, SInv, Purposeful
<1>2. /\ rule # None
      /\ target' = caller[c].version
      /\ Goto(c, "setActive")
      /\ UNCHANGED <<active, rule, failed, overlapped, ownPrefix>>
  BY DEF PutTargets
<1>3. /\ caller'[c].pc = "setActive"
      /\ caller'[c].version = caller[c].version
      /\ caller'[c].enable = caller[c].enable
      /\ caller[c] # Idle /\ caller'[c] # Idle
      /\ \A d \in Callers : d # c => caller'[d] = caller[d]
      /\ caller' \in [Callers -> {Idle} \cup Serving]
  BY <1>1, <1>2, Goes DEF SInv
<1>4. caller[c].version \in Versions
  BY <1>1 DEF Serving
<1>5. SchedulesTyped'
  BY <1>2, <1>3, <1>4 DEF SInv, SchedulesTyped
<1>6. Purposeful'
  BY <1>1, <1>3 DEF SInv, Purposeful
<1>7. OneEnables'
  <2>. SUFFICES ASSUME ~failed, {TRUE} \notin overlapped PROVE OneEnables'
    BY <1>2, Zenon DEF OneEnables
  <2>1. rule = caller[c].version
    BY <1>1, <1>2 DEF SInv, OneEnables
  <2>2. Whole'
    BY <1>2, <2>1 DEF Whole
  <2>. QED  BY <1>2, <1>3, <2>2 DEF SInv, OneEnables
<1>8. OneServes'
  BY <1>1, <1>2, <1>3 DEF SInv, OneServes
<1>. QED  BY <1>5, <1>6, <1>7, <1>8 DEF SInv

LEMMA SetActiveS ==
    ASSUME SInv, NEW c \in Callers, SetActive(c)
    PROVE  SInv'
<1>1. caller[c].pc = "setActive" /\ caller[c] \in Serving /\ caller[c] # Idle
  BY CallerKinds DEF SetActive, SInv, Idle
<1>2. /\ active' = caller[c].version
      /\ caller' = [caller EXCEPT ![c] = Idle]
      /\ UNCHANGED <<rule, target, failed, overlapped, ownPrefix>>
  BY DEF SetActive
<1>3. /\ caller'[c] = Idle /\ caller'[c].pc = "idle"
      /\ \A d \in Callers : d # c => caller'[d] = caller[d]
  BY <1>2 DEF SInv, SchedulesTyped, Idle
<1>4. caller[c].version \in Versions
  BY <1>1 DEF Serving
<1>5. SchedulesTyped'
  BY <1>2, <1>4 DEF SInv, SchedulesTyped
<1>6. Purposeful'
  BY <1>3 DEF SInv, Purposeful
<1>7. OneEnables'
  BY <1>1, <1>2, <1>3 DEF SInv, OneEnables, Whole
<1>8. OneServes'
  BY <1>1, <1>2, <1>3 DEF SInv, OneServes, Aligned
<1>. QED  BY <1>5, <1>6, <1>7, <1>8 DEF SInv

LEMMA SetInactiveS ==
    ASSUME SInv, NEW c \in Callers, SetInactive(c)
    PROVE  SInv'
<1>1. caller[c].pc = "setInactive" /\ caller[c] # Idle
  BY DEF SetInactive, Idle
<1>2. /\ active' \in {active, None}
      /\ caller' = [caller EXCEPT ![c] = Idle]
      /\ UNCHANGED <<rule, target, failed, overlapped, ownPrefix>>
  BY DEF SetInactive
<1>3. /\ caller'[c] = Idle /\ caller'[c].pc = "idle"
      /\ \A d \in Callers : d # c => caller'[d] = caller[d]
  BY <1>2 DEF SInv, SchedulesTyped, Idle
<1>4. SchedulesTyped'
  BY <1>2 DEF SInv, SchedulesTyped
<1>5. Purposeful'
  BY <1>3 DEF SInv, Purposeful
<1>6. OneEnables'
  BY <1>1, <1>2, <1>3 DEF SInv, OneEnables, Whole
<1>7. OneServes'
  BY <1>1, <1>2, <1>3 DEF SInv, OneServes, Aligned
<1>. QED  BY <1>4, <1>5, <1>6, <1>7 DEF SInv

LEMMA SStep == SInv /\ [Next]_vars => SInv'
<1>. SUFFICES ASSUME SInv, [Next]_vars PROVE SInv'
  OBVIOUS
<1>1. ASSUME NEW c \in Callers, NEW v \in Versions, enableLaunchPlan(c, v)
      PROVE  SInv'
  <2>1. CASE active # None
    BY <1>1, <2>1, StartS, Zenon DEF enableLaunchPlan
  <2>2. CASE active = None
    BY <1>1, <2>2, StartS, Zenon DEF enableLaunchPlan
  <2>. QED  BY <2>1, <2>2
<1>2. ASSUME NEW c \in Callers, NEW v \in Versions, disableLaunchPlan(c, v)
      PROVE  SInv'
  BY <1>2, StartS, Zenon DEF disableLaunchPlan
<1>3. ASSUME NEW c \in Callers,
             DeleteRuleRefused(c) \/ PutTargetsRefused(c) \/ CallFails(c)
      PROVE  SInv'
  BY <1>3, StopS DEF DeleteRuleRefused, PutTargetsRefused, CallFails
<1>4. CASE CWNext
  BY <1>1, <1>2, <1>3, <1>4, RemoveTargetsS, DeleteRuleS, PutRuleS, PutTargetsS, SetActiveS,
     SetInactiveS DEF CWNext
<1>5. CASE UNCHANGED schedules
  BY <1>5 DEF schedules, SInv, SchedulesTyped, Purposeful, OneEnables, Whole, OneServes, Aligned
<1>6. CASE \E m \in Notifications : Publish(m)
  BY <1>5, <1>6 DEF Publish
<1>7. CASE \E m \in DOMAIN queue : Redeliver(m)
  BY <1>5, <1>7 DEF Redeliver
<1>8. ASSUME NEW r \in Replicas, Work(r) PROVE UNCHANGED schedules
  BY <1>8, Zenon DEF Work, Connect, Run, Receive, DeserializeScheduleWorkflowPayload,
     getActiveLaunchPlanVersion, CreateExecution, Drop, Processor, GcpProcessor, Decode,
     SendEmail, markMessageDone
<1>9. ASSUME NEW r \in Replicas, ChannelCloses(r) \/ Crash(r) PROVE UNCHANGED schedules
  BY <1>9 DEF ChannelCloses, Crash
<1>. QED  BY <1>4, <1>5, <1>6, <1>7, <1>8, <1>9 DEF Next, vars, Fire

\* A schedule of CloudWatch that fires is all of one version, and of the active
\* one when requests come one after the other, however many versions, requests
\* and goroutines there are (enableLaunchPlan, disableLaunchPlan); with another
\* prefix in AWSSchedulerConfig it may also be left of the last active one.
THEOREM ScheduleAlwaysWhole == Spec => []ScheduleIsWhole
<1>1. SInv => ScheduleIsWhole
  BY DEF SInv, OneEnables, OneServes, Aligned, Whole, ScheduleIsWhole, Idle
<1>. QED  BY SInit, SStep, <1>1, PTL DEF Spec

-----------------------------------------------------------------------------
(* Consumers.                                                              *)

Resting == [pc: {"waiting", "closed"}] \cup [pc: {"connecting"}, attempt: Nat]
Holding(messages) ==
    [pc: {"received", "lookUp", "drop", "send", "done"}, message: messages]
Making(messages) == [pc: {"create", "done"}, message: messages, version: Versions]

ConsumersTyped ==
    /\ kind \in {"executor", "aws", "gcp"}
    /\ queue \in [DOMAIN queue -> {"queued", "received", "gone"}]
    /\ replica \in [Replicas -> Resting \cup Holding(DOMAIN queue) \cup Making(DOMAIN queue)]
    /\ emailMessage = [r \in Replicas |-> emailMessage[r]]

Reasons ==
    {"no active version", "not built", "malformed", "not sent", "no emailer", "unpublished"}

\* The message has been handled, or given up for a reason.
Accounted(m) == Handled(m) \/ \E why \in Reasons : <<m, why>> \in settled

\* What the process r is about to do is right for the state p it is in.
Right(r, p) ==
    /\ p.pc \in {"lookUp", "create", "drop"} => kind = "executor"
    /\ p.pc = "send" =>
          kind # "executor" /\ emailMessage[r] = ToEmailMessageFromWorkflowExecutionEvent(p.message)
    /\ p.pc = "drop" => <<p.message, "no active version">> \in settled
    /\ p.pc = "done" => Accounted(p.message)

\* The name of an execution is that of the time it was launched for, unless it
\* was disturbed, and no two executions have the same.
ByTime(e) == IF e.disturbed THEN \E n : e.name = <<e.time, n>> ELSE e.name = <<e.time>>
NamedByTime ==
    /\ \A e \in executions : ByTime(e)
    /\ \A e, f \in executions : e.name = f.name => e = f

CInv ==
    /\ ConsumersTyped /\ NamedByTime /\ HandledBeforeDone /\ EmailIsRight
    /\ \A r \in Replicas : Right(r, replica[r])

LEMMA ReplicaKinds ==
    ASSUME CInv, NEW r \in Replicas
    PROVE  /\ replica[r].pc \in {"received", "lookUp", "drop", "send"} =>
                replica[r] \in Holding(DOMAIN queue)
           /\ replica[r].pc = "create" => replica[r] \in Making(DOMAIN queue)
           /\ replica[r].pc = "done" => replica[r] \in Holding(DOMAIN queue) \cup Making(DOMAIN queue)
           /\ replica[r].pc = "connecting" => replica[r] \in [pc: {"connecting"}, attempt: Nat]
<1>1. replica[r] \in Resting \cup Holding(DOMAIN queue) \cup Making(DOMAIN queue)
  BY DEF CInv, ConsumersTyped
<1>. QED  BY <1>1 DEF Resting, Holding, Making

\* What has been done is not undone.
Grows ==
    /\ UNCHANGED kind
    /\ executions \subseteq executions' /\ sent \subseteq sent' /\ settled \subseteq settled'

LEMMA StaysAccounted ==
    ASSUME Grows, NEW m, Accounted(m)
    PROVE  Accounted(m)'
BY DEF Grows, Accounted, Handled

LEMMA StaysRight ==
    ASSUME CInv, Grows, NEW r \in Replicas, replica'[r] = replica[r],
           emailMessage'[r] = emailMessage[r]
    PROVE  Right(r, replica[r])'
<1>. PICK p : p = replica[r]
  OBVIOUS
<1>1. Right(r, p)
  BY DEF CInv
<1>2. Right(r, p)'
  BY <1>1, StaysAccounted, Zenon DEF Right, Grows
<1>3. p = replica'[r]
  OBVIOUS
<1>. QED  BY <1>2, <1>3

\* Messages that go are accounted for.
Delivers ==
    /\ queue' \in [DOMAIN queue' -> {"queued", "received", "gone"}]
    /\ DOMAIN queue \subseteq DOMAIN queue'
    /\ \A m \in DOMAIN queue' :
          queue'[m] = "gone" => Accounted(m)' \/ (m \in DOMAIN queue /\ queue[m] = "gone")

LEMMA StaysHandled ==
    ASSUME CInv, Grows, Delivers
    PROVE  HandledBeforeDone'
<1>. SUFFICES ASSUME NEW m \in DOMAIN queue', queue'[m] = "gone" PROVE Accounted(m)'
  BY Zenon DEF HandledBeforeDone, Accounted, Reasons
<1>1. CASE m \in DOMAIN queue /\ queue[m] = "gone"
  <2>1. Accounted(m)
    BY <1>1, Zenon DEF CInv, HandledBeforeDone, Accounted, Reasons
  <2>. QED  BY <2>1, StaysAccounted
<1>. QED  BY <1>1 DEF Delivers

\* A step that leaves the processes alone.
LEMMA QueueC ==
    ASSUME CInv, Grows, Delivers, UNCHANGED <<replica, emailMessage, executions, sent>>
    PROVE  CInv'
<1>1. HandledBeforeDone'
  BY StaysHandled
<1>2. \A r \in Replicas : Right(r, replica[r])'
  BY StaysRight
<1>3. replica' \in [Replicas -> Resting \cup Holding(DOMAIN queue') \cup Making(DOMAIN queue')]
  BY DEF CInv, ConsumersTyped, Delivers, Holding, Making
<1>4. ConsumersTyped'
  BY <1>3 DEF CInv, ConsumersTyped, Grows, Delivers
<1>5. NamedByTime' /\ EmailIsRight'
  BY DEF CInv, NamedByTime, EmailIsRight
<1>. QED  BY <1>1, <1>2, <1>4, <1>5 DEF CInv

\* A step of the process r, which becomes p.
LEMMA ReplicaC ==
    ASSUME CInv, Grows, Delivers, NamedByTime', EmailIsRight', NEW r \in Replicas, NEW p,
           p \in Resting \cup Holding(DOMAIN queue') \cup Making(DOMAIN queue'),
           replica' = [replica EXCEPT ![r] = p], Right(r, p)',
           emailMessage' = [q \in Replicas |-> emailMessage'[q]],
           \A q \in Replicas : q # r => emailMessage'[q] = emailMessage[q]
    PROVE  CInv'
<1>1. HandledBeforeDone'
  BY StaysHandled
<1>2. /\ replica'[r] = p
      /\ \A q \in Replicas : q # r => replica'[q] = replica[q]
  BY DEF CInv, ConsumersTyped
<1>3. ASSUME NEW q \in Replicas PROVE Right(q, replica[q])'
  <2>1. CASE q = r
    BY <1>2, <2>1
  <2>2. CASE q # r
    BY <1>2, <2>2, StaysRight
  <2>. QED  BY <2>1, <2>2
<1>4. replica' \in [Replicas -> Resting \cup Holding(DOMAIN queue') \cup Making(DOMAIN queue')]
  <2>1. replica \in [Replicas -> Resting \cup Holding(DOMAIN queue') \cup Making(DOMAIN queue')]
    BY DEF CInv, ConsumersTyped, Delivers, Holding, Making
  <2>. QED  BY <2>1
<1>5. ConsumersTyped'
  BY <1>4 DEF CInv, ConsumersTyped, Grows, Delivers
<1>. QED  BY <1>1, <1>3, <1>5 DEF CInv

LEMMA CInit == Init => CInv
<1>. SUFFICES ASSUME Init PROVE CInv
  OBVIOUS
<1>1. kind \in {"executor", "aws", "gcp"}
  BY WorkloadAssumption DEF Init
<1>2. DOMAIN queue = {} /\ queue \in [DOMAIN queue -> {"queued", "received", "gone"}]
  BY DEF Init
<1>3. \A r \in Replicas : replica[r].pc = "connecting" /\ replica[r] \in Resting
  BY DEF Init, Connecting, Resting
<1>4. ConsumersTyped
  BY <1>1, <1>2, <1>3 DEF Init, ConsumersTyped
<1>5. NamedByTime /\ EmailIsRight
  BY DEF Init, NamedByTime, EmailIsRight
<1>6. HandledBeforeDone
  BY <1>2, Zenon DEF HandledBeforeDone
<1>. QED  BY <1>3, <1>4, <1>5, <1>6, Zenon DEF CInv, Right

LEMMA FireC ==
    ASSUME CInv, Fire
    PROVE  CInv'
<1>1. Grows /\ UNCHANGED <<replica, emailMessage, executions, sent>>
  BY DEF Fire, Grows, deployment
<1>2. CASE rule # None /\ target # None
  <2>. PICK m : m = Scheduled(clock, KickoffTimeArg[target])
    OBVIOUS
  <2>1. queue' = [x \in DOMAIN queue \cup {m} |-> IF x = m THEN "queued" ELSE queue[x]]
    BY <1>2 DEF Fire, Put
  <2>2. Delivers
    BY <2>1 DEF Delivers, CInv, ConsumersTyped
  <2>. QED  BY <1>1, <2>2, QueueC
<1>3. CASE ~(rule # None /\ target # None)
  <2>1. UNCHANGED queue
    BY <1>3 DEF Fire
  <2>2. Delivers
    BY <2>1 DEF Delivers, CInv, ConsumersTyped
  <2>. QED  BY <1>1, <2>2, QueueC
<1>. QED  BY <1>2, <1>3

LEMMA PublishC ==
    ASSUME CInv, NEW m, Publish(m)
    PROVE  CInv'
<1>1. Grows /\ UNCHANGED <<replica, emailMessage, executions, sent>>
  BY DEF Publish, Grows, deployment
<1>2. CASE queue' = [x \in DOMAIN queue \cup {m} |-> IF x = m THEN "queued" ELSE queue[x]]
  <2>1. Delivers
    BY <1>2 DEF Delivers, CInv, ConsumersTyped
  <2>. QED  BY <1>1, <2>1, QueueC
<1>3. CASE /\ settled' = settled \cup {<<m, "unpublished">>}
           /\ queue' = [x \in DOMAIN queue \cup {m} |-> IF x = m THEN "gone" ELSE queue[x]]
  <2>1. Accounted(m)'
    BY <1>3 DEF Accounted, Reasons
  <2>2. Delivers
    BY <1>3, <2>1 DEF Delivers, CInv, ConsumersTyped
  <2>. QED  BY <1>1, <2>2, QueueC
<1>. QED  BY <1>2, <1>3 DEF Publish, Put

LEMMA RedeliverC ==
    ASSUME CInv, NEW m \in DOMAIN queue, Redeliver(m)
    PROVE  CInv'
<1>1. Grows /\ UNCHANGED <<replica, emailMessage, executions, sent>>
  BY DEF Redeliver, Grows, deployment
<1>2. Delivers
  BY DEF Redeliver, Delivers, CInv, ConsumersTyped
<1>. QED  BY <1>1, <1>2, QueueC

\* A process that lets go of its message has nothing to answer for.
LEMMA RestsC ==
    ASSUME CInv, Grows, Delivers, UNCHANGED <<executions, sent>>, NEW r \in Replicas,
           NEW p \in Resting, replica' = [replica EXCEPT ![r] = p],
           \/ UNCHANGED emailMessage
           \/ emailMessage' = [emailMessage EXCEPT ![r] = None]
    PROVE  CInv'
<1>1. Right(r, p)'
  BY Zenon DEF Right, Resting
<1>2. NamedByTime' /\ EmailIsRight'
  BY DEF CInv, NamedByTime, EmailIsRight
<1>3. /\ emailMessage' = [q \in Replicas |-> emailMessage'[q]]
      /\ \A q \in Replicas : q # r => emailMessage'[q] = emailMessage[q]
  BY DEF CInv, ConsumersTyped
<1>. QED  BY <1>1, <1>2, <1>3, ReplicaC, Zenon

LEMMA Unmoved ==
    ASSUME CInv, UNCHANGED queue
    PROVE  Delivers
BY DEF Delivers, CInv, ConsumersTyped

LEMMA ConnectC ==
    ASSUME CInv, NEW r \in Replicas, Connect(r)
    PROVE  CInv'
<1>1. Grows /\ Delivers /\ UNCHANGED <<emailMessage, executions, sent>>
  BY Unmoved DEF Connect, Grows, deployment
<1>2. Waiting \in Resting /\ Retry(r) \in Resting
  BY ReplicaKinds DEF Connect, At, Waiting, Retry, Connecting, Resting
<1>. QED  BY <1>1, <1>2, RestsC DEF Connect, Become

LEMMA ClosesC ==
    ASSUME CInv, NEW r \in Replicas, ChannelCloses(r) \/ Run(r)
    PROVE  CInv'
<1>1. Grows /\ Delivers /\ UNCHANGED <<emailMessage, executions, sent>>
  BY Unmoved DEF ChannelCloses, Run, Grows, deployment
<1>2. Waiting \in Resting /\ [pc |-> "closed"] \in Resting
  BY DEF Waiting, Resting
<1>. QED  BY <1>1, <1>2, RestsC DEF ChannelCloses, Run, Become

LEMMA CrashC ==
    ASSUME CInv, NEW r \in Replicas, Crash(r)
    PROVE  CInv'
<1>1. Grows /\ Delivers /\ UNCHANGED <<executions, sent>>
  BY Unmoved DEF Crash, Grows, deployment
<1>2. Connecting(0) \in Resting
  BY DEF Connecting, Resting
<1>. QED  BY <1>1, <1>2, RestsC, Zenon DEF Crash, Restarted, Become

LEMMA ReceiveC ==
    ASSUME CInv, NEW r \in Replicas, NEW m \in DOMAIN queue, Receive(r, m)
    PROVE  CInv'
<1>. DEFINE p == [pc |-> "received", message |-> m]
<1>1. Grows /\ UNCHANGED <<emailMessage, executions, sent>>
  BY DEF Receive, Grows, deployment
<1>2. Delivers /\ DOMAIN queue' = DOMAIN queue
  BY DEF Receive, Delivers, CInv, ConsumersTyped
<1>3. p \in Holding(DOMAIN queue')
  BY <1>2 DEF Holding
<1>4. Right(r, p)'
  BY Zenon DEF Right
<1>5. NamedByTime' /\ EmailIsRight'
  BY <1>1, Zenon DEF CInv, NamedByTime, EmailIsRight
<1>6. replica' = [replica EXCEPT ![r] = p]
  BY DEF Receive, Become
<1>7. emailMessage' = [q \in Replicas |-> emailMessage'[q]]
  BY <1>1 DEF CInv, ConsumersTyped
<1>. QED  BY <1>1, <1>2, <1>3, <1>4, <1>5, <1>6, <1>7, ReplicaC, Zenon

\* The message of a process that goes is accounted for.
LEMMA DeleteC ==
    ASSUME CInv, Grows, NEW m \in DOMAIN queue, Accounted(m), Delete(m)
    PROVE  Delivers
<1>1. Accounted(m)'
  BY StaysAccounted
<1>. QED  BY <1>1 DEF Delete, Delivers, CInv, ConsumersTyped

LEMMA DropC ==
    ASSUME CInv, NEW r \in Replicas, Drop(r)
    PROVE  CInv'
<1>1. Grows /\ UNCHANGED <<executions, sent>>
  BY DEF Drop, Grows, deployment
<1>2. Waiting \in Resting /\ Connecting(0) \in Resting
  BY Zenon DEF Waiting, Connecting, Resting
<1>3. replica[r].message \in DOMAIN queue
  BY ReplicaKinds, Zenon DEF Drop, At, Holding
<1>4. Accounted(replica[r].message)
  BY Zenon DEF Drop, At, CInv, Right, Accounted, Reasons
<1>5. CASE Delete(replica[r].message) /\ Become(r, Waiting) /\ UNCHANGED emailMessage
  <2>1. Delivers
    BY <1>1, <1>3, <1>4, <1>5, DeleteC
  <2>. QED  BY <1>1, <1>2, <1>5, <2>1, RestsC, Zenon DEF Become
<1>6. CASE Restarted(r) /\ UNCHANGED queue
  <2>1. Delivers
    BY <1>6, Unmoved
  <2>. QED  BY <1>1, <1>2, <1>6, <2>1, RestsC, Zenon DEF Become, Restarted
<1>. QED  BY <1>5, <1>6 DEF Drop

LEMMA MarkMessageDoneC ==
    ASSUME CInv, NEW r \in Replicas, markMessageDone(r)
    PROVE  CInv'
<1>1. Grows /\ UNCHANGED <<emailMessage, executions, sent>>
  BY DEF markMessageDone, Grows, deployment
<1>2. Waiting \in Resting
  BY DEF Waiting, Resting
<1>3. replica[r].message \in DOMAIN queue
  BY ReplicaKinds DEF markMessageDone, At, Holding, Making
<1>4. Accounted(replica[r].message)
  BY Zenon DEF markMessageDone, At, CInv, Right
<1>5. Delivers
  BY <1>1, <1>3, <1>4, DeleteC, Unmoved DEF markMessageDone
<1>. QED  BY <1>1, <1>2, <1>5, RestsC, Zenon DEF markMessageDone, Become

LEMMA GivenUp ==
    ASSUME NEW m, NEW why \in Reasons, settled' = settled \cup {<<m, why>>}
    PROVE  <<m, why>> \in settled' /\ Accounted(m)'
BY DEF Accounted

LEMMA DoneRight ==
    ASSUME NEW r, NEW p, p.pc = "done", Accounted(p.message)'
    PROVE  Right(r, p)'
BY DEF Right

\* A process that goes on keeps its message; it becomes p.
LEMMA GoesOn ==
    ASSUME CInv, NEW r \in Replicas,
           NEW pc \in {"received", "lookUp", "drop", "send", "done"},
           replica[r] \in Holding(DOMAIN queue) \/ (replica[r] \in Making(DOMAIN queue) /\ pc = "done"),
           NEW p, p = [replica[r] EXCEPT !.pc = pc], UNCHANGED queue
    PROVE  /\ p \in Resting \cup Holding(DOMAIN queue') \cup Making(DOMAIN queue')
           /\ p.pc = pc /\ p.message = replica[r].message
           /\ To(r, pc) => replica' = [replica EXCEPT ![r] = p]
<1>1. /\ p \in Resting \cup Holding(DOMAIN queue) \cup Making(DOMAIN queue)
      /\ p.pc = pc /\ p.message = replica[r].message
  BY DEF Holding, Making
<1>. QED  BY <1>1 DEF To

LEMMA DeserializeC ==
    ASSUME CInv, NEW r \in Replicas, DeserializeScheduleWorkflowPayload(r)
    PROVE  CInv'
<1>1. /\ Grows /\ UNCHANGED <<queue, emailMessage, executions, sent>>
      /\ kind' = "executor" /\ replica[r].pc = "received"
  BY DEF DeserializeScheduleWorkflowPayload, Grows, deployment, At
<1>2. Delivers
  BY <1>1, Unmoved
<1>3. CASE Become(r, Waiting)
  <2>1. Waiting \in Resting
    BY DEF Waiting, Resting
  <2>. QED  BY <1>1, <1>2, <1>3, <2>1, RestsC, Zenon DEF Become
<1>4. CASE To(r, "lookUp")
  <2>. PICK p : p = [replica[r] EXCEPT !.pc = "lookUp"]
    BY Zenon
  <2>1. /\ p \in Resting \cup Holding(DOMAIN queue') \cup Making(DOMAIN queue')
        /\ p.pc = "lookUp"
        /\ replica' = [replica EXCEPT ![r] = p]
    BY <1>1, <1>4, ReplicaKinds, GoesOn
  <2>2. Right(r, p)'
    BY <1>1, <2>1 DEF Right
  <2>3. NamedByTime' /\ EmailIsRight'
    BY <1>1 DEF CInv, NamedByTime, EmailIsRight
  <2>4. emailMessage' = [q \in Replicas |-> emailMessage'[q]]
    BY <1>1 DEF CInv, ConsumersTyped
  <2>. QED  BY <1>1, <1>2, <2>1, <2>2, <2>3, <2>4, ReplicaC, Zenon
<1>. QED  BY <1>3, <1>4 DEF DeserializeScheduleWorkflowPayload

LEMMA GetActiveC ==
    ASSUME CInv, SchedulesTyped, NEW r \in Replicas, getActiveLaunchPlanVersion(r)
    PROVE  CInv'
<1>1. /\ Grows /\ UNCHANGED <<queue, emailMessage, executions, sent>>
      /\ replica[r].pc = "lookUp"
  BY Zenon DEF getActiveLaunchPlanVersion, Grows, deployment, At
<1>2. kind' = "executor"
  BY <1>1, Zenon DEF CInv, Right, Grows
<1>3. Delivers
  BY <1>1, Unmoved, Zenon
<1>4. NamedByTime' /\ EmailIsRight'
  BY <1>1, Zenon DEF CInv, NamedByTime, EmailIsRight
<1>5. emailMessage' = [q \in Replicas |-> emailMessage'[q]]
  BY <1>1, Zenon DEF CInv, ConsumersTyped
<1>6. replica[r] \in Holding(DOMAIN queue)
  BY <1>1, ReplicaKinds, Zenon
<1>7. CASE /\ active # None
           /\ Become(r, [pc |-> "create", message |-> replica[r].message, version |-> active])
  <2>. PICK p : p = [pc |-> "create", message |-> replica[r].message, version |-> active]
    BY Zenon
  <2>1. p \in Making(DOMAIN queue')
    BY <1>1, <1>6, <1>7 DEF SchedulesTyped, Holding, Making
  <2>2. Right(r, p)'
    BY <1>2, Zenon DEF Right
  <2>3. replica' = [replica EXCEPT ![r] = p]
    BY <1>7 DEF Become
  <2>. QED  BY <1>1, <1>3, <1>4, <1>5, <2>1, <2>2, <2>3, ReplicaC, Zenon
<1>8. CASE To(r, "drop") /\ settled' = settled \cup {<<replica[r].message, "no active version">>}
  <2>. PICK p : p = [replica[r] EXCEPT !.pc = "drop"]
    BY Zenon
  <2>1. /\ p \in Resting \cup Holding(DOMAIN queue') \cup Making(DOMAIN queue')
        /\ p.pc = "drop" /\ p.message = replica[r].message
        /\ replica' = [replica EXCEPT ![r] = p]
    <3>1. To(r, "drop")
      BY <1>8, Zenon
    <3>. QED  BY <1>1, <1>6, <3>1, GoesOn
  <2>2. <<p.message, "no active version">> \in settled'
    BY <1>8, <2>1, GivenUp, Zenon DEF Reasons
  <2>3. Right(r, p)'
    BY <1>2, <2>1, <2>2, Zenon DEF Right
  <2>. QED  BY <1>1, <1>3, <1>4, <1>5, <2>1, <2>3, ReplicaC, Zenon
<1>. QED  BY <1>7, <1>8, Zenon DEF getActiveLaunchPlanVersion

LEMMA CreateExecutionC ==
    ASSUME CInv, NEW r \in Replicas, CreateExecution(r)
    PROVE  CInv'
<1>. PICK m : m = replica[r].message
  OBVIOUS
<1>0. PICK x :
        /\ \E disturbed \in BOOLEAN : x = formulateExecutionCreateRequest(r, disturbed)
        /\ \/ /\ executions' = IF Named(x.name) = {} THEN executions \cup {x} ELSE executions
              /\ To(r, "done") /\ UNCHANGED settled
           \/ /\ \/ settled' = settled \cup {<<m, "refused">>}
                 \/ UNCHANGED settled
              /\ Become(r, AfterError(r)) /\ UNCHANGED executions
           \/ settled' = settled \cup {<<m, "not built">>} /\ To(r, "done") /\ UNCHANGED executions
  BY Zenon DEF CreateExecution
<1>1. x.time = m.time /\ ByTime(x)
  <2>. PICK disturbed \in BOOLEAN : x = formulateExecutionCreateRequest(r, disturbed)
    BY <1>0, Zenon
  <2>. QED  BY Zenon DEF formulateExecutionCreateRequest, generateExecutionName, ByTime
<1>2. /\ UNCHANGED <<kind, queue, emailMessage, sent>>
      /\ replica[r].pc = "create"
  BY Zenon DEF CreateExecution, deployment, At
<1>3. kind = "executor"
  BY <1>2, Zenon DEF CInv, Right
<1>4. Delivers /\ EmailIsRight'
  BY <1>2, Unmoved, Zenon DEF CInv, EmailIsRight
<1>5. emailMessage' = [q \in Replicas |-> emailMessage'[q]]
  BY <1>2, Zenon DEF CInv, ConsumersTyped
<1>6. replica[r] \in Making(DOMAIN queue)
  BY <1>2, ReplicaKinds
<1>. PICK p : p = [replica[r] EXCEPT !.pc = "done"]
  BY Zenon
<1>7. /\ p \in Resting \cup Holding(DOMAIN queue') \cup Making(DOMAIN queue')
      /\ p.pc = "done" /\ p.message = m
      /\ To(r, "done") => replica' = [replica EXCEPT ![r] = p]
  BY <1>2, <1>6, GoesOn
<1>8. CASE /\ executions' = IF Named(x.name) = {} THEN executions \cup {x} ELSE executions
           /\ To(r, "done") /\ UNCHANGED settled
  <2>1. Grows
    BY <1>2, <1>8 DEF Grows
  <2>2. NamedByTime'
    BY <1>1, <1>8 DEF CInv, NamedByTime, Named
  <2>3. \E e \in executions' : e.time = m.time
    <3>1. CASE Named(x.name) = {}
      BY <1>1, <1>8, <3>1
    <3>2. CASE Named(x.name) # {}
      <4>1. PICK e \in executions : e.name = x.name
        BY <3>2 DEF Named
      <4>2. e.name[1] = e.time /\ x.name[1] = x.time
        BY <1>1 DEF CInv, NamedByTime, ByTime
      <4>. QED  BY <1>1, <1>8, <3>2, <4>1, <4>2
    <3>. QED  BY <3>1, <3>2
  <2>4. Right(r, p)'
    BY <1>2, <1>3, <1>7, <2>3 DEF Right, Accounted, Handled
  <2>. QED  BY <1>2, <1>4, <1>5, <1>7, <1>8, <2>1, <2>2, <2>4, ReplicaC
<1>9. CASE /\ \/ settled' = settled \cup {<<m, "refused">>}
              \/ UNCHANGED settled
           /\ Become(r, AfterError(r)) /\ UNCHANGED executions
  <2>1. AfterError(r) \in Resting
    BY DEF AfterError, Waiting, Resting
  <2>2. Grows
    BY <1>2, <1>9 DEF Grows
  <2>. QED  BY <1>2, <1>4, <1>9, <2>1, <2>2, RestsC, Zenon DEF Become
<1>10. CASE settled' = settled \cup {<<m, "not built">>} /\ To(r, "done") /\ UNCHANGED executions
  <2>1. Grows /\ NamedByTime'
    BY <1>2, <1>10, Zenon DEF Grows, CInv, NamedByTime
  <2>2. Accounted(m)'
    BY <1>10, GivenUp, Zenon DEF Reasons
  <2>3. Right(r, p)'
    <3>1. p.pc = "done" /\ p.message = m
      BY <1>7
    <3>. QED  BY <2>2, <3>1, DoneRight, Zenon
  <2>. QED  BY <1>2, <1>4, <1>5, <1>7, <1>10, <2>1, <2>3, ReplicaC, Zenon
<1>. QED  BY <1>0, <1>8, <1>9, <1>10, Zenon

LEMMA DecodeC ==
    ASSUME CInv, NEW r \in Replicas, kind # "executor", Decode(r)
    PROVE  CInv'
<1>. PICK m : m = replica[r].message
  OBVIOUS
<1>1. /\ UNCHANGED <<kind, queue, executions, sent>>
      /\ replica[r].pc = "received"
  BY Zenon DEF Decode, deployment, At
<1>2. Delivers /\ NamedByTime' /\ EmailIsRight'
  BY <1>1, Unmoved, Zenon DEF CInv, NamedByTime, EmailIsRight
<1>3. replica[r] \in Holding(DOMAIN queue)
  BY <1>1, ReplicaKinds
<1>4. CASE /\ emailMessage' = [emailMessage EXCEPT ![r] =
                                 Unmarshal(@, ToEmailMessageFromWorkflowExecutionEvent(m))]
           /\ To(r, "send") /\ UNCHANGED settled
  <2>. PICK p : p = [replica[r] EXCEPT !.pc = "send"]
    BY Zenon
  <2>1. /\ p \in Resting \cup Holding(DOMAIN queue') \cup Making(DOMAIN queue')
        /\ p.pc = "send" /\ p.message = m
        /\ replica' = [replica EXCEPT ![r] = p]
    BY <1>1, <1>3, <1>4, GoesOn
  <2>2. /\ emailMessage'[r] = ToEmailMessageFromWorkflowExecutionEvent(m)
        /\ emailMessage' = [q \in Replicas |-> emailMessage'[q]]
        /\ \A q \in Replicas : q # r => emailMessage'[q] = emailMessage[q]
    BY <1>4 DEF Unmarshal, CInv, ConsumersTyped
  <2>3. Right(r, p)'
    BY <1>1, <2>1, <2>2 DEF Right, ToEmailMessageFromWorkflowExecutionEvent,
       substituteEmailParameters, getTemplateValue
  <2>4. Grows
    BY <1>1, <1>4 DEF Grows
  <2>. QED  BY <1>2, <2>1, <2>2, <2>3, <2>4, ReplicaC, Zenon
<1>5. CASE /\ settled' = settled \cup {<<m, "malformed">>}
           /\ Become(r, AfterMalformed(r)) /\ UNCHANGED emailMessage
  <2>. PICK p : p = [replica[r] EXCEPT !.pc = "done"]
    BY Zenon
  <2>1. /\ p \in Resting \cup Holding(DOMAIN queue') \cup Making(DOMAIN queue')
        /\ p.pc = "done" /\ p.message = m
    BY <1>1, <1>3, GoesOn
  <2>2. replica' = [replica EXCEPT ![r] = p]
    BY <1>5 DEF Become, AfterMalformed
  <2>3. Accounted(m)'
    BY <1>5, GivenUp, Zenon DEF Reasons
  <2>4. Right(r, p)'
    BY <2>1, <2>3, DoneRight, Zenon
  <2>5. Grows /\ emailMessage' = [q \in Replicas |-> emailMessage'[q]]
    BY <1>1, <1>5 DEF Grows, CInv, ConsumersTyped
  <2>. QED  BY <1>2, <1>5, <2>1, <2>2, <2>4, <2>5, ReplicaC, Zenon
<1>. QED  BY <1>4, <1>5, Zenon DEF Decode

LEMMA SendEmailC ==
    ASSUME CInv, NEW r \in Replicas, SendEmail(r)
    PROVE  CInv'
<1>. PICK m : m = replica[r].message
  OBVIOUS
<1>1. /\ UNCHANGED <<kind, queue, emailMessage, executions>>
      /\ replica[r].pc = "send" /\ To(r, "done")
  BY Zenon DEF SendEmail, deployment, At
<1>2. kind # "executor" /\ emailMessage[r] = ToEmailMessageFromWorkflowExecutionEvent(m)
  BY <1>1, Zenon DEF CInv, Right
<1>3. replica[r] \in Holding(DOMAIN queue)
  BY <1>1, ReplicaKinds
<1>4. Delivers /\ NamedByTime' /\ emailMessage' = [q \in Replicas |-> emailMessage'[q]]
  BY <1>1, Unmoved DEF CInv, NamedByTime, ConsumersTyped
<1>. PICK p : p = [replica[r] EXCEPT !.pc = "done"]
  BY Zenon
<1>5. /\ p \in Resting \cup Holding(DOMAIN queue') \cup Making(DOMAIN queue')
      /\ p.pc = "done" /\ p.message = m
      /\ replica' = [replica EXCEPT ![r] = p]
  BY <1>1, <1>3, GoesOn
<1>6. ASSUME NEW s, s.message = m, sent' = sent \cup {s}, UNCHANGED settled,
             \/ s.mail = FlyteEmailToSesEmailInput(emailMessage[r])
             \/ s.mail = getSendgridEmail(emailMessage[r])
      PROVE  CInv'
  <2>1. Grows
    BY <1>1, <1>6 DEF Grows
  <2>2. EmailIsRight'
    BY <1>2, <1>6 DEF CInv, EmailIsRight, FlyteEmailToSesEmailInput, getSendgridEmail
  <2>3. Right(r, p)'
    BY <1>1, <1>2, <1>5, <1>6 DEF Right, Accounted, Handled
  <2>. QED  BY <1>1, <1>4, <1>5, <2>1, <2>2, <2>3, ReplicaC, Zenon
<1>7. ASSUME NEW why \in {"no emailer", "not sent"}, settled' = settled \cup {<<m, why>>},
             UNCHANGED sent
      PROVE  CInv'
  <2>1. Grows /\ EmailIsRight'
    BY <1>1, <1>7, Zenon DEF Grows, CInv, EmailIsRight
  <2>2. Accounted(m)'
    BY <1>7, GivenUp, Zenon DEF Reasons
  <2>3. Right(r, p)'
    BY <1>5, <2>2, DoneRight, Zenon
  <2>. QED  BY <1>1, <1>4, <1>5, <2>1, <2>3, ReplicaC, Zenon
<1>8. CASE sent' = sent \cup SesSendEmail(m, emailMessage[r]) /\ UNCHANGED settled
  <2>. PICK s : s = [message |-> m, mail |-> FlyteEmailToSesEmailInput(emailMessage[r])]
    BY Zenon
  <2>. QED  BY <1>6, <1>8 DEF SesSendEmail
<1>9. CASE sent' = sent \cup SendgridSendEmail(m, emailMessage[r]) /\ UNCHANGED settled
  <2>. PICK s : s = [message |-> m, mail |-> getSendgridEmail(emailMessage[r])]
    BY Zenon
  <2>. QED  BY <1>6, <1>9 DEF SendgridSendEmail
<1>. QED  BY <1>7, <1>8, <1>9, Zenon DEF SendEmail

LEMMA CStep == SInv /\ CInv /\ [Next]_vars => CInv'
<1>. SUFFICES ASSUME SInv, CInv, [Next]_vars PROVE CInv'
  BY Zenon
<1>1. CASE UNCHANGED consumers
  BY <1>1, Zenon DEF consumers, deployment, CInv, ConsumersTyped, NamedByTime, HandledBeforeDone,
     EmailIsRight, Right, Accounted, Handled
<1>2. ASSUME NEW r \in Replicas, Work(r) PROVE CInv'
  <2>1. CASE Processor(r) \/ GcpProcessor(r)
    BY <2>1, DecodeC DEF Processor, GcpProcessor
  <2>. QED  BY <1>2, <2>1, ConnectC, ClosesC, ReceiveC, DeserializeC, GetActiveC,
            CreateExecutionC, DropC, SendEmailC, MarkMessageDoneC DEF Work, SInv
<1>. QED  BY <1>1, <1>2, FireC, PublishC, RedeliverC, ClosesC, CrashC DEF Next, vars

\* The inductive invariant of the consumers holds throughout.
THEOREM Consuming == Spec => [](SInv /\ CInv)
BY SInit, CInit, SStep, CStep, PTL DEF Spec

\* No message is marked as done before it is handled or given up for a reason,
\* whatever replicas crash and however often a message is delivered.
THEOREM AlwaysHandledBeforeDone == Spec => []HandledBeforeDone
BY Consuming, PTL DEF CInv

\* A time at which a schedule fires launches at most one execution with the name
\* its seed gives, and one more for each name that was disturbed.
THEOREM AlwaysFiredOnce == Spec => []FiredOnce
<1>1. CInv => FiredOnce
  BY Zenon DEF CInv, NamedByTime, ByTime, FiredOnce
<1>. QED  BY Consuming, <1>1, PTL

\* Every email has the recipients and the contents of its own notification.
THEOREM EmailAlwaysRight == Spec => []EmailIsRight
BY Consuming, PTL DEF CInv

=============================================================================
