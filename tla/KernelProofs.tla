---------------------------- MODULE KernelProofs ----------------------------
(***************************************************************************)
(* Proofs about the kernel's services, its log and what a panic leaves for *)
(* the next boots: for every poll budget, set of managed daemons and       *)
(* combination of subsystems, every capacity of the log, and any number of *)
(* panics and power failures.                                              *)
(***************************************************************************)
EXTENDS Services, Log, PanicBoot, SequenceTheorems, TLAPS

-----------------------------------------------------------------------------
(* The services                                                            *)

Running == {"starting", "ready"}

\* While timed or graphicsd is starting it has not been polled yet: the
\* first poll finds its subsystem up.  Without this a time-out could leave
\* timed.c running under a failed service.
Unpolled ==
    \A i \in {timed, graphicsd} : state[i] = "starting" => wait.polls = Polls

\* A wait is for a service.
Named == wait # Idle => wait.id \in Id

ServicesInv ==
    ServicesTypeOK /\ StartsGated /\ NoLimbo /\ ExitCodes /\ SubsystemsFollow /\ Unpolled /\ Named

USE ServicesAssumption
USE DEF fsd, memoryd, timed, diskd, userd, acpid, netd, displayd, graphicsd, logd, Id, NoId

\* service_init satisfies the invariant.
LEMMA ServicesInitInv == ServicesInit => ServicesInv
<1> SUFFICES ASSUME ServicesInit PROVE ServicesInv
  OBVIOUS
<1>1. BootOrder \in Seq(Id)
  BY DEF BootOrder
<1>2. ServicesTypeOK
  <2>1. wait \in [id : Id \cup {NoId}, polls : 0..Polls]
    BY DEF ServicesInit, Idle
  <2>2. state \in [Id -> {"stopped", "starting", "ready", "failed"}]
    BY DEF ServicesInit
  <2>3. exit_code \in [Id -> {0, 2, 5, 6, 12, 19, 69, 110}]
    BY DEF ServicesInit
  <2>4. /\ timed_running \in BOOLEAN /\ timed_updated \in BOOLEAN
        /\ network_ready \in BOOLEAN /\ graphics_ready \in BOOLEAN /\ recovery \in BOOLEAN
    BY ZenonT(40) DEF ServicesInit
  <2>5. probe \subseteq Id /\ started \in Nat
    BY DEF ServicesInit
  <2> QED
    BY <1>1, <2>1, <2>2, <2>3, <2>4, <2>5 DEF ServicesInit, ServicesTypeOK
<1> QED
  BY <1>2 DEF ServicesInit, ServicesInv, StartsGated, NoLimbo, ExitCodes, SubsystemsFollow, Unpolled, Done, Named

\* Every dependency is a service, and no service depends on itself.
LEMMA DependencyType ==
    \A i \in Id : dependency[i] \in Id \cup {NoId} /\ dependency[i] # i
BY DEF dependency

LEMMA FailCodeType ==
    \A i \in Id : FailCode[i] \in {0, 2, 5, 6, 12, 19}
BY DEF FailCode

\* What one poll can make of a service.
LEMMA PollFacts ==
    ASSUME ServicesTypeOK, NEW i \in Id, NEW ok \in BOOLEAN
    PROVE  /\ PollOutcome(i, ok)[1] \in {"stopped", "starting", "ready", "failed"}
           /\ PollOutcome(i, ok)[2] \in {0, 2, 5, 6, 12, 19, 69, 110}
           /\ state[i] \notin Running => PollOutcome(i, ok)[1] = state[i]
           /\ (state[i] = "failed" <=> exit_code[i] # 0) =>
                (PollOutcome(i, ok)[1] = "failed" <=> PollOutcome(i, ok)[2] # 0)
           /\ state[i] = "ready" => PollOutcome(i, ok)[1] \in {"ready", "failed"}
           /\ state[i] \in Running /\ ok => PollOutcome(i, ok)[1] = "ready"
<1>1. /\ state[i] \in {"stopped", "starting", "ready", "failed"}
      /\ exit_code[i] \in {0, 2, 5, 6, 12, 19, 69, 110}
  BY DEF ServicesTypeOK
<1>2. FailCode[i] \in {0, 2, 5, 6, 12, 19}
  BY FailCodeType
<1> QED
  BY <1>1, <1>2 DEF PollOutcome, Running

\* A table as service_start may find it: nothing is starting.
GoodTable(t) ==
    /\ t.state \in [Id -> {"stopped", "starting", "ready", "failed"}]
    /\ t.exit_code \in [Id -> {0, 2, 5, 6, 12, 19, 69, 110}]
    /\ t.timed_running \in BOOLEAN /\ t.graphics_ready \in BOOLEAN
    /\ \A i \in Id : t.state[i] # "starting"
    /\ \A i \in Id : t.state[i] = "failed" <=> t.exit_code[i] # 0
    /\ t.timed_running <=> t.state[timed] \in Running
    /\ t.graphics_ready <=> t.state[graphicsd] \in Running

\* The table outside a wait is good, and service_stop keeps it so.
LEMMA TablesGood ==
    ASSUME ServicesInv, wait = Idle, NEW id \in Id
    PROVE  GoodTable(Unstopped) /\ GoodTable(Stopped(id))
<1>1. /\ state \in [Id -> {"stopped", "starting", "ready", "failed"}]
      /\ exit_code \in [Id -> {0, 2, 5, 6, 12, 19, 69, 110}]
      /\ timed_running \in BOOLEAN /\ graphics_ready \in BOOLEAN
  BY DEF ServicesInv, ServicesTypeOK
<1>2. \A i \in Id : state[i] # "starting"
  BY DEF ServicesInv, NoLimbo, Idle
<1>3. \A i \in Id : state[i] = "failed" <=> exit_code[i] # 0
  BY DEF ServicesInv, ExitCodes
<1>4. /\ timed_running <=> state[timed] \in Running
      /\ graphics_ready <=> state[graphicsd] \in Running
  BY DEF ServicesInv, SubsystemsFollow, Running
<1>5. GoodTable(Unstopped)
  BY <1>1, <1>2, <1>3, <1>4 DEF GoodTable, Unstopped
<1>6. GoodTable(Stopped(id))
  <2> DEFINE t == Stopped(id)
  <2>1. /\ t.state = [state EXCEPT ![id] = "stopped"]
        /\ t.exit_code = [exit_code EXCEPT ![id] = 0]
        /\ t.timed_running = (timed_running /\ id # timed)
        /\ t.graphics_ready = (graphics_ready /\ id # graphicsd)
    BY DEF Stopped
  <2> HIDE DEF t
  <2>2. t.timed_running <=> t.state[timed] \in Running
    <3>1. CASE id = timed
      <4>1. t.state[timed] = "stopped"
        BY <1>1, <2>1, <3>1
      <4>2. ~t.timed_running
        BY ZenonT(40), <2>1, <3>1
      <4> QED
        BY <4>1, <4>2 DEF Running
    <3>2. CASE id # timed
      <4>1. t.state[timed] = state[timed]
        BY <1>1, <2>1, <3>2
      <4>2. t.timed_running <=> timed_running
        BY ZenonT(40), <2>1, <3>2
      <4> QED
        BY <1>4, <4>1, <4>2
    <3> QED
      BY <3>1, <3>2
  <2>3. t.graphics_ready <=> t.state[graphicsd] \in Running
    <3>1. CASE id = graphicsd
      <4>1. t.state[graphicsd] = "stopped"
        BY <1>1, <2>1, <3>1
      <4>2. ~t.graphics_ready
        BY ZenonT(40), <2>1, <3>1
      <4> QED
        BY <4>1, <4>2 DEF Running
    <3>2. CASE id # graphicsd
      <4>1. t.state[graphicsd] = state[graphicsd]
        BY <1>1, <2>1, <3>2
      <4>2. t.graphics_ready <=> graphics_ready
        BY ZenonT(40), <2>1, <3>2
      <4> QED
        BY <1>4, <4>1, <4>2
    <3> QED
      BY <3>1, <3>2
  <2>4. /\ t.state \in [Id -> {"stopped", "starting", "ready", "failed"}]
        /\ t.exit_code \in [Id -> {0, 2, 5, 6, 12, 19, 69, 110}]
    BY <1>1, <2>1
  <2>5. t.timed_running \in BOOLEAN /\ t.graphics_ready \in BOOLEAN
    BY <1>1, <2>1
  <2>6. \A i \in Id : t.state[i] # "starting"
    BY <1>1, <1>2, <2>1
  <2>7. \A i \in Id : t.state[i] = "failed" <=> t.exit_code[i] # 0
    BY <1>1, <1>3, <2>1
  <2> QED
    BY <2>2, <2>3, <2>4, <2>5, <2>6, <2>7 DEF GoodTable, t
<1> QED
  BY <1>5, <1>6

\* service_start keeps the types and the invariants other than StartsGated.
LEMMA StartTable ==
    ASSUME ServicesTypeOK, NEW t, GoodTable(t), NEW id \in Id, NEW init \in BOOLEAN,
           service_start(t, id, init)
    PROVE  /\ state' \in [Id -> {"stopped", "starting", "ready", "failed"}]
           /\ exit_code' \in [Id -> {0, 2, 5, 6, 12, 19, 69, 110}]
           /\ timed_running' \in BOOLEAN /\ network_ready' \in BOOLEAN
           /\ graphics_ready' \in BOOLEAN
           /\ wait' \in [id : Id \cup {NoId}, polls : 0..Polls]
           /\ NoLimbo' /\ ExitCodes' /\ SubsystemsFollow' /\ Unpolled' /\ Named'
           /\ \A i \in Id : i # id => state'[i] = t.state[i]
           /\ state'[id] \in Running => t.state[id] \in Running \/ ~Blocked(t, id)
           /\ t.state[id] \in Running => state'[id] = t.state[id]
<1> DEFINE running == t.state[id] \in {"starting", "ready"}
           blocked == ~running /\ Blocked(t, id)
           enters  == ~running /\ ~blocked
           inits   == CASE id = netd -> init [] id = graphicsd -> displayd \in probe [] OTHER -> TRUE
<1>1. /\ state' = [t.state EXCEPT ![id] = IF running THEN @
                                          ELSE IF enters /\ inits THEN "starting" ELSE "failed"]
      /\ exit_code' = [t.exit_code EXCEPT ![id] = IF running THEN @
                                                  ELSE IF blocked THEN 69
                                                  ELSE IF inits THEN 0 ELSE FailCode[id]]
      /\ timed_running' = (t.timed_running \/ (enters /\ id = timed))
      /\ network_ready' = IF enters /\ id = netd THEN init ELSE network_ready
      /\ graphics_ready' = IF enters /\ id = graphicsd THEN inits ELSE t.graphics_ready
      /\ wait' = IF running \/ (enters /\ inits) THEN [id |-> id, polls |-> Polls] ELSE Idle
  BY DEF service_start
<1>2. inits \in BOOLEAN /\ (~inits => FailCode[id] # 0 /\ id \in {netd, graphicsd})
  <2>1. FailCode[netd] # 0 /\ FailCode[graphicsd] # 0
    BY DEF FailCode
  <2>2. CASE id = netd
    BY <2>1, <2>2
  <2>3. CASE id = graphicsd
    <3>1. displayd \in probe => inits = TRUE
      BY <2>3
    <3>2. displayd \notin probe => inits = FALSE
      BY <2>3
    <3> HIDE DEF inits
    <3>3. inits \in BOOLEAN
      BY ZenonT(40), <3>1, <3>2
    <3> QED
      BY <2>1, <2>3, <3>3
  <2>4. CASE id # netd /\ id # graphicsd
    BY <2>4
  <2> QED
    BY ZenonT(40), <2>2, <2>3, <2>4
<1>3. /\ t.state \in [Id -> {"stopped", "starting", "ready", "failed"}]
      /\ t.exit_code \in [Id -> {0, 2, 5, 6, 12, 19, 69, 110}]
      /\ \A i \in Id : t.state[i] # "starting"
      /\ \A i \in Id : t.state[i] = "failed" <=> t.exit_code[i] # 0
  BY DEF GoodTable
<1> HIDE DEF inits
<1>4. /\ state' \in [Id -> {"stopped", "starting", "ready", "failed"}]
      /\ \A i \in Id : i # id => state'[i] = t.state[i]
      /\ running => state'[id] = t.state[id]
      /\ ~running => state'[id] = IF ~blocked /\ inits THEN "starting" ELSE "failed"
  BY <1>1, <1>3
<1>5. /\ exit_code' \in [Id -> {0, 2, 5, 6, 12, 19, 69, 110}]
      /\ \A i \in Id : i # id => exit_code'[i] = t.exit_code[i]
      /\ running => exit_code'[id] = t.exit_code[id]
      /\ ~running => exit_code'[id] = IF blocked THEN 69 ELSE IF inits THEN 0 ELSE FailCode[id]
  BY <1>1, <1>3, FailCodeType
<1>6. /\ wait' \in [id : Id \cup {NoId}, polls : 0..Polls]
      /\ running \/ (~blocked /\ inits) => wait'.id = id /\ wait'.polls = Polls
  BY <1>1 DEF Idle
<1>7. timed_running' \in BOOLEAN /\ network_ready' \in BOOLEAN /\ graphics_ready' \in BOOLEAN
  BY <1>1, <1>2 DEF ServicesTypeOK, GoodTable
<1>8. NoLimbo' /\ Unpolled'
  BY <1>3, <1>4, <1>6 DEF NoLimbo, Unpolled
<1>9. ExitCodes'
  BY <1>2, <1>3, <1>4, <1>5 DEF ExitCodes
<1>10. SubsystemsFollow'
  <2>1. t.timed_running <=> t.state[timed] \in Running
    BY DEF GoodTable
  <2>2. t.graphics_ready <=> t.state[graphicsd] \in Running
    BY DEF GoodTable
  <2>3. timed_running' <=> state'[timed] \in {"starting", "ready"}
    <3>1. CASE id = timed
      <4>1. inits
        BY <1>2, <3>1
      <4>2. CASE running
        <5>1. timed_running' <=> t.timed_running
          BY ZenonT(40), <1>1, <4>2
        <5> QED
          BY <5>1, <1>4, <3>1, <4>2, <2>1 DEF Running
      <4>3. CASE blocked
        <5>1. timed_running' <=> t.timed_running
          BY ZenonT(40), <1>1, <4>3
        <5> QED
          BY <5>1, <1>4, <3>1, <4>3, <2>1 DEF Running
      <4>4. CASE enters
        <5>1. timed_running'
          BY ZenonT(40), <1>1, <3>1, <4>4
        <5> QED
          BY <5>1, <1>4, <3>1, <4>1, <4>4
      <4> QED
        BY <4>2, <4>3, <4>4
    <3>2. CASE id # timed
      <4>1. timed_running' <=> t.timed_running
        BY ZenonT(40), <1>1, <3>2
      <4> QED
        BY <4>1, <1>4, <3>2, <2>1 DEF Running
    <3> QED
      BY <3>1, <3>2
  <2>4. graphics_ready' <=> state'[graphicsd] \in {"starting", "ready"}
    <3>1. CASE id = graphicsd
      BY <1>1, <1>2, <1>4, <2>2, <3>1 DEF Running
    <3>2. CASE id # graphicsd
      <4>1. graphics_ready' <=> t.graphics_ready
        BY <1>1, <3>2
      <4> QED
        BY <4>1, <1>4, <3>2, <2>2 DEF Running
    <3> QED
      BY <3>1, <3>2
  <2> QED
    BY <2>3, <2>4 DEF SubsystemsFollow
<1>11. Named'
  BY <1>1 DEF Named
<1> QED
  BY <1>4, <1>5, <1>6, <1>7, <1>8, <1>9, <1>10, <1>11 DEF Running

\* Boot steps: the table is good, and the start is gated by the dependency.
LEMMA BootStartIInv == ServicesInv /\ BootStart => ServicesInv'
<1> SUFFICES ASSUME ServicesInv, BootStart PROVE ServicesInv'
  OBVIOUS
<1> DEFINE id == Head(todo)
<1>1. todo \in Seq(Id) /\ todo # <<>> /\ wait = Idle
  BY DEF ServicesInv, ServicesTypeOK, BootStart
<1>2. id \in Id /\ Tail(todo) \in Seq(Id)
  BY <1>1, HeadTailProperties
<1> HIDE DEF id
<1>3. GoodTable(Unstopped)
  BY <1>1, <1>2, TablesGood
<1>4. PICK init \in BOOLEAN : service_start(Unstopped, id, init)
  BY DEF BootStart, id
<1>5. ServicesTypeOK
  BY DEF ServicesInv
<1>6. /\ state' \in [Id -> {"stopped", "starting", "ready", "failed"}]
      /\ exit_code' \in [Id -> {0, 2, 5, 6, 12, 19, 69, 110}]
      /\ timed_running' \in BOOLEAN /\ network_ready' \in BOOLEAN
      /\ graphics_ready' \in BOOLEAN
      /\ wait' \in [id : Id \cup {NoId}, polls : 0..Polls]
      /\ NoLimbo' /\ ExitCodes' /\ SubsystemsFollow' /\ Unpolled' /\ Named'
      /\ \A i \in Id : i # id => state'[i] = Unstopped.state[i]
      /\ state'[id] \in Running => Unstopped.state[id] \in Running \/ ~Blocked(Unstopped, id)
      /\ Unstopped.state[id] \in Running => state'[id] = Unstopped.state[id]
  BY <1>2, <1>3, <1>4, <1>5, StartTable
<1>7. ServicesTypeOK'
  <2>1. todo' \in Seq(Id) /\ started' \in Nat
    BY <1>1, <1>2 DEF BootStart, ServicesInv, ServicesTypeOK
  <2>2. timed_updated' \in BOOLEAN /\ probe' \subseteq Id /\ recovery' \in BOOLEAN
    BY DEF BootStart, ServicesInv, ServicesTypeOK, env
  <2> QED
    BY <1>6, <2>1, <2>2 DEF ServicesTypeOK
<1>8. StartsGated'
  <2> SUFFICES ASSUME NEW i \in Id, state'[i] \in Running, dependency[i] # NoId
               PROVE  state'[dependency[i]] = "ready"
    BY DEF StartsGated, Running
  <2>1. dependency[i] \in Id /\ dependency[i] # i
    BY DependencyType
  <2>2. Unstopped.state = state
    BY DEF Unstopped
  <2>3. ~Done
    BY <1>1 DEF Done
  <2>4. state[dependency[i]] = "ready"
    <3>1. CASE state[i] \in Running
      BY <2>3, <3>1 DEF ServicesInv, StartsGated, Running
    <3>2. CASE state[i] \notin Running
      <4>1. i = id /\ ~Blocked(Unstopped, id)
        BY <1>6, <2>2, <3>2
      <4> QED
        BY <4>1, <2>2 DEF Blocked
    <3> QED
      BY <3>1, <3>2
  <2>5. CASE dependency[i] # id
    BY <1>6, <2>1, <2>2, <2>4, <2>5
  <2>6. CASE dependency[i] = id
    BY <1>6, <2>2, <2>4, <2>6 DEF Running
  <2> QED
    BY <2>5, <2>6
<1> QED
  BY <1>6, <1>7, <1>8 DEF ServicesInv

LEMMA BootSkipIInv == ServicesInv /\ BootSkip => ServicesInv'
<1> SUFFICES ASSUME ServicesInv, BootSkip PROVE ServicesInv'
  OBVIOUS
<1>1. todo \in Seq(Id) /\ todo # <<>>
  BY DEF ServicesInv, ServicesTypeOK, BootSkip
<1>2. todo' \in Seq(Id)
  BY <1>1, HeadTailProperties DEF BootSkip
<1>3. /\ UNCHANGED <<state, exit_code, timed_running, timed_updated, network_ready,
                      graphics_ready, probe, recovery, started, wait>>
  BY DEF BootSkip, env
<1>4. ServicesTypeOK'
  BY <1>2, <1>3 DEF ServicesInv, ServicesTypeOK
<1>5. StartsGated'
  BY <1>1, <1>3 DEF ServicesInv, StartsGated, Done
<1> QED
  BY <1>3, <1>4, <1>5 DEF ServicesInv, NoLimbo, ExitCodes, SubsystemsFollow, Unpolled, Named

\* The shell's commands run after the boot.
LEMMA CommandIInv ==
    ASSUME ServicesInv, Shell, NEW id \in Id, NEW t \in {Unstopped, Stopped(id)},
           \E init \in BOOLEAN : service_start(t, id, init),
           UNCHANGED <<timed_updated, env, todo, started>>
    PROVE  ServicesInv'
<1>1. wait = Idle /\ todo = <<>>
  BY DEF Shell
<1>2. GoodTable(t)
  BY <1>1, TablesGood
<1>3. PICK init \in BOOLEAN : service_start(t, id, init)
  OBVIOUS
<1>4. ServicesTypeOK
  BY DEF ServicesInv
<1>5. /\ state' \in [Id -> {"stopped", "starting", "ready", "failed"}]
      /\ exit_code' \in [Id -> {0, 2, 5, 6, 12, 19, 69, 110}]
      /\ timed_running' \in BOOLEAN /\ network_ready' \in BOOLEAN
      /\ graphics_ready' \in BOOLEAN
      /\ wait' \in [id : Id \cup {NoId}, polls : 0..Polls]
      /\ NoLimbo' /\ ExitCodes' /\ SubsystemsFollow' /\ Unpolled' /\ Named'
  BY <1>2, <1>3, <1>4, StartTable
<1>6. /\ timed_updated' \in BOOLEAN /\ probe' \subseteq Id /\ recovery' \in BOOLEAN
      /\ todo' \in Seq(Id) /\ started' \in Nat
  BY <1>4 DEF ServicesTypeOK, env
<1>7. ServicesTypeOK'
  BY <1>5, <1>6 DEF ServicesTypeOK
<1>8. StartsGated'
  BY <1>1 DEF StartsGated, Done
<1> QED
  BY <1>5, <1>7, <1>8 DEF ServicesInv

LEMMA StopIInv == ASSUME ServicesInv, NEW id \in Id, CommandStop(id) PROVE ServicesInv'
<1>1. wait = Idle /\ todo = <<>>
  BY DEF CommandStop, Shell
<1> DEFINE t == Stopped(id)
<1>2. GoodTable(t)
  BY <1>1, TablesGood
<1>3. /\ state' = t.state /\ exit_code' = t.exit_code
      /\ timed_running' = t.timed_running /\ graphics_ready' = t.graphics_ready
      /\ UNCHANGED <<timed_updated, network_ready, probe, recovery, todo, started, wait>>
  BY DEF CommandStop, env
<1> HIDE DEF t
<1>4. ServicesTypeOK'
  <2>1. /\ state' \in [Id -> {"stopped", "starting", "ready", "failed"}]
        /\ exit_code' \in [Id -> {0, 2, 5, 6, 12, 19, 69, 110}]
    BY <1>2, <1>3 DEF GoodTable
  <2>2. timed_running' \in BOOLEAN /\ graphics_ready' \in BOOLEAN
    BY <1>2, <1>3 DEF GoodTable
  <2> QED
    BY <1>3, <2>1, <2>2 DEF ServicesInv, ServicesTypeOK
<1>5. StartsGated'
  BY <1>1, <1>3 DEF StartsGated, Done
<1>6. NoLimbo' /\ Unpolled'
  BY <1>2, <1>3 DEF GoodTable, NoLimbo, Unpolled
<1>7. ExitCodes'
  BY <1>2, <1>3 DEF GoodTable, ExitCodes
<1>8. SubsystemsFollow'
  BY <1>2, <1>3 DEF GoodTable, SubsystemsFollow, Running
<1> QED
  BY <1>3, <1>4, <1>5, <1>6, <1>7, <1>8 DEF ServicesInv, Named

\* The probes answer, and those of timed and graphicsd say yes while their
\* subsystem is up.
LEMMA ProbeFacts ==
    ASSUME ServicesInv, NEW i \in Id
    PROVE  /\ ProbeResults(i) \subseteq BOOLEAN
           /\ Probes(i) \in BOOLEAN
           /\ i \in {timed, graphicsd} /\ state[i] \in Running => ProbeResults(i) = {TRUE}
           /\ i \in {timed, graphicsd} /\ state[i] \in Running => Probes(i) = TRUE
<1>1. timed_updated \in BOOLEAN /\ timed_running \in BOOLEAN
      /\ network_ready \in BOOLEAN /\ graphics_ready \in BOOLEAN
  BY DEF ServicesInv, ServicesTypeOK
<1>2. Probes(i) \in BOOLEAN
  <2>1. CASE i \in {fsd, memoryd, userd, displayd}
    <3>1. i \in probe => Probes(i) = TRUE
      BY <2>1 DEF Probes
    <3>2. i \notin probe => Probes(i) = FALSE
      BY <2>1 DEF Probes
    <3> QED
      BY ZenonT(40), <3>1, <3>2
  <2>2. CASE i \notin {fsd, memoryd, userd, displayd}
    BY ZenonT(40), <1>1, <2>2 DEF Probes
  <2> QED
    BY <2>1, <2>2
<1>3. i = timed /\ state[i] \in Running => Probes(i) = TRUE
  <2> SUFFICES ASSUME i = timed, state[i] \in Running PROVE Probes(i) = TRUE
    BY ZenonT(40)
  <2>1. timed_running = TRUE
    BY <1>1 DEF ServicesInv, SubsystemsFollow, Running
  <2> QED
    BY <1>1, <2>1 DEF Probes
<1>4. i = graphicsd /\ state[i] \in Running => Probes(i) = TRUE
  <2> SUFFICES ASSUME i = graphicsd, state[i] \in Running PROVE Probes(i) = TRUE
    BY ZenonT(40)
  <2>1. graphics_ready = TRUE
    BY <1>1 DEF ServicesInv, SubsystemsFollow, Running
  <2> QED
    BY <1>1, <2>1 DEF Probes
<1>5. ProbeResults(i) \subseteq BOOLEAN
  <2>1. ProbeResults(i) = BOOLEAN \/ ProbeResults(i) = {Probes(i)}
    BY DEF ProbeResults
  <2> QED
    BY <1>2, <2>1
<1>6. i # diskd => ProbeResults(i) = {Probes(i)}
  BY DEF ProbeResults
<1>7. i \in {timed, graphicsd} /\ state[i] \in Running => Probes(i) = TRUE
  BY <1>3, <1>4
<1>8. i \in {timed, graphicsd} /\ state[i] \in Running => ProbeResults(i) = {TRUE}
  <2> SUFFICES ASSUME i \in {timed, graphicsd}, state[i] \in Running
               PROVE  ProbeResults(i) = {TRUE}
    BY ZenonT(40)
  <2>1. ProbeResults(i) = {Probes(i)}
    BY <1>6
  <2>2. Probes(i) = TRUE
    BY <1>7
  <2> QED
    BY <2>1, <2>2, Zenon
<1> QED
  BY ZenonT(40), <1>2, <1>5, <1>7, <1>8

LEMMA WaitPollIInv == ServicesInv /\ WaitPoll => ServicesInv'
<1> SUFFICES ASSUME ServicesInv, WaitPoll PROVE ServicesInv'
  OBVIOUS
<1> DEFINE id == wait.id
<1>1. id \in Id /\ state[id] = "starting" /\ wait.polls \in 1..Polls
  BY DEF ServicesInv, Named, ServicesTypeOK, WaitPoll
<1>2. wait' = [wait EXCEPT !.polls = @ - 1]
  BY DEF WaitPoll
<1>3. wait' \in [id : Id \cup {NoId}, polls : 0..Polls] /\ wait'.id = id
  <2>1. wait \in [id : Id \cup {NoId}, polls : 0..Polls]
    BY DEF ServicesInv, ServicesTypeOK
  <2>2. wait.polls - 1 \in 0..Polls
    BY <1>1, ServicesAssumption DEF ServicesAssumption
  <2> QED
    BY <1>2, <2>1, <2>2
<1> HIDE DEF id
<1>4. PICK ok \in ProbeResults(id) :
         /\ state' = [state EXCEPT ![id] = PollOutcome(id, ok)[1]]
         /\ exit_code' = [exit_code EXCEPT ![id] = PollOutcome(id, ok)[2]]
  BY ZenonT(40) DEF WaitPoll, poll_one, id
<1>5. ok \in BOOLEAN
  BY <1>1, <1>4, ProbeFacts
<1>6. /\ UNCHANGED <<timed_running, network_ready, graphics_ready, probe, recovery, todo, started>>
      /\ timed_updated' = (timed_updated \/ (id = timed /\ timed_running))
  BY DEF WaitPoll, poll_one, env, id
<1> DEFINE s == PollOutcome(id, ok)[1]
           c == PollOutcome(id, ok)[2]
<1>7. /\ s \in {"stopped", "starting", "ready", "failed"}
      /\ c \in {0, 2, 5, 6, 12, 19, 69, 110}
      /\ s = "failed" <=> c # 0
  BY <1>1, <1>5, PollFacts DEF ServicesInv, ExitCodes
<1>8. id \in {timed, graphicsd} => s = "ready"
  <2> SUFFICES ASSUME id \in {timed, graphicsd} PROVE s = "ready"
    OBVIOUS
  <2>1. state[id] \in Running
    BY <1>1 DEF Running
  <2>2. ok = TRUE
    BY ZenonT(40), <1>1, <1>4, <2>1, ProbeFacts
  <2>3. ok
    BY <2>2
  <2>4. ServicesTypeOK
    BY DEF ServicesInv
  <2>5. state[id] \in Running /\ ok => PollOutcome(id, ok)[1] = "ready"
    BY ZenonT(40), <1>1, <1>5, <2>4, PollFacts
  <2> QED
    BY ZenonT(40), <2>1, <2>3, <2>5
<1> HIDE DEF s, c
<1>9. /\ state \in [Id -> {"stopped", "starting", "ready", "failed"}]
      /\ exit_code \in [Id -> {0, 2, 5, 6, 12, 19, 69, 110}]
  BY DEF ServicesInv, ServicesTypeOK
<1>10. /\ state' \in [Id -> {"stopped", "starting", "ready", "failed"}]
       /\ state'[id] = s /\ \A i \in Id : i # id => state'[i] = state[i]
  BY <1>1, <1>4, <1>7, <1>9 DEF s
<1>11. /\ exit_code' \in [Id -> {0, 2, 5, 6, 12, 19, 69, 110}]
       /\ exit_code'[id] = c /\ \A i \in Id : i # id => exit_code'[i] = exit_code[i]
  BY <1>1, <1>4, <1>7, <1>9 DEF c
<1>12. ServicesTypeOK'
  <2>1. timed_updated' \in BOOLEAN
    BY <1>6 DEF ServicesInv, ServicesTypeOK
  <2> QED
    BY <1>3, <1>6, <1>10, <1>11, <2>1 DEF ServicesInv, ServicesTypeOK
<1>13. StartsGated'
  <2> SUFFICES ASSUME ~Done', NEW i \in Id, state'[i] \in Running, dependency[i] # NoId
               PROVE  state'[dependency[i]] = "ready"
    BY DEF StartsGated, Running
  <2>1. dependency[i] \in Id /\ ~Done
    BY <1>6, DependencyType DEF Done
  <2>2. state[i] \in Running
    BY <1>1, <1>10 DEF Running
  <2>3. state[dependency[i]] = "ready"
    BY <2>1, <2>2 DEF ServicesInv, StartsGated, Running
  <2> QED
    BY <1>1, <1>10, <2>1, <2>3
<1>14. NoLimbo'
  BY <1>3, <1>10 DEF ServicesInv, NoLimbo, id
<1>15. ExitCodes'
  BY <1>7, <1>10, <1>11 DEF ServicesInv, ExitCodes
<1>16. SubsystemsFollow'
  <2>1. state'[timed] \in Running <=> state[timed] \in Running
    BY <1>1, <1>8, <1>10 DEF Running
  <2>2. state'[graphicsd] \in Running <=> state[graphicsd] \in Running
    BY <1>1, <1>8, <1>10 DEF Running
  <2> QED
    BY <1>6, <2>1, <2>2 DEF ServicesInv, SubsystemsFollow, Running
<1>17. Unpolled'
  BY <1>8, <1>10 DEF ServicesInv, NoLimbo, Unpolled, id
<1>18. Named'
  BY <1>1, <1>3 DEF Named
<1> QED
  BY <1>12, <1>13, <1>14, <1>15, <1>16, <1>17, <1>18 DEF ServicesInv

LEMMA WaitEndIInv == ServicesInv /\ WaitEnd => ServicesInv'
<1> SUFFICES ASSUME ServicesInv, WaitEnd PROVE ServicesInv'
  OBVIOUS
<1> DEFINE id == wait.id
<1>1. id \in Id /\ wait # Idle
  BY DEF ServicesInv, Named, WaitEnd
<1>2. /\ state \in [Id -> {"stopped", "starting", "ready", "failed"}]
      /\ exit_code \in [Id -> {0, 2, 5, 6, 12, 19, 69, 110}]
  BY DEF ServicesInv, ServicesTypeOK
<1>3. /\ state' \in [Id -> {"stopped", "starting", "ready", "failed"}]
      /\ \A i \in Id : i # id => state'[i] = state[i] /\ exit_code'[i] = exit_code[i]
      /\ exit_code' \in [Id -> {0, 2, 5, 6, 12, 19, 69, 110}]
      /\ state[id] = "starting" => state'[id] = "failed" /\ exit_code'[id] = 110
      /\ state[id] # "starting" => state'[id] = state[id] /\ exit_code'[id] = exit_code[id]
  <2>1. CASE state[id] = "starting"
    <3>1. /\ state' = [state EXCEPT ![id] = "failed"]
          /\ exit_code' = [exit_code EXCEPT ![id] = 110]
      BY <2>1 DEF WaitEnd, TimedOut
    <3> HIDE DEF id
    <3> QED
      BY <1>1, <1>2, <2>1, <3>1
  <2>2. CASE state[id] # "starting"
    <3>1. state' = state /\ exit_code' = exit_code
      BY <2>2 DEF WaitEnd, TimedOut
    <3> QED
      BY <1>2, <2>2, <3>1
  <2> QED
    BY <2>1, <2>2
<1>4. /\ UNCHANGED <<timed_running, timed_updated, network_ready, graphics_ready, probe, recovery>>
      /\ wait' = Idle
  BY DEF WaitEnd, env
<1>5. id \in {timed, graphicsd} => state[id] # "starting"
  <2>1. Polls > 0
    OBVIOUS
  <2> QED
    BY <2>1 DEF ServicesInv, Unpolled, WaitEnd
<1>6. ServicesTypeOK'
  <2>1. started' \in Nat
    BY DEF WaitEnd, Counted, ServicesInv, ServicesTypeOK
  <2>2. todo' \in Seq(Id)
    BY HeadTailProperties DEF WaitEnd, ServicesInv, ServicesTypeOK
  <2>3. wait' \in [id : Id \cup {NoId}, polls : 0..Polls]
    BY <1>4 DEF Idle
  <2> QED
    BY <1>3, <1>4, <2>1, <2>2, <2>3 DEF ServicesInv, ServicesTypeOK
<1>7. StartsGated'
  <2> SUFFICES ASSUME ~Done', NEW i \in Id, state'[i] \in Running, dependency[i] # NoId
               PROVE  state'[dependency[i]] = "ready"
    BY DEF StartsGated, Running
  <2>1. dependency[i] \in Id /\ ~Done
    BY DependencyType DEF Done, WaitEnd
  <2>2. state[i] \in Running
    BY <1>3 DEF Running
  <2>3. state[dependency[i]] = "ready"
    BY <2>1, <2>2 DEF ServicesInv, StartsGated, Running
  <2> QED
    BY <1>3, <2>1, <2>3
<1>8. NoLimbo' /\ Unpolled'
  BY <1>3 DEF ServicesInv, NoLimbo, Unpolled
<1>9. ExitCodes'
  BY <1>3 DEF ServicesInv, ExitCodes
<1>10. SubsystemsFollow'
  <2>1. state'[timed] = state[timed] /\ state'[graphicsd] = state[graphicsd]
    BY <1>3, <1>5
  <2> QED
    BY <1>4, <2>1 DEF ServicesInv, SubsystemsFollow
<1> QED
  BY <1>4, <1>6, <1>7, <1>8, <1>9, <1>10 DEF ServicesInv, Named

LEMMA PollAllIInv == ServicesInv /\ service_poll_all => ServicesInv'
<1> SUFFICES ASSUME ServicesInv, service_poll_all PROVE ServicesInv'
  OBVIOUS
<1>1. todo = <<>> /\ wait = Idle
  BY DEF service_poll_all
<1> DEFINE Asked(i, sync) == IF i = diskd THEN sync ELSE Probes(i)
<1>2. PICK sync \in ProbeResults(diskd) :
         /\ state' = [i \in Id |-> PollOutcome(i, Asked(i, sync))[1]]
         /\ exit_code' = [i \in Id |-> PollOutcome(i, Asked(i, sync))[2]]
  BY DEF service_poll_all
<1>3. \A i \in Id : Asked(i, sync) \in BOOLEAN
  BY ProbeFacts
<1>4. \A i \in Id : state[i] # "starting"
  BY <1>1 DEF ServicesInv, NoLimbo, Idle
<1>5. \A i \in Id : state[i] \in {"stopped", "starting", "ready", "failed"}
  BY DEF ServicesInv, ServicesTypeOK
<1> DEFINE S(i) == PollOutcome(i, Asked(i, sync))[1]
           C(i) == PollOutcome(i, Asked(i, sync))[2]
<1>6. \A i \in Id : /\ S(i) \in {"stopped", "starting", "ready", "failed"}
                    /\ C(i) \in {0, 2, 5, 6, 12, 19, 69, 110}
                    /\ S(i) = "failed" <=> C(i) # 0
                    /\ state[i] \notin Running => S(i) = state[i]
                    /\ state[i] = "ready" => S(i) \in {"ready", "failed"}
  BY <1>3, PollFacts DEF ServicesInv, ExitCodes
<1>7. \A i \in {timed, graphicsd} : state[i] \in Running => S(i) = "ready"
  <2> SUFFICES ASSUME NEW i \in {timed, graphicsd}, state[i] \in Running
               PROVE  S(i) = "ready"
    OBVIOUS
  <2>1. i \in Id /\ Asked(i, sync) = Probes(i)
    OBVIOUS
  <2>2. Asked(i, sync) = TRUE
    BY ZenonT(40), <2>1, ProbeFacts
  <2> QED
    BY <1>3, <2>1, <2>2, PollFacts DEF ServicesInv
<1>8. \A i \in Id : state'[i] = S(i) /\ exit_code'[i] = C(i)
  BY <1>2
<1>9. /\ state' \in [Id -> {"stopped", "starting", "ready", "failed"}]
      /\ exit_code' \in [Id -> {0, 2, 5, 6, 12, 19, 69, 110}]
  BY <1>2, <1>6
<1> HIDE DEF S, C, Asked
<1>10. /\ UNCHANGED <<timed_running, network_ready, graphics_ready, probe, recovery,
                       todo, started, wait>>
       /\ timed_updated' \in BOOLEAN
  BY DEF service_poll_all, env, ServicesInv, ServicesTypeOK
<1>11. ServicesTypeOK'
  BY <1>9, <1>10 DEF ServicesInv, ServicesTypeOK
<1>12. StartsGated'
  BY <1>1, <1>10 DEF StartsGated, Done
<1>13. NoLimbo' /\ Unpolled'
  BY <1>4, <1>5, <1>6, <1>8 DEF NoLimbo, Unpolled, Running
<1>14. ExitCodes'
  BY <1>6, <1>8 DEF ExitCodes
<1>15. SubsystemsFollow'
  <2>1. state'[timed] \in Running <=> state[timed] \in Running
    BY <1>6, <1>7, <1>8 DEF Running
  <2>2. state'[graphicsd] \in Running <=> state[graphicsd] \in Running
    BY <1>6, <1>7, <1>8 DEF Running
  <2> QED
    BY <1>10, <2>1, <2>2 DEF ServicesInv, SubsystemsFollow, Running
<1> QED
  BY <1>10, <1>11, <1>12, <1>13, <1>14, <1>15 DEF ServicesInv, Named

\* Every step preserves the invariant.
LEMMA ServicesNextInv == ServicesInv /\ [ServicesNext]_services => ServicesInv'
<1> SUFFICES ASSUME ServicesInv, [ServicesNext]_services PROVE ServicesInv'
  OBVIOUS
<1>1. CASE Boot
  BY <1>1, BootStartIInv, BootSkipIInv DEF Boot
<1>2. CASE Wait
  BY <1>2, WaitPollIInv, WaitEndIInv DEF Wait
<1>3. CASE service_poll_all
  BY <1>3, PollAllIInv
<1>4. ASSUME NEW id \in Managed, CommandStart(id) \/ CommandStop(id) \/ CommandRestart(id)
      PROVE  ServicesInv'
  <2>1. id \in Id
    OBVIOUS
  <2>2. CASE CommandStart(id)
    BY <2>1, <2>2, CommandIInv DEF CommandStart
  <2>3. CASE CommandStop(id)
    BY <2>1, <2>3, StopIInv
  <2>4. CASE CommandRestart(id)
    BY <2>1, <2>4, CommandIInv DEF CommandRestart
  <2> QED
    BY <1>4, <2>2, <2>3, <2>4
<1>5. CASE UNCHANGED services
  BY <1>5 DEF services, ServicesInv, ServicesTypeOK, StartsGated, NoLimbo, ExitCodes, SubsystemsFollow, Unpolled,
              Named, Done
<1> QED
  BY <1>1, <1>2, <1>3, <1>4, <1>5 DEF ServicesNext

THEOREM ServicesInvariance == ServicesSpec => []ServicesInv
BY ServicesInitInv, ServicesNextInv, PTL DEF ServicesSpec

\* The service table stays well typed under boot, polls and commands.
THEOREM ServicesTypeCorrect == ServicesSpec => []ServicesTypeOK
<1>1. ServicesInv => ServicesTypeOK
  BY DEF ServicesInv
<1> QED
  BY <1>1, ServicesInvariance, PTL

\* start_boot_services never lets a service run on a dependency that is not
\* ready, whatever the probes answer.
THEOREM StartsGatedAlways == ServicesSpec => []StartsGated
<1>1. ServicesInv => StartsGated
  BY DEF ServicesInv
<1> QED
  BY <1>1, ServicesInvariance, PTL

\* service_wait_ready leaves no service starting behind it.
THEOREM NoLimboAlways == ServicesSpec => []NoLimbo
<1>1. ServicesInv => NoLimbo
  BY DEF ServicesInv
<1> QED
  BY <1>1, ServicesInvariance, PTL

\* A service has a nonzero exit code exactly when it has failed, after any
\* sequence of starts, stops, restarts and polls.
THEOREM ExitCodesAlways == ServicesSpec => []ExitCodes
<1>1. ServicesInv => ExitCodes
  BY DEF ServicesInv
<1> QED
  BY <1>1, ServicesInvariance, PTL

\* timed.c and the compositor run exactly while their services do.
THEOREM SubsystemsFollowAlways == ServicesSpec => []SubsystemsFollow
<1>1. ServicesInv => SubsystemsFollow
  BY DEF ServicesInv
<1> QED
  BY <1>1, ServicesInvariance, PTL

\* The three together: what the table of services promises its callers.
THEOREM BootGatesAlways == ServicesSpec => []BootGates
<1>1. StartsGated /\ NoLimbo /\ SubsystemsFollow => BootGates
  BY DEF BootGates
<1> QED
  BY <1>1, StartsGatedAlways, NoLimboAlways, SubsystemsFollowAlways, PTL

-----------------------------------------------------------------------------
(* The ring of log.c implements the bounded history                        *)

\* Until the ring is full its entries are in the first count slots.
Filling == count < LOG_MAX_ENTRIES => head = count

LogInv == LogTypeOK /\ Filling

\* One subtraction is enough to reduce an index of log_read.
LEMMA Unwrapped == \A x \in Int : 0 <= x /\ x < LOG_MAX_ENTRIES => x % LOG_MAX_ENTRIES = x
BY LogAssumption

LEMMA Wrapped ==
    \A x \in Int : LOG_MAX_ENTRIES <= x /\ x < 2 * LOG_MAX_ENTRIES
                      => x % LOG_MAX_ENTRIES = x - LOG_MAX_ENTRIES
BY LogAssumption

LEMMA Rotated ==
    \A h, j \in 0..LOG_MAX_ENTRIES - 1 :
        (h + j) % LOG_MAX_ENTRIES = IF h + j < LOG_MAX_ENTRIES THEN h + j
                                    ELSE h + j - LOG_MAX_ENTRIES
BY LogAssumption, Unwrapped, Wrapped

LEMMA RotatedInside ==
    \A h, j \in 0..LOG_MAX_ENTRIES - 1 :
        (IF h + j < LOG_MAX_ENTRIES THEN h + j ELSE h + j - LOG_MAX_ENTRIES)
            \in 0..LOG_MAX_ENTRIES - 1
BY LogAssumption

LEMMA IncFacts ==
    ASSUME NEW v \in 0..LOG_MAX_ENTRIES - 1
    PROVE  /\ inc(v) \in 0..LOG_MAX_ENTRIES - 1
           /\ inc(v) = IF v = LOG_MAX_ENTRIES - 1 THEN 0 ELSE v + 1
<1>1. v + 1 \in 0..2 * LOG_MAX_ENTRIES - 1
  BY LogAssumption
<1>2. (v + 1) % LOG_MAX_ENTRIES = IF v + 1 < LOG_MAX_ENTRIES THEN v + 1
                                  ELSE v + 1 - LOG_MAX_ENTRIES
  BY <1>1, LogAssumption, Unwrapped, Wrapped
<1>3. inc(v) = IF v = LOG_MAX_ENTRIES - 1 THEN 0 ELSE v + 1
  BY <1>2, LogAssumption DEF inc
<1> QED
  BY <1>3, LogAssumption

LEMMA EntryType ==
    ASSUME LogTypeOK, NEW lv \in Levels, NEW m \in Msgs \cup {Banner}
    PROVE  Entry(lv, m) \in Entries
BY DEF LogTypeOK, Entry, Entries

LEMMA LogInitInv == LogInit => LogInv
BY LogAssumption DEF LogInit, LogInv, LogTypeOK, Filling, Blank, Entries, Levels

LEMMA SubmitIInv ==
    ASSUME LogInv, NEW lv \in Levels, NEW m \in Msgs, log_submit(lv, m)
    PROVE  LogInv'
<1>1. head \in 0..LOG_MAX_ENTRIES - 1 /\ count \in 0..LOG_MAX_ENTRIES
  BY DEF LogInv, LogTypeOK
<1>2. /\ inc(head) \in 0..LOG_MAX_ENTRIES - 1
      /\ inc(head) = IF head = LOG_MAX_ENTRIES - 1 THEN 0 ELSE head + 1
  BY <1>1, IncFacts
<1>3. LogTypeOK'
  BY <1>1, <1>2, EntryType, LogAssumption DEF LogInv, LogTypeOK, log_submit
<1>4. Filling'
  BY <1>1, <1>2, LogAssumption DEF LogInv, Filling, log_submit
<1> QED
  BY <1>3, <1>4 DEF LogInv

LEMMA InitActionIInv == ASSUME LogInv, log_init PROVE LogInv'
<1>1. 0 \in 0..LOG_MAX_ENTRIES - 1 /\ 1 \in Levels
  BY LogAssumption DEF Levels
<1>2. /\ inc(0) \in 0..LOG_MAX_ENTRIES - 1
      /\ inc(0) = IF 0 = LOG_MAX_ENTRIES - 1 THEN 0 ELSE 0 + 1
  BY ZenonT(40), <1>1, IncFacts
<1>3. Entry(1, Banner) \in Entries
  BY <1>1, EntryType DEF LogInv
<1>4. LogTypeOK'
  BY <1>1, <1>2, <1>3, LogAssumption DEF LogInv, LogTypeOK, log_init, Levels
<1>5. Filling'
  BY <1>2, LogAssumption DEF Filling, log_init
<1> QED
  BY <1>4, <1>5 DEF LogInv

LEMMA LogNextInv == LogInv /\ [LogNext]_log => LogInv'
<1> SUFFICES ASSUME LogInv, [LogNext]_log PROVE LogInv'
  OBVIOUS
<1>1. CASE \E lv \in Levels, m \in Msgs : log_submit(lv, m)
  BY <1>1, SubmitIInv
<1>2. CASE log_init
  BY <1>2, InitActionIInv
<1>3. CASE log_set_level
  BY <1>3 DEF log_set_level, LogInv, LogTypeOK, Filling
<1>4. CASE Tick
  BY <1>4, LogAssumption DEF Tick, LogInv, LogTypeOK, Filling
<1>5. CASE UNCHANGED log
  BY <1>5 DEF log, LogInv, LogTypeOK, Filling
<1> QED
  BY <1>1, <1>2, <1>3, <1>4, <1>5 DEF LogNext

THEOREM LogInvariance == LogSpec => []LogInv
BY LogInitInv, LogNextInv, PTL DEF LogSpec

\* The head of the ring stays inside it and the count within its capacity,
\* for every capacity.
THEOREM LogTypeCorrect == LogSpec => []LogTypeOK
<1>1. LogInv => LogTypeOK
  BY DEF LogInv
<1> QED
  BY <1>1, LogInvariance, PTL

-----------------------------------------------------------------------------

\* What log_read returns is a sequence of entries.
LEMMA ReadType ==
    ASSUME LogInv
    PROVE  /\ log_read \in Seq(Entries) /\ Len(log_read) = count
           /\ DOMAIN log_read = 1..count
           /\ \A i \in 1..count : /\ Position(i - 1) \in 0..LOG_MAX_ENTRIES - 1
                                  /\ log_read[i] = buffer[Position(i - 1)]
<1>1. /\ head \in 0..LOG_MAX_ENTRIES - 1 /\ count \in 0..LOG_MAX_ENTRIES
      /\ buffer \in [0..LOG_MAX_ENTRIES - 1 -> Entries]
  BY DEF LogInv, LogTypeOK
<1>2. ASSUME NEW i \in 1..count
      PROVE  Position(i - 1) \in 0..LOG_MAX_ENTRIES - 1
  <2>1. head + (i - 1) \in 0..2 * LOG_MAX_ENTRIES - 1
    BY <1>1, LogAssumption
  <2> QED
    BY <1>1, <2>1, LogAssumption, Unwrapped, Wrapped DEF Position
<1>3. DOMAIN log_read = 1..count /\ \A i \in 1..count : log_read[i] = buffer[Position(i - 1)]
  BY DEF log_read
<1>4. log_read \in [1..count -> Entries]
  BY <1>1, <1>2 DEF log_read
<1>5. log_read \in Seq(Entries)
  BY <1>1, <1>4 
<1> QED
  BY <1>1, <1>2, <1>3, <1>5

\* A message that passes is appended, and the oldest one goes when the ring
\* is full.
LEMMA SubmitPushes ==
    ASSUME LogInv, LogInv', NEW lv \in Levels, NEW m \in Msgs, log_submit(lv, m)
    PROVE  log_read' = IF Len(log_read) < LOG_MAX_ENTRIES THEN Append(log_read, Entry(lv, m))
                       ELSE Append(Tail(log_read), Entry(lv, m))
<1> DEFINE e == Entry(lv, m)
<1>1. /\ head \in 0..LOG_MAX_ENTRIES - 1 /\ count \in 0..LOG_MAX_ENTRIES
      /\ buffer \in [0..LOG_MAX_ENTRIES - 1 -> Entries]
      /\ count < LOG_MAX_ENTRIES => head = count
  BY DEF LogInv, LogTypeOK, Filling
<1>2. /\ buffer' = [buffer EXCEPT ![head] = e]
      /\ head' = IF head = LOG_MAX_ENTRIES - 1 THEN 0 ELSE head + 1
      /\ count' = IF count < LOG_MAX_ENTRIES THEN count + 1 ELSE count
  BY <1>1, IncFacts DEF log_submit
<1>3. /\ log_read \in Seq(Entries) /\ Len(log_read) = count
      /\ \A i \in 1..count : /\ Position(i - 1) \in 0..LOG_MAX_ENTRIES - 1
                             /\ log_read[i] = buffer[Position(i - 1)]
  BY ReadType
<1>4. /\ log_read' = [i \in 1..count' |-> buffer'[Position(i - 1)']]
  BY DEF log_read
<1>5. ASSUME NEW i \in 1..count
      PROVE  Position(i - 1) = IF count < LOG_MAX_ENTRIES THEN i - 1
                               ELSE IF head + (i - 1) < LOG_MAX_ENTRIES THEN head + (i - 1)
                               ELSE head + (i - 1) - LOG_MAX_ENTRIES
  <2>1. i - 1 \in 0..LOG_MAX_ENTRIES - 1
    BY <1>1, LogAssumption
  <2>2. (head + (i - 1)) % LOG_MAX_ENTRIES =
          IF head + (i - 1) < LOG_MAX_ENTRIES THEN head + (i - 1)
          ELSE head + (i - 1) - LOG_MAX_ENTRIES
    BY <1>1, <2>1, Rotated
  <2> QED
    BY <2>2 DEF Position
<1>6. ASSUME NEW i \in 1..count'
      PROVE  Position(i - 1)' = IF count' < LOG_MAX_ENTRIES THEN i - 1
                                ELSE IF head' + (i - 1) < LOG_MAX_ENTRIES THEN head' + (i - 1)
                                ELSE head' + (i - 1) - LOG_MAX_ENTRIES
  <2>1. i - 1 \in 0..LOG_MAX_ENTRIES - 1 /\ head' \in 0..LOG_MAX_ENTRIES - 1
    BY <1>1, <1>2, LogAssumption
  <2>2. (head' + (i - 1)) % LOG_MAX_ENTRIES =
          IF head' + (i - 1) < LOG_MAX_ENTRIES THEN head' + (i - 1)
          ELSE head' + (i - 1) - LOG_MAX_ENTRIES
    BY <1>1, <2>1, Rotated
  <2> QED
    BY <2>2 DEF Position
<1>7. e \in Entries
  BY EntryType DEF LogInv
<1>8. /\ log_read' \in Seq(Entries) /\ Len(log_read') = count' /\ count' \in Nat
      /\ \A i \in 1..count' : log_read'[i] = buffer'[Position(i - 1)']
  <2>1. /\ head' \in 0..LOG_MAX_ENTRIES - 1 /\ count' \in 0..LOG_MAX_ENTRIES
        /\ buffer' \in [0..LOG_MAX_ENTRIES - 1 -> Entries]
    BY DEF LogInv, LogTypeOK
  <2>2. \A i \in 1..count' : Position(i - 1)' \in 0..LOG_MAX_ENTRIES - 1
    <3> SUFFICES ASSUME NEW i \in 1..count'
                 PROVE  Position(i - 1)' \in 0..LOG_MAX_ENTRIES - 1
      OBVIOUS
    <3>1. Position(i - 1)' = IF count' < LOG_MAX_ENTRIES THEN i - 1
                            ELSE IF head' + (i - 1) < LOG_MAX_ENTRIES THEN head' + (i - 1)
                            ELSE head' + (i - 1) - LOG_MAX_ENTRIES
      BY <1>6
    <3>2. i - 1 \in 0..LOG_MAX_ENTRIES - 1
      BY <2>1, LogAssumption
    <3>3. (IF head' + (i - 1) < LOG_MAX_ENTRIES THEN head' + (i - 1)
           ELSE head' + (i - 1) - LOG_MAX_ENTRIES) \in 0..LOG_MAX_ENTRIES - 1
      BY ZenonT(40), <2>1, <3>2, RotatedInside
    <3> QED
      BY <3>1, <3>2, <3>3
  <2>3. log_read' \in [1..count' -> Entries]
    BY <1>4, <2>1, <2>2
  <2> QED
    BY <1>4, <2>1, <2>3
<1> HIDE DEF e
<1>9. CASE count < LOG_MAX_ENTRIES
  <2>1. count' = count + 1 /\ head = count
    BY <1>1, <1>2, <1>9
  <2>2. /\ Append(log_read, e) \in Seq(Entries) /\ Len(Append(log_read, e)) = count + 1
        /\ \A i \in 1..count : Append(log_read, e)[i] = log_read[i]
        /\ Append(log_read, e)[count + 1] = e
    BY <1>3, <1>7, AppendProperties
  <2>3. ASSUME NEW i \in 1..count'
        PROVE  log_read'[i] = Append(log_read, e)[i]
    <3>1. Position(i - 1)' = i - 1
      BY <1>1, <1>2, <1>6, <1>9, <2>1, LogAssumption
    <3>2. log_read'[i] = buffer'[i - 1]
      BY <1>8, <3>1
    <3>3. CASE i = count + 1
      BY <1>1, <1>2, <2>1, <2>2, <3>2, <3>3
    <3>4. CASE i # count + 1
      <4>1. i \in 1..count
        BY <1>1, <2>1, <3>4
      <4>2. log_read[i] = buffer[i - 1]
        BY <1>3, <1>5, <1>9, <4>1
      <4> QED
        BY <1>1, <1>2, <2>1, <2>2, <3>2, <4>1, <4>2
    <3> QED
      BY ZenonT(40), <3>3, <3>4
  <2>4. log_read' = Append(log_read, e)
    BY <1>8, <2>1, <2>2, <2>3, SeqEqual
  <2> QED
    BY <1>3, <1>9, <2>4 DEF e
<1>10. CASE count = LOG_MAX_ENTRIES
  <2>1. count' = count /\ log_read # <<>>
    BY <1>1, <1>2, <1>3, <1>10, LogAssumption
  <2>2. /\ Tail(log_read) \in Seq(Entries) /\ Len(Tail(log_read)) = count - 1
        /\ \A i \in 1..count - 1 : Tail(log_read)[i] = log_read[i + 1]
    BY <1>3, <2>1, HeadTailProperties
  <2>3. /\ Append(Tail(log_read), e) \in Seq(Entries)
        /\ Len(Append(Tail(log_read), e)) = count
        /\ \A i \in 1..count - 1 : Append(Tail(log_read), e)[i] = log_read[i + 1]
        /\ Append(Tail(log_read), e)[count] = e
    BY <1>1, <1>7, <2>2, AppendProperties
  <2>4. ASSUME NEW i \in 1..count'
        PROVE  log_read'[i] = Append(Tail(log_read), e)[i]
    <3>1. Position(i - 1)' = IF head' + (i - 1) < LOG_MAX_ENTRIES THEN head' + (i - 1)
                            ELSE head' + (i - 1) - LOG_MAX_ENTRIES
      BY <1>1, <1>6, <1>10, <2>1
    <3>2. CASE i = count
      <4>1. Position(i - 1)' = head
        BY <1>1, <1>2, <1>10, <3>1, <3>2, LogAssumption
      <4>2. log_read'[i] = e
        BY <1>1, <1>2, <1>8, <4>1
      <4> QED
        BY <2>3, <3>2, <4>2
    <3>3. CASE i # count
      <4>1. i + 1 \in 1..count /\ i \in 1..count - 1 /\ (i + 1) - 1 = i
        BY <1>1, <2>1, <3>3
      <4>2. Position((i + 1) - 1) = IF head + i < LOG_MAX_ENTRIES THEN head + i
                                    ELSE head + i - LOG_MAX_ENTRIES
        <5>1. /\ ~(count < LOG_MAX_ENTRIES)
              /\ Position((i + 1) - 1) =
                   IF count < LOG_MAX_ENTRIES THEN (i + 1) - 1
                   ELSE IF head + ((i + 1) - 1) < LOG_MAX_ENTRIES THEN head + ((i + 1) - 1)
                   ELSE head + ((i + 1) - 1) - LOG_MAX_ENTRIES
          <6>1. ~(count < LOG_MAX_ENTRIES)
            BY <1>1, <1>10
          <6> QED
            BY <1>5, <4>1, <6>1
        <5> QED
          BY <4>1, <5>1
      <4>3. log_read[i + 1] = buffer[Position((i + 1) - 1)]
        BY <1>3, <4>1
      <4>4. /\ Position(i - 1)' = Position((i + 1) - 1)
            /\ Position((i + 1) - 1) \in (0..LOG_MAX_ENTRIES - 1) \ {head}
        BY <1>1, <1>2, <1>10, <3>1, <4>1, <4>2, LogAssumption
      <4> QED
        BY <1>1, <1>2, <1>8, <2>3, <4>1, <4>3, <4>4
    <3> QED
      BY ZenonT(40), <3>2, <3>3
  <2>5. log_read' = Append(Tail(log_read), e)
    BY <1>8, <2>1, <2>3, <2>4, SeqEqual
  <2> QED
    BY <1>1, <1>3, <1>10, <2>5, LogAssumption DEF e
<1> QED
  BY <1>1, <1>9, <1>10, LogAssumption

\* A restart leaves the banner and nothing else.
LEMMA RestartForgets ==
    ASSUME LogInv, log_init
    PROVE  log_read' = <<Entry(1, Banner)>>
<1>1. 0 \in 0..LOG_MAX_ENTRIES - 1 /\ buffer \in [0..LOG_MAX_ENTRIES - 1 -> Entries]
  BY LogAssumption DEF LogInv, LogTypeOK
<1>2. /\ count' = 1 /\ buffer' = [buffer EXCEPT ![0] = Entry(1, Banner)]
      /\ head' = IF 0 = LOG_MAX_ENTRIES - 1 THEN 0 ELSE 0 + 1
  BY ZenonT(40), <1>1, IncFacts DEF log_init
<1>3. log_read' = [i \in 1..1 |-> buffer'[Position(i - 1)']]
  BY <1>2 DEF log_read
<1>4. Position(1 - 1)' = 0
  <2>1. CASE LOG_MAX_ENTRIES = 1
    <3>1. (0 + 0) % LOG_MAX_ENTRIES = 0
      BY <2>1
    <3> QED
      BY <1>2, <2>1, <3>1 DEF Position
  <2>2. CASE LOG_MAX_ENTRIES # 1
    BY <1>2, <2>2, LogAssumption DEF Position
  <2> QED
    BY <2>1, <2>2
<1>5. buffer'[0] = Entry(1, Banner)
  BY <1>1, <1>2
<1>6. log_read' = [i \in 1..1 |-> Entry(1, Banner)]
  BY <1>3, <1>4, <1>5
<1> QED
  BY <1>6

\* Every step of the ring is a step of the history or leaves it alone.
LEMMA StepRefines ==
    ASSUME LogInv, LogInv', [LogNext]_log
    PROVE  [History!Next]_(History!vars)
<1>1. ASSUME NEW lv \in Levels, NEW m \in Msgs, log_submit(lv, m)
      PROVE  History!Submit(lv, m)
  <2>1. log_read' = IF Len(log_read) < LOG_MAX_ENTRIES THEN Append(log_read, Entry(lv, m))
                    ELSE Append(Tail(log_read), Entry(lv, m))
    BY <1>1, SubmitPushes
  <2>2. Entry(lv, m) = History!Entry(lv, m)
    BY DEF Entry, History!Entry
  <2>3. lv >= current_level /\ UNCHANGED <<current_level, now>>
    BY <1>1 DEF log_submit, Passes
  <2> QED
    BY <2>1, <2>2, <2>3 DEF History!Submit, History!Push
<1>2. CASE \E lv \in Levels, m \in Msgs : log_submit(lv, m)
  BY <1>1, <1>2 DEF History!Next
<1>3. CASE log_init
  <2>1. log_read' = <<History!Entry(1, Banner)>>
    BY <1>3, RestartForgets DEF Entry, History!Entry
  <2> QED
    BY <1>3, <2>1 DEF log_init, History!Next, History!Restart
<1>4. CASE log_set_level
  <2>1. log_read' = log_read
    BY <1>4 DEF log_set_level, log_read, Position
  <2> QED
    BY <1>4, <2>1 DEF log_set_level, History!Next, History!SetLevel
<1>5. CASE Tick
  <2>1. log_read' = log_read
    BY <1>5 DEF Tick, log_read, Position
  <2> QED
    BY <1>5, <2>1 DEF Tick, History!Next, History!Tick
<1>6. CASE UNCHANGED log
  <2>1. log_read' = log_read
    BY <1>6 DEF log, log_read, Position
  <2> QED
    BY <1>6, <2>1 DEF log, History!vars
<1> QED
  BY <1>2, <1>3, <1>4, <1>5, <1>6 DEF LogNext

LEMMA InitRefines == LogInit => History!Init
<1> SUFFICES ASSUME LogInit PROVE History!Init
  OBVIOUS
<1>1. log_read = [i \in 1..0 |-> buffer[Position(i - 1)]]
  BY DEF LogInit, log_read
<1>2. log_read = <<>>
  BY <1>1
<1> QED
  BY <1>2 DEF LogInit, History!Init

\* Reading the ring by index gives the last messages accepted, oldest first,
\* for every capacity of the ring.
THEOREM LogRefinement == LogSpec => RefinesHistory
<1>1. LogInv /\ LogInv' /\ [LogNext]_log => [History!Next]_(History!vars)
  BY StepRefines
<1> QED
  BY <1>1, InitRefines, LogInvariance, PTL DEF LogSpec, RefinesHistory, History!Spec

-----------------------------------------------------------------------------

\* The clock has not passed over any entry.
Dated == \A i \in 1..count : log_read[i].timestamp <= now

LEMMA ChronologyStep ==
    ASSUME LogInv, LogInv', Chronological, Dated, [LogNext]_log
    PROVE  Chronological' /\ Dated'
<1>1. /\ log_read \in Seq(Entries) /\ Len(log_read) = count
      /\ count \in 0..LOG_MAX_ENTRIES /\ now \in Nat
  BY ReadType DEF LogInv, LogTypeOK
<1>2. \A i \in 1..count : log_read[i].timestamp \in Nat
  <2>1. \A i \in 1..count : log_read[i] \in Entries
    BY <1>1, ElementOfSeq
  <2> QED
    BY <2>1 DEF Entries
<1>3. ASSUME NEW lv \in Levels, NEW m \in Msgs, log_submit(lv, m)
      PROVE  Chronological' /\ Dated'
  <2> DEFINE e == Entry(lv, m)
             k == IF count < LOG_MAX_ENTRIES THEN 0 ELSE 1
  <2>1. log_read' = IF count < LOG_MAX_ENTRIES THEN Append(log_read, e)
                    ELSE Append(Tail(log_read), e)
    BY <1>1, <1>3, SubmitPushes
  <2>2. e \in Entries /\ e.timestamp = now
    BY <1>3, EntryType DEF LogInv, Entry
  <2>3. count' = count + 1 - k /\ now' = now
    BY <1>1, <1>3 DEF log_submit
  <2> HIDE DEF e
  <2>4. \A i \in 1..count' : log_read'[i] = IF i = count' THEN e ELSE log_read[i + k]
    <3>1. CASE count < LOG_MAX_ENTRIES
      BY <1>1, <2>1, <2>2, <2>3, <3>1, AppendProperties
    <3>2. CASE count = LOG_MAX_ENTRIES
      <4>1. log_read # <<>>
        BY <1>1, <3>2, LogAssumption
      <4>2. /\ Tail(log_read) \in Seq(Entries) /\ Len(Tail(log_read)) = count - 1
            /\ \A i \in 1..count - 1 : Tail(log_read)[i] = log_read[i + 1]
        BY <1>1, <4>1, HeadTailProperties
      <4> QED
        BY <1>1, <2>1, <2>2, <2>3, <3>2, <4>2, AppendProperties
    <3> QED
      BY <1>1, <3>1, <3>2, LogAssumption
  <2>5. Dated'
    BY <1>1, <1>2, <2>2, <2>3, <2>4 DEF Dated
  <2>6. Chronological'
    <3> SUFFICES ASSUME NEW i \in 1..count', NEW j \in 1..count', i < j
                 PROVE  log_read'[i].timestamp <= log_read'[j].timestamp
      BY DEF Chronological
    <3>1. i + k \in 1..count /\ log_read'[i] = log_read[i + k]
      BY <1>1, <2>3, <2>4
    <3>2. CASE j = count'
      BY <2>2, <2>4, <3>1, <3>2 DEF Dated
    <3>3. CASE j # count'
      <4>1. j + k \in 1..count /\ log_read'[j] = log_read[j + k] /\ i + k < j + k
        BY <1>1, <2>3, <2>4, <3>3
      <4> QED
        BY <3>1, <4>1 DEF Chronological
    <3> QED
      BY <3>2, <3>3
  <2> QED
    BY <2>5, <2>6
<1>4. CASE \E lv \in Levels, m \in Msgs : log_submit(lv, m)
  BY <1>3, <1>4
<1>5. CASE log_init
  <2>1. log_read' = <<Entry(1, Banner)>> /\ count' = 1 /\ now' = now
    BY <1>5, RestartForgets DEF log_init
  <2>2. log_read'[1].timestamp = now
    BY <2>1 DEF Entry
  <2> QED
    BY <1>1, <2>1, <2>2 DEF Chronological, Dated
<1>6. CASE log_set_level
  <2>1. log_read' = log_read /\ count' = count /\ now' = now
    BY <1>6 DEF log_set_level, log_read, Position
  <2> QED
    BY <2>1 DEF Chronological, Dated
<1>7. CASE Tick
  <2>1. log_read' = log_read /\ count' = count /\ now' = now + 1
    BY <1>7 DEF Tick, log_read, Position
  <2>2. Chronological'
    BY <2>1 DEF Chronological
  <2>3. ASSUME NEW i \in 1..count PROVE log_read[i].timestamp <= now + 1
    <3>1. log_read[i].timestamp <= now
      BY DEF Dated
    <3> QED
      BY <1>1, <1>2, <3>1
  <2>4. Dated'
    BY <2>1, <2>3 DEF Dated
  <2> QED
    BY <2>2, <2>4
<1>8. CASE UNCHANGED log
  <2>1. log_read' = log_read /\ count' = count /\ now' = now
    BY <1>8 DEF log, log_read, Position
  <2> QED
    BY <2>1 DEF Chronological, Dated
<1> QED
  BY <1>4, <1>5, <1>6, <1>7, <1>8 DEF LogNext

\* dmesg and the panic log list their messages in the order of time.
THEOREM ChronologicalAlways == LogSpec => []Chronological
<1>1. LogInit => Chronological /\ Dated
  BY DEF LogInit, Chronological, Dated
<1>2. LogInv /\ LogInv' /\ Chronological /\ Dated /\ [LogNext]_log => Chronological' /\ Dated'
  BY ChronologyStep
<1> QED
  BY <1>1, <1>2, LogInvariance, PTL DEF LogSpec

\* dmesg and the panic log show the last messages accepted, oldest first.
THEOREM LogKeptAlways == LogSpec => LogKept
BY LogRefinement, ChronologicalAlways DEF LogKept

-----------------------------------------------------------------------------
(* The panic flag                                                          *)

Modes == {"desktop", "cli", "debug", "recovery", "normal"}

Places == {"off", "os64_start", "os64", "mini64_start", "mini64", "panic", "panic_recorded",
           "done", "halted", "clearing"} \cup Modes

FlagTypeOK ==
    /\ record \in 0..MaxPanics + 1 /\ flag \in 0..MaxPanics
    /\ modes \subseteq ModeNames
    /\ at \in Places
    /\ panics \in 0..MaxPanics /\ served \subseteq 1..panics

\* The inductive invariant.  A flag is never newer than the last panic; the
\* record is on the disk before the flag is written; a panic that is being
\* handled has not been served; and bootmode stores a mode only when the
\* flags of the others are gone.
FlagInv ==
    /\ FlagTypeOK
    /\ flag <= panics
    /\ flag # None => record >= flag
    /\ flag \notin served
    /\ at = "panic_recorded" => record = panics
    /\ at \in {"panic", "panic_recorded"} => panics # 0 /\ panics \notin served
    /\ at \in Modes => modes = {}
    /\ Mode \in chosen

USE PanicBootAssumption DEF None

\* The machine as it is first switched on.
LEMMA FlagInitInv == FlagInit => FlagInv
<1> SUFFICES ASSUME FlagInit PROVE FlagInv
  OBVIOUS
<1>1. FlagTypeOK
  BY DEF FlagInit, FlagTypeOK, Places
<1>2. Mode \in chosen
  BY DEF FlagInit, Mode
<1> QED
  BY <1>1, <1>2 DEF FlagInit, FlagInv, Modes

\* What the panic writes: the record, then the flag.
LEMMA PanicInv ==
    ASSUME FlagInv, kernel_panic \/ WriteRecord \/ WriteFlag \/ NestedPanic
    PROVE  FlagInv'
<1>m. Mode' = Mode /\ chosen' = chosen
  BY DEF kernel_panic, WriteRecord, WriteFlag, NestedPanic, disk, Mode
<1>1. CASE kernel_panic
  BY <1>1, <1>m DEF FlagInv, FlagTypeOK, kernel_panic, disk, Places, Modes
<1>2. CASE WriteRecord
  BY <1>2, <1>m DEF FlagInv, FlagTypeOK, WriteRecord, Places, Modes
<1>3. CASE WriteFlag
  BY <1>3, <1>m DEF FlagInv, FlagTypeOK, WriteFlag, Places, Modes
<1>4. CASE NestedPanic
  BY <1>4, <1>m DEF FlagInv, FlagTypeOK, NestedPanic, disk, Places, Modes
<1> QED
  BY <1>1, <1>2, <1>3, <1>4

\* Starting, stopping and losing power: the disk keeps what it has, but for
\* the flag that Mini64 consumes.
LEMMA BootInv ==
    ASSUME FlagInv, PowerOn \/ kernel_main \/ mini64_main \/ reboot \/ Crash
    PROVE  FlagInv'
<1>m. Mode' = Mode /\ chosen' = chosen
  BY DEF PowerOn, kernel_main, mini64_main, reboot, Crash, disk, Mode
<1>1. CASE PowerOn
  <2>1. at' \in {"mini64_start", "os64_start"}
    BY <1>1 DEF PowerOn
  <2> QED
    BY <1>1, <1>m, <2>1 DEF FlagInv, FlagTypeOK, PowerOn, disk, Places, Modes
<1>2. CASE kernel_main
  BY <1>2, <1>m DEF FlagInv, FlagTypeOK, kernel_main, disk, Places, Modes
<1>3. CASE mini64_main
  BY <1>3, <1>m DEF FlagInv, FlagTypeOK, mini64_main, Places, Modes
<1>4. CASE reboot
  BY <1>4, <1>m DEF FlagInv, FlagTypeOK, reboot, disk, Places, Modes
<1>5. CASE Crash
  BY <1>5, <1>m DEF FlagInv, FlagTypeOK, Crash, disk, Places, Modes
<1> QED
  BY <1>1, <1>2, <1>3, <1>4, <1>5

\* pstore clear: the erased record counts as newer than every panic.
LEMMA ClearInv ==
    ASSUME FlagInv, pstore_clear \/ RemoveFlag
    PROVE  FlagInv'
<1>m. Mode' = Mode /\ chosen' = chosen
  BY DEF pstore_clear, RemoveFlag, Mode
<1>1. CASE pstore_clear
  BY <1>1, <1>m DEF FlagInv, FlagTypeOK, pstore_clear, Cleared, Places, Modes
<1>2. CASE RemoveFlag
  BY <1>2, <1>m DEF FlagInv, FlagTypeOK, RemoveFlag, Places, Modes
<1> QED
  BY <1>1, <1>2

\* bootmode: the old flags go before the new one is stored.
LEMMA ModeInv ==
    ASSUME FlagInv, NEW m \in ModeNames \cup {"normal"}, DeleteModes(m) \/ StoreMode(m)
    PROVE  FlagInv'
<1>1. m \in Modes
  BY DEF Modes
<1>2. CASE DeleteModes(m)
  <2>1. Mode' \in chosen'
    BY <1>2 DEF DeleteModes, Mode
  <2> QED
    BY <1>1, <1>2, <2>1 DEF FlagInv, FlagTypeOK, DeleteModes, Places, Modes
<1>3. CASE StoreMode(m)
  <2>1. modes = {}
    BY <1>1, <1>3 DEF FlagInv, StoreMode
  <2>2. Mode' \in chosen'
    <3>1. CASE m # "normal" /\ modes' = modes \cup {m} /\ chosen' = {m}
      <4>1. modes' = {m}
        BY <2>1, <3>1
      <4>2. Mode' = m
        BY <1>1, <3>1, <4>1 DEF Mode, Modes
      <4> QED
        BY <3>1, <4>2
    <3>2. CASE modes' = modes /\ chosen' = {"normal"}
      BY <2>1, <3>2 DEF Mode
    <3> QED
      BY <1>3, <3>1, <3>2 DEF StoreMode
  <2>3. modes' \subseteq ModeNames
    BY <1>1, <1>3, <2>1 DEF StoreMode
  <2> QED
    BY <1>3, <2>2, <2>3 DEF FlagInv, FlagTypeOK, StoreMode, Places, Modes
<1> QED
  BY <1>2, <1>3

\* Every step of the machine keeps the invariant.
LEMMA FlagNextInv == FlagInv /\ [FlagNext]_flagged => FlagInv'
<1> SUFFICES ASSUME FlagInv, [FlagNext]_flagged PROVE FlagInv'
  OBVIOUS
<1>1. CASE UNCHANGED flagged
  BY <1>1 DEF flagged, disk, FlagInv, FlagTypeOK, Mode
<1> QED
  BY <1>1, PanicInv, BootInv, ClearInv, ModeInv DEF FlagNext

\* The flag, the record and the modes after any history of panics, power
\* failures, boots, bootmode and pstore commands: an automatic recovery has
\* its record, starts once, and the menu shows a mode the user chose.
THEOREM FlagTrueAlways == FlagSpec => []FlagTrue
<1>1. FlagInv => FlagTrue
  BY DEF FlagInv, FlagTrue, RecordBehindFlag, OneShot, ModeAsChosen
<1> QED
  BY <1>1, FlagInitInv, FlagNextInv, PTL DEF FlagSpec

=============================================================================
