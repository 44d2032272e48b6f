------------------------------ MODULE Services ------------------------------
(***************************************************************************)
(* The service table of kernel/core/service.c, driven by PID 1's boot      *)
(* sequence (start_boot_services), by the daemon commands of the shell     *)
(* (c_daemon) and by the background poll of the input loop.  The kernel is *)
(* cooperative: a boot step or a command runs to its end before the next   *)
(* poll of all services.  service_wait_ready, which polls the one service  *)
(* it waits for, is broken into its loop iterations.                       *)
(***************************************************************************)
EXTENDS Integers, Sequences, FiniteSets

CONSTANTS
    Polls,        \* the poll budget of service_wait_ready (the callers pass 8)
    Managed       \* the daemons the shell's commands are used on

\* The services have numbers: fsd is 0, logd is 9.
Id == 0..9

ASSUME ServicesAssumption == Polls \in Nat \ {0} /\ Managed \subseteq Id

fsd == 0        memoryd == 1    timed == 2      diskd == 3      userd == 4
acpid == 5      netd == 6       displayd == 7   graphicsd == 8  logd == 9

NoId == -1

dependency == [i \in Id |->
    CASE i = timed -> memoryd [] i = diskd -> fsd     [] i = userd -> diskd
      [] i = acpid -> timed   [] i = netd -> diskd    [] i = displayd -> memoryd
      [] i = graphicsd -> displayd [] i = logd -> timed [] OTHER -> NoId]

\* Mutant: the console comes before the memory service it depends on.
BootOrderConsoleFirst ==
    <<fsd, displayd, memoryd, graphicsd, timed, diskd, userd, acpid, netd, logd>>

BootOrder == <<fsd, memoryd, displayd, graphicsd, timed, diskd, userd, acpid, netd, logd>>

RecoverySkips == {diskd, userd, netd}

\* The exit code of a service whose probe fails; fsd and timed wait instead.
FailCode == [i \in Id |->
    CASE i = memoryd -> 12 [] i = diskd -> 5 [] i = userd -> 2 [] i = netd -> 19
      [] i \in {displayd, graphicsd} -> 6 [] OTHER -> 0]

VARIABLES
    state,            \* services[i].state
    exit_code,        \* services[i].exit_code
    timed_running,    \* `running' of timed.c
    timed_updated,    \* `updates' of timed.c is not zero
    network_ready,    \* `ready' of net.c
    graphics_ready,   \* `active' of graphics.c
    probe,            \* the services whose subsystem came up before the boot
    recovery,         \* bootopts_recovery()
    todo,             \* what is left of the boot sequence
    started,          \* boot_services_started
    wait              \* the service_wait_ready call in progress

services == <<state, exit_code, timed_running, timed_updated, network_ready, graphics_ready,
          probe, recovery, todo, started, wait>>

env  == <<probe, recovery>>

Idle == [id |-> NoId, polls |-> 0]

\* service_init: everything is stopped; timed_init reads the clock (updates
\* is 1 if the RTC answered) and timed_stop follows.  Before it, memory_init,
\* display_init, fs_mount and auth_load have succeeded or not.
ServicesInit ==
    /\ state = [i \in Id |-> "stopped"]
    /\ exit_code = [i \in Id |-> 0]
    /\ timed_running = FALSE
    /\ timed_updated \in BOOLEAN
    /\ network_ready = FALSE
    /\ graphics_ready = FALSE
    /\ probe \in SUBSET {fsd, memoryd, userd, displayd}
    /\ recovery \in BOOLEAN
    /\ todo = BootOrder
    /\ started = 0
    /\ wait = Idle

-----------------------------------------------------------------------------
(* poll_one                                                                *)

\* The probes of poll_one; timed_poll counts an update when it is running.
Probes(i) ==
    CASE i \in {fsd, memoryd, userd, displayd} -> i \in probe
      [] i = timed     -> timed_updated \/ timed_running
      [] i = netd      -> network_ready
      [] i = graphicsd -> graphics_ready
      [] OTHER         -> TRUE

\* What a poll makes of service i when its probe answers ok: <<state, code>>.
PollOutcome(i, ok) ==
    IF state[i] \notin {"starting", "ready"} THEN <<state[i], exit_code[i]>>
    ELSE IF ok THEN <<"ready", exit_code[i]>>
    ELSE IF FailCode[i] = 0 THEN <<state[i], exit_code[i]>>
    ELSE <<"failed", FailCode[i]>>

\* diskd is only probed while it starts, by a disk_sync that may fail.
ProbeResults(i) == IF i = diskd /\ state[i] = "starting" THEN BOOLEAN ELSE {Probes(i)}

poll_one(i) ==
    /\ \E ok \in ProbeResults(i) :
         /\ state' = [state EXCEPT ![i] = PollOutcome(i, ok)[1]]
         /\ exit_code' = [exit_code EXCEPT ![i] = PollOutcome(i, ok)[2]]
    /\ timed_updated' = (timed_updated \/ (i = timed /\ timed_running))

service_poll_all ==
    /\ todo = <<>> /\ wait = Idle
    /\ \E sync \in ProbeResults(diskd) :
         LET Outcome(i) == PollOutcome(i, IF i = diskd THEN sync ELSE Probes(i))
         IN  /\ state' = [i \in Id |-> Outcome(i)[1]]
             /\ exit_code' = [i \in Id |-> Outcome(i)[2]]
    /\ timed_updated' = (timed_updated \/ (state[timed] \in {"starting", "ready"} /\ timed_running))
    /\ UNCHANGED <<timed_running, network_ready, graphics_ready, env, todo, started, wait>>

-----------------------------------------------------------------------------
(* service_start and service_stop                                          *)

\* Mutant: a stop of timed forgets timed_stop.
StoppedTimedRuns(id) ==
    [state |-> [state EXCEPT ![id] = "stopped"],
     exit_code |-> [exit_code EXCEPT ![id] = 0],
     timed_running |-> timed_running,
     graphics_ready |-> graphics_ready /\ id # graphicsd]

\* service_stop: what the table and the subsystems become.
Stopped(id) ==
    [state |-> [state EXCEPT ![id] = "stopped"],
     exit_code |-> [exit_code EXCEPT ![id] = 0],
     timed_running |-> timed_running /\ id # timed,
     graphics_ready |-> graphics_ready /\ id # graphicsd]

Unstopped ==
    [state |-> state, exit_code |-> exit_code,
     timed_running |-> timed_running, graphics_ready |-> graphics_ready]

\* Mutant: a dependency that has failed is good enough.
BlockedUnlessTried(t, id) == dependency[id] # NoId /\ t.state[dependency[id]] = "stopped"

\* A service with a dependency has to wait until that is ready.
Blocked(t, id) == dependency[id] # NoId /\ t.state[dependency[id]] # "ready"

\* service_start on the table t; init is the result of network_init.  A
\* service whose dependency is not ready fails with code 69.
service_start(t, id, init) ==
    LET running == t.state[id] \in {"starting", "ready"}
        blocked == ~running /\ Blocked(t, id)
        enters  == ~running /\ ~blocked
        inits   == CASE id = netd -> init [] id = graphicsd -> displayd \in probe [] OTHER -> TRUE
    IN  /\ state' = [t.state EXCEPT ![id] = IF running THEN @
                                           ELSE IF enters /\ inits THEN "starting" ELSE "failed"]
        /\ exit_code' = [t.exit_code EXCEPT ![id] = IF running THEN @
                                                   ELSE IF blocked THEN 69
                                                   ELSE IF inits THEN 0 ELSE FailCode[id]]
        /\ timed_running' = (t.timed_running \/ (enters /\ id = timed))
        /\ network_ready' = IF enters /\ id = netd THEN init ELSE network_ready
        /\ graphics_ready' = IF enters /\ id = graphicsd THEN inits ELSE t.graphics_ready
        /\ wait' = IF running \/ (enters /\ inits) THEN [id |-> id, polls |-> Polls] ELSE Idle

-----------------------------------------------------------------------------
(* service_wait_ready, one iteration of its loop at a time                 *)

WaitPoll ==
    /\ wait # Idle
    /\ wait.polls > 0 /\ state[wait.id] = "starting"
    /\ poll_one(wait.id)
    /\ wait' = [wait EXCEPT !.polls = @ - 1]
    /\ UNCHANGED <<timed_running, network_ready, graphics_ready, env, todo, started>>

\* Mutant: every wait that ends counts.
CountedAlways(id) == 1

\* What a boot step that waited for service id adds to boot_services_started.
Counted(id) == IF state[id] = "ready" THEN 1 ELSE 0

\* Mutant: a service still starting when the budget is spent is left alone.
TimedOutNever == FALSE

\* service_wait_ready has spent its budget and the service is still starting.
TimedOut == state[wait.id] = "starting"

\* The loop ends: a service that has timed out fails with code 110.  During
\* the boot the caller counts the services that became ready.
WaitEnd ==
    /\ wait # Idle
    /\ wait.polls = 0 \/ state[wait.id] # "starting"
    /\ state' = IF TimedOut THEN [state EXCEPT ![wait.id] = "failed"] ELSE state
    /\ exit_code' = IF TimedOut THEN [exit_code EXCEPT ![wait.id] = 110] ELSE exit_code
    /\ wait' = Idle
    /\ started' = IF todo # <<>> THEN started + Counted(wait.id) ELSE started
    /\ todo' = IF todo # <<>> THEN Tail(todo) ELSE todo
    /\ UNCHANGED <<timed_running, timed_updated, network_ready, graphics_ready, env>>

-----------------------------------------------------------------------------
(* start_boot_services and c_daemon                                        *)

BootSkip ==
    /\ todo # <<>> /\ wait = Idle
    /\ recovery /\ Head(todo) \in RecoverySkips
    /\ todo' = Tail(todo)
    /\ UNCHANGED <<state, exit_code, timed_running, timed_updated, network_ready,
                   graphics_ready, env, started, wait>>

\* Mutant: a start that fails is tried again.
BootStartRetries ==
    /\ todo # <<>> /\ wait = Idle
    /\ ~(recovery /\ Head(todo) \in RecoverySkips)
    /\ \E init \in BOOLEAN : service_start(Unstopped, Head(todo), init)
    /\ UNCHANGED <<todo, timed_updated, env, started>>

\* A start that fails at once is a result of its own: the loop goes on.
BootStart ==
    /\ todo # <<>> /\ wait = Idle
    /\ ~(recovery /\ Head(todo) \in RecoverySkips)
    /\ \E init \in BOOLEAN : service_start(Unstopped, Head(todo), init)
    /\ todo' = IF wait' = Idle THEN Tail(todo) ELSE todo
    /\ UNCHANGED <<timed_updated, env, started>>

Shell == todo = <<>> /\ wait = Idle

CommandStart(id) ==
    /\ Shell
    /\ \E init \in BOOLEAN : service_start(Unstopped, id, init)
    /\ UNCHANGED <<timed_updated, env, todo, started>>

CommandStop(id) ==
    /\ Shell
    /\ LET t == Stopped(id)
       IN  /\ state' = t.state /\ exit_code' = t.exit_code
           /\ timed_running' = t.timed_running /\ graphics_ready' = t.graphics_ready
    /\ UNCHANGED <<timed_updated, network_ready, env, todo, started, wait>>

CommandRestart(id) ==
    /\ Shell
    /\ \E init \in BOOLEAN : service_start(Stopped(id), id, init)
    /\ UNCHANGED <<timed_updated, env, todo, started>>

Boot == BootSkip \/ BootStart
Wait == WaitPoll \/ WaitEnd

ServicesNext ==
    \/ Boot \/ Wait \/ service_poll_all
    \/ \E id \in Managed : CommandStart(id) \/ CommandStop(id) \/ CommandRestart(id)

\* The boot and a wait are straight-line kernel code: nothing preempts them.
ServicesFairness == WF_services(Boot) /\ WF_services(Wait)

ServicesSpec == ServicesInit /\ [][ServicesNext]_services /\ ServicesFairness

-----------------------------------------------------------------------------
(* Properties                                                              *)

\* Types of the service table and of the control state around it.
ServicesTypeOK ==
    /\ state \in [Id -> {"stopped", "starting", "ready", "failed"}]
    /\ exit_code \in [Id -> {0, 2, 5, 6, 12, 19, 69, 110}]
    /\ timed_running \in BOOLEAN /\ timed_updated \in BOOLEAN
    /\ network_ready \in BOOLEAN /\ graphics_ready \in BOOLEAN
    /\ probe \subseteq Id /\ recovery \in BOOLEAN
    /\ todo \in Seq(Id) /\ started \in Nat
    /\ wait \in [id : Id \cup {NoId}, polls : 0..Polls]

Done == todo = <<>>

\* While PID 1 boots, a service is starting or ready only on top of a
\* dependency that is ready: README, "start only after their prerequisites
\* report ready".
StartsGated ==
    ~Done => \A i \in Id : state[i] \in {"starting", "ready"} /\ dependency[i] # NoId
                             => state[dependency[i]] = "ready"

\* boot_summary reports what is true: when the boot sequence reaches its
\* end, the services it has counted are the ones that are ready.
BootCount ==
    [][~Done /\ Done' => started' = Cardinality({i \in Id : state'[i] = "ready"})]_services

\* The boot order and the recovery skips respect the dependencies: with all
\* subsystems up nothing fails for want of a prerequisite, and the end of
\* the boot finds every service ready that recovery mode does not skip.
HealthyBoot ==
    [][/\ ~Done /\ Done'
       /\ probe = {fsd, memoryd, userd, displayd}
       /\ state'[diskd] # "failed" /\ state'[netd] # "failed"
       => \A i \in Id : state'[i] = IF recovery /\ i \in RecoverySkips THEN "stopped"
                                    ELSE "ready"]_services

\* No service is left half-way: outside service_wait_ready none is starting,
\* so the background poll never has to finish a start.
NoLimbo == \A i \in Id : state[i] = "starting" => wait.id = i

\* The exit code tells a failed service from every other one.
ExitCodes == \A i \in Id : state[i] = "failed" <=> exit_code[i] # 0

\* The subsystems follow their services: timed.c runs exactly while timed
\* does, and graphicsd is ready only while the compositor is active.
SubsystemsFollow ==
    /\ timed_running <=> state[timed] \in {"starting", "ready"}
    /\ graphics_ready <=> state[graphicsd] \in {"starting", "ready"}

\* While PID 1 boots, a service is starting or ready only on top of a
\* dependency that is ready; no service is ever left starting by a
\* service_wait_ready that has returned; and timed.c and the compositor run
\* exactly while their services are up.
BootGates == StartsGated /\ NoLimbo /\ SubsystemsFollow

\* The boot ends: a probe that never answers costs the budget of polls of
\* its service_wait_ready and no more.
BootFinishes == <>Done

=============================================================================
