----------------------------- MODULE Lifecycle -----------------------------
(***************************************************************************)
(* The process and its unit: main (src/main.rs) from its first call to the *)
(* notification that it serves, the task that pings the watchdog, what     *)
(* run_supervised (src/ble.rs) tells systemd, the mDNS registration, and   *)
(* systemd as linux-bt-proxy.service has it: Requires=bluetooth.service,   *)
(* Type=notify, Restart=on-failure, RestartSec=, WatchdogSec=.             *)
(*                                                                         *)
(* Time is discrete.  The steps of main take none, but for its sleeps and  *)
(* for a call that BlueZ does not answer; a task of a runtime that is not  *)
(* wedged runs at most Jitter late.                                        *)
(***************************************************************************)
EXTENDS Integers, FiniteSets

CONSTANTS
  Attempts,       \* MAC_LOOKUP_ATTEMPTS
  LookupDelay,    \* the sleep between two lookups
  RestartSec,     \* RestartSec=
  WatchdogSec,    \* WatchdogSec=
  StartTimeout,   \* systemd: TimeoutStartSec=
  LimitInterval,  \* systemd: StartLimitIntervalSec=
  LimitBurst,     \* systemd: StartLimitBurst=
  Jitter,         \* how late a task of the runtime may run
  MaxFaults       \* bound: faults of the environment

\* What main needs of its host.  "reply" is that bluetoothd answers at all,
\* "adapter" that its answer is the address of the adapter, "fds" that a
\* connection can be accepted.
Parts == {"bus", "reply", "adapter", "net", "mdns", "port", "fds"}

\* Mutant: the watchdog is pinged as often as it asks for, not twice as often.
PingIntervalWhole == WatchdogSec

PingInterval == WatchdogSec \div 2

ASSUME LifecycleAssumption ==
  /\ Attempts \in Nat \ {0}
  /\ LookupDelay \in Nat \ {0}
  /\ RestartSec \in Nat \ {0}
  /\ WatchdogSec \in Nat /\ Jitter \in Nat
  /\ WatchdogSec \div 2 + Jitter < WatchdogSec
  /\ StartTimeout \in Nat /\ (Attempts - 1) * LookupDelay < StartTimeout
  /\ LimitInterval \in Nat /\ LimitBurst \in Nat \ {0}
  /\ LimitInterval < LimitBurst * RestartSec
  /\ MaxFaults \in Nat

VARIABLES
  works,       \* the parts of the host that work
  faults,      \* history: faults so far
  unit,        \* "starting", "active", "wait", "failed" or "dependency"
  status,      \* STATUS=: "", "serving" or "down"
  starts,      \* starts counted by the start limit
  window,      \* time since the first of them
  dog,         \* time since the last ping, or since READY=1
  age,         \* time since the unit started, until READY=1
  pc,          \* where main is
  attempt,     \* of the lookups of the adapter's address
  timer,       \* what is left of main's sleep or of RestartSec
  linked,      \* dbus_conn is connected
  wedged,      \* no task of the process runs any more
  due,         \* time until the ticker's next tick, down to -Jitter when late
  advertised,  \* the mDNS record is published
  bound,       \* the TCP listener is bound
  listener,    \* run_supervised: "none", "running" or "sleeping"
  held         \* history: bluetoothd has let this start wait

hostVars  == <<works, faults>>
limitVars == <<starts, window>>
netVars   == <<advertised, bound, listener>>
vars == <<hostVars, unit, status, limitVars, dog, age, pc, attempt, timer,
          linked, wedged, due, netVars, held>>

Startup == {"dbus", "mac", "sleep", "net", "mdns", "bind", "notify"}

TypeOK ==
  /\ works \subseteq Parts
  /\ faults \in 0..MaxFaults
  /\ unit \in {"starting", "active", "wait", "failed", "dependency"}
  /\ status \in {"", "serving", "down"}
  /\ starts \in 1..LimitBurst
  /\ window \in 0..LimitInterval + 1
  /\ dog \in 0..WatchdogSec
  /\ age \in 0..StartTimeout
  /\ pc \in Startup \union {"none", "serve"}
  /\ attempt \in 1..Attempts
  /\ timer \in Nat
  /\ linked \in BOOLEAN
  /\ wedged \in BOOLEAN
  /\ due \in -Jitter..PingInterval
  /\ advertised \in BOOLEAN
  /\ bound \in BOOLEAN
  /\ listener \in {"none", "running", "sleeping"}
  /\ held \in BOOLEAN

\* At boot something may be missing, but not what bluetooth.service, which has
\* been started, cannot start without.
Init ==
  /\ works \in {Parts} \union {Parts \ {p} : p \in Parts \ {"bus"}}
  /\ faults = 0
  /\ unit = "starting"
  /\ status = ""
  /\ starts = 1 /\ window = 0
  /\ dog = 0 /\ age = 0
  /\ pc = "dbus"
  /\ attempt = 1 /\ timer = 0
  /\ linked = FALSE /\ wedged = FALSE /\ held = FALSE
  /\ due = 0
  /\ advertised = FALSE /\ bound = FALSE /\ listener = "none"

-----------------------------------------------------------------------------
(* The end of a process                                                    *)

\* Mutant: the unit has no RestartSec.
ExitRestartsAtOnce ==
  /\ unit' = "wait"
  /\ timer' = 0
  /\ pc' = "none"
  /\ attempt' = 1 /\ dog' = 0 /\ age' = 0 /\ due' = 0
  /\ linked' = FALSE /\ wedged' = FALSE /\ held' = FALSE
  /\ advertised' = FALSE /\ bound' = FALSE /\ listener' = "none"
  /\ UNCHANGED <<hostVars, status, limitVars>>

\* exit(1), a panic of main, or systemd's signal: a failure, after which
\* systemd waits RestartSec.  What the process held is gone.
Exit ==
  /\ unit' = "wait"
  /\ timer' = RestartSec
  /\ pc' = "none"
  /\ attempt' = 1 /\ dog' = 0 /\ age' = 0 /\ due' = 0
  /\ linked' = FALSE /\ wedged' = FALSE /\ held' = FALSE
  /\ advertised' = FALSE /\ bound' = FALSE /\ listener' = "none"
  /\ UNCHANGED <<hostVars, status, limitVars>>

-----------------------------------------------------------------------------
(* main                                                                    *)

At(place) == pc = place /\ ~wedged

\* Everything but main's place and the variables a step names.
systemdVars == <<unit, limitVars, dog, age>>

\* zbus::Connection::system()
ConnectBus ==
  /\ At("dbus")
  /\ \/ /\ "bus" \in works
        /\ pc' = "mac"
        /\ linked' = TRUE
        /\ UNCHANGED <<hostVars, systemdVars, status, attempt, timer, wedged,
                       due, netVars, held>>
     \/ "bus" \notin works /\ Exit

AddressIsRead == linked /\ "adapter" \in works

\* Mutant: the last attempt is not made.
ReadMacOneShort ==
  /\ At("mac")
  /\ "reply" \in works \/ ~linked
  /\ \/ /\ AddressIsRead
        /\ pc' = "net"
        /\ UNCHANGED <<attempt, timer, hostVars, systemdVars, status, linked,
                       wedged, due, netVars, held>>
     \/ /\ ~AddressIsRead /\ attempt < Attempts - 1
        /\ pc' = "sleep"
        /\ timer' = LookupDelay
        /\ attempt' = attempt + 1
        /\ UNCHANGED <<hostVars, systemdVars, status, linked, wedged, due,
                       netVars, held>>
     \/ ~AddressIsRead /\ attempt >= Attempts - 1 /\ Exit

\* Mutant: the guard `attempt < MAC_LOOKUP_ATTEMPTS' lets the last one pass.
ReadMacOneOver ==
  /\ At("mac")
  /\ "reply" \in works \/ ~linked
  /\ \/ /\ AddressIsRead
        /\ pc' = "net"
        /\ UNCHANGED <<attempt, timer, hostVars, systemdVars, status, linked,
                       wedged, due, netVars, held>>
     \/ /\ ~AddressIsRead /\ attempt <= Attempts
        /\ pc' = "sleep"
        /\ timer' = LookupDelay
        /\ attempt' = attempt + 1
        /\ UNCHANGED <<hostVars, systemdVars, status, linked, wedged, due,
                       netVars, held>>
     \/ ~AddressIsRead /\ attempt > Attempts /\ Exit

\* get_adapter_mac, on the connection made before the loop; the call has no
\* timeout, and a broken connection fails it at once.
ReadMac ==
  /\ At("mac")
  /\ "reply" \in works \/ ~linked
  /\ \/ /\ AddressIsRead
        /\ pc' = "net"
        /\ UNCHANGED <<attempt, timer, hostVars, systemdVars, status, linked,
                       wedged, due, netVars, held>>
     \/ /\ ~AddressIsRead /\ attempt < Attempts
        /\ pc' = "sleep"
        /\ timer' = LookupDelay
        /\ attempt' = attempt + 1
        /\ UNCHANGED <<hostVars, systemdVars, status, linked, wedged, due,
                       netVars, held>>
     \/ ~AddressIsRead /\ attempt = Attempts /\ Exit

\* tokio::time::sleep is over: the next attempt.
LookUpAgain ==
  /\ At("sleep")
  /\ timer = 0
  /\ pc' = "mac"
  /\ UNCHANGED <<hostVars, systemdVars, status, attempt, timer, linked, wedged,
                 due, netVars, held>>

\* dbus_conn is dropped; get_mac_address, without --mac; the supervisor's task
\* is spawned.
SpawnSupervisor ==
  /\ At("net")
  /\ \/ /\ "net" \in works
        /\ pc' = "mdns"
        /\ linked' = FALSE
        /\ listener' = "running"
        /\ UNCHANGED <<hostVars, systemdVars, status, attempt, timer, wedged,
                       due, advertised, bound, held>>
     \/ "net" \notin works /\ Exit

\* start_mdns: its errors are exits or panics of main.
RegisterMdns ==
  /\ At("mdns")
  /\ \/ /\ "mdns" \in works
        /\ pc' = "bind"
        /\ advertised' = TRUE
        /\ UNCHANGED <<hostVars, systemdVars, status, attempt, timer, linked,
                       wedged, due, bound, listener, held>>
     \/ "mdns" \notin works /\ Exit

\* Mutant: an address in use is only logged.
BindLogged ==
  /\ At("bind")
  /\ pc' = "notify"
  /\ bound' = ("port" \in works)
  /\ UNCHANGED <<hostVars, systemdVars, status, attempt, timer, linked, wedged,
                 due, advertised, listener, held>>

\* TcpListener::bind
Bind ==
  /\ At("bind")
  /\ \/ /\ "port" \in works
        /\ pc' = "notify"
        /\ bound' = TRUE
        /\ UNCHANGED <<hostVars, systemdVars, status, attempt, timer, linked,
                       wedged, due, advertised, listener, held>>
     \/ "port" \notin works /\ Exit

\* READY=1 and the status; the ticker, whose first tick is due at once, is
\* spawned, and run_tcp_server begins.  Nothing is left of the start to be
\* held up.
Serve ==
  /\ At("notify")
  /\ pc' = "serve"
  /\ unit' = "active"
  /\ status' = "serving"
  /\ dog' = 0
  /\ age' = 0
  /\ due' = 0
  /\ held' = FALSE
  /\ UNCHANGED <<hostVars, limitVars, attempt, timer, linked, wedged, netVars>>

\* Mutant: main returns Ok when the server has ended, a clean exit to systemd.
AcceptFailsQuietly ==
  /\ At("serve")
  /\ "fds" \notin works
  /\ unit' = "inactive"
  /\ pc' = "none"
  /\ attempt' = 1 /\ dog' = 0 /\ age' = 0 /\ due' = 0
  /\ advertised' = FALSE /\ bound' = FALSE /\ listener' = "none"
  /\ held' = FALSE
  /\ UNCHANGED <<hostVars, status, limitVars, timer, linked, wedged>>

\* accept fails: run_tcp_server returns and main exits.
AcceptFails ==
  /\ At("serve")
  /\ "fds" \notin works
  /\ Exit

Main == \/ ConnectBus \/ ReadMac \/ LookUpAgain \/ SpawnSupervisor
        \/ RegisterMdns \/ Bind \/ Serve \/ AcceptFails

-----------------------------------------------------------------------------
(* The other tasks                                                         *)

\* Mutant: a thread of its own pings, which runs when the runtime does not.
PingFromThread ==
  /\ pc = "serve"
  /\ due <= 0
  /\ due' = due + PingInterval
  /\ dog' = 0
  /\ UNCHANGED <<hostVars, unit, status, limitVars, age, pc, attempt, timer,
                 linked, wedged, netVars, held>>

\* ticker.tick() returns and WATCHDOG=1 is sent.  A late tick does not put off
\* the ones that follow it (MissedTickBehavior::Burst).
Ping ==
  /\ At("serve")
  /\ due <= 0
  /\ due' = due + PingInterval
  /\ dog' = 0
  /\ UNCHANGED <<hostVars, unit, status, limitVars, age, pc, attempt, timer,
                 linked, wedged, netVars, held>>

\* Mutant: only a first failure is reported.
ListenerFailsOnce ==
  /\ listener = "running" /\ ~wedged
  /\ listener' = "sleeping"
  /\ status' = IF status = "" THEN "down" ELSE status
  /\ UNCHANGED <<hostVars, systemdVars, pc, attempt, timer, linked, wedged, due,
                 advertised, bound, held>>

\* The BLE listener returns, for reasons Listener has, and that is reported.
ListenerFails ==
  /\ listener = "running" /\ ~wedged
  /\ listener' = "sleeping"
  /\ status' = "down"
  /\ UNCHANGED <<hostVars, systemdVars, pc, attempt, timer, linked, wedged, due,
                 advertised, bound, held>>

\* The backoff is over, and nothing is reported.
ListenerRetries ==
  /\ listener = "sleeping" /\ ~wedged
  /\ listener' = "running"
  /\ UNCHANGED <<hostVars, systemdVars, status, pc, attempt, timer, linked,
                 wedged, due, advertised, bound, held>>

-----------------------------------------------------------------------------
(* systemd                                                                 *)

StartIsLate  == unit = "starting" /\ age >= StartTimeout
WatchdogBites == unit = "active" /\ dog >= WatchdogSec

\* The start timeout or the watchdog: the process is killed.
Kill == (StartIsLate \/ WatchdogBites) /\ Exit

\* Requires=bluetooth.service, and After= it: the start waits for that unit to
\* run, or to be started.  It may be running although main cannot reach it.
RequiredWorks == {"bus", "reply"} \subseteq works

\* bluetooth.service cannot be started when the restart is due: systemd drops
\* the restart with the result "dependency", which Restart= does not retry.
DropRestart ==
  /\ unit = "wait"
  /\ timer = 0
  /\ ~RequiredWorks
  /\ unit' = "dependency"
  /\ UNCHANGED <<hostVars, status, limitVars, dog, age, pc, attempt, timer,
                 linked, wedged, due, netVars, held>>

\* RestartSec is over: the unit is started again, if the start limit allows.
Restart ==
  /\ unit = "wait"
  /\ timer = 0
  /\ \/ /\ window > LimitInterval
        /\ starts' = 1 /\ window' = 0
        /\ unit' = "starting" /\ status' = "" /\ pc' = "dbus"
     \/ /\ window <= LimitInterval /\ starts < LimitBurst
        /\ starts' = starts + 1
        /\ unit' = "starting" /\ status' = "" /\ pc' = "dbus"
        /\ UNCHANGED window
     \/ /\ window <= LimitInterval /\ starts = LimitBurst
        /\ unit' = "failed"
        /\ UNCHANGED <<limitVars, status, pc>>
  /\ UNCHANGED <<hostVars, dog, age, attempt, timer, linked, wedged, due,
                 netVars, held>>

-----------------------------------------------------------------------------
(* The host and time                                                       *)

\* A part of the host fails; the bus takes its connections with it.
Break(p) ==
  /\ p \in works
  /\ faults < MaxFaults
  /\ faults' = faults + 1
  /\ works' = works \ {p}
  /\ linked' = (linked /\ p # "bus")
  /\ UNCHANGED <<systemdVars, status, pc, attempt, timer, wedged, due, netVars,
                 held>>

Mend(p) ==
  /\ p \notin works
  /\ works' = works \union {p}
  /\ UNCHANGED <<faults, systemdVars, status, pc, attempt, timer, linked,
                 wedged, due, netVars, held>>

\* Every thread of the runtime blocks for good.
Wedge ==
  /\ pc # "none" /\ ~wedged
  /\ faults < MaxFaults
  /\ faults' = faults + 1
  /\ wedged' = TRUE
  /\ UNCHANGED <<works, systemdVars, status, pc, attempt, timer, linked, due,
                 netVars, held>>

Waiting == pc = "mac" /\ linked /\ "reply" \notin works

\* Nothing is to be done before time goes on.
Idle ==
  /\ ~StartIsLate /\ ~WatchdogBites
  /\ unit = "wait" => timer > 0
  /\ ~wedged => /\ pc \in Startup => Waiting \/ (pc = "sleep" /\ timer > 0)
                /\ pc = "serve" => due > -Jitter

Tick ==
  /\ Idle
  /\ timer' = IF timer > 0 THEN timer - 1 ELSE timer
  /\ age' = IF unit = "starting" THEN age + 1 ELSE age
  /\ dog' = IF unit = "active" THEN dog + 1 ELSE dog
  /\ due' = IF pc = "serve" /\ due > -Jitter THEN due - 1 ELSE due
  /\ window' = IF window <= LimitInterval THEN window + 1 ELSE window
  /\ held' = (held \/ Waiting)
  /\ UNCHANGED <<hostVars, unit, status, starts, pc, attempt, linked, wedged,
                 netVars>>

-----------------------------------------------------------------------------
Environment == (\E p \in Parts : Break(p) \/ Mend(p)) \/ Wedge

Next == \/ Main \/ Ping \/ ListenerFails \/ ListenerRetries
        \/ Kill \/ Restart \/ DropRestart \/ Tick \/ Environment

SafeSpec == Init /\ [][Next]_vars

\* Time goes on, systemd acts, and a runtime that is not wedged runs its
\* tasks.  A listener without its bus fails (StreamError and Connect of
\* Listener); that it fails for other reasons is not counted on.
Fairness ==
  /\ WF_vars(Tick)
  /\ WF_vars(Kill)
  /\ WF_vars(Restart)
  /\ WF_vars(Main)
  /\ WF_vars(Ping)
  /\ WF_vars("bus" \notin works /\ ListenerFails)
  /\ WF_vars(ListenerRetries)

Spec == SafeSpec /\ Fairness
=============================================================================
