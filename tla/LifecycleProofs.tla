-------------------------- MODULE LifecycleProofs --------------------------
(***************************************************************************)
(* Proofs about Lifecycle, for any timeouts, attempts and faults that its  *)
(* assumption allows.                                                      *)
(*                                                                         *)
(* IInv is inductive.  Placed says what main has done by the place it is   *)
(* at; Paced accounts for the time of a start by the sleeps it has made,   *)
(* of a process that serves by its pings, and of a unit by its restarts.   *)
(***************************************************************************)
EXTENDS LifecycleProperties, TLAPS

\* The sleeps before the n-th lookup, and the waits of n restarts.
Slept(n)  == (n - 1) * LookupDelay
Waited(n) == n * RestartSec

\* Where main is, where its unit is, and what it has done.
Placed ==
  /\ (unit = "starting") = (pc \in Startup)
  /\ (unit = "active") = (pc = "serve")
  /\ wedged => pc # "none"
  /\ pc \in {"bind", "notify", "serve"} => advertised
  /\ pc \in {"notify", "serve"} => bound
  /\ pc \in {"mdns", "bind", "notify", "serve"} => listener # "none"

\* A start has taken at least the sleeps it has made.
AtLeast ==
  /\ pc \in {"none", "dbus"} => attempt = 1
  /\ pc = "mac" => age >= Slept(attempt)
  /\ pc = "sleep" => age + timer >= Slept(attempt)

\* A start that nothing has held up has taken no more.
AtMost ==
  ~wedged /\ ~held =>
    /\ pc \in {"none", "dbus"} => age = 0
    /\ pc = "mac" => age <= Slept(attempt)
    /\ pc = "sleep" => age + timer <= Slept(attempt)
    /\ unit = "starting" => age <= Slept(Attempts)

\* The last ping and the next one are no further apart than the ticker's period.
Pinged == pc = "serve" /\ ~wedged => dog + due <= PingInterval

\* The starts that count for the limit are RestartSec apart.
Spaced ==
  /\ unit # "failed"
  /\ window <= LimitInterval =>
       /\ window >= Waited(starts - 1)
       /\ unit = "wait" => window + timer >= Waited(starts)

IInv == TypeOK /\ Placed /\ AtLeast /\ AtMost /\ Pinged /\ Spaced

-----------------------------------------------------------------------------
\* What is used of the constants.
LEMMA Bounds ==
  /\ Attempts \in Nat /\ Attempts >= 1
  /\ LookupDelay \in Nat /\ RestartSec \in Nat
  /\ WatchdogSec \in Nat /\ Jitter \in Nat /\ PingInterval \in Nat
  /\ PingInterval + Jitter < WatchdogSec
  /\ StartTimeout \in Nat /\ LimitInterval \in Nat
  /\ LimitBurst \in Nat /\ LimitBurst >= 1
  /\ MaxFaults \in Nat
BY LifecycleAssumption DEF PingInterval

\* The sleeps add up.
LEMMA SleptSums ==
  /\ Slept(1) = 0
  /\ \A n \in Nat : Slept(n) \in Int /\ Slept(n + 1) = Slept(n) + LookupDelay
  /\ \A n \in 1..Attempts : Slept(n) <= Slept(Attempts)
  /\ Slept(Attempts) < StartTimeout
<1>1. Slept(1) = 0
  BY Bounds DEF Slept
<1>2. ASSUME NEW n \in Nat
      PROVE  Slept(n) \in Int /\ Slept(n + 1) = Slept(n) + LookupDelay
  BY Bounds DEF Slept
<1>3. ASSUME NEW n \in 1..Attempts
      PROVE  Slept(n) <= Slept(Attempts)
  <2>1. (Attempts - n) * LookupDelay >= 0
    BY Bounds
  <2>2. Slept(Attempts) = Slept(n) + (Attempts - n) * LookupDelay
    BY Bounds DEF Slept
  <2> QED BY <1>2, <2>1, <2>2, Bounds
<1>4. Slept(Attempts) < StartTimeout
  BY LifecycleAssumption DEF Slept
<1> QED BY <1>1, <1>2, <1>3, <1>4

\* The waits add up.
LEMMA WaitedSums ==
  /\ Waited(0) = 0
  /\ \A n \in Int : Waited(n) \in Int /\ Waited(n + 1) = Waited(n) + RestartSec
  /\ LimitInterval < Waited(LimitBurst)
BY LifecycleAssumption DEF Waited

\* The numbers of a state.
LEMMA Numbers ==
  ASSUME TypeOK
  PROVE  /\ starts \in Int /\ starts >= 1 /\ starts <= LimitBurst
         /\ window \in Int /\ window >= 0 /\ window <= LimitInterval + 1
         /\ dog \in Int /\ dog >= 0 /\ dog <= WatchdogSec
         /\ age \in Int /\ age >= 0 /\ age <= StartTimeout
         /\ attempt \in Int /\ attempt >= 1 /\ attempt <= Attempts
         /\ timer \in Int /\ timer >= 0
         /\ due \in Int /\ due >= -Jitter /\ due <= PingInterval
<1>1. /\ starts \in 1..LimitBurst /\ window \in 0..LimitInterval + 1
      /\ dog \in 0..WatchdogSec /\ age \in 0..StartTimeout
  BY DEF TypeOK
<1>2. attempt \in 1..Attempts /\ timer \in Nat /\ due \in -Jitter..PingInterval
  BY DEF TypeOK
<1> QED BY <1>1, <1>2, Bounds

\* The end of a process leaves nothing behind but the time of its restart
\* (every exit(1) of main, and systemd's signals).
LEMMA ExitKeeps ==
  ASSUME IInv, Exit, pc # "none"
  PROVE  IInv'
<1> USE DEF IInv
<1>1. unit \in {"starting", "active"}
  BY DEF TypeOK, Placed
<1>2. /\ unit' = "wait" /\ timer' = RestartSec /\ pc' = "none"
      /\ attempt' = 1 /\ dog' = 0 /\ age' = 0 /\ due' = 0
      /\ linked' = FALSE /\ wedged' = FALSE /\ held' = FALSE
      /\ advertised' = FALSE /\ bound' = FALSE /\ listener' = "none"
      /\ UNCHANGED <<works, faults, status, starts, window>>
  BY DEF Exit, hostVars, limitVars
<1>3. TypeOK'
  <2>1. 0 \in -Jitter..PingInterval /\ 1 \in 1..Attempts
    BY Bounds
  <2>2. 0 \in 0..WatchdogSec /\ 0 \in 0..StartTimeout
    BY Bounds
  <2> QED BY <1>2, <2>1, <2>2, Bounds DEF TypeOK
<1>4. Placed' /\ AtLeast' /\ AtMost' /\ Pinged'
  BY <1>2 DEF Placed, AtLeast, AtMost, Pinged, Startup
<1>5. Spaced'
  <2>1. starts \in Int /\ window \in Int
    BY Numbers
  <2>2. starts - 1 \in Int /\ (starts - 1) + 1 = starts
    BY <2>1
  <2>3. /\ Waited(starts) = Waited(starts - 1) + RestartSec
        /\ Waited(starts - 1) \in Int
    BY <2>2, WaitedSums
  <2>4. window <= LimitInterval => window >= Waited(starts - 1)
    BY DEF Spaced
  <2>5. window <= LimitInterval => window + RestartSec >= Waited(starts)
    BY <2>1, <2>3, <2>4, Bounds
  <2> QED BY <1>2, <2>4, <2>5 DEF Spaced
<1> QED BY <1>3, <1>4, <1>5

\* Steps of main that take no time (zbus::Connection::system, the lookups,
\* get_mac_address, start_mdns and TcpListener::bind).
LEMMA MainKeeps ==
  ASSUME IInv, ConnectBus \/ ReadMac \/ LookUpAgain \/ SpawnSupervisor
               \/ RegisterMdns \/ Bind
  PROVE  IInv'
<1> USE DEF IInv
<1>1. CASE Exit
  <2>1. pc # "none"
    BY DEF ConnectBus, ReadMac, LookUpAgain, SpawnSupervisor, RegisterMdns,
           Bind, At
  <2> QED BY <1>1, <2>1, ExitKeeps
<1>2. CASE ~Exit
  <2>1. /\ pc \in Startup /\ ~wedged /\ wedged' = wedged
        /\ UNCHANGED <<works, faults, unit, starts, window, dog, age, status,
                       due, held>>
    BY <1>2, Zenon DEF ConnectBus, ReadMac, LookUpAgain, SpawnSupervisor,
       RegisterMdns, Bind, At, hostVars, systemdVars, limitVars, Startup
  <2>2. unit = "starting"
    BY <2>1 DEF Placed
  <2>3. CASE ConnectBus
    <3>1. /\ pc = "dbus" /\ pc' = "mac" /\ linked' = TRUE
          /\ UNCHANGED <<attempt, timer, advertised, bound, listener>>
      BY <1>2, <2>3, Zenon DEF ConnectBus, At, netVars
    <3>2. attempt' = 1 /\ Slept(attempt') = 0
      BY <3>1, SleptSums DEF AtLeast
    <3>3. age' >= 0 /\ (~held => age' = 0)
      BY <2>1, <3>1, Numbers DEF AtMost
    <3>4. TypeOK' 
      BY <2>1, <3>1 DEF TypeOK, Startup
    <3>5. Placed'
      BY <2>1, <2>2, <3>1 DEF Placed, Startup
    <3>6. AtLeast' /\ AtMost' /\ Pinged' /\ Spaced'
      BY <2>1, <2>2, <3>1, <3>2, <3>3 DEF AtLeast, AtMost, Pinged, Spaced
    <3> QED BY <3>4, <3>5, <3>6
  <2>4. CASE ReadMac /\ ~AddressIsRead
    <3>1. /\ pc = "mac" /\ pc' = "sleep" /\ attempt < Attempts
          /\ timer' = LookupDelay /\ attempt' = attempt + 1
          /\ UNCHANGED <<linked, advertised, bound, listener>>
      BY <1>2, <2>4, Zenon DEF ReadMac, At, netVars
    <3>2. attempt' \in 1..Attempts /\ timer' \in Nat
      BY <3>1, Numbers, Bounds
    <3>3. /\ Slept(attempt') = Slept(attempt) + LookupDelay
          /\ Slept(attempt) \in Int
      BY <3>1, Numbers, SleptSums
    <3>4. TypeOK'
      BY <2>1, <3>1, <3>2 DEF TypeOK, Startup
    <3>5. Placed'
      BY <2>1, <2>2, <3>1 DEF Placed, Startup
    <3>6. AtLeast'
      BY <2>1, <3>1, <3>3, Numbers, Bounds DEF AtLeast
    <3>7. AtMost'
      BY <2>1, <2>2, <3>1, <3>3, Numbers, Bounds DEF AtMost
    <3>8. Pinged' /\ Spaced'
      BY <2>1, <2>2, <3>1 DEF Pinged, Spaced
    <3> QED BY <3>4, <3>5, <3>6, <3>7, <3>8
  <2>5. CASE LookUpAgain
    <3>1. /\ pc = "sleep" /\ pc' = "mac" /\ timer = 0
          /\ UNCHANGED <<attempt, timer, linked, advertised, bound, listener>>
      BY <2>5, Zenon DEF LookUpAgain, At, netVars
    <3>2. age + timer = age
      BY <3>1, Numbers
    <3>3. TypeOK'
      BY <2>1, <3>1 DEF TypeOK, Startup
    <3>4. Placed'
      BY <2>1, <2>2, <3>1 DEF Placed, Startup
    <3>5. AtLeast' /\ AtMost' /\ Pinged' /\ Spaced'
      BY <2>1, <2>2, <3>1, <3>2 DEF AtLeast, AtMost, Pinged, Spaced
    <3> QED BY <3>3, <3>4, <3>5
  <2>6. CASE \/ ReadMac /\ AddressIsRead
             \/ SpawnSupervisor \/ RegisterMdns \/ Bind
    <3>1. /\ pc \in {"mac", "net", "mdns", "bind"}
          /\ pc' = CASE pc = "mac"  -> "net"  [] pc = "net"  -> "mdns"
                     [] pc = "mdns" -> "bind" [] pc = "bind" -> "notify"
          /\ UNCHANGED <<attempt, timer>>
          /\ linked' \in {linked, FALSE}
      BY <1>2, <2>6 DEF ReadMac, SpawnSupervisor, RegisterMdns, Bind, At
    <3>2. /\ advertised' = (advertised \/ pc = "mdns")
          /\ bound' = (bound \/ pc = "bind")
          /\ listener' = IF pc = "net" THEN "running" ELSE listener
      BY <1>2, <2>6 DEF ReadMac, SpawnSupervisor, RegisterMdns, Bind, At, netVars,
                        TypeOK
    <3>3. TypeOK'
      BY <2>1, <3>1, <3>2 DEF TypeOK, Startup
    <3>4. Placed'
      BY <2>1, <2>2, <3>1, <3>2 DEF Placed, Startup
    <3>5. AtLeast' /\ AtMost' /\ Pinged' /\ Spaced'
      BY <2>1, <2>2, <3>1 DEF AtLeast, AtMost, Pinged, Spaced
    <3> QED BY <3>3, <3>4, <3>5
  <2> QED BY <2>3, <2>4, <2>5, <2>6
<1> QED BY <1>1, <1>2

\* READY=1 opens the watchdog's account, and a ping balances it (the
\* notification and the ticker of main).
LEMMA ServeKeeps ==
  ASSUME IInv, Serve \/ Ping
  PROVE  IInv'
<1> USE DEF IInv
<1>1. CASE Serve
  <2>1. /\ pc = "notify" /\ pc' = "serve" /\ unit' = "active"
        /\ status' = "serving" /\ dog' = 0 /\ age' = 0 /\ due' = 0
        /\ held' = FALSE
        /\ UNCHANGED <<works, faults, starts, window, attempt, timer, linked,
                       wedged, advertised, bound, listener>>
    BY <1>1, Zenon DEF Serve, At, hostVars, limitVars, netVars
  <2>2. /\ 0 \in 0..WatchdogSec /\ 0 \in 0..StartTimeout
        /\ 0 \in -Jitter..PingInterval /\ 0 + 0 <= PingInterval
    BY Bounds
  <2>3. TypeOK'
    BY <2>1, <2>2 DEF TypeOK
  <2>4. Placed'
    BY <2>1 DEF Placed, Startup
  <2>5. AtLeast' /\ AtMost' /\ Pinged' /\ Spaced'
    BY <2>1, <2>2 DEF AtLeast, AtMost, Pinged, Spaced
  <2> QED BY <2>3, <2>4, <2>5
<1>2. CASE Ping
  <2>1. /\ pc = "serve" /\ due <= 0 /\ due' = due + PingInterval /\ dog' = 0
        /\ UNCHANGED <<works, faults, unit, status, starts, window, age, pc,
                       attempt, timer, linked, wedged, advertised, bound,
                       listener, held>>
    BY <1>2, Zenon DEF Ping, At, hostVars, limitVars, netVars
  <2>2. /\ due' \in -Jitter..PingInterval /\ dog' \in 0..WatchdogSec
        /\ dog' + due' <= PingInterval
    BY <2>1, Numbers, Bounds
  <2>3. TypeOK'
    BY <2>1, <2>2 DEF TypeOK
  <2>4. Placed' /\ AtLeast' /\ AtMost' /\ Spaced'
    BY <2>1 DEF Placed, AtLeast, AtMost, Spaced, Startup
  <2>5. Pinged'
    BY <2>2 DEF Pinged
  <2> QED BY <2>3, <2>4, <2>5
<1> QED BY <1>1, <1>2

\* The supervisor's reports, and what fails or is mended in the host, touch
\* neither main's place nor its time (run_supervised).
LEMMA OthersKeep ==
  ASSUME IInv,
         \/ ListenerFails \/ ListenerRetries \/ Wedge
         \/ \E p \in Parts : Break(p) \/ Mend(p)
  PROVE  IInv'
<1> USE DEF IInv
<1>1. /\ UNCHANGED <<unit, starts, window, dog, age, pc, attempt, timer, due,
                     advertised, bound, held>>
      /\ status' \in {status, "down"}
      /\ wedged' \in {wedged, TRUE}
      /\ wedged' # wedged => pc # "none"
      /\ listener' = listener
         \/ (listener # "none" /\ listener' \in {"running", "sleeping"})
  <2>1. CASE ListenerFails
    BY <2>1 DEF ListenerFails, systemdVars, limitVars
  <2>2. CASE ListenerRetries
    BY <2>2 DEF ListenerRetries, systemdVars, limitVars
  <2>3. CASE Wedge
    BY <2>3 DEF Wedge, systemdVars, limitVars, netVars
  <2>4. CASE \E p \in Parts : Break(p) \/ Mend(p)
    BY <2>4 DEF Break, Mend, systemdVars, limitVars, netVars
  <2> QED BY <2>1, <2>2, <2>3, <2>4
<1>2. works' \subseteq Parts /\ faults' \in 0..MaxFaults /\ linked' \in BOOLEAN
  <2>1. CASE ListenerFails \/ ListenerRetries
    BY <2>1 DEF ListenerFails, ListenerRetries, hostVars, TypeOK
  <2>2. faults \in 0..MaxFaults
    BY DEF TypeOK
  <2>3. faults < MaxFaults => faults + 1 \in 0..MaxFaults
    BY <2>2, Bounds
  <2>4. CASE Wedge
    BY <2>3, <2>4 DEF Wedge, TypeOK
  <2>5. CASE \E p \in Parts : Break(p) \/ Mend(p)
    <3>1. PICK p \in Parts : Break(p) \/ Mend(p)
      BY <2>5
    <3> QED BY <2>3, <3>1 DEF Break, Mend, TypeOK
  <2> QED BY <2>1, <2>4, <2>5
<1>3. /\ wedged' \in BOOLEAN /\ (wedged => wedged')
      /\ listener' \in {"none", "running", "sleeping"}
      /\ status' \in {"", "serving", "down"}
  <2>1. wedged' \in BOOLEAN /\ (wedged => wedged')
    <3>1. wedged' = wedged \/ wedged' = TRUE
      BY <1>1
    <3>2. wedged \in BOOLEAN
      BY DEF TypeOK
    <3>3. CASE wedged' = wedged
      BY <3>2, <3>3
    <3>4. CASE wedged' = TRUE
      BY <3>4
    <3> QED BY <3>1, <3>3, <3>4
  <2>2. listener' \in {"none", "running", "sleeping"}
    BY <1>1 DEF TypeOK
  <2>3. status' \in {"", "serving", "down"}
    BY <1>1 DEF TypeOK
  <2> QED BY <2>1, <2>2, <2>3
<1>4. TypeOK'
  BY <1>1, <1>2, <1>3 DEF TypeOK
<1>5. Placed'
  BY <1>1 DEF Placed
<1>6. AtLeast' /\ AtMost'
  BY <1>1, <1>3 DEF AtLeast, AtMost
<1>7. Pinged' /\ Spaced'
  BY <1>1, <1>3 DEF Pinged, Spaced
<1> QED BY <1>4, <1>5, <1>6, <1>7

\* The restart is never refused: the starts that count took too long for that
\* (RestartSec= against systemd's start limit).
LEMMA RestartKeeps ==
  ASSUME IInv, Restart
  PROVE  IInv'
<1> USE DEF IInv
<1>1. /\ unit = "wait" /\ timer = 0
      /\ UNCHANGED <<works, faults, dog, age, attempt, timer, linked, wedged,
                     due, advertised, bound, listener, held>>
  BY DEF Restart, hostVars, netVars
<1>2. pc = "none" /\ ~wedged
  BY <1>1, Zenon DEF Placed, TypeOK
<1>3. window <= LimitInterval => window >= Waited(starts)
  BY <1>1, Numbers DEF Spaced
<1>4. ~(window <= LimitInterval /\ starts = LimitBurst)
  BY <1>3, WaitedSums, Numbers, Bounds
<1>5. /\ unit' = "starting" /\ status' = "" /\ pc' = "dbus"
      /\ \/ starts' = 1 /\ window' = 0
         \/ starts' = starts + 1 /\ starts < LimitBurst /\ window' = window
  BY <1>4, Zenon DEF Restart
<1>6. starts' \in 1..LimitBurst /\ window' \in 0..LimitInterval + 1
  <2>1. /\ starts' = 1 \/ (starts' = starts + 1 /\ starts < LimitBurst)
        /\ window' = 0 \/ window' = window
    BY <1>5
  <2>2. /\ starts \in Int /\ starts >= 1
        /\ window \in Int /\ window >= 0 /\ window <= LimitInterval + 1
    BY Numbers
  <2> HIDE DEF IInv
  <2> QED BY <2>1, <2>2, Bounds
<1>7. TypeOK'
  BY <1>1, <1>5, <1>6 DEF TypeOK, Startup
<1>8. Placed' /\ Pinged'
  BY <1>1, <1>2, <1>5 DEF Placed, Pinged, Startup
<1>9. AtLeast' /\ AtMost'
  <2>1. 0 <= Slept(Attempts)
    BY SleptSums, Bounds
  <2> QED BY <1>1, <1>2, <1>5, <2>1 DEF AtLeast, AtMost
<1>10. Spaced'
  <2>1. CASE starts' = 1
    <3>1. starts' - 1 = 0 /\ starts' # starts + 1
      BY <2>1, Numbers
    <3>2. window' = 0
      BY <1>5, <3>1
    <3>3. window' >= Waited(starts' - 1)
      BY <3>1, <3>2, WaitedSums
    <3>4. unit' = "starting"
      BY <1>5
    <3> QED BY <3>3, <3>4 DEF Spaced
  <2>2. CASE starts' = starts + 1
    <3>1. starts' - 1 = starts /\ starts' # 1
      BY <2>2, Numbers
    <3>2. window' = window
      BY <1>5, <3>1
    <3> QED BY <1>3, <1>5, <3>1, <3>2 DEF Spaced
  <2> QED BY <1>5, <2>1, <2>2
<1> QED BY <1>7, <1>8, <1>9, <1>10

\* A restart that is dropped leaves everything but the unit as it was
\* (Requires= of the unit).
LEMMA DropKeeps ==
  ASSUME IInv, DropRestart
  PROVE  IInv'
<1> USE DEF IInv
<1>1. /\ unit = "wait" /\ unit' = "dependency"
      /\ UNCHANGED <<works, faults, status, starts, window, dog, age, pc,
                     attempt, timer, linked, wedged, due, advertised, bound,
                     listener, held>>
  BY Zenon DEF DropRestart, hostVars, limitVars, netVars
<1>2. TypeOK'
  BY <1>1 DEF TypeOK
<1>3. Placed'
  BY <1>1 DEF Placed
<1>4. AtLeast' /\ AtMost'
  BY <1>1 DEF AtLeast, AtMost
<1>5. Pinged' /\ Spaced'
  BY <1>1 DEF Pinged, Spaced
<1> QED BY <1>2, <1>3, <1>4, <1>5

\* Time goes on: a sleep passes into the age of the start, and what a ping has
\* left into the time since it.
LEMMA TickKeeps ==
  ASSUME IInv, Tick
  PROVE  IInv'
<1> USE DEF IInv
<1>1. /\ UNCHANGED <<works, faults, unit, status, starts, pc, attempt, linked,
                     wedged, advertised, bound, listener>>
      /\ timer' = IF timer > 0 THEN timer - 1 ELSE timer
      /\ age' = IF unit = "starting" THEN age + 1 ELSE age
      /\ dog' = IF unit = "active" THEN dog + 1 ELSE dog
      /\ due' = IF pc = "serve" /\ due > -Jitter THEN due - 1 ELSE due
      /\ window' = IF window <= LimitInterval THEN window + 1 ELSE window
  BY DEF Tick, hostVars, netVars
<1>2. held' = (held \/ Waiting)
  BY DEF Tick
<1>3. /\ unit = "starting" => age < StartTimeout
      /\ unit = "active" => dog < WatchdogSec
  BY Numbers, Bounds DEF Tick, Idle, StartIsLate, WatchdogBites
<1>4. /\ unit = "wait" => timer > 0
      /\ ~wedged /\ pc \in Startup => Waiting \/ (pc = "sleep" /\ timer > 0)
      /\ ~wedged /\ pc = "serve" => due > -Jitter
  BY DEF Tick, Idle
<1>5. TypeOK'
  <2>1. /\ age' \in 0..StartTimeout /\ dog' \in 0..WatchdogSec
        /\ timer' \in Nat
    BY <1>1, <1>3, Numbers, Bounds
  <2>2. due' \in -Jitter..PingInterval /\ window' \in 0..LimitInterval + 1
    BY <1>1, Numbers, Bounds
  <2>3. held' \in BOOLEAN
    BY <1>2, Zenon
  <2> QED BY <1>1, <2>1, <2>2, <2>3 DEF TypeOK
<1>6. Placed'
  BY <1>1 DEF Placed
<1>7. AtLeast'
  <2>1. age' >= age
    BY <1>1, Numbers
  <2>2. pc = "sleep" => unit = "starting"
    BY DEF Placed, Startup
  <2>3. pc = "sleep" => age' + timer' >= age + timer
    BY <1>1, <2>2, Numbers
  <2>4. Slept(attempt) \in Int
    BY Numbers, SleptSums
  <2>5. age' \in Int /\ timer' \in Int
    BY <1>1, Numbers
  <2> QED BY <1>1, <2>1, <2>3, <2>4, <2>5, Numbers DEF AtLeast
<1>8. AtMost'
  <2> SUFFICES ASSUME ~wedged', ~held' PROVE AtMost'
    BY DEF AtMost
  <2>1. ~wedged /\ ~held /\ ~Waiting
    BY <1>1, <1>2
  <2>2. pc \in Startup => pc = "sleep" /\ timer > 0
    BY <1>4, <2>1
  <2>3. CASE pc = "sleep"
    <3>1. unit = "starting" /\ timer > 0
      BY <2>2, <2>3 DEF Placed, Startup
    <3>2. age' + timer' = age + timer /\ age' <= age + timer
      BY <1>1, <3>1, Numbers
    <3>3. age + timer <= Slept(attempt)
      BY <2>1, <2>3 DEF AtMost
    <3>4. /\ Slept(attempt) \in Int /\ Slept(attempt) <= Slept(Attempts)
          /\ Slept(Attempts) \in Int
      BY Numbers, SleptSums, Bounds
    <3>5. age' \in Int /\ timer' \in Int
      BY <1>1, Numbers
    <3> QED BY <1>1, <2>3, <3>2, <3>3, <3>4, <3>5, Numbers DEF AtMost
  <2>4. CASE pc # "sleep"
    <3>1. pc \notin Startup /\ unit # "starting"
      BY <2>2, <2>4 DEF Placed
    <3> QED BY <1>1, <2>1, <2>4, <3>1 DEF AtMost, Startup
  <2> QED BY <2>3, <2>4
<1>9. Pinged'
  <2> SUFFICES ASSUME pc = "serve", ~wedged PROVE (dog + due <= PingInterval)'
    BY <1>1 DEF Pinged
  <2>1. unit = "active" /\ due > -Jitter /\ dog + due <= PingInterval
    BY <1>4 DEF Placed, Pinged
  <2>2. dog' = dog + 1 /\ due' = due - 1
    BY <1>1, <2>1
  <2> QED BY <2>1, <2>2, Numbers, Bounds
<1>10. Spaced'
  <2>1. /\ Waited(starts) \in Int /\ Waited(starts - 1) \in Int
    BY Numbers, WaitedSums
  <2>2. /\ window' \in Int /\ window' >= window
        /\ window' <= LimitInterval => window <= LimitInterval
        /\ window' <= LimitInterval => window' + timer' >= window + timer
    BY <1>1, Numbers, Bounds
  <2>3. timer' \in Int
    BY <1>1, Numbers
  <2> QED BY <1>1, <2>1, <2>2, <2>3, Numbers DEF Spaced
<1> QED BY <1>5, <1>6, <1>7, <1>8, <1>9, <1>10

-----------------------------------------------------------------------------
(* The theorems.                                                           *)

\* IInv is an invariant (every action of Lifecycle).
THEOREM Invariance == SafeSpec => []IInv
<1>1. Init => IInv
  <2> SUFFICES ASSUME Init PROVE IInv
    OBVIOUS
  <2>1. works \subseteq Parts
    BY DEF Init
  <2>2. /\ 0 \in 0..MaxFaults /\ 1 \in 1..LimitBurst /\ 0 \in 0..LimitInterval + 1
        /\ 0 \in 0..WatchdogSec /\ 0 \in 0..StartTimeout /\ 1 \in 1..Attempts
        /\ 0 \in -Jitter..PingInterval
    BY Bounds
  <2>3. TypeOK
    BY <2>1, <2>2 DEF Init, TypeOK, Startup
  <2>4. Placed /\ Pinged
    BY DEF Init, Placed, Pinged, Startup
  <2>5. AtLeast /\ AtMost
    <3>1. 0 <= Slept(Attempts)
      BY SleptSums, Bounds
    <3> QED BY <3>1 DEF Init, AtLeast, AtMost
  <2>6. Spaced
    <3>1. 1 - 1 = 0
      OBVIOUS
    <3>2. unit = "starting" /\ starts = 1 /\ window = 0
      BY DEF Init
    <3> QED BY <3>1, <3>2, WaitedSums DEF Spaced
  <2> QED BY <2>3, <2>4, <2>5, <2>6 DEF IInv
<1>2. IInv /\ [Next]_vars => IInv'
  <2> SUFFICES ASSUME IInv, [Next]_vars PROVE IInv'
    OBVIOUS
  <2>1. CASE UNCHANGED vars
    <3>1. TypeOK'
      <4>1. UNCHANGED <<works, faults, unit, status, starts, window, dog, age,
                        pc, attempt, timer, linked, wedged, due, advertised,
                        bound, listener, held>>
        BY <2>1, Zenon DEF vars, hostVars, limitVars, netVars
      <4>2. /\ starts' \in 1..LimitBurst /\ window' \in 0..LimitInterval + 1
            /\ dog' \in 0..WatchdogSec /\ age' \in 0..StartTimeout
            /\ attempt' \in 1..Attempts /\ timer' \in Nat
        BY <4>1 DEF IInv, TypeOK
      <4>3. faults' \in 0..MaxFaults /\ due' \in -Jitter..PingInterval
        BY <4>1 DEF IInv, TypeOK
      <4>4. /\ linked' \in BOOLEAN /\ wedged' \in BOOLEAN /\ held' \in BOOLEAN
            /\ advertised' \in BOOLEAN /\ bound' \in BOOLEAN
        BY <4>1, Zenon DEF IInv, TypeOK
      <4> QED BY <4>1, <4>2, <4>3, <4>4 DEF IInv, TypeOK
    <3>2. Placed' /\ Pinged'
      BY <2>1 DEF IInv, Placed, Pinged, vars, netVars
    <3>3. AtLeast' /\ AtMost'
      BY <2>1 DEF IInv, AtLeast, AtMost, vars
    <3>4. Spaced'
      BY <2>1 DEF IInv, Spaced, vars, limitVars
    <3> QED BY <3>1, <3>2, <3>3, <3>4 DEF IInv
  <2>2. CASE Main
    <3>1. CASE AcceptFails
      BY <3>1, ExitKeeps DEF AcceptFails, At
    <3> QED BY <2>2, <3>1, MainKeeps, ServeKeeps DEF Main
  <2>3. CASE Kill
    <3>1. pc # "none"
      BY <2>3 DEF Kill, StartIsLate, WatchdogBites, IInv, Placed, Startup
    <3> QED BY <2>3, <3>1, ExitKeeps DEF Kill
  <2>4. CASE Ping \/ ListenerFails \/ ListenerRetries \/ Environment
    BY <2>4, ServeKeeps, OthersKeep DEF Environment
  <2>5. CASE Restart \/ DropRestart \/ Tick
    BY <2>5, RestartKeeps, DropKeeps, TickKeeps
  <2> QED BY <2>1, <2>2, <2>3, <2>4, <2>5 DEF Next
<1> QED BY <1>1, <1>2, PTL DEF SafeSpec

\* Every variable keeps its type; in particular no lookup is made beyond the
\* last attempt and no time goes past its limit (main, systemd).
THEOREM TypeCorrect == SafeSpec => []TypeOK
<1>1. IInv => TypeOK
  BY DEF IInv
<1> QED BY <1>1, Invariance, PTL

\* The watchdog and the start timeout kill only what is wedged or has been held
\* up in its start, for any WatchdogSec that exceeds half of itself by more than the jitter,
\* and any start timeout above the sleeps of the lookup (the ticker and the
\* loop of main).
THEOREM HealthyAreSpared == SafeSpec => []OnlyTheStuckAreKilled
<1>1. IInv => OnlyTheStuckAreKilled
  <2> SUFFICES ASSUME IInv, StartIsLate \/ WatchdogBites, ~wedged, ~held
               PROVE  FALSE
    BY DEF OnlyTheStuckAreKilled
  <2> USE DEF IInv
  <2>1. CASE StartIsLate
    <3>1. age <= Slept(Attempts) /\ age >= StartTimeout
      BY <2>1 DEF AtMost, StartIsLate
    <3>2. Slept(Attempts) \in Int /\ Slept(Attempts) < StartTimeout
      BY SleptSums, Bounds
    <3> QED BY <3>1, <3>2, Numbers, Bounds
  <2>2. CASE WatchdogBites
    <3>1. dog + due <= PingInterval /\ dog >= WatchdogSec
      BY <2>2 DEF Pinged, Placed, WatchdogBites
    <3> QED BY <3>1, Numbers, Bounds
  <2> QED BY <2>1, <2>2
<1> QED BY <1>1, Invariance, PTL

\* The start limit never stops a restart, for any RestartSec whose multiples by
\* the burst exceed the limit's interval (the unit).
THEOREM RestartsForEver == SafeSpec => []NeverGivenUp
<1>1. IInv => NeverGivenUp
  BY DEF IInv, Spaced, NeverGivenUp
<1> QED BY <1>1, Invariance, PTL

\* An active unit is published, bound and listens (the order of main).
THEOREM ActiveMeansServing == SafeSpec => []ReadyMeansServing
<1>1. IInv => ReadyMeansServing
  BY DEF IInv, Placed, ReadyMeansServing
<1> QED BY <1>1, Invariance, PTL

\* main gives up on the adapter no sooner than after all its sleeps, for any
\* attempts and delay (the lookups of main).
THEOREM BluetoothdIsWaitedFor == SafeSpec => BluetoothdHasItsTime
<1>1. IInv /\ [Next]_vars =>
        [pc = "mac" /\ pc' = "none" => age >= (Attempts - 1) * LookupDelay]_vars
  <2> SUFFICES ASSUME IInv, Next, pc = "mac", pc' = "none"
               PROVE  age >= Slept(Attempts)
    BY DEF Slept
  <2> USE DEF IInv
  <2>1. Main \/ Kill
    <3>1. CASE Ping \/ ListenerFails \/ ListenerRetries \/ Tick
      BY <3>1 DEF Ping, ListenerFails, ListenerRetries, Tick
    <3>2. CASE Restart \/ DropRestart
      BY <3>2 DEF Restart, DropRestart
    <3>3. CASE Environment
      BY <3>3 DEF Environment, Break, Mend, Wedge
    <3> QED BY <3>1, <3>2, <3>3 DEF Next
  <2>2. CASE Main
    <3>1. ReadMac
      BY <2>2 DEF Main, ConnectBus, LookUpAgain, SpawnSupervisor, RegisterMdns,
                  Bind, Serve, AcceptFails, At
    <3>2. attempt = Attempts
      BY <3>1 DEF ReadMac
    <3> QED BY <3>2 DEF AtLeast
  <2>3. CASE Kill
    <3>1. unit = "starting" /\ age >= StartTimeout
      BY <2>3 DEF Kill, StartIsLate, WatchdogBites, Placed, Startup
    <3>2. Slept(Attempts) \in Int /\ Slept(Attempts) < StartTimeout
      BY SleptSums, Bounds
    <3> QED BY <3>1, <3>2, Numbers, Bounds
  <2> QED BY <2>1, <2>2, <2>3
<1> QED BY <1>1, Invariance, PTL DEF SafeSpec, BluetoothdHasItsTime
=============================================================================
