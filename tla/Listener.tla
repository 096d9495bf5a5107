------------------------------ MODULE Listener ------------------------------
(***************************************************************************)
(* The BLE listener (src/ble.rs): run_supervised, which runs it for ever,  *)
(* and run_bluez_advertisement_listener, which connects to the system bus, *)
(* subscribes to three kinds of signals, has BlueZ discover and turns      *)
(* signals about devices into adverts.                                     *)
(*                                                                         *)
(* BlueZ and the bus are external.  The adapter is "on", "off" or "gone";  *)
(* a device BlueZ knows has properties, abstracted to a version that every *)
(* sighting increases; each of the three message streams is a queue.       *)
(* While the listener awaits a method call no stream is polled.            *)
(***************************************************************************)
EXTENDS Integers, Sequences, FiniteSets, FiniteSetsExt

CONSTANTS
  Device,        \* BLE devices
  Faults,        \* what may go wrong: see the environment's actions
  MaxBackoff,    \* MAX_BACKOFF, in units of INITIAL_BACKOFF
  MaxStreak,     \* bound: failures in a row that are told apart
  MaxSightings,  \* bound: sightings of one device
  MaxQueue       \* bound: adapter signals waiting at once

NoDevice == "none"

\* The n-th power of two: what n doublings make of one unit.
Doublings[n \in Nat] == IF n = 0 THEN 1 ELSE 2 * Doublings[n - 1]

ASSUME ListenerAssumption ==
  /\ NoDevice \notin Device
  /\ Faults \subseteq {"power", "scan", "bus", "crash", "forget"}
  /\ MaxBackoff \in Nat \ {0}
  /\ MaxStreak \in Nat /\ Doublings[MaxStreak] >= MaxBackoff
  /\ MaxSightings \in Nat
  /\ MaxQueue \in Nat

VARIABLES
  adapter,   \* hciN: "on", "off" or "gone"
  bus,       \* the system bus: "up" or "down"
  session,   \* BlueZ discovers on behalf of our connection
  filtered,  \* BlueZ has a filter of our connection, with DuplicateData
  known,     \* devices BlueZ has objects for
  ver,       \* version of each device's properties
  phase,     \* where the listener or its supervisor is
  conn,      \* the listener's connection: "none", "ok" or "broken"
  matched,   \* how many of the three streams are set up, in order
  adapterq,  \* values of Discovering on adapter_stream
  propsq,    \* devices on props_stream
  ifaceq,    \* objects and their versions on iface_stream
  reading,   \* device whose properties are being fetched
  out,       \* adverts sent to the broadcast channel
  backoff,
  long,      \* this run has lasted HEALTHY_RUN_THRESHOLD
  streak,    \* history: short runs that failed since the last long one
  owed,      \* history: version of the last signal queued for each device
  died,      \* history: bluetoothd has died since this run began
  lapse      \* history: the adapter was lost after the filter was last set
             \* and before discovery was asked for

filterVars   == <<filtered, lapse>>
bluezVars    == <<adapter, bus, session, known, ver, filterVars>>
streamVars   == <<conn, matched, adapterq, propsq, ifaceq>>
runVars      == <<long, died>>
listenerVars == <<phase, reading, out, backoff, runVars>>
vars == <<bluezVars, streamVars, listenerVars, streak, owed>>

Phases == {"connect", "match", "filter", "scan", "select", "getall", "sleep"}

TypeOK ==
  /\ adapter \in {"on", "off", "gone"}
  /\ bus \in {"up", "down"}
  /\ session \in BOOLEAN
  /\ filtered \in BOOLEAN
  /\ known \subseteq Device
  /\ ver \in [Device -> 0..MaxSightings]
  /\ phase \in Phases
  /\ conn \in {"none", "ok", "broken"}
  /\ matched \in 0..3
  /\ adapterq \in Seq(BOOLEAN)
  /\ propsq \in Seq(Device)
  /\ ifaceq \in Seq([dev : Device \union {NoDevice}, ver : 0..MaxSightings])
  /\ reading \in Device \union {NoDevice}
  /\ out \in Seq([dev : Device, ver : 1..MaxSightings, src : {"get", "added"}])
  /\ backoff \in 1..MaxBackoff
  /\ long \in BOOLEAN
  /\ died \in BOOLEAN
  /\ streak \in 0..MaxStreak
  /\ owed \in [Device -> 0..MaxSightings]
  /\ lapse \in BOOLEAN

Init ==
  /\ adapter \in {"on", "off", "gone"}
  /\ bus = "up"
  /\ session = FALSE
  /\ filtered = FALSE
  /\ known = {}
  /\ ver = [d \in Device |-> 0]
  /\ phase = "connect"
  /\ conn = "none"
  /\ matched = 0
  /\ adapterq = <<>> /\ propsq = <<>> /\ ifaceq = <<>>
  /\ reading = NoDevice
  /\ out = <<>>
  /\ backoff = 1
  /\ long = FALSE /\ died = FALSE
  /\ streak = 0
  /\ owed = [d \in Device |-> 0]
  /\ lapse = FALSE

-----------------------------------------------------------------------------
(* BlueZ and the bus                                                       *)

Hears(stream) == conn = "ok" /\ matched >= stream
Emit(q, stream, signal) == IF Hears(stream) THEN Append(q, signal) ELSE q

NothingOwed == [d \in Device |-> 0]

\* A device is seen: a new one is announced with its properties, a change of
\* a known one is only signalled.
Sight(d) ==
  /\ adapter = "on"
  /\ ver[d] < MaxSightings
  /\ ver' = [ver EXCEPT ![d] = @ + 1]
  /\ known' = known \union {d}
  /\ IF d \in known
     THEN /\ propsq' = Emit(propsq, 2, d)
          /\ owed' = IF Hears(2) THEN [owed EXCEPT ![d] = ver'[d]] ELSE owed
          /\ UNCHANGED ifaceq
     ELSE /\ ifaceq' = Emit(ifaceq, 3, [dev |-> d, ver |-> ver'[d]])
          /\ owed' = IF Hears(3) THEN [owed EXCEPT ![d] = ver'[d]] ELSE owed
          /\ UNCHANGED propsq
  /\ UNCHANGED <<adapter, bus, session, filterVars, conn, matched, adapterq,
                 listenerVars, streak>>

\* BlueZ drops a device that has not been seen for a while.
Forget(d) ==
  /\ "forget" \in Faults
  /\ d \in known
  /\ known' = known \ {d}
  /\ owed' = [owed EXCEPT ![d] = 0]
  /\ UNCHANGED <<adapter, bus, session, filterVars, ver, streamVars,
                 listenerVars, streak>>

\* The adapter is lost to the listener, and BlueZ drops the filter with it.
LoseFilter ==
  /\ filtered' = FALSE
  /\ lapse' = (lapse \/ phase = "scan")

\* The adapter is switched off, which ends every discovery, or on.
PowerOff ==
  /\ "power" \in Faults
  /\ adapter = "on"
  /\ Len(adapterq) < MaxQueue
  /\ adapter' = "off"
  /\ session' = FALSE
  /\ LoseFilter
  /\ adapterq' = IF session THEN Emit(adapterq, 1, FALSE) ELSE adapterq
  /\ UNCHANGED <<bus, known, ver, conn, matched, propsq, ifaceq, listenerVars,
                 streak, owed>>

PowerOn ==
  /\ adapter = "off"
  /\ adapter' = "on"
  /\ UNCHANGED <<bus, session, filterVars, known, ver, streamVars, listenerVars,
                 streak, owed>>

\* Discovering turns false although the sessions last: BlueZ pauses between
\* scans, or the signal is one of another adapter, which the rule lets in.
ScanPauses ==
  /\ "scan" \in Faults
  /\ Len(adapterq) < MaxQueue
  /\ adapterq' = Emit(adapterq, 1, FALSE)
  /\ UNCHANGED <<bluezVars, conn, matched, propsq, ifaceq, listenerVars,
                 streak, owed>>

\* bluetoothd dies and takes objects and sessions with it; nobody is left to
\* signal that.  Activated again, it announces the adapter.
BluezCrash ==
  /\ "crash" \in Faults
  /\ adapter # "gone"
  /\ adapter' = "gone"
  /\ session' = FALSE
  /\ LoseFilter
  /\ known' = {}
  /\ owed' = NothingOwed
  /\ died' = TRUE
  /\ UNCHANGED <<bus, ver, streamVars, phase, reading, out, backoff, long,
                 streak>>

BluezStarts ==
  /\ adapter = "gone"
  /\ Len(ifaceq) < MaxQueue
  /\ adapter' \in {"on", "off"}
  /\ ifaceq' = Emit(ifaceq, 3, [dev |-> NoDevice, ver |-> 0])
  /\ UNCHANGED <<bus, session, filterVars, known, ver, conn, matched, adapterq,
                 propsq, listenerVars, streak, owed>>

\* The bus goes away and breaks the connection; BlueZ forgets its client.
BusLost ==
  /\ "bus" \in Faults
  /\ bus = "up"
  /\ bus' = "down"
  /\ conn' = IF conn = "ok" THEN "broken" ELSE conn
  /\ session' = FALSE
  /\ filtered' = FALSE
  /\ owed' = NothingOwed
  /\ UNCHANGED <<adapter, known, ver, lapse, matched, adapterq, propsq, ifaceq,
                 listenerVars, streak>>

BusReturns ==
  /\ bus = "down"
  /\ bus' = "up"
  /\ UNCHANGED <<adapter, session, filterVars, known, ver, streamVars,
                 listenerVars, streak, owed>>

Environment ==
  \/ \E d \in Device : Sight(d) \/ Forget(d)
  \/ PowerOff \/ PowerOn \/ ScanPauses
  \/ BluezCrash \/ BluezStarts
  \/ BusLost \/ BusReturns

-----------------------------------------------------------------------------
(* run_supervised                                                          *)

\* Mutant: a run that lasted does not reset the backoff.
FailKeepsBackoff ==
  /\ phase' = "sleep"
  /\ streak' = IF long THEN 0 ELSE streak
  /\ conn' = "none"
  /\ matched' = 0
  /\ adapterq' = <<>> /\ propsq' = <<>> /\ ifaceq' = <<>>
  /\ session' = FALSE
  /\ filtered' = FALSE
  /\ reading' = NoDevice
  /\ owed' = NothingOwed
  /\ UNCHANGED <<adapter, bus, known, ver, lapse, out, backoff, runVars>>

\* The listener returns: its connection and streams are dropped, and with the
\* connection BlueZ drops our session and filter.  A run that lasted resets the
\* backoff before it is waited for.
Fail ==
  /\ phase' = "sleep"
  /\ backoff' = IF long THEN 1 ELSE backoff
  /\ streak' = IF long THEN 0 ELSE streak
  /\ conn' = "none"
  /\ matched' = 0
  /\ adapterq' = <<>> /\ propsq' = <<>> /\ ifaceq' = <<>>
  /\ session' = FALSE
  /\ filtered' = FALSE
  /\ reading' = NoDevice
  /\ owed' = NothingOwed
  /\ UNCHANGED <<adapter, bus, known, ver, lapse, out, runVars>>

\* Mutant: the doubling is not capped.
WakeUpUncapped ==
  /\ phase = "sleep"
  /\ phase' = "connect"
  /\ backoff' = 2 * backoff
  /\ streak' = Min({streak + 1, MaxStreak})
  /\ long' = FALSE /\ died' = FALSE
  /\ UNCHANGED <<bluezVars, streamVars, reading, out, owed>>

\* tokio::time::sleep(backoff) is over: the backoff doubles and a new run starts.
WakeUp ==
  /\ phase = "sleep"
  /\ phase' = "connect"
  /\ backoff' = Min({2 * backoff, MaxBackoff})
  /\ streak' = Min({streak + 1, MaxStreak})
  /\ long' = FALSE /\ died' = FALSE
  /\ UNCHANGED <<bluezVars, streamVars, reading, out, owed>>

\* HEALTHY_RUN_THRESHOLD has passed since the run started.
RunLasts ==
  /\ phase # "sleep"
  /\ ~long
  /\ long' = TRUE
  /\ UNCHANGED <<bluezVars, streamVars, phase, reading, out, backoff, died,
                 streak, owed>>

-----------------------------------------------------------------------------
(* run_bluez_advertisement_listener: setting up                            *)

\* Connection::system()
Connect ==
  /\ phase = "connect"
  /\ \/ /\ bus = "up"
        /\ conn' = "ok"
        /\ phase' = "match"
        /\ UNCHANGED <<bluezVars, matched, adapterq, propsq, ifaceq, reading,
                       out, backoff, runVars, streak, owed>>
     \/ bus = "down" /\ Fail

\* Mutant: discovery is started before iface_stream is set up.
AddMatchTwoOnly ==
  /\ phase = "match"
  /\ \/ /\ conn = "ok"
        /\ matched' = matched + 1
        /\ phase' = IF matched' = 2 THEN "filter" ELSE "match"
        /\ UNCHANGED <<bluezVars, conn, adapterq, propsq, ifaceq, reading, out,
                       backoff, runVars, streak, owed>>
     \/ conn = "broken" /\ Fail

\* MessageStream::for_match_rule, for adapter_stream, props_stream and
\* iface_stream in turn.
AddMatch ==
  /\ phase = "match"
  /\ \/ /\ conn = "ok"
        /\ matched' = matched + 1
        /\ phase' = IF matched' = 3 THEN "filter" ELSE "match"
        /\ UNCHANGED <<bluezVars, conn, adapterq, propsq, ifaceq, reading, out,
                       backoff, runVars, streak, owed>>
     \/ conn = "broken" /\ Fail

\* try_start_discovery, before the loop or in it: the filter, which asks for
\* every advertisement and not only for new ones.  An adapter that is off may
\* refuse it; one that is gone, and a broken connection, end the run.
SetDiscoveryFilter ==
  /\ phase = "filter"
  /\ \/ /\ conn = "ok" /\ adapter # "gone"
        /\ filtered' = TRUE
        /\ lapse' = FALSE
        /\ phase' = "scan"
        /\ UNCHANGED <<adapter, bus, session, known, ver, streamVars, reading,
                       out, backoff, runVars, streak, owed>>
     \/ (conn = "broken" \/ adapter # "on") /\ Fail

\* try_start_discovery: InProgress, the answer to a connection that has a
\* session, is as good as success; UnknownObject, NotReady and a broken
\* connection are errors that end the run.
StartDiscovery ==
  /\ phase = "scan"
  /\ \/ /\ conn = "ok" /\ adapter = "on"
        /\ session' = TRUE
        /\ adapterq' = IF session THEN adapterq ELSE Append(adapterq, TRUE)
        /\ phase' = "select"
        /\ UNCHANGED <<adapter, bus, filterVars, known, ver, conn, matched,
                       propsq, ifaceq, reading, out, backoff, runVars, streak,
                       owed>>
     \/ (conn = "broken" \/ adapter # "on") /\ Fail

-----------------------------------------------------------------------------
(* run_bluez_advertisement_listener: the select! loop                      *)

\* Mutant: the end of a discovery is only logged.
AdapterSignalLogged ==
  /\ phase = "select"
  /\ adapterq # <<>>
  /\ adapterq' = Tail(adapterq)
  /\ UNCHANGED <<bluezVars, conn, matched, propsq, ifaceq, phase, reading, out,
                 backoff, runVars, streak, owed>>

\* Mutant: the filter of the first time is thought to last.
AdapterSignalUnfiltered ==
  /\ phase = "select"
  /\ adapterq # <<>>
  /\ adapterq' = Tail(adapterq)
  /\ phase' = IF Head(adapterq) THEN "select" ELSE "scan"
  /\ UNCHANGED <<bluezVars, conn, matched, propsq, ifaceq, reading, out,
                 backoff, runVars, streak, owed>>

\* The adapter_stream branch: only Discovering turning false matters.
AdapterSignal ==
  /\ phase = "select"
  /\ adapterq # <<>>
  /\ adapterq' = Tail(adapterq)
  /\ phase' = IF Head(adapterq) THEN "select" ELSE "filter"
  /\ UNCHANGED <<bluezVars, conn, matched, propsq, ifaceq, reading, out,
                 backoff, runVars, streak, owed>>

\* The props_stream branch: the properties are fetched, not taken from the
\* signal.
PropsSignal ==
  /\ phase = "select"
  /\ propsq # <<>>
  /\ propsq' = Tail(propsq)
  /\ reading' = Head(propsq)
  /\ phase' = "getall"
  /\ UNCHANGED <<bluezVars, conn, matched, adapterq, ifaceq, out, backoff,
                 runVars, streak, owed>>

\* Mutant: the properties are the ones cached when the device was first seen.
GetAllCached ==
  /\ phase = "getall"
  /\ out' = IF conn = "ok" /\ reading \in known
            THEN Append(out, [dev |-> reading, ver |-> 1, src |-> "get"])
            ELSE out
  /\ reading' = NoDevice
  /\ phase' = "select"
  /\ UNCHANGED <<bluezVars, streamVars, backoff, runVars, streak, owed>>

\* GetAll returns, and the advert is built and sent; an error is only logged.
GetAll ==
  /\ phase = "getall"
  /\ out' = IF conn = "ok" /\ reading \in known
            THEN Append(out, [dev |-> reading, ver |-> ver[reading],
                              src |-> "get"])
            ELSE out
  /\ reading' = NoDevice
  /\ phase' = "select"
  /\ UNCHANGED <<bluezVars, streamVars, backoff, runVars, streak, owed>>

\* Mutant: a new device is not worth an advert before its properties change.
IfaceSignalDropped ==
  /\ phase = "select"
  /\ ifaceq # <<>>
  /\ ifaceq' = Tail(ifaceq)
  /\ UNCHANGED <<bluezVars, conn, matched, adapterq, propsq, phase, reading,
                 out, backoff, runVars, streak, owed>>

\* The iface_stream branch: the advert is built from the properties in the
\* signal; an object without org.bluez.Device1 is ignored.
IfaceSignal ==
  /\ phase = "select"
  /\ ifaceq # <<>>
  /\ ifaceq' = Tail(ifaceq)
  /\ out' = IF Head(ifaceq).dev \in Device
            THEN Append(out, [dev |-> Head(ifaceq).dev,
                              ver |-> Head(ifaceq).ver, src |-> "added"])
            ELSE out
  /\ UNCHANGED <<bluezVars, conn, matched, adapterq, propsq, phase, reading,
                 backoff, runVars, streak, owed>>

\* The connection's error reaches the end of props_stream or iface_stream and
\* `?' returns it.  At the end of adapter_stream it is ignored.
StreamError ==
  /\ phase = "select"
  /\ conn = "broken"
  /\ propsq = <<>> \/ ifaceq = <<>>
  /\ Fail

Listener ==
  \/ Connect \/ AddMatch \/ SetDiscoveryFilter \/ StartDiscovery
  \/ AdapterSignal \/ PropsSignal \/ GetAll \/ IfaceSignal \/ StreamError

Next == Environment \/ RunLasts \/ WakeUp \/ Listener

SafeSpec == Init /\ [][Next]_vars

\* The supervisor's task and its timer run; select! polls its branches in
\* random order, which starves none.  The environment owes nothing.
Fairness ==
  /\ WF_vars(WakeUp)
  /\ WF_vars(Connect)
  /\ WF_vars(AddMatch)
  /\ WF_vars(SetDiscoveryFilter)
  /\ WF_vars(StartDiscovery)
  /\ WF_vars(GetAll)
  /\ SF_vars(AdapterSignal)
  /\ SF_vars(PropsSignal)
  /\ SF_vars(IfaceSignal)
  /\ SF_vars(StreamError)

Spec == SafeSpec /\ Fairness
=============================================================================
