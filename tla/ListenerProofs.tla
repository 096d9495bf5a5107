--------------------------- MODULE ListenerProofs ---------------------------
(***************************************************************************)
(* Proofs about Listener, for any devices, faults and bounds.              *)
(*                                                                         *)
(* IInv is inductive.  Ready says what every phase of a run has set up;    *)
(* Dated that no advert, sent or queued, is newer than its device;         *)
(* Answered that a signal which is still owed is on its way: queued, being *)
(* fetched, or sent.                                                       *)
(***************************************************************************)
EXTENDS ListenerProperties, Induction

\* What is set up in which phase, and that BlueZ discovers for us no earlier.
Ready ==
  /\ (conn = "none") = (phase \in {"connect", "sleep"})
  /\ conn = "none" => matched = 0
  /\ phase = "match" => matched < 3
  /\ phase \in {"filter", "scan", "select", "getall"} => matched = 3
  /\ (reading # NoDevice) => phase = "getall"
  /\ phase = "getall" => reading \in Device
  /\ session => conn = "ok" /\ matched = 3
  /\ session => filtered \/ lapse
  /\ phase = "scan" => filtered \/ lapse \/ conn = "broken"

\* No advert is newer than the properties of its device.
Dated ==
  /\ \A d \in known : ver[d] >= 1
  /\ \A i \in 1..Len(out) : out[i].ver <= ver[out[i].dev]
  /\ \A i \in 1..Len(ifaceq) :
       ifaceq[i].dev \in Device => /\ ifaceq[i].ver <= ver[ifaceq[i].dev]
                                   /\ ifaceq[i].ver >= 1

\* The state v of device d, or a newer one, is sent or on its way.
Sent(d, v)   == \E i \in 1..Len(out) : out[i].dev = d /\ out[i].ver >= v
Queued(d, v) == \/ \E i \in 1..Len(propsq) : propsq[i] = d
                \/ \E i \in 1..Len(ifaceq) :
                     ifaceq[i].dev = d /\ ifaceq[i].ver >= v
OnItsWay(d, v) == Sent(d, v) \/ Queued(d, v) \/ reading = d

Owing ==
  \A d \in Device : owed[d] > 0 =>
    /\ conn = "ok"
    /\ d \in known
    /\ owed[d] <= ver[d]
    /\ OnItsWay(d, owed[d])

\* What is said of the adverts and of the signals.
Data == Dated /\ FetchedNeverGoesBack /\ Owing

IInv == TypeOK /\ Ready /\ Data
-----------------------------------------------------------------------------
\* The smaller of two numbers.
LEMMA MinOfTwo ==
  ASSUME NEW a \in Int, NEW b \in Int
  PROVE  Min({a, b}) = IF a <= b THEN a ELSE b
BY DEF Min

\* What is used of the constants.
LEMMA Bounds ==
  /\ NoDevice \notin Device
  /\ MaxBackoff \in Nat \ {0}
  /\ MaxStreak \in Nat
  /\ MaxSightings \in Nat
BY ListenerAssumption

Advert == [dev : Device, ver : 1..MaxSightings, src : {"get", "added"}]

\* The adverts in the channel name a device and a version.
LEMMA AdvertFields ==
  ASSUME NEW q \in Seq(Advert), NEW i \in 1..Len(q)
  PROVE  /\ q[i].dev \in Device
         /\ q[i].ver \in Nat
<1>1. q[i] \in Advert
  OBVIOUS
<1> QED BY <1>1, Bounds DEF Advert

\* Queues that signals join and leave.
LEMMA QueueType ==
  ASSUME NEW S, NEW q \in Seq(S)
  PROVE  /\ \A e \in S : Append(q, e) \in Seq(S)
         /\ q # <<>> => Tail(q) \in Seq(S) /\ Head(q) \in S
OBVIOUS

\* What a queue holds after its first signal has been taken.
LEMMA Taken ==
  ASSUME NEW S, NEW q \in Seq(S), q # <<>>, NEW r, r = Tail(q)
  PROVE  /\ \A i \in 1..Len(r) : i + 1 \in 1..Len(q) /\ r[i] = q[i + 1]
         /\ \A i \in 1..Len(q) :
              q[i] = Head(q) \/ \E j \in 1..Len(r) : r[j] = q[i]
         /\ 1 \in 1..Len(q) /\ q[1] = Head(q)
<1>1. \A i \in 1..Len(r) : i + 1 \in 1..Len(q) /\ r[i] = q[i + 1]
  OBVIOUS
<1>2. 1 \in 1..Len(q) /\ q[1] = Head(q)
  OBVIOUS
<1>3. ASSUME NEW i \in 1..Len(q), i # 1
      PROVE  \E j \in 1..Len(r) : r[j] = q[i]
  <2>1. i - 1 \in 1..Len(r) /\ r[i - 1] = q[i]
    BY <1>3
  <2> QED BY <2>1
<1> QED BY <1>1, <1>2, <1>3

\* What a queue holds after a signal has joined it.
LEMMA Joined ==
  ASSUME NEW S, NEW q \in Seq(S), NEW e \in S, NEW r, r = Append(q, e)
  PROVE  /\ \A i \in 1..Len(r) : (i \in 1..Len(q) /\ r[i] = q[i]) \/ r[i] = e
         /\ \A i \in 1..Len(q) : i \in 1..Len(r) /\ r[i] = q[i]
         /\ Len(r) \in 1..Len(r) /\ r[Len(r)] = e
OBVIOUS

-----------------------------------------------------------------------------
(* Steps that touch neither adverts nor what is signalled of devices.      *)

dataVars == <<known, ver, propsq, ifaceq, reading, out, owed>>

\* Such steps keep what is said of the data, unless the connection breaks.
LEMMA DataKept ==
  ASSUME Data, UNCHANGED dataVars, conn = "ok" => conn' = "ok"
  PROVE  Data'
<1> USE DEF dataVars
<1>1. Dated'
  BY DEF Data, Dated
<1>2. FetchedNeverGoesBack'
  BY DEF Data, FetchedNeverGoesBack
<1>3. Owing'
  BY DEF Data, Owing, OnItsWay, Sent, Queued
<1> QED BY <1>1, <1>2, <1>3 DEF Data

\* The end of a run drops the streams with all they held, and what was owed
\* with them (`?' in run_bluez_advertisement_listener).
LEMMA FailKeeps ==
  ASSUME IInv, Fail, phase # "sleep"
  PROVE  IInv'
<1> USE DEF IInv
<1>1. TypeOK'
  <2>1. owed' \in [Device -> 0..MaxSightings]
    BY Bounds DEF Fail, NothingOwed
  <2>2. backoff' \in 1..MaxBackoff /\ streak' \in 0..MaxStreak
    BY Bounds DEF Fail, TypeOK
  <2>3. adapterq' \in Seq(BOOLEAN) /\ propsq' \in Seq(Device)
    BY DEF Fail
  <2>4. ifaceq' \in Seq([dev : Device \union {NoDevice},
                         ver : 0..MaxSightings])
    BY DEF Fail
  <2>5. phase' \in Phases /\ matched' \in 0..3
    BY DEF Fail, Phases
  <2> QED BY <2>1, <2>2, <2>3, <2>4, <2>5 DEF TypeOK, Fail, runVars
<1>2. Ready'
  BY DEF Fail, Ready, TypeOK
<1>3. Dated'
  BY DEF Fail, Data, Dated
<1>4. FetchedNeverGoesBack'
  BY DEF Fail, Data, FetchedNeverGoesBack
<1>5. Owing'
  BY DEF Fail, Owing, NothingOwed
<1> QED BY <1>1, <1>2, <1>3, <1>4, <1>5 DEF Data
\* The adapter's ups and downs, and a bus that returns.
LEMMA AdapterKeeps ==
  ASSUME IInv, PowerOff \/ PowerOn \/ ScanPauses \/ BusReturns
  PROVE  IInv'
<1> USE DEF IInv, bluezVars, filterVars, streamVars, listenerVars, runVars
<1>1. UNCHANGED dataVars /\ conn' = conn
  BY DEF PowerOff, PowerOn, ScanPauses, BusReturns, dataVars
<1>2. Data'
  BY <1>1, DataKept
<1>3. adapterq' \in Seq(BOOLEAN)
  <2>1. adapterq' = adapterq \/ adapterq' = Append(adapterq, FALSE)
    BY Zenon DEF PowerOff, PowerOn, ScanPauses, BusReturns, Emit
  <2>2. adapterq \in Seq(BOOLEAN)
    BY DEF TypeOK
  <2> QED BY <2>1, <2>2, QueueType, Zenon
<1>4. TypeOK'
  <2>1. UNCHANGED <<phase, reading, out, backoff, runVars, matched, propsq,
                    streak>>
    BY DEF PowerOff, PowerOn, ScanPauses, BusReturns
  <2>2. /\ adapter' \in {"on", "off", "gone"} /\ bus' \in {"up", "down"}
        /\ session' \in BOOLEAN /\ filtered' \in BOOLEAN
        /\ lapse' \in BOOLEAN
    BY DEF TypeOK, PowerOff, PowerOn, ScanPauses, BusReturns, LoseFilter
  <2> QED BY <1>1, <1>3, <2>1, <2>2 DEF TypeOK, dataVars
<1>5. Ready'
  BY <1>1 DEF Ready, TypeOK, dataVars, PowerOff, PowerOn, ScanPauses, BusReturns,
                  LoseFilter
<1> QED BY <1>2, <1>4, <1>5

\* Waking up and lasting: the backoff never exceeds the cap (the doubling in
\* run_supervised).
LEMMA TimersKeep ==
  ASSUME IInv, WakeUp \/ RunLasts
  PROVE  IInv'
<1> USE DEF IInv, bluezVars, filterVars, streamVars
<1>1. UNCHANGED dataVars /\ conn' = conn
  BY DEF WakeUp, RunLasts, dataVars
<1>2. Data'
  BY <1>1, DataKept
<1>3. backoff' \in 1..MaxBackoff /\ streak' \in 0..MaxStreak
  <2>1. CASE WakeUp
    <3>1. 2 * backoff \in Int /\ streak + 1 \in Int
      BY Bounds DEF TypeOK
    <3>2. /\ backoff' = IF 2 * backoff <= MaxBackoff THEN 2 * backoff
                                                   ELSE MaxBackoff
          /\ streak' = IF streak + 1 <= MaxStreak THEN streak + 1
                                                 ELSE MaxStreak
      BY <2>1, <3>1, MinOfTwo, Bounds DEF WakeUp
    <3> QED BY <3>2, Bounds DEF TypeOK
  <2>2. CASE RunLasts
    BY <2>2 DEF RunLasts, TypeOK
  <2> QED BY <2>1, <2>2
<1>4. TypeOK'
  <2>1. /\ UNCHANGED <<adapter, bus, session, filtered, lapse, matched, adapterq>>
        /\ phase' = phase \/ phase' = "connect"
        /\ long' = FALSE \/ long' = TRUE
        /\ died' = died \/ died' = FALSE
    BY DEF WakeUp, RunLasts
  <2>2. phase' \in Phases /\ long' \in BOOLEAN /\ died' \in BOOLEAN
    BY <2>1 DEF TypeOK, Phases
  <2> HIDE DEF bluezVars, filterVars, streamVars
  <2> QED BY <1>1, <1>3, <2>1, <2>2 DEF TypeOK, dataVars
<1>5. Ready'
  BY <1>1 DEF Ready, TypeOK, dataVars, WakeUp, RunLasts
<1> QED BY <1>2, <1>4, <1>5

\* Setting a run up, and the signals about the adapter: discovery starts only
\* once the third stream is there (try_start_discovery and its callers).
LEMMA SetupKeeps ==
  ASSUME IInv, Connect \/ AddMatch \/ SetDiscoveryFilter \/ StartDiscovery
               \/ AdapterSignal
  PROVE  IInv'
<1> USE DEF IInv, bluezVars
<1>1. CASE Fail
  <2>1. phase # "sleep"
    BY Zenon DEF Connect, AddMatch, SetDiscoveryFilter, StartDiscovery,
                 AdapterSignal
  <2> QED BY <1>1, <2>1, FailKeeps
<1>2. CASE ~Fail
  <2>1. UNCHANGED dataVars /\ (conn = "ok" => conn' = "ok")
    <3>1. CASE SetDiscoveryFilter
      BY <1>2, <3>1, Zenon DEF dataVars, SetDiscoveryFilter, streamVars
    <3>2. CASE Connect \/ AddMatch \/ StartDiscovery \/ AdapterSignal
      BY <1>2, <3>2, Zenon DEF dataVars, Connect, AddMatch, StartDiscovery,
                               AdapterSignal
    <3> QED BY <3>1, <3>2
  <2>2. Data'
    BY <2>1, DataKept
  <2>3. adapterq' \in Seq(BOOLEAN)
    <3>1. \/ adapterq' = adapterq
          \/ adapterq' = Append(adapterq, TRUE)
          \/ adapterq # <<>> /\ adapterq' = Tail(adapterq)
      <4>1. CASE SetDiscoveryFilter
        BY <1>2, <4>1, Zenon DEF SetDiscoveryFilter, streamVars
      <4>2. CASE Connect \/ AddMatch \/ StartDiscovery \/ AdapterSignal
        BY <1>2, <4>2, Zenon DEF Connect, AddMatch, StartDiscovery,
                                 AdapterSignal
      <4> QED BY <4>1, <4>2
    <3>2. adapterq \in Seq(BOOLEAN)
      BY DEF TypeOK
    <3> QED BY <3>1, <3>2, QueueType, Zenon
  <2>4. /\ phase' \in Phases
        /\ matched' \in 0..3
        /\ conn' \in {"none", "ok", "broken"}
        /\ session' \in BOOLEAN
        /\ filtered' \in BOOLEAN /\ lapse' \in BOOLEAN
        /\ Ready'
    <3>1. CASE Connect
      <4>1. /\ phase = "connect" /\ phase' = "match"
            /\ conn' = "ok"
            /\ matched' = matched /\ session' = session /\ reading' = reading
            /\ filterVars' = filterVars
        BY <1>2, <3>1, Zenon DEF Connect
      <4> QED BY <4>1 DEF TypeOK, Phases, Ready, filterVars
    <3>2. CASE AddMatch
      <4>1. /\ phase = "match"
            /\ phase' = IF matched' = 3 THEN "filter" ELSE "match"
            /\ conn' = conn
            /\ matched' = matched + 1
            /\ session' = session /\ reading' = reading
            /\ filterVars' = filterVars
        BY <1>2, <3>2, Zenon DEF AddMatch
      <4> QED BY <4>1 DEF TypeOK, Phases, Ready, filterVars
    <3>3. CASE SetDiscoveryFilter
      <4>1. /\ phase = "filter" /\ phase' = "scan"
            /\ conn = "ok" /\ conn' = conn
            /\ matched' = matched /\ session' = session /\ reading' = reading
            /\ filtered' = TRUE /\ lapse' = FALSE
        BY <1>2, <3>3, Zenon DEF SetDiscoveryFilter, streamVars
      <4>2. filtered' \in BOOLEAN /\ lapse' \in BOOLEAN /\ filtered'
        BY <4>1, Zenon
      <4>3. phase' \in Phases /\ Ready'
        BY <4>1, <4>2 DEF TypeOK, Phases, Ready
      <4> QED BY <4>1, <4>2, <4>3 DEF TypeOK
    <3>4. CASE StartDiscovery
      <4>1. /\ phase = "scan" /\ phase' = "select"
            /\ conn = "ok" /\ conn' = conn
            /\ matched' = matched /\ session' = TRUE /\ reading' = reading
            /\ filterVars' = filterVars
        BY <1>2, <3>4, Zenon DEF StartDiscovery
      <4> QED BY <4>1 DEF TypeOK, Phases, Ready, filterVars
    <3>5. CASE AdapterSignal
      <4>1. /\ phase = "select" /\ phase' \in {"select", "filter"}
            /\ conn' = conn
            /\ matched' = matched /\ session' = session /\ reading' = reading
            /\ filterVars' = filterVars
        BY <3>5, Zenon DEF AdapterSignal
      <4> QED BY <4>1 DEF TypeOK, Phases, Ready, filterVars
    <3> QED BY <3>1, <3>2, <3>3, <3>4, <3>5
  <2>5. TypeOK'
    <3>1. UNCHANGED <<adapter, bus, backoff, long, died, streak>>
      BY <1>2, Zenon DEF Connect, AddMatch, SetDiscoveryFilter,
                         StartDiscovery, AdapterSignal, runVars
    <3> QED BY <2>1, <2>3, <2>4, <3>1 DEF TypeOK, dataVars
  <2> QED BY <2>2, <2>4, <2>5
<1> QED BY <1>1, <1>2
-----------------------------------------------------------------------------
(* What BlueZ and the bus do to devices and signals.                       *)

\* When nothing is owed, the data need only stay dated.
LEMMA NothingOwedKept ==
  ASSUME Data, owed' = NothingOwed, known' \subseteq known,
         UNCHANGED <<ver, out, ifaceq>>
  PROVE  Data'
<1>1. Dated'
  BY DEF Data, Dated
<1>2. FetchedNeverGoesBack'
  BY DEF Data, FetchedNeverGoesBack
<1>3. Owing'
  BY DEF Owing, NothingOwed
<1> QED BY <1>1, <1>2, <1>3 DEF Data

\* bluetoothd dies, or the bus does: with the signals goes the debt.
LEMMA LossKeeps ==
  ASSUME IInv, BluezCrash \/ BusLost
  PROVE  IInv'
<1> USE DEF IInv
<1>1. Data'
  <2>1. owed' = NothingOwed /\ known' \subseteq known
    BY DEF BluezCrash, BusLost
  <2>2. UNCHANGED <<ver, out, ifaceq>>
    BY DEF BluezCrash, BusLost, streamVars, listenerVars, runVars
  <2> QED BY <2>1, <2>2, NothingOwedKept
<1>2. UNCHANGED <<adapterq, propsq, ifaceq, ver, phase, reading, out, backoff,
                  long, matched, streak>>
  BY DEF BluezCrash, BusLost, streamVars, listenerVars, runVars
<1>3. owed' \in [Device -> 0..MaxSightings]
  BY Bounds DEF BluezCrash, BusLost, NothingOwed
<1>4. /\ adapter' \in {"on", "off", "gone"} /\ bus' \in {"up", "down"}
      /\ session' = FALSE /\ known' \subseteq Device /\ died' \in BOOLEAN
      /\ conn' \in {"none", "ok", "broken"}
      /\ (conn' = "none") = (conn = "none")
      /\ filtered' \in BOOLEAN /\ lapse' \in BOOLEAN
      /\ lapse' = (lapse \/ phase = "scan") \/ conn' # "ok"
  BY DEF BluezCrash, BusLost, TypeOK, LoseFilter, streamVars, listenerVars,
         runVars
<1>5. TypeOK'
  BY <1>2, <1>3, <1>4 DEF TypeOK
<1>6. Ready'
  BY <1>2, <1>4 DEF Ready
<1> QED BY <1>1, <1>5, <1>6

\* bluetoothd comes back and announces an object that is no device.
LEMMA ReturnKeeps ==
  ASSUME IInv, BluezStarts
  PROVE  IInv'
<1> USE DEF IInv
<1> DEFINE object == [dev |-> NoDevice, ver |-> 0]
<1>1. /\ UNCHANGED <<bus, session, filterVars, known, ver, conn, matched,
                     adapterq, propsq, listenerVars, streak, owed>>
      /\ adapter' \in {"on", "off"}
      /\ ifaceq' = ifaceq \/ ifaceq' = Append(ifaceq, object)
  BY DEF BluezStarts, Emit
<1>2. ifaceq \in Seq([dev : Device \union {NoDevice}, ver : 0..MaxSightings])
  BY DEF TypeOK
<1>3. ifaceq' \in Seq([dev : Device \union {NoDevice}, ver : 0..MaxSightings])
  <2>1. object \in [dev : Device \union {NoDevice}, ver : 0..MaxSightings]
    BY Bounds
  <2>2. Append(ifaceq, object)
          \in Seq([dev : Device \union {NoDevice}, ver : 0..MaxSightings])
    BY <1>2, <2>1, QueueType, Zenon
  <2> QED BY <1>1, <1>2, <2>2, Zenon
<1>4. TypeOK'
  BY <1>1, <1>3 DEF TypeOK, filterVars, listenerVars, runVars
<1>5. Ready'
  BY <1>1 DEF Ready, filterVars, listenerVars, runVars
<1>6. \A i \in 1..Len(ifaceq) : i \in 1..Len(ifaceq') /\ ifaceq'[i] = ifaceq[i]
  BY <1>1, <1>2
<1>7. \A i \in 1..Len(ifaceq') : ifaceq'[i].dev \in Device
        => i \in 1..Len(ifaceq) /\ ifaceq'[i] = ifaceq[i]
  BY <1>1, <1>2, Bounds
<1>8. Dated'
  BY <1>1, <1>7 DEF Data, Dated, listenerVars, runVars
<1>9. FetchedNeverGoesBack'
  BY <1>1 DEF Data, FetchedNeverGoesBack, listenerVars, runVars
<1>10. Owing'
  BY <1>1, <1>6 DEF Data, Owing, OnItsWay, Sent, Queued, listenerVars, runVars
<1> QED BY <1>4, <1>5, <1>8, <1>9, <1>10 DEF Data

\* BlueZ drops a device and owes nothing of it any more.
LEMMA ForgetKeeps ==
  ASSUME IInv, NEW d \in Device, Forget(d)
  PROVE  IInv'
<1> USE DEF IInv
<1>1. UNCHANGED <<adapter, bus, session, filterVars, ver, streamVars,
                  listenerVars, streak>>
  BY DEF Forget
<1>2. known' = known \ {d} /\ owed' = [owed EXCEPT ![d] = 0]
  BY DEF Forget
<1>3. TypeOK'
  BY <1>1, <1>2, Bounds
     DEF TypeOK, streamVars, filterVars, listenerVars, runVars
<1>4. Ready'
  BY <1>1 DEF Ready, streamVars, filterVars, listenerVars, runVars
<1>5. Dated'
  BY <1>1, <1>2 DEF Data, Dated, streamVars, listenerVars, runVars
<1>6. FetchedNeverGoesBack'
  BY <1>1 DEF Data, FetchedNeverGoesBack, listenerVars, runVars
<1>7. Owing'
  <2> SUFFICES ASSUME NEW e \in Device, owed'[e] > 0
               PROVE  /\ conn' = "ok"
                      /\ e \in known'
                      /\ owed'[e] <= ver'[e]
                      /\ OnItsWay(e, owed[e])'
    BY DEF Owing
  <2>1. e # d /\ owed'[e] = owed[e]
    BY <1>2 DEF TypeOK
  <2>2. conn = "ok" /\ e \in known /\ owed[e] <= ver[e] /\ OnItsWay(e, owed[e])
    BY <2>1 DEF Data, Owing
  <2>3. OnItsWay(e, owed[e])'
    BY <1>1, <2>1, <2>2
       DEF OnItsWay, Sent, Queued, streamVars, listenerVars, runVars
  <2> QED BY <1>1, <1>2, <2>1, <2>2, <2>3 DEF streamVars
<1> QED BY <1>3, <1>4, <1>5, <1>6, <1>7 DEF Data
\* A device is seen: what is signalled now is owed, and on its way.
LEMMA SightKeeps ==
  ASSUME IInv, NEW d \in Device, Sight(d)
  PROVE  IInv'
<1> USE DEF IInv
<1> DEFINE signal == [dev |-> d, ver |-> ver[d] + 1]
           Signals == [dev : Device \union {NoDevice}, ver : 0..MaxSightings]
<1>1. /\ UNCHANGED <<adapter, bus, session, filterVars, conn, matched,
                     adapterq, listenerVars, streak>>
      /\ ver[d] < MaxSightings
      /\ ver' = [ver EXCEPT ![d] = @ + 1]
      /\ known' = known \union {d}
  BY DEF Sight
<1>2. ver[d] \in Nat /\ ver'[d] = ver[d] + 1 /\ ver' \in [Device -> 0..MaxSightings]
  BY <1>1, Bounds DEF TypeOK
<1>3. \/ propsq' = propsq /\ ifaceq' = ifaceq /\ owed' = owed
      \/ /\ propsq' = Append(propsq, d)
         /\ ifaceq' = ifaceq
         /\ conn = "ok"
         /\ owed' = [owed EXCEPT ![d] = ver'[d]]
      \/ /\ propsq' = propsq
         /\ ifaceq' = Append(ifaceq, signal)
         /\ conn = "ok"
         /\ owed' = [owed EXCEPT ![d] = ver'[d]]
  <2>1. CASE d \in known
    BY <2>1 DEF Sight, Emit, Hears
  <2>2. CASE d \notin known
    <3>1. CASE Hears(3)
      <4>1. ifaceq' = Append(ifaceq, [dev |-> d, ver |-> ver'[d]])
        BY <2>2, <3>1 DEF Sight, Emit
      <4> QED BY <1>2, <2>2, <3>1, <4>1 DEF Sight, Hears
    <3>2. CASE ~Hears(3)
      BY <2>2, <3>2 DEF Sight, Emit
    <3> QED BY <3>1, <3>2
  <2> QED BY <2>1, <2>2
<1>4. propsq \in Seq(Device) /\ ifaceq \in Seq(Signals)
  BY DEF TypeOK
<1>5. signal \in Signals
  BY <1>1, <1>2, Bounds
<1>0. \A s \in Signals : s.ver \in Nat
  BY Bounds
<1> HIDE DEF Signals
<1>6. propsq' \in Seq(Device) /\ ifaceq' \in Seq(Signals)
  <2>1. Append(propsq, d) \in Seq(Device) /\ Append(ifaceq, signal) \in Seq(Signals)
    BY <1>4, <1>5, QueueType, Zenon
  <2> QED BY <1>3, <1>4, <2>1, Zenon
<1>7. TypeOK'
  <2>1. owed' \in [Device -> 0..MaxSightings]
    BY <1>2, <1>3 DEF TypeOK
  <2>2. known' \subseteq Device
    BY <1>1 DEF TypeOK
  <2> QED BY <1>1, <1>2, <1>6, <2>1, <2>2
          DEF TypeOK, filterVars, listenerVars, runVars, Signals
<1>8. Ready'
  BY <1>1 DEF Ready, filterVars, listenerVars, runVars
<1>9. \A e \in Device : ver[e] \in Nat /\ ver'[e] \in Nat /\ ver[e] <= ver'[e]
  BY <1>1, <1>2 DEF TypeOK
<1>10. Dated'
  <2>1. \A e \in known' : ver'[e] >= 1
    BY <1>1, <1>2, <1>9 DEF Data, Dated, TypeOK
  <2>2. \A i \in 1..Len(out') : out'[i].ver <= ver'[out'[i].dev]
    <3>1. out' = out /\ out \in Seq(Advert)
      BY <1>1 DEF TypeOK, filterVars, listenerVars, runVars, Advert
    <3>2. \A i \in 1..Len(out) : out[i].dev \in Device /\ out[i].ver \in Nat
      BY <3>1, AdvertFields
    <3> QED BY <1>9, <3>1, <3>2 DEF Data, Dated
  <2>3. \A i \in 1..Len(ifaceq') : \/ i \in 1..Len(ifaceq) /\ ifaceq'[i] = ifaceq[i]
                                  \/ ifaceq'[i] = signal
    <3>1. CASE ifaceq' = ifaceq
      BY <3>1
    <3>2. CASE ifaceq' = Append(ifaceq, signal)
      BY <3>2, <1>4, <1>5, Joined
    <3> QED BY <1>3, <3>1, <3>2
  <2>4. ASSUME NEW i \in 1..Len(ifaceq'), ifaceq'[i].dev \in Device
        PROVE  ifaceq'[i].ver <= ver'[ifaceq'[i].dev] /\ ifaceq'[i].ver >= 1
    <3>1. CASE i \in 1..Len(ifaceq) /\ ifaceq'[i] = ifaceq[i]
      <4>1. ifaceq[i] \in Signals
        BY <1>4, <3>1
      <4>2. ifaceq[i].dev \in Device /\ ifaceq[i].ver \in Nat
        BY <1>0, <2>4, <3>1, <4>1
      <4>3. /\ ifaceq[i].ver <= ver[ifaceq[i].dev]
            /\ ifaceq[i].ver >= 1
        BY <3>1, <4>2 DEF Data, Dated
      <4> QED BY <1>9, <3>1, <4>2, <4>3
    <3>2. CASE ifaceq'[i] = signal
      BY <1>2, <3>2
    <3> QED BY <2>3, <3>1, <3>2
  <2> QED BY <2>1, <2>2, <2>4 DEF Dated
<1>11. FetchedNeverGoesBack'
  BY <1>1 DEF Data, FetchedNeverGoesBack, listenerVars, runVars
<1>12. Owing'
  <2> SUFFICES ASSUME NEW e \in Device, owed'[e] > 0
               PROVE  /\ conn' = "ok"
                      /\ e \in known'
                      /\ owed'[e] <= ver'[e]
                      /\ OnItsWay(e, owed[e])'
    BY DEF Owing
  <2>1. CASE owed'[e] = owed[e]
    <3>1. /\ conn = "ok" /\ e \in known /\ owed[e] <= ver[e]
          /\ OnItsWay(e, owed[e])
      BY <2>1 DEF Data, Owing
    <3>2. /\ \A i \in 1..Len(propsq) : i \in 1..Len(propsq') /\ propsq'[i] = propsq[i]
          /\ \A i \in 1..Len(ifaceq) : i \in 1..Len(ifaceq') /\ ifaceq'[i] = ifaceq[i]
      <4>1. CASE propsq' = propsq /\ ifaceq' = ifaceq
        BY <4>1
      <4>2. CASE propsq' = Append(propsq, d) /\ ifaceq' = ifaceq
        BY <4>2, <1>4, Joined
      <4>3. CASE propsq' = propsq /\ ifaceq' = Append(ifaceq, signal)
        BY <4>3, <1>4, <1>5, Joined
      <4> QED BY <1>3, <4>1, <4>2, <4>3
    <3>3. OnItsWay(e, owed[e])'
      BY <1>1, <2>1, <3>1, <3>2
         DEF OnItsWay, Sent, Queued, listenerVars, runVars
    <3>4. owed'[e] <= ver'[e]
      BY <1>9, <2>1, <3>1 DEF TypeOK
    <3> QED BY <1>1, <3>1, <3>3, <3>4
  <2>2. CASE owed'[e] # owed[e]
    <3>1. e = d /\ owed'[d] = ver'[d] /\ conn = "ok"
      BY <1>3, <2>2 DEF TypeOK
    <3>2. \/ propsq' = Append(propsq, d)
          \/ ifaceq' = Append(ifaceq, signal)
      BY <1>3, <2>2
    <3>3. Queued(d, owed[d])'
      <4>1. CASE propsq' = Append(propsq, d)
        <5>1. Len(propsq') \in 1..Len(propsq') /\ propsq'[Len(propsq')] = d
          BY <1>4, <4>1
        <5> QED BY <5>1 DEF Queued
      <4>2. CASE ifaceq' = Append(ifaceq, signal)
        <5>1. /\ Len(ifaceq') \in 1..Len(ifaceq')
              /\ ifaceq'[Len(ifaceq')] = signal
          BY <1>4, <4>2
        <5>2. signal.dev = d /\ signal.ver >= owed'[d]
          BY <1>2, <3>1
        <5> QED BY <5>1, <5>2 DEF Queued
      <4> QED BY <3>2, <4>1, <4>2
    <3> QED BY <1>1, <1>9, <3>1, <3>3 DEF OnItsWay
  <2> QED BY <2>1, <2>2
<1> QED BY <1>7, <1>8, <1>10, <1>11, <1>12 DEF Data
-----------------------------------------------------------------------------
(* The branches about devices.                                             *)

\* A change is signalled: the device is what is being fetched now.
LEMMA PropsKeeps ==
  ASSUME IInv, PropsSignal
  PROVE  IInv'
<1> USE DEF IInv
<1>1. /\ phase = "select" /\ phase' = "getall"
      /\ propsq # <<>> /\ propsq' = Tail(propsq)
      /\ reading' = Head(propsq)
      /\ UNCHANGED <<bluezVars, conn, matched, adapterq, ifaceq, out, backoff,
                     runVars, streak, owed>>
  BY DEF PropsSignal
<1>2. propsq \in Seq(Device)
  BY DEF TypeOK
<1>3. propsq' \in Seq(Device) /\ reading' \in Device
  BY <1>1, <1>2, QueueType
<1>4. TypeOK'
  BY <1>1, <1>3 DEF TypeOK, runVars, Phases, bluezVars, filterVars
<1>5. Ready'
  BY <1>1, <1>3, Bounds DEF Ready, bluezVars, filterVars
<1>6. Dated' /\ FetchedNeverGoesBack'
  BY <1>1 DEF Data, Dated, FetchedNeverGoesBack, bluezVars
<1>7. ASSUME NEW d \in Device, owed[d] > 0 PROVE OnItsWay(d, owed[d])'
  <2>1. OnItsWay(d, owed[d]) /\ reading = NoDevice
    BY <1>1, <1>7 DEF Data, Owing, Ready
  <2>2. CASE \E i \in 1..Len(propsq) : propsq[i] = d
    <3>1. Head(propsq) = d \/ \E j \in 1..Len(propsq') : propsq'[j] = d
      BY <1>1, <1>2, <2>2, Taken
    <3> QED BY <1>1, <3>1 DEF OnItsWay, Queued
  <2>3. CASE ~ \E i \in 1..Len(propsq) : propsq[i] = d
    BY <1>1, <2>1, <2>3, Bounds DEF OnItsWay, Queued, Sent
  <2> QED BY <2>2, <2>3
<1>8. Owing'
  BY <1>1, <1>7 DEF Data, Owing, bluezVars
<1> QED BY <1>4, <1>5, <1>6, <1>8 DEF Data

\* The advert of a device that is sent last of all: what is needed of it for
\* the invariant, whichever branch sends it.
LEMMA SendKeeps ==
  ASSUME TypeOK, Data, NEW a \in Advert, out' = Append(out, a),
         UNCHANGED <<known, ver, owed, conn, propsq>>,
         a.ver <= ver[a.dev], a.src = "added" \/ a.ver = ver[a.dev],
         \A i \in 1..Len(ifaceq') :
           \E j \in 1..Len(ifaceq) : ifaceq'[i] = ifaceq[j],
         \A d \in Device :
           owed[d] > 0 /\ (reading = d \/ Queued(d, owed[d])) =>
             \/ a.dev = d /\ a.ver >= owed[d]
             \/ Queued(d, owed[d])'
  PROVE  Data'
<1>1. out \in Seq(Advert)
  BY DEF TypeOK, Advert
<1>2. /\ \A i \in 1..Len(out') : (i \in 1..Len(out) /\ out'[i] = out[i]) \/ out'[i] = a
      /\ \A i \in 1..Len(out) : i \in 1..Len(out') /\ out'[i] = out[i]
      /\ Len(out') \in 1..Len(out') /\ out'[Len(out')] = a
  BY <1>1, Joined
<1>3. Dated'
  <2>1. \A i \in 1..Len(out') : out'[i].ver <= ver'[out'[i].dev]
    BY <1>2 DEF Data, Dated
  <2> QED BY <2>1 DEF Data, Dated
<1>4. FetchedNeverGoesBack'
  <2> SUFFICES ASSUME NEW i \in 1..Len(out'), NEW j \in 1..Len(out'),
                      i < j, out'[i].dev = out'[j].dev,
                      out'[j].ver < out'[i].ver
               PROVE  out'[j].src = "added"
    BY DEF FetchedNeverGoesBack
  <2>1. Len(out') = Len(out) + 1 /\ i \in 1..Len(out) /\ out'[i] = out[i]
    BY <1>1
  <2>2. CASE j \in 1..Len(out)
    BY <1>2, <2>1, <2>2 DEF Data, FetchedNeverGoesBack
  <2>3. CASE j \notin 1..Len(out)
    <3>1. out'[j] = a
      BY <1>2, <2>3
    <3>2. out[i].ver <= ver[out[i].dev]
      BY <2>1 DEF Data, Dated
    <3>3. out[i].ver \in Nat /\ out[i].dev \in Device
      BY <1>1, <2>1, AdvertFields
    <3>4. a.dev = out[i].dev
      BY <2>1, <3>1
    <3>5. a.ver \in Nat
      BY Bounds DEF Advert
    <3>6. ver[a.dev] \in Nat
      BY <3>3, <3>4, Bounds DEF TypeOK
    <3> QED BY <2>1, <3>1, <3>2, <3>3, <3>4, <3>5, <3>6
  <2> QED BY <2>2, <2>3
<1>5. Owing'
  <2> SUFFICES ASSUME NEW d \in Device, owed[d] > 0
               PROVE  OnItsWay(d, owed[d])'
    BY DEF Data, Owing
  <2>1. OnItsWay(d, owed[d])
    BY DEF Data, Owing
  <2>2. CASE Sent(d, owed[d])
    BY <1>2, <2>2 DEF Sent, OnItsWay
  <2>3. CASE reading = d \/ Queued(d, owed[d])
    <3>1. CASE Queued(d, owed[d])'
      BY <3>1 DEF OnItsWay
    <3>2. CASE a.dev = d /\ a.ver >= owed[d]
      BY <1>2, <3>2 DEF Sent, OnItsWay
    <3> QED BY <2>3, <3>1, <3>2
  <2> QED BY <2>1, <2>2, <2>3 DEF OnItsWay
<1> QED BY <1>3, <1>4, <1>5 DEF Data
\* GetAll returns: the advert has the newest state there is, so it pays for
\* every signal of the device there was; without an object nothing is owed
\* (the props_stream branch).
LEMMA GetAllKeeps ==
  ASSUME IInv, GetAll
  PROVE  IInv'
<1> USE DEF IInv
<1>1. /\ phase = "getall" /\ phase' = "select" /\ reading' = NoDevice
      /\ UNCHANGED <<bluezVars, streamVars, backoff, runVars, streak, owed>>
  BY DEF GetAll
<1>2. reading \in Device
  BY <1>1 DEF Ready
<1>3. Ready'
  BY <1>1 DEF Ready, bluezVars, filterVars, streamVars
<1>4. CASE conn = "ok" /\ reading \in known
  <2> DEFINE a == [dev |-> reading, ver |-> ver[reading], src |-> "get"]
  <2>1. out' = Append(out, a)
    BY <1>4 DEF GetAll
  <2>2. ver[reading] \in 1..MaxSightings
    BY <1>2, <1>4, Bounds DEF TypeOK, Data, Dated
  <2>3. a \in Advert
    BY <1>2, <2>2 DEF Advert
  <2>4. /\ a.dev = reading /\ a.ver = ver[reading]
    OBVIOUS
  <2>5. out \in Seq(Advert)
    BY DEF TypeOK, Advert
  <2> HIDE DEF a
  <2>6. out' \in Seq(Advert)
    BY <2>1, <2>3, <2>5, QueueType
  <2>7. TypeOK'
    BY <1>1, <2>6 DEF TypeOK, runVars, Phases, Advert, bluezVars, filterVars, streamVars
  <2>8. ASSUME NEW d \in Device, owed[d] > 0,
               reading = d \/ Queued(d, owed[d])
        PROVE  (a.dev = d /\ a.ver >= owed[d]) \/ Queued(d, owed[d])'
    <3>1. CASE reading = d
      <4>1. owed[d] <= ver[d]
        BY <2>8 DEF Data, Owing
      <4> QED BY <2>2, <2>4, <3>1, <4>1 DEF TypeOK
    <3>2. CASE Queued(d, owed[d])
      BY <1>1, <3>2 DEF Queued, streamVars
    <3> QED BY <2>8, <3>1, <3>2
  <2>9. a.ver <= ver[a.dev]
    BY <2>2, <2>4
  <2>10. UNCHANGED <<known, ver, owed, conn, propsq, ifaceq>>
    BY <1>1 DEF bluezVars, streamVars
  <2>11. Data'
    BY <2>1, <2>3, <2>4, <2>8, <2>9, <2>10, SendKeeps
  <2> QED BY <1>3, <2>7, <2>11
<1>5. CASE ~(conn = "ok" /\ reading \in known)
  <2>1. out' = out
    BY <1>5 DEF GetAll
  <2>2. TypeOK'
    BY <1>1, <2>1 DEF TypeOK, runVars, Phases, bluezVars, filterVars, streamVars
  <2>3. Dated' /\ FetchedNeverGoesBack'
    BY <1>1, <2>1 DEF Data, Dated, FetchedNeverGoesBack, bluezVars, streamVars
  <2>4. ASSUME NEW d \in Device, owed[d] > 0
        PROVE  /\ conn = "ok" /\ d \in known /\ owed[d] <= ver[d]
               /\ OnItsWay(d, owed[d])'
    <3>1. /\ conn = "ok" /\ d \in known /\ owed[d] <= ver[d]
          /\ OnItsWay(d, owed[d])
      BY <2>4 DEF Data, Owing
    <3>2. reading # d
      BY <1>5, <3>1
    <3>3. OnItsWay(d, owed[d])'
      BY <1>1, <2>1, <3>1, <3>2 DEF OnItsWay, Sent, Queued, streamVars
    <3> QED BY <3>1, <3>3
  <2>5. Owing'
    BY <1>1, <2>4 DEF Owing, bluezVars, streamVars
  <2> QED BY <1>3, <2>2, <2>3, <2>5 DEF Data
<1> QED BY <1>4, <1>5

\* An InterfacesAdded is sent as it was queued, or ignored (the iface_stream
\* branch).
LEMMA IfaceKeeps ==
  ASSUME IInv, IfaceSignal
  PROVE  IInv'
<1> USE DEF IInv
<1> DEFINE Signals == [dev : Device \union {NoDevice}, ver : 0..MaxSightings]
           head    == Head(ifaceq)
           a       == [dev |-> head.dev, ver |-> head.ver, src |-> "added"]
<1>1. /\ phase = "select" /\ ifaceq # <<>> /\ ifaceq' = Tail(ifaceq)
      /\ UNCHANGED <<bluezVars, conn, matched, adapterq, propsq, phase, reading,
                     backoff, runVars, streak, owed>>
      /\ out' = IF head.dev \in Device THEN Append(out, a) ELSE out
  BY DEF IfaceSignal
<1>2. ifaceq \in Seq(Signals)
  BY DEF TypeOK
<1>3. head \in Signals /\ ifaceq' \in Seq(Signals)
  <2> HIDE DEF Signals
  <2> QED BY <1>1, <1>2, QueueType
<1>4. /\ \A i \in 1..Len(ifaceq') : i + 1 \in 1..Len(ifaceq)
                                    /\ ifaceq'[i] = ifaceq[i + 1]
      /\ \A i \in 1..Len(ifaceq) :
           ifaceq[i] = head \/ \E j \in 1..Len(ifaceq') : ifaceq'[j] = ifaceq[i]
      /\ 1 \in 1..Len(ifaceq) /\ ifaceq[1] = head
  <2> HIDE DEF Signals
  <2> QED BY <1>1, <1>2, Taken
<1>5. Ready'
  BY <1>1 DEF Ready, bluezVars, filterVars
<1>6. reading = NoDevice
  BY <1>1 DEF Ready
<1>7. ASSUME NEW d \in Device, Queued(d, owed[d])
      PROVE  (head.dev = d /\ head.ver >= owed[d]) \/ Queued(d, owed[d])'
  <2>1. CASE \E i \in 1..Len(propsq) : propsq[i] = d
    BY <1>1, <2>1 DEF Queued
  <2>2. CASE \E i \in 1..Len(ifaceq) : ifaceq[i].dev = d /\ ifaceq[i].ver >= owed[d]
    <3>1. PICK i \in 1..Len(ifaceq) : ifaceq[i].dev = d /\ ifaceq[i].ver >= owed[d]
      BY <2>2
    <3>2. ifaceq[i] = head \/ \E j \in 1..Len(ifaceq') : ifaceq'[j] = ifaceq[i]
      BY <1>4
    <3> QED BY <1>1, <3>1, <3>2 DEF Queued
  <2> QED BY <1>7, <2>1, <2>2 DEF Queued
<1>8. CASE head.dev \in Device
  <2>1. head.ver <= ver[head.dev] /\ head.ver >= 1
    BY <1>4, <1>8 DEF Data, Dated
  <2>2. a \in Advert
    BY <1>3, <1>8, <2>1, Bounds DEF Advert
  <2>3. a.dev = head.dev /\ a.ver = head.ver /\ a.src = "added"
    OBVIOUS
  <2>4. out \in Seq(Advert) /\ out' = Append(out, a)
    BY <1>1, <1>8 DEF TypeOK, Advert
  <2> HIDE DEF a
  <2>5. out' \in Seq(Advert)
    BY <2>2, <2>4, QueueType
  <2>6. TypeOK'
    BY <1>1, <1>3, <2>5 DEF TypeOK, runVars, Advert, bluezVars, filterVars
  <2>7. \A i \in 1..Len(ifaceq') : \E j \in 1..Len(ifaceq) : ifaceq'[i] = ifaceq[j]
    BY <1>4
  <2>8. \A d \in Device :
          owed[d] > 0 /\ (reading = d \/ Queued(d, owed[d])) =>
            (a.dev = d /\ a.ver >= owed[d]) \/ Queued(d, owed[d])'
    BY <1>6, <1>7, <2>3, Bounds
  <2>9. UNCHANGED <<known, ver, owed, conn, propsq>>
    BY <1>1 DEF bluezVars
  <2>10. Data'
    BY <2>1, <2>2, <2>3, <2>4, <2>7, <2>8, <2>9, SendKeeps
  <2> QED BY <1>5, <2>6, <2>10
<1>9. CASE head.dev \notin Device
  <2>1. out' = out
    BY <1>1, <1>9
  <2>2. TypeOK'
    BY <1>1, <1>3, <2>1 DEF TypeOK, runVars, bluezVars, filterVars
  <2>3. Dated' /\ FetchedNeverGoesBack'
    BY <1>1, <1>4, <2>1 DEF Data, Dated, FetchedNeverGoesBack, bluezVars
  <2>4. ASSUME NEW d \in Device, owed[d] > 0
        PROVE  OnItsWay(d, owed[d])'
    <3>1. OnItsWay(d, owed[d])
      BY <2>4 DEF Data, Owing
    <3>2. CASE Sent(d, owed[d])
      BY <1>1, <2>1, <3>2 DEF Sent, OnItsWay
    <3>3. CASE Queued(d, owed[d])
      BY <1>7, <1>9, <3>3 DEF OnItsWay
    <3> QED BY <1>6, <3>1, <3>2, <3>3, Bounds DEF OnItsWay
  <2>5. Owing'
    BY <1>1, <2>4 DEF Data, Owing, bluezVars
  <2> QED BY <1>5, <2>2, <2>3, <2>5 DEF Data
<1> QED BY <1>8, <1>9

-----------------------------------------------------------------------------
(* The theorems.                                                           *)

\* IInv is an invariant (every action of Listener).
THEOREM Invariance == SafeSpec => []IInv
<1>1. Init => IInv
  <2> SUFFICES ASSUME Init PROVE IInv
    OBVIOUS
  <2>1. TypeOK
    <3>1. /\ adapterq \in Seq(BOOLEAN) /\ propsq \in Seq(Device)
          /\ ifaceq \in Seq([dev : Device \union {NoDevice},
                            ver : 0..MaxSightings])
          /\ out \in Seq(Advert)
      BY DEF Init
    <3>2. /\ ver \in [Device -> 0..MaxSightings]
          /\ owed \in [Device -> 0..MaxSightings]
      BY Bounds DEF Init
    <3>3. backoff \in 1..MaxBackoff /\ streak \in 0..MaxStreak
      BY Bounds DEF Init
    <3>4. phase \in Phases
      BY DEF Init, Phases
    <3>5. /\ session \in BOOLEAN /\ filtered \in BOOLEAN /\ lapse \in BOOLEAN
          /\ long \in BOOLEAN /\ died \in BOOLEAN /\ known \subseteq Device
      BY DEF Init
    <3>6. /\ adapter \in {"on", "off", "gone"} /\ bus \in {"up", "down"}
          /\ conn \in {"none", "ok", "broken"}
      BY DEF Init
    <3>7. matched \in 0..3 /\ reading \in Device \union {NoDevice}
      BY DEF Init
    <3> QED BY <3>1, <3>2, <3>3, <3>4, <3>5, <3>6,
              <3>7 DEF TypeOK, Advert
  <2>2. Ready
    BY DEF Init, Ready
  <2>3. Data
    BY DEF Init, Data, Dated, FetchedNeverGoesBack, Owing
  <2> QED BY <2>1, <2>2, <2>3 DEF IInv
<1>2. IInv /\ [Next]_vars => IInv'
  <2> SUFFICES ASSUME IInv, [Next]_vars PROVE IInv'
    OBVIOUS
  <2>1. CASE UNCHANGED vars
    <3>1. Data'
      BY <2>1, DataKept DEF IInv, vars, bluezVars, streamVars, listenerVars,
                            runVars, dataVars
    <3>2. TypeOK' /\ Ready'
      BY <2>1 DEF IInv, TypeOK, Ready, vars, bluezVars, filterVars,
                    streamVars, listenerVars, runVars
    <3> QED BY <3>1, <3>2 DEF IInv
  <2>2. CASE Environment
    BY <2>2, SightKeeps, ForgetKeeps, AdapterKeeps, LossKeeps, ReturnKeeps
       DEF Environment
  <2>3. CASE RunLasts \/ WakeUp
    BY <2>3, TimersKeep
  <2>4. CASE Listener
    <3>1. CASE StreamError
      BY <3>1, FailKeeps DEF StreamError
    <3> QED BY <2>4, <3>1, SetupKeeps, PropsKeeps, GetAllKeeps, IfaceKeeps
            DEF Listener
  <2> QED BY <2>1, <2>2, <2>3, <2>4 DEF Next
<1> QED BY <1>1, <1>2, PTL DEF SafeSpec

\* Each doubling is twice the one before it.
LEMMA DoublingsStep ==
  /\ Doublings[0] = 1
  /\ \A n \in Nat : Doublings[n] \in Nat /\ Doublings[n + 1] = 2 * Doublings[n]
<1> DEFINE step == [x \in Nat \X Nat |-> 2 * x[2]]
<1>1. PICK f : Iterates(f, 1, step, Nat)
  <2>1. step \in [Nat \X Nat -> Nat]
    OBVIOUS
  <2> HIDE DEF step
  <2> QED BY <2>1, Recursion
<1>2. f[0] = 1 /\ \A n \in Nat : f[n] \in Nat /\ f[n + 1] = 2 * f[n]
  BY <1>1 DEF Iterates
<1>3. f = [n \in Nat |-> IF n = 0 THEN 1 ELSE 2 * f[n - 1]]
  <2>1. ASSUME NEW n \in Nat
        PROVE  f[n] = IF n = 0 THEN 1 ELSE 2 * f[n - 1]
    <3>1. CASE n # 0
      <4>1. n - 1 \in Nat /\ n = (n - 1) + 1
        BY <3>1
      <4> QED BY <1>2, <3>1, <4>1
    <3> QED BY <1>2, <3>1
  <2> QED BY <1>1, <2>1 DEF Iterates
<1>4. Doublings = [n \in Nat |-> IF n = 0 THEN 1 ELSE 2 * Doublings[n - 1]]
  BY <1>3, Zenon DEF Doublings
<1>5. Doublings[0] = 1 /\ \A n \in Nat : Doublings[n + 1] = 2 * Doublings[n]
  BY <1>4
<1> DEFINE T == {n \in Nat : Doublings[n] \in Nat}
<1>6. 0 \in T /\ \A n \in Nat : n \in T => n + 1 \in T
  BY <1>5
<1>7. \A n \in T : Doublings[n] \in Nat
  OBVIOUS
<1> HIDE DEF T
<1> QED BY <1>5, <1>6, <1>7, Induct

\* Nothing leaves its type: the backoff never exceeds the cap (run_supervised),
\* and no advert has a version its device never had.
THEOREM TypeCorrect == SafeSpec => []TypeOK
<1>1. IInv => TypeOK
  BY DEF IInv
<1> QED BY <1>1, Invariance, PTL

\* BlueZ discovers for the listener only into streams that are set up, whatever
\* fails and whenever it is retried (try_start_discovery and its callers).
THEOREM DiscoveryIsHeard == SafeSpec => []DiscoversIntoStreams
<1>1. IInv => DiscoversIntoStreams
  BY DEF IInv, Ready, DiscoversIntoStreams
<1> QED BY <1>1, Invariance, PTL

\* BlueZ discovers for the listener under the listener's own filter, whatever
\* fails and whenever it is retried, unless the adapter was lost between the two
\* calls of try_start_discovery.
THEOREM FilterHolds == SafeSpec => []DuplicatesWanted
<1>1. IInv => DuplicatesWanted
  BY DEF IInv, Ready, DuplicatesWanted
<1> QED BY <1>1, Invariance, PTL

\* What is fetched is never older than anything sent before it, for any number
\* of devices and sightings (the props_stream branch).
THEOREM FetchedIsNewest == SafeSpec => []FetchedNeverGoesBack
<1>1. IInv => FetchedNeverGoesBack
  BY DEF IInv, Data
<1> QED BY <1>1, Invariance, PTL

\* With its streams worked off, the listener has sent the newest state signalled
\* of every device that BlueZ still has, or a newer one (the select! loop).
THEOREM NothingOwedIsLost == SafeSpec => []NewestIsSent
<1>1. IInv => NewestIsSent
  <2> SUFFICES ASSUME IInv, phase = "select", propsq = <<>>, ifaceq = <<>>,
                      NEW d \in Device, owed[d] > 0
               PROVE  Sent(d, owed[d])
    BY DEF NewestIsSent, Sent
  <2>1. OnItsWay(d, owed[d])
    BY DEF IInv, Data, Owing
  <2>2. reading # d
    BY Bounds DEF IInv, Ready
  <2>3. ~Queued(d, owed[d])
    BY DEF Queued
  <2> QED BY <2>1, <2>2, <2>3 DEF OnItsWay
<1> QED BY <1>1, Invariance, PTL

\* The backoff follows the failures at all times, not only while it is waited
\* for.
Backed == backoff = Min({Doublings[streak], MaxBackoff})

\* Only a failure and the wake-up after it touch the backoff.
LEMMA BackoffSteps ==
  ASSUME [Next]_vars
  PROVE  Fail \/ WakeUp \/ UNCHANGED <<backoff, streak>>
<1> USE DEF listenerVars
<1>1. CASE Environment
  BY <1>1 DEF Environment, Sight, Forget, PowerOff, PowerOn, ScanPauses,
     BluezCrash, BluezStarts, BusLost, BusReturns
<1>2. CASE Listener
  BY <1>2 DEF Listener, StreamError, Connect, AddMatch, SetDiscoveryFilter,
     StartDiscovery, AdapterSignal, PropsSignal, GetAll, IfaceSignal
<1> QED BY <1>1, <1>2 DEF Next, RunLasts, vars

\* The smaller of a doubling and the cap.
LEMMA Capped ==
  ASSUME NEW n \in Nat
  PROVE  Min({Doublings[n], MaxBackoff})
           = IF Doublings[n] <= MaxBackoff THEN Doublings[n] ELSE MaxBackoff
<1>1. Doublings[n] \in Int /\ MaxBackoff \in Int
  BY DoublingsStep, Bounds
<1> QED BY <1>1, MinOfTwo, Zenon

\* A failure resets the backoff or leaves it, and a wake-up doubles it; at the
\* bound of what is told apart it is at the cap.
LEMMA BackedKept ==
  ASSUME TypeOK, Backed, [Next]_vars PROVE Backed'
<1>1. streak \in Nat /\ streak <= MaxStreak /\ backoff \in Nat
  BY Bounds DEF TypeOK
<1>2. CASE Fail
  <2>1. CASE long
    <3>1. backoff' = 1 /\ streak' = 0
      BY <1>2, <2>1 DEF Fail
    <3>2. Min({Doublings[0], MaxBackoff}) = 1
      BY Capped, DoublingsStep, Bounds
    <3> QED BY <3>1, <3>2 DEF Backed
  <2>2. CASE ~long
    BY <1>2, <2>2 DEF Fail, Backed
  <2> QED BY <2>1, <2>2
<1>3. CASE WakeUp
  <2>1. backoff = IF Doublings[streak] <= MaxBackoff
                  THEN Doublings[streak] ELSE MaxBackoff
    BY <1>1, Capped DEF Backed
  <2>2. backoff' = IF 2 * backoff <= MaxBackoff THEN 2 * backoff
                                                ELSE MaxBackoff
    BY <1>1, <1>3, MinOfTwo, Bounds DEF WakeUp
  <2>3. streak' = IF streak + 1 <= MaxStreak THEN streak + 1 ELSE MaxStreak
    BY <1>1, <1>3, MinOfTwo, Bounds DEF WakeUp
  <2>4. /\ Doublings[streak] \in Nat
        /\ Doublings[streak + 1] = 2 * Doublings[streak]
    BY <1>1, DoublingsStep
  <2>5. CASE streak < MaxStreak
    <3>1. streak' = streak + 1 /\ streak + 1 \in Nat
      BY <1>1, <2>3, <2>5, Bounds
    <3>2. Min({Doublings[streak + 1], MaxBackoff})
            = IF Doublings[streak + 1] <= MaxBackoff
              THEN Doublings[streak + 1] ELSE MaxBackoff
      BY <3>1, Capped
    <3>3. backoff' = Min({Doublings[streak + 1], MaxBackoff})
      BY <2>1, <2>2, <2>4, <3>2, Bounds
    <3> QED BY <3>1, <3>3 DEF Backed
  <2>6. CASE streak = MaxStreak
    <3>1. streak' = streak
      BY <1>1, <2>3, <2>6, Bounds
    <3>2. Doublings[streak] >= MaxBackoff
      BY <2>6, ListenerAssumption
    <3>3. backoff = MaxBackoff
      BY <2>1, <2>4, <3>2, Bounds
    <3>4. backoff' = backoff
      BY <2>2, <3>3, Bounds
    <3> QED BY <3>1, <3>4 DEF Backed
  <2> QED BY <1>1, <2>5, <2>6, Bounds
<1>4. CASE UNCHANGED <<backoff, streak>>
  BY <1>4 DEF Backed
<1> QED BY <1>2, <1>3, <1>4, BackoffSteps

\* The wait after n short failures in a row is 2^n units up to the cap, and one
\* unit after a run that lasted, however runs of both kinds follow each other
\* (the order of reset, sleep and doubling in run_supervised).
THEOREM BackoffIsDoubled == SafeSpec => []BackoffFollowsFailures
<1>1. Init => Backed
  <2>1. Min({Doublings[0], MaxBackoff}) = 1
    BY Capped, DoublingsStep, Bounds
  <2> QED BY <2>1 DEF Init, Backed
<1>2. TypeOK /\ Backed /\ [Next]_vars => Backed'
  BY BackedKept
<1>3. Backed => BackoffFollowsFailures
  BY DEF Backed, BackoffFollowsFailures
<1> QED BY <1>1, <1>2, <1>3, TypeCorrect, PTL DEF SafeSpec
=============================================================================
