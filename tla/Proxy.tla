------------------------------- MODULE Proxy -------------------------------
(***************************************************************************)
(* The whole proxy: the BLE listener (Listener) and the TCP server         *)
(* (Server) as the tasks of one process (src/main.rs), joined by the       *)
(* broadcast channel.  The n-th advert the listener sends is the one at    *)
(* position n - 1 of the channel, and an accept error, which exits the     *)
(* process, ends the listener with the sessions.                           *)
(***************************************************************************)
EXTENDS ServerProperties

CONSTANTS Device, Faults, MaxBackoff, MaxStreak, MaxSightings, MaxQueue

VARIABLES adapter, bus, session, filtered, known, ver, phase, conn, matched,
          adapterq, propsq, ifaceq, reading, out, backoff, long, streak, owed,
          died, lapse

L == INSTANCE Listener

\* A sighting is signalled once and a signal makes at most one advert, so that
\* this bound never stops the listener.
ASSUME ProxyAssumption ==
  /\ L!ListenerAssumption
  /\ MaxAdverts >= Cardinality(Device) * MaxSightings

serverVars == vars
bleVars    == <<adapter, bus, session, filtered, known, ver, phase, conn,
                matched, adapterq, propsq, ifaceq, reading, out, backoff, long,
                streak, owed, died, lapse>>
proxyVars  == <<serverVars, bleVars>>

ProxyInit == Init /\ L!Init

\* With a step of the listener, or of what it listens to: the process runs, and
\* an advert that is made is sent in the same step (tx.send).
Sending ==
  /\ up
  /\ IF out' = out THEN UNCHANGED serverVars ELSE Publish

\* With a step of the accept loop, of a session or of a client.
Serving == UNCHANGED bleVars

ProxyNext ==
  \/ L!Next /\ Sending
  \/ (AcceptFails \/ \E c \in Conn : Step(c)) /\ Serving

ProxySafeSpec == ProxyInit /\ [][ProxyNext]_proxyVars

\* What the listener awaits, apart from the streams of its select!, and what a
\* session does, apart from the branches of its own.
Awaited == L!WakeUp \/ L!Connect \/ L!AddMatch \/ L!SetDiscoveryFilter
           \/ L!StartDiscovery \/ L!GetAll
Working(c) == Accept(c) \/ Dispatch(c) \/ Write(c)

\* The tasks share one runtime, which starves none of them, and readers read on:
\* of the fairness of Listener and Server, what the way of an advert needs.
ProxyFairness ==
  /\ WF_proxyVars(Awaited /\ Sending)
  /\ SF_proxyVars(L!PropsSignal /\ Sending)
  /\ SF_proxyVars(L!IfaceSignal /\ Sending)
  /\ \A c \in Conn : /\ WF_proxyVars(Working(c) /\ Serving)
                     /\ SF_proxyVars(RecvBranch(c) /\ Serving)
  /\ \A c \in Reader : WF_proxyVars(ReadFrame(c) /\ Serving)

ProxySpec == ProxySafeSpec /\ ProxyFairness

-----------------------------------------------------------------------------
(* The properties of the whole.                                            *)

\* The advert a frame carries.
Carried(f) == out[f.pos + 1]

\* What a client is told of a device goes back in time only where the older
\* state was carried by an InterfacesAdded that was read late, whatever the
\* channel dropped and whenever the client subscribed
\* (run_bluez_advertisement_listener's sends and handle_client's recv).
FramesNeverGoBack ==
  \A c \in Conn : \A i, j \in 1..Len(sent[c]) :
    i < j /\ IsAdvert(sent[c][i]) /\ IsAdvert(sent[c][j]) =>
      LET earlier == Carried(sent[c][i])
          later   == Carried(sent[c][j])
      IN later.dev = earlier.dev /\ later.ver < earlier.ver
           => later.src = "added"

Told(c, d, v) ==
  \E i \in 1..Len(sent[c]) :
    /\ IsAdvert(sent[c][i])
    /\ Carried(sent[c][i]).dev = d /\ Carried(sent[c][i]).ver >= v

\* A state that BlueZ signals while a client is subscribed, or a newer one,
\* reaches that client, unless it unsubscribes or goes, BlueZ drops the device,
\* or the run of the listener or the process ends (the way of an advert from a
\* signal through the channel to write_all).
NewsReachSubscribers ==
  \A c \in Reader : \A d \in Device : \A v \in 1..MaxSightings :
    /\ owed[d] = v
    /\ \A i \in 1..Len(out) : out[i].dev = d => out[i].ver < v
    /\ task[c] # "ended" /\ subscription_flags[c] # none
    ~>
    \/ Told(c, d, v)
    \/ owed[d] # v \/ task[c] = "ended" \/ subscription_flags[c] = none
    \/ peer[c] # "open" \/ wclosed[c]
=============================================================================
