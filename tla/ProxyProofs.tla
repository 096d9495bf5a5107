---------------------------- MODULE ProxyProofs ----------------------------
(***************************************************************************)
(* Proofs about Proxy, for any connections, devices, capacities, faults    *)
(* and bounds.  The proxy implements each of its parts, so that what is    *)
(* proved of a part holds in the proxy; that the positions in the channel  *)
(* are those of the listener's adverts ties the two together.              *)
(***************************************************************************)
EXTENDS Proxy, ServerProofs

LP == INSTANCE ListenerProofs

\* The constants of the proxy are fit for its listener.
LEMMA ListenerConstants == LP!ListenerAssumption
BY ProxyAssumption
   DEF ProxyAssumption, L!ListenerAssumption, LP!ListenerAssumption,
       L!NoDevice, LP!NoDevice, L!Doublings, LP!Doublings

-----------------------------------------------------------------------------
(* The steps of a part leave the other as it has to be.                    *)

\* A listener sends one advert in a step or none.
LEMMA SendsOne ==
  ASSUME L!Next
  PROVE  out' = out \/ \E a : out' = Append(out, a)
<1> USE DEF L!listenerVars, L!runVars
<1>1. CASE L!Environment
  BY <1>1 DEF L!Environment, L!Sight, L!Forget, L!PowerOff, L!PowerOn,
              L!ScanPauses, L!BluezCrash, L!BluezStarts, L!BusLost,
              L!BusReturns
<1>2. CASE L!RunLasts \/ L!WakeUp
  BY <1>2 DEF L!RunLasts, L!WakeUp
<1>3. CASE L!Listener
  <2>1. CASE L!Connect \/ L!AddMatch \/ L!SetDiscoveryFilter
    BY <2>1 DEF L!Connect, L!AddMatch, L!SetDiscoveryFilter, L!Fail
  <2>2. CASE L!StartDiscovery \/ L!StreamError
    BY <2>2 DEF L!StartDiscovery, L!StreamError, L!Fail
  <2>3. CASE L!AdapterSignal \/ L!PropsSignal
    BY <2>3 DEF L!AdapterSignal, L!PropsSignal
  <2>4. CASE L!GetAll \/ L!IfaceSignal
    BY <2>4 DEF L!GetAll, L!IfaceSignal
  <2> QED BY <1>3, <2>1, <2>2, <2>3, <2>4 DEF L!Listener
<1> QED BY <1>1, <1>2, <1>3 DEF L!Next

\* Sessions and the accept loop send nothing.
LEMMA OnlyPublishSends ==
  ASSUME AcceptFails \/ \E c \in Conn : Step(c)
  PROVE  tail' = tail
<1>1. CASE AcceptFails
  BY <1>1 DEF AcceptFails
<1>2. ASSUME NEW c \in Conn, Step(c) PROVE tail' = tail
  <2>1. CASE Client(c)
    BY <2>1 DEF Client, Dial, SendRequest, ReadFrame, Break
  <2>2. CASE Accept(c) \/ ReadBranch(c) \/ RecvBranch(c)
    BY <2>2 DEF Accept, ReadBranch, Read, ReadEnds, RecvBranch, RecvForward,
                RecvIgnore, RecvLagged, RecvFails
  <2>3. CASE Dispatch(c)
    BY <2>3 DEF Dispatch, BufferDrained, FramingPanic, HandleAnswered,
                HandlerFails, HandleSubscribe, HandleUnsubscribe, HandleUnknown
  <2>4. CASE Write(c)
    BY <2>4 DEF Write, WriteDone, WriteFails, Shutdown
  <2> QED BY <1>2, <2>1, <2>2, <2>3, <2>4 DEF Step
<1> QED BY <1>1, <1>2

\* Every step of the proxy is one of its server, or none.
LEMMA ServerStep == [ProxyNext]_proxyVars => [Next]_vars
BY DEF ProxyNext, proxyVars, serverVars, Sending, Serving, Next

\* Every step of the proxy is one of its listener, or none.
LEMMA ListenerStep == [ProxyNext]_proxyVars => [L!Next]_bleVars
BY DEF ProxyNext, proxyVars, Serving

-----------------------------------------------------------------------------
(* The proxy implements its parts.                                         *)

\* The sessions of the proxy are those of Server: what is proved of the server
\* holds whatever the listener does (the broadcast channel of main).
THEOREM ProxyServes == ProxySafeSpec => SafeSpec
<1>1. ProxyInit => Init
  BY DEF ProxyInit
<1> QED BY <1>1, ServerStep, PTL DEF ProxySafeSpec, SafeSpec

\* The listener of the proxy is Listener: no session holds it up or makes it
\* send (tx.send of run_bluez_advertisement_listener never waits).
THEOREM ProxyListens == ProxySafeSpec => L!SafeSpec
<1>1. ProxyInit => L!Init
  BY DEF ProxyInit
<1>2. bleVars' = bleVars => L!vars' = L!vars
  BY DEF bleVars, L!vars, L!bluezVars, L!filterVars, L!streamVars,
         L!listenerVars, L!runVars
<1>3. [ProxyNext]_proxyVars => [L!Next]_(L!vars)
  BY <1>2, ListenerStep
<1> QED BY <1>1, <1>3, PTL DEF ProxySafeSpec, L!SafeSpec

\* ListenerProofs is about the same listener.
LEMMA SameListener == L!SafeSpec => LP!SafeSpec
<1>1. L!Init => LP!Init
  BY DEF L!Init, LP!Init, L!NoDevice, LP!NoDevice, L!NothingOwed,
         LP!NothingOwed
<1>2. L!vars = LP!vars /\ L!vars' = LP!vars'
  BY DEF L!vars, L!bluezVars, L!filterVars, L!streamVars, L!listenerVars,
         L!runVars, LP!vars, LP!bluezVars, LP!filterVars, LP!streamVars,
         LP!listenerVars, LP!runVars
<1>3. L!Next => LP!Next
  <2> USE DEF L!bluezVars, L!filterVars, L!streamVars, L!listenerVars,
              LP!bluezVars, LP!filterVars, LP!streamVars, LP!listenerVars,
              L!runVars, LP!runVars, L!Hears, LP!Hears, L!Emit, LP!Emit, L!NoDevice, LP!NoDevice,
              L!NothingOwed, LP!NothingOwed
  <2>1. \A d \in Device : /\ L!Sight(d) => LP!Sight(d)
                          /\ L!Forget(d) => LP!Forget(d)
    BY DEF L!Sight, LP!Sight, L!Forget, LP!Forget
  <2>2. L!Environment => LP!Environment
    BY <2>1 DEF L!Environment, LP!Environment, L!PowerOff, LP!PowerOff,
      L!PowerOn, LP!PowerOn, L!ScanPauses, LP!ScanPauses, L!BluezCrash,
      LP!BluezCrash, L!BluezStarts, LP!BluezStarts, L!BusLost, LP!BusLost,
      L!BusReturns, LP!BusReturns, L!LoseFilter, LP!LoseFilter
  <2>3. L!Fail => LP!Fail
    BY DEF L!Fail, LP!Fail
  <2>4. L!RunLasts \/ L!WakeUp => LP!RunLasts \/ LP!WakeUp
    BY DEF L!RunLasts, LP!RunLasts, L!WakeUp, LP!WakeUp, L!Min, LP!Min
  <2>5. L!Listener => LP!Listener
    BY <2>3 DEF L!Listener, LP!Listener, L!Connect, LP!Connect, L!AddMatch,
      LP!AddMatch, L!SetDiscoveryFilter, LP!SetDiscoveryFilter,
      L!StartDiscovery, LP!StartDiscovery, L!AdapterSignal, LP!AdapterSignal,
      L!PropsSignal, LP!PropsSignal, L!GetAll, LP!GetAll, L!IfaceSignal,
      LP!IfaceSignal, L!StreamError, LP!StreamError
  <2> QED BY <2>2, <2>4, <2>5 DEF L!Next, LP!Next
<1>4. [L!Next]_(L!vars) => [LP!Next]_(LP!vars)
  BY <1>2, <1>3
<1> QED BY <1>1, <1>4, PTL DEF L!SafeSpec, LP!SafeSpec

-----------------------------------------------------------------------------
(* What a client is told.                                                  *)

\* The channel has taken the adverts the listener has sent.
Linked == tail = Len(out)

\* Positions of the channel are positions of the listener's adverts.
LEMMA PositionsLinked == ProxySafeSpec => []Linked
<1> USE DEF Linked
<1>1. ProxyInit => Linked
  BY DEF ProxyInit, Init, L!Init
<1>2. LP!TypeOK /\ Linked /\ [ProxyNext]_proxyVars => Linked'
  <2> SUFFICES ASSUME LP!TypeOK, Linked, [ProxyNext]_proxyVars
               PROVE  tail' = Len(out')
    OBVIOUS
  <2>1. out \in Seq(LP!Advert)
    BY DEF LP!TypeOK, LP!Advert
  <2>2. CASE L!Next /\ Sending
    <3>1. CASE out' = out
      BY <2>2, <3>1 DEF Sending, serverVars, vars
    <3>2. CASE out' # out
      <4>1. PICK a : out' = Append(out, a)
        BY <2>2, <3>2, SendsOne
      <4>2. Len(out') = Len(out) + 1
        BY <2>1, <4>1
      <4>3. tail' = tail + 1
        BY <2>2, <3>2 DEF Sending, Publish
      <4> QED BY <4>2, <4>3
    <3> QED BY <3>1, <3>2
  <2>3. CASE (AcceptFails \/ \E c \in Conn : Step(c)) /\ Serving
    BY <2>3, OnlyPublishSends DEF Serving, bleVars
  <2>4. CASE UNCHANGED proxyVars
    BY <2>4 DEF proxyVars, serverVars, vars, bleVars
  <2> QED BY <2>2, <2>3, <2>4 DEF ProxyNext
<1> QED
  BY <1>1, <1>2, ProxyListens, SameListener, ListenerConstants,
     LP!TypeCorrect, PTL DEF ProxySafeSpec

\* A client is told newer and newer states of a device, but for those that an
\* InterfacesAdded carried: for any number of clients, however slow they are
\* and whatever the channel has dropped (run_bluez_advertisement_listener's
\* sends, the channel and handle_client's recv).
THEOREM ClientsNeverGoBack == ProxySafeSpec => []FramesNeverGoBack
<1>1. ASSUME IInv, Linked, LP!FetchedNeverGoesBack
      PROVE  FramesNeverGoBack
  <2> SUFFICES ASSUME NEW c \in Conn, NEW i \in 1..Len(sent[c]),
                      NEW j \in 1..Len(sent[c]), i < j,
                      IsAdvert(sent[c][i]), IsAdvert(sent[c][j]),
                      Carried(sent[c][j]).dev = Carried(sent[c][i]).dev,
                      Carried(sent[c][j]).ver < Carried(sent[c][i]).ver
               PROVE  Carried(sent[c][j]).src = "added"
    BY DEF FramesNeverGoBack
  <2>1. TypeOK /\ Session(c)
    BY <1>1 DEF IInv
  <2>2. sent[c][i].pos \in Int /\ sent[c][j].pos \in Int
    <3>1. sent[c][i] \in Frame /\ sent[c][j] \in Frame
      BY <2>1, ConnTypes
    <3> QED BY <3>1 DEF Frame
  <2>3. Settled(c) <= tail /\ Settled(c) \in Int /\ tail \in Nat
    BY <2>1, ConnTypes DEF Settled, Session
  <2>4. /\ 0 <= sent[c][i].pos
        /\ sent[c][i].pos < sent[c][j].pos
        /\ sent[c][j].pos < Settled(c)
    BY <2>1 DEF Session, Ordered
  <2>5. /\ sent[c][i].pos + 1 \in 1..Len(out)
        /\ sent[c][j].pos + 1 \in 1..Len(out)
        /\ sent[c][i].pos + 1 < sent[c][j].pos + 1
    <3>1. tail = Len(out)
      BY <1>1 DEF Linked
    <3> QED BY <2>2, <2>3, <2>4, <3>1
  <2> QED BY <1>1, <2>5 DEF LP!FetchedNeverGoesBack, Carried
<1> QED
  BY <1>1, ProxyServes, Invariance, PositionsLinked, ProxyListens,
     SameListener, ListenerConstants, LP!FetchedIsNewest, PTL
=============================================================================
