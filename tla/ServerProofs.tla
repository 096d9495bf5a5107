---------------------------- MODULE ServerProofs ----------------------------
(***************************************************************************)
(* Proofs about Server for every set of connections, every channel and     *)
(* socket capacity and every bound: type correctness, the order of the     *)
(* adverts, the finality of a DisconnectResponse, and what a client can    *)
(* conclude from the stream of one connection: its requests are answered   *)
(* in order and once, and every advert is explained by the requests        *)
(* handled before it.  The last two relate the whole of what was asked to  *)
(* the whole of what was sent, so that the argument is by counting: a      *)
(* session has written a reply to as many requests as it has handled that  *)
(* expect one.  At the end, Server implements AdvertFeed.                  *)
(***************************************************************************)
EXTENDS ServerProperties, FiniteSetTheorems, Induction

-----------------------------------------------------------------------------
(* The inductive invariant.                                                *)

\* The adverts a session has dealt with: those before this position.
Settled(c) == IF IsAdvert(pend[c]) THEN cursor[c] - 1 ELSE cursor[c]

\* next_message takes only what was read, and only what was sent is read.
Counted(c) == nproc[c] <= nread[c] /\ nread[c] <= Len(asked[c])

\* What write_all is writing: the advert just received, in the form of the
\* flags in force, or the reply to the request last taken.
Pending(c) ==
  /\ task[c] \notin {"write", "ended"} => pend[c] = NoFrame
  /\ task[c] = "write" => pend[c] # NoFrame
  /\ IsAdvert(pend[c]) =>
       /\ subscription_flags[c] # none
       /\ cursor[c] >= 1
       /\ pend[c] = [id |-> AdvertId(subscription_flags[c]),
                     pos |-> cursor[c] - 1]
  /\ pend[c] # NoFrame /\ ~IsAdvert(pend[c]) =>
       /\ nproc[c] >= 1
       /\ asked[c][nproc[c]].type \in Answered
       /\ asked[c][nproc[c]].valid
       /\ pend[c] = Reply(asked[c][nproc[c]].type)

\* Once a DisconnectResponse is written, no further write can succeed.
Final(c) ==
  \A i \in 1..Len(sent[c]) :
    sent[c][i].id = DisconnectResponse =>
      i = Len(sent[c]) /\ (wclosed[c] \/ task[c] \in {"shutdown", "ended"})

\* The stream is ordered and has only adverts that are settled.
Ordered(c) ==
  /\ \A i \in 1..Len(sent[c]) :
       IsAdvert(sent[c][i]) =>
         0 <= sent[c][i].pos /\ sent[c][i].pos < Settled(c)
  /\ \A i, j \in 1..Len(sent[c]) :
       i < j /\ IsAdvert(sent[c][i]) /\ IsAdvert(sent[c][j])
         => sent[c][i].pos < sent[c][j].pos

Session(c) ==
  /\ cursor[c] <= tail
  /\ Counted(c)
  /\ Pending(c)
  /\ Final(c)
  /\ Ordered(c)

IInv == TypeOK /\ \A c \in Conn : Session(c)

-----------------------------------------------------------------------------
(* Facts about messages.                                                   *)

\* A reply is a frame, is not an advert and is not the absent frame.
LEMMA ReplyFrame ==
  ASSUME NEW t \in Answered
  PROVE  /\ Reply(t) \in Frame
         /\ ~IsAdvert(Reply(t))
         /\ Reply(t) # NoFrame
BY DEF Answered, Reply, ReplyTo, Frame, IsAdvert, NoFrame, HelloRequest,
       ConnectRequest, DisconnectRequest, PingRequest, DeviceInfoRequest,
       ListEntitiesRequest, ConnectionsFree, ListEntitiesDone, LegacyAdvert,
       RawAdvert

\* The absent frame is a frame and no advert.
LEMMA NoFrameFact == NoFrame \in Frame /\ ~IsAdvert(NoFrame)
BY DEF NoFrame, Frame, IsAdvert, LegacyAdvert, RawAdvert

\* A frame forwarded under any flags is an advert, and no DisconnectResponse.
LEMMA AdvertFrame ==
  ASSUME NEW f, NEW p \in Int
  PROVE  /\ [id |-> AdvertId(f), pos |-> p] \in Frame
         /\ IsAdvert([id |-> AdvertId(f), pos |-> p])
         /\ AdvertId(f) # DisconnectResponse
BY DEF AdvertId, Frame, IsAdvert, RawAdvert, LegacyAdvert, DisconnectResponse

\* Flags are well formed whatever number a request carries.
LEMMA FlagsType ==
  /\ none \in SubscriptionFlags
  /\ \A n \in Nat : from_flags(n) \in SubscriptionFlags
BY DEF none, from_flags, SubscriptionFlags

-----------------------------------------------------------------------------
(* Type correctness.                                                       *)

\* The channel is never sent to a receiver position below zero and no field
\* leaves its type (every action of Server).
THEOREM TypeCorrect == SafeSpec => []TypeOK
<1>1. Init => TypeOK
  BY NoFrameFact, FlagsType DEF Init, TypeOK, Phases
<1>2. TypeOK /\ [Next]_vars => TypeOK'
  <2> SUFFICES ASSUME TypeOK, [Next]_vars PROVE TypeOK'
    OBVIOUS
  <2> USE ServerAssumption DEF TypeOK, Phases
  <2>1. CASE UNCHANGED vars
    BY <2>1 DEF vars, clientVars, sessionVars
  <2>2. CASE Publish
    BY <2>2 DEF Publish, clientVars, sessionVars
  <2>3. CASE AcceptFails
    BY <2>3 DEF AcceptFails, clientVars
  <2>4. ASSUME NEW c \in Conn, Client(c) PROVE TypeOK'
    <3>1. CASE Dial(c)
      BY <3>1 DEF Dial, clientVars
    <3>2. CASE \E r \in Requests : SendRequest(c, r)
      BY <3>2 DEF SendRequest, sessionVars
    <3>3. CASE ReadFrame(c)
      BY <3>3 DEF ReadFrame, sessionVars
    <3>4. CASE \E fault \in PeerFaults : Break(c, fault)
      BY <3>4 DEF Break, sessionVars
    <3> QED BY <2>4, <3>1, <3>2, <3>3, <3>4 DEF Client
  <2>5. ASSUME NEW c \in Conn, Accept(c) PROVE TypeOK'
    BY <2>5 DEF Accept, clientVars
  <2>6. ASSUME NEW c \in Conn, ReadBranch(c) PROVE TypeOK'
    <3>1. ASSUME NEW k \in 0..MaxRequests, NEW short \in BOOLEAN,
                 Read(c, k, short)
          PROVE  TypeOK'
      BY <3>1 DEF Read, clientVars
    <3>2. CASE ReadEnds(c)
      BY <3>2 DEF ReadEnds, End, clientVars
    <3> QED BY <2>6, <3>1, <3>2 DEF ReadBranch
  <2>7. ASSUME NEW c \in Conn, RecvBranch(c) PROVE TypeOK'
    <3>1. CASE RecvForward(c)
      BY <3>1, AdvertFrame DEF RecvForward, clientVars, Lag
    <3>2. CASE RecvIgnore(c)
      BY <3>2 DEF RecvIgnore, clientVars, Lag
    <3>3. CASE RecvLagged(c)
      BY <3>3 DEF RecvLagged, clientVars, Lag
    <3>4. CASE RecvFails(c)
      BY <3>4 DEF RecvFails, End, clientVars, Lag
    <3> QED BY <2>7, <3>1, <3>2, <3>3, <3>4 DEF RecvBranch
  <2>8. ASSUME NEW c \in Conn, Dispatch(c) PROVE TypeOK'
    <3>1. CASE BufferDrained(c)
      BY <3>1 DEF BufferDrained, clientVars
    <3>2. CASE FramingPanic(c)
      BY <3>2 DEF FramingPanic, End, clientVars
    <3>3. CASE HandleAnswered(c)
      BY <3>3, ReplyFrame DEF HandleAnswered, Take, clientVars
    <3>4. CASE HandlerFails(c)
      BY <3>4 DEF HandlerFails, Take, End, clientVars
    <3>5. CASE HandleSubscribe(c)
      <4>1. PICK r \in Requests :
              /\ Take(c, r)
              /\ \/ subscription_flags' =
                      [subscription_flags EXCEPT ![c] = from_flags(r.flags)]
                 \/ UNCHANGED subscription_flags
              /\ UNCHANGED <<up, tail, clientVars, task, nread, torn, cursor,
                             pend, sent, wclosed>>
        BY <3>5 DEF HandleSubscribe
      <4>2. from_flags(r.flags) \in SubscriptionFlags
        <5> r.flags \in Nat
          BY DEF Request
        <5> QED BY FlagsType
      <4>3. subscription_flags' \in [Conn -> SubscriptionFlags]
        BY <4>1, <4>2
      <4>4. nproc' \in [Conn -> Nat]
        BY <4>1 DEF Take
      <4>5. UNCHANGED <<up, tail, clientVars, task, nread, torn, cursor, pend,
                       sent, wclosed>>
        BY <4>1
      <4> QED BY <4>3, <4>4, <4>5 DEF clientVars
    <3>6. CASE HandleUnsubscribe(c)
      BY <3>6, FlagsType DEF HandleUnsubscribe, Take, clientVars
    <3>7. CASE HandleUnknown(c)
      BY <3>7 DEF HandleUnknown, Take, clientVars
    <3> QED
      BY <2>8, <3>1, <3>2, <3>3, <3>4, <3>5, <3>6, <3>7 DEF Dispatch
  <2>9. ASSUME NEW c \in Conn, Write(c) PROVE TypeOK'
    <3>1. CASE WriteDone(c)
      BY <3>1, NoFrameFact DEF WriteDone, AfterWrite, clientVars
    <3>2. CASE WriteFails(c)
      BY <3>2 DEF WriteFails, End, clientVars
    <3>3. CASE Shutdown(c)
      BY <3>3 DEF Shutdown, End, clientVars
    <3> QED BY <2>9, <3>1, <3>2, <3>3 DEF Write
  <2> QED
    BY <2>1, <2>2, <2>3, <2>4, <2>5, <2>6, <2>7, <2>8, <2>9 DEF Next, Step
<1> QED BY <1>1, <1>2, PTL DEF SafeSpec

-----------------------------------------------------------------------------
(* What leaves a conjunct of Session as it is.                             *)

\* The part of a connection's state the invariant is about does not change.
Same(c) ==
  /\ asked'[c] = asked[c]
  /\ task'[c] = task[c]
  /\ nread'[c] = nread[c]
  /\ nproc'[c] = nproc[c]
  /\ subscription_flags'[c] = subscription_flags[c]
  /\ cursor'[c] = cursor[c]
  /\ pend'[c] = pend[c]
  /\ sent'[c] = sent[c]
  /\ wclosed'[c] = wclosed[c]

\* The types of one connection's state, as the lemmas need them.
LEMMA ConnTypes ==
  ASSUME TypeOK, NEW c \in Conn
  PROVE  /\ tail \in Nat
         /\ asked[c] \in Seq(Requests)
         /\ task[c] \in Phases
         /\ nread[c] \in Nat
         /\ nproc[c] \in Nat
         /\ subscription_flags[c] \in SubscriptionFlags
         /\ cursor[c] \in Nat
         /\ pend[c] \in Frame
         /\ sent[c] \in Seq(Frame)
         /\ wclosed[c] \in BOOLEAN
         /\ Settled(c) \in Int
BY DEF TypeOK, Settled

\* A stream that does not change stays ordered while Settled moves on.
LEMMA OrderedKept ==
  ASSUME TypeOK, TypeOK', NEW c \in Conn, Ordered(c),
         sent'[c] = sent[c], Settled(c) <= Settled(c)'
  PROVE  Ordered(c)'
<1>1. Settled(c) \in Int /\ Settled(c)' \in Int
  <2>1. cursor[c] \in Nat /\ cursor'[c] \in Nat
    BY DEF TypeOK
  <2> QED BY <2>1 DEF Settled
<1>2. \A i \in 1..Len(sent[c]) : sent[c][i].pos \in Int
  <2>1. sent[c] \in Seq(Frame)
    BY ConnTypes
  <2>2. \A i \in 1..Len(sent[c]) : sent[c][i] \in Frame
    BY <2>1
  <2> QED BY <2>2 DEF Frame
<1> QED BY <1>1, <1>2 DEF Ordered

\* A stream that does not change stays final if a shut connection stays shut.
LEMMA FinalKept ==
  ASSUME NEW c \in Conn, Final(c),
         sent'[c] = sent[c],
         wclosed[c] => wclosed'[c],
         task[c] \in {"shutdown", "ended"} =>
           wclosed'[c] \/ task'[c] \in {"shutdown", "ended"}
  PROVE  Final(c)'
BY DEF Final

\* A frame being written stays what it was if what it stands for does.
LEMMA PendingKept ==
  ASSUME NEW c \in Conn, Pending(c),
         pend'[c] = pend[c],
         IsAdvert(pend[c]) =>
           /\ subscription_flags'[c] = subscription_flags[c]
           /\ cursor'[c] = cursor[c],
         pend[c] # NoFrame /\ ~IsAdvert(pend[c]) =>
           /\ nproc'[c] = nproc[c]
           /\ asked'[c][nproc[c]] = asked[c][nproc[c]],
         task'[c] \notin {"write", "ended"} => pend[c] = NoFrame,
         task'[c] = "write" => task[c] = "write"
  PROVE  Pending(c)'
<1>1. CASE pend[c] = NoFrame
  BY <1>1, NoFrameFact DEF Pending
<1>2. CASE pend[c] # NoFrame
  BY <1>2 DEF Pending
<1> QED BY <1>1, <1>2

\* A step that writes nothing keeps the invariant if a frame that is being
\* written still stands for the same thing and a shut connection stays shut.
LEMMA ControlStep ==
  ASSUME TypeOK, TypeOK', NEW c \in Conn, Session(c),
         pend'[c] = pend[c],
         sent'[c] = sent[c],
         wclosed[c] => wclosed'[c],
         cursor[c] <= cursor'[c],
         cursor'[c] <= tail',
         Counted(c)',
         IsAdvert(pend[c]) =>
           /\ subscription_flags'[c] = subscription_flags[c]
           /\ cursor'[c] = cursor[c],
         pend[c] # NoFrame /\ ~IsAdvert(pend[c]) =>
           /\ nproc'[c] = nproc[c]
           /\ asked'[c][nproc[c]] = asked[c][nproc[c]],
         task'[c] \notin {"write", "ended"} => pend[c] = NoFrame,
         task'[c] = "write" => task[c] = "write",
         task[c] \in {"shutdown", "ended"} =>
           wclosed'[c] \/ task'[c] \in {"shutdown", "ended"}
  PROVE  Session(c)'
<1>1. Pending(c)'
  BY PendingKept DEF Session
<1>2. Final(c)'
  BY FinalKept DEF Session
<1>3. Settled(c) <= Settled(c)'
  BY DEF Settled, TypeOK
<1>4. Ordered(c)'
  BY <1>3, OrderedKept DEF Session
<1> QED BY <1>1, <1>2, <1>4 DEF Session

\* A connection that is left alone keeps its invariant.
LEMMA SessionKept ==
  ASSUME TypeOK, TypeOK', NEW c \in Conn, Session(c), Same(c), tail <= tail'
  PROVE  Session(c)'
<1>1. cursor[c] <= cursor'[c] /\ cursor'[c] <= tail'
  BY ConnTypes DEF Session, Same, TypeOK
<1>2. Counted(c)'
  BY DEF Session, Counted, Same
<1> QED BY <1>1, <1>2, ControlStep DEF Session, Same, Pending

\* A step on another connection leaves this one alone.
LEMMA Elsewhere ==
  ASSUME TypeOK, NEW d \in Conn, Step(d), NEW c \in Conn, c # d
  PROVE  Same(c) /\ tail' = tail
<1> USE DEF TypeOK, Same, clientVars, sessionVars
<1>1. CASE Client(d)
  BY <1>1 DEF Client, Dial, SendRequest, ReadFrame, Break
<1>2. CASE Accept(d)
  BY <1>2 DEF Accept
<1>3. CASE ReadBranch(d)
  BY <1>3 DEF ReadBranch, Read, ReadEnds, End
<1>4. CASE RecvBranch(d)
  BY <1>4 DEF RecvBranch, RecvForward, RecvIgnore, RecvLagged, RecvFails, End
<1>5. CASE Dispatch(d)
  <2>1. CASE BufferDrained(d) \/ FramingPanic(d)
    BY <2>1 DEF BufferDrained, FramingPanic, End
  <2>2. CASE HandleAnswered(d) \/ HandlerFails(d)
    BY <2>2 DEF HandleAnswered, HandlerFails, Take, End
  <2>3. CASE HandleSubscribe(d)
    BY <2>3 DEF HandleSubscribe, Take
  <2>4. CASE HandleUnsubscribe(d) \/ HandleUnknown(d)
    BY <2>4 DEF HandleUnsubscribe, HandleUnknown, Take
  <2> QED BY <1>5, <2>1, <2>2, <2>3, <2>4 DEF Dispatch
<1>6. CASE Write(d)
  BY <1>6 DEF Write, WriteDone, WriteFails, Shutdown, End
<1> QED BY <1>1, <1>2, <1>3, <1>4, <1>5, <1>6 DEF Step

-----------------------------------------------------------------------------
(* Every step of a connection keeps its invariant.                         *)

\* The client's steps touch nothing the task has begun.
LEMMA ClientSession ==
  ASSUME TypeOK, TypeOK', NEW c \in Conn, Session(c), Client(c)
  PROVE  Session(c)'
<1> USE DEF clientVars, sessionVars
<1>1. CASE Dial(c)
  <2>1. /\ task[c] = "new" /\ task'[c] = "backlog"
        /\ UNCHANGED <<tail, asked, nread, nproc, subscription_flags, cursor,
                       pend, sent, wclosed>>
    BY <1>1 DEF Dial, TypeOK
  <2>2. pend[c] = NoFrame
    BY <2>1 DEF Session, Pending
  <2>3. Counted(c)' /\ cursor[c] <= cursor'[c] /\ cursor'[c] <= tail'
    BY <2>1, ConnTypes DEF Session, Counted
  <2> QED BY <2>1, <2>2, <2>3, ControlStep
<1>2. ASSUME NEW r \in Requests, SendRequest(c, r) PROVE Session(c)'
  <2>1. /\ asked'[c] = Append(asked[c], r) /\ asked[c] \in Seq(Requests)
        /\ UNCHANGED <<tail, task, nread, nproc, subscription_flags, cursor,
                       pend, sent, wclosed>>
    BY <1>2 DEF SendRequest, TypeOK
  <2>2. Len(asked'[c]) = Len(asked[c]) + 1
    BY <2>1
  <2>3. Counted(c)'
    BY <2>1, <2>2, ConnTypes DEF Session, Counted
  <2>4. pend[c] # NoFrame /\ ~IsAdvert(pend[c])
          => asked'[c][nproc[c]] = asked[c][nproc[c]]
    BY <2>1, ConnTypes DEF Session, Pending, Counted
  <2>5. /\ cursor[c] <= cursor'[c] /\ cursor'[c] <= tail'
        /\ task[c] \notin {"write", "ended"} => pend[c] = NoFrame
    BY <2>1, ConnTypes DEF Session, Pending
  <2> QED BY <2>1, <2>3, <2>4, <2>5, ControlStep
<1>3. CASE ReadFrame(c)
  <2>1. Same(c) /\ tail <= tail'
    BY <1>3, ConnTypes DEF ReadFrame, Same
  <2> QED BY <2>1, SessionKept
<1>4. ASSUME NEW fault \in PeerFaults, Break(c, fault) PROVE Session(c)'
  <2>1. Same(c) /\ tail <= tail'
    BY <1>4, ConnTypes DEF Break, Same
  <2> QED BY <2>1, SessionKept
<1> QED BY <1>1, <1>2, <1>3, <1>4 DEF Client

\* The receiver of an accepted connection starts at the tail.
LEMMA AcceptSession ==
  ASSUME TypeOK, TypeOK', NEW c \in Conn, Session(c), Accept(c)
  PROVE  Session(c)'
<1>1. /\ task[c] = "backlog" /\ task'[c] = "select" /\ cursor'[c] = tail
      /\ UNCHANGED <<tail, asked, nread, nproc, subscription_flags, pend,
                     sent, wclosed>>
  BY DEF Accept, TypeOK, clientVars
<1>2. pend[c] = NoFrame
  BY <1>1 DEF Session, Pending
<1>3. Counted(c)' /\ cursor[c] <= cursor'[c] /\ cursor'[c] <= tail'
  BY <1>1, ConnTypes DEF Session, Counted
<1> QED BY <1>1, <1>2, <1>3, NoFrameFact, ControlStep

\* A read only makes more of the requests available, or ends the task.
LEMMA ReadSession ==
  ASSUME TypeOK, TypeOK', NEW c \in Conn, Session(c), ReadBranch(c)
  PROVE  Session(c)'
<1>1. /\ task[c] = "select"
      /\ task'[c] \in {"dispatch", "ended"}
      /\ nread[c] <= nread'[c] /\ nread'[c] <= Len(asked[c])
      /\ UNCHANGED <<tail, asked, nproc, subscription_flags, cursor, pend,
                     sent, wclosed>>
  <2>1. ASSUME NEW k \in 0..MaxRequests, NEW short \in BOOLEAN,
               Read(c, k, short)
        PROVE  <1>1!:
    BY <2>1, ServerAssumption DEF Read, TypeOK, clientVars
  <2>2. CASE ReadEnds(c)
    BY <2>2, ConnTypes DEF ReadEnds, End, TypeOK, clientVars, Session, Counted
  <2> QED BY <2>1, <2>2 DEF ReadBranch
<1>2. pend[c] = NoFrame
  BY <1>1 DEF Session, Pending
<1>3. Counted(c)' /\ cursor[c] <= cursor'[c] /\ cursor'[c] <= tail'
  BY <1>1, ConnTypes DEF Session, Counted, TypeOK
<1> QED BY <1>1, <1>2, <1>3, NoFrameFact, ControlStep

\* The receiver moves on; an advert that is forwarded becomes the frame in
\* hand, at the position just before the cursor.
LEMMA RecvSession ==
  ASSUME TypeOK, TypeOK', NEW c \in Conn, Session(c), RecvBranch(c)
  PROVE  Session(c)'
<1>1. /\ task[c] = "select" /\ pend[c] = NoFrame
      /\ UNCHANGED <<tail, asked, nread, nproc, subscription_flags, sent,
                     wclosed>>
  <2>1. /\ task[c] = "select"
        /\ UNCHANGED <<tail, asked, nread, nproc, subscription_flags, sent,
                       wclosed>>
    BY DEF RecvBranch, RecvForward, RecvIgnore, RecvLagged, RecvFails,
           clientVars
  <2> QED BY <2>1 DEF Session, Pending
<1>2. cursor[c] <= cursor'[c] /\ cursor'[c] <= tail' /\ cursor'[c] \in Nat
  <2>1. cursor'[c] \in Nat /\ tail \in Nat
    BY DEF TypeOK
  <2>2. CASE RecvLagged(c)
    <3>1. tail - cursor[c] > Capacity /\ cursor'[c] = tail - Capacity
      BY <2>2 DEF RecvLagged, Lag, TypeOK
    <3> QED BY <1>1, <2>1, <3>1, ConnTypes, ServerAssumption
  <2>3. CASE RecvForward(c) \/ RecvIgnore(c) \/ RecvFails(c)
    <3>1. Lag(c) \in 1..Capacity /\ cursor'[c] = cursor[c] + 1
      BY <2>3 DEF RecvForward, RecvIgnore, RecvFails, TypeOK
    <3> QED BY <1>1, <2>1, <3>1, ConnTypes, ServerAssumption DEF Lag
  <2> QED BY <2>2, <2>3 DEF RecvBranch
<1>3. Counted(c)'
  BY <1>1 DEF Session, Counted
<1>4. CASE RecvForward(c)
  <2>1. /\ pend'[c] = [id  |-> AdvertId(subscription_flags[c]),
                       pos |-> cursor[c]]
        /\ cursor'[c] = cursor[c] + 1
        /\ task'[c] = "write"
        /\ subscription_flags[c] # none
    BY <1>4 DEF RecvForward, TypeOK
  <2>2. IsAdvert(pend'[c])
    BY <2>1, AdvertFrame, ConnTypes
  <2>3. Pending(c)'
    BY <1>1, <2>1, <2>2, ConnTypes, NoFrameFact DEF Pending
  <2>4. Final(c)'
    BY <1>1, <2>1, FinalKept DEF Session
  <2>5. Settled(c)' = Settled(c)
    BY <1>1, <2>1, <2>2, ConnTypes, NoFrameFact DEF Settled
  <2>6. Ordered(c)'
    BY <1>1, <2>5, ConnTypes, OrderedKept DEF Session
  <2> QED BY <1>2, <1>3, <2>3, <2>4, <2>6 DEF Session
<1>5. CASE RecvIgnore(c) \/ RecvLagged(c) \/ RecvFails(c)
  <2>1. pend'[c] = pend[c] /\ task'[c] # "write"
    BY <1>1, <1>5 DEF RecvIgnore, RecvLagged, RecvFails, End, TypeOK
  <2> QED BY <1>1, <1>2, <1>3, <2>1, NoFrameFact, ControlStep
<1> QED BY <1>4, <1>5 DEF RecvBranch

\* The loop over next_message counts the request taken, and begins at most
\* the reply to it.
LEMMA DispatchSession ==
  ASSUME TypeOK, TypeOK', NEW c \in Conn, Session(c), Dispatch(c)
  PROVE  Session(c)'
<1>1. /\ task[c] = "dispatch"
      /\ UNCHANGED <<tail, asked, nread, cursor, sent, wclosed>>
  BY DEF Dispatch, BufferDrained, FramingPanic, HandleAnswered, HandlerFails,
         HandleSubscribe, HandleUnsubscribe, HandleUnknown, Take, clientVars
<1>2. pend[c] = NoFrame
  BY <1>1 DEF Session, Pending
<1>3. Counted(c)'
  <2>1. CASE BufferDrained(c) \/ FramingPanic(c)
    BY <1>1, <2>1 DEF BufferDrained, FramingPanic, Session, Counted
  <2>2. ASSUME NEW r \in Requests, Take(c, r) PROVE Counted(c)'
    <3>1. nproc[c] < nread[c] /\ nproc'[c] = nproc[c] + 1
      BY <2>2 DEF Take, TypeOK
    <3> QED BY <1>1, <3>1, ConnTypes DEF Session, Counted
  <2> QED
    BY <2>1, <2>2 DEF Dispatch, HandleAnswered, HandlerFails, HandleSubscribe,
                      HandleUnsubscribe, HandleUnknown
<1>4. cursor[c] <= cursor'[c] /\ cursor'[c] <= tail'
  BY <1>1, ConnTypes DEF Session
<1>5. CASE HandleAnswered(c)
  <2>1. PICK r \in Requests :
          /\ Take(c, r) /\ r.type \in Answered /\ r.valid
          /\ pend' = [pend EXCEPT ![c] = Reply(r.type)]
          /\ task' = [task EXCEPT ![c] = "write"]
    BY <1>5 DEF HandleAnswered
  <2>2. /\ pend'[c] = Reply(r.type)
        /\ task'[c] = "write"
        /\ nproc'[c] = nproc[c] + 1
        /\ r = asked'[c][nproc'[c]]
    BY <1>1, <2>1 DEF Take, TypeOK
  <2>3. pend'[c] # NoFrame /\ ~IsAdvert(pend'[c])
    BY <2>1, <2>2, ReplyFrame
  <2>4. Pending(c)'
    BY <2>1, <2>2, <2>3, ConnTypes DEF Pending
  <2>5. Final(c)'
    BY <1>1, FinalKept DEF Session
  <2>6. Settled(c)' = Settled(c)
    BY <1>1, <1>2, <2>3, NoFrameFact DEF Settled
  <2>7. Ordered(c)'
    BY <1>1, <2>6, ConnTypes, OrderedKept DEF Session
  <2> QED BY <1>3, <1>4, <2>4, <2>5, <2>7 DEF Session
<1>6. CASE ~HandleAnswered(c)
  <2>1. pend'[c] = pend[c] /\ task'[c] # "write"
    BY <1>1, <1>6 DEF End, TypeOK, Dispatch, BufferDrained, FramingPanic, HandlerFails,
                HandleSubscribe, HandleUnsubscribe, HandleUnknown
  <2> QED BY <1>1, <1>2, <1>3, <1>4, <2>1, NoFrameFact, ControlStep
<1> QED BY <1>5, <1>6

\* A frame that is written follows only older adverts and no
\* DisconnectResponse, since that one leads to the shutdown.
LEMMA WriteSession ==
  ASSUME TypeOK, TypeOK', NEW c \in Conn, Session(c), Write(c)
  PROVE  Session(c)'
<1>1. UNCHANGED <<tail, asked, nread, nproc, subscription_flags, cursor>>
  BY DEF Write, WriteDone, WriteFails, Shutdown, clientVars
<1>2. Counted(c)' /\ cursor[c] <= cursor'[c] /\ cursor'[c] <= tail'
  BY <1>1, ConnTypes DEF Session, Counted
<1>3. CASE WriteDone(c)
  <2>1. /\ task[c] = "write" /\ ~wclosed[c]
        /\ sent'[c] = Append(sent[c], pend[c])
        /\ task'[c] = AfterWrite(pend[c])
        /\ pend'[c] = NoFrame
        /\ sent[c] \in Seq(Frame) /\ pend[c] \in Frame
    BY <1>3 DEF WriteDone, TypeOK
  <2>2. Pending(c)'
    <3>1. task'[c] # "write"
      BY <2>1 DEF AfterWrite
    <3> QED BY <2>1, <3>1, NoFrameFact DEF Pending
  <2>3. /\ Len(sent'[c]) = Len(sent[c]) + 1
        /\ \A i \in 1..Len(sent[c]) : sent'[c][i] = sent[c][i]
        /\ sent'[c][Len(sent[c]) + 1] = pend[c]
    BY <2>1
  <2>4. Final(c)'
    <3>1. \A i \in 1..Len(sent[c]) : sent[c][i].id # DisconnectResponse
      BY <2>1 DEF Session, Final
    <3>2. pend[c].id = DisconnectResponse => task'[c] = "shutdown"
      BY <2>1 DEF AfterWrite, IsAdvert, LegacyAdvert, RawAdvert,
                  DisconnectResponse
    <3> QED BY <2>1, <2>3, <3>1, <3>2 DEF Final
  <2>5. Ordered(c)'
    <3>1. Settled(c)' = cursor[c]
      BY <1>1, <2>1, NoFrameFact DEF Settled
    <3>2. Settled(c) <= cursor[c] /\ Settled(c) \in Int /\ cursor[c] \in Nat
      BY ConnTypes DEF Settled
    <3>3. IsAdvert(pend[c]) =>
            /\ pend[c].pos = Settled(c)
            /\ 0 <= pend[c].pos /\ pend[c].pos < cursor[c]
      BY ConnTypes DEF Session, Pending, Settled
    <3>4. \A i \in 1..Len(sent[c]) : sent[c][i].pos \in Int
      <4>1. \A i \in 1..Len(sent[c]) : sent[c][i] \in Frame
        BY <2>1
      <4> QED BY <4>1 DEF Frame
    <3>5. \A i \in 1..Len(sent'[c]) :
            IsAdvert(sent'[c][i]) =>
              0 <= sent'[c][i].pos /\ sent'[c][i].pos < Settled(c)'
      BY <2>1, <2>3, <3>1, <3>2, <3>3, <3>4 DEF Session, Ordered
    <3>6. \A i, j \in 1..Len(sent'[c]) :
            i < j /\ IsAdvert(sent'[c][i]) /\ IsAdvert(sent'[c][j])
              => sent'[c][i].pos < sent'[c][j].pos
      BY <2>1, <2>3, <3>2, <3>3, <3>4 DEF Session, Ordered
    <3> QED BY <3>5, <3>6 DEF Ordered
  <2> QED BY <1>2, <2>2, <2>4, <2>5 DEF Session
<1>4. CASE WriteFails(c) \/ Shutdown(c)
  <2>1. /\ UNCHANGED <<sent, pend>>
        /\ task'[c] \in {"ended", "dispatch"}
        /\ task'[c] = "ended" \/ (task[c] = "shutdown" /\ wclosed'[c])
        /\ wclosed[c] => wclosed'[c]
    BY <1>4 DEF WriteFails, Shutdown, End, TypeOK
  <2>2. task'[c] \notin {"write", "ended"} => pend[c] = NoFrame
    BY <2>1 DEF Session, Pending
  <2> QED BY <1>1, <1>2, <2>1, <2>2, ControlStep
<1> QED BY <1>3, <1>4 DEF Write

-----------------------------------------------------------------------------
(* The invariant and the two safety properties.                            *)

\* Whatever moves, the session of one connection keeps its invariant.
LEMMA StepSession ==
  ASSUME TypeOK, TypeOK', NEW c \in Conn, Session(c), Next
  PROVE  Session(c)'
<1>1. CASE Publish
  <2>1. Same(c) /\ tail <= tail'
    BY <1>1, ConnTypes DEF Publish, Same, sessionVars, clientVars
  <2> QED BY <2>1, SessionKept
<1>2. CASE AcceptFails
  <2>1. /\ task'[c] = IF task[c] = "new" THEN "new" ELSE "ended"
        /\ UNCHANGED <<tail, asked, nread, nproc, subscription_flags, cursor,
                       pend, sent, wclosed>>
    BY <1>2 DEF AcceptFails, clientVars
  <2>2. Counted(c)' /\ cursor[c] <= cursor'[c] /\ cursor'[c] <= tail'
    BY <2>1, ConnTypes DEF Session, Counted
  <2>3. task'[c] \notin {"write", "ended"} => pend[c] = NoFrame
    BY <2>1 DEF Session, Pending
  <2> QED BY <2>1, <2>2, <2>3, ControlStep
<1>3. ASSUME NEW d \in Conn, Step(d), d # c PROVE Session(c)'
  <2>1. Same(c) /\ tail <= tail'
    BY <1>3, Elsewhere, ConnTypes
  <2> QED BY <2>1, SessionKept
<1>4. CASE Step(c)
  BY <1>4, ClientSession, AcceptSession, ReadSession, RecvSession,
     DispatchSession, WriteSession DEF Step
<1> QED BY <1>1, <1>2, <1>3, <1>4 DEF Next

\* The inductive invariant holds of every reachable state.
THEOREM Invariance == SafeSpec => []IInv
<1>1. Init => \A c \in Conn : Session(c)
  <2> SUFFICES ASSUME Init, NEW c \in Conn PROVE Session(c)
    OBVIOUS
  <2>1. cursor[c] <= tail /\ Counted(c)
    BY DEF Init, Counted
  <2>2. Pending(c) /\ Settled(c) = 0
    BY NoFrameFact DEF Init, Pending, Settled
  <2>3. Final(c) /\ Ordered(c)
    BY DEF Init, Final, Ordered
  <2> QED BY <2>1, <2>2, <2>3 DEF Session
<1>2. TypeOK /\ TypeOK' /\ (\A c \in Conn : Session(c)) /\ [Next]_vars
        => (\A c \in Conn : Session(c))'
  <2> SUFFICES ASSUME TypeOK, TypeOK', \A c \in Conn : Session(c),
                      [Next]_vars, NEW c \in Conn
               PROVE  Session(c)'
    OBVIOUS
  <2>1. CASE UNCHANGED vars
    <3>1. Same(c) /\ tail <= tail'
      BY <2>1, ConnTypes DEF vars, Same, clientVars, sessionVars
    <3> QED BY <3>1, SessionKept
  <2>2. CASE Next
    BY <2>2, StepSession
  <2> QED BY <2>1, <2>2
<1> QED BY <1>1, <1>2, TypeCorrect, PTL DEF SafeSpec, IInv

\* Adverts reach a client in broadcast order and at most once, for every
\* number of connections and every capacity (the rx.recv() branch of
\* handle_client).
THEOREM AdvertsInOrder == SafeSpec => []OrderedAdverts
<1>1. IInv => OrderedAdverts
  BY DEF IInv, Session, Ordered, OrderedAdverts
<1> QED BY <1>1, Invariance, PTL

\* A DisconnectResponse is the last frame of its stream
\* (disconnect_request's stream.shutdown()).
THEOREM NothingAfterGoodbye == SafeSpec => []GoodbyeIsLast
<1>1. IInv => GoodbyeIsLast
  BY DEF IInv, Session, Final, GoodbyeIsLast
<1> QED BY <1>1, Invariance, PTL

-----------------------------------------------------------------------------
(* The conversation: its inductive invariant.                              *)

\* Requests whose handling is over: the one being answered is not.
Handled(c) ==
  IF pend[c] # NoFrame /\ ~IsAdvert(pend[c]) THEN nproc[c] - 1 ELSE nproc[c]

\* As many replies are written as handled requests expect one.
Tallied(c) == Replies(c, Len(sent[c])) = Expected(c, Handled(c))

\* The subscription the first p requests leave.
Subscription(c, p) ==
  IF InForce(c, p) = 0 THEN none ELSE from_flags(asked[c][InForce(c, p)].flags)

\* The flags are those of the requests taken so far.
Obeyed(c) == subscription_flags[c] = Subscription(c, nproc[c])

\* RepliesInOrder and AdvertsExplained of one frame.
ReplyInOrder(c, m) ==
  ~IsAdvert(sent[c][m]) =>
    \E p \in 1..Len(asked[c]) :
      /\ Expected(c, p) = Replies(c, m)
      /\ <<asked[c][p].type, sent[c][m].id>> \in Exchange

AdvertExplained(c, m) ==
  IsAdvert(sent[c][m]) =>
    \E p \in 1..Len(asked[c]) :
      /\ Expected(c, p) = Replies(c, m)
      /\ InForce(c, p) # 0
      /\ (sent[c][m].id = RawAdvert)
           = (asked[c][InForce(c, p)].flags % 2 = 1)

\* A task that has ended writes no more, nor does one whose connection was
\* reset, where a subscription may fail although its message is valid.
Conversation(c) ==
  /\ task[c] # "ended" => Tallied(c)
  /\ task[c] # "ended" /\ peer[c] # "reset" => Obeyed(c)
  /\ \A m \in 1..Len(sent[c]) : ReplyInOrder(c, m) /\ AdvertExplained(c, m)

-----------------------------------------------------------------------------
(* Counting.                                                               *)

\* One more number may be counted, or not.
LEMMA CountNext ==
  ASSUME NEW n \in Nat, NEW A \in SUBSET (1..n), NEW B
  PROVE  /\ Cardinality(A) \in Nat
         /\ B = A => Cardinality(B) = Cardinality(A)
         /\ B = A \union {n + 1} => Cardinality(B) = Cardinality(A) + 1
<1>1. IsFiniteSet(A)
  <2>1. IsFiniteSet(1..n)
    BY FS_Interval
  <2> QED BY <2>1, FS_Subset
<1>2. Cardinality(A) \in Nat
  BY <1>1, FS_CardinalityType
<1>3. Cardinality(A \union {n + 1}) = Cardinality(A) + 1
  <2>1. n + 1 \notin A
    OBVIOUS
  <2> QED BY <1>1, <2>1, FS_AddElement
<1> QED BY <1>2, <1>3

\* Requests that expect a reply are those the handlers answer.
LEMMA ExpectsAnswered ==
  ASSUME NEW r \in Requests
  PROVE  /\ Expects(r) <=> r.type \in Answered
         /\ r.type \in Answered => <<r.type, Reply(r.type).id>> \in Exchange
BY DEF Expects, Exchange, Answered, Reply, ReplyTo, HelloRequest,
       ConnectRequest, DisconnectRequest, PingRequest, DeviceInfoRequest,
       ListEntitiesRequest, ConnectionsFree, ListEntitiesDone

\* A request more, and a frame more.
LEMMA ExpectedNext ==
  ASSUME TypeOK, NEW c \in Conn, NEW p \in Nat, p < Len(asked[c])
  PROVE  /\ Expected(c, p) \in Nat
         /\ Expected(c, p + 1) =
              Expected(c, p) + (IF asked[c][p + 1].type \in Answered
                                THEN 1 ELSE 0)
<1> DEFINE A == {i \in 1..p : Expects(asked[c][i])}
           B == {i \in 1..(p + 1) : Expects(asked[c][i])}
<1>1. asked[c][p + 1] \in Requests
  BY ConnTypes
<1>2. Expects(asked[c][p + 1]) <=> asked[c][p + 1].type \in Answered
  BY <1>1, ExpectsAnswered
<1>3. /\ A \in SUBSET (1..p)
      /\ B = IF asked[c][p + 1].type \in Answered THEN A \union {p + 1} ELSE A
  BY <1>2
<1>4. Expected(c, p) = Cardinality(A) /\ Expected(c, p + 1) = Cardinality(B)
  BY DEF Expected
<1> HIDE DEF A, B
<1> QED BY <1>3, <1>4, CountNext

\* The last of the requests that say what to subscribe to decides.
LEMMA InForceIs ==
  ASSUME NEW c \in Conn, NEW p \in Nat, NEW i \in Spoken(c, p),
         \A j \in Spoken(c, p) : j <= i
  PROVE  InForce(c, p) = IF asked[c][i].type = UnsubscribeAdverts THEN 0 ELSE i
<1>1. \A k \in Spoken(c, p) : k \in Nat
  BY DEF Spoken
<1>2. Max(Spoken(c, p)) = i
  BY <1>1 DEF Max
<1> QED BY <1>2 DEF InForce

\* The requests that say what to subscribe to have a last one.
LEMMA SpokenLast ==
  ASSUME NEW c \in Conn, NEW p \in Nat, Spoken(c, p) # {}
  PROVE  \E i \in Spoken(c, p) : \A j \in Spoken(c, p) : j <= i
<1>1. Spoken(c, p) \in SUBSET (0..p)
  BY DEF Spoken
<1> QED BY <1>1, Greatest

\* A request more: it is in force, ends what was, or changes nothing.
LEMMA InForceNext ==
  ASSUME TypeOK, NEW c \in Conn, NEW p \in Nat, p < Len(asked[c]),
         NEW r, r = asked[c][p + 1]
  PROVE  /\ r.type = UnsubscribeAdverts => InForce(c, p + 1) = 0
         /\ r.type = SubscribeAdverts /\ r.valid => InForce(c, p + 1) = p + 1
         /\ r.type \notin {SubscribeAdverts, UnsubscribeAdverts}
              => InForce(c, p + 1) = InForce(c, p)
         /\ ~r.valid /\ r.type = SubscribeAdverts
              => InForce(c, p + 1) = InForce(c, p)
<1>1. /\ r.type = UnsubscribeAdverts => p + 1 \in Spoken(c, p + 1)
      /\ r.type = SubscribeAdverts /\ r.valid => p + 1 \in Spoken(c, p + 1)
      /\ \A j \in Spoken(c, p + 1) : j <= p + 1
  BY DEF Spoken
<1>2. r.type # UnsubscribeAdverts /\ (r.type = SubscribeAdverts => ~r.valid)
        => Spoken(c, p + 1) = Spoken(c, p)
  <2> SUFFICES ASSUME r.type # UnsubscribeAdverts,
                      r.type = SubscribeAdverts => ~r.valid
               PROVE  Spoken(c, p + 1) = Spoken(c, p)
    OBVIOUS
  <2>1. ASSUME NEW i PROVE i \in Spoken(c, p + 1) <=> i \in Spoken(c, p)
    BY DEF Spoken
  <2> QED BY <2>1
<1>3. UnsubscribeAdverts # SubscribeAdverts
  BY DEF UnsubscribeAdverts, SubscribeAdverts
<1>4. p + 1 \in Spoken(c, p + 1)
        => InForce(c, p + 1) =
             IF r.type = UnsubscribeAdverts THEN 0 ELSE p + 1
  BY <1>1, InForceIs
<1>5. Spoken(c, p + 1) = Spoken(c, p) => InForce(c, p + 1) = InForce(c, p)
  BY DEF InForce
<1> QED BY <1>1, <1>2, <1>3, <1>4, <1>5

-----------------------------------------------------------------------------
(* What has been asked and sent stays.                                     *)

Grows(s, t) == Len(s) <= Len(t) /\ \A i \in 1..Len(s) : t[i] = s[i]

\* What is counted and in force over a prefix stays as the sequences grow.
LEMMA PrefixKept ==
  ASSUME TypeOK, TypeOK', NEW c \in Conn,
         Grows(asked[c], asked'[c]), Grows(sent[c], sent'[c])
  PROVE  /\ \A p \in 0..Len(asked[c]) :
              /\ Expected(c, p)' = Expected(c, p)
              /\ InForce(c, p)' = InForce(c, p)
              /\ InForce(c, p) \in 0..p
         /\ \A m \in 0..Len(sent[c]) : Replies(c, m)' = Replies(c, m)
<1>1. Len(asked[c]) \in Nat /\ Len(sent[c]) \in Nat
  BY ConnTypes
<1>2. ASSUME NEW p \in 0..Len(asked[c])
      PROVE  /\ Expected(c, p)' = Expected(c, p)
             /\ InForce(c, p)' = InForce(c, p)
             /\ InForce(c, p) \in 0..p
  <2>1. \A i \in 1..p : asked'[c][i] = asked[c][i]
    BY <1>1, <1>2 DEF Grows
  <2>2. {i \in 1..p : Expects(asked'[c][i])} = {i \in 1..p : Expects(asked[c][i])}
    BY <2>1
  <2>3. Expected(c, p)' = Expected(c, p)
    BY <2>2 DEF Expected
  <2>4. Spoken(c, p)' = Spoken(c, p)
    BY <2>1 DEF Spoken
  <2>5. CASE Spoken(c, p) = {}
    BY <2>3, <2>4, <2>5, <1>1 DEF InForce
  <2>6. CASE Spoken(c, p) # {}
    <3>1. p \in Nat
      BY <1>1
    <3>2. PICK i \in Spoken(c, p) : \A j \in Spoken(c, p) : j <= i
      BY <2>6, <3>1, SpokenLast
    <3>3. i \in 1..p /\ asked'[c][i] = asked[c][i]
      BY <2>1 DEF Spoken
    <3>4. InForce(c, p) = IF asked[c][i].type = UnsubscribeAdverts THEN 0 ELSE i
      BY <3>1, <3>2, InForceIs
    <3>5. Max(Spoken(c, p)) = i
      <4>1. \A k \in Spoken(c, p) : k \in Nat
        BY DEF Spoken
      <4> QED BY <4>1, <3>2 DEF Max
    <3>6. InForce(c, p)' = InForce(c, p)
      BY <2>4, <3>3, <3>4, <3>5, <2>6 DEF InForce
    <3> QED BY <2>3, <3>3, <3>4, <3>6
  <2> QED BY <2>5, <2>6
<1>3. ASSUME NEW m \in 0..Len(sent[c]) PROVE Replies(c, m)' = Replies(c, m)
  <2>1. \A i \in 1..m : sent'[c][i] = sent[c][i]
    BY <1>1, <1>3 DEF Grows
  <2>2. {i \in 1..m : ~IsAdvert(sent'[c][i])} = {i \in 1..m : ~IsAdvert(sent[c][i])}
    BY <2>1
  <2> QED BY <2>2 DEF Replies
<1> QED BY <1>2, <1>3

\* What was said of the frames written so far stays true of them.
LEMMA FramesKept ==
  ASSUME TypeOK, TypeOK', NEW c \in Conn,
         Grows(asked[c], asked'[c]), Grows(sent[c], sent'[c]),
         NEW m \in 1..Len(sent[c]), ReplyInOrder(c, m), AdvertExplained(c, m)
  PROVE  ReplyInOrder(c, m)' /\ AdvertExplained(c, m)'
<1>1. /\ Len(asked[c]) \in Nat /\ Len(sent[c]) \in Nat
      /\ Len(asked'[c]) \in Nat
      /\ Len(asked[c]) <= Len(asked'[c])
      /\ \A p \in 1..Len(asked[c]) : asked'[c][p] = asked[c][p]
      /\ sent'[c][m] = sent[c][m]
  <2>1. asked[c] \in Seq(Requests) /\ sent[c] \in Seq(Frame)
        /\ asked'[c] \in Seq(Requests)
    BY DEF TypeOK
  <2> QED BY <2>1 DEF Grows
<1>2. Replies(c, m)' = Replies(c, m)
  BY <1>1, PrefixKept
<1>3. ReplyInOrder(c, m)'
  <2> SUFFICES ASSUME ~IsAdvert(sent[c][m])
               PROVE  \E p \in 1..Len(asked'[c]) :
                        /\ Expected(c, p)' = Replies(c, m)'
                        /\ <<asked'[c][p].type, sent'[c][m].id>> \in Exchange
    BY <1>1 DEF ReplyInOrder
  <2>1. PICK p \in 1..Len(asked[c]) :
          /\ Expected(c, p) = Replies(c, m)
          /\ <<asked[c][p].type, sent[c][m].id>> \in Exchange
    BY DEF ReplyInOrder
  <2>2. Expected(c, p)' = Expected(c, p)
    BY <1>1, PrefixKept
  <2> QED BY <1>1, <1>2, <2>1, <2>2
<1>4. AdvertExplained(c, m)'
  <2> SUFFICES ASSUME IsAdvert(sent[c][m])
               PROVE  \E p \in 1..Len(asked'[c]) :
                        /\ Expected(c, p)' = Replies(c, m)'
                        /\ InForce(c, p)' # 0
                        /\ (sent'[c][m].id = RawAdvert)
                             = (asked'[c][InForce(c, p)'].flags % 2 = 1)
    BY <1>1 DEF AdvertExplained
  <2>1. PICK p \in 1..Len(asked[c]) :
          /\ Expected(c, p) = Replies(c, m)
          /\ InForce(c, p) # 0
          /\ (sent[c][m].id = RawAdvert)
               = (asked[c][InForce(c, p)].flags % 2 = 1)
    BY DEF AdvertExplained
  <2>2. /\ Expected(c, p)' = Expected(c, p)
        /\ InForce(c, p)' = InForce(c, p)
        /\ InForce(c, p) \in 0..p
    BY <1>1, PrefixKept
  <2>3. asked'[c][InForce(c, p)] = asked[c][InForce(c, p)]
    BY <1>1, <2>1, <2>2
  <2> QED BY <1>1, <1>2, <2>1, <2>2, <2>3
<1> QED BY <1>3, <1>4

\* A session counts no more than was asked.
LEMMA HandledType ==
  ASSUME TypeOK, NEW c \in Conn, Session(c)
  PROVE  /\ Handled(c) \in 0..Len(asked[c])
         /\ nproc[c] \in 0..Len(asked[c])
         /\ Len(asked[c]) \in Nat /\ Len(sent[c]) \in Nat
BY ConnTypes DEF Session, Counted, Pending, Handled

\* A step that writes nothing, and counts and subscribes to nothing.
LEMMA QuietStep ==
  ASSUME TypeOK, TypeOK', NEW c \in Conn, Session(c), Conversation(c),
         Grows(asked[c], asked'[c]), sent'[c] = sent[c],
         task'[c] # "ended" =>
           /\ task[c] # "ended"
           /\ Handled(c)' = Handled(c) /\ nproc'[c] = nproc[c],
         peer'[c] # "reset" =>
           /\ peer[c] # "reset"
           /\ subscription_flags'[c] = subscription_flags[c]
  PROVE  Conversation(c)'
<1>1. Grows(sent[c], sent'[c])
  BY HandledType DEF Grows
<1>2. \A m \in 1..Len(sent'[c]) : ReplyInOrder(c, m)' /\ AdvertExplained(c, m)'
  BY <1>1, FramesKept DEF Conversation
<1>3. ASSUME task'[c] # "ended" PROVE Tallied(c)'
  <2>1. PICK h \in 0..Len(asked[c]) : h = Handled(c)
    BY HandledType
  <2>2. PICK m \in 0..Len(sent[c]) : m = Len(sent[c])
    BY HandledType
  <2>3. Replies(c, m) = Expected(c, h)
    BY <1>3, <2>1, <2>2 DEF Conversation, Tallied
  <2>4. Replies(c, m)' = Replies(c, m) /\ Expected(c, h)' = Expected(c, h)
    BY <1>1, PrefixKept
  <2>5. h = Handled(c)' /\ m = Len(sent'[c])
    BY <1>3, <2>1, <2>2
  <2> QED BY <2>3, <2>4, <2>5 DEF Tallied, Replies, Expected
<1>4. ASSUME task'[c] # "ended", peer'[c] # "reset" PROVE Obeyed(c)'
  <2>1. PICK p \in 0..Len(asked[c]) : p = nproc[c]
    BY HandledType
  <2>2. /\ InForce(c, p)' = InForce(c, p)
        /\ InForce(c, p) \in 0..p
    BY <1>1, PrefixKept
  <2>3. subscription_flags[c] = Subscription(c, p)
    BY <1>4, <2>1 DEF Conversation, Obeyed
  <2>4. InForce(c, p) # 0 =>
          asked'[c][InForce(c, p)] = asked[c][InForce(c, p)]
    BY <2>2, HandledType DEF Grows
  <2>5. Subscription(c, p)' = Subscription(c, p)
    BY <2>2, <2>4 DEF Subscription
  <2>6. nproc'[c] = p
    BY <1>4, <2>1
  <2> QED BY <1>4, <2>3, <2>5, <2>6 DEF Obeyed, Subscription, InForce, Spoken
<1> QED BY <1>2, <1>3, <1>4 DEF Conversation

-----------------------------------------------------------------------------
(* Every step of a connection keeps what was said of its conversation.     *)

\* Nothing the invariant is about changes.
LEMMA ConversationKept ==
  ASSUME TypeOK, TypeOK', NEW c \in Conn, Session(c), Conversation(c),
         Same(c), peer'[c] = peer[c]
  PROVE  Conversation(c)'
<1>1. Grows(asked[c], asked'[c])
  BY HandledType DEF Grows, Same
<1> QED BY <1>1, QuietStep DEF Same, Handled

\* The client's steps only make what was asked longer, or the peer gone.
LEMMA ClientConversation ==
  ASSUME TypeOK, TypeOK', NEW c \in Conn, Session(c), Conversation(c),
         Client(c)
  PROVE  Conversation(c)'
<1> USE DEF clientVars, sessionVars
<1>1. asked[c] \in Seq(Requests) /\ Len(asked[c]) \in Nat
  BY DEF TypeOK
<1>2. UNCHANGED <<nproc, pend, subscription_flags, sent>>
  BY DEF Client, Dial, SendRequest, ReadFrame, Break
<1>3. Handled(c)' = Handled(c)
  BY <1>2 DEF Handled
<1>4. Grows(asked[c], asked'[c])
  <2>1. asked'[c] = asked[c] \/ \E r \in Requests : asked'[c] = Append(asked[c], r)
    BY DEF Client, Dial, SendRequest, ReadFrame, Break, TypeOK
  <2> QED BY <1>1, <2>1 DEF Grows
<1>5. task'[c] # "ended" => task[c] # "ended"
  BY DEF Client, Dial, SendRequest, ReadFrame, Break, TypeOK
<1>6. peer'[c] # "reset" => peer[c] # "reset"
  BY DEF Client, Dial, SendRequest, ReadFrame, Break, TypeOK
<1> QED BY <1>2, <1>3, <1>4, <1>5, <1>6, QuietStep

\* Neither a read nor an advert that is received answers or handles a
\* request.
LEMMA SelectConversation ==
  ASSUME TypeOK, TypeOK', NEW c \in Conn, Session(c), Conversation(c),
         Accept(c) \/ ReadBranch(c) \/ RecvBranch(c)
  PROVE  Conversation(c)'
<1>1. /\ UNCHANGED <<peer, asked, nproc, subscription_flags, sent>>
      /\ task[c] \in {"backlog", "select"}
  BY DEF Accept, ReadBranch, Read, ReadEnds, RecvBranch, RecvForward,
         RecvIgnore, RecvLagged, RecvFails, clientVars
<1>2. Grows(asked[c], asked'[c])
  BY <1>1, HandledType DEF Grows
<1>3. Handled(c) = nproc[c]
  BY <1>1 DEF Session, Pending, Handled
<1>4. pend'[c] = pend[c] \/ IsAdvert(pend'[c])
  <2>1. CASE RecvForward(c)
    BY <2>1, AdvertFrame, ConnTypes DEF RecvForward, TypeOK
  <2>2. CASE ~RecvForward(c)
    BY <2>2 DEF Accept, ReadBranch, Read, ReadEnds, RecvBranch, RecvIgnore,
                RecvLagged, RecvFails
  <2> QED BY <2>1, <2>2
<1>5. Handled(c)' = Handled(c)
  BY <1>1, <1>3, <1>4 DEF Handled, Session, Pending
<1> QED BY <1>1, <1>2, <1>5, QuietStep

\* A request that is taken out of buf: one that is answered does not count
\* before its reply is written, and the flags become what it says.
LEMMA TakeStep ==
  ASSUME TypeOK, TypeOK', NEW c \in Conn, Session(c), Conversation(c),
         NEW r \in Requests, Take(c, r),
         UNCHANGED <<peer, asked, sent>>,
         Handled(c) = nproc[c],
         Handled(c)' = IF r.type \in Answered THEN nproc[c] ELSE nproc[c] + 1,
         peer[c] # "reset" =>
           subscription_flags'[c] =
             IF r.type = UnsubscribeAdverts THEN none
             ELSE IF r.type = SubscribeAdverts /\ r.valid
             THEN from_flags(r.flags) ELSE subscription_flags[c]
  PROVE  Conversation(c)'
<1>1. PICK p \in Nat, n \in Nat :
        p = nproc[c] /\ n = Len(sent[c]) /\ p < Len(asked[c])
  <2>1. /\ nproc[c] \in Nat /\ nread[c] \in Nat
        /\ Len(asked[c]) \in Nat /\ Len(sent[c]) \in Nat
    BY ConnTypes
  <2>2. nproc[c] < nread[c] /\ nread[c] <= Len(asked[c])
    BY DEF Take, Session, Counted
  <2>3. nproc[c] < Len(asked[c])
    BY <2>1, <2>2
  <2> QED BY <2>1, <2>3
<1>2. /\ task[c] = "dispatch" /\ r = asked[c][p + 1] /\ nproc'[c] = p + 1
      /\ asked'[c] = asked[c] /\ sent'[c] = sent[c] /\ peer'[c] = peer[c]
  BY <1>1 DEF Take, TypeOK
<1>3. Grows(asked[c], asked'[c]) /\ Grows(sent[c], sent'[c])
  BY <1>2, HandledType DEF Grows
<1>4. \A m \in 1..Len(sent'[c]) : ReplyInOrder(c, m)' /\ AdvertExplained(c, m)'
  BY <1>2, <1>3, FramesKept DEF Conversation
<1>5. Tallied(c)'
  <2>1. Replies(c, n) = Expected(c, p)
    BY <1>1, <1>2 DEF Conversation, Tallied
  <2>2. PICK h \in {p, p + 1} : h = Handled(c)' /\ Expected(c, h) = Expected(c, p)
    BY <1>1, <1>2, ExpectedNext
  <2>3. Replies(c, n)' = Replies(c, n) /\ Expected(c, h)' = Expected(c, h)
    BY <1>1, <1>3, <2>2, PrefixKept, HandledType
  <2>4. n = Len(sent'[c])
    BY <1>1, <1>2
  <2> QED BY <2>1, <2>2, <2>3, <2>4 DEF Tallied, Replies, Expected
<1>6. ASSUME peer[c] # "reset" PROVE Obeyed(c)'
  <2>1. subscription_flags[c] = Subscription(c, p)
    BY <1>1, <1>2, <1>6 DEF Conversation, Obeyed
  <2>2. InForce(c, p) \in 0..p
    BY <1>1, <1>3, PrefixKept, HandledType
  <2>3. subscription_flags'[c] = Subscription(c, p + 1)
    <3>1. CASE r.type = UnsubscribeAdverts
      BY <3>1, <1>1, <1>2, <1>6, InForceNext DEF Subscription
    <3>2. CASE r.type = SubscribeAdverts /\ r.valid
      <4>1. InForce(c, p + 1) = p + 1
        BY <3>2, <1>1, <1>2, InForceNext
      <4>2. subscription_flags'[c] = from_flags(r.flags)
        BY <3>2, <1>6 DEF UnsubscribeAdverts, SubscribeAdverts
      <4> QED BY <4>1, <4>2, <1>1, <1>2 DEF Subscription
    <3>3. CASE r.type # UnsubscribeAdverts /\ ~(r.type = SubscribeAdverts /\ r.valid)
      <4>1. InForce(c, p + 1) = InForce(c, p)
        BY <3>3, <1>1, <1>2, InForceNext
      <4>2. subscription_flags'[c] = subscription_flags[c]
        BY <3>3, <1>6
      <4> QED BY <2>1, <4>1, <4>2 DEF Subscription
    <3> QED BY <3>1, <3>2, <3>3
  <2>4. PICK q \in Nat : q = p + 1
    BY <1>1
  <2>5. Subscription(c, q)' = Subscription(c, q)
    BY <1>2 DEF Subscription, InForce, Spoken
  <2>6. nproc'[c] = q
    BY <1>2, <2>4
  <2> QED BY <2>3, <2>4, <2>5, <2>6 DEF Obeyed, Subscription, InForce, Spoken
<1> QED BY <1>2, <1>4, <1>5, <1>6 DEF Conversation

\* The loop over next_message.
LEMMA DispatchConversation ==
  ASSUME TypeOK, TypeOK', NEW c \in Conn, Session(c), Conversation(c),
         Dispatch(c)
  PROVE  Conversation(c)'
<1>1. task[c] = "dispatch" /\ UNCHANGED <<peer, asked, sent>>
  BY DEF Dispatch, BufferDrained, FramingPanic, HandleAnswered, HandlerFails,
         HandleSubscribe, HandleUnsubscribe, HandleUnknown, Take, clientVars
<1>2. pend[c] = NoFrame /\ Handled(c) = nproc[c]
  BY <1>1 DEF Session, Pending, Handled
<1>3. CASE BufferDrained(c) \/ FramingPanic(c) \/ HandlerFails(c)
  <2>1. /\ UNCHANGED <<subscription_flags, pend>>
        /\ task'[c] # "ended" => nproc'[c] = nproc[c]
    BY <1>3 DEF BufferDrained, FramingPanic, HandlerFails, End, TypeOK
  <2>2. Grows(asked[c], asked'[c])
    BY <1>1, HandledType DEF Grows
  <2> QED BY <1>1, <1>2, <2>1, <2>2, QuietStep DEF Handled
<1>4. CASE HandleAnswered(c)
  <2>1. PICK r \in Requests :
          /\ Take(c, r) /\ r.type \in Answered
          /\ pend' = [pend EXCEPT ![c] = Reply(r.type)]
          /\ UNCHANGED subscription_flags
    BY <1>4 DEF HandleAnswered
  <2>2. pend'[c] # NoFrame /\ ~IsAdvert(pend'[c])
    BY <2>1, ReplyFrame DEF TypeOK
  <2>3. Handled(c)' = nproc[c]
    BY <2>1, <2>2, ConnTypes DEF Handled, Take, TypeOK
  <2>4. r.type \notin {SubscribeAdverts, UnsubscribeAdverts}
    BY <2>1 DEF Answered, HelloRequest, ConnectRequest, DisconnectRequest,
                PingRequest, DeviceInfoRequest, ListEntitiesRequest,
                ConnectionsFree, SubscribeAdverts, UnsubscribeAdverts
  <2> QED BY <1>1, <1>2, <2>1, <2>3, <2>4, TakeStep
<1>5. CASE HandleSubscribe(c) \/ HandleUnsubscribe(c) \/ HandleUnknown(c)
  <2>1. PICK r \in Requests :
          /\ Take(c, r) /\ r.type \notin Answered
          /\ UNCHANGED pend
          /\ peer[c] # "reset" =>
               subscription_flags'[c] =
                 IF r.type = UnsubscribeAdverts THEN none
                 ELSE IF r.type = SubscribeAdverts /\ r.valid
                 THEN from_flags(r.flags) ELSE subscription_flags[c]
    <3> USE DEF Answered, HelloRequest, ConnectRequest, DisconnectRequest,
                PingRequest, DeviceInfoRequest, ListEntitiesRequest,
                ConnectionsFree, SubscribeAdverts, UnsubscribeAdverts
    <3>1. CASE HandleSubscribe(c)
      <4>1. PICK r \in Requests :
              /\ Take(c, r) /\ r.type = SubscribeAdverts
              /\ UNCHANGED pend
              /\ \/ /\ r.valid
                    /\ subscription_flags' =
                         [subscription_flags EXCEPT ![c] = from_flags(r.flags)]
                 \/ /\ ~r.valid \/ peer[c] = "reset"
                    /\ UNCHANGED subscription_flags
        BY <3>1 DEF HandleSubscribe
      <4>2. peer[c] # "reset" =>
              subscription_flags'[c] =
                IF r.valid THEN from_flags(r.flags) ELSE subscription_flags[c]
        BY <4>1 DEF TypeOK
      <4> QED BY <4>1, <4>2
    <3>2. CASE HandleUnsubscribe(c)
      <4>1. PICK r \in Requests :
              /\ Take(c, r) /\ r.type = UnsubscribeAdverts
              /\ UNCHANGED pend
              /\ subscription_flags' =
                   [subscription_flags EXCEPT ![c] = none]
        BY <3>2 DEF HandleUnsubscribe
      <4>2. subscription_flags'[c] = none
        BY <4>1 DEF TypeOK
      <4> QED BY <4>1, <4>2
    <3>3. CASE HandleUnknown(c)
      BY <3>3 DEF HandleUnknown, TypeOK
    <3> QED BY <1>5, <3>1, <3>2, <3>3
  <2>2. Handled(c)' = nproc[c] + 1
    BY <1>2, <2>1, NoFrameFact DEF Handled, Take, TypeOK
  <2> QED BY <1>1, <1>2, <2>1, <2>2, TakeStep
<1> QED BY <1>3, <1>4, <1>5 DEF Dispatch

\* A frame more is a reply more, or an advert more.
LEMMA RepliesNext ==
  ASSUME TypeOK, NEW c \in Conn, NEW n \in Nat, n = Len(sent[c]), NEW f \in Frame,
         sent'[c] = Append(sent[c], f)
  PROVE  Replies(c, n + 1)' = Replies(c, n) + (IF IsAdvert(f) THEN 0 ELSE 1)
<1> DEFINE A == {i \in 1..n : ~IsAdvert(sent[c][i])}
           B == {i \in 1..(n + 1) : ~IsAdvert(sent'[c][i])}
<1>1. sent[c] \in Seq(Frame)
  BY ConnTypes
<1>2. sent'[c][n + 1] = f /\ \A i \in 1..n : sent'[c][i] = sent[c][i]
  BY <1>1
<1>3. /\ A \in SUBSET (1..n)
      /\ B = IF IsAdvert(f) THEN A ELSE A \union {n + 1}
  BY <1>2
<1>4. Replies(c, n) = Cardinality(A) /\ Replies(c, n + 1)' = Cardinality(B)
  BY DEF Replies
<1> HIDE DEF A, B
<1> QED BY <1>3, <1>4, CountNext

\* Bit 0 of the flags of a subscription asks for the raw form.
LEMMA FlagsForm ==
  ASSUME NEW n PROVE AdvertId(from_flags(n)) = RawAdvert <=> n % 2 = 1
<1>1. from_flags(n).raw <=> n % 2 = 1
  BY DEF from_flags
<1> QED BY <1>1 DEF AdvertId, RawAdvert, LegacyAdvert

\* The frame that is written is the reply that is due, or an advert the
\* subscription in force asks for.
LEMMA WriteDoneConversation ==
  ASSUME TypeOK, TypeOK', NEW c \in Conn, Session(c), Conversation(c),
         WriteDone(c)
  PROVE  Conversation(c)'
<1>1. PICK p \in Nat, n \in Nat :
        /\ p = nproc[c] /\ n = Len(sent[c])
        /\ p <= Len(asked[c]) /\ Len(asked[c]) \in Nat
  BY HandledType
<1>2. PICK f \in Frame :
        /\ f = pend[c]
        /\ task[c] = "write" /\ peer[c] # "reset"
        /\ sent'[c] = Append(sent[c], f)
        /\ pend'[c] = NoFrame
        /\ UNCHANGED <<asked, nproc, subscription_flags, peer>>
  BY DEF WriteDone, TypeOK, clientVars
<1>3. /\ sent[c] \in Seq(Frame)
      /\ Len(sent'[c]) = n + 1
      /\ sent'[c][n + 1] = f
      /\ Grows(sent[c], sent'[c]) /\ Grows(asked[c], asked'[c])
  <2>1. sent[c] \in Seq(Frame) /\ asked[c] \in Seq(Requests)
    BY ConnTypes
  <2> QED BY <2>1, <1>1, <1>2 DEF Grows
<1>4. /\ Expected(c, p)' = Expected(c, p)
      /\ InForce(c, p)' = InForce(c, p)
      /\ InForce(c, p) \in 0..p
  BY <1>1, <1>3, PrefixKept
<1>5. subscription_flags[c] = Subscription(c, p)
  BY <1>1, <1>2 DEF Conversation, Obeyed
<1>6. /\ Replies(c, n + 1)' = Expected(c, p)
      /\ ~IsAdvert(f) => p >= 1 /\ f = Reply(asked[c][p].type)
                         /\ asked[c][p].type \in Answered
  <2>1. Replies(c, n + 1)' = Replies(c, n) + (IF IsAdvert(f) THEN 0 ELSE 1)
    BY <1>1, <1>2, RepliesNext
  <2>2. f # NoFrame
    BY <1>2 DEF Session, Pending
  <2>3. CASE IsAdvert(f)
    <3>1. Replies(c, n) = Expected(c, p)
      BY <2>3, <1>1, <1>2 DEF Conversation, Tallied, Handled
    <3>2. Expected(c, p) \in Nat
      <4>1. {i \in 1..p : Expects(asked[c][i])} \in SUBSET (1..p)
        OBVIOUS
      <4> QED BY <4>1, CountNext DEF Expected
    <3> QED BY <2>1, <2>3, <3>1, <3>2
  <2>4. CASE ~IsAdvert(f)
    <3>1. /\ p >= 1 /\ f = Reply(asked[c][p].type)
          /\ asked[c][p].type \in Answered
      BY <2>2, <2>4, <1>1, <1>2 DEF Session, Pending
    <3>2. PICK q \in Nat : p = q + 1
      <4> p - 1 \in Nat /\ p = (p - 1) + 1
        BY <3>1
      <4> QED OBVIOUS
    <3>3. Replies(c, n) = Expected(c, q)
      <4>1. Handled(c) = q
        BY <2>2, <2>4, <1>1, <1>2, <3>2 DEF Handled
      <4> QED BY <4>1, <1>1, <1>2 DEF Conversation, Tallied
    <3>4. Expected(c, p) = Expected(c, q) + 1
      BY <1>1, <3>1, <3>2, ExpectedNext
    <3> QED BY <2>1, <2>4, <3>1, <3>3, <3>4
  <2> QED BY <2>3, <2>4
<1>7. ReplyInOrder(c, n + 1)'
  <2> SUFFICES ASSUME ~IsAdvert(f)
               PROVE  \E k \in 1..Len(asked[c]) :
                        /\ Expected(c, k)' = Replies(c, n + 1)'
                        /\ <<asked[c][k].type, f.id>> \in Exchange
    BY <1>2, <1>3 DEF ReplyInOrder
  <2>1. <<asked[c][p].type, f.id>> \in Exchange
    <3>1. asked[c][p] \in Requests
      BY <1>1, <1>6, ConnTypes
    <3> QED BY <3>1, <1>6, ExpectsAnswered
  <2>2. p \in 1..Len(asked[c])
    BY <1>1, <1>6
  <2>3. Expected(c, p)' = Replies(c, n + 1)'
    BY <1>4, <1>6
  <2> QED BY <2>1, <2>2, <2>3
<1>8. AdvertExplained(c, n + 1)'
  <2> SUFFICES ASSUME IsAdvert(f)
               PROVE  \E k \in 1..Len(asked[c]) :
                        /\ Expected(c, k)' = Replies(c, n + 1)'
                        /\ InForce(c, k)' # 0
                        /\ (f.id = RawAdvert)
                             = (asked[c][InForce(c, k)'].flags % 2 = 1)
    BY <1>2, <1>3 DEF AdvertExplained
  <2>1. /\ subscription_flags[c] # none
        /\ f.id = AdvertId(subscription_flags[c])
    BY <1>2 DEF Session, Pending
  <2>2. /\ InForce(c, p) # 0
        /\ subscription_flags[c] = from_flags(asked[c][InForce(c, p)].flags)
    BY <1>5, <2>1 DEF Subscription
  <2>3. (f.id = RawAdvert) = (asked[c][InForce(c, p)].flags % 2 = 1)
    <3>1. PICK k : k = asked[c][InForce(c, p)].flags
      OBVIOUS
    <3>2. f.id = AdvertId(from_flags(k))
      BY <2>1, <2>2, <3>1
    <3>3. f.id = RawAdvert <=> k % 2 = 1
      BY <3>2, FlagsForm
    <3> QED BY <3>1, <3>3
  <2>4. p \in 1..Len(asked[c])
    BY <1>1, <1>4, <2>2
  <2> QED BY <1>4, <1>6, <2>2, <2>3, <2>4
<1>9. \A m \in 1..n : ReplyInOrder(c, m)' /\ AdvertExplained(c, m)'
  BY <1>1, <1>3, FramesKept DEF Conversation
<1>10. Tallied(c)'
  <2>1. Handled(c)' = p
    BY <1>1, <1>2 DEF Handled
  <2> QED BY <1>3, <1>4, <1>6, <2>1 DEF Tallied, Replies, Expected
<1>11. Obeyed(c)'
  <2>1. InForce(c, p) # 0 =>
          asked'[c][InForce(c, p)] = asked[c][InForce(c, p)]
    BY <1>2
  <2>2. Subscription(c, p)' = Subscription(c, p)
    BY <1>4, <2>1 DEF Subscription
  <2>3. nproc'[c] = p
    BY <1>1, <1>2
  <2> QED BY <1>2, <1>5, <2>2, <2>3 DEF Obeyed, Subscription, InForce, Spoken
<1> QED BY <1>1, <1>3, <1>7, <1>8, <1>9, <1>10, <1>11 DEF Conversation

\* A write that fails ends the session; a shutdown says nothing.
LEMMA WriteConversation ==
  ASSUME TypeOK, TypeOK', NEW c \in Conn, Session(c), Conversation(c), Write(c)
  PROVE  Conversation(c)'
<1>1. CASE WriteFails(c) \/ Shutdown(c)
  <2>1. /\ UNCHANGED <<peer, asked, sent, nproc, pend, subscription_flags>>
        /\ task[c] # "ended"
    BY <1>1 DEF WriteFails, Shutdown, clientVars
  <2>2. Grows(asked[c], asked'[c])
    BY <2>1, HandledType DEF Grows
  <2> QED BY <2>1, <2>2, QuietStep DEF Handled
<1> QED BY <1>1, WriteDoneConversation DEF Write

\* A step on another connection touches nothing of this one.
LEMMA PeerElsewhere ==
  ASSUME TypeOK, NEW d \in Conn, Step(d), NEW c \in Conn, c # d
  PROVE  peer'[c] = peer[c]
<1>1. CASE Client(d)
  BY <1>1 DEF Client, Dial, SendRequest, ReadFrame, Break, TypeOK, clientVars
<1>2. CASE ~Client(d)
  BY <1>2 DEF Step, Accept, ReadBranch, Read, ReadEnds, RecvBranch,
     RecvForward, RecvIgnore, RecvLagged, RecvFails, Dispatch, BufferDrained,
     FramingPanic, HandleAnswered, HandlerFails, HandleSubscribe,
     HandleUnsubscribe, HandleUnknown, Write, WriteDone, WriteFails, Shutdown,
     clientVars
<1> QED BY <1>1, <1>2

\* No step breaks the invariant.
LEMMA StepConversation ==
  ASSUME TypeOK, TypeOK', NEW c \in Conn, Session(c), Conversation(c), Next
  PROVE  Conversation(c)'
<1>1. CASE Publish
  BY <1>1, ConversationKept DEF Publish, Same, sessionVars, clientVars
<1>2. CASE AcceptFails
  <2>1. /\ UNCHANGED <<peer, asked, sent, nproc, pend, subscription_flags>>
        /\ task'[c] # "ended" => task[c] # "ended"
    BY <1>2 DEF AcceptFails, clientVars
  <2>2. Grows(asked[c], asked'[c])
    BY <2>1, HandledType DEF Grows
  <2> QED BY <2>1, <2>2, QuietStep DEF Handled
<1>3. ASSUME NEW d \in Conn, Step(d), d # c PROVE Conversation(c)'
  BY <1>3, Elsewhere, PeerElsewhere, ConversationKept
<1>4. CASE Step(c)
  BY <1>4, ClientConversation, SelectConversation, DispatchConversation,
     WriteConversation DEF Step
<1> QED BY <1>1, <1>2, <1>3, <1>4 DEF Next

\* The whole of every conversation is accounted for: as many replies as
\* requests handled, and the flags the last subscription asked for.
THEOREM Conversations == SafeSpec => [](\A c \in Conn : Conversation(c))
<1>1. Init => \A c \in Conn : Conversation(c)
  <2> SUFFICES ASSUME Init, NEW c \in Conn PROVE Conversation(c)
    OBVIOUS
  <2>1. Spoken(c, 0) = {} /\ InForce(c, 0) = 0
    BY DEF Spoken, InForce
  <2>2. Obeyed(c)
    BY <2>1 DEF Init, Obeyed, Subscription
  <2>3. Handled(c) = 0
    BY DEF Init, Handled
  <2>4. Tallied(c)
    BY <2>3 DEF Init, Tallied, Replies, Expected
  <2> QED BY <2>2, <2>4 DEF Init, Conversation
<1>2. IInv /\ IInv' /\ (\A c \in Conn : Conversation(c)) /\ [Next]_vars
        => (\A c \in Conn : Conversation(c))'
  <2> SUFFICES ASSUME IInv, IInv', \A c \in Conn : Conversation(c),
                      [Next]_vars, NEW c \in Conn
               PROVE  Conversation(c)'
    OBVIOUS
  <2>1. TypeOK /\ TypeOK' /\ Session(c)
    BY DEF IInv
  <2>2. CASE UNCHANGED vars
    BY <2>1, <2>2, ConversationKept DEF vars, Same, clientVars, sessionVars
  <2>3. CASE Next
    BY <2>1, <2>3, StepConversation
  <2> QED BY <2>2, <2>3
<1> QED BY <1>1, <1>2, Invariance, PTL DEF SafeSpec

\* Replies answer the requests in order, once each and to the right type,
\* for every number of connections and requests (the loop over next_message).
THEOREM EveryReplyInOrder == SafeSpec => []RepliesInOrder
<1>1. (\A c \in Conn : Conversation(c)) => RepliesInOrder
  BY DEF Conversation, ReplyInOrder, RepliesInOrder
<1> QED BY <1>1, Conversations, PTL

\* No advert is sent that the requests handled before it do not ask for, in
\* the form they ask for (subscription_flags in the rx.recv() branch).
THEOREM EveryAdvertExplained == SafeSpec => []AdvertsExplained
<1>1. (\A c \in Conn : Conversation(c)) => AdvertsExplained
  BY DEF Conversation, AdvertExplained, AdvertsExplained
<1> QED BY <1>1, Conversations, PTL

-----------------------------------------------------------------------------
(* Server implements AdvertFeed: under the mapping of ServerProperties     *)
(* every step of the server is a step of the atomic conversation or none.  *)

(* The abstract state a step leaves behind.                                *)

View(c) == <<PhaseOf(c), DoneOf(c), ModeOf(c), NextOf(c)>>

\* The abstract state of every other connection stays as it is.
OthersKept(c) == \A d \in Conn \ {c} : View(d)' = View(d)

\* A step on c leaves the abstract state of the others alone.
LEMMA ViewElsewhere ==
  ASSUME TypeOK, NEW c \in Conn, Step(c)
  PROVE  OthersKept(c)
<1> SUFFICES ASSUME NEW d \in Conn, d # c PROVE View(d)' = View(d)
  BY DEF OthersKept
<1>1. Same(d)
  BY Elsewhere
<1>2. peer'[d] = peer[d]
  <2> USE DEF TypeOK, clientVars, sessionVars
  <2>1. CASE Client(c)
    BY <2>1 DEF Client, Dial, SendRequest, ReadFrame, Break
  <2>2. CASE Accept(c)
    BY <2>2 DEF Accept
  <2>3. CASE ReadBranch(c)
    BY <2>3 DEF ReadBranch, Read, ReadEnds
  <2>4. CASE RecvBranch(c)
    BY <2>4 DEF RecvBranch, RecvForward, RecvIgnore, RecvLagged, RecvFails
  <2>5. CASE Dispatch(c)
    BY <2>5 DEF Dispatch, BufferDrained, FramingPanic, HandleAnswered,
       HandlerFails, HandleSubscribe, HandleUnsubscribe, HandleUnknown, Take
  <2>6. CASE Write(c)
    BY <2>6 DEF Write, WriteDone, WriteFails, Shutdown
  <2> QED BY <2>1, <2>2, <2>3, <2>4, <2>5, <2>6 DEF Step
<1> QED
  BY <1>1, <1>2 DEF Same, View, PhaseOf, DoneOf, ModeOf, NextOf, Gone

\* The abstract functions change at c only.
LEMMA BarsAt ==
  ASSUME NEW c \in Conn, OthersKept(c)
  PROVE  /\ phaseBar' = [phaseBar EXCEPT ![c] = PhaseOf(c)']
         /\ doneBar' = [doneBar EXCEPT ![c] = DoneOf(c)']
         /\ modeBar' = [modeBar EXCEPT ![c] = ModeOf(c)']
         /\ nextBar' = [nextBar EXCEPT ![c] = NextOf(c)']
<1>1. \A d \in Conn \ {c} :
        /\ PhaseOf(d)' = PhaseOf(d)
        /\ DoneOf(d)' = DoneOf(d)
        /\ ModeOf(d)' = ModeOf(d)
        /\ NextOf(d)' = NextOf(d)
  BY DEF OthersKept, View
<1> QED BY <1>1 DEF phaseBar, doneBar, modeBar, nextBar

\* The value of a connection in the abstract functions.
LEMMA BarsOf ==
  ASSUME NEW c \in Conn
  PROVE  /\ phaseBar[c] = PhaseOf(c)
         /\ doneBar[c] = DoneOf(c)
         /\ modeBar[c] = ModeOf(c)
         /\ nextBar[c] = NextOf(c)
BY DEF phaseBar, doneBar, modeBar, nextBar

\* A step that changes no abstract state is a stutter of the conversation.
LEMMA Stutters ==
  ASSUME NEW c \in Conn, OthersKept(c), View(c)' = View(c),
         UNCHANGED <<tail, asked, sent>>
  PROVE  UNCHANGED Feed!vars
<1>1. \A d \in Conn : /\ PhaseOf(d)' = PhaseOf(d)
                      /\ DoneOf(d)' = DoneOf(d)
                      /\ ModeOf(d)' = ModeOf(d)
                      /\ NextOf(d)' = NextOf(d)
  BY DEF OthersKept, View
<1> QED BY <1>1 DEF Feed!vars, phaseBar, doneBar, modeBar, nextBar

\* A step after which the connection is gone closes its conversation.
LEMMA Closes ==
  ASSUME NEW c \in Conn, OthersKept(c), Gone(c)',
         UNCHANGED <<tail, asked, sent>>
  PROVE  Feed!Next
<1>1. /\ PhaseOf(c)' = "closed"
      /\ DoneOf(c)' = 0
      /\ ModeOf(c)' = none
      /\ NextOf(c)' = 0
  BY DEF PhaseOf, DoneOf, ModeOf, NextOf
<1>2. \A d \in Conn \ {c} :
        /\ PhaseOf(d)' = PhaseOf(d)
        /\ DoneOf(d)' = DoneOf(d)
        /\ ModeOf(d)' = ModeOf(d)
        /\ NextOf(d)' = NextOf(d)
  BY DEF OthersKept, View
<1>3. Feed!none = none
  BY DEF Feed!none, none
<1>4. Feed!Close({c})
  BY <1>1, <1>2, <1>3 DEF Feed!Close, phaseBar, doneBar, modeBar, nextBar
<1> QED BY <1>4 DEF Feed!Next

-----------------------------------------------------------------------------
(* Facts the steps need.                                                   *)

\* The messages of the conversation are those of the server.
LEMMA SameMessages ==
  /\ Feed!none = none
  /\ Feed!Answered = Answered
  /\ Feed!SubscribeAdverts = SubscribeAdverts
  /\ Feed!UnsubscribeAdverts = UnsubscribeAdverts
  /\ Feed!DisconnectResponse = DisconnectResponse
  /\ \A t : Feed!Reply(t) = Reply(t)
  /\ \A n : Feed!from_flags(n) = from_flags(n)
  /\ \A f : Feed!AdvertId(f) = AdvertId(f)
BY DEF Feed!none, none, Feed!Answered, Answered, Feed!HelloRequest,
       HelloRequest, Feed!ConnectRequest, ConnectRequest,
       Feed!DisconnectRequest, DisconnectRequest, Feed!PingRequest,
       PingRequest, Feed!DeviceInfoRequest, DeviceInfoRequest,
       Feed!ListEntitiesRequest, ListEntitiesRequest, Feed!ConnectionsFree,
       ConnectionsFree, Feed!SubscribeAdverts, SubscribeAdverts,
       Feed!UnsubscribeAdverts, UnsubscribeAdverts, Feed!DisconnectResponse,
       DisconnectResponse, Feed!Reply, Reply, Feed!ReplyTo, ReplyTo,
       Feed!ListEntitiesDone, ListEntitiesDone, Feed!from_flags, from_flags,
       Feed!AdvertId, AdvertId, Feed!RawAdvert, RawAdvert, Feed!LegacyAdvert,
       LegacyAdvert

\* A connection the server can still write on has not said goodbye.
LEMMA NotSaidGoodbye ==
  ASSUME TypeOK, NEW c \in Conn, Session(c), task[c] = "write", ~wclosed[c]
  PROVE  ~Feed!SaidGoodbye(c)
<1>1. \A i \in 1..Len(sent[c]) : sent[c][i].id # DisconnectResponse
  BY DEF Session, Final
<1>2. sent[c] # <<>> => Len(sent[c]) \in 1..Len(sent[c])
  BY ConnTypes
<1> QED BY <1>1, <1>2, SameMessages DEF Feed!SaidGoodbye

-----------------------------------------------------------------------------
(* The steps of a connection.                                              *)

\* The conversation allows the step the server has just taken.
Allowed == Feed!Next \/ UNCHANGED Feed!vars

\* A request joins the conversation; a reset closes it; the rest of what the
\* client does is not seen.
LEMMA ClientAllowed ==
  ASSUME TypeOK, NEW c \in Conn, Session(c), Client(c), OthersKept(c)
  PROVE  Allowed
<1> USE DEF TypeOK, clientVars, sessionVars
<1>1. CASE Dial(c)
  <2>1. View(c)' = View(c)
    BY <1>1 DEF Dial, View, PhaseOf, DoneOf, ModeOf, NextOf, Gone
  <2>2. UNCHANGED <<tail, asked, sent>>
    BY <1>1 DEF Dial
  <2> QED BY <2>1, <2>2, Stutters DEF Allowed
<1>2. ASSUME NEW r \in Requests, SendRequest(c, r) PROVE Allowed
  <2>1. UNCHANGED <<phaseBar, doneBar, modeBar, nextBar>>
    BY <1>2 DEF SendRequest, phaseBar, doneBar, modeBar, nextBar, PhaseOf,
                DoneOf, ModeOf, NextOf, Gone
  <2>2. Feed!Ask(c, r)
    BY <1>2, <2>1 DEF SendRequest, Feed!Ask
  <2> QED BY <2>2 DEF Allowed, Feed!Next
<1>3. CASE ReadFrame(c)
  <2>1. View(c)' = View(c)
    BY <1>3 DEF ReadFrame, View, PhaseOf, DoneOf, ModeOf, NextOf, Gone
  <2>2. UNCHANGED <<tail, asked, sent>>
    BY <1>3 DEF ReadFrame
  <2> QED BY <2>1, <2>2, Stutters DEF Allowed
<1>4. ASSUME NEW fault \in PeerFaults, Break(c, fault) PROVE Allowed
  <2>1. UNCHANGED <<tail, asked, sent>>
    BY <1>4 DEF Break
  <2>2. CASE fault = "reset"
    <3>1. Gone(c)'
      BY <1>4, <2>2 DEF Break, Gone
    <3> QED BY <2>1, <3>1, Closes DEF Allowed
  <2>3. CASE fault # "reset"
    <3>1. View(c)' = View(c)
      BY <1>4, <2>3 DEF Break, View, PhaseOf, DoneOf, ModeOf, NextOf, Gone
    <3> QED BY <2>1, <3>1, Stutters DEF Allowed
  <2> QED BY <2>2, <2>3
<1> QED BY <1>1, <1>2, <1>3, <1>4 DEF Client

\* A connection that has not been reset is opened when it is accepted.
LEMMA AcceptAllowed ==
  ASSUME TypeOK, NEW c \in Conn, Session(c), Accept(c), OthersKept(c)
  PROVE  Allowed
<1>1. /\ task[c] = "backlog" /\ task'[c] = "select" /\ cursor'[c] = tail
      /\ UNCHANGED <<tail, peer, asked, nproc, subscription_flags, pend, sent>>
  BY DEF Accept, TypeOK, clientVars
<1>2. pend[c] = NoFrame /\ ~IsAdvert(pend[c])
  BY <1>1, NoFrameFact DEF Session, Pending
<1>3. CASE peer[c] = "reset"
  <2>1. Gone(c)'
    BY <1>1, <1>3 DEF Gone
  <2> QED BY <1>1, <2>1, Closes DEF Allowed
<1>4. CASE peer[c] # "reset"
  <2>1. /\ PhaseOf(c) = "new" /\ PhaseOf(c)' = "open"
        /\ DoneOf(c)' = DoneOf(c)
        /\ ModeOf(c)' = ModeOf(c)
        /\ NextOf(c)' = tail
    BY <1>1, <1>2, <1>4 DEF PhaseOf, DoneOf, ModeOf, NextOf, Gone
  <2>2. Feed!Open(c)
    BY <1>1, <2>1, BarsAt, BarsOf DEF Feed!Open, phaseBar, doneBar, modeBar, nextBar
  <2> QED BY <2>2 DEF Allowed, Feed!Next
<1> QED BY <1>3, <1>4

\* What is read has not taken effect; a read that ends the task closes.
LEMMA ReadAllowed ==
  ASSUME TypeOK, NEW c \in Conn, Session(c), ReadBranch(c), OthersKept(c)
  PROVE  Allowed
<1>1. UNCHANGED <<tail, peer, asked, nproc, subscription_flags, cursor, pend,
                 sent>>
  BY DEF ReadBranch, Read, ReadEnds, clientVars
<1>2. task[c] = "select" /\ task'[c] \in {"dispatch", "ended"}
  BY DEF ReadBranch, Read, ReadEnds, End, TypeOK
<1>3. CASE task'[c] = "ended"
  BY <1>1, <1>3, Closes DEF Gone, Allowed
<1>4. CASE task'[c] = "dispatch"
  <2>1. View(c)' = View(c)
    BY <1>1, <1>2, <1>4 DEF View, PhaseOf, DoneOf, ModeOf, NextOf, Gone
  <2> QED BY <1>1, <2>1, Stutters DEF Allowed
<1> QED BY <1>2, <1>3, <1>4

\* An advert in hand is not delivered yet; one that is dropped is skipped, and
\* a lagged receiver overruns.
LEMMA RecvAllowed ==
  ASSUME TypeOK, NEW c \in Conn, Session(c), RecvBranch(c), OthersKept(c)
  PROVE  Allowed
<1>1. /\ task[c] = "select"
      /\ UNCHANGED <<tail, peer, asked, nproc, subscription_flags, sent>>
  BY DEF RecvBranch, RecvForward, RecvIgnore, RecvLagged, RecvFails,
         clientVars
<1>2. pend[c] = NoFrame /\ ~IsAdvert(pend[c])
  BY <1>1, NoFrameFact DEF Session, Pending
<1>3. CASE peer[c] = "reset"
  BY <1>1, <1>3, Closes DEF Gone, Allowed
<1>4. CASE peer[c] # "reset" /\ RecvForward(c)
  <2>1. /\ task'[c] = "write" /\ cursor'[c] = cursor[c] + 1
        /\ pend'[c] = [id  |-> AdvertId(subscription_flags[c]),
                       pos |-> cursor[c]]
    BY <1>4 DEF RecvForward, TypeOK
  <2>2. IsAdvert(pend'[c])
    BY <2>1, AdvertFrame, ConnTypes
  <2>3. View(c)' = View(c)
    BY <1>1, <1>2, <1>4, <2>1, <2>2, ConnTypes
       DEF View, PhaseOf, DoneOf, ModeOf, NextOf, Gone
  <2> QED BY <1>1, <2>3, Stutters DEF Allowed
<1>5. CASE peer[c] # "reset" /\ (RecvIgnore(c) \/ RecvLagged(c))
  <2>1. task'[c] = "select" /\ UNCHANGED pend
    BY <1>1, <1>5 DEF RecvIgnore, RecvLagged
  <2>2. /\ PhaseOf(c) = "open" /\ PhaseOf(c)' = PhaseOf(c)
        /\ DoneOf(c)' = DoneOf(c)
        /\ ModeOf(c) = subscription_flags[c] /\ ModeOf(c)' = ModeOf(c)
        /\ NextOf(c) = cursor[c] /\ NextOf(c)' = cursor'[c]
    BY <1>1, <1>2, <1>5, <2>1 DEF PhaseOf, DoneOf, ModeOf, NextOf, Gone
  <2>3. UNCHANGED <<phaseBar, doneBar, modeBar>>
    BY <2>2, BarsAt DEF phaseBar, doneBar, modeBar
  <2>4. CASE RecvIgnore(c)
    <3>1. /\ subscription_flags[c] = none
          /\ cursor[c] < tail
          /\ cursor'[c] = cursor[c] + 1
      BY <2>4, ConnTypes, ServerAssumption DEF RecvIgnore, Lag, TypeOK
    <3>2. Feed!Skip(c)
      BY <1>1, <2>2, <2>3, <3>1, BarsAt, BarsOf, SameMessages DEF Feed!Skip
    <3> QED BY <3>2 DEF Allowed, Feed!Next
  <2>5. CASE RecvLagged(c)
    <3>1. tail - cursor[c] > Capacity /\ cursor'[c] = tail - Capacity
      BY <2>5 DEF RecvLagged, Lag, TypeOK
    <3>2. Feed!Overrun(c)
      BY <1>1, <2>2, <2>3, <3>1, BarsAt, BarsOf DEF Feed!Overrun
    <3> QED BY <3>2 DEF Allowed, Feed!Next
  <2> QED BY <1>5, <2>4, <2>5
<1>6. CASE RecvFails(c)
  BY <1>1, <1>3, <1>6 DEF RecvFails
<1> QED BY <1>3, <1>4, <1>5, <1>6 DEF RecvBranch

\* A request without a reply takes effect when it is taken; one with a reply
\* has not happened until the reply is written.
LEMMA DispatchAllowed ==
  ASSUME TypeOK, NEW c \in Conn, Session(c), Dispatch(c), OthersKept(c)
  PROVE  Allowed
<1>1. /\ task[c] = "dispatch"
      /\ UNCHANGED <<tail, peer, asked, cursor, sent>>
  BY DEF Dispatch, BufferDrained, FramingPanic, HandleAnswered, HandlerFails,
         HandleSubscribe, HandleUnsubscribe, HandleUnknown, Take, clientVars
<1>2. pend[c] = NoFrame /\ ~IsAdvert(pend[c])
  BY <1>1, NoFrameFact DEF Session, Pending
<1>3. CASE peer[c] = "reset" \/ FramingPanic(c) \/ HandlerFails(c)
  <2>1. Gone(c)'
    BY <1>1, <1>3 DEF Gone, FramingPanic, HandlerFails, End, TypeOK
  <2> QED BY <1>1, <2>1, Closes DEF Allowed
<1>4. CASE peer[c] # "reset" /\ BufferDrained(c)
  <2>1. task'[c] = "select" /\ UNCHANGED <<nproc, subscription_flags, pend>>
    BY <1>4 DEF BufferDrained, TypeOK
  <2>2. View(c)' = View(c)
    BY <1>1, <2>1 DEF View, PhaseOf, DoneOf, ModeOf, NextOf, Gone
  <2> QED BY <1>1, <2>2, Stutters DEF Allowed
<1>5. CASE peer[c] # "reset" /\ HandleAnswered(c)
  <2>1. PICK r \in Requests :
          /\ Take(c, r) /\ r.type \in Answered
          /\ pend' = [pend EXCEPT ![c] = Reply(r.type)]
          /\ task' = [task EXCEPT ![c] = "write"]
          /\ UNCHANGED subscription_flags
    BY <1>5 DEF HandleAnswered
  <2>2. /\ pend'[c] = Reply(r.type)
        /\ task'[c] = "write"
        /\ nproc'[c] = nproc[c] + 1
    BY <2>1 DEF Take, TypeOK
  <2>3. pend'[c] # NoFrame /\ ~IsAdvert(pend'[c])
    BY <2>1, <2>2, ReplyFrame
  <2>4. View(c)' = View(c)
    BY <1>1, <1>2, <1>5, <2>1, <2>2, <2>3, ConnTypes
       DEF View, PhaseOf, DoneOf, ModeOf, NextOf, Gone
  <2> QED BY <1>1, <2>4, Stutters DEF Allowed
<1>6. ASSUME peer[c] # "reset", NEW r \in Requests, Take(c, r),
             r.type \notin Answered, UNCHANGED <<task, pend>>,
             subscription_flags' =
               [subscription_flags EXCEPT ![c] = Feed!Mode(r, @)]
      PROVE  Allowed
  <2>1. /\ nproc[c] < nread[c] /\ nproc'[c] = nproc[c] + 1
        /\ r = asked[c][nproc[c] + 1]
        /\ subscription_flags'[c] = Feed!Mode(r, subscription_flags[c])
    BY <1>6 DEF Take, TypeOK
  <2>2. nproc[c] < Len(asked[c])
    BY <2>1, ConnTypes DEF Session, Counted
  <2>3. /\ PhaseOf(c) = "open" /\ PhaseOf(c)' = PhaseOf(c)
        /\ DoneOf(c) = nproc[c] /\ DoneOf(c)' = nproc'[c]
        /\ ModeOf(c) = subscription_flags[c]
        /\ ModeOf(c)' = subscription_flags'[c]
        /\ NextOf(c)' = NextOf(c)
    BY <1>1, <1>2, <1>6 DEF PhaseOf, DoneOf, ModeOf, NextOf, Gone
  <2>4. UNCHANGED <<phaseBar, nextBar>>
    BY <2>3, BarsAt DEF phaseBar, nextBar
  <2>5. Feed!Current(c, r)
    BY <1>6, <2>1, <2>2, <2>3, BarsAt, BarsOf DEF Feed!Current
  <2>6. modeBar' = [modeBar EXCEPT ![c] = Feed!Mode(r, @)]
    BY <2>1, <2>3, BarsAt, BarsOf
  <2>7. Feed!Obey(c)
    BY <1>1, <1>6, <2>4, <2>5, <2>6, SameMessages DEF Feed!Obey
  <2> QED BY <2>7 DEF Allowed, Feed!Next
<1>7. subscription_flags = [subscription_flags EXCEPT ![c] = @]
  BY DEF TypeOK
<1>8. UnsubscribeAdverts # SubscribeAdverts
      /\ UnsubscribeAdverts \notin Answered /\ SubscribeAdverts \notin Answered
  BY DEF UnsubscribeAdverts, SubscribeAdverts, Answered, HelloRequest,
         ConnectRequest, DisconnectRequest, PingRequest, DeviceInfoRequest,
         ListEntitiesRequest, ConnectionsFree
<1>9. CASE peer[c] # "reset" /\ HandleSubscribe(c)
  <2>1. PICK r \in Requests :
          /\ Take(c, r) /\ r.type = SubscribeAdverts
          /\ \/ r.valid /\ subscription_flags' =
                 [subscription_flags EXCEPT ![c] = from_flags(r.flags)]
             \/ ~r.valid /\ UNCHANGED subscription_flags
          /\ UNCHANGED <<task, pend>>
    BY <1>9 DEF HandleSubscribe
  <2>2. CASE r.valid
    <3>1. \A m : Feed!Mode(r, m) = from_flags(r.flags)
      BY <1>8, <2>1, <2>2, SameMessages DEF Feed!Mode
    <3> QED BY <1>6, <1>8, <1>9, <2>1, <2>2, <3>1
  <2>3. CASE ~r.valid
    <3>1. \A m : Feed!Mode(r, m) = m
      BY <1>8, <2>1, <2>3, SameMessages DEF Feed!Mode
    <3> QED BY <1>6, <1>7, <1>8, <1>9, <2>1, <2>3, <3>1
  <2> QED BY <2>2, <2>3
<1>10. CASE peer[c] # "reset" /\ HandleUnsubscribe(c)
  <2>1. PICK r \in Requests :
          /\ Take(c, r) /\ r.type = UnsubscribeAdverts
          /\ subscription_flags' = [subscription_flags EXCEPT ![c] = none]
          /\ UNCHANGED <<task, pend>>
    BY <1>10 DEF HandleUnsubscribe
  <2>2. \A m : Feed!Mode(r, m) = none
    BY <2>1, SameMessages DEF Feed!Mode
  <2> QED BY <1>6, <1>8, <1>10, <2>1, <2>2
<1>11. CASE peer[c] # "reset" /\ HandleUnknown(c)
  <2>1. PICK r \in Requests :
          /\ Take(c, r)
          /\ r.type \notin Answered \union {SubscribeAdverts, UnsubscribeAdverts}
          /\ UNCHANGED <<task, subscription_flags, pend>>
    BY <1>11 DEF HandleUnknown
  <2>2. \A m : Feed!Mode(r, m) = m
    BY <2>1, SameMessages DEF Feed!Mode
  <2> QED BY <1>6, <1>7, <1>11, <2>1, <2>2
<1> QED BY <1>3, <1>4, <1>5, <1>9, <1>10, <1>11 DEF Dispatch

\* A frame written is what the conversation adds to the stream: the answer to
\* the request last taken, or the delivery of the advert last received.
LEMMA WriteAllowed ==
  ASSUME TypeOK, TypeOK', NEW c \in Conn, Session(c), Write(c), OthersKept(c)
  PROVE  Allowed
<1>1. UNCHANGED <<tail, peer, asked, nproc, subscription_flags, cursor>>
  BY DEF Write, WriteDone, WriteFails, Shutdown, clientVars
<1>2. CASE WriteDone(c)
  <2>1. /\ task[c] = "write" /\ ~wclosed[c] /\ peer[c] # "reset"
        /\ sent' = [sent EXCEPT ![c] = Append(@, pend[c])]
        /\ task'[c] \in {"select", "shutdown", "dispatch"}
        /\ pend'[c] = NoFrame
    BY <1>2 DEF WriteDone, AfterWrite, TypeOK
  <2>2. ~Feed!SaidGoodbye(c)
    BY <2>1, NotSaidGoodbye
  <2>3. /\ PhaseOf(c) = "open" /\ PhaseOf(c)' = PhaseOf(c)
        /\ DoneOf(c)' = nproc[c]
        /\ ModeOf(c) = subscription_flags[c] /\ ModeOf(c)' = ModeOf(c)
        /\ NextOf(c)' = cursor[c]
    BY <1>1, <2>1, NoFrameFact DEF PhaseOf, DoneOf, ModeOf, NextOf, Gone
  <2>4. UNCHANGED <<phaseBar, modeBar>>
    BY <2>3, BarsAt DEF phaseBar, modeBar
  <2>5. CASE IsAdvert(pend[c])
    <3>1. /\ NextOf(c) = cursor[c] - 1
          /\ DoneOf(c) = nproc[c]
      BY <2>1, <2>5 DEF DoneOf, NextOf, Gone
    <3>2. /\ subscription_flags[c] # none
          /\ pend[c] = [id |-> AdvertId(ModeOf(c)), pos |-> NextOf(c)]
          /\ NextOf(c) < tail
          /\ NextOf(c)' = NextOf(c) + 1
      BY <2>3, <2>5, <3>1, ConnTypes DEF Session, Pending
    <3>3. UNCHANGED doneBar
      BY <2>3, <3>1, BarsAt DEF doneBar
    <3>4. Feed!Deliver(c)
      BY <1>1, <2>1, <2>2, <2>3, <2>4, <3>2, <3>3, BarsAt, BarsOf,
         SameMessages DEF Feed!Deliver
    <3> QED BY <3>4 DEF Allowed, Feed!Next
  <2>6. CASE pend[c] # NoFrame /\ ~IsAdvert(pend[c])
    <3> DEFINE r == asked[c][nproc[c]]
    <3>1. /\ nproc[c] >= 1 /\ nproc[c] <= Len(asked[c])
          /\ r.type \in Answered /\ r.valid
          /\ pend[c] = Reply(r.type)
      BY <2>6, ConnTypes DEF Session, Pending, Counted
    <3>2. r \in Requests
      BY <3>1, ConnTypes
    <3>3. DoneOf(c) = nproc[c] - 1 /\ NextOf(c) = cursor[c]
      BY <2>1, <2>6 DEF DoneOf, NextOf, Gone
    <3>4. UNCHANGED nextBar
      BY <2>3, <3>3, BarsAt DEF nextBar
    <3>5. Feed!Current(c, r)
      <4>1. /\ DoneOf(c) < Len(asked[c]) /\ DoneOf(c) + 1 = nproc[c]
            /\ DoneOf(c)' = DoneOf(c) + 1
        BY <2>3, <3>1, <3>3, ConnTypes
      <4> QED BY <2>3, <4>1, BarsAt, BarsOf DEF Feed!Current
    <3>6. sent' = [sent EXCEPT ![c] = Append(@, Feed!Reply(r.type))]
      BY <2>1, <3>1, SameMessages
    <3> HIDE DEF r
    <3>7. Feed!Answer(c)
      BY <1>1, <2>2, <2>4, <3>1, <3>2, <3>4, <3>5, <3>6, SameMessages
         DEF Feed!Answer
    <3> QED BY <3>7 DEF Allowed, Feed!Next
  <2>7. pend[c] # NoFrame
    BY <2>1 DEF Session, Pending
  <2> QED BY <2>5, <2>6, <2>7
<1>3. CASE WriteFails(c) \/ Shutdown(c)
  <2>1. /\ UNCHANGED <<sent, pend>>
        /\ \/ task'[c] = "ended"
           \/ task[c] = "shutdown" /\ task'[c] = "dispatch"
    BY <1>3 DEF WriteFails, Shutdown, End, TypeOK
  <2>2. CASE task'[c] = "ended"
    BY <1>1, <2>1, <2>2, Closes DEF Gone, Allowed
  <2>3. CASE task[c] = "shutdown" /\ task'[c] = "dispatch"
    <3>1. View(c)' = View(c)
      BY <1>1, <2>1, <2>3 DEF View, PhaseOf, DoneOf, ModeOf, NextOf, Gone
    <3> QED BY <1>1, <2>1, <3>1, Stutters DEF Allowed
  <2> QED BY <2>1, <2>2, <2>3
<1> QED BY <1>2, <1>3 DEF Write

-----------------------------------------------------------------------------
(* The implementation.                                                     *)

\* Every behaviour of the server, with any number of connections, is a
\* behaviour of the atomic conversation (handle_client and its handlers
\* against what AdvertFeed promises).
THEOREM Implementation == SafeSpec => ImplementsFeed
<1>1. Init => Feed!Init
  BY SameMessages, NoFrameFact
     DEF Init, Feed!Init, phaseBar, doneBar, modeBar, nextBar, PhaseOf, DoneOf,
         ModeOf, NextOf, Gone
<1>2. IInv /\ IInv' /\ [Next]_vars => [Feed!Next]_Feed!vars
  <2> SUFFICES ASSUME TypeOK, TypeOK', \A c \in Conn : Session(c), [Next]_vars
               PROVE  Allowed
    BY DEF IInv, Allowed
  <2>1. CASE UNCHANGED vars
    BY <2>1 DEF vars, clientVars, sessionVars, Allowed, Feed!vars, phaseBar,
       doneBar, modeBar, nextBar, PhaseOf, DoneOf, ModeOf, NextOf, Gone
  <2>2. CASE Publish
    <3>1. UNCHANGED <<phaseBar, doneBar, modeBar, nextBar>>
      BY <2>2 DEF Publish, clientVars, sessionVars, phaseBar, doneBar, modeBar,
         nextBar, PhaseOf, DoneOf, ModeOf, NextOf, Gone
    <3> QED BY <2>2, <3>1 DEF Publish, clientVars, sessionVars, Allowed,
            Feed!Next, Feed!Publish
  <2>3. CASE AcceptFails
    <3> DEFINE S == {c \in Conn : task[c] # "new"}
    <3>1. /\ task' = [c \in Conn |-> IF c \in S THEN "ended" ELSE "new"]
          /\ UNCHANGED <<tail, peer, asked, nproc, subscription_flags, cursor,
                         pend, sent>>
      BY <2>3 DEF AcceptFails, clientVars
    <3>2. ASSUME NEW c \in S
          PROVE  /\ PhaseOf(c)' = "closed" /\ DoneOf(c)' = 0
                 /\ ModeOf(c)' = none /\ NextOf(c)' = 0
      BY <3>1 DEF PhaseOf, DoneOf, ModeOf, NextOf, Gone
    <3>3. ASSUME NEW c \in Conn \ S PROVE View(c)' = View(c)
      BY <3>1 DEF View, PhaseOf, DoneOf, ModeOf, NextOf, Gone
    <3>4. S \subseteq Conn
      OBVIOUS
    <3>5. Feed!Close(S)
      BY <3>1, <3>2, <3>3, SameMessages
         DEF Feed!Close, View, phaseBar, doneBar, modeBar, nextBar
    <3> QED BY <3>4, <3>5 DEF Allowed, Feed!Next
  <2>4. ASSUME NEW c \in Conn, Step(c) PROVE Allowed
    <3>1. OthersKept(c)
      BY <2>4, ViewElsewhere
    <3> QED
      BY <2>4, <3>1, ClientAllowed, AcceptAllowed, ReadAllowed, RecvAllowed,
         DispatchAllowed, WriteAllowed DEF Step
  <2> QED BY <2>1, <2>2, <2>3, <2>4 DEF Next
<1> QED BY <1>1, <1>2, Invariance, PTL DEF SafeSpec, ImplementsFeed, Feed!Spec
=============================================================================
