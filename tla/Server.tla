------------------------------- MODULE Server -------------------------------
(***************************************************************************)
(* The TCP server (src/server.rs) with its request handlers                *)
(* (src/handlers.rs) and the tokio broadcast channel that feeds it.        *)
(*                                                                         *)
(* One member of Conn is one TCP connection.  run_tcp_server accepts it    *)
(* and spawns a task that runs handle_client; the task waits in a          *)
(* tokio::select! for bytes of its client or for an advertisement of the   *)
(* broadcast channel, and while a handler awaits write_all neither branch  *)
(* is polled.                                                              *)
(*                                                                         *)
(* Messages are whole requests and whole frames; Framing models how bytes  *)
(* become requests, and an advertisement is its position in the broadcast  *)
(* order.  The sending half of the channel lives in main's frame for as    *)
(* long as the process does, so RecvError::Closed never happens, and main's*)
(* own receiver keeps tx.send from failing.                                *)
(***************************************************************************)
EXTENDS Messages, FiniteSets

CONSTANTS
  Conn,         \* TCP connections
  Capacity,     \* adverts the broadcast channel retains
  SockCap,      \* frames the socket holds before write_all has to wait
  Requests,     \* requests the clients may send
  PeerFaults,   \* ways a connection may break: "closed", "reset", "vanished"
  MaxAdverts,   \* bound: adverts broadcast in a behaviour
  MaxRequests   \* bound: requests sent on one connection

ASSUME ServerAssumption ==
  /\ Capacity \in Nat \ {0}
  /\ SockCap \in Nat \ {0}
  /\ Requests \subseteq Request
  /\ PeerFaults \subseteq {"closed", "reset", "vanished"}
  /\ MaxAdverts \in Nat
  /\ MaxRequests \in Nat

-----------------------------------------------------------------------------
VARIABLES
  up,       \* the accept loop runs; FALSE once the process has exited
  tail,     \* adverts broadcast so far
  peer,     \* the client's end: "open" or the fault that broke it
  asked,    \* every request the client has sent, in order
  nrecv,    \* frames the client has read
  task,     \* where the task of the connection is
  nread,    \* requests read into buf
  nproc,    \* requests next_message has taken out of buf
  torn,     \* buf ends inside the last bytes of a request
  subscription_flags,
  cursor,   \* position of the next advert rx.recv() returns
  pend,     \* frame write_all is writing, or NoFrame
  sent,     \* every frame written, in order
  wclosed   \* the write half has been shut down

clientVars  == <<peer, asked, nrecv>>
sessionVars == <<task, nread, nproc, torn, subscription_flags, cursor, pend,
                 sent, wclosed>>
vars == <<up, tail, clientVars, sessionVars>>

Phases ==
  {"new", "backlog", "select", "dispatch", "write", "shutdown", "ended"}

TypeOK ==
  /\ up \in BOOLEAN
  /\ tail \in Nat
  /\ peer \in [Conn -> {"open", "closed", "reset", "vanished"}]
  /\ asked \in [Conn -> Seq(Requests)]
  /\ nrecv \in [Conn -> Nat]
  /\ task \in [Conn -> Phases]
  /\ nread \in [Conn -> Nat]
  /\ nproc \in [Conn -> Nat]
  /\ torn \in [Conn -> BOOLEAN]
  /\ subscription_flags \in [Conn -> SubscriptionFlags]
  /\ cursor \in [Conn -> Nat]
  /\ pend \in [Conn -> Frame]
  /\ sent \in [Conn -> Seq(Frame)]
  /\ wclosed \in [Conn -> BOOLEAN]

Init ==
  /\ up = TRUE
  /\ tail = 0
  /\ peer = [c \in Conn |-> "open"]
  /\ asked = [c \in Conn |-> <<>>]
  /\ nrecv = [c \in Conn |-> 0]
  /\ task = [c \in Conn |-> "new"]
  /\ nread = [c \in Conn |-> 0]
  /\ nproc = [c \in Conn |-> 0]
  /\ torn = [c \in Conn |-> FALSE]
  /\ subscription_flags = [c \in Conn |-> none]
  /\ cursor = [c \in Conn |-> 0]
  /\ pend = [c \in Conn |-> NoFrame]
  /\ sent = [c \in Conn |-> <<>>]
  /\ wclosed = [c \in Conn |-> FALSE]

-----------------------------------------------------------------------------
(* The environment: the advertisement source and the clients.              *)

\* Mutant: the sender waits until every session has written what it was given.
PublishWaits ==
  /\ up
  /\ tail < MaxAdverts
  /\ \A c \in Conn : task[c] # "write"
  /\ tail' = tail + 1
  /\ UNCHANGED <<up, clientVars, sessionVars>>

\* tx.send: never waits, and overwrites the oldest slot of the channel.
Publish ==
  /\ up
  /\ tail < MaxAdverts
  /\ tail' = tail + 1
  /\ UNCHANGED <<up, clientVars, sessionVars>>

\* The kernel completes a handshake: the connection waits in the backlog.
Dial(c) ==
  /\ up
  /\ task[c] = "new"
  /\ task' = [task EXCEPT ![c] = "backlog"]
  /\ UNCHANGED <<up, tail, clientVars, nread, nproc, torn, subscription_flags,
                 cursor, pend, sent, wclosed>>

SendRequest(c, r) ==
  /\ task[c] # "new"
  /\ peer[c] = "open"
  /\ Len(asked[c]) < MaxRequests
  /\ asked' = [asked EXCEPT ![c] = Append(@, r)]
  /\ UNCHANGED <<up, tail, peer, nrecv, sessionVars>>

ReadFrame(c) ==
  /\ peer[c] = "open"
  /\ nrecv[c] < Len(sent[c])
  /\ nrecv' = [nrecv EXCEPT ![c] = @ + 1]
  /\ UNCHANGED <<up, tail, peer, asked, sessionVars>>

\* The client closes, aborts, or its host disappears without a segment; a
\* closed end answers data that comes after the close with a reset.
Break(c, fault) ==
  /\ task[c] # "new"
  /\ \/ peer[c] = "open"
     \/ peer[c] = "closed" /\ fault = "reset" /\ nrecv[c] < Len(sent[c])
  /\ peer' = [peer EXCEPT ![c] = fault]
  /\ UNCHANGED <<up, tail, asked, nrecv, sessionVars>>

-----------------------------------------------------------------------------
(* run_tcp_server *)

\* Mutant: the task gets main's receiver position instead of a resubscription.
AcceptWithoutResubscribe(c) ==
  /\ up
  /\ task[c] = "backlog"
  /\ task' = [task EXCEPT ![c] = "select"]
  /\ UNCHANGED <<up, tail, clientVars, nread, nproc, torn, subscription_flags,
                 cursor, pend, sent, wclosed>>

\* Mutant: handle_client is awaited where the connection is accepted, not
\* spawned.
AcceptServes(c) ==
  /\ up
  /\ task[c] = "backlog"
  /\ \A d \in Conn : task[d] \in {"new", "backlog", "ended"}
  /\ task' = [task EXCEPT ![c] = "select"]
  /\ cursor' = [cursor EXCEPT ![c] = tail]
  /\ UNCHANGED <<up, tail, clientVars, nread, nproc, torn, subscription_flags,
                 pend, sent, wclosed>>

\* The new task's receiver starts at the channel's current tail.
Accept(c) ==
  /\ up
  /\ task[c] = "backlog"
  /\ task' = [task EXCEPT ![c] = "select"]
  /\ cursor' = [cursor EXCEPT ![c] = tail]
  /\ UNCHANGED <<up, tail, clientVars, nread, nproc, torn, subscription_flags,
                 pend, sent, wclosed>>

\* listener.accept().await? returns the error, main exits the process and
\* every task goes with it.
AcceptFails ==
  /\ up
  /\ \E c \in Conn : task[c] = "backlog"
  /\ up' = FALSE
  /\ task' = [c \in Conn |-> IF task[c] = "new" THEN "new" ELSE "ended"]
  /\ UNCHANGED <<tail, clientVars, nread, nproc, torn, subscription_flags,
                 cursor, pend, sent, wclosed>>

-----------------------------------------------------------------------------
(* handle_client: the read branch of the select!                           *)

End(c) == task' = [task EXCEPT ![c] = "ended"]

\* Ok(n): k more whole requests are in buf; a read may also stop short of
\* the end of the next one by no more than the bytes of its type.
Read(c, k, short) ==
  /\ task[c] = "select"
  /\ nread[c] + k <= Len(asked[c])
  /\ k > 0 \/ short
  /\ short => /\ nread[c] + k < Len(asked[c])
              /\ HasPayload(asked[c][nread[c] + k + 1])
  /\ nread' = [nread EXCEPT ![c] = @ + k]
  /\ torn' = [torn EXCEPT ![c] = short]
  /\ task' = [task EXCEPT ![c] = "dispatch"]
  /\ UNCHANGED <<up, tail, clientVars, nproc, subscription_flags, cursor, pend,
                 sent, wclosed>>

\* Mutant: Ok(0) is not told from a read of no bytes.
ReadEndsOnError(c) ==
  /\ task[c] = "select"
  /\ peer[c] = "reset"
  /\ End(c)
  /\ UNCHANGED <<up, tail, clientVars, nread, nproc, torn, subscription_flags,
                 cursor, pend, sent, wclosed>>

\* Mutant: a read error is only logged.
ReadEndsOnClose(c) ==
  /\ task[c] = "select"
  /\ peer[c] = "closed"
  /\ nread[c] = Len(asked[c])
  /\ End(c)
  /\ UNCHANGED <<up, tail, clientVars, nread, nproc, torn, subscription_flags,
                 cursor, pend, sent, wclosed>>

\* Ok(0), once everything the client sent has been read; or a read error.
ReadEnds(c) ==
  /\ task[c] = "select"
  /\ \/ peer[c] = "closed" /\ nread[c] = Len(asked[c])
     \/ peer[c] = "reset"
  /\ End(c)
  /\ UNCHANGED <<up, tail, clientVars, nread, nproc, torn, subscription_flags,
                 cursor, pend, sent, wclosed>>

-----------------------------------------------------------------------------
(* handle_client: the loop over next_message                               *)

\* Mutant: back to the select! with requests left in buf.
BufferDrainedEarly(c) ==
  /\ task[c] = "dispatch"
  /\ ~torn[c]
  /\ task' = [task EXCEPT ![c] = "select"]
  /\ UNCHANGED <<up, tail, clientVars, nread, nproc, torn, subscription_flags,
                 cursor, pend, sent, wclosed>>

\* next_message returned None: back to the select!
BufferDrained(c) ==
  /\ task[c] = "dispatch"
  /\ nproc[c] = nread[c]
  /\ ~torn[c]
  /\ task' = [task EXCEPT ![c] = "select"]
  /\ UNCHANGED <<up, tail, clientVars, nread, nproc, torn, subscription_flags,
                 cursor, pend, sent, wclosed>>

\* next_message takes the torn request for a whole one; split_to panics and
\* the task is gone.
FramingPanic(c) ==
  /\ task[c] = "dispatch"
  /\ nproc[c] = nread[c]
  /\ torn[c]
  /\ End(c)
  /\ UNCHANGED <<up, tail, clientVars, nread, nproc, torn, subscription_flags,
                 cursor, pend, sent, wclosed>>

\* Mutant: the request at the end of buf instead of the one at its start.
TakeLast(c, r) ==
  /\ task[c] = "dispatch"
  /\ nproc[c] < nread[c]
  /\ r = asked[c][nread[c]]
  /\ nproc' = [nproc EXCEPT ![c] = @ + 1]

\* next_message returned the request r.
Take(c, r) ==
  /\ task[c] = "dispatch"
  /\ nproc[c] < nread[c]
  /\ r = asked[c][nproc[c] + 1]
  /\ nproc' = [nproc EXCEPT ![c] = @ + 1]

\* A handler that answers: the reply is encoded and write_all begins.
HandleAnswered(c) ==
  \E r \in Requests :
    /\ Take(c, r)
    /\ r.type \in Answered
    /\ r.valid
    /\ pend' = [pend EXCEPT ![c] = Reply(r.type)]
    /\ task' = [task EXCEPT ![c] = "write"]
    /\ UNCHANGED <<up, tail, clientVars, nread, torn, subscription_flags,
                   cursor, sent, wclosed>>

\* parse_from_bytes fails, or peer_addr() does on a connection that was
\* reset: the handler's error leaves handle_client.
HandlerFails(c) ==
  \E r \in Requests :
    /\ Take(c, r)
    /\ \/ r.type \in Answered /\ ~r.valid
       \/ r.type \notin {SubscribeAdverts, UnsubscribeAdverts}
            /\ peer[c] = "reset"
    /\ End(c)
    /\ UNCHANGED <<up, tail, clientVars, nread, torn, subscription_flags,
                   cursor, pend, sent, wclosed>>

\* The one handler whose error is only logged: the flags stay as they were.
HandleSubscribe(c) ==
  \E r \in Requests :
    /\ Take(c, r)
    /\ r.type = SubscribeAdverts
    /\ \/ /\ r.valid
          /\ subscription_flags' =
               [subscription_flags EXCEPT ![c] = from_flags(r.flags)]
       \/ /\ ~r.valid \/ peer[c] = "reset"
          /\ UNCHANGED subscription_flags
    /\ UNCHANGED <<up, tail, clientVars, task, nread, torn, cursor, pend, sent,
                   wclosed>>

\* Mutant: the subscription outlives the unsubscribe.
UnsubscribeIgnored(c) ==
  \E r \in Requests :
    /\ Take(c, r)
    /\ r.type = UnsubscribeAdverts
    /\ UNCHANGED <<up, tail, clientVars, task, nread, torn, subscription_flags,
                   cursor, pend, sent, wclosed>>

HandleUnsubscribe(c) ==
  \E r \in Requests :
    /\ Take(c, r)
    /\ r.type = UnsubscribeAdverts
    /\ subscription_flags' = [subscription_flags EXCEPT ![c] = none]
    /\ UNCHANGED <<up, tail, clientVars, task, nread, torn, cursor, pend, sent,
                   wclosed>>

HandleUnknown(c) ==
  \E r \in Requests :
    /\ Take(c, r)
    /\ r.type \notin Answered \union {SubscribeAdverts, UnsubscribeAdverts}
    /\ UNCHANGED <<up, tail, clientVars, task, nread, torn, subscription_flags,
                   cursor, pend, sent, wclosed>>

-----------------------------------------------------------------------------
(* handle_client: the rx.recv() branch of the select!                      *)

Lag(c) == tail - cursor[c]

\* Ok(advert) for a subscriber: forward_* encodes it and write_all begins.
RecvForward(c) ==
  /\ task[c] = "select"
  /\ Lag(c) \in 1..Capacity
  /\ subscription_flags[c] # none
  /\ pend' = [pend EXCEPT ![c] = [id  |-> AdvertId(subscription_flags[c]),
                                  pos |-> cursor[c]]]
  /\ cursor' = [cursor EXCEPT ![c] = @ + 1]
  /\ task' = [task EXCEPT ![c] = "write"]
  /\ UNCHANGED <<up, tail, clientVars, nread, nproc, torn, subscription_flags,
                 sent, wclosed>>

\* Ok(advert) without a subscription: the advert is dropped.
RecvIgnore(c) ==
  /\ task[c] = "select"
  /\ Lag(c) \in 1..Capacity
  /\ subscription_flags[c] = none
  /\ cursor' = [cursor EXCEPT ![c] = @ + 1]
  /\ UNCHANGED <<up, tail, clientVars, task, nread, nproc, torn,
                 subscription_flags, pend, sent, wclosed>>

\* Mutant: the oldest retained position whether or not the receiver is behind it.
RecvLaggedAlways(c) ==
  /\ task[c] = "select"
  /\ cursor' = [cursor EXCEPT ![c] = tail - Capacity]
  /\ UNCHANGED <<up, tail, clientVars, task, nread, nproc, torn,
                 subscription_flags, pend, sent, wclosed>>

\* Err(Lagged(n)): the receiver moves to the oldest advert still retained.
RecvLagged(c) ==
  /\ task[c] = "select"
  /\ Lag(c) > Capacity
  /\ cursor' = [cursor EXCEPT ![c] = tail - Capacity]
  /\ UNCHANGED <<up, tail, clientVars, task, nread, nproc, torn,
                 subscription_flags, pend, sent, wclosed>>

\* peer_addr() fails on a reset connection before an advert is forwarded.
RecvFails(c) ==
  /\ task[c] = "select"
  /\ Lag(c) \in 1..Capacity
  /\ subscription_flags[c] # none
  /\ peer[c] = "reset"
  /\ cursor' = [cursor EXCEPT ![c] = @ + 1]
  /\ End(c)
  /\ UNCHANGED <<up, tail, clientVars, nread, nproc, torn, subscription_flags,
                 pend, sent, wclosed>>

-----------------------------------------------------------------------------
(* write_all, and the shutdown after a DisconnectResponse                  *)

Room(c) == Len(sent[c]) - nrecv[c] < SockCap

\* Mutant: no shutdown after a DisconnectResponse.
AfterWriteNoShutdown(f) == IF IsAdvert(f) THEN "select" ELSE "dispatch"

AfterWrite(f) ==
  IF IsAdvert(f) THEN "select"
  ELSE IF f.id = DisconnectResponse THEN "shutdown" ELSE "dispatch"

\* Mutant: `if' in place of `else if' on the flags writes an advert twice.
WriteDoneBothForms(c) ==
  /\ task[c] = "write"
  /\ ~wclosed[c]
  /\ peer[c] # "reset"
  /\ Room(c)
  /\ sent' = [sent EXCEPT ![c] =
                @ \o <<pend[c]>>
                  \o IF IsAdvert(pend[c])
                     THEN <<[pend[c] EXCEPT !.id = LegacyAdvert]>> ELSE <<>>]
  /\ task' = [task EXCEPT ![c] = AfterWrite(pend[c])]
  /\ pend' = [pend EXCEPT ![c] = NoFrame]
  /\ UNCHANGED <<up, tail, clientVars, nread, nproc, torn, subscription_flags,
                 cursor, wclosed>>

\* The frame is in the socket: a reply goes back to the loop over buf, an
\* advert to the select!, and a DisconnectResponse on to the shutdown.
WriteDone(c) ==
  /\ task[c] = "write"
  /\ ~wclosed[c]
  /\ peer[c] # "reset"
  /\ Room(c)
  /\ sent' = [sent EXCEPT ![c] = Append(@, pend[c])]
  /\ task' = [task EXCEPT ![c] = AfterWrite(pend[c])]
  /\ pend' = [pend EXCEPT ![c] = NoFrame]
  /\ UNCHANGED <<up, tail, clientVars, nread, nproc, torn, subscription_flags,
                 cursor, wclosed>>

\* EPIPE after a shutdown, an error once the peer is gone, or a transmission
\* timeout: the error leaves handle_client.
WriteFails(c) ==
  /\ task[c] = "write"
  /\ wclosed[c] \/ peer[c] # "open"
  /\ End(c)
  /\ UNCHANGED <<up, tail, clientVars, nread, nproc, torn, subscription_flags,
                 cursor, pend, sent, wclosed>>

\* stream.shutdown(): only the write half closes, and the loop over buf
\* continues; an error of a connection that broke meanwhile ends the task.
Shutdown(c) ==
  /\ task[c] = "shutdown"
  /\ \/ /\ wclosed' = [wclosed EXCEPT ![c] = TRUE]
        /\ task' = [task EXCEPT ![c] = "dispatch"]
     \/ /\ peer[c] # "open"
        /\ End(c)
        /\ UNCHANGED wclosed
  /\ UNCHANGED <<up, tail, clientVars, nread, nproc, torn, subscription_flags,
                 cursor, pend, sent>>

-----------------------------------------------------------------------------
ReadBranch(c) ==
  \/ \E k \in 0..MaxRequests, short \in BOOLEAN : Read(c, k, short)
  \/ ReadEnds(c)

RecvBranch(c) ==
  RecvForward(c) \/ RecvIgnore(c) \/ RecvLagged(c) \/ RecvFails(c)

Dispatch(c) ==
  \/ BufferDrained(c) \/ FramingPanic(c)
  \/ HandleAnswered(c) \/ HandlerFails(c)
  \/ HandleSubscribe(c) \/ HandleUnsubscribe(c) \/ HandleUnknown(c)

Write(c) == WriteDone(c) \/ WriteFails(c) \/ Shutdown(c)

Client(c) ==
  \/ Dial(c)
  \/ \E r \in Requests : SendRequest(c, r)
  \/ ReadFrame(c)
  \/ \E fault \in PeerFaults : Break(c, fault)

Step(c) ==
  \/ Client(c) \/ Accept(c)
  \/ ReadBranch(c) \/ RecvBranch(c) \/ Dispatch(c) \/ Write(c)

Next == Publish \/ AcceptFails \/ \E c \in Conn : Step(c)

SafeSpec == Init /\ [][Next]_vars

\* A spawned task that can run does run, and the random order in which
\* select! polls its branches starves neither.  Nothing obliges a client to
\* send or to close, nor a host to come back.
Fairness ==
  \A c \in Conn :
    /\ WF_vars(Accept(c))
    /\ WF_vars(Dispatch(c))
    /\ WF_vars(Write(c))
    /\ SF_vars(ReadBranch(c))
    /\ SF_vars(RecvBranch(c))

\* Clients that go on reading what the server writes to them.
Attentive(S) == \A c \in S : WF_vars(ReadFrame(c))
=============================================================================
