-------------------------- MODULE ServerProperties --------------------------
(***************************************************************************)
(* What is required of Server: the properties its runs check and           *)
(* ServerProofs proves, and the mapping under which it implements          *)
(* AdvertFeed.                                                             *)
(***************************************************************************)
EXTENDS Server, FiniteSetsExt

(***************************************************************************)
(* Safety, in terms of what a client can observe: the requests it sent and *)
(* the frames written to it.                                               *)
(***************************************************************************)

\* The adverts of a stream keep the order they were broadcast in and none
\* occurs twice, whatever the receiver skipped, lost or had pending
\* (the rx.recv() branch of handle_client).
OrderedAdverts ==
  \A c \in Conn : \A i, j \in 1..Len(sent[c]) :
    i < j /\ IsAdvert(sent[c][i]) /\ IsAdvert(sent[c][j])
      => sent[c][i].pos < sent[c][j].pos

\* Nothing is written after a DisconnectResponse, although handle_client
\* goes on serving the connection (disconnect_request's stream.shutdown()).
GoodbyeIsLast ==
  \A c \in Conn : \A i \in 1..Len(sent[c]) :
    sent[c][i].id = DisconnectResponse => i = Len(sent[c])

\* Request and response ids as api.proto declares them.
Exchange == {<<1, 2>>, <<3, 4>>, <<5, 6>>, <<7, 8>>, <<9, 10>>, <<11, 19>>,
             <<80, 81>>}
Expects(r) == \E e \in Exchange : e[1] = r.type

\* Replies among the first m frames written on c.
Replies(c, m) == Cardinality({i \in 1..m : ~IsAdvert(sent[c][i])})

\* Requests that expect a reply among the first p sent on c.
Expected(c, p) == Cardinality({i \in 1..p : Expects(asked[c][i])})

\* The k-th reply answers the k-th request that expects one, and no later
\* request was answered before it was sent: pipelined requests are neither
\* reordered, skipped nor answered twice (the loop over next_message).
RepliesInOrder ==
  \A c \in Conn : \A m \in 1..Len(sent[c]) :
    ~IsAdvert(sent[c][m]) =>
      \E p \in 1..Len(asked[c]) :
        /\ Expected(c, p) = Replies(c, m)
        /\ <<asked[c][p].type, sent[c][m].id>> \in Exchange

\* The first p requests of c that say what to subscribe to.
Spoken(c, p) == {i \in 1..p : \/ asked[c][i].type = UnsubscribeAdverts
                              \/ /\ asked[c][i].type = SubscribeAdverts
                                 /\ asked[c][i].valid}

\* The subscription request in force once the first p requests of c have
\* taken effect, or 0 if none is.
InForce(c, p) ==
  IF Spoken(c, p) = {} THEN 0
  ELSE IF asked[c][Max(Spoken(c, p))].type = UnsubscribeAdverts THEN 0
  ELSE Max(Spoken(c, p))

\* Every advert is explained by the requests: some number of them, consistent
\* with the replies written so far, leaves a subscription in force that asks
\* for this form (bit 0 of its flags selects raw).  So a reply to a request
\* sent after an unsubscribe is a fence no advert crosses
\* (subscription_flags against the order of handler and rx.recv() steps).
AdvertsExplained ==
  \A c \in Conn : \A m \in 1..Len(sent[c]) :
    IsAdvert(sent[c][m]) =>
      \E p \in 1..Len(asked[c]) :
        /\ Expected(c, p) = Replies(c, m)
        /\ InForce(c, p) # 0
        /\ (sent[c][m].id = RawAdvert)
             = (asked[c][InForce(c, p)].flags % 2 = 1)

-----------------------------------------------------------------------------
(* Refinement.  A frame that is being written has not happened yet; a      *)
(* connection the client reset is closed whether or not its task has       *)
(* noticed.                                                                *)

Gone(c) == task[c] = "ended" \/ peer[c] = "reset"

PhaseOf(c) == IF Gone(c) THEN "closed"
              ELSE IF task[c] \in {"new", "backlog"} THEN "new" ELSE "open"
DoneOf(c)  == IF Gone(c) THEN 0
              ELSE IF pend[c] # NoFrame /\ ~IsAdvert(pend[c]) THEN nproc[c] - 1
              ELSE nproc[c]
ModeOf(c)  == IF Gone(c) THEN none ELSE subscription_flags[c]
NextOf(c)  == IF Gone(c) THEN 0
              ELSE IF IsAdvert(pend[c]) THEN cursor[c] - 1 ELSE cursor[c]

phaseBar == [c \in Conn |-> PhaseOf(c)]
doneBar  == [c \in Conn |-> DoneOf(c)]
modeBar  == [c \in Conn |-> ModeOf(c)]
nextBar  == [c \in Conn |-> NextOf(c)]

Feed == INSTANCE AdvertFeed WITH
          phase <- phaseBar, done <- doneBar, mode <- modeBar,
          next <- nextBar, out <- sent

\* The server keeps the promise of AdvertFeed: no step of any interleaving of
\* handlers, adverts, blocked writes and broken sockets shows a client
\* anything the atomic conversation would not.
ImplementsFeed == Feed!Spec

-----------------------------------------------------------------------------
(* Liveness                                                                *)

CONSTANT Reader   \* connections whose client goes on reading

LiveSpec == SafeSpec /\ Fairness /\ Attentive(Reader)

\* Once the client has closed or reset the connection its task comes to an
\* end, also one that waits in write_all, that still has requests in buf or
\* whose write half is shut (Ok(0) and Err of read_buf, and every `?').
GoneClientsReaped ==
  \A c \in Conn :
    peer[c] \in {"closed", "reset"} ~> task[c] = "ended"

\* No client holds up another one, or the sender: as long as the source goes on
\* sending, a client that reads is accepted and its receiver gets past every
\* advert, or its session ends, while another client sits idle or has stopped
\* reading and its task is stuck in write_all (tokio::spawn in run_tcp_server,
\* and tx.send, which never waits).
StalledClientsStallNoOther ==
  WF_vars(Publish) =>
    \A c \in Reader :
      task[c] # "new" ~> (cursor[c] = MaxAdverts \/ task[c] = "ended")

\* Every request of a client that reads is taken out of the buffer and
\* handled, adverts or not, unless the connection ends.
RequestsServed ==
  \A c \in Reader : \A n \in 1..MaxRequests :
    Len(asked[c]) >= n
      ~> ((nproc[c] >= n /\ task[c] # "write") \/ task[c] = "ended")

\* "Both parties are required to close the connection after this message has
\* been received" (api.proto, of DisconnectResponse): a session that has
\* answered a disconnect comes to an end.
ClosedAfterDisconnect ==
  \A c \in Conn : wclosed[c] ~> task[c] = "ended"
=============================================================================
