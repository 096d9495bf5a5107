----------------------------- MODULE AdvertFeed -----------------------------
(***************************************************************************)
(* What the proxy promises the clients connected to it.                    *)
(*                                                                         *)
(* Each connection is a conversation of its own: its requests take effect  *)
(* one at a time, in the order they were sent; each answered request adds  *)
(* its reply to the stream in a single step; and in between the stream     *)
(* gets, in the form the client asked for, the adverts broadcast since the *)
(* connection was accepted.  An advert is left out only while nothing is   *)
(* subscribed or when the client is more than Capacity adverts behind, and *)
(* nothing follows the reply to a disconnect.  There are no buffers, no    *)
(* pending writes and no broken sockets here: Server has them and is shown *)
(* to implement this.                                                      *)
(***************************************************************************)
EXTENDS Messages

CONSTANTS
  Conn,       \* TCP connections
  Capacity,   \* adverts a client may be behind
  Requests    \* requests a client may send

VARIABLES
  tail,    \* adverts broadcast so far
  phase,   \* "new", "open" or "closed"
  asked,   \* requests sent, in order
  done,    \* requests that have taken effect
  mode,    \* the subscription in force
  next,    \* position of the next advert for this client
  out      \* the stream written to the client

vars == <<tail, phase, asked, done, mode, next, out>>

Init ==
  /\ tail = 0
  /\ phase = [c \in Conn |-> "new"]
  /\ asked = [c \in Conn |-> <<>>]
  /\ done = [c \in Conn |-> 0]
  /\ mode = [c \in Conn |-> none]
  /\ next = [c \in Conn |-> 0]
  /\ out = [c \in Conn |-> <<>>]

\* The reply to a disconnect is the last frame of a stream.
SaidGoodbye(c) ==
  out[c] # <<>> /\ out[c][Len(out[c])].id = DisconnectResponse

Publish ==
  /\ tail' = tail + 1
  /\ UNCHANGED <<phase, asked, done, mode, next, out>>

Ask(c, r) ==
  /\ asked' = [asked EXCEPT ![c] = Append(@, r)]
  /\ UNCHANGED <<tail, phase, done, mode, next, out>>

Open(c) ==
  /\ phase[c] = "new"
  /\ phase' = [phase EXCEPT ![c] = "open"]
  /\ next' = [next EXCEPT ![c] = tail]
  /\ UNCHANGED <<tail, asked, done, mode, out>>

\* The next request to take effect on an open connection.
Current(c, r) ==
  /\ phase[c] = "open"
  /\ done[c] < Len(asked[c])
  /\ r = asked[c][done[c] + 1]
  /\ done' = [done EXCEPT ![c] = @ + 1]

Answer(c) ==
  \E r \in Requests :
    /\ Current(c, r)
    /\ r.type \in Answered
    /\ r.valid
    /\ ~SaidGoodbye(c)
    /\ out' = [out EXCEPT ![c] = Append(@, Reply(r.type))]
    /\ UNCHANGED <<tail, phase, asked, mode, next>>

\* The subscription in force after request r under subscription m.
Mode(r, m) ==
  IF r.type = UnsubscribeAdverts THEN none
  ELSE IF r.type = SubscribeAdverts /\ r.valid THEN from_flags(r.flags)
  ELSE m

Obey(c) ==
  \E r \in Requests :
    /\ Current(c, r)
    /\ r.type \notin Answered
    /\ mode' = [mode EXCEPT ![c] = Mode(r, @)]
    /\ UNCHANGED <<tail, phase, asked, next, out>>

Deliver(c) ==
  /\ phase[c] = "open"
  /\ mode[c] # none
  /\ next[c] < tail
  /\ ~SaidGoodbye(c)
  /\ out' = [out EXCEPT ![c] =
               Append(@, [id |-> AdvertId(mode[c]), pos |-> next[c]])]
  /\ next' = [next EXCEPT ![c] = @ + 1]
  /\ UNCHANGED <<tail, phase, asked, done, mode>>

Skip(c) ==
  /\ phase[c] = "open"
  /\ mode[c] = none
  /\ next[c] < tail
  /\ next' = [next EXCEPT ![c] = @ + 1]
  /\ UNCHANGED <<tail, phase, asked, done, mode, out>>

Overrun(c) ==
  /\ phase[c] = "open"
  /\ tail - next[c] > Capacity
  /\ next' = [next EXCEPT ![c] = tail - Capacity]
  /\ UNCHANGED <<tail, phase, asked, done, mode, out>>

\* Connections end, for any reason and at any time; of a closed connection
\* only what was written to it is left.
Close(S) ==
  /\ phase' = [c \in Conn |-> IF c \in S THEN "closed" ELSE phase[c]]
  /\ done' = [c \in Conn |-> IF c \in S THEN 0 ELSE done[c]]
  /\ mode' = [c \in Conn |-> IF c \in S THEN none ELSE mode[c]]
  /\ next' = [c \in Conn |-> IF c \in S THEN 0 ELSE next[c]]
  /\ UNCHANGED <<tail, asked, out>>

Next ==
  \/ Publish
  \/ \E S \in SUBSET Conn : Close(S)
  \/ \E c \in Conn :
       \/ \E r \in Requests : Ask(c, r)
       \/ Open(c)
       \/ Answer(c) \/ Obey(c)
       \/ Deliver(c) \/ Skip(c) \/ Overrun(c)

Spec == Init /\ [][Next]_vars
=============================================================================
