# A TLA+ model of linux_bt_proxy

`linux_bt_proxy` is a daemon that listens for BLE advertisements through BlueZ
on D-Bus and forwards them, over the plaintext ESPHome API on TCP, to every
connected client that subscribed to them. This directory holds TLA+ modules
that model the daemon, TLC configurations that check them on small instances,
and proofs that TLAPS checks for every value of the constants. Paths below are
relative to the root of the repository.

## 1. The system

```
 BlueZ / D-Bus          BLE listener            broadcast channel
 (external)     ---->   src/ble.rs      ---->   tokio, capacity 100
                        run_supervised          (external)
                                                     | one receiver per session
 clients (TCP)  <---->  framing         <---->  session: handle_client
 (external)             src/proto.rs            src/server.rs, src/handlers.rs
```

| Component | Where | State it keeps | Operations |
|---|---|---|---|
| TCP server | `src/server.rs:15-34` | none but the listening socket | accept and spawn a session; return an accept error, which ends the process (`src/main.rs:161-165`) |
| Session | `src/server.rs:36-112` | `buf`, `subscription_flags`, the channel receiver `rx`, the socket | read, take a message out of `buf`, dispatch on its type, receive an advert, end |
| Handlers | `src/handlers.rs` | none of their own; `subscription_flags` and the socket are passed in | reply to hello, connect, ping, disconnect, device info, list entities, connections free; subscribe and unsubscribe; forward an advert raw or legacy |
| Broadcast channel | `src/main.rs:121`, `src/server.rs:26` | the last 100 adverts, a position per receiver | send, resubscribe, recv with its `Lagged` |
| Framing | `src/proto.rs`, `src/handlers.rs:58-70` | `buf` of the session | `encode_varint`, `decode_varint`, `next_message`, `encode_response` |
| BLE listener | `src/ble.rs:79-196, 255-302` | D-Bus connection, three message streams, the discovery session BlueZ keeps for the connection | connect, subscribe, start discovery, react to three kinds of signal, fetch properties, send an advert |
| Supervisor | `src/ble.rs:42-77` | `backoff` | run the listener, reset, sleep, double |
| Advertisement conversion | `src/ble.rs:198-253`, `src/raw_adv.rs` | none | BlueZ properties to a legacy and a raw advert |
| Lifecycle | `src/main.rs`, `systemd/linux-bt-proxy.service` | what has been started | MAC lookup with retries, start the supervisor, register mDNS, bind, notify systemd, ping its watchdog, serve |
| Context, utilities, mDNS | `src/context.rs`, `src/utils.rs`, `src/mdns.rs` | immutable configuration | MAC formatting, one registration |
| Protocol | `proto/api.proto`, `src/api/` | none | message ids; generated `compute_size`, `write_to`, `merge_from` |

**How they interact.** The supervisor's task runs the listener, which sends
adverts into the broadcast channel. `send` never waits. The server spawns one
task per connection with a receiver of its own (`resubscribe`), so sessions
share nothing but the channel, the accept loop and the process. Within a
session one task does everything: `select!` waits for bytes or for an advert,
and whatever the chosen branch awaits (`write_all`, `shutdown`) keeps the other
branch waiting. In the listener likewise no stream is polled while a method call is
awaited.

**What is hard.** Adverts interleave with pipelined requests that change how
adverts are to be sent. TCP cuts frames anywhere. A client may stop reading, close,
reset or vanish at every point. A receiver may fall behind the channel. The
session goes on after it has shut its write half. On the other side, BlueZ may
stop discovering, lose its adapter, die and come back, and D-Bus may break, at
every await of the listener; signals say that something changed, not what it
changed to. Around both, `main` starts things in an order in which each may fail, and
systemd counts starts and seconds. The list of hazards, each at its line and with the properties that cover it, is in
`PROJECT.json`.

**What makes each part correct.**

- Session: the stream a client gets is a conversation in which its requests
  take effect one by one and every advert is in broadcast order, at most once and in
  the form then in force; sessions of clients that left end; requests of clients
  that read are served; a stuck client stalls nobody else.
- Framing: bytes in, messages out, whatever the cuts; the loop waits only for
  what has not come.
- Listener: discovery runs only into streams that are set up, comes back by
  itself, and what is signalled is sent; the waits between runs follow the failures.
- Conversion: the raw advert is a well-formed sequence of AD structures, and says
  what the legacy form of the same advert says.
- Lifecycle: readiness means serving; only a stuck process is killed; what is
  killed or has failed is started again and never runs into the start limit; it
  stays down only if bluetooth.service could not be started when a restart was due.
- The whole: what BlueZ signals reaches every subscriber that reads, and no
  client is told of an older state by anything but an `InterfacesAdded` read late.

## 2. The modules

### Server (core), with Messages, AdvertFeed, ServerProperties

`Messages` has the ids the server matches and answers with, the reply to each
request, the subscription flags (`from_flags`, `none`) and the id of the form an
advert takes. Frames are records of an id and, for adverts, a position in the broadcast
order. All other field values are left out: no control depends on them.

`Server` models `run_tcp_server` and `handle_client`. Its variables against the code:

| Variable | Code |
|---|---|
| `task[c]` | where the task of connection `c` is: `backlog` (not accepted), `select` (waiting in `select!`), `dispatch` (in the `while let` over `next_message`), `write` (in `write_all`), `shutdown`, `ended` |
| `asked[c]`, `nread[c]`, `nproc[c]`, `torn[c]` | the requests sent; how many of them are in `buf` or past it; how many `next_message` has returned; `buf` ends within the last bytes of a request |
| `subscription_flags[c]` | the variable of that name |
| `tail`, `cursor[c]` | adverts sent into the channel; position of the receiver |
| `pend[c]`, `sent[c]`, `nrecv[c]` | frame in `write_all`; frames written; frames the client has read |
| `wclosed[c]`, `peer[c]`, `up` | `stream.shutdown()` done; the client's end; the process runs |

Every arm of the `match` and every `?` on its way is a disjunct of `Dispatch`,
`Write`, `ReadBranch` or `RecvBranch`: the subscribe arm only logs its error
(`HandleSubscribe`), the others return it (`HandlerFails`); `peer_addr()?` fails on a reset
socket (`HandlerFails`, `RecvFails`); `Lagged` moves the receiver
(`RecvLagged`); after a `DisconnectResponse` the write half is shut and the loop
continues (`Shutdown`). Messages are whole here; `Framing` has the bytes. The one
thing a session sees of them is `torn`: `next_message` panics when a read
stops within the type's length of the end of a frame with a payload, and the task is gone
(`FramingPanic`). `Framing`'s `PanicIsTorn` shows that this is the
only way it can panic.

`AdvertFeed` is the promise to a client, without buffers, pending writes or
sockets: a request takes effect together with its reply, an advert is
delivered, skipped while nothing is subscribed, or overrun. `ServerProperties`
has the mapping (a frame in `write_all` has not happened yet, a reset
connection is closed) and the properties.

### Framing

`encode_varint`, `decode_varint`, `encode_response` and `next_message` byte by
byte, and the loop that feeds them, with the digit base, the greatest number of
varint bytes, the word and the integer a type is cast to as constants (128, 10, 2^64 and 2^32 in the code). Both
errors of `decode_varint` are `None` to its caller. Clients conform: they send frames.

### Listener, with ListenerProperties

`Listener` models `run_supervised` and `run_bluez_advertisement_listener`: one
action per await (`Connect`, `AddMatch` three times, `SetDiscoveryFilter`,
`StartDiscovery`, `GetAll`) and per branch of the `select!`; every `?` is `Fail`,
which drops connection and streams and goes to sleep. `long` says that
`HEALTHY_RUN_THRESHOLD` has passed. BlueZ and the bus are the environment: an
adapter that is on, off or gone, the discovery session and the discovery filter of our
connection, known devices whose properties are abstracted to a version, and a queue per message
stream. A signal is queued only on a stream that is set up. The calls of one
`get_device_properties` are one step.

Three history variables say what the code does not keep: `owed`, the last signal queued of
each device; `died`, that bluetoothd has died since this run began, which is what
the code cannot notice; `lapse`, that the adapter was lost between
`SetDiscoveryFilter` and `StartDiscovery`. The last is a window the code leaves open: BlueZ
then discovers without the filter, so repeats are dropped until discovery is
asked for again. `DuplicatesWanted` says that it is the only one.

### RawAdv, with RawAdvProperties

`build_advertisement`, `build_raw_advertisement_data` and what they call, as
functions of `props`, the properties BlueZ holds of a device, each known or not. Bytes are
numbers, lengths are cast as in the code, UUIDs have their real 16 bytes and are
shrunk by the real suffix; a hexadecimal text is the sequence of its digits.
Only the address is shorter than the program's (`MacLength`), since TLC's
integers have 32 bits. BlueZ's side is `Heard` and `Invalidated`. `RawAdvProperties` has a
reader of AD structures as the Bluetooth Core Specification has it: the properties compare
what such a reader makes of the raw form with the legacy form.

### Wire

The frames of a session byte by byte, for the 21 message types the proxy sends, parses or nests in
these: each type is its table of fields, written, measured and read by the
generated `write_to`, `compute_size` and `merge_from` and framed by `encode_response`;
`merge_from` stands as the relation between bytes and the message they are read as, item by
item: `ReadVarint` the number in front, `FirstItems` a tag and its value, `Items` all of them.
Adverts are those of `RawAdv`, replies those of the handlers. `compute_size` and `write_to`
are separate code, and a frame is only found again when they agree. The model nests messages
once, as the messages in use do.

### Lifecycle, with LifecycleProperties

`main` call by call, the watchdog's ticker, what `run_supervised` tells systemd, and the
unit as `linux-bt-proxy.service` has it. Time is discrete and only `Tick` takes any, which waits until
nothing else is due; the settings are constants, and `LifecycleAssumption`
says what of them the properties need: half the watchdog's time and the jitter fit into it, the sleeps of
the lookups fit into the start timeout, and `LimitBurst` restarts take
longer than `LimitInterval`. systemd is external: it kills a unit that is late (`Kill`), starts it again
after `RestartSec` and counts starts (`Restart`). The unit requires bluetooth.service: if that
cannot be started when a restart is due, for want of the bus or of a bluetoothd that answers,
systemd may drop the restart with the result `dependency`, which `Restart=on-failure` does not retry (`DropRestart`); it may also find
bluetooth.service running and start the unit. What `main` needs of its host is
the set `works`; a part may be missing at boot (not the bus, since bluetooth.service
has been started), and a bounded number fail later. `held` says that bluetoothd has let
the start in progress wait; it is of no account once `READY=1` is sent.
`Wedge` blocks every thread of the runtime.

### Proxy

`Proxy` composes `Listener` (as `L`) and `Server`: a step of the listener
that adds an advert to `out` is the server's `Publish`, as `tx.send` is one call; every other step
is one of either part alone; the process that an accept error ends takes the
listener with it. `Carried` reads the advert of a frame at the frame's position in `out`.

### MC modules

`MCServer`, `MCFraming`, `MCListener`, `MCRawAdv`, `MCLifecycle` and `MCProxy` give the constants
values that a `.cfg` cannot write. Operators marked *Mutant* in the modules are plausible mistakes in the code
that stands after them: put in its place, each makes TLC report the properties
`PROJECT.json` names, which shows that these properties depend on that code.

## 3. The runs

| Run | What it shows | States |
|---|---|---|
| session | one connection, every kind of request (malformed ones too), torn reads, lag, close, reset, vanish: types, order of adverts, nothing after goodbye, refinement of `AdvertFeed` | 172k |
| serve | three pipelined requests, a malformed subscribe among them, of a client that reads and may close or reset: all are handled, replies in order, adverts explained by the requests, the task of a client that left ends | 204k |
| live | a reading and a possibly idle or stalled client on one channel and one accept loop: refinement for both; the one that reads is accepted and gets past every advert, and the sender waits for nobody | 169k |
| goodbye | finding 1 | |
| stream | two frames cut anywhere; every value of a five-bit word as a varint in front of each buffer, and varints that are too long refused | 4.9k |
| entire | finding 2 | |
| discovery | one device, every fault: discovery comes back, into streams that are set up and under its filter; what is signalled is sent, or something newer; the waits follow the failures | 420k |
| blind | finding 3 | |
| forms | every combination of a device's properties: raw and legacy form say the same, UUIDs in their shortest form, signs and addresses read back; both forms come out of their frames as they went in | 6.0k |
| exact | finding 4 | |
| lifecycle | anything missing at boot, two faults after it: only the stuck are killed, the start limit is never hit, ready means serving, the lookups get all their attempts; wedged processes are replaced, the proxy comes up unless a restart was dropped, a listener whose bus is down is reported | 83k |
| proxy | a reading subscriber, a device of three states, bluetoothd dying, the device dropped: news arrive, nothing goes back in time | 292k |

**Bounds and why they are enough.** `MaxRequests` and `MaxAdverts` cap what a
session is sent. Two requests of every kind, or three of the kinds whose effects differ, contain
every pair of effects with adverts before, between and after; three adverts with
a channel of two (or two with one) overrun a receiver both by one and at the start.
Sockets of one frame make `write_all` wait. Sessions share only the
channel and the accept loop, so two of them are all there is to interfere; the
proofs cover any number. `live` has three adverts for a channel of one: with one in the stalled client's
socket and one in its `write_all`, one more is still to be sent. In `Framing`, two frames with payloads of length 0, 1, 2 and 4
and types of one to three varint bytes are cut everywhere; digits of two bits and
words of five leave the last varint byte partly used, as 7 and 64 do; a type is cast to less than
the word (`TypeWord`), as u64 to u32 is.
In `Listener`, `MaxSightings` and `MaxQueue` cap signals; three states of one
device are what it takes for a late `InterfacesAdded` and a `GetAll` to cross.
`MaxStreak` caps only the history variable with which the backoff is compared, and a
cap of two units makes it reached and kept.
The connection and its streams are rebuilt by every run of the listener, so
faults may recur without bound. In `RawAdv` each property is unknown or one of a few
values: UUIDs of every size, an unreadable one, lists that just fit and just do not. In `Lifecycle` the constants keep
the order of the real settings (three lookups in place of five, a watchdog of
four units in place of 30 s, three starts in five units in place of five in 10 s); two faults are one that is met
while another is being recovered from. In `Proxy` one client and one
device suffice for a frame to cross another; the channel of three never overruns here, since
a state the channel drops is not promised, and `ClientsNeverGoBack` is proved for
any capacity.

`CHECK_DEADLOCK FALSE` where the bounds or the system itself end a behaviour (a
process that has exited, connections that have all ended). `RawAdv` and
`Lifecycle` never stop, and are checked for deadlock.

**Fairness.** A tokio task that can run runs (weak fairness of its steps).
`select!` polls its branches in random order, so a branch that is ready again
and again is taken (strong fairness of `ReadBranch` and `RecvBranch`, and of the branches
of the listener). Timers fire (`WakeUp`). TCP delivers. Clients, BlueZ and the
bus owe nothing: no fairness for sending, closing, powering on or returning.
(`StalledClientsStallNoOther` alone is about a source that goes on sending: weak fairness of
`Publish` is its antecedent and not part of the specification. `Publish` is then owed
whenever it is enabled, so that a `send` that waited for a stalled client would violate it.)
The clients in `Reader` go on reading, which the liveness properties about them need; a
client outside it may stall for ever. In `Lifecycle` time passes, systemd acts on its
timers, `main` and the ticker run; the listener is owed only
that it fails while there is no bus (its `Connect` returns the error); nothing mends by fairness, and the liveness
properties say what must be there. `Proxy` assumes of these only what lies on an advert's way.

**Findings.**

1. *Goodbye* (`src/handlers.rs:118`). After a `DisconnectResponse` the server
   only shuts its write half; a client that keeps its own half open holds the
   task for ever, while `proto/api.proto:169-170` requires both parties to close.
2. *Entire* (`src/proto.rs:61`). The length check is made before the type has been skipped, so
   a read that ends just short of a frame makes `split_to` panic.
3. *Blind* (`src/ble.rs:111`). When bluetoothd dies and comes back on a bus that survives, no
   signal the listener reacts to says so, and it stays connected but blind,
   against `README.rst:11` and `README.rst:127`. `BlindnessEnds` shows that this
   is the only way.
4. *Exact* (`src/raw_adv.rs:41`). A list of UUIDs longer than a structure can be has its length
   wrapped around, and service and manufacturer data after it can no longer be
   read, against the comment at `src/raw_adv.rs:143-144`. `FormsAgree` shows that
   nothing else goes wrong as long as the lists fit.

## 4. The proofs

The proofs about `Server` assume `ServerAssumption` only: the capacity of the channel is at least one and
requests are requests. Nothing is assumed of the number of connections, the
bounds or the requests sent. They are about `SafeSpec`.

`ServerProofs`:

- `TypeCorrect`: `[]TypeOK`. It is not empty: a receiver is moved to
  `tail - Capacity`, which is a position only because it had fallen behind by more.
- `Invariance`: `[]IInv`, the inductive invariant. The properties are not inductive by
  themselves: that adverts in `sent` are ordered says nothing about the one in
  `pend`, and that nothing follows a goodbye says nothing about who is about to
  write. `IInv` adds, for every session, that it takes no more than it has read and reads
  no more than was sent; that no receiver is ahead of the channel; that a
  frame is pending exactly in `write`, and, if it is an advert, is the one just
  before `cursor`; that every advert in `sent` is below that; and that a
  `DisconnectResponse` is last, with the session either about to shut its write half or
  having shut it. TLC checked it on instances such as `session` before it was proved.
- `AdvertsInOrder` and `NothingAfterGoodbye`: `[]OrderedAdverts` and
  `[]GoodbyeIsLast`, from `IInv`.

The refinement, also in `ServerProofs`:

- `Implementation`: `SafeSpec => ImplementsFeed`. `BarsAt` and `BarsOf` reduce
  the mapped state of a step to the mapped state of the one connection that
  takes it; then every action is a step of `AdvertFeed` or a stutter.
  `IInv` supplies what a step cannot see: that the pending advert is at `cursor - 1`, and that
  a session that may still write has not said goodbye.

The conversation, also in `ServerProofs`:

- `Conversations`: `[]Conversation(c)` for every connection, the inductive invariant under
  `EveryReplyInOrder` and `EveryAdvertExplained`, which are `[]RepliesInOrder` and
  `[]AdvertsExplained`. The two count: replies over a prefix of `sent`,
  requests over a prefix of `asked`, the request in force as the greatest index of a
  subscription request. Neither is inductive: both speak of the frames written, and which frame
  comes next is decided earlier. `Conversation` adds, for a task that has not ended, that as many
  replies are written as requests whose handling is over expect one (`Tallied`; the one
  being answered is not over), and that the flags are those the requests taken so far
  leave (`Obeyed`; not after a reset, where a valid subscription may fail). A written
  frame stays explained since requests are only appended (`PrefixKept`, `FramesKept`). TLC checked
  it on instances such as `session` and `serve` before it was proved. The counts are of finite sets that
  grow by one or not at all (`CountNext`), and the request in force changes as `InForceNext`
  says, which needs that a bounded set has a greatest member (`Greatest`).

The argument for one action is one lemma (`ClientSession`, `ReadSession`,
`RecvSession`, `DispatchSession`, `WriteSession`, and the `...Allowed` lemmas
for the refinement); `Elsewhere` and `SessionKept` deal with the connections that do not move.

`ListenerProofs` assumes `ListenerAssumption`:

- `Invariance`: `[]IInv`. `Ready` says what each phase has set up (so that
  discovery cannot start early) and that the filter is in force in `scan` and under every
  session, or has lapsed; `Dated` that nothing sent or queued is newer than
  its device, without which a fetched advert could be older than one sent;
  `Owing` that a signal not yet answered is queued, being fetched or sent, on
  a live connection, for a device BlueZ still has, and not newer than the device.
  TLC checked it on instances such as `discovery` before it was proved.
- `TypeCorrect`, which is not inductive alone: a device must have been seen for
  its advert to have a version, and only `Ready` keeps `matched` at three.
- `DiscoveryIsHeard`, `FilterHolds`, `FetchedIsNewest`, `NothingOwedIsLost`:
  `[]DiscoversIntoStreams`, `[]DuplicatesWanted`, `[]FetchedNeverGoesBack`,
  `[]NewestIsSent`.
- `BackoffIsDoubled`: `[]BackoffFollowsFailures`, by an invariant of its own (`Backed`): the
  backoff is 2^streak up to the cap at all times, not only while it is waited for. Only `Fail` and
  `WakeUp` touch it (`BackoffSteps`), and a doubling of what is capped is the capped doubling
  (`Capped`, `DoublingsStep`).

There is one lemma per action or group of alike actions; `DataKept` deals with the steps that
touch no advert and no signal, `SendKeeps` with the two branches that send.

`LifecycleProofs` assumes `LifecycleAssumption`, for any settings that satisfy it:

- `Invariance`: `[]IInv`. `Placed` says which places of `main` go with which state of the
  unit, and what is published and bound there; `AtLeast` bounds the clocks from below (the sleeps so far have
  been slept), `AtMost` from above (a process that nothing holds has not
  slept longer than its attempts); `Pinged` relates the time since the last ping to the
  ticker, whose late ticks do not add up; `Spaced` says that every start counted has
  taken `RestartSec` of the window.
- `TypeCorrect`; `HealthyAreSpared`, from `AtMost` and `Pinged`; `RestartsForEver`, which is
  about the start limit only, from `Spaced`; `ActiveMeansServing`, from `Placed`; `BluetoothdIsWaitedFor`, an
  action property, from `AtLeast`.

`ProxyProofs` assumes `ProxyAssumption`, of which the proofs need only what the
parts assume:

- `ProxyServes` and `ProxyListens`: the whole implements each of its parts, so that
  all of the above holds in it.
- `ClientsNeverGoBack`: `[]FramesNeverGoBack`, for any number of clients. It takes
  `IInv` of `Server` (frames are in the order of the channel and their positions
  below its tail), `FetchedIsNewest` of `Listener`, and the link
  between the two, `tail = Len(out)`, an invariant by `SendsOne`: the listener sends one advert in a step or
  none. `SameListener` says that the listener of `Proxy` and that of `ListenerProofs` are one.

`FramingProofs` assumes `FramingAssumption`: any base above one, any word that
`Groups` digits can hold, types below `TypeWord`, which is no more than the word, payloads of bytes shorter than the word.

- `Streams`: `[]Stream`, the inductive invariant. Its heart is that the encoding of the messages
  sent and not handed over is `buf \o wire`, so that `buf` begins with the frame of the message that
  follows, as far as it goes (`BufBegins`). To that a task that waits adds that the frame is
  not complete, and a task that panicked that it was over a torn frame.
- `NextWhole` and `NextPart`, on which its preservation rests, say what `next_message` does
  with a buffer that begins with a frame: it returns the message and leaves what follows, or
  is `None`, or panics with at least one byte and at most the bytes of the type missing.
- `DecodeWhole` and `DecodePart` say the same of `decode_varint` and a varint: a word is
  read back whatever follows it, a part of one is an error; `DecodeLong` that `Groups` bytes
  with the continuation bit are an error too. They rest on `VarintCode` (the bytes
  `encode_varint` writes, least significant first, are the digits of the number, and only the last has no
  continuation bit), and `VarintSize` (a number below Base^k has at most k of them).
- `FramingTypes`, `NoByteLost`, `WaitsForMore`, `PanicsTorn`, `WordsReadBack`: the
  invariants of the run `stream`, of any messages and any cuts.

`RawAdvProofs` assumes `RawAdvAssumption` (values of the D-Bus types, an address that fits its
u64) and `ReceivedAssumption`: a name, the service data of a UUID and the manufacturer data
of a company each came in one AD structure, the length of which was a byte. UUIDs are
gathered from several structures, so nothing is assumed of their lists; the
properties about the bytes say `ListsFit` themselves, and finding 4 is what happens without it.
The invariant is `Known` (BlueZ gave every value it holds), and the work is in the functions:

- `PacketsAreBytes`: `[]TypeOK`.
- `AddressesReadBack`: `[]AddressReadsBack`, for any number of parts up to eight:
  `Number` counts digits and `Shown` takes them off again.
- `PowerReadsBack`, `FormsAreShortest`, `TheFormsAgree`: `[]TxPowerReadsBack`,
  `[]ShortestForm`, `[]FormsAgree`. They rest on `PushRead`: the structure that `push_ad`
  writes is read back in front of whatever follows. `Packs(data, S)` says so of any bytes that stand
  for the structures S; it goes through concatenation (`PacksBoth`) and `FlattenSeq`
  (`PacksAll`), so that `PacketStructures` gives the structures of every packet and
  `PacketPayloads` those of each type. `ChunksBack` takes a list of UUIDs apart again,
  `Forms` says that a short form stands for the UUID it was made of and that
  no shorter one does, and `CompanyReadsBack` that four hexadecimal digits are the number.

`WireProofs` needs what `RawAdvProofs` does, for the adverts:

- `FramesAreReadBack`: `[]FramesReadBack`. Whatever BlueZ says of a device and at any length, both
  forms of its advert, and every message of the session, are sent as a frame that announces its size and
  is read back as the message. A device without an address has no advert.
- `FineReadsBack`, on which it rests, is about the generated code alone: any table of fields with
  distinct tags, of any length, and any message whose fields are of the kinds the table says
  (`Fine`). `SessionReadsBack`, `DeviceInfoReadsBack` and `AdvertReadsBack` find the
  messages of this program among those.
- Reading: `VarintRead` (a number is read back whatever follows), `NumberRead` and `BytesRead` (so is a
  field), `FieldsRead` (the bytes of a table of fields say of each tag the values that were written
  there, since tags differ), `MessageRead` (so what is read is the message).
- Measuring: `VarintSizeIs` (`compute_raw_varint64_size` is the length of the varint), `ValueSize`, and
  `MessageSize`: sizes add up as bytes are joined.
- The argument is made twice, since messages nest once: `FlatReadBack` for a message without others in
  it, which is then a value in `FullReadBack`. The functions of `Wire` that take operators as parameters
  are written out first (`MergeFromIs`, `WriteToIs`, `ComputeSizeIs`), which makes the
  rest first-order.

`Induction` has what the proofs about recursive functions need. The library states induction and
recursion with operators as parameters, which the provers cannot instantiate; here they are
stated with sets and functions: `Least`, `Greatest`, `Induct`, and that a
function given by its value at 0 and a step exists (`Recursion`), as does one that
comes from its value at any smaller number (`StrongRecursion`). `DoublingsStep`,
`PowerStep`, `EncodeStep`, `NumberStep`, `EncodingStep`, `ShownStep`, `ReadStep`, `VarintStep`,
`FirstItemsStep`, `Counted` and, for the `FlattenSeq` of the community modules, `JoinedIn` take from
these that the recursive definitions define what they seem to define.

**Only model-checked.** All liveness (fairness and ENABLED are out of the
prover's reach): `RequestsServed`, `GoneClientsReaped`, `StalledClientsStallNoOther`,
`EveryMessageHanded`, `BlindnessEnds`, `SightingsReachTheChannel`,
`WedgedIsReplaced`, `ComesUp`, `DownIsReported`, `NewsReachSubscribers`.
Every invariant and every safety property of a step that a passing run checks has a theorem.

## 5. Not modelled

- Most of the generated code. 31,700 of the 33,000 lines of implementation are what
  the protobuf generator makes of `proto/api.proto` and its options. `Wire` has the 21 message types in use; the other 120
  types are never sent nor parsed, so that modelling them would say nothing of this program. What
  is hand-written (about 1,300 lines) is modelled but for the items below.
- The texts in replies; logging; the command line (`src/context.rs`).
- Clients that break the framing: `next_message` is then `None` for ever.
- Sizes of the D-Bus library's queues and what happens when they are full; a connect to
  the bus that neither succeeds nor fails.
- An administrator who stops the unit, and bluetooth.service stopping it with
  `Requires=`. (A restart that is dropped because bluetooth.service cannot be started is modelled:
  nothing retries it, and the unit stays down.)
- Addresses that are not well formed: the error paths of `parse_mac` and
  `parse_ble_address`, which no address of BlueZ's takes.
- What the mDNS library's daemon does once the record is registered.
- Packaging, and the Python clients.

## 6. Plan

All of it is done.

1. `Messages`, `Server`, `ServerProperties`, `MCServer`: the sessions.
2. `AdvertFeed` and the refinement, checked.
3. `ServerProofs`, with the refinement.
4. `Framing`, `MCFraming`; `Listener`, `ListenerProperties`, `MCListener`.
5. `ListenerProofs`.
6. `RawAdv`, `RawAdvProperties`: the conversion; `Wire`: the frames.
7. `Lifecycle`, `LifecycleProperties`, `LifecycleProofs`.
8. `Proxy`, `ProxyProofs`.
9. `Induction`, the conversation in `ServerProofs`, `FramingProofs`; `BackoffIsDoubled` in `ListenerProofs`.
10. `RawAdvProofs`.
11. `WireProofs`.
