------------------------- MODULE ListenerProperties -------------------------
(* What is required of Listener: the properties its runs check. *)
EXTENDS Listener

\* BlueZ discovers for us only while all three streams are set up on a live
\* connection: no signal of a discovery we asked for, nor the one that says it
\* has ended, can fall between the two ("All streams ready: now start
\* discovery" in run_bluez_advertisement_listener).
DiscoversIntoStreams == session => conn = "ok" /\ matched = 3

\* Every advertisement is asked for, not only the first of each device: BlueZ
\* discovers for us under our filter, set again whenever discovery is asked for
\* again, unless the adapter was lost just between the two calls ("We want every
\* advertisement", try_start_discovery).
DuplicatesWanted == session => filtered \/ lapse

\* Once the listener has worked off its streams, the newest state signalled of
\* every device that BlueZ still has is in the channel, whatever order the
\* branches were taken in and however many signals were folded into one GetAll
\* (the props_stream and iface_stream branches).
NewestIsSent ==
  phase = "select" /\ propsq = <<>> /\ ifaceq = <<>> =>
    \A d \in Device : owed[d] > 0 =>
      \E i \in 1..Len(out) : out[i].dev = d /\ out[i].ver >= owed[d]

\* The adverts of a device go back in time only where the older one was carried
\* by an InterfacesAdded that was read late: what is fetched is never older
\* than anything sent before it (get_device_properties against `props').
FetchedNeverGoesBack ==
  \A i, j \in 1..Len(out) :
    i < j /\ out[i].dev = out[j].dev /\ out[j].ver < out[i].ver
      => out[j].src = "added"

\* The wait after n short runs in a row is 2^n units, up to the cap, and one
\* unit after a run that lasted (the order of reset, sleep and doubling in
\* run_supervised).
BackoffFollowsFailures ==
  phase = "sleep" => backoff = Min({Doublings[streak], MaxBackoff})

\* While the adapter stays on, the bus up and bluetoothd alive, the proxy does
\* not stay blind: BlueZ comes to discover for it, also after a bluetoothd that
\* was not there when the run began.
BlindnessEnds ==
  (adapter = "on" /\ bus = "up" /\ ~died)
    ~> (session \/ adapter # "on" \/ bus = "down" \/ died)

\* A state of d has been signalled, and neither it nor a newer one is sent.
Behind(d) ==
  owed[d] > 0 /\ ~\E i \in 1..Len(out) : out[i].dev = d /\ out[i].ver >= owed[d]

\* The listener catches up with what is signalled of a device, however busy its
\* other branches are, unless BlueZ drops the device or the run ends.
SightingsReachTheChannel == \A d \in Device : Behind(d) ~> ~Behind(d)

\* "Restarts the BLE listener with backoff instead of leaving the proxy
\* connected-but-blind after a BlueZ hiccup" (README.rst:11): the same, when
\* the hiccup is bluetoothd itself dying and coming back.
NotLeftBlind ==
  (adapter = "on" /\ bus = "up") ~> (session \/ adapter # "on" \/ bus = "down")
=============================================================================
