------------------------ MODULE LifecycleProperties ------------------------
(* What is required of Lifecycle: the properties its run checks. *)
EXTENDS Lifecycle

\* systemd kills nothing that is healthy: only a process that is wedged, or one
\* that bluetoothd has let wait and that is still starting, however late the pings are
\* scheduled and however many lookups fail ("ping it well within that
\* interval", the ticker of main, and the attempts of the lookup).
OnlyTheStuckAreKilled == StartIsLate \/ WatchdogBites => wedged \/ held

\* The restarts of a process that keeps failing never hit systemd's start limit
\* (RestartSec= of the unit).
NeverGivenUp == unit # "failed"

\* What systemd believes is true: a unit is active only while its process is
\* published, bound and listens to BlueZ (the order of main, READY=1 last).
ReadyMeansServing ==
  unit = "active" => pc = "serve" /\ advertised /\ bound /\ listener # "none"

\* main does not give up on the adapter before bluetoothd has had the time of
\* all the sleeps to come up ("Retry a few times in case bluetoothd is still
\* starting up").
BluetoothdHasItsTime ==
  [][pc = "mac" /\ pc' = "none" => age >= (Attempts - 1) * LookupDelay]_vars

\* "a wedged process is detected": one that wedges while it serves, and one that
\* wedges while it starts, is killed and makes way for a restart (the ticker of
\* main and WatchdogSec= of the unit).
WedgedIsReplaced == wedged ~> ~wedged

\* Once everything works the proxy comes up and stays up, whatever has failed
\* before, unless bluetooth.service could not be started when a restart was due
\* (every exit(1) of main, Restart=on-failure, and Requires= of the unit).
ComesUp ==
  <>[](works = Parts /\ ~wedged /\ unit # "dependency") =>
    <>[](unit = "active")

\* A listener whose bus is down for good ends up reported, although READY=1 may
\* overwrite its first report (the status of run_supervised and of main).
DownIsReported ==
  <>[]("bus" \notin works) =>
    <>[](unit = "active" /\ ~wedged => status = "down")
=============================================================================
