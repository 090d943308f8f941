----------------------------- MODULE FirmwareWatch -----------------------------
(***************************************************************************)
(* A plant's heartbeats and the thread that watches for them, in real      *)
(* time: Firmware, the network, and the watcher of device_manager.c.       *)
(*                                                                         *)
(* The firmware counts milliseconds, the server whole seconds; the period  *)
(* of the heartbeats is exactly the server's timeout.  One tick is the     *)
(* firmware's millisecond.  Both clocks run at one rate.                   *)
(***************************************************************************)
EXTENDS Firmware

CONSTANTS
  Second,    \* ticks per second
  Timeout,   \* heart_beat_time.tv_sec
  Wrap,      \* 2^64: time_t and uint64_t
  Overrun,   \* most a watcher's sleep and its wait for the lock take too long
  MaxDelay   \* most a heartbeat travels

Gap       == HeartbeatTime + 3 * MaxPass + MaxDelay
Detection == (2 * Timeout + 1) * Second + 2 * Overrun
Horizon   == IF Gap > Detection THEN Gap ELSE Detection

ASSUME WatchAssumption ==
  /\ Second \in Nat \ {0} /\ Timeout \in Nat \ {0}
  /\ Overrun \in Nat /\ MaxDelay \in Nat
  /\ Wrap \in Nat /\ Wrap * Second > Horizon + Second

VARIABLES
  sec,        \* time(NULL)
  ms,         \* ticks into that second
  flight,     \* how long the heartbeats on their way have travelled
  state,      \* device->state, "NONE" for an unknown device
  lastSeen,   \* device->last_seen
  watcher,    \* where watch_device stands
  slept,      \* time since the watcher began to sleep
  checkTime,  \* its curr_time (0 when it is dead)
  beats,      \* history: "none" has come yet, "good" if those sent come in time,
              \* "lost" when one was or the power failed
  unseen      \* history: time since the last heartbeat came (up to Horizon + 1)

watchVars  == <<watcher, slept, checkTime>>
serverVars == <<sec, ms, flight, state, lastSeen, watchVars, beats, unseen>>
vars == <<firmwareVars, serverVars>>

Init ==
  /\ FirmwareInit
  /\ sec = 0 /\ ms \in 0..(Second - 1)
  /\ flight = {}
  /\ state = "NONE" /\ lastSeen = 0
  /\ watcher = "none" /\ slept = 0 /\ checkTime = 0
  /\ beats = "none" /\ unseen = 0

\* Plausible mistakes; no specification uses them.
StaleAtOnce == (checkTime - lastSeen) % Wrap >= Timeout
StaleLater  == (checkTime - lastSeen) % Wrap > 2 * Timeout + 1

------------------------------------------------------------------------------
Plant == Inner /\ UNCHANGED serverVars

SendBeat ==
  /\ Beat
  /\ flight' = IF haveId /\ BeatDue THEN flight \cup {0} ELSE flight
  /\ UNCHANGED <<sec, ms, state, lastSeen, watchVars, beats, unseen>>

PlantReset ==
  /\ PowerFails \/ PowerReturns
  /\ beats' = "lost"
  /\ UNCHANGED <<sec, ms, flight, state, lastSeen, watchVars, unseen>>

\* The device is ALIVE and heard of, and its watcher in state w.
Heard(w) ==
  /\ state' = "ALIVE"
  /\ lastSeen' = sec
  /\ watcher' = w
  /\ slept' = IF w = watcher THEN slept ELSE 0
  /\ unseen' = 0
  /\ UNCHANGED <<sec, ms, checkTime>>

\* A registration request arrives; the answer does, later or never.
Register ==
  /\ ~haveId
  /\ state = "NONE"
  /\ Heard("sleep")
  /\ UNCHANGED <<firmwareVars, flight, beats>>

ReceiveId ==
  /\ state # "NONE"
  /\ GetId
  /\ UNCHANGED serverVars

\* ReportHeartbeat.  A device that had timed out gets a new watcher, which may
\* find the state it had and end (see DeviceManager); an unknown one is
\* registered again.
Arrive(a) ==
  /\ flight' = flight \ {a}
  /\ CASE state = "ALIVE"   -> Heard(watcher)
       [] state = "NONE"    -> Heard("sleep")
       [] state = "TIMEOUT" -> \E w \in {"sleep", "none"} : Heard(w)
  /\ beats' = IF beats = "none" THEN "good" ELSE beats
  /\ UNCHANGED firmwareVars

Lose(a) ==
  /\ flight' = flight \ {a}
  /\ beats' = "lost"
  /\ UNCHANGED <<firmwareVars, sec, ms, state, lastSeen, watchVars, unseen>>

\* nanosleep returns and the watcher reads the clock, without the lock.
Wake ==
  /\ watcher = "sleep"
  /\ slept >= Timeout * Second
  /\ watcher' = "lock"
  /\ checkTime' = sec
  /\ UNCHANGED <<firmwareVars, sec, ms, flight, state, lastSeen, slept, beats,
                 unseen>>

Stale == (checkTime - lastSeen) % Wrap > Timeout

Check ==
  /\ watcher = "lock"
  /\ IF Stale THEN state' = "TIMEOUT" /\ watcher' = "none"
              ELSE watcher' = "sleep" /\ UNCHANGED state
  /\ slept' = 0
  /\ checkTime' = 0
  /\ UNCHANGED <<firmwareVars, sec, ms, flight, lastSeen, beats, unseen>>

Tick ==
  /\ FirmwareTick
  /\ MaxDelay \notin flight
  /\ watcher # "none" => slept < Timeout * Second + Overrun
  /\ ms' = (ms + 1) % Second
  /\ sec' = IF ms' = 0 THEN (sec + 1) % Wrap ELSE sec
  /\ flight' = {a + 1 : a \in flight}
  /\ slept' = IF watcher = "none" THEN 0 ELSE slept + 1
  /\ unseen' = IF state = "NONE" \/ unseen > Horizon THEN unseen ELSE unseen + 1
  /\ UNCHANGED <<state, lastSeen, watcher, checkTime, beats>>

Next ==
  \/ Plant \/ SendBeat \/ PlantReset
  \/ Register \/ ReceiveId
  \/ \E a \in flight : Arrive(a) \/ Lose(a)
  \/ Wake \/ Check
  \/ Tick

Spec == Init /\ [][Next]_vars

------------------------------------------------------------------------------
TypeOK ==
  /\ FirmwareTypeOK
  /\ sec \in 0..(Wrap - 1) /\ ms \in 0..(Second - 1)
  /\ flight \subseteq 0..MaxDelay
  /\ state \in {"NONE", "ALIVE", "TIMEOUT"}
  /\ lastSeen \in 0..(Wrap - 1)
  /\ watcher \in {"none", "sleep", "lock"}
  /\ slept \in 0..(Timeout * Second + Overrun)
  /\ checkTime \in 0..(Wrap - 1)
  /\ beats \in {"none", "good", "lost"}
  /\ unseen \in 0..(Horizon + 1)

\* A plant that has gone is declared dead within two sleeps of its watcher and
\* the second that the clock rounds away (device_manager.c:85-96).
DetectionBound == state = "ALIVE" /\ watcher # "none" => unseen < Detection

\* From its first heartbeat on and as long as none is lost, a plant is declared
\* dead only inside the margin between the timeout and the longest gap, or when
\* a heartbeat came between the watcher's reading and its lock.  The margin is
\* there because the period of the heartbeats is the timeout (main.cpp:18,
\* device_manager.c:135): with Gap <= Timeout * Second it would be empty.
FalseTimeoutInMargin ==
  [][ state = "ALIVE" /\ state' = "TIMEOUT" /\ beats = "good" =>
        \/ unseen \in (Timeout * Second + 1)..Gap
        \/ (lastSeen - checkTime) % Wrap \in 1..Overrun ]_vars
===============================================================================
