------------------------------- MODULE DeviceSet -------------------------------
(***************************************************************************)
(* What the device manager promises to the UDP server, whose one thread    *)
(* calls it: a set of devices, some of them alive.  A call adds the device *)
(* it names, and none else; a heartbeat returns only when its device is in *)
(* the set and alive.  Between two calls and during one a device may time  *)
(* out; nothing but a restart takes it out of the set.                     *)
(*                                                                         *)
(* PlantProtocol's server is composed with it.                             *)
(***************************************************************************)
CONSTANTS Id, NoId

VARIABLES
  known,  \* ids of the devices in the array
  alive,  \* ids of which a device is ALIVE
  call    \* the call under way

vars == <<known, alive, call>>

NoCall == [op |-> "none", id |-> NoId]

Init ==
  /\ known = {}
  /\ alive = {}
  /\ call = NoCall

Ask(op, i) ==
  /\ call = NoCall
  /\ call' = [op |-> op, id |-> i]
  /\ UNCHANGED <<known, alive>>

\* Plausible mistakes; no specification uses them.
Ignored ==
  /\ call.op = "heartbeat"
  /\ call.id \notin known
  /\ call' = NoCall
  /\ UNCHANGED <<known, alive>>

Forgotten(i) ==
  /\ alive' = alive \ {i}
  /\ known' = known \ {i}
  /\ UNCHANGED call

\* DeviceManager_Register.  It takes no lock: the new device may time out
\* before it gets into the array.
Registered ==
  /\ call.op = "register"
  /\ known' = known \cup {call.id}
  /\ alive' \in {alive, alive \cup {call.id}}
  /\ call' = NoCall

\* DeviceManager_Reregister of a device that sent a heartbeat.
Readmitted ==
  /\ call.op = "heartbeat"
  /\ call.id \notin known
  /\ known' = known \cup {call.id}
  /\ alive' = alive \cup {call.id}
  /\ UNCHANGED call

\* DeviceManager_ReportHeartbeat.
HeardOf ==
  /\ call.op = "heartbeat"
  /\ call.id \in known
  /\ alive' = alive \cup {call.id}
  /\ call' = NoCall
  /\ UNCHANGED known

TimedOut(i) ==
  /\ alive' = alive \ {i}
  /\ UNCHANGED <<known, call>>

Restart ==
  /\ known' = {}
  /\ alive' = {}
  /\ call' = NoCall

Next ==
  \/ \E op \in {"register", "heartbeat"}, i \in Id : Ask(op, i)
  \/ Registered \/ Readmitted \/ HeardOf
  \/ \E i \in alive : TimedOut(i)
  \/ Restart

Spec == Init /\ [][Next]_vars
===============================================================================
