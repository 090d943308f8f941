----------------------- MODULE DeviceManagerRefinement -----------------------
(***************************************************************************)
(* The device manager implements the DeviceSet: its devices are the        *)
(* records in the array, by their ids, and the call under way is told from *)
(* the caller's place, the record it works on and the lock it holds.       *)
(***************************************************************************)
EXTENDS DeviceManager

\* Between the call of Register or ReportHeartbeat and its return.
InCall == {"insert", "spawn", "put", "hbStamp", "hbJoin", "hbAlive"}

Operation == IF lock = Caller THEN "heartbeat" ELSE "register"

CallUnderWay ==
  CASE pc = "hbLock" -> [op |-> "heartbeat", id |-> arg]
    [] pc \in InCall -> [op |-> Operation, id |-> devId[cur]]
    [] OTHER         -> [op |-> "none", id |-> NoId]

KnownIds == {devId[r] : r \in 1..len}
AliveIds == {devId[r] : r \in {q \in 1..len : state[q] = "ALIVE"}}

S == INSTANCE DeviceSet WITH
       known <- KnownIds, alive <- AliveIds, call <- CallUnderWay

\* Whatever watchers do meanwhile, and though records may share an id, a
\* registration or a heartbeat changes the devices only by the one it names,
\* and ReportHeartbeat returns with that one in the array and ALIVE
\* (device_manager.c:147-260).
DeviceSetSpec == S!Spec
==============================================================================
