---------------------------- MODULE PlantProtocol ----------------------------
(***************************************************************************)
(* The plants' ESP8266s (esp/src/main.cpp) and the BeagleBone's server     *)
(* (udp_server.c), over UDP.  What the server calls of the device manager  *)
(* is a DeviceSet (D): its operations are the steps of that specification, *)
(* which DeviceManager implements.                                         *)
(*                                                                         *)
(* A plant without an id asks for one, once per boot; the server makes one *)
(* up and the plant keeps it in flash.  A plant with an id sends           *)
(* heartbeats; it answers requests for readings and pumps when told to.    *)
(* The server has two threads: one receives and handles packets, one polls *)
(* the living devices.  Both know where to send only from clientAddr, the  *)
(* receive buffer for the sender's address: every device->address points   *)
(* to it.                                                                  *)
(*                                                                         *)
(* Packets may be lost, duplicated and reordered.  When a device is timed  *)
(* out is DeviceManager's matter: here it may happen at any time.  The     *)
(* three sensors are read and stored the same way: one stands for them.    *)
(* Its value is either one that SaveSensorData takes or over its limit.    *)
(***************************************************************************)
EXTENDS Integers, FiniteSets

CONSTANTS
  Plant, NoPlant,
  Id, NoId,       \* ids that rand() makes, as the bytes of a word
  Width,          \* bytes in a word: 4
  Duplicates,     \* the network may deliver a packet twice
  MaxPackets,     \* bound: packets in flight; an older one makes room
  MaxGiven,       \* bound: ids given to plants, over all of them
  MaxRestarts     \* bound: restarts of the server

Word == [1..Width -> 0..255]
Nil  == [k \in 1..Width |-> 0]   \* the firmware's id before it has one

ASSUME ProtocolAssumption ==
  /\ NoPlant \notin Plant
  /\ Width \in Nat \ {0}
  /\ Id \subseteq Word
  /\ NoId \notin Word
  /\ Duplicates \in BOOLEAN
  /\ MaxPackets \in Nat \ {0}
  /\ MaxGiven \in Nat
  /\ MaxRestarts \in Nat

VARIABLES
  flash,       \* EEPROM: the id saved there
  id,          \* the firmware's id; NoId while have_id is false
  net,         \* packets in flight
  server,      \* "up", or "crashed"
  clientAddr,  \* the sender of the packet received last
  job,         \* the packet being handled
  known,       \* ids in the device array
  alive,       \* ids of the devices that are ALIVE
  queue,       \* ids of this round that are still to be polled
  cur,         \* the id being polled
  given,       \* history: the ids each plant was given, ever
  restarts     \* restarts of the server so far

plantVars  == <<flash, id>>
serverVars == <<server, clientAddr, job, known, alive>>
pollVars   == <<queue, cur>>
vars == <<flash, id, net, server, clientAddr, job, known, alive, queue, cur,
          given, restarts>>

\* An "overLimit" is a reading of 1000000 or more: of a sensor that failed, or
\* what nobody set.
Measured == {"reading", "overLimit"}
ToServer == {"register", "heartbeat"} \cup Measured
ToPlant  == {"id", "request", "pump"}
Packet   == [type : ToServer \cup ToPlant, plant : Plant, id : Word]
NoJob    == [type |-> "none", plant |-> NoPlant, id |-> Nil]

Msg(type, p, i) == [type |-> type, plant |-> p, id |-> i]

\* sendto.  Where there is no room for one more packet, another one is lost.
Sent(flying, m) ==
  IF Cardinality(flying \cup {m}) <= MaxPackets
  THEN {flying \cup {m}}
  ELSE {(flying \ {o}) \cup {m} : o \in flying}

\* What may be in flight after a packet was delivered.
After(m) == {net \ {m}} \cup (IF Duplicates THEN {net} ELSE {})

\* send_heartbeat writes a C string: it ends at the first zero byte.  The
\* server reads zeros from there on.
CutAtZero(word) ==
  [k \in 1..Width |-> IF \E j \in 1..k : word[j] = 0 THEN 0 ELSE word[k]]

\* The ids the manager may be called with: the server's own, and what it reads
\* in a heartbeat.
NamedIds == Id \cup {CutAtZero(i) : i \in Id}

\* The call of the device manager that the receiving thread is in.
CallUnderWay ==
  CASE job.type = "new"       -> [op |-> "register", id |-> job.id]
    [] job.type = "heartbeat" -> [op |-> "heartbeat", id |-> job.id]
    [] OTHER                  -> [op |-> "none", id |-> NoId]

D == INSTANCE DeviceSet WITH Id <- NamedIds, call <- CallUnderWay

Ids(p) == IF flash[p] = NoId THEN {} ELSE {flash[p]}

\* A plant may have its id from an earlier time; one that has none asks.
Init ==
  /\ flash \in [Plant -> Id \cup {NoId}]
  /\ id = flash
  /\ net = {Msg("register", p, Nil) : p \in {q \in Plant : flash[q] = NoId}}
  /\ server = "up"
  /\ clientAddr = NoPlant
  /\ job = NoJob
  /\ known = {}
  /\ alive = {}
  /\ queue = {}
  /\ cur = NoId
  /\ given = [p \in Plant |-> Ids(p)]
  /\ restarts = 0

------------------------------------------------------------------------------
(* A plant.                                                                *)

\* Plausible mistakes; no specification uses them.
NoDefault(p)            == id[p]
EchoAsked(p, m)         == m.id
AlwaysBeats(p)          == TRUE
EvenWhenBusy            == TRUE

\* The id as it goes over the wire.
Own(p) == IF id[p] = NoId THEN Nil ELSE id[p]

\* setup: recover the id from EEPROM, or ask for one.
Boot(p, saved, flying) ==
  /\ flash' = [flash EXCEPT ![p] = saved]
  /\ id' = [id EXCEPT ![p] = saved]
  /\ net' \in IF saved = NoId THEN Sent(flying, Msg("register", p, Nil))
                             ELSE {flying}

Reboot(p) ==
  /\ Boot(p, flash[p], net)
  /\ UNCHANGED <<serverVars, pollVars, given, restarts>>

Beats(p) == id[p] # NoId

SendHeartbeat(p) ==
  /\ Beats(p)
  /\ net' \in Sent(net, Msg("heartbeat", p, CutAtZero(Own(p))))
  /\ UNCHANGED <<plantVars, serverVars, pollVars, given, restarts>>

\* save_id commits all of its writes at once, at the end: what the flash holds
\* when the power fails before, during or after that.
Saved(p, i) == {flash[p], NoId, i}

\* handle_register: take the id, whether one was asked for or not, and save
\* it, or lose power meanwhile.
GetIdPacket(p, m) ==
  /\ m \in net /\ m.type = "id" /\ m.plant = p
  /\ \E flying \in After(m) :
       \/ /\ flash' = [flash EXCEPT ![p] = m.id]
          /\ id' = [id EXCEPT ![p] = m.id]
          /\ net' = flying
       \/ \E saved \in Saved(p, m.id) : Boot(p, saved, flying)
  /\ UNCHANGED <<serverVars, pollVars, given, restarts>>

\* handle_sensor: the request names the device it is meant for; the answer
\* names the plant that measured, which nobody looks at over the limit.
Answering(p, m) == Own(p)

Answers(p, m) == {Msg("reading", p, Answering(p, m)), Msg("overLimit", p, Nil)}

GetRequest(p, m) ==
  /\ m \in net /\ m.type = "request" /\ m.plant = p
  /\ \E flying \in After(m), r \in Answers(p, m) : net' \in Sent(flying, r)
  /\ UNCHANGED <<plantVars, serverVars, pollVars, given, restarts>>

\* handle_pump: the packet does not name a device, any plant obeys.
GetPump(p, m) ==
  /\ m \in net /\ m.type = "pump" /\ m.plant = p
  /\ net' \in After(m)
  /\ UNCHANGED <<plantVars, serverVars, pollVars, given, restarts>>

------------------------------------------------------------------------------
(* The server's receiving thread.                                          *)

\* One thread receives and handles: the next packet waits.
NotBusy == job = NoJob

\* UDP_Server_HandleMessage: what is to be done with a packet.
\* HandleRegistration makes a new device of every request, with the id that
\* rand() returns.
Taken(m) == IF m.type = "register" THEN {Msg("new", m.plant, i) : i \in Id} ELSE {m}

\* The bound: the requests after it are not taken up.
MayGive == Cardinality({g \in Plant \X Id : g[2] \in given[g[1]]}) < MaxGiven

\* recvfrom overwrites clientAddr.
Receive(m) ==
  /\ server = "up"
  /\ NotBusy
  /\ m \in net /\ m.type \in ToServer
  /\ m.type = "register" => MayGive
  /\ net' \in After(m)
  /\ clientAddr' = m.plant
  /\ job' \in Taken(m)
  /\ UNCHANGED <<plantVars, server, known, alive, pollVars, given, restarts>>

Handling(type) == server = "up" /\ job.type = type

Register ==
  /\ Handling("new")
  /\ job' = Msg("answer", job.plant, job.id)
  /\ D!Registered
  /\ given' = [given EXCEPT ![job.plant] = @ \cup {job.id}]
  /\ UNCHANGED <<plantVars, net, server, clientAddr, pollVars, restarts>>

\* SendRegistration.
Answer ==
  /\ Handling("answer")
  /\ net' \in Sent(net, Msg("id", clientAddr, job.id))
  /\ job' = NoJob
  /\ UNCHANGED <<plantVars, server, clientAddr, known, alive, pollVars, given,
                 restarts>>

\* HandleHeartbeat calls ReportHeartbeat, which registers an unknown device
\* again.  (The plants ignore the echo of their heartbeat.)
Readmit ==
  /\ Handling("heartbeat")
  /\ UNCHANGED job
  /\ D!Readmitted
  /\ UNCHANGED <<plantVars, net, server, clientAddr, pollVars, given, restarts>>

HandleHeartbeat ==
  /\ Handling("heartbeat")
  /\ job' = NoJob
  /\ D!HeardOf
  /\ UNCHANGED <<plantVars, net, server, clientAddr, pollVars, given, restarts>>

\* HandleSensor passes on what GetDevice found; for an unknown id that is NULL.
\* SaveSensorData returns when the value is over its limit, and only then reads
\* device->id.
HandleSensor ==
  /\ \/ /\ Handling("overLimit") \/ (Handling("reading") /\ job.id \in known)
        /\ job' = NoJob /\ UNCHANGED server
     \/ /\ Handling("reading") /\ job.id \notin known
        /\ server' = "crashed" /\ UNCHANGED job
  /\ UNCHANGED <<plantVars, net, clientAddr, known, alive, pollVars, given,
                 restarts>>

------------------------------------------------------------------------------
(* The server's other threads, the network and the power.                  *)

\* A watcher.
Timeout(i) ==
  /\ server = "up"
  /\ UNCHANGED job
  /\ i \in alive /\ D!TimedOut(i)
  /\ UNCHANGED <<plantVars, net, server, clientAddr, pollVars, given, restarts>>

\* poll_devices: copy the living devices, ...
StartRound ==
  /\ server = "up"
  /\ queue = {} /\ cur = NoId
  /\ alive # {}
  /\ queue' = alive
  /\ UNCHANGED <<plantVars, net, serverVars, cur, given, restarts>>

\* ... send the requests for one of them to *device->address, ...
RequestSensors(i) ==
  /\ server = "up"
  /\ i \in queue /\ cur = NoId
  /\ queue' = queue \ {i}
  /\ cur' = i
  /\ net' \in Sent(net, Msg("request", clientAddr, i))
  /\ UNCHANGED <<plantVars, serverVars, given, restarts>>

\* ... and update it, which may send a pump request there (PID_Update,
\* DeviceManager_ActivatePump).  The packet does not say whom the water is for.
Update ==
  /\ server = "up"
  /\ cur # NoId
  /\ cur' = NoId
  /\ net' \in {net} \cup Sent(net, Msg("pump", clientAddr, Nil))
  /\ UNCHANGED <<plantVars, serverVars, queue, given, restarts>>

Drop(m) ==
  /\ m \in net
  /\ net' = net \ {m}
  /\ UNCHANGED <<plantVars, serverVars, pollVars, given, restarts>>

\* The server's process ends, crashed or not, and is started again.
Restart ==
  /\ restarts < MaxRestarts
  /\ restarts' = restarts + 1
  /\ server' = "up"
  /\ clientAddr' = NoPlant
  /\ job' = NoJob
  /\ D!Restart
  /\ queue' = {}
  /\ cur' = NoId
  /\ UNCHANGED <<plantVars, net, given>>

Handle ==
  \/ Register \/ Answer \/ Readmit \/ HandleHeartbeat \/ HandleSensor

Next ==
  \/ \E p \in Plant : \/ Reboot(p) \/ SendHeartbeat(p)
                      \/ \E m \in net : \/ GetIdPacket(p, m)
                                        \/ GetRequest(p, m)
                                        \/ GetPump(p, m)
  \/ \E m \in net : Receive(m) \/ Drop(m)
  \/ Handle
  \/ \E i \in alive : Timeout(i)
  \/ StartRound
  \/ \E i \in queue : RequestSensors(i)
  \/ Update
  \/ Restart

Spec == Init /\ [][Next]_vars

ReceiveBeat(p) ==
  \E m \in net : m.type = "heartbeat" /\ m.plant = p /\ Receive(m)

\* The firmware's loop comes round to the next heartbeat, the server's thread
\* goes on and gets to every packet that waits for it, and the network loses
\* any heartbeat but not, from some time on, all of them.
Fairness ==
  /\ WF_vars(Handle)
  /\ \A p \in Plant :
       /\ WF_vars(SendHeartbeat(p))
       /\ SF_vars(ReceiveBeat(p))
       /\ \/ <>[][~SendHeartbeat(p)]_vars
          \/ []<><<ReceiveBeat(p)>>_vars
          \/ []<>(server = "crashed")

FairSpec == Spec /\ Fairness

------------------------------------------------------------------------------
TypeOK ==
  /\ flash \in [Plant -> Id \cup {NoId}]
  /\ id \in [Plant -> Id \cup {NoId}]
  /\ net \subseteq Packet
  /\ server \in {"up", "crashed"}
  /\ clientAddr \in Plant \cup {NoPlant}
  /\ \/ job = NoJob
     \/ job \in [type : {"new", "answer", "heartbeat"} \cup Measured, plant : Plant, id : Word]
  /\ known \subseteq Word
  /\ alive \subseteq known
  /\ queue \subseteq Word
  /\ cur \in Word \cup {NoId}
  /\ given \in [Plant -> SUBSET Id]
  /\ restarts \in 0..MaxRestarts

\* The server calls the device manager as it is meant to be called, one call at
\* a time, and what it takes for its devices are the manager's, through every
\* loss, repetition and restart (device_manager.h:34-42).
ServerKeepsToDeviceSet == D!Spec

\* Registration requests and answers may be lost, repeated and late, plants
\* and server may restart at any time: every device in the array is one that
\* some plant asked for, though its id may have been cut at a zero byte
\* (device_manager.c:182, "old device").
NoGhosts ==
  \A i \in known : \E p \in Plant :
    i \in given[p] \/ \E own \in given[p] : CutAtZero(own) = i

\* Every reading that the server stores, or would store if it came now, was
\* measured by a plant that was given the id it is stored under: though requests
\* are misdirected, readings are not mixed up (main.cpp:209, udp_server.c:141).
\* There is one mix-up, of the plants that have no id yet, whose readings say 0:
\* they are stored where 0 is a device, and it is one when a plant with an id
\* that begins with a zero byte is heard of, whose heartbeats say 0 as well.
ReadingsAreOwn ==
  \A m \in net \cup {job} :
    m.type = "reading" /\ m.id \in known =>
      \/ m.id \in given[m.plant]
      \/ m.id = Nil /\ \E p \in Plant : \E own \in given[p] : own[1] = 0

\* A reading of an unknown device crashes the server, unless it is over the limit
\* (udp_server.c:142, device_manager.c:279-284).  As long as it was not
\* restarted, that takes a plant that was asked for a reading before it had
\* received its id, or one whose heartbeats do not say its id: a plant with
\* another one is never asked before it is known.
OnlyNamelessCrash ==
  server = "crashed" /\ restarts = 0 =>
    job.id = Nil \/ CutAtZero(job.id) # job.id

\* Whatever is lost, and however often the server starts anew, a plant with an
\* id is soon a living device of the server (unless that crashed): under its id,
\* or, where that has a zero byte, under what its heartbeats say instead, which
\* may be another plant's id or 0 (main.cpp:309, device_manager.c:238).
PlantIsAlive ==
  \A p \in Plant :
    id[p] # NoId ~> \/ id[p] = NoId \/ server = "crashed"
                    \/ CutAtZero(id[p]) \in alive

(* What the program says of itself, and does not do.                       *)

\* device_manager.c:399: "Activating %u's pump": the request goes to the plant
\* whose device it names.
OwnPump ==
  [][ \A m \in net' \ net : m.type = "pump" => cur \in given[m.plant] ]_vars
==============================================================================
