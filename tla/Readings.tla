------------------------------- MODULE Readings -------------------------------
(***************************************************************************)
(* A reading's way from a plant's sensor to the dashboard: the sensor      *)
(* (esp/src/dht_moisture.cpp), the packet (esp/src/main.cpp), the UDP      *)
(* server (udp_server.c), the three tables and the table of devices        *)
(* (device_manager.c, sql/init.sql), and the query of the web page's       *)
(* backend (website/run.py).                                               *)
(*                                                                         *)
(* Packets may be lost, repeated and late: one that was sent may arrive at *)
(* any time, any number of times, or never.  A plant is its id here; how   *)
(* it comes by it, and what a reading of an unknown device does to the     *)
(* server, is PlantProtocol's subject.                                     *)
(***************************************************************************)
EXTENDS Integers, FiniteSets

CONSTANTS
  Base,      \* 256: the values of a byte
  Id,        \* ids of devices: rand() makes them
  Raw,       \* what analogRead may return
  Celsius,   \* what the DHT library may return, as an int
  Junk,      \* the words that an int may hold that nobody gave a value
  Limit,     \* 1000000: SaveSensorData's limit
  MaxTime,   \* bound: the clock stops there
  MaxSent    \* bound: different readings sent

Words == Base * Base * Base * Base   \* 2^32

\* rand() makes no negative number.
ASSUME ReadingsAssumption ==
  /\ Base \in Nat \ {0, 1}
  /\ Id \subseteq 0..(Words - 1)
  /\ \A i \in Id : 2 * i < Words
  /\ Raw \subseteq 0..1023
  /\ Celsius \subseteq 0..(Words - 1)
  /\ Junk \subseteq 0..(Words - 1)
  /\ Limit \in Nat
  /\ Words > 100
  /\ MaxTime \in Nat /\ MaxSent \in Nat

Kind == {"moisture", "humidity", "temperature"}
Word == 0..(Words - 1)
Time == 0..MaxTime
Row  == [id : Id, time : Time, value : Word]

VARIABLES
  now,       \* time(NULL)
  net,       \* packets that may still arrive
  known,     \* ids in the server's device array
  devices,   \* the table devices: its ids
  table,     \* the tables moisture, humidity and temperature
  measured,  \* history: the readings the plants took
  newest     \* history: the value stored last for a device, {} before it

vars == <<now, net, known, devices, table, measured, newest>>

Init ==
  /\ now = 0
  /\ net = {}
  /\ known = {}
  /\ devices = {}
  /\ table = [k \in Kind |-> {}]
  /\ measured = {}
  /\ newest = [k \in Kind |-> [i \in Id |-> {}]]

------------------------------------------------------------------------------
(* Words in memory and on the wire: both machines are little-endian, and a  *)
(* char of either has no sign.                                              *)

Upper(n) == n \div Base   \* without its lowest byte

Bytes(n) == <<n % Base, Upper(n) % Base, Upper(Upper(n)) % Base,
              Upper(Upper(Upper(n)))>>

Number(b) == b[1] + Base * (b[2] + Base * (b[3] + Base * b[4]))

\* htonl and ntohl.
Swapped(n) == Number(<<Bytes(n)[4], Bytes(n)[3], Bytes(n)[2], Bytes(n)[1]>>)

\* Plausible mistakes; no specification uses them.
SignExtended(b) ==
  Swapped(Number([k \in 1..4 |->
    IF \E j \in 1..(k - 1) : b[j] >= Base \div 2 THEN Base - 1 ELSE b[k]]))
ReplaceRow(rows, r) ==
  {s \in rows : s.id # r.id \/ s.time # r.time} \cup {r}
AsShort(n) == n % (Base * Base)

\* write32bitNumber and get_uint32_t.
Encoded(n) == Bytes(Swapped(n))
Decoded(b) == Swapped(Number(b))

\* A uint32_t printed with %d.
AsInt(n) == IF 2 * n < Words THEN n ELSE n - Words

------------------------------------------------------------------------------
(* A plant.                                                                 *)

\* The moisture is a percentage.  A DHT reading that failed is NaN, which as
\* an int is any number, and isnan of an int is never true.
\* Moisture_getTemperature does not return the temperature it read.
Sensed(kind) ==
  CASE kind = "moisture"    -> {(r * 100) \div 1024 : r \in Raw}
    [] kind = "humidity"    -> Celsius \cup Junk
    [] kind = "temperature" -> Junk

\* handle_sensor.
Answer(i, kind) ==
  /\ Cardinality(net) < MaxSent
  /\ \E value \in Sensed(kind) :
       /\ net' = net \cup
            {[kind |-> kind, id |-> Encoded(i), value |-> Encoded(value)]}
       /\ measured' = measured \cup {[kind |-> kind, id |-> i, value |-> value]}
  /\ UNCHANGED <<now, known, devices, table, newest>>

------------------------------------------------------------------------------
(* The server.                                                              *)

\* Register and Reregister: INSERT OR IGNORE, which may fail.
Register(i) ==
  /\ known' = known \cup {i}
  /\ devices' \in {devices, devices \cup {AsInt(i)}}
  /\ UNCHANGED <<now, net, table, measured, newest>>

Accepted(value) == value < Limit

\* INSERT into a table whose primary key is (id, time).
Inserted(rows, r) ==
  IF \E s \in rows : s.id = r.id /\ s.time = r.time
  THEN rows
  ELSE rows \cup {r}

\* HandleSensor and SaveSensorData: a statement may fail for other reasons, too.
Receive(m) ==
  LET id    == Decoded(m.id)
      value == Decoded(m.value)
      new   == Inserted(table[m.kind], [id |-> id, time |-> now, value |-> value])
  IN /\ id \in known
     /\ \/ UNCHANGED <<table, newest>>
        \/ /\ Accepted(value)
           /\ table' = [table EXCEPT ![m.kind] = new]
           /\ newest' = IF new = table[m.kind] THEN newest
                        ELSE [newest EXCEPT ![m.kind][id] = {value}]
     /\ UNCHANGED <<now, net, known, devices, measured>>

Restart ==
  /\ known' = {}
  /\ UNCHANGED <<now, net, devices, table, measured, newest>>

Tick ==
  /\ now < MaxTime
  /\ now' = now + 1
  /\ UNCHANGED <<net, known, devices, table, measured, newest>>

Next ==
  \/ \E i \in Id, kind \in Kind : Answer(i, kind)
  \/ \E i \in Id : Register(i)
  \/ \E m \in net : Receive(m)
  \/ Restart
  \/ Tick

Spec == Init /\ [][Next]_vars

------------------------------------------------------------------------------
(* The dashboard.                                                           *)

\* A plausible mistake; no specification uses it.
AnyDevice(h, t, m) == h.id = t.id

\* SELECT ... JOIN (SELECT id, MAX(time) ... GROUP BY id) ...
Latest(rows) == {r \in rows : \A s \in rows : s.id = r.id => s.time <= r.time}

\* ... ON h.id = t.id ... ON t.id = m.id
Joined(h, t, m) == h.id = t.id /\ t.id = m.id

Info ==
  {hit \in Latest(table["humidity"]) \X Latest(table["temperature"])
             \X Latest(table["moisture"]) : Joined(hit[1], hit[2], hit[3])}

\* devices LEFT JOIN info: without a match all three columns are NULL, and
\* getDevices makes zeros of them.
Shown(d) ==
  LET hits == {hit \in Info : hit[1].id = d}
  IN IF hits = {} THEN {<<0, 0, 0>>}
     ELSE {<<hit[1].value, hit[2].value, hit[3].value>> : hit \in hits}

------------------------------------------------------------------------------
TypeOK ==
  /\ now \in Time
  /\ net \subseteq [kind : Kind, id : [1..4 -> 0..(Base - 1)],
                    value : [1..4 -> 0..(Base - 1)]]
  /\ known \subseteq Id
  /\ devices \subseteq Id
  /\ table \in [Kind -> SUBSET Row]
  /\ measured \subseteq [kind : Kind, id : Id, value : Word]
  /\ newest \in [Kind -> [Id -> SUBSET Word]]

\* Every row of the three tables holds a value that the device it names
\* measured with the sensor the table is for, as it was on the plant, or a word
\* the sensor's code never set, and no negative number (udp_server.c:141-143,
\* device_manager.c:279, main.cpp:209-210).
RowsAreMeasured ==
  \A kind \in Kind : \A r \in table[kind] :
    /\ [kind |-> kind, id |-> r.id, value |-> r.value] \in measured
    /\ r.value < Limit
    /\ kind = "moisture" => r.value <= 99

\* The dashboard shows one line for each device: the values stored last, if
\* there is one of each kind, else zeros for all of them, also for those that
\* were measured (run.py:6).
DashboardRight ==
  \A d \in devices :
    Shown(d) =
      newest["humidity"][d] \X newest["temperature"][d] \X newest["moisture"][d]
      \cup {z \in {<<0, 0, 0>>} : \E kind \in Kind : newest[kind][d] = {}}

\* Whatever comes late or twice, and whenever the server starts anew, the value
\* stored for one second stands, and newer ones only take its place with time
\* (the key of sql/init.sql:1-3).
StoredStays ==
  [][ \A kind \in Kind :
        /\ table[kind] \subseteq table'[kind]
        /\ \A r \in table'[kind] \ table[kind] : \A s \in table[kind] :
             s.id = r.id => s.time < r.time ]_vars
===============================================================================
