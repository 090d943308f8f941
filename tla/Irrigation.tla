----------------------------- MODULE Irrigation -----------------------------
(***************************************************************************)
(* Closed-loop watering: the poll thread (device_manager.c:38) runs        *)
(* PID_Update (pid.c) for each living device, from the moisture readings   *)
(* that the UDP server thread stores meanwhile and from the controller's   *)
(* own last row.  Both tables live in one SQLite file with primary key     *)
(* (id, time), time in seconds.                                            *)
(*                                                                         *)
(* Numbers: readings are integers, so the sum of the P and D terms is one, *)
(* too, and the I term, 0.25 to 0.40, never changes what round() makes of  *)
(* it (see Duration).                                                      *)
(***************************************************************************)
EXTENDS Integers

CONSTANTS
  Id,
  NoId,      \* the poll thread is between two updates
  Value,     \* readings that arrive, uint32_t
  Junk,      \* numbers that uninitialized memory may hold
  DbFails,   \* a statement may fail: another connection holds the database
  MaxTime    \* bound: the clock stops there

ASSUME IrrigationAssumption ==
  /\ NoId \notin Id
  /\ Value \subseteq Nat
  /\ Junk \subseteq Int
  /\ DbFails \in BOOLEAN
  /\ MaxTime \in Nat

MoistureGoal  == 31        \* MOISTURE_GOAL
IntegratorMax == 40
IntegratorMin == 25
MaxPump       == 1000      \* DeviceManager_ActivatePump's limit
MaxReading    == 1000000   \* DeviceManager_SaveSensorData's limit

VARIABLES
  now,       \* time(NULL)
  moisture,  \* the table moisture
  pid,       \* the table pid
  queue,     \* devices of this round the poll thread has still to visit
  cur,       \* the device it is updating
  pc,        \* where it stands in PID_Update
  reading,   \* the row lastMoisture points to: {} is memory nobody wrote
  last,      \* the row lastPID points to, likewise
  pump       \* the last pump request: a duration in ms, 0 before the first

vars == <<now, moisture, pid, queue, cur, pc, reading, last, pump>>

Time == 0..MaxTime

Init ==
  /\ now = 0
  /\ moisture = {}
  /\ pid = {}
  /\ queue = {}
  /\ cur = NoId
  /\ pc = "sleep"
  /\ reading = {}
  /\ last = {}
  /\ pump = 0

------------------------------------------------------------------------------
(* SELECT_LAST_MOISTURE and SELECT_LAST_PID.                                *)

\* SELECT * ... WHERE TIME = (SELECT MAX(TIME) ... WHERE id = d): the rows of
\* EVERY device in the second of d's latest row.
LastRows(table, d) ==
  {r \in table :
     \E o \in table : /\ o.id = d
                      /\ o.time = r.time
                      /\ \A q \in table : q.id = d => q.time <= o.time}

\* Plausible mistakes; no specification uses them.
FitsAlways(rows)   == TRUE
Unclamped(sum)     == sum
SignedValues(rows) == IF rows = {} THEN Junk ELSE {r.value : r \in rows}

\* args.rows has room for one row.  When a second one comes, "Too many rows
\* returned", the statement is aborted and the function returns NULL.
Fits(rows) == \A r, q \in rows : r = q

------------------------------------------------------------------------------
(* PID_Update.                                                              *)

Clamped(sum) == IF sum > IntegratorMax THEN IntegratorMax
                ELSE IF sum < IntegratorMin THEN IntegratorMin
                ELSE sum

\* round( 10 * error + 1000 * (derivativeState - value) + 0.01 * integrator )
Duration(value, derivative) ==
  10 * (MoistureGoal - value) + 1000 * (derivative - value)

LimitedPump(duration) == IF duration > MaxPump THEN MaxPump ELSE duration

\* INSERT fails when the primary key is taken, or when the database is busy.
Insert(table, r) ==
  (IF \E q \in table : q.id = r.id /\ q.time = r.time
   THEN {table} ELSE {table \cup {r}})
  \cup (IF DbFails THEN {table} ELSE {})

\* The poll thread wakes and takes a copy of the devices that are ALIVE.
StartRound ==
  /\ pc = "sleep"
  /\ queue' \in SUBSET Id \ {{}}
  /\ pc' = "next"
  /\ UNCHANGED <<now, moisture, pid, cur, reading, last, pump>>

EndRound ==
  /\ pc = "next"
  /\ queue = {}
  /\ pc' = "sleep"
  /\ UNCHANGED <<now, moisture, pid, queue, cur, reading, last, pump>>

\* Leave PID_Update.
Leave ==
  /\ pc' = "next"
  /\ cur' = NoId
  /\ reading' = {}
  /\ last' = {}

\* DeviceManager_GetLastMoisture.  When no row comes at all, it succeeds and
\* returns the memory as malloc left it.
ReadMoisture(d) ==
  LET rows == LastRows(moisture, d)
  IN  /\ pc = "next"
      /\ d \in queue
      /\ queue' = queue \ {d}
      /\ \/ /\ Fits(rows)
            /\ reading' = rows
            /\ cur' = d
            /\ pc' = "readPid"
            /\ UNCHANGED last
         \/ /\ ~Fits(rows) \/ DbFails
            /\ Leave
      /\ UNCHANGED <<now, moisture, pid, pump>>

\* PID_GetLastPID, likewise.
ReadPid ==
  LET rows == LastRows(pid, cur)
  IN  /\ pc = "readPid"
      /\ \/ /\ Fits(rows)
            /\ last' = rows
            /\ pc' = "save"
            /\ UNCHANGED <<reading, cur>>
         \/ /\ ~Fits(rows) \/ DbFails
            /\ Leave
      /\ UNCHANGED <<now, moisture, pid, queue, pump>>

\* What the rows hold.  Unwritten memory may hold anything, and a NaN for an
\* integratorState: that counts as 0, and the error is not added.
Values(rows) ==
  IF rows = {} THEN Junk \cap Nat ELSE {r.value : r \in rows}
Derivatives(rows) ==
  IF rows = {} THEN Junk ELSE {r.derivative : r \in rows}
Sums(rows, error) ==
  IF rows = {} THEN {0} \cup {j + error : j \in Junk}
               ELSE {r.integrator + error : r \in rows}

\* Compute, store the new row, and ask for water.
Save ==
  /\ pc = "save"
  /\ \E value \in Values(reading), derivative \in Derivatives(last) :
     \E sum \in Sums(last, MoistureGoal - value) :
       LET duration == Duration(value, derivative)
       IN  /\ pid' \in Insert(pid, [id |-> cur, time |-> now,
                                    derivative |-> value,
                                    integrator |-> Clamped(sum)])
           /\ pump' = IF duration > 0 THEN LimitedPump(duration) ELSE pump
  /\ Leave
  /\ UNCHANGED <<now, moisture, queue>>

------------------------------------------------------------------------------
(* Meanwhile.                                                               *)

\* The UDP server thread: DeviceManager_SaveSensorData.
SaveReading(d, value) ==
  /\ value < MaxReading
  /\ moisture' \in Insert(moisture, [id |-> d, time |-> now, value |-> value])
  /\ UNCHANGED <<now, pid, queue, cur, pc, reading, last, pump>>

Tick ==
  /\ now < MaxTime
  /\ now' = now + 1
  /\ UNCHANGED <<moisture, pid, queue, cur, pc, reading, last, pump>>

\* The program starts anew; the database stays.
Restart ==
  /\ queue' = {}
  /\ cur' = NoId
  /\ pc' = "sleep"
  /\ reading' = {}
  /\ last' = {}
  /\ pump' = 0
  /\ UNCHANGED <<now, moisture, pid>>

Next ==
  \/ StartRound \/ EndRound
  \/ \E d \in Id : ReadMoisture(d)
  \/ ReadPid
  \/ Save
  \/ \E d \in Id, value \in Value : SaveReading(d, value)
  \/ Tick
  \/ Restart

Spec == Init /\ [][Next]_vars

------------------------------------------------------------------------------
Readings == [id : Id, time : Time, value : Nat]
PidRows  == [id : Id, time : Time, derivative : Nat, integrator : Int]

TypeOK ==
  /\ now \in Time
  /\ moisture \subseteq Readings
  /\ pid \subseteq PidRows
  /\ queue \subseteq Id
  /\ cur \in Id \cup {NoId}
  /\ pc \in {"sleep", "next", "readPid", "save"}
  /\ reading \subseteq Readings
  /\ last \subseteq PidRows
  /\ pump \in Int

\* Though the queries return rows of every device, a plant is never watered by
\* the reading or the controller state of another one: a single row in the
\* second of d's latest row is d's (pid.c:59, device_manager.c:326).
OwnRows ==
  pc \in {"readPid", "save"} => \A r \in reading \cup last : r.id = cur

\* Whatever the memory held from which the controller started, what it stores
\* and asks for is within its limits.
ControlBounded ==
  /\ \A r \in pid : r.integrator \in IntegratorMin..IntegratorMax
  /\ pump \in 0..MaxPump

\* Two devices that were updated within one second, in their latest rows.
Wedged(d) == \E r, q \in LastRows(pid, d) : r # q

\* Such a device is out of control for good, a restart included: its update
\* returns before it stores a row, so its latest row stays the latest
\* (pid.c:128-130, 159).
WedgeIsPermanent == [][ \A d \in Id : Wedged(d) => Wedged(d)' ]_vars
==============================================================================
