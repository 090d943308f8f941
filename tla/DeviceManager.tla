---------------------------- MODULE DeviceManager ----------------------------
(***************************************************************************)
(* The device registry and its failure detector,                           *)
(* BeagleBone/src/device_manager.c.                                        *)
(*                                                                         *)
(* Three kinds of thread share it.  The CALLER is the one thread that      *)
(* calls the API: the UDP server thread in the program, main in the test   *)
(* driver.  It registers devices, reports their heartbeats and may shut    *)
(* the manager down.  Every device record has a WATCHER thread that sleeps *)
(* for heart_beat_time, wakes, and under `lock` declares the device timed  *)
(* out when it has not been heard of for longer than that.  The POLL       *)
(* thread matters here only because Shutdown joins it.                     *)
(*                                                                         *)
(* One action is one step between two points where another thread can see *)
(* the difference: an access to a shared field, a lock operation, a thread *)
(* creation or join, one SQL statement.                                    *)
(***************************************************************************)
EXTENDS Integers

CONSTANTS
  Id,          \* device ids (uint32_t)
  NoId,        \* the id field of a record that does not exist
  HeartBeat,   \* heart_beat_time.tv_sec
  Wrap,        \* 2^64: last_seen and curr_time are uint64_t
  MaxDevices,  \* bound: records allocated in one run of the program
  MaxTime      \* bound: the clock stops there (see Wake)

ASSUME ConstantsAssumption ==
  /\ NoId \notin Id
  /\ HeartBeat \in Nat \ {0}
  /\ MaxDevices \in Nat \ {0}
  /\ MaxTime \in Nat
  /\ Wrap \in Nat
  /\ Wrap > MaxTime + HeartBeat

VARIABLES
  now,          \* time(NULL)
  len,          \* device_arr->len: records 1..len are in the array
  devId,        \* device->id
  lastSeen,     \* device->last_seen
  state,        \* device->state
  watcher,      \* where the record's watch_thread stands
  wakeAt,       \* when the watcher's nanosleep ends (0 outside it)
  currTime,     \* the watcher's local curr_time (0 when it is dead)
  lock,         \* who holds the manager's mutex
  pc,           \* where the caller thread stands
  arg,          \* the id of the heartbeat being reported
  cur,          \* the record the caller is working on
  shouldWatch,  \* should_watch
  polling,      \* the poll thread is in its loop
  living,       \* Shutdown's snapshot of the living devices
  row,          \* devices.status in the database, "None" without a row
  missed        \* history: ids whose last status save failed

callerVars == <<pc, arg, cur, living>>
recordVars == <<devId, lastSeen, state>>
watchVars  == <<watcher, wakeAt, currTime>>
dbVars     == <<row, missed>>
vars == <<now, len, devId, lastSeen, state, watcher, wakeAt, currTime, lock,
          pc, arg, cur, shouldWatch, polling, living, row, missed>>

Rec == 1..MaxDevices

\* The holders of the mutex: nobody, the caller, or the watcher of a record.
Free   == -1
Caller == 0

PCs == {"idle", "insert", "spawn", "put",                \* Register
        "hbLock", "hbStamp", "hbJoin", "hbAlive",        \* ReportHeartbeat
        "sdScan", "sdJoin", "sdPoll", "stopped"}         \* Shutdown

WatcherPCs == {"none", "test", "sleep", "lock",
               "saveOffline", "saveOnline", "done"}

\* uint64_t subtraction: an earlier curr_time gives a huge difference.
Elapsed(r) == (currTime[r] - lastSeen[r]) % Wrap

Known(id) == \E r \in 1..len : devId[r] = id

\* A plausible mistake; no specification uses it.
LastRecord(r, id) == r = len /\ Known(id)

\* DeviceArray_GetId: the first record in the array with this id.
FirstWith(r, id) ==
  /\ r \in 1..len
  /\ devId[r] = id
  /\ \A q \in 1..(r - 1) : devId[q] # id

------------------------------------------------------------------------------
(* The process starts: globals zeroed, then DeviceManager_Init.            *)

Started ==
  /\ len = 0
  /\ devId = [r \in Rec |-> NoId]
  /\ lastSeen = [r \in Rec |-> 0]
  /\ state = [r \in Rec |-> "ALIVE"]
  /\ watcher = [r \in Rec |-> "none"]
  /\ wakeAt = [r \in Rec |-> 0]
  /\ currTime = [r \in Rec |-> 0]
  /\ lock = Free
  /\ pc = "idle"
  /\ arg = NoId
  /\ cur = 1
  /\ shouldWatch = TRUE
  /\ polling = TRUE
  /\ living = {}
  /\ missed = {}

Init ==
  /\ Started
  /\ now = 0
  /\ row = [id \in Id |-> "None"]

\* Power loss, a crash, or a new start after an orderly stop: memory and
\* threads are gone, the database and the clock are not.
Restart ==
  /\ len' = 0
  /\ devId' = [r \in Rec |-> NoId]
  /\ lastSeen' = [r \in Rec |-> 0]
  /\ state' = [r \in Rec |-> "ALIVE"]
  /\ watcher' = [r \in Rec |-> "none"]
  /\ wakeAt' = [r \in Rec |-> 0]
  /\ currTime' = [r \in Rec |-> 0]
  /\ lock' = Free
  /\ pc' = "idle"
  /\ arg' = NoId
  /\ cur' = 1
  /\ shouldWatch' = TRUE
  /\ polling' = TRUE
  /\ living' = {}
  /\ missed' = {}
  /\ UNCHANGED <<now, row>>

Tick ==
  /\ now < MaxTime
  /\ now' = now + 1
  /\ UNCHANGED <<len, recordVars, watchVars, lock, callerVars,
                 shouldWatch, polling, dbVars>>

------------------------------------------------------------------------------
(* Plausible mistakes in the definitions below, each next to which some     *)
(* property fails.  No specification uses them.                             *)

StateAsStatus        == "TIMEOUT"
ScanStopsEarly       == cur >= len
WatchTimedOut(r)     == shouldWatch
WatchForever(r)      == state[r] # "TIMEOUT"
StaleOnTheDot(r)     == Elapsed(r) >= HeartBeat
WatchOnce            == "done"
OfflineSaves         == "Online"

------------------------------------------------------------------------------
(* The caller: Register and Reregister.                                    *)

\* malloc and fill a record; nothing else points to it yet.
NewRecord(id) ==
  /\ len < MaxDevices
  /\ cur' = len + 1
  /\ devId' = [devId EXCEPT ![len + 1] = id]
  /\ lastSeen' = [lastSeen EXCEPT ![len + 1] = now]
  /\ state' = [state EXCEPT ![len + 1] = "ALIVE"]

\* DeviceManager_Register, without the lock.  The id is rand(): any id, one
\* already in use included.
Register(id) ==
  /\ pc = "idle"
  /\ NewRecord(id)
  /\ pc' = "insert"
  /\ UNCHANGED <<now, len, watchVars, lock, arg, shouldWatch, polling,
                 living, dbVars>>

\* INSERT OR IGNORE: an existing row keeps its status.  The statement may
\* fail (another connection holds the database); the error is only printed.
InsertRow ==
  /\ pc = "insert"
  /\ \/ row' = IF row[devId[cur]] = "None"
               THEN [row EXCEPT ![devId[cur]] = "Online"] ELSE row
     \/ UNCHANGED row
  /\ pc' = "spawn"
  /\ UNCHANGED <<now, len, recordVars, watchVars, lock, arg, cur,
                 shouldWatch, polling, living, missed>>

Spawn ==
  /\ pc = "spawn"
  /\ watcher' = [watcher EXCEPT ![cur] = "test"]
  /\ pc' = "put"
  /\ UNCHANGED <<now, len, recordVars, wakeAt, currTime, lock, arg, cur,
                 shouldWatch, polling, living, dbVars>>

\* DeviceArray_Put, then return: to ReportHeartbeat, which holds the lock, or
\* out of Register, which does not.
Put ==
  /\ pc = "put"
  /\ len' = len + 1
  /\ pc' = IF lock = Caller THEN "hbStamp" ELSE "idle"
  /\ UNCHANGED <<now, recordVars, watchVars, lock, arg, cur, shouldWatch,
                 polling, living, dbVars>>

------------------------------------------------------------------------------
(* The caller: ReportHeartbeat.                                            *)

\* The second guard is the bound on records: a heartbeat from an unknown id
\* needs room for one more.
Heartbeat(id) ==
  /\ pc = "idle"
  /\ Known(id) \/ len < MaxDevices
  /\ arg' = id
  /\ pc' = "hbLock"
  /\ UNCHANGED <<now, len, recordVars, watchVars, lock, cur, shouldWatch,
                 polling, living, dbVars>>

\* Take the lock and look the device up; an unknown one is registered again
\* under the id it sent.
HbLock ==
  /\ pc = "hbLock"
  /\ lock = Free
  /\ lock' = Caller
  /\ \/ \E r \in Rec :
          /\ FirstWith(r, arg)
          /\ cur' = r
          /\ pc' = "hbStamp"
          /\ UNCHANGED recordVars
     \/ /\ ~Known(arg)
        /\ NewRecord(arg)
        /\ pc' = "insert"
  /\ arg' = NoId
  /\ UNCHANGED <<now, len, watchVars, shouldWatch, polling, living, dbVars>>

HbStamp ==
  /\ pc = "hbStamp"
  /\ lastSeen' = [lastSeen EXCEPT ![cur] = now]
  /\ pc' = IF state[cur] = "TIMEOUT" THEN "hbJoin" ELSE "hbAlive"
  /\ UNCHANGED <<now, len, devId, state, watchVars, lock, arg, cur,
                 shouldWatch, polling, living, dbVars>>

\* pthread_join the old watcher, with the lock held, and create a new one:
\* it can run before the next step makes the device ALIVE.
HbJoin ==
  /\ pc = "hbJoin"
  /\ watcher[cur] = "done"
  /\ watcher' = [watcher EXCEPT ![cur] = "test"]
  /\ pc' = "hbAlive"
  /\ UNCHANGED <<now, len, recordVars, wakeAt, currTime, lock, arg, cur,
                 shouldWatch, polling, living, dbVars>>

HbAlive ==
  /\ pc = "hbAlive"
  /\ state' = [state EXCEPT ![cur] = "ALIVE"]
  /\ lock' = Free
  /\ pc' = "idle"
  /\ UNCHANGED <<now, len, devId, lastSeen, watchVars, arg, cur, shouldWatch,
                 polling, living, dbVars>>

------------------------------------------------------------------------------
(* The caller: Shutdown.                                                   *)

ScanOver == cur > len

Shutdown ==
  /\ pc = "idle"
  /\ shouldWatch' = FALSE
  /\ cur' = 1
  /\ living' = {}
  /\ pc' = "sdScan"
  /\ UNCHANGED <<now, len, recordVars, watchVars, lock, arg, polling, dbVars>>

\* DeviceArray_GetAlive copies the records that are ALIVE, one after the
\* other: a record may time out after it was copied.
SdScan ==
  /\ pc = "sdScan"
  /\ IF ScanOver
     THEN pc' = "sdJoin" /\ UNCHANGED <<cur, living>>
     ELSE /\ living' = IF state[cur] = "ALIVE" THEN living \cup {cur}
                                              ELSE living
          /\ cur' = cur + 1
          /\ UNCHANGED pc
  /\ UNCHANGED <<now, len, recordVars, watchVars, lock, arg, shouldWatch,
                 polling, dbVars>>

\* The loop of joins is over exactly when every thread joined has ended.
SdJoin ==
  /\ pc = "sdJoin"
  /\ \A r \in living : watcher[r] = "done"
  /\ pc' = "sdPoll"
  /\ UNCHANGED <<now, len, recordVars, watchVars, lock, arg, cur,
                 shouldWatch, polling, living, dbVars>>

\* Join the poll thread, free every record, destroy the mutex.
SdPoll ==
  /\ pc = "sdPoll"
  /\ ~polling
  /\ pc' = "stopped"
  /\ UNCHANGED <<now, len, recordVars, watchVars, lock, arg, cur,
                 shouldWatch, polling, living, dbVars>>

------------------------------------------------------------------------------
(* The watcher of record r: watch_device.                                  *)

KeepWatching(r) == shouldWatch /\ state[r] # "TIMEOUT"

\* The loop condition, read without the lock.
Test(r) ==
  /\ watcher[r] = "test"
  /\ IF KeepWatching(r)
     THEN /\ watcher' = [watcher EXCEPT ![r] = "sleep"]
          /\ wakeAt' = [wakeAt EXCEPT ![r] = now + HeartBeat]
     ELSE /\ watcher' = [watcher EXCEPT ![r] = "done"]
          /\ UNCHANGED wakeAt
  /\ UNCHANGED <<now, len, recordVars, currTime, lock, callerVars,
                 shouldWatch, polling, dbVars>>

\* nanosleep returns and curr_time is read, still without the lock.  Where
\* the modelled clock stops, a sleep that would end later ends too.
Wake(r) ==
  /\ watcher[r] = "sleep"
  /\ now >= wakeAt[r] \/ now = MaxTime
  /\ watcher' = [watcher EXCEPT ![r] = "lock"]
  /\ wakeAt' = [wakeAt EXCEPT ![r] = 0]
  /\ currTime' = [currTime EXCEPT ![r] = now]
  /\ UNCHANGED <<now, len, recordVars, lock, callerVars, shouldWatch,
                 polling, dbVars>>

Stale(r) == Elapsed(r) > HeartBeat

\* Take the lock and judge the device.
Check(r) ==
  /\ watcher[r] = "lock"
  /\ lock = Free
  /\ lock' = r
  /\ IF Stale(r)
     THEN /\ state' = [state EXCEPT ![r] = "TIMEOUT"]
          /\ watcher' = [watcher EXCEPT ![r] = "saveOffline"]
     ELSE /\ watcher' = [watcher EXCEPT ![r] = "saveOnline"]
          /\ UNCHANGED state
  /\ currTime' = [currTime EXCEPT ![r] = 0]
  /\ UNCHANGED <<now, len, devId, lastSeen, wakeAt, callerVars, shouldWatch,
                 polling, dbVars>>

AfterSave     == "test"     \* back to the loop condition
TimeoutStatus == "Offline"

\* save_device_status: UPDATE changes the row if there is one, or fails; then
\* the lock is released.
Save(r, status) ==
  /\ \/ /\ row' = IF row[devId[r]] = "None" THEN row
                  ELSE [row EXCEPT ![devId[r]] = status]
        /\ missed' = missed \ {devId[r]}
     \/ /\ missed' = missed \cup {devId[r]}
        /\ UNCHANGED row
  /\ lock' = Free
  /\ watcher' = [watcher EXCEPT ![r] = AfterSave]
  /\ UNCHANGED <<now, len, recordVars, wakeAt, currTime, callerVars,
                 shouldWatch, polling>>

SaveOffline(r) == watcher[r] = "saveOffline" /\ Save(r, TimeoutStatus)
SaveOnline(r)  == watcher[r] = "saveOnline" /\ Save(r, "Online")

\* poll_devices leaves its loop at the first test after should_watch is 0.
PollExit ==
  /\ polling
  /\ ~shouldWatch
  /\ polling' = FALSE
  /\ UNCHANGED <<now, len, recordVars, watchVars, lock, callerVars,
                 shouldWatch, dbVars>>

------------------------------------------------------------------------------
Watch(r) == Test(r) \/ Wake(r) \/ Check(r) \/ SaveOffline(r) \/ SaveOnline(r)

\* What the caller does inside a call, and the choice of the next one.
CallStep ==
  \/ InsertRow \/ Spawn \/ Put
  \/ HbLock \/ HbStamp \/ HbJoin \/ HbAlive
  \/ SdScan \/ SdJoin \/ SdPoll

NewCall == Shutdown \/ \E id \in Id : Register(id) \/ Heartbeat(id)

Next ==
  \/ Restart
  \/ Tick
  \/ NewCall
  \/ CallStep
  \/ \E r \in Rec : Watch(r)
  \/ PollExit

Spec == Init /\ [][Next]_vars

\* Threads that can run do run.  The mutex is requested again and again by
\* threads that sleep for seconds between two requests, so a thread that waits
\* for it finds it free over and over and gets it: strong fairness.  Nobody
\* has to call, and nobody has to restart the program.
Fairness ==
  /\ WF_vars(Tick)
  /\ SF_vars(CallStep)
  /\ \A r \in Rec : SF_vars(Watch(r))
  /\ WF_vars(PollExit)

FairSpec == Spec /\ Fairness

------------------------------------------------------------------------------
TypeOK ==
  /\ now \in 0..MaxTime
  /\ len \in 0..MaxDevices
  /\ devId \in [Rec -> Id \cup {NoId}]
  /\ lastSeen \in [Rec -> 0..MaxTime]
  /\ state \in [Rec -> {"ALIVE", "TIMEOUT"}]
  /\ watcher \in [Rec -> WatcherPCs]
  /\ wakeAt \in [Rec -> 0..(MaxTime + HeartBeat)]
  /\ currTime \in [Rec -> 0..MaxTime]
  /\ lock \in {Free, Caller} \cup Rec
  /\ pc \in PCs
  /\ arg \in Id \cup {NoId}
  /\ cur \in 1..(MaxDevices + 1)
  /\ shouldWatch \in BOOLEAN
  /\ polling \in BOOLEAN
  /\ living \subseteq Rec
  /\ row \in [Id -> {"None", "Online", "Offline"}]
  /\ missed \subseteq Id

\* ReportHeartbeat joins the old watcher while it holds the lock the watcher
\* needs (device_manager.c:248).  That does not deadlock: whenever it gets
\* there, the watcher is past its last unlock and cannot want the lock again.
JoinSafe ==
  pc = "hbJoin" => /\ state[cur] = "TIMEOUT"
                   /\ watcher[cur] \in {"test", "done"}

\* Shutdown joins only the devices its scan found ALIVE (device_manager.c:266),
\* then frees every record.  A watcher that is still there then belongs to a
\* device that had timed out, and can do no more than leave its loop: either
\* it is still saving that status, or its next test of device->state ends it.
FreedWindow ==
  pc = "stopped" =>
    \A r \in 1..len :
      \/ watcher[r] = "done"
      \/ state[r] = "TIMEOUT" /\ watcher[r] \in {"saveOffline", "test"}

\* Once the watcher of a timed-out device has gone, nobody corrects the
\* device's row any more: it does not say Online, unless the last UPDATE
\* failed.  (Two records with one id write the same row: see the README.)
StatusTruth ==
  \A r \in 1..len :
    /\ state[r] = "TIMEOUT"
    /\ watcher[r] = "done"
    /\ \A q \in Rec \ {r} : devId[q] # devId[r]
    => row[devId[r]] # "Online" \/ devId[r] \in missed

\* A device is declared dead only when it has been silent for longer than
\* heart_beat_time at that very moment -- or when a heartbeat came in after
\* its watcher read the clock and before it got the lock, which makes the
\* unsigned difference wrap (device_manager.c:87-91).
TimeoutJustified ==
  [][ \A r \in Rec :
        state[r] = "ALIVE" /\ state'[r] = "TIMEOUT" =>
          now - lastSeen[r] > HeartBeat \/ currTime[r] < lastSeen[r] ]_vars

\* Every heartbeat is taken in: the caller gets the lock, and if it has to
\* join the old watcher, that one ends.
HeartbeatCompletes == pc = "hbLock" ~> pc = "idle"

\* The steps a watcher has before it that is never told to go on.
StepsLeft(r) == CASE watcher[r] \in {"none", "done"} -> 0
                  [] watcher[r] = "test" -> 1
                  [] watcher[r] \in {"saveOffline", "saveOnline"} -> 2
                  [] watcher[r] = "lock" -> 3
                  [] watcher[r] = "sleep" -> 4

\* Why the joins of Shutdown return: once should_watch is 0 the caller has left
\* the critical section for good, no watcher is
\* created or sent back to sleep, and each that takes a step has one less
\* before it (device_manager.c:85, 264-269).
ShutdownProgresses ==
  [][ ~shouldWatch /\ ~shouldWatch' =>
        /\ lock # Caller
        /\ \A r \in Rec : /\ StepsLeft(r)' <= StepsLeft(r)
                          /\ Watch(r) => StepsLeft(r)' < StepsLeft(r) ]_vars

\* Shutdown ends (or the machine is restarted): every thread it waits for
\* leaves its loop.
ShutdownCompletes == pc = "sdScan" ~> pc \in {"stopped", "idle"}

Silent(r) == r <= len /\ now > lastSeen[r] + HeartBeat

\* A silent device that has a live watcher is timed out, unless it is heard
\* of again, the manager is shut down or the program restarted.
WatchedSilentTimesOut ==
  \A r \in Rec :
    Silent(r) /\ watcher[r] \notin {"none", "done"} /\ shouldWatch
      ~> state[r] = "TIMEOUT" \/ ~Silent(r) \/ ~shouldWatch

(* What the program says of itself, and does not do.                       *)

\* test/device_manager_test.c:24-28: a device that goes silent is TIMEOUT
\* some time later, however often it had timed out and come back before.
SilentDeviceTimesOut ==
  \A r \in Rec :
    Silent(r) /\ pc = "idle" ~> state[r] = "TIMEOUT" \/ ~Silent(r) \/ ~shouldWatch
==============================================================================
