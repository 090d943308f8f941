------------------------- MODULE DeviceManagerProofs -------------------------
(***************************************************************************)
(* Theorems about DeviceManager, for every set of ids, every number of     *)
(* records, every clock and every heart_beat_time.                         *)
(*                                                                         *)
(* Inv is the inductive invariant: who may hold the mutex where, which     *)
(* records exist, what a watcher's position says about its device, and     *)
(* what Shutdown has established at each of its steps.                     *)
(***************************************************************************)
EXTENDS DeviceManagerRefinement, TLAPS

Registering  == {"insert", "spawn", "put"}
UnderLock    == {"hbStamp", "hbJoin", "hbAlive"}
Saving       == {"saveOffline", "saveOnline"}
ShuttingDown == {"sdScan", "sdJoin", "sdPoll", "stopped"}

\* The caller holds the mutex only in ReportHeartbeat and the Reregister it
\* calls; a watcher holds it exactly while it saves a status.
LockInv ==
  /\ pc \in UnderLock => lock = Caller
  /\ lock = Caller => pc \in UnderLock \cup Registering
  /\ \A r \in Rec : watcher[r] \in Saving <=> lock = r

\* Records 1..len are in the array and have had a watcher; the record being
\* registered is the next one and gets its watcher before it gets in.
AllocInv ==
  /\ pc \in Registering => cur = len + 1 /\ cur \in Rec
  /\ pc \in UnderLock => cur \in 1..len
  /\ pc = "sdScan" => cur \in 1..(len + 1)
  /\ \A r \in 1..len : watcher[r] # "none"
  /\ \A r \in Rec : r > len => \/ watcher[r] = "none"
                               \/ pc = "put" /\ r = cur
  /\ pc = "put" => watcher[cur] # "none"
  /\ pc = "hbLock" => arg \in Id
  /\ \A r \in Rec : devId[r] # NoId <=> \/ r <= len
                                        \/ pc \in Registering /\ r = cur

\* A watcher inside its loop watches an ALIVE device; one that reports a
\* timeout has made the device TIMEOUT.
WatcherInv ==
  \A r \in Rec :
    /\ watcher[r] \in {"sleep", "lock", "saveOnline"} => state[r] = "ALIVE"
    /\ watcher[r] = "saveOffline" => state[r] = "TIMEOUT"

JoinInv == pc = "hbJoin" => state[cur] = "TIMEOUT"

\* Shutdown's scan misses only devices that have timed out, for good.
ShutdownInv ==
  /\ pc = "sdScan" => \A r \in 1..(cur - 1) : r \in living \/ state[r] = "TIMEOUT"
  /\ pc \in {"sdJoin", "sdPoll", "stopped"} =>
       \A r \in 1..len : r \in living \/ state[r] = "TIMEOUT"
  /\ pc \in {"sdPoll", "stopped"} => \A r \in living : watcher[r] = "done"

\* No thread has seen a time that is still to come.
ClockInv == \A r \in Rec : lastSeen[r] <= now /\ currTime[r] <= now

Inv == /\ TypeOK
       /\ LockInv
       /\ AllocInv
       /\ WatcherInv
       /\ JoinInv
       /\ ShutdownInv
       /\ ClockInv

USE DEF Rec, Free, Caller, Registering, UnderLock, Saving, ShuttingDown,
        PCs, WatcherPCs, recordVars, watchVars, callerVars, dbVars

LEMMA InitInv == Init => Inv
  BY ConstantsAssumption
  DEF Init, Started, Inv, TypeOK, LockInv, AllocInv, WatcherInv, JoinInv,
      ShutdownInv, ClockInv

\* A record that has had a watcher carries an id, so a save writes a row.
LEMMA SavingHasId ==
  ASSUME TypeOK, AllocInv, NEW r \in Rec, watcher[r] # "none"
  PROVE  devId[r] \in Id
<1>1. r <= len \/ r > len
  BY DEF TypeOK
<1>2. devId[r] # NoId
  BY <1>1 DEF AllocInv
<1> QED
  BY <1>2 DEF TypeOK

\* What malloc and the assignments of Register and Reregister yield.
LEMMA NewRecordType ==
  ASSUME TypeOK, NEW id \in Id, NewRecord(id), pc' = "insert",
         lock' \in {Free, Caller} \cup Rec, arg' \in Id \cup {NoId},
         UNCHANGED <<now, len, watchVars, shouldWatch, polling, living, dbVars>>
  PROVE  TypeOK'
<1> USE ConstantsAssumption DEF NewRecord, TypeOK
<1>1. cur' \in 1..(MaxDevices + 1)
  OBVIOUS
<1>2. devId' \in [Rec -> Id \cup {NoId}]
  OBVIOUS
<1>3. lastSeen' \in [Rec -> 0..MaxTime]
  OBVIOUS
<1>4. state' \in [Rec -> {"ALIVE", "TIMEOUT"}]
  OBVIOUS
<1> HIDE DEF NewRecord
<1> QED
  BY <1>1, <1>2, <1>3, <1>4

LEMMA SaveType ==
  ASSUME TypeOK, NEW r \in Rec, devId[r] \in Id,
         NEW status \in {"Online", "Offline"}, Save(r, status)
  PROVE  TypeOK'
<1> USE ConstantsAssumption DEF Save, AfterSave, TypeOK
<1>1. row' \in [Id -> {"None", "Online", "Offline"}]
  OBVIOUS
<1>2. missed' \subseteq Id
  OBVIOUS
<1>3. watcher' \in [Rec -> WatcherPCs]
  OBVIOUS
<1>4. lock' \in {Free, Caller} \cup Rec
  OBVIOUS
<1>5. UNCHANGED <<now, len, recordVars, wakeAt, currTime, callerVars,
                  shouldWatch, polling>>
  OBVIOUS
<1> QED
  BY <1>1, <1>2, <1>3, <1>4, <1>5

LEMMA TypeStep == Inv /\ [Next]_vars => TypeOK'
<1> SUFFICES ASSUME Inv, [Next]_vars PROVE TypeOK'
  OBVIOUS
<1> USE ConstantsAssumption DEF Inv, TypeOK
<1>1. CASE Restart
  BY <1>1 DEF Restart
<1>2. CASE Tick
  BY <1>2 DEF Tick
<1>3. CASE Shutdown
  <2> USE <1>3 DEF Shutdown
  <2>1. cur' \in 1..(MaxDevices + 1) /\ pc' \in PCs /\ living' \subseteq Rec
    OBVIOUS
  <2>2. shouldWatch' \in BOOLEAN
    OBVIOUS
  <2>3. UNCHANGED <<now, len, recordVars, watchVars, lock, arg, polling, dbVars>>
    OBVIOUS
  <2> QED
    BY <2>1, <2>2, <2>3
<1>4. ASSUME NEW id \in Id, Register(id) PROVE TypeOK'
  <2>1. /\ NewRecord(id)
        /\ pc' = "insert"
        /\ lock' \in {Free, Caller} \cup Rec
        /\ arg' \in Id \cup {NoId}
        /\ UNCHANGED <<now, len, watchVars, shouldWatch, polling, living, dbVars>>
    BY <1>4 DEF Register
  <2> QED
    BY <2>1, NewRecordType
<1>5. ASSUME NEW id \in Id, Heartbeat(id) PROVE TypeOK'
  BY <1>5 DEF Heartbeat
<1>6. CASE InsertRow
  BY <1>6 DEF InsertRow
<1>7. CASE Spawn
  BY <1>7 DEF Spawn
<1>8. CASE Put
  BY <1>8, SMTT(30) DEF Put, AllocInv
<1>9. CASE HbLock
  <2>1. arg' \in Id \cup {NoId} /\ lock' \in {Free, Caller} \cup Rec
    BY <1>9 DEF HbLock
  <2>2. UNCHANGED <<now, len, watchVars, shouldWatch, polling, living, dbVars>>
    BY <1>9 DEF HbLock
  <2>3. CASE /\ \E r \in Rec : cur' = r
             /\ pc' = "hbStamp"
             /\ UNCHANGED recordVars
    BY <2>1, <2>2, <2>3, SMTT(30)
  <2>4. CASE NewRecord(arg) /\ pc' = "insert"
    <3>1. PICK id \in Id : NewRecord(id)
      BY <1>9, <2>4 DEF HbLock, AllocInv, NewRecord
    <3> QED
      BY <2>1, <2>2, <2>4, <3>1, NewRecordType
  <2> QED
    BY <1>9, <2>3, <2>4 DEF HbLock
<1>10. CASE HbStamp
  BY <1>10 DEF HbStamp
<1>11. CASE HbJoin
  BY <1>11 DEF HbJoin
<1>12. CASE HbAlive
  BY <1>12 DEF HbAlive
<1>13. CASE SdScan
  <2> USE <1>13 DEF SdScan
  <2>1. UNCHANGED <<now, len, recordVars, watchVars, lock, arg, shouldWatch,
                    polling, dbVars>>
    OBVIOUS
  <2>2. CASE ScanOver
    BY <2>1, <2>2
  <2>3. CASE ~ScanOver
    <3>1. cur \in Rec
      BY <2>3 DEF ScanOver
    <3>2. cur' \in 1..(MaxDevices + 1) /\ pc' \in PCs
      BY <2>3, <3>1
    <3>3. living' \subseteq Rec
      BY <2>3, <3>1
    <3> QED
      BY <2>1, <3>2, <3>3
  <2> QED
    BY <2>2, <2>3
<1>14. CASE SdJoin
  BY <1>14 DEF SdJoin
<1>15. CASE SdPoll
  BY <1>15 DEF SdPoll
<1>16. ASSUME NEW r \in Rec, Test(r) PROVE TypeOK'
  <2>1. /\ \E place \in {"sleep", "done"} :
             watcher' = [watcher EXCEPT ![r] = place]
        /\ wakeAt' = wakeAt \/ wakeAt' = [wakeAt EXCEPT ![r] = now + HeartBeat]
    BY <1>16, Zenon DEF Test
  <2>2. watcher' \in [Rec -> WatcherPCs]
    BY <2>1
  <2>3. now + HeartBeat \in 0..(MaxTime + HeartBeat)
    OBVIOUS
  <2>4. wakeAt' \in [Rec -> 0..(MaxTime + HeartBeat)]
    BY <2>1, <2>3
  <2>5. UNCHANGED <<now, len, recordVars, currTime, lock, callerVars,
                    shouldWatch, polling, dbVars>>
    BY <1>16 DEF Test
  <2> QED
    BY <2>2, <2>4, <2>5
<1>17. ASSUME NEW r \in Rec, Wake(r) PROVE TypeOK'
  BY <1>17 DEF Wake
<1>18. ASSUME NEW r \in Rec, Check(r) PROVE TypeOK'
  <2> USE <1>18 DEF Check
  <2>1. watcher' \in [Rec -> WatcherPCs] /\ lock' \in {Free, Caller} \cup Rec
    OBVIOUS
  <2>2. state' \in [Rec -> {"ALIVE", "TIMEOUT"}]
    OBVIOUS
  <2>3. currTime' \in [Rec -> 0..MaxTime]
    OBVIOUS
  <2>4. UNCHANGED <<now, len, devId, lastSeen, wakeAt, callerVars, shouldWatch,
                    polling, dbVars>>
    OBVIOUS
  <2> QED
    BY <2>1, <2>2, <2>3, <2>4
<1>19. ASSUME NEW r \in Rec, SaveOffline(r) PROVE TypeOK'
  BY <1>19, SavingHasId, SaveType DEF SaveOffline, TimeoutStatus
<1>20. ASSUME NEW r \in Rec, SaveOnline(r) PROVE TypeOK'
  BY <1>20, SavingHasId, SaveType DEF SaveOnline
<1>21. CASE PollExit
  BY <1>21 DEF PollExit
<1>22. CASE UNCHANGED vars
  BY <1>22 DEF vars
<1> QED
  BY <1>1, <1>2, <1>3, <1>4, <1>5, <1>6, <1>7, <1>8, <1>9, <1>10, <1>11,
     <1>12, <1>13, <1>14, <1>15, <1>16, <1>17, <1>18, <1>19, <1>20, <1>21, <1>22
  DEF Next, NewCall, CallStep, Watch

\* What HbLock, Test and Check do to the records and the watchers, without
\* the conditions that choose between their outcomes.
HbLocked ==
  /\ pc = "hbLock" /\ lock = Free /\ lock' = Caller
  /\ UNCHANGED <<now, len, watchVars, living, dbVars>>
  /\ \/ /\ \E r \in 1..len : cur' = r
        /\ pc' = "hbStamp"
        /\ UNCHANGED recordVars
     \/ /\ \E id \in Id : NewRecord(id)
        /\ pc' = "insert"

Tested(r) ==
  /\ watcher[r] = "test"
  /\ \/ /\ watcher' = [watcher EXCEPT ![r] = "sleep"]
        /\ state[r] # "TIMEOUT"
     \/ watcher' = [watcher EXCEPT ![r] = "done"]
  /\ UNCHANGED <<now, len, recordVars, currTime, lock, callerVars>>

Checked(r) ==
  /\ watcher[r] = "lock"
  /\ \/ /\ watcher' = [watcher EXCEPT ![r] = "saveOffline"]
        /\ state' = [state EXCEPT ![r] = "TIMEOUT"]
     \/ /\ watcher' = [watcher EXCEPT ![r] = "saveOnline"]
        /\ UNCHANGED state
  /\ lock = Free /\ lock' = r
  /\ currTime' = [currTime EXCEPT ![r] = 0]
  /\ UNCHANGED <<now, len, devId, lastSeen, callerVars, dbVars>>

LEMMA HbLockEffect == AllocInv /\ HbLock => HbLocked
  BY DEF AllocInv, HbLock, HbLocked, FirstWith, NewRecord

LEMMA TestEffect == ASSUME NEW r \in Rec, Test(r) PROVE Tested(r)
<1>1. KeepWatching(r) => state[r] # "TIMEOUT"
  BY Zenon DEF KeepWatching
<1> QED
  BY <1>1 DEF Test, Tested

LEMMA CheckEffect == ASSUME NEW r \in Rec, Check(r) PROVE Checked(r)
  BY DEF Check, Checked

LEMMA LockStep == Inv /\ [Next]_vars => LockInv'
<1> SUFFICES ASSUME Inv, [Next]_vars PROVE LockInv'
  OBVIOUS
<1> USE ConstantsAssumption DEF Inv, TypeOK, LockInv
<1>1. CASE Restart
  BY <1>1 DEF Restart
<1>2. CASE Tick
  BY <1>2 DEF Tick
<1>3. CASE Shutdown
  BY <1>3 DEF Shutdown
<1>4. ASSUME NEW id \in Id, Register(id) PROVE LockInv'
  BY <1>4 DEF Register, NewRecord
<1>5. ASSUME NEW id \in Id, Heartbeat(id) PROVE LockInv'
  BY <1>5 DEF Heartbeat
<1>6. CASE InsertRow
  BY <1>6 DEF InsertRow
<1>7. CASE Spawn
  BY <1>7 DEF Spawn, AllocInv
<1>8. CASE Put
  BY <1>8 DEF Put
<1>9. CASE HbLock
  <2>1. HbLocked
    BY <1>9, HbLockEffect
  <2>2. CASE \E r \in 1..len : cur' = r /\ pc' = "hbStamp" /\ UNCHANGED recordVars
    BY <2>1, <2>2 DEF HbLocked
  <2>3. CASE \E id \in Id : NewRecord(id) /\ pc' = "insert"
    BY <2>1, <2>3 DEF HbLocked, NewRecord
  <2> QED
    BY <2>1, <2>2, <2>3 DEF HbLocked
<1>10. CASE HbStamp
  BY <1>10 DEF HbStamp
<1>11. CASE HbJoin
  BY <1>11 DEF HbJoin
<1>12. CASE HbAlive
  BY <1>12 DEF HbAlive
<1>13. CASE SdScan
  BY <1>13 DEF SdScan, ScanOver
<1>14. CASE SdJoin
  BY <1>14 DEF SdJoin
<1>15. CASE SdPoll
  BY <1>15 DEF SdPoll
<1>16. ASSUME NEW r \in Rec, Test(r) PROVE LockInv'
  <2>1. Tested(r)
    BY <1>16, TestEffect
  <2> QED
    BY <2>1 DEF Tested
<1>17. ASSUME NEW r \in Rec, Wake(r) PROVE LockInv'
  BY <1>17 DEF Wake
<1>18. ASSUME NEW r \in Rec, Check(r) PROVE LockInv'
  <2>1. Checked(r)
    BY <1>18, CheckEffect
  <2>2. CASE /\ watcher' = [watcher EXCEPT ![r] = "saveOffline"]
             /\ state' = [state EXCEPT ![r] = "TIMEOUT"]
    BY <2>1, <2>2 DEF Checked
  <2>3. CASE watcher' = [watcher EXCEPT ![r] = "saveOnline"] /\ UNCHANGED state
    BY <2>1, <2>3 DEF Checked
  <2> QED
    BY <2>1, <2>2, <2>3 DEF Checked
<1>19. ASSUME NEW r \in Rec, SaveOffline(r) PROVE LockInv'
  BY <1>19 DEF SaveOffline, Save, TimeoutStatus, AfterSave
<1>20. ASSUME NEW r \in Rec, SaveOnline(r) PROVE LockInv'
  BY <1>20 DEF SaveOnline, Save, AfterSave
<1>21. CASE PollExit
  BY <1>21 DEF PollExit
<1>22. CASE UNCHANGED vars
  BY <1>22 DEF vars
<1> QED
  BY <1>1, <1>2, <1>3, <1>4, <1>5, <1>6, <1>7, <1>8, <1>9, <1>10, <1>11,
     <1>12, <1>13, <1>14, <1>15, <1>16, <1>17, <1>18, <1>19, <1>20, <1>21, <1>22
  DEF Next, NewCall, CallStep, Watch

LEMMA AllocStep == Inv /\ [Next]_vars => AllocInv'
<1> SUFFICES ASSUME Inv, [Next]_vars PROVE AllocInv'
  OBVIOUS
<1> USE ConstantsAssumption DEF Inv, TypeOK, LockInv, AllocInv
<1>1. CASE Restart
  BY <1>1 DEF Restart
<1>2. CASE Tick
  BY <1>2 DEF Tick
<1>3. CASE Shutdown
  BY <1>3 DEF Shutdown
<1>4. ASSUME NEW id \in Id, Register(id) PROVE AllocInv'
  BY <1>4 DEF Register, NewRecord
<1>5. ASSUME NEW id \in Id, Heartbeat(id) PROVE AllocInv'
  BY <1>5 DEF Heartbeat
<1>6. CASE InsertRow
  BY <1>6 DEF InsertRow
<1>7. CASE Spawn
  BY <1>7 DEF Spawn
<1>8. CASE Put
  BY <1>8, SMTT(30) DEF Put
<1>9. CASE HbLock
  <2>1. HbLocked
    BY <1>9, HbLockEffect
  <2>2. CASE \E r \in 1..len : cur' = r /\ pc' = "hbStamp" /\ UNCHANGED recordVars
    BY <2>1, <2>2 DEF HbLocked
  <2>3. CASE \E id \in Id : NewRecord(id) /\ pc' = "insert"
    BY <2>1, <2>3 DEF HbLocked, NewRecord
  <2> QED
    BY <2>1, <2>2, <2>3 DEF HbLocked
<1>10. CASE HbStamp
  BY <1>10 DEF HbStamp
<1>11. CASE HbJoin
  BY <1>11 DEF HbJoin
<1>12. CASE HbAlive
  BY <1>12 DEF HbAlive
<1>13. CASE SdScan
  <2>1. CASE ScanOver
    BY <1>13, <2>1 DEF SdScan, ScanOver
  <2>2. CASE ~ScanOver
    BY <1>13, <2>2 DEF SdScan, ScanOver
  <2> QED
    BY <2>1, <2>2
<1>14. CASE SdJoin
  BY <1>14 DEF SdJoin
<1>15. CASE SdPoll
  BY <1>15 DEF SdPoll
<1>16. ASSUME NEW r \in Rec, Test(r) PROVE AllocInv'
  <2>1. Tested(r)
    BY <1>16, TestEffect
  <2>2. CASE watcher' = [watcher EXCEPT ![r] = "sleep"]
    BY <2>1, <2>2 DEF Tested
  <2>3. CASE watcher' = [watcher EXCEPT ![r] = "done"]
    BY <2>1, <2>3 DEF Tested
  <2> QED
    BY <2>1, <2>2, <2>3 DEF Tested
<1>17. ASSUME NEW r \in Rec, Wake(r) PROVE AllocInv'
  BY <1>17 DEF Wake
<1>18. ASSUME NEW r \in Rec, Check(r) PROVE AllocInv'
  <2>1. Checked(r)
    BY <1>18, CheckEffect
  <2>2. CASE /\ watcher' = [watcher EXCEPT ![r] = "saveOffline"]
             /\ state' = [state EXCEPT ![r] = "TIMEOUT"]
    BY <2>1, <2>2 DEF Checked
  <2>3. CASE watcher' = [watcher EXCEPT ![r] = "saveOnline"] /\ UNCHANGED state
    BY <2>1, <2>3 DEF Checked
  <2> QED
    BY <2>1, <2>2, <2>3 DEF Checked
<1>19. ASSUME NEW r \in Rec, SaveOffline(r) PROVE AllocInv'
  BY <1>19 DEF SaveOffline, Save, TimeoutStatus, AfterSave
<1>20. ASSUME NEW r \in Rec, SaveOnline(r) PROVE AllocInv'
  BY <1>20 DEF SaveOnline, Save, AfterSave
<1>21. CASE PollExit
  BY <1>21 DEF PollExit
<1>22. CASE UNCHANGED vars
  BY <1>22 DEF vars
<1> QED
  BY <1>1, <1>2, <1>3, <1>4, <1>5, <1>6, <1>7, <1>8, <1>9, <1>10, <1>11,
     <1>12, <1>13, <1>14, <1>15, <1>16, <1>17, <1>18, <1>19, <1>20, <1>21, <1>22
  DEF Next, NewCall, CallStep, Watch

LEMMA WatcherStep == Inv /\ [Next]_vars => WatcherInv'
<1> SUFFICES ASSUME Inv, [Next]_vars PROVE WatcherInv'
  OBVIOUS
<1> USE ConstantsAssumption DEF Inv, TypeOK, LockInv, AllocInv, WatcherInv
<1>1. CASE Restart
  BY <1>1 DEF Restart
<1>2. CASE Tick
  BY <1>2 DEF Tick
<1>3. CASE Shutdown
  BY <1>3 DEF Shutdown
<1>4. ASSUME NEW id \in Id, Register(id) PROVE WatcherInv'
  BY <1>4 DEF Register, NewRecord
<1>5. ASSUME NEW id \in Id, Heartbeat(id) PROVE WatcherInv'
  BY <1>5 DEF Heartbeat
<1>6. CASE InsertRow
  BY <1>6 DEF InsertRow
<1>7. CASE Spawn
  BY <1>7 DEF Spawn
<1>8. CASE Put
  BY <1>8 DEF Put
<1>9. CASE HbLock
  <2>1. HbLocked
    BY <1>9, HbLockEffect
  <2>2. CASE \E r \in 1..len : cur' = r /\ pc' = "hbStamp" /\ UNCHANGED recordVars
    BY <2>1, <2>2 DEF HbLocked
  <2>3. CASE \E id \in Id : NewRecord(id) /\ pc' = "insert"
    BY <2>1, <2>3 DEF HbLocked, NewRecord
  <2> QED
    BY <2>1, <2>2, <2>3 DEF HbLocked
<1>10. CASE HbStamp
  BY <1>10 DEF HbStamp
<1>11. CASE HbJoin
  BY <1>11 DEF HbJoin
<1>12. CASE HbAlive
  BY <1>12 DEF HbAlive
<1>13. CASE SdScan
  BY <1>13 DEF SdScan, ScanOver
<1>14. CASE SdJoin
  BY <1>14 DEF SdJoin
<1>15. CASE SdPoll
  BY <1>15 DEF SdPoll
<1>16. ASSUME NEW r \in Rec, Test(r) PROVE WatcherInv'
  <2>1. Tested(r)
    BY <1>16, TestEffect
  <2> QED
    BY <2>1 DEF Tested
<1>17. ASSUME NEW r \in Rec, Wake(r) PROVE WatcherInv'
  BY <1>17 DEF Wake
<1>18. ASSUME NEW r \in Rec, Check(r) PROVE WatcherInv'
  <2>1. Checked(r)
    BY <1>18, CheckEffect
  <2>2. CASE /\ watcher' = [watcher EXCEPT ![r] = "saveOffline"]
             /\ state' = [state EXCEPT ![r] = "TIMEOUT"]
    BY <2>1, <2>2 DEF Checked
  <2>3. CASE watcher' = [watcher EXCEPT ![r] = "saveOnline"] /\ UNCHANGED state
    BY <2>1, <2>3 DEF Checked
  <2> QED
    BY <2>1, <2>2, <2>3 DEF Checked
<1>19. ASSUME NEW r \in Rec, SaveOffline(r) PROVE WatcherInv'
  BY <1>19 DEF SaveOffline, Save, TimeoutStatus, AfterSave
<1>20. ASSUME NEW r \in Rec, SaveOnline(r) PROVE WatcherInv'
  BY <1>20 DEF SaveOnline, Save, AfterSave
<1>21. CASE PollExit
  BY <1>21 DEF PollExit
<1>22. CASE UNCHANGED vars
  BY <1>22 DEF vars
<1> QED
  BY <1>1, <1>2, <1>3, <1>4, <1>5, <1>6, <1>7, <1>8, <1>9, <1>10, <1>11,
     <1>12, <1>13, <1>14, <1>15, <1>16, <1>17, <1>18, <1>19, <1>20, <1>21, <1>22
  DEF Next, NewCall, CallStep, Watch

LEMMA JoinStep == Inv /\ [Next]_vars => JoinInv'
<1> SUFFICES ASSUME Inv, [Next]_vars PROVE JoinInv'
  OBVIOUS
<1> USE ConstantsAssumption DEF Inv, TypeOK, LockInv, AllocInv, JoinInv
<1>1. CASE Restart
  BY <1>1 DEF Restart
<1>2. CASE Tick
  BY <1>2 DEF Tick
<1>3. CASE Shutdown
  BY <1>3 DEF Shutdown
<1>4. ASSUME NEW id \in Id, Register(id) PROVE JoinInv'
  BY <1>4 DEF Register, NewRecord
<1>5. ASSUME NEW id \in Id, Heartbeat(id) PROVE JoinInv'
  BY <1>5 DEF Heartbeat
<1>6. CASE InsertRow
  BY <1>6 DEF InsertRow
<1>7. CASE Spawn
  BY <1>7 DEF Spawn
<1>8. CASE Put
  BY <1>8 DEF Put
<1>9. CASE HbLock
  <2>1. HbLocked
    BY <1>9, HbLockEffect
  <2>2. CASE \E r \in 1..len : cur' = r /\ pc' = "hbStamp" /\ UNCHANGED recordVars
    BY <2>1, <2>2 DEF HbLocked
  <2>3. CASE \E id \in Id : NewRecord(id) /\ pc' = "insert"
    BY <2>1, <2>3 DEF HbLocked, NewRecord
  <2> QED
    BY <2>1, <2>2, <2>3 DEF HbLocked
<1>10. CASE HbStamp
  BY <1>10 DEF HbStamp
<1>11. CASE HbJoin
  BY <1>11 DEF HbJoin
<1>12. CASE HbAlive
  BY <1>12 DEF HbAlive
<1>13. CASE SdScan
  BY <1>13 DEF SdScan, ScanOver
<1>14. CASE SdJoin
  BY <1>14 DEF SdJoin
<1>15. CASE SdPoll
  BY <1>15 DEF SdPoll
<1>16. ASSUME NEW r \in Rec, Test(r) PROVE JoinInv'
  <2>1. Tested(r)
    BY <1>16, TestEffect
  <2> QED
    BY <2>1 DEF Tested
<1>17. ASSUME NEW r \in Rec, Wake(r) PROVE JoinInv'
  BY <1>17 DEF Wake
<1>18. ASSUME NEW r \in Rec, Check(r) PROVE JoinInv'
  <2>1. Checked(r)
    BY <1>18, CheckEffect
  <2> QED
    BY <2>1 DEF Checked
<1>19. ASSUME NEW r \in Rec, SaveOffline(r) PROVE JoinInv'
  BY <1>19 DEF SaveOffline, Save, TimeoutStatus, AfterSave
<1>20. ASSUME NEW r \in Rec, SaveOnline(r) PROVE JoinInv'
  BY <1>20 DEF SaveOnline, Save, AfterSave
<1>21. CASE PollExit
  BY <1>21 DEF PollExit
<1>22. CASE UNCHANGED vars
  BY <1>22 DEF vars
<1> QED
  BY <1>1, <1>2, <1>3, <1>4, <1>5, <1>6, <1>7, <1>8, <1>9, <1>10, <1>11,
     <1>12, <1>13, <1>14, <1>15, <1>16, <1>17, <1>18, <1>19, <1>20, <1>21, <1>22
  DEF Next, NewCall, CallStep, Watch

LEMMA ShutdownStep == Inv /\ [Next]_vars => ShutdownInv'
<1> SUFFICES ASSUME Inv, [Next]_vars PROVE ShutdownInv'
  OBVIOUS
<1> USE ConstantsAssumption DEF Inv, TypeOK, LockInv, AllocInv, ShutdownInv
<1>1. CASE Restart
  BY <1>1 DEF Restart
<1>2. CASE Tick
  BY <1>2 DEF Tick
<1>3. CASE Shutdown
  BY <1>3 DEF Shutdown
<1>4. ASSUME NEW id \in Id, Register(id) PROVE ShutdownInv'
  BY <1>4 DEF Register, NewRecord
<1>5. ASSUME NEW id \in Id, Heartbeat(id) PROVE ShutdownInv'
  BY <1>5 DEF Heartbeat
<1>6. CASE InsertRow
  BY <1>6 DEF InsertRow
<1>7. CASE Spawn
  BY <1>7 DEF Spawn
<1>8. CASE Put
  BY <1>8 DEF Put
<1>9. CASE HbLock
  <2>1. HbLocked
    BY <1>9, HbLockEffect
  <2>2. CASE \E r \in 1..len : cur' = r /\ pc' = "hbStamp" /\ UNCHANGED recordVars
    BY <2>1, <2>2 DEF HbLocked
  <2>3. CASE \E id \in Id : NewRecord(id) /\ pc' = "insert"
    BY <2>1, <2>3 DEF HbLocked, NewRecord
  <2> QED
    BY <2>1, <2>2, <2>3 DEF HbLocked
<1>10. CASE HbStamp
  BY <1>10 DEF HbStamp
<1>11. CASE HbJoin
  BY <1>11 DEF HbJoin
<1>12. CASE HbAlive
  BY <1>12 DEF HbAlive
<1>13. CASE SdScan
  <2>1. CASE ScanOver
    BY <1>13, <2>1 DEF SdScan, ScanOver
  <2>2. CASE ~ScanOver
    <3>1. cur \in 1..len
      BY <1>13, <2>2 DEF SdScan, ScanOver
    <3>2. cur \in living' \/ state[cur] = "TIMEOUT"
      BY <1>13, <2>2, <3>1 DEF SdScan
    <3>3. /\ cur' = cur + 1 /\ living \subseteq living'
          /\ pc = "sdScan" /\ UNCHANGED <<len, state, watcher, pc>>
      BY <1>13, <2>2 DEF SdScan
    <3> QED
      BY <3>1, <3>2, <3>3, SMTT(30)
  <2> QED
    BY <2>1, <2>2
<1>14. CASE SdJoin
  BY <1>14 DEF SdJoin
<1>15. CASE SdPoll
  BY <1>15 DEF SdPoll
<1>16. ASSUME NEW r \in Rec, Test(r) PROVE ShutdownInv'
  <2>1. Tested(r)
    BY <1>16, TestEffect
  <2> QED
    BY <2>1 DEF Tested
<1>17. ASSUME NEW r \in Rec, Wake(r) PROVE ShutdownInv'
  BY <1>17 DEF Wake
<1>18. ASSUME NEW r \in Rec, Check(r) PROVE ShutdownInv'
  <2>1. Checked(r)
    BY <1>18, CheckEffect
  <2>2. CASE /\ watcher' = [watcher EXCEPT ![r] = "saveOffline"]
             /\ state' = [state EXCEPT ![r] = "TIMEOUT"]
    BY <2>1, <2>2 DEF Checked
  <2>3. CASE watcher' = [watcher EXCEPT ![r] = "saveOnline"] /\ UNCHANGED state
    BY <2>1, <2>3 DEF Checked
  <2> QED
    BY <2>1, <2>2, <2>3 DEF Checked
<1>19. ASSUME NEW r \in Rec, SaveOffline(r) PROVE ShutdownInv'
  BY <1>19 DEF SaveOffline, Save, TimeoutStatus, AfterSave
<1>20. ASSUME NEW r \in Rec, SaveOnline(r) PROVE ShutdownInv'
  BY <1>20 DEF SaveOnline, Save, AfterSave
<1>21. CASE PollExit
  BY <1>21 DEF PollExit
<1>22. CASE UNCHANGED vars
  BY <1>22 DEF vars
<1> QED
  BY <1>1, <1>2, <1>3, <1>4, <1>5, <1>6, <1>7, <1>8, <1>9, <1>10, <1>11,
     <1>12, <1>13, <1>14, <1>15, <1>16, <1>17, <1>18, <1>19, <1>20, <1>21, <1>22
  DEF Next, NewCall, CallStep, Watch

LEMMA ClockStep == Inv /\ [Next]_vars => ClockInv'
<1> SUFFICES ASSUME Inv, [Next]_vars PROVE ClockInv'
  OBVIOUS
<1> USE ConstantsAssumption DEF Inv, TypeOK, ClockInv
<1>1. CASE Restart
  BY <1>1 DEF Restart
<1>2. CASE Tick
  BY <1>2 DEF Tick
<1>3. CASE Shutdown
  BY <1>3 DEF Shutdown
<1>4. ASSUME NEW id \in Id, Register(id) PROVE ClockInv'
  BY <1>4 DEF Register, NewRecord
<1>5. ASSUME NEW id \in Id, Heartbeat(id) PROVE ClockInv'
  BY <1>5 DEF Heartbeat
<1>6. CASE InsertRow
  BY <1>6 DEF InsertRow
<1>7. CASE Spawn
  BY <1>7 DEF Spawn
<1>8. CASE Put
  BY <1>8 DEF Put
<1>9. CASE HbLock
  <2>1. HbLocked
    BY <1>9, HbLockEffect
  <2>2. CASE \E r \in 1..len : cur' = r /\ pc' = "hbStamp" /\ UNCHANGED recordVars
    BY <2>1, <2>2 DEF HbLocked
  <2>3. CASE \E id \in Id : NewRecord(id) /\ pc' = "insert"
    BY <2>1, <2>3 DEF HbLocked, NewRecord
  <2> QED
    BY <2>1, <2>2, <2>3 DEF HbLocked
<1>10. CASE HbStamp
  BY <1>10 DEF HbStamp
<1>11. CASE HbJoin
  BY <1>11 DEF HbJoin
<1>12. CASE HbAlive
  BY <1>12 DEF HbAlive
<1>13. CASE SdScan
  BY <1>13 DEF SdScan, ScanOver
<1>14. CASE SdJoin
  BY <1>14 DEF SdJoin
<1>15. CASE SdPoll
  BY <1>15 DEF SdPoll
<1>16. ASSUME NEW r \in Rec, Test(r) PROVE ClockInv'
  <2>1. Tested(r)
    BY <1>16, TestEffect
  <2> QED
    BY <2>1 DEF Tested
<1>17. ASSUME NEW r \in Rec, Wake(r) PROVE ClockInv'
  BY <1>17 DEF Wake
<1>18. ASSUME NEW r \in Rec, Check(r) PROVE ClockInv'
  <2>1. Checked(r)
    BY <1>18, CheckEffect
  <2> QED
    BY <2>1 DEF Checked
<1>19. ASSUME NEW r \in Rec, SaveOffline(r) PROVE ClockInv'
  BY <1>19 DEF SaveOffline, Save, TimeoutStatus, AfterSave
<1>20. ASSUME NEW r \in Rec, SaveOnline(r) PROVE ClockInv'
  BY <1>20 DEF SaveOnline, Save, AfterSave
<1>21. CASE PollExit
  BY <1>21 DEF PollExit
<1>22. CASE UNCHANGED vars
  BY <1>22 DEF vars
<1> QED
  BY <1>1, <1>2, <1>3, <1>4, <1>5, <1>6, <1>7, <1>8, <1>9, <1>10, <1>11,
     <1>12, <1>13, <1>14, <1>15, <1>16, <1>17, <1>18, <1>19, <1>20, <1>21, <1>22
  DEF Next, NewCall, CallStep, Watch

------------------------------------------------------------------------------
\* Inv holds in every reachable state.
THEOREM Invariance == Spec => []Inv
<1>1. Inv /\ [Next]_vars => Inv'
  BY TypeStep, LockStep, AllocStep, WatcherStep, JoinStep, ShutdownStep, ClockStep
  DEF Inv
<1> QED
  BY InitInv, <1>1, PTL DEF Spec

\* Every variable keeps its type: in particular no record is ever created
\* beyond the one after the last, and no save writes the row of no device.
THEOREM TypeCorrectness == Spec => []TypeOK
  BY Invariance, PTL DEF Inv

\* pthread_join under the lock (device_manager.c:248) never waits for a thread
\* that wants the lock.
THEOREM JoinUnderLockIsSafe == Spec => []JoinSafe
<1>1. Inv => JoinSafe
  <2> SUFFICES ASSUME Inv, pc = "hbJoin"
               PROVE  state[cur] = "TIMEOUT" /\ watcher[cur] \in {"test", "done"}
    BY DEF JoinSafe
  <2>1. state[cur] = "TIMEOUT"
    BY DEF Inv, JoinInv
  <2>2. cur \in Rec /\ watcher[cur] # "none"
    BY ConstantsAssumption DEF Inv, TypeOK, AllocInv
  <2>3. watcher[cur] \notin {"sleep", "lock", "saveOnline"}
    BY <2>1, <2>2 DEF Inv, WatcherInv
  <2>4. watcher[cur] # "saveOffline"
    BY <2>2 DEF Inv, LockInv
  <2> QED
    BY <2>1, <2>2, <2>3, <2>4 DEF Inv, TypeOK
<1> QED
  BY Invariance, <1>1, PTL

\* After Shutdown the only watchers left are on their way out of their loop.
THEOREM OnlyLeavingWatchersRemain == Spec => []FreedWindow
<1>1. Inv => FreedWindow
  <2> SUFFICES ASSUME Inv, pc = "stopped", NEW r \in 1..len, watcher[r] # "done"
               PROVE  state[r] = "TIMEOUT" /\ watcher[r] \in {"saveOffline", "test"}
    BY DEF FreedWindow
  <2>1. state[r] = "TIMEOUT"
    BY DEF Inv, ShutdownInv
  <2>2. r \in Rec /\ watcher[r] # "none"
    BY ConstantsAssumption DEF Inv, TypeOK, AllocInv
  <2>3. watcher[r] \notin {"sleep", "lock", "saveOnline"}
    BY <2>1, <2>2 DEF Inv, WatcherInv
  <2> QED
    BY <2>1, <2>2, <2>3 DEF Inv, TypeOK
<1> QED
  BY Invariance, <1>1, PTL

------------------------------------------------------------------------------
LEMMA SmallModulo ==
  ASSUME NEW a \in Nat, NEW n \in Nat, a < n
  PROVE  a % n = a
  OBVIOUS

\* A device is declared dead only after too long a silence, or because the
\* clock was read before a heartbeat that was taken in first.
THEOREM TimeoutsAreJustified == Spec => TimeoutJustified
<1>1. ASSUME Inv, [Next]_vars, NEW r \in Rec, state[r] = "ALIVE", state'[r] = "TIMEOUT"
      PROVE  Check(r) /\ Stale(r)
  <2> USE DEF Inv, TypeOK
  <2>1. CASE UNCHANGED vars
    BY <1>1, <2>1 DEF vars
  <2>2. ASSUME NEW q \in Rec, Watch(q) PROVE Check(r) /\ Stale(r)
    BY <1>1, <2>2 DEF Watch, Test, Wake, Check, SaveOffline, SaveOnline, Save
  <2>3. CASE CallStep
    <3>1. CASE HbLock
      BY <1>1, <3>1 DEF HbLock, NewRecord
    <3> QED
      BY <1>1, <2>3, <3>1
      DEF CallStep, InsertRow, Spawn, Put, HbStamp, HbJoin, HbAlive, SdScan,
          SdJoin, SdPoll
  <2>4. CASE NewCall
    BY <1>1, <2>4 DEF NewCall, Shutdown, Register, NewRecord, Heartbeat
  <2>5. CASE Restart \/ Tick \/ PollExit
    BY <1>1, <2>5 DEF Restart, Tick, PollExit
  <2> QED
    BY <1>1, <2>1, <2>2, <2>3, <2>4, <2>5 DEF Next
<1>2. ASSUME Inv, NEW r \in Rec, Stale(r), ~(currTime[r] < lastSeen[r])
      PROVE  now - lastSeen[r] > HeartBeat
  <2>1. /\ currTime[r] - lastSeen[r] \in Nat
        /\ currTime[r] - lastSeen[r] < Wrap
        /\ currTime[r] <= now
        /\ Wrap \in Nat
        /\ now \in Int /\ lastSeen[r] \in Int /\ currTime[r] \in Int
    BY <1>2, ConstantsAssumption, SMTT(30) DEF Inv, TypeOK, ClockInv
  <2>2. Elapsed(r) = currTime[r] - lastSeen[r]
    BY <2>1, SmallModulo DEF Elapsed
  <2>3. HeartBeat \in Int
    BY ConstantsAssumption
  <2> QED
    BY <1>2, <2>1, <2>2, <2>3 DEF Stale
<1>3. Inv /\ [Next]_vars =>
        [ \A r \in Rec :
            state[r] = "ALIVE" /\ state'[r] = "TIMEOUT" =>
              now - lastSeen[r] > HeartBeat \/ currTime[r] < lastSeen[r] ]_vars
  BY <1>1, <1>2
<1> QED
  BY Invariance, <1>3, PTL DEF Spec, TimeoutJustified

------------------------------------------------------------------------------
Unshared(r) == \A q \in Rec \ {r} : devId[q] # devId[r]

\* StatusTruth, from the moment the watcher has tried to save the timeout,
\* and for a record that is not yet in the array, too.
StatusInv ==
  /\ pc \in {"insert", "spawn"} => state[cur] = "ALIVE"
  /\ \A r \in Rec :
       state[r] = "TIMEOUT" /\ watcher[r] \in {"test", "done"} /\ Unshared(r)
         => row[devId[r]] # "Online" \/ devId[r] \in missed

LEMMA StatusKept ==
  ASSUME StatusInv, UNCHANGED <<devId, state, watcher, row, missed>>,
         pc' \in {"insert", "spawn"} => pc \in {"insert", "spawn"} /\ cur' = cur
  PROVE  StatusInv'
  BY DEF StatusInv, Unshared

\* A new record takes an id from nobody: it had none.
LEMMA StatusOfNew ==
  ASSUME Inv, StatusInv, NEW id \in Id, NewRecord(id), pc \notin Registering,
         UNCHANGED <<watcher, row, missed>>
  PROVE  StatusInv'
<1>1. len + 1 \in Rec /\ cur' = len + 1
  BY ConstantsAssumption DEF NewRecord, Inv, TypeOK
<1>2. state' = [state EXCEPT ![len + 1] = "ALIVE"] /\ devId' = [devId EXCEPT ![len + 1] = id]
      /\ state \in [Rec -> {"ALIVE", "TIMEOUT"}] /\ devId \in [Rec -> Id \cup {NoId}]
  BY DEF NewRecord, Inv, TypeOK
<1>3. devId[len + 1] = NoId
  BY <1>1 DEF Inv, TypeOK, AllocInv
<1>4. ASSUME NEW r \in Rec, state'[r] = "TIMEOUT",
             watcher[r] \in {"test", "done"}, Unshared(r)'
      PROVE  row[devId'[r]] # "Online" \/ devId'[r] \in missed
  <2>1. r # len + 1
    BY <1>1, <1>2, <1>4
  <2>2. state[r] = "TIMEOUT" /\ devId'[r] = devId[r]
    BY <1>2, <1>4, <2>1
  <2>3. devId[r] # NoId
    BY <1>4, SavingHasId, ConstantsAssumption DEF Inv
  <2>4. Unshared(r)
    <3> SUFFICES ASSUME NEW q \in Rec \ {r} PROVE devId[q] # devId[r]
      BY DEF Unshared
    <3>1. CASE q = len + 1
      BY <1>3, <2>3, <3>1
    <3>2. CASE q # len + 1
      BY <1>2, <1>4, <2>2, <3>2 DEF Unshared
    <3> QED
      BY <3>1, <3>2
  <2> QED
    BY <1>4, <2>2, <2>4 DEF StatusInv
<1>5. state'[cur'] = "ALIVE"
  BY <1>1, <1>2
<1> QED
  BY <1>4, <1>5 DEF StatusInv

\* Where only the watcher of one record moves, and to no place that counts.
LEMMA StatusOfMove ==
  ASSUME StatusInv, NEW r \in Rec, NEW place \in WatcherPCs,
         watcher \in [Rec -> WatcherPCs],
         watcher' = [watcher EXCEPT ![r] = place],
         place \in {"test", "done"} =>
           state[r] = "ALIVE" \/ watcher[r] \in {"test", "done"},
         UNCHANGED <<devId, state, row, missed, cur>>,
         pc' \in {"insert", "spawn"} => pc \in {"insert", "spawn"}
  PROVE  StatusInv'
<1>1. ASSUME NEW q \in Rec, state[q] = "TIMEOUT",
             watcher'[q] \in {"test", "done"}
      PROVE  watcher[q] \in {"test", "done"}
  BY <1>1
<1> QED
  BY <1>1 DEF StatusInv, Unshared

\* A saved status is that of one record; no other one with its id counts.
LEMMA StatusOfSave ==
  ASSUME Inv, StatusInv, NEW r \in Rec, watcher[r] # "none",
         NEW status \in {"Online", "Offline"}, Save(r, status),
         status = "Online" => state[r] = "ALIVE"
  PROVE  StatusInv'
<1>1. devId[r] \in Id
  BY SavingHasId DEF Inv
<1>2. /\ row \in [Id -> {"None", "Online", "Offline"}]
      /\ watcher \in [Rec -> WatcherPCs]
  BY DEF Inv, TypeOK
<1>3. UNCHANGED <<devId, state, pc, cur>> /\ watcher' = [watcher EXCEPT ![r] = "test"]
  BY DEF Save, AfterSave
<1>4. ASSUME NEW q \in Rec, state[q] = "TIMEOUT",
             watcher'[q] \in {"test", "done"}, Unshared(q)
      PROVE  row'[devId[q]] # "Online" \/ devId[q] \in missed'
  <2>1. CASE q = r
    <3>1. status = "Offline"
      BY <1>4, <2>1
    <3>2. CASE missed' = missed \cup {devId[r]}
      BY <2>1, <3>2
    <3>3. CASE row' = IF row[devId[r]] = "None" THEN row
                      ELSE [row EXCEPT ![devId[r]] = status]
      BY <1>1, <1>2, <2>1, <3>1, <3>3
    <3> QED
      BY <3>2, <3>3 DEF Save
  <2>2. CASE q # r
    <3>1. devId[q] # devId[r]
      BY <1>4, <2>2 DEF Unshared
    <3>2. watcher[q] \in {"test", "done"}
      BY <1>2, <1>3, <1>4, <2>2
    <3>3. row[devId[q]] # "Online" \/ devId[q] \in missed
      BY <1>4, <3>2 DEF StatusInv
    <3>4. row'[devId[q]] = row[devId[q]]
      <4>1. devId[q] \in Id
        BY <3>2, SavingHasId DEF Inv
      <4> QED
        BY <1>1, <1>2, <3>1, <4>1 DEF Save
    <3>5. devId[q] \in missed => devId[q] \in missed'
      BY <3>1 DEF Save
    <3> QED
      BY <3>3, <3>4, <3>5
  <2> QED
    BY <2>1, <2>2
<1> QED
  BY <1>3, <1>4 DEF StatusInv, Unshared

LEMMA StatusStep == Inv /\ StatusInv /\ [Next]_vars => StatusInv'
<1> SUFFICES ASSUME Inv, StatusInv, [Next]_vars PROVE StatusInv'
  OBVIOUS
<1> USE ConstantsAssumption
<1>t. watcher \in [Rec -> WatcherPCs] /\ state \in [Rec -> {"ALIVE", "TIMEOUT"}]
  BY DEF Inv, TypeOK
<1>1. CASE Restart
  BY <1>1 DEF Restart, StatusInv
<1>2. CASE Tick
  BY <1>2, StatusKept DEF Tick
<1>3. CASE Shutdown
  BY <1>3, StatusKept DEF Shutdown
<1>4. ASSUME NEW id \in Id, Register(id) PROVE StatusInv'
  <2>1. NewRecord(id) /\ pc = "idle" /\ UNCHANGED <<watcher, row, missed>>
    BY <1>4 DEF Register
  <2> QED
    BY <2>1, StatusOfNew
<1>5. ASSUME NEW id \in Id, Heartbeat(id) PROVE StatusInv'
  BY <1>5, StatusKept DEF Heartbeat
<1>6. CASE InsertRow
  <2>1. /\ pc = "insert" /\ pc' = "spawn"
        /\ UNCHANGED <<devId, state, watcher, missed, cur>>
        /\ row' = row \/ row' = [row EXCEPT ![devId[cur]] = "Online"]
    BY <1>6 DEF InsertRow
  <2>2. cur \in Rec /\ state[cur] = "ALIVE"
    BY <2>1 DEF StatusInv, Inv, AllocInv
  <2>3. ASSUME NEW r \in Rec, state[r] = "TIMEOUT",
               watcher[r] \in {"test", "done"}, Unshared(r)
        PROVE  row'[devId[r]] = row[devId[r]]
    <3>1. devId[r] # devId[cur]
      BY <2>2, <2>3 DEF Unshared
    <3>2. devId[r] \in Id
      BY <2>3, SavingHasId DEF Inv
    <3> QED
      BY <2>1, <3>1, <3>2 DEF Inv, TypeOK
  <2> QED
    BY <2>1, <2>2, <2>3 DEF StatusInv, Unshared
<1>7. CASE Spawn
  <2>1. /\ pc = "spawn" /\ watcher' = [watcher EXCEPT ![cur] = "test"]
        /\ pc' = "put" /\ UNCHANGED <<devId, state, row, missed, cur>>
    BY <1>7 DEF Spawn
  <2>2. cur \in Rec /\ state[cur] = "ALIVE"
    BY <2>1 DEF StatusInv, Inv, AllocInv
  <2> QED
    BY <1>t, <2>1, <2>2, StatusOfMove
<1>8. CASE Put
  <2>1. UNCHANGED <<devId, state, watcher, row, missed>> /\ pc' \in {"hbStamp", "idle"}
    BY <1>8 DEF Put
  <2> QED
    BY <2>1, StatusKept
<1>9. CASE HbLock
  <2>1. HbLocked
    BY <1>9, HbLockEffect DEF Inv
  <2>2. CASE \E r \in 1..len : cur' = r /\ pc' = "hbStamp" /\ UNCHANGED recordVars
    BY <2>1, <2>2, StatusKept DEF HbLocked
  <2>3. ASSUME NEW id \in Id, NewRecord(id) PROVE StatusInv'
    <3>1. pc = "hbLock" /\ UNCHANGED <<watcher, row, missed>>
      BY <1>9 DEF HbLock
    <3> QED
      BY <2>3, <3>1, StatusOfNew
  <2> QED
    BY <2>1, <2>2, <2>3 DEF HbLocked
<1>10. CASE HbStamp
  <2>1. UNCHANGED <<devId, state, watcher, row, missed>> /\ pc' \in {"hbJoin", "hbAlive"}
    BY <1>10 DEF HbStamp
  <2> QED
    BY <2>1, StatusKept
<1>11. CASE HbJoin
  <2>1. /\ watcher[cur] = "done" /\ watcher' = [watcher EXCEPT ![cur] = "test"]
        /\ pc' = "hbAlive" /\ UNCHANGED <<devId, state, row, missed, cur>>
    BY <1>11 DEF HbJoin
  <2>2. cur \in Rec
    BY <1>11 DEF HbJoin, Inv, TypeOK, AllocInv
  <2> QED
    BY <1>t, <2>1, <2>2, StatusOfMove
<1>12. CASE HbAlive
  <2>1. /\ state' = [state EXCEPT ![cur] = "ALIVE"] /\ pc' = "idle"
        /\ UNCHANGED <<devId, watcher, row, missed>>
    BY <1>12 DEF HbAlive
  <2>2. \A r \in Rec : state'[r] = "TIMEOUT" => state[r] = "TIMEOUT"
    BY <1>t, <2>1
  <2> QED
    BY <2>1, <2>2 DEF StatusInv, Unshared
<1>13. CASE SdScan
  BY <1>13, StatusKept DEF SdScan
<1>14. CASE SdJoin
  BY <1>14, StatusKept DEF SdJoin
<1>15. CASE SdPoll
  BY <1>15, StatusKept DEF SdPoll
<1>16. ASSUME NEW r \in Rec, Test(r) PROVE StatusInv'
  <2>1. PICK place \in {"sleep", "done"} : watcher' = [watcher EXCEPT ![r] = place]
    BY <1>16 DEF Test
  <2>2. watcher[r] = "test" /\ UNCHANGED <<devId, state, row, missed, cur, pc>>
    BY <1>16 DEF Test
  <2> QED
    BY <1>t, <2>1, <2>2, StatusOfMove
<1>17. ASSUME NEW r \in Rec, Wake(r) PROVE StatusInv'
  <2>1. /\ watcher' = [watcher EXCEPT ![r] = "lock"]
        /\ UNCHANGED <<devId, state, row, missed, cur, pc>>
    BY <1>17 DEF Wake
  <2> QED
    BY <1>t, <2>1, StatusOfMove
<1>18. ASSUME NEW r \in Rec, Check(r) PROVE StatusInv'
  <2>1. UNCHANGED <<devId, row, missed, cur, pc>> /\ watcher[r] = "lock"
    BY <1>18 DEF Check
  <2>2. CASE watcher' = [watcher EXCEPT ![r] = "saveOnline"] /\ UNCHANGED state
    BY <1>t, <2>1, <2>2, StatusOfMove
  <2>3. CASE /\ watcher' = [watcher EXCEPT ![r] = "saveOffline"]
             /\ state' = [state EXCEPT ![r] = "TIMEOUT"]
    <3>1. \A q \in Rec : state'[q] = "TIMEOUT" /\ watcher'[q] \in {"test", "done"}
            => state[q] = "TIMEOUT" /\ watcher[q] \in {"test", "done"}
      BY <1>t, <2>3
    <3>2. pc \in {"insert", "spawn"} => cur # r
      <4>1. pc \in {"insert", "spawn"} => watcher[cur] = "none"
        BY DEF Inv, TypeOK, AllocInv
      <4> QED
        BY <2>1, <4>1
    <3>3. pc \in {"insert", "spawn"} => state'[cur] = "ALIVE"
      BY <1>t, <2>3, <3>2 DEF StatusInv, Inv, AllocInv
    <3> QED
      BY <2>1, <3>1, <3>3 DEF StatusInv, Unshared
  <2> QED
    BY <1>18, <2>2, <2>3, CheckEffect DEF Checked
<1>19. ASSUME NEW r \in Rec, SaveOffline(r) PROVE StatusInv'
  BY <1>19, StatusOfSave DEF SaveOffline, TimeoutStatus
<1>20. ASSUME NEW r \in Rec, SaveOnline(r) PROVE StatusInv'
  <2>1. watcher[r] = "saveOnline" /\ Save(r, "Online")
    BY <1>20 DEF SaveOnline
  <2>2. state[r] = "ALIVE"
    BY <2>1 DEF Inv, WatcherInv
  <2> QED
    BY <2>1, <2>2, StatusOfSave
<1>21. CASE PollExit
  BY <1>21, StatusKept DEF PollExit
<1>22. CASE UNCHANGED vars
  BY <1>22, StatusKept DEF vars
<1> QED
  BY <1>1, <1>2, <1>3, <1>4, <1>5, <1>6, <1>7, <1>8, <1>9, <1>10, <1>11,
     <1>12, <1>13, <1>14, <1>15, <1>16, <1>17, <1>18, <1>19, <1>20, <1>21, <1>22
  DEF Next, NewCall, CallStep, Watch

\* The row of a timed-out device whose watcher has gone does not say Online,
\* unless the last UPDATE failed.
THEOREM StatusIsTrue == Spec => []StatusTruth
<1>1. Init => StatusInv
  BY DEF Init, Started, StatusInv
<1>2. Inv /\ StatusInv => StatusTruth
  BY ConstantsAssumption DEF Inv, TypeOK, StatusInv, StatusTruth, Unshared
<1> QED
  BY Invariance, StatusStep, <1>1, <1>2, PTL DEF Spec

------------------------------------------------------------------------------
(* Shutdown: what its joins wait for comes nearer with every step.             *)

\* Only Shutdown clears should_watch, and nothing returns from it.
StopInv == ~shouldWatch => pc \in ShuttingDown

LEMMA StopStep == TypeOK /\ StopInv /\ [Next]_vars => StopInv'
<1> SUFFICES ASSUME TypeOK, StopInv, [Next]_vars PROVE StopInv'
  OBVIOUS
<1> USE DEF StopInv
<1>1. CASE Restart
  BY <1>1 DEF Restart
<1>2. CASE Tick \/ PollExit
  BY <1>2 DEF Tick, PollExit
<1>3. CASE NewCall
  BY <1>3 DEF NewCall, Shutdown, Register, Heartbeat
<1>4. CASE CallStep
  BY <1>4 DEF CallStep, InsertRow, Spawn, Put, HbLock, HbStamp, HbJoin, HbAlive, SdScan, SdJoin, SdPoll
<1>5. ASSUME NEW r \in Rec, Watch(r) PROVE StopInv'
  BY <1>5 DEF Watch, Test, Wake, Check, SaveOffline, SaveOnline, Save
<1>6. CASE UNCHANGED vars
  BY <1>6 DEF vars
<1> QED
  BY <1>1, <1>2, <1>3, <1>4, <1>5, <1>6 DEF Next

\* A watcher that takes a step during Shutdown has one less before it.
LEMMA WatcherLeaves ==
  ASSUME TypeOK, NEW r \in Rec, Watch(r), ~shouldWatch
  PROVE  /\ StepsLeft(r)' < StepsLeft(r)
         /\ \A q \in Rec : q # r => watcher'[q] = watcher[q]
<1>1. /\ \/ watcher[r] = "test" /\ watcher'[r] = "done"
         \/ watcher[r] = "sleep" /\ watcher'[r] = "lock"
         \/ watcher[r] = "lock" /\ watcher'[r] \in Saving
         \/ watcher[r] \in Saving /\ watcher'[r] = "test"
      /\ \A q \in Rec : q # r => watcher'[q] = watcher[q]
  BY DEF TypeOK, Watch, Test, KeepWatching, Wake, Check, SaveOffline, SaveOnline, Save, AfterSave
<1> QED BY <1>1 DEF StepsLeft

LEMMA OthersKeepSteps ==
  ASSUME NEW r \in Rec, watcher'[r] = watcher[r], TypeOK
  PROVE  StepsLeft(r)' <= StepsLeft(r)
<1>1. StepsLeft(r)' = StepsLeft(r)
  BY DEF StepsLeft
<1>2. StepsLeft(r) \in Int
  BY DEF StepsLeft, TypeOK
<1> QED BY <1>1, <1>2

\* What ShutdownCompletes rests on: after should_watch is cleared no watcher is
\* created, none sleeps again, each is at most four steps from its end, and the
\* thread that joins them holds nothing they need.
THEOREM ShutdownMovesOn == Spec => ShutdownProgresses
<1>1. ASSUME Inv, StopInv, [Next]_vars, ~shouldWatch, ~shouldWatch'
      PROVE  /\ lock # Caller
             /\ \A r \in Rec : /\ StepsLeft(r)' <= StepsLeft(r)
                               /\ Watch(r) => StepsLeft(r)' < StepsLeft(r)
  <2>1. pc \in ShuttingDown /\ TypeOK
    BY <1>1 DEF StopInv, Inv
  <2>2. lock # Caller
    BY <1>1, <2>1 DEF Inv, LockInv
  <2>3. ASSUME NEW r \in Rec, Watch(r) PROVE StepsLeft(r)' < StepsLeft(r)
    BY <1>1, <2>1, <2>3, WatcherLeaves
  <2>4. ASSUME NEW r \in Rec, ~Watch(r) PROVE watcher'[r] = watcher[r]
    <3>1. CASE \E q \in Rec : Watch(q)
      BY <1>1, <2>1, <2>4, <3>1, WatcherLeaves
    <3>2. CASE Tick \/ PollExit \/ UNCHANGED vars
      BY <3>2 DEF Tick, PollExit, vars
    <3>3. CASE NewCall \/ CallStep
      BY <2>1, <3>3 DEF NewCall, Shutdown, Register, Heartbeat, CallStep, InsertRow, Spawn, Put,
                        HbLock, HbStamp, HbJoin, HbAlive, SdScan, SdJoin, SdPoll
    <3>4. CASE Restart
      BY <1>1, <3>4 DEF Restart
    <3> QED BY <1>1, <3>1, <3>2, <3>3, <3>4 DEF Next
  <2>5. ASSUME NEW r \in Rec PROVE StepsLeft(r)' <= StepsLeft(r)
    <3>1. TypeOK'
      BY <1>1, TypeStep
    <3>2. watcher[r] \in WatcherPCs /\ watcher'[r] \in WatcherPCs
      BY <2>1, <3>1 DEF TypeOK
    <3>3. StepsLeft(r) \in Int /\ StepsLeft(r)' \in Int
      BY <3>2 DEF StepsLeft
    <3> QED BY <2>1, <2>3, <2>4, <3>3, OthersKeepSteps
  <2> QED BY <2>2, <2>3, <2>5
<1>2. Inv /\ StopInv /\ [Next]_vars => (Inv /\ StopInv)'
  BY TypeStep, LockStep, AllocStep, WatcherStep, JoinStep, ShutdownStep, ClockStep, StopStep DEF Inv
<1>3. Init => Inv /\ StopInv
  BY InitInv DEF Init, Started, StopInv
<1> QED
  BY <1>1, <1>2, <1>3, PTL DEF Spec, ShutdownProgresses

------------------------------------------------------------------------------
(* The refinement of DeviceSet.                                                *)

\* A device that ReportHeartbeat is registering again is new and ALIVE: the
\* lock keeps its watcher from saying otherwise until it is in the array.
ReadmitInv ==
  lock = Caller /\ pc \in Registering =>
    /\ state[cur] = "ALIVE"
    /\ \A r \in 1..len : devId[r] # devId[cur]

LEMMA ReadmitStep == Inv /\ ReadmitInv /\ [Next]_vars => ReadmitInv'
<1> SUFFICES ASSUME Inv, ReadmitInv, [Next]_vars PROVE ReadmitInv'
  OBVIOUS
<1> USE DEF Inv, TypeOK
<1>1. CASE Restart
  BY <1>1 DEF Restart, ReadmitInv
<1>2. CASE Tick \/ Shutdown \/ PollExit \/ \E id \in Id : Heartbeat(id)
  BY <1>2 DEF Tick, Shutdown, PollExit, Heartbeat, ReadmitInv
<1>3. ASSUME NEW id \in Id, Register(id) PROVE ReadmitInv'
  BY <1>3 DEF Register, LockInv, ReadmitInv
<1>4. CASE InsertRow \/ Spawn \/ Put \/ HbStamp \/ HbJoin \/ HbAlive
           \/ SdScan \/ SdJoin \/ SdPoll
  BY <1>4 DEF InsertRow, Spawn, Put, HbStamp, HbJoin, HbAlive, SdScan, SdJoin,
              SdPoll, ReadmitInv
<1>5. CASE HbLock
  <2>1. CASE pc' = "hbStamp"
    BY <2>1 DEF ReadmitInv
  <2>2. CASE ~Known(arg) /\ NewRecord(arg) /\ UNCHANGED len
    <3>1. cur' = len + 1 /\ devId' = [devId EXCEPT ![len + 1] = arg]
          /\ state' = [state EXCEPT ![len + 1] = "ALIVE"] /\ len + 1 \in Rec
      BY <2>2, ConstantsAssumption DEF NewRecord
    <3>2. state'[len + 1] = "ALIVE" /\ devId'[len + 1] = arg
      BY <3>1
    <3>3. \A r \in 1..len : devId'[r] # arg
      BY <2>2, <3>1 DEF Known
    <3> QED BY <2>2, <3>1, <3>2, <3>3 DEF ReadmitInv
  <2> QED BY <1>5, <2>1, <2>2 DEF HbLock
<1>6. ASSUME NEW r \in Rec, Watch(r) PROVE ReadmitInv'
  <2>1. CASE Test(r) \/ Wake(r)
    BY <2>1 DEF Test, Wake, ReadmitInv
  <2>2. CASE Check(r) \/ SaveOffline(r) \/ SaveOnline(r)
    <3>1. lock' # Caller
      BY <2>2 DEF Check, SaveOffline, SaveOnline, Save
    <3> QED BY <3>1 DEF ReadmitInv
  <2> QED BY <1>6, <2>1, <2>2 DEF Watch
<1>7. CASE UNCHANGED vars
  BY <1>7 DEF vars, ReadmitInv
<1> QED
  BY <1>1, <1>2, <1>3, <1>4, <1>5, <1>6, <1>7 DEF Next, NewCall, CallStep

LEMMA SetInit == Init => S!Init
BY ConstantsAssumption
DEF Init, Started, S!Init, S!NoCall, KnownIds, AliveIds, CallUnderWay, InCall

\* Steps that the UDP server cannot see: neither the array nor the call changes.
LEMMA SetStutters ==
  ASSUME UNCHANGED <<KnownIds, AliveIds, CallUnderWay>>
  PROVE  UNCHANGED S!vars
BY DEF S!vars

\* A watcher takes or releases the lock only while the caller does not hold it.
LEMMA CallStays ==
  ASSUME UNCHANGED <<pc, arg, cur, devId>>, lock = Caller <=> lock' = Caller
  PROVE  UNCHANGED CallUnderWay
BY DEF CallUnderWay, Operation, InCall

\* A record that is not in the array yet changes nothing there.
LEMMA NewIsUnseen ==
  ASSUME Inv, NEW id, NewRecord(id), UNCHANGED len
  PROVE  UNCHANGED <<KnownIds, AliveIds>>
<1>1. \A r \in 1..len : devId'[r] = devId[r] /\ state'[r] = state[r]
  BY ConstantsAssumption DEF NewRecord, Inv, TypeOK
<1> QED BY <1>1 DEF KnownIds, AliveIds

LEMMA PutAdds ==
  ASSUME Inv, Put
  PROVE  /\ KnownIds' = KnownIds \cup {devId[cur]}
         /\ AliveIds' = IF state[cur] = "ALIVE" THEN AliveIds \cup {devId[cur]}
                                                ELSE AliveIds
<1>1. /\ 1..len' = (1..len) \cup {cur} /\ UNCHANGED <<devId, state>>
  BY DEF Put, Inv, AllocInv, TypeOK
<1>2. KnownIds' = KnownIds \cup {devId[cur]}
  BY <1>1 DEF KnownIds
<1>3. {q \in 1..len' : state[q] = "ALIVE"} =
        {q \in 1..len : state[q] = "ALIVE"} \cup
        (IF state[cur] = "ALIVE" THEN {cur} ELSE {})
  BY <1>1
<1>4. AliveIds' = IF state[cur] = "ALIVE" THEN AliveIds \cup {devId[cur]} ELSE AliveIds
  BY <1>1, <1>3 DEF AliveIds
<1> QED BY <1>2, <1>4

LEMMA CallerRefines ==
  ASSUME Inv, ReadmitInv, CallStep
  PROVE  S!Next \/ UNCHANGED S!vars
<1> USE DEF Inv
<1>1. CASE InsertRow \/ Spawn \/ HbStamp \/ HbJoin
  <2>1. UNCHANGED <<KnownIds, AliveIds>>
    BY <1>1 DEF InsertRow, Spawn, HbStamp, HbJoin, KnownIds, AliveIds
  <2>2. UNCHANGED CallUnderWay
    BY <1>1 DEF InsertRow, Spawn, HbStamp, HbJoin, CallUnderWay, InCall, Operation
  <2> QED BY <2>1, <2>2, SetStutters
<1>2. CASE SdScan \/ SdJoin \/ SdPoll
  <2>1. UNCHANGED <<KnownIds, AliveIds>>
    BY <1>2 DEF SdScan, SdJoin, SdPoll, KnownIds, AliveIds
  <2>2. UNCHANGED CallUnderWay
    BY <1>2 DEF SdScan, SdJoin, SdPoll, CallUnderWay, InCall
  <2> QED BY <2>1, <2>2, SetStutters
<1>3. CASE Put
  <2>1. CallUnderWay = [op |-> Operation, id |-> devId[cur]]
    BY <1>3 DEF Put, CallUnderWay, InCall
  <2>2. CASE lock = Caller
    <3>1. CallUnderWay' = CallUnderWay
      BY <1>3, <2>1, <2>2 DEF Put, CallUnderWay, InCall, Operation
    <3>2. devId[cur] \notin KnownIds /\ state[cur] = "ALIVE"
      BY <1>3, <2>2 DEF Put, ReadmitInv, KnownIds
    <3>3. S!Readmitted
      BY <1>3, <2>1, <2>2, <3>1, <3>2, PutAdds DEF S!Readmitted, Operation
    <3> QED BY <3>3 DEF S!Next
  <2>3. CASE lock # Caller
    <3>1. CallUnderWay' = S!NoCall
      BY <1>3, <2>3 DEF Put, CallUnderWay, InCall, S!NoCall
    <3>2. S!Registered
      BY <1>3, <2>1, <2>3, <3>1, PutAdds DEF S!Registered, Operation
    <3> QED BY <3>2 DEF S!Next
  <2> QED BY <2>2, <2>3
<1>4. CASE HbLock
  <2>0. CallUnderWay = [op |-> "heartbeat", id |-> arg] /\ lock' = Caller
    BY <1>4 DEF HbLock, CallUnderWay, InCall
  <2>1. CASE \E r \in Rec : FirstWith(r, arg) /\ cur' = r /\ pc' = "hbStamp" /\ UNCHANGED recordVars
    <3>1. CallUnderWay' = [op |-> "heartbeat", id |-> arg]
      BY <1>4, <2>0, <2>1 DEF CallUnderWay, InCall, Operation, FirstWith
    <3>2. UNCHANGED <<KnownIds, AliveIds>>
      BY <1>4, <2>1 DEF HbLock, KnownIds, AliveIds
    <3> QED BY <2>0, <3>1, <3>2, SetStutters
  <2>2. CASE ~Known(arg) /\ NewRecord(arg) /\ pc' = "insert"
    <3>1. devId'[cur'] = arg
      BY <2>2, ConstantsAssumption DEF NewRecord, TypeOK
    <3>2. CallUnderWay' = [op |-> "heartbeat", id |-> arg]
      BY <2>0, <2>2, <3>1 DEF CallUnderWay, InCall, Operation
    <3>3. UNCHANGED <<KnownIds, AliveIds>>
      BY <1>4, <2>2, NewIsUnseen DEF HbLock
    <3> QED BY <2>0, <3>2, <3>3, SetStutters
  <2> QED BY <1>4, <2>1, <2>2 DEF HbLock
<1>5. CASE HbAlive
  <2>0. lock = Caller /\ pc = "hbAlive" /\ pc' = "idle"
    BY <1>5 DEF HbAlive, LockInv
  <2>1. CallUnderWay = [op |-> "heartbeat", id |-> devId[cur]] /\ CallUnderWay' = S!NoCall
    BY <2>0 DEF CallUnderWay, InCall, Operation, S!NoCall
  <2>2. cur \in 1..len /\ UNCHANGED <<len, devId>> /\ state' = [state EXCEPT ![cur] = "ALIVE"]
    BY <1>5 DEF HbAlive, AllocInv
  <2>3. {q \in 1..len : state'[q] = "ALIVE"} = {q \in 1..len : state[q] = "ALIVE"} \cup {cur}
    <3>1. \A q \in 1..len : state'[q] = IF q = cur THEN "ALIVE" ELSE state[q]
      BY <2>2, ConstantsAssumption DEF TypeOK
    <3> QED BY ONLY <2>2, <3>1
  <2>4. AliveIds' = AliveIds \cup {devId[cur]} /\ KnownIds' = KnownIds /\ devId[cur] \in KnownIds
    BY <2>2, <2>3 DEF AliveIds, KnownIds
  <2>5. S!HeardOf
    BY <2>1, <2>4 DEF S!HeardOf
  <2> QED BY <2>5 DEF S!Next
<1> QED BY <1>1, <1>2, <1>3, <1>4, <1>5 DEF CallStep

LEMMA WatcherRefines ==
  ASSUME Inv, NEW r \in Rec, Watch(r)
  PROVE  S!Next \/ UNCHANGED S!vars
<1> USE DEF Inv
<1>0. UNCHANGED CallUnderWay
  <2>1. lock = Caller <=> lock' = Caller
    BY DEF Watch, Test, Wake, Check, SaveOffline, SaveOnline, Save, LockInv
  <2>2. UNCHANGED <<pc, arg, cur, devId>>
    BY DEF Watch, Test, Wake, Check, SaveOffline, SaveOnline, Save
  <2> QED BY <2>1, <2>2, CallStays
<1>1. UNCHANGED <<len, devId>> /\ KnownIds' = KnownIds
  BY DEF Watch, Test, Wake, Check, SaveOffline, SaveOnline, Save, KnownIds
<1>2. CASE UNCHANGED state
  <2>1. AliveIds' = AliveIds
    BY <1>1, <1>2 DEF AliveIds
  <2> QED BY <1>0, <1>1, <2>1, SetStutters
<1>3. CASE state' = [state EXCEPT ![r] = "TIMEOUT"]
  <2>1. {q \in 1..len : state'[q] = "ALIVE"} = {q \in 1..len : state[q] = "ALIVE"} \ {r}
    BY <1>3 DEF TypeOK
  <2>2. AliveIds \ {devId[r]} \subseteq AliveIds' /\ AliveIds' \subseteq AliveIds
    BY <1>1, <2>1 DEF AliveIds
  <2>3. CASE devId[r] \in AliveIds \ AliveIds'
    <3>1. AliveIds' = AliveIds \ {devId[r]}
      BY <2>2, <2>3
    <3>2. S!TimedOut(devId[r])
      BY <1>0, <1>1, <3>1 DEF S!TimedOut
    <3> QED BY <2>3, <3>2 DEF S!Next
  <2>4. CASE devId[r] \notin AliveIds \ AliveIds'
    <3>1. AliveIds' = AliveIds
      BY <2>2, <2>4
    <3> QED BY <1>0, <1>1, <3>1, SetStutters
  <2> QED BY <2>3, <2>4
<1>4. UNCHANGED state \/ state' = [state EXCEPT ![r] = "TIMEOUT"]
  BY DEF Watch, Test, Wake, Check, SaveOffline, SaveOnline, Save
<1> QED BY <1>2, <1>3, <1>4

LEMMA SetStep ==
  Inv /\ ReadmitInv /\ [Next]_vars => [S!Next]_(S!vars)
<1> SUFFICES ASSUME Inv, ReadmitInv, [Next]_vars PROVE S!Next \/ UNCHANGED S!vars
  OBVIOUS
<1>1. CASE Restart
  <2>1. KnownIds' = {} /\ AliveIds' = {} /\ CallUnderWay' = S!NoCall
    BY <1>1, ConstantsAssumption DEF Restart, KnownIds, AliveIds, CallUnderWay, InCall, S!NoCall
  <2> QED BY <2>1 DEF S!Restart, S!Next
<1>2. CASE Tick \/ PollExit \/ UNCHANGED vars
  <2>1. UNCHANGED <<KnownIds, AliveIds, CallUnderWay>>
    BY <1>2 DEF Tick, PollExit, vars, KnownIds, AliveIds, CallUnderWay, InCall, Operation
  <2> QED BY <2>1, SetStutters
<1>3. CASE Shutdown
  <2>1. UNCHANGED <<KnownIds, AliveIds, CallUnderWay>>
    BY <1>3 DEF Shutdown, KnownIds, AliveIds, CallUnderWay, InCall
  <2> QED BY <2>1, SetStutters
<1>4. ASSUME NEW id \in Id, Register(id) PROVE S!Next
  <2>1. UNCHANGED <<KnownIds, AliveIds>>
    BY <1>4, NewIsUnseen DEF Register
  <2>2. devId'[cur'] = id /\ lock' # Caller
    BY <1>4, ConstantsAssumption DEF Register, NewRecord, Inv, TypeOK, LockInv
  <2>3. CallUnderWay = S!NoCall /\ CallUnderWay' = [op |-> "register", id |-> id]
    BY <1>4, <2>2 DEF Register, CallUnderWay, InCall, Operation, S!NoCall
  <2>4. S!Ask("register", id)
    BY <2>1, <2>3 DEF S!Ask
  <2> QED BY <2>4 DEF S!Next
<1>5. ASSUME NEW id \in Id, Heartbeat(id) PROVE S!Next
  <2>1. UNCHANGED <<KnownIds, AliveIds>>
    BY <1>5 DEF Heartbeat, KnownIds, AliveIds
  <2>2. CallUnderWay = S!NoCall /\ CallUnderWay' = [op |-> "heartbeat", id |-> id]
    BY <1>5 DEF Heartbeat, CallUnderWay, InCall, S!NoCall
  <2>3. S!Ask("heartbeat", id)
    BY <2>1, <2>2 DEF S!Ask
  <2> QED BY <2>3 DEF S!Next
<1>6. CASE CallStep
  BY <1>6, CallerRefines
<1>7. ASSUME NEW r \in Rec, Watch(r) PROVE S!Next \/ UNCHANGED S!vars
  BY <1>7, WatcherRefines
<1> QED
  BY <1>1, <1>2, <1>3, <1>4, <1>5, <1>6, <1>7 DEF Next, NewCall

\* To the UDP server the device manager, with its watchers, its lock and its
\* records of equal ids, is a set of devices: for any number of records, any
\* ids and any times, a call has the effect that PlantProtocol gives it.
THEOREM ManagerIsDeviceSet == Spec => DeviceSetSpec
<1>1. Init => Inv /\ ReadmitInv
  BY InitInv DEF Init, Started, ReadmitInv
<1>2. Inv /\ [Next]_vars => Inv'
  BY TypeStep, LockStep, AllocStep, WatcherStep, JoinStep, ShutdownStep, ClockStep DEF Inv
<1>3. Inv /\ ReadmitInv /\ [Next]_vars => ReadmitInv'
  BY ReadmitStep
<1>4. Inv /\ ReadmitInv /\ [Next]_vars => [S!Next]_(S!vars)
  BY SetStep
<1> QED
  BY SetInit, <1>1, <1>2, <1>3, <1>4, PTL DEF Spec, DeviceSetSpec, S!Spec
==============================================================================
