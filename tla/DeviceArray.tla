----------------------------- MODULE DeviceArray -----------------------------
(***************************************************************************)
(* The growable array of device pointers, BeagleBone/src/device_array.c,   *)
(* as its threads use it: the UDP server thread registers and looks up,    *)
(* the poll thread lists the living devices, the watchers and heartbeats   *)
(* change device->state without arr_lock.                                  *)
(*                                                                         *)
(* A device is its index: Put only appends.  `room` is the size of the     *)
(* memory data points to, which is what total_size stands for; room = 0    *)
(* when data is NULL.                                                      *)
(***************************************************************************)
EXTENDS Integers, FiniteSets

CONSTANTS
  Thread, Id,
  NoId,         \* what an unwritten slot holds
  Ops,          \* the operations the threads call
  InitialSize,  \* DeviceArray_Init's argument
  AllocFails,   \* malloc and realloc may fail
  MaxLen        \* bound: no Put is called beyond that many devices

ASSUME ArrayAssumption ==
  /\ InitialSize \in Nat \ {0}
  /\ MaxLen \in Nat \ {0}
  /\ AllocFails \in BOOLEAN
  /\ NoId \notin Id
  /\ IsFiniteSet(Thread)
  /\ "free" \notin Thread
  /\ Ops \subseteq {"put", "putI", "get", "getId", "getAlive", "getAll"}

VARIABLES
  len,     \* arr->len
  total,   \* arr->total_size
  room,    \* pointers the memory behind arr->data has space for
  data,    \* arr->data: the id of the device in each slot
  lock,    \* the thread that holds arr_lock
  errno,   \* errno is thread-local; only ENOMEM or not matters
  alive,   \* device->state = ALIVE, by index
  pc,      \* where a thread stands
  job,     \* its call
  i,       \* its loop index
  picked,  \* alive_devices: the records it has copied
  result   \* what its last call returned: {} is NULL or -1

arrVars == <<len, total, room, data>>
vars == <<len, total, room, data, lock, errno, alive, pc, job, i, picked, result>>

Free  == "free"
NoJob == [op |-> "none", arg |-> NoId]
Index == 0..(MaxLen - 1)

Init ==
  /\ len = 0
  /\ total = InitialSize
  /\ room = InitialSize
  /\ data = [k \in 0..(InitialSize - 1) |-> NoId]
  /\ lock = Free
  /\ errno = [t \in Thread |-> "none"]
  /\ alive = [k \in Index |-> TRUE]
  /\ pc = [t \in Thread |-> "idle"]
  /\ job = [t \in Thread |-> NoJob]
  /\ i = [t \in Thread |-> 0]
  /\ picked = [t \in Thread |-> {}]
  /\ result = [t \in Thread |-> {}]

------------------------------------------------------------------------------
(* Plausible mistakes; no specification uses them.                          *)

FullTooLate  == len > total
AmountAsSize == total
PutCount     == len + 1
SecondSlot   == 1

------------------------------------------------------------------------------
Full        == len >= total
DoubledSize == 2 * total   \* resize_arr
PutIndex    == len         \* what Put returns
FirstSlot   == 0           \* where the loops start

At(t, where) == pc[t] = where
Goto(t, where) == pc' = [pc EXCEPT ![t] = where]

\* Leave a call: unlock and return.
Return(t, devices) ==
  /\ lock' = Free
  /\ Goto(t, "idle")
  /\ job' = [job EXCEPT ![t] = NoJob]
  /\ i' = [i EXCEPT ![t] = 0]
  /\ picked' = [picked EXCEPT ![t] = {}]
  /\ result' = [result EXCEPT ![t] = devices]

Args(op) == CASE op \in {"put", "getId"} -> Id
              [] op \in {"get", "putI"} -> Index \cup {-1}
              [] OTHER -> {NoId}

\* The second guard is the bound on devices.
Call(t, op, a) ==
  /\ At(t, "idle")
  /\ op = "put" => len + Cardinality({u \in Thread : job[u].op = "put"}) < MaxLen
  /\ job' = [job EXCEPT ![t] = [op |-> op, arg |-> a]]
  /\ Goto(t, "lock")
  /\ UNCHANGED <<arrVars, lock, errno, alive, i, picked, result>>

Acquire(t) ==
  /\ At(t, "lock")
  /\ lock = Free
  /\ lock' = t
  /\ Goto(t, "locked")
  /\ i' = [i EXCEPT ![t] = FirstSlot]
  /\ UNCHANGED <<arrVars, errno, alive, job, picked, result>>

Doing(t, op) == At(t, "locked") /\ job[t].op = op

\* resize_amount.  A realloc that fails leaves data NULL; one that succeeds
\* leaves errno as it was, and total_size follows errno, not realloc.
Resize(t, size) ==
  \/ /\ room' = size
     /\ data' = [k \in 0..(size - 1) |-> IF k < room THEN data[k] ELSE NoId]
     /\ total' = IF errno[t] = "ENOMEM" THEN total ELSE size
     /\ UNCHANGED errno
  \/ /\ AllocFails
     /\ room' = 0
     /\ data' = [k \in 0..(-1) |-> NoId]
     /\ errno' = [errno EXCEPT ![t] = "ENOMEM"]
     /\ UNCHANGED total

\* DeviceArray_Put: double a full array; if it is still full, return -1 from
\* inside the critical section.
PutGrow(t) ==
  /\ Doing(t, "put")
  /\ Full
  /\ Resize(t, DoubledSize)
  /\ IF len < total'
     THEN UNCHANGED <<pc, job, i, result>>
     ELSE /\ Goto(t, "idle")
          /\ job' = [job EXCEPT ![t] = NoJob]
          /\ result' = [result EXCEPT ![t] = {}]
          /\ i' = [i EXCEPT ![t] = 0]
  /\ UNCHANGED <<len, lock, alive, picked>>

PutStore(t) ==
  /\ Doing(t, "put")
  /\ ~Full
  /\ data' = [data EXCEPT ![len] = job[t].arg]
  /\ len' = len + 1
  /\ Return(t, {PutIndex})
  /\ UNCHANGED <<total, room, errno, alive>>

\* DeviceArray_PutI writes a slot and leaves len alone; a negative index is
\* refused.  Beyond the end it
\* first grows the array to the next power of two above the index.
PutI(t) ==
  /\ Doing(t, "putI")
  /\ job[t].arg < total
  /\ IF job[t].arg < 0
     THEN UNCHANGED data /\ Return(t, {})
     ELSE /\ \E id \in Id : data' = [data EXCEPT ![job[t].arg] = id]
          /\ Return(t, {job[t].arg})
  /\ UNCHANGED <<len, total, room, errno, alive>>

\* 2^ceil(log2(k + 1)): the power of two from k + 1 to 2k + 1.
PowerOfTwo(p) == \A d, q \in 1..p : d * q = p => d = 1 \/ d % 2 = 0

PowerAbove(k) == CHOOSE p \in (k + 1)..(2 * k + 1) : PowerOfTwo(p)

PutIGrow(t) ==
  /\ Doing(t, "putI")
  /\ job[t].arg >= total
  /\ Resize(t, PowerAbove(job[t].arg))
  /\ IF job[t].arg < total'
     THEN UNCHANGED <<lock, pc, job, i, picked, result>>
     ELSE Return(t, {})
  /\ UNCHANGED <<len, alive>>

Get(t) ==
  /\ Doing(t, "get")
  /\ Return(t, {job[t].arg} \cap (0..(len - 1)))
  /\ UNCHANGED <<arrVars, errno, alive>>

\* DeviceArray_GetId, one turn of its loop.
GetId(t) ==
  /\ Doing(t, "getId")
  /\ \/ /\ i[t] < len
        /\ data[i[t]] # job[t].arg
        /\ i' = [i EXCEPT ![t] = @ + 1]
        /\ UNCHANGED <<lock, pc, job, picked, result>>
     \/ /\ i[t] < len
        /\ data[i[t]] = job[t].arg
        /\ Return(t, {i[t]})
     \/ /\ i[t] >= len
        /\ Return(t, {})
  /\ UNCHANGED <<arrVars, errno, alive>>

\* GetAlive and GetAll: allocate the copy, or return NULL and no devices.
NoCopy(t) ==
  /\ AllocFails
  /\ Doing(t, "getAlive") \/ Doing(t, "getAll")
  /\ i[t] = FirstSlot
  /\ errno' = [errno EXCEPT ![t] = "ENOMEM"]
  /\ Return(t, {})
  /\ UNCHANGED <<arrVars, alive>>

\* One turn of their loops.
Copy(t) ==
  /\ Doing(t, "getAlive") \/ Doing(t, "getAll")
  /\ \/ /\ i[t] < len
        /\ picked' = IF Doing(t, "getAll") \/ alive[i[t]]
                     THEN [picked EXCEPT ![t] = @ \cup {i[t]}] ELSE picked
        /\ i' = [i EXCEPT ![t] = @ + 1]
        /\ UNCHANGED <<lock, pc, job, result>>
     \/ /\ i[t] >= len
        /\ Return(t, picked[t])
  /\ UNCHANGED <<arrVars, errno, alive>>

------------------------------------------------------------------------------
(* Around the array.                                                        *)

\* A watcher or a heartbeat changes a device's state.
Flip(k) ==
  /\ alive' = [alive EXCEPT ![k] = ~@]
  /\ UNCHANGED <<arrVars, lock, errno, pc, job, i, picked, result>>

\* Between two calls a thread's own allocations and system calls (SQLite's
\* among them) may fail and leave their code in errno.
OtherError(t) ==
  /\ AllocFails
  /\ At(t, "idle")
  /\ \E e \in {"ENOMEM", "other"} : errno' = [errno EXCEPT ![t] = e]
  /\ UNCHANGED <<arrVars, lock, alive, pc, job, i, picked, result>>

Step(t) ==
  \/ PutGrow(t) \/ PutStore(t) \/ PutI(t) \/ PutIGrow(t)
  \/ Get(t) \/ GetId(t) \/ NoCopy(t) \/ Copy(t)

Next ==
  \/ \E t \in Thread :
       \/ \E op \in Ops : \E a \in Args(op) : Call(t, op, a)
       \/ Acquire(t)
       \/ Step(t)
       \/ OtherError(t)
  \/ \E k \in Index : Flip(k)

Spec == Init /\ [][Next]_vars

\* A thread in the critical section runs on; the mutex is held for a short
\* time by each, so a thread that waits for it finds it free over and over.
Fairness == \A t \in Thread : WF_vars(Step(t)) /\ SF_vars(Acquire(t))

FairSpec == Spec /\ Fairness

------------------------------------------------------------------------------
TypeOK ==
  /\ len \in 0..MaxLen
  /\ total \in Nat \ {0}
  /\ room \in Nat
  /\ data \in [0..(room - 1) -> Id \cup {NoId}]
  /\ lock \in Thread \cup {Free}
  /\ errno \in [Thread -> {"none", "ENOMEM", "other"}]
  /\ alive \in [Index -> BOOLEAN]
  /\ pc \in [Thread -> {"idle", "lock", "locked"}]
  /\ \A t \in Thread :
       job[t] = NoJob \/ (job[t].op \in Ops /\ job[t].arg \in Args(job[t].op))
  /\ i \in [Thread -> 0..MaxLen]
  /\ picked \in [Thread -> SUBSET Index]
  /\ result \in [Thread -> SUBSET Index]

\* Whoever is in the critical section, or is going to get into it, finds
\* memory behind every slot below total_size: realloc, errno and the early
\* return of Put (device_array.c:44-67) never leave the array unsafe to a
\* thread that can reach it.
InBounds ==
  lock = Free \/ At(lock, "locked") => len <= total /\ total <= room

\* The turns a thread has before it in its call: the rest of the devices to look
\* at, and the growing of an array that is too small.
TooSmall(t) == \/ job[t].op = "put" /\ len >= total
               \/ job[t].op = "putI" /\ job[t].arg >= total

TurnsLeft(t) == len - i[t] + (IF TooSmall(t) THEN 1 ELSE 0)

\* Why every call returns: a thread that does not give arr_lock back with its
\* turn keeps it and has a turn less before it, whatever the size it grew the
\* array to and whoever is waiting (device_array.c:58-67, 88-98, 130, 150, 171).
HolderProgresses ==
  [][ \A t \in Thread : Step(t) =>
        \/ lock' = Free
        \/ lock' = t /\ At(t, "locked")' /\ 0 <= TurnsLeft(t)' /\ TurnsLeft(t)' < TurnsLeft(t) ]_vars

\* Every call returns.
CallsReturn == \A t \in Thread : At(t, "lock") ~> At(t, "idle")
==============================================================================
