# Plant Manager: specifications, model checking, proofs

TLA+ for the program in this repository: a BeagleBone server that keeps track of
ESP8266 plant sensors over UDP, stores their readings in SQLite and waters the
plants with a PID controller. The modules translate the C and C++ sources; every
definition's lines are in `PROJECT.json` under `map`.

## 1. The system

```
 ESP8266 (one per plant)          BeagleBone: plantManager
 +--------------------+   UDP    +------------------------------------------+
 | setup: EEPROM id   |  Cr ---> | UDP thread: recvfrom -> clientAddr       |
 | loop: heartbeats   |  Sh ---> |   HandleRegistration / HandleHeartbeat / |
 |   answers Sm Su St |  Sm ---> |   HandleSensor                           |
 |   pump on/off      | <--- Cr  |        |                                 |
 +--------------------+ <--- Sm  |        v                                 |
                        <--- Ap  | device manager -- device array           |
                                 |   lock, watchers    arr_lock             |
                                 |        ^                                 |
                                 | poll thread: requests, PID_Update        |
                                 +-----------|------------------------------+
                                             v
                                  plants.db  <--- Flask dashboard (reads)
```

| component | state | operations | talks to |
|---|---|---|---|
| device manager (`device_manager.c`) | records (id, last_seen, state, watch_thread), `lock`, `should_watch`, table `devices` | Init, Register, Reregister, ReportHeartbeat, Shutdown; one watcher thread per record; the poll thread | device array, SQLite, called by the UDP thread |
| device array (`device_array.c`) | len, total_size, data, `arr_lock` | Put, PutI, Get, GetId, GetAlive, GetAll, Destroy | called by UDP thread, poll thread, Shutdown; record states change under it |
| irrigation (`pid.c`) | table `pid`; reads table `moisture` | PID_Update, GetLastPID, SavePIDdata | poll thread; pump requests through the UDP server |
| sensor storage (`device_manager.c:277-389`) | tables `moisture`, `humidity`, `temperature` | SaveSensorData, GetLastMoisture, GetMoistureAfterTime | UDP thread writes, poll thread reads |
| UDP server (`udp_server.c`) | `clientAddr`, receive buffer | handlers of Cr, Sh, Sm/Su/St; RequestSensor, RequestPump | device manager, network |
| firmware (`esp/src/main.cpp`, `dht_moisture.cpp`) | EEPROM id, `id`, `have_id`, pump and heartbeat timers | setup, loop, handle_register, handle_sensor, handle_pump; Moisture_get* | network |
| dashboard (`website/run.py`) | none | one SELECT over four tables, getDevices | SQLite |
| seven-segment display (`seg_display.c`, `i2c.c`) | digits, their copies, `lock`, `should_run`, the bus | Init, SetChars, SetInt, Cleanup; one thread | GPIO, I2C; not called by the server |
| GPIO (`GPIO.c`) | cached direction and status of a pin; files of sysfs | InitPin, OpenPin, ClosePin, GetDirection, SetDirection, ReadPin, WritePin | display, joystick, and one InitPin of `main.c` |
| joystick (`Joystick.c`) | four pins | Init, DirectionPressed | GPIO; not called by the server |
| LEDs, A2D, local moisture probe | none of their own | wrappers over sysfs files | not called by the program |

Hard in this code: watchers test and change a record's state partly outside the
lock and are joined inside it; Shutdown frees records from a list made earlier;
the clock is read before the lock is taken; statements fail and are not repeated;
two tables have one-second keys shared by all plants; packets are lost, repeated
and late; server and plants restart independently; every device's address is a
pointer to the receive buffer; the firmware's clock wraps while pumps run; the
period of the heartbeats is exactly the server's timeout; words cross the network
byte by byte, put together from chars, which have no sign on either machine but
may have one where the tests run; a call of the display returns with its lock held,
a failed write to its bus is ignored, and reading a pin leaks a file. `PROJECT.json` lists each of them under `hazards`.

What makes the components correct, in a sentence each: the manager neither hangs
nor forgets a device, and what it says of a device is true; the array is a list
to all its threads; a plant is watered by its own readings and within limits; a
plant and the server agree on who it is, whatever the network does; a pump runs as
long as it was told to and a plant is never silent for long; what is stored and
shown was measured; the display shows what was set, one digit at a time.

## 2. Modules

| module | models | proved in |
|---|---|---|
| `DeviceManager` | registry, watchers, heartbeats, shutdown, table `devices` | `DeviceManagerProofs` |
| `DeviceSet` | what the manager promises to the UDP server: a set of devices, some alive | |
| `DeviceManagerRefinement` | the mapping under which DeviceManager implements DeviceSet | `DeviceManagerProofs` |
| `Registry` | what the array promises: a list that only grows, operations in one step | |
| `DeviceArray` | `device_array.c`, lock, loop turns, growth, `errno` | `DeviceArrayProofs` |
| `DeviceArrayRefinement` | the mapping under which DeviceArray implements Registry | `DeviceArrayProofs` |
| `Irrigation` | `PID_Update`, tables `moisture` and `pid` | `IrrigationProofs` |
| `PlantProtocol` | firmware, network, UDP server, poll thread's requests | `PlantProtocolProofs` |
| `Firmware` | one pass of the firmware's loop and its clock: heartbeats, pump, power | `FirmwareProofs` |
| `FirmwareWatch` | `Firmware`, the network and one watcher of the server, in real time | `FirmwareWatchProofs` |
| `Readings` | sensors, packets' bytes, `SaveSensorData`, the three tables, the dashboard's query | `ReadingsProofs` |
| `Display` | display, its thread, GPIO, joystick, the bus | `DisplayProofs` |
| `MC*` | symmetry sets and non-trivial constants for TLC | |

### DeviceManager
One action is one step between two points at which another thread can see the
difference. `pc` is the place of the thread that calls the API, `watcher[r]` the
place of record r's `watch_device`. A record is its index in the array; the
watcher of a record is created (`Spawn`) before the record is in the array
(`Put`), as in the code. `Register` runs without the lock; `ReportHeartbeat`
(`Heartbeat`, `HbLock`, ..., `HbAlive`) holds it and may run Reregister's
`InsertRow`, `Spawn`, `Put` inside. `Test` reads `should_watch` and
`device->state` without the lock, `Wake` reads the clock without it, `Check`
takes it. SQL statements may fail; `missed` remembers, for the property only,
whose last UPDATE did. Two records with one id (a registration that was
answered with an id in use) share one row: the last of their watchers to write
wins, so `StatusTruth` speaks of ids with one record.

Abstractions: `time(NULL)` is `now`, advanced by `Tick` up to `MaxTime`; there a
sleep that would end later may end too, so that the bound stops no thread. A
watcher's `nanosleep` lasts at least `HeartBeat` seconds. `Wrap` stands for
2^64: any number larger than the times that occur shows the same wrap. The mutex
inside the array is not repeated here, since the array's calls are atomic to the
manager's threads (that is what `DeviceArrayRefinement` shows), except GetAlive,
which `SdScan` takes record by record. `Restart` is a new start of the process,
with the database and the clock kept.

### DeviceSet, and how the modules fit together
The layers rest on each other's specifications, not on each other's code:
DeviceArray implements `Registry`, whose operations are single steps of
DeviceManager; DeviceManager implements `DeviceSet`, and PlantProtocol's server is
composed with it: `D == INSTANCE DeviceSet`, where the call under way is the packet
that the receiving thread handles (`CallUnderWay`). What PlantProtocol's Register,
Readmit, HandleHeartbeat, Timeout and Restart do to `known` and `alive` is the step
of `D` that they name; a device registered without the lock may have timed out when
it gets into the array there as here. Both sides of that interface are proved:
`ManagerIsDeviceSet` and `ServerUsesDeviceSet`. `DeviceManagerRefinement` maps a
record to its id, so that two records of one id are one device, alive when one of
them is, and reads the call under way off the caller's place. Firmware is PlantProtocol's
plant with a clock instead of packets, and FirmwareWatch composes it with one
watcher.

### DeviceArray and Registry
`DeviceArray` runs the six operations turn by turn under `arr_lock` for any set
of threads; `Flip` is a watcher or a heartbeat changing a record's state without
that lock. `room` is the size of the memory behind `data`; a failed `realloc`
makes it 0 and leaves `total_size`. `Registry` has one step per operation, except
`getAlive`, which samples device by device, because that is all the array can
promise. PutI replaces a device of the list, or writes a slot behind its end,
which the next Put overwrites. The size it grows to, `2^ceil(log2(k + 1))`, is
`PowerAbove(k)`: the one number from k + 1 to 2k + 1 all of whose divisors but 1 are
even.

### Irrigation
`LastRows` is the query of both tables, literally: it is not restricted to the
device. `{}` as the row read stands for memory that no row was written to; what
it may hold is `Junk` (any number; for `integratorState` also NaN, which the
code replaces by 0). Readings are integers, so the sum of the P and D terms is
one, and the I term, 0.01 times something in 25..40, never changes the rounded
sum; `Duration` leaves it out.

### PlantProtocol
A packet is its type, the plant at its other end, and the id in it (a pump packet
carries none: what it asks for, and of whom, is known in the step that sends it).
A sensor's value is only whether `SaveSensorData` takes it: an `overLimit` is a
reading of 1000000 or more, a failed sensor's or a word nobody set, at which the
server returns before it looks at the device (`device_manager.c:279`); a reading of
an unknown device that is not over the limit crashes it (`:284`). `Sent`, `After` and
`Drop` are the network. A word is a sequence of `Width` bytes, because the
firmware sends heartbeats as C strings and `CutAtZero` depends on the bytes.
`clientAddr` is shared by the receiving thread and the poll thread, as in the
code: `Receive` overwrites it, `RequestSensors` and `Update` read it, `Register`
and `Answer` are two steps between which the poll thread may run. `given` is
history, and `MaxGiven` bounds it: after so many the server takes no further
registration request up. A device's timeout may happen at any time (its timing is DeviceManager's
subject), and its record stays. The id that `rand()` makes may be any, one in
use included; `Receive` makes it up with the job of registering (`Taken`), so that
the manager's call has its argument. A heartbeat is two steps when its device is
unknown, `Readmit` and `HandleHeartbeat`, as in DeviceSet. `NamedIds` are the ids the
manager may hear of: those that were made, and what is left of them at a zero byte.
That may be 0, which is also what a plant without an id names in its readings:
where 0 is a device, such readings are stored under it, and `ReadingsAreOwn` says
that this, and only after an id that begins with a zero byte, is the one mix-up.
`PlantIsAlive` is about what heartbeats say: a plant whose id has a zero byte is never
alive under its own.

### Firmware and FirmwareWatch
PlantProtocol leaves the firmware's time out; `Firmware` has nothing but it. One
pass of `loop()` is four steps (`udp`, `clock`, `beat`, `pump`) between which the
clock may tick, at most `MaxPass` ticks between two readings of it: the handlers'
delays (500 ms in save_id, a DHT reading of some 250 ms) are ticks, not steps. Times
are numbers modulo `W` (2^32 in the code), with the unsigned subtraction of
`main.cpp:318` and `:324`. `passAge`, `quiet` and `pumping` are ages that do not
wrap; only properties read them. A power failure may come at every step, also
between handle_register's `have_id` and the write to flash.

`FirmwareWatch` adds the server's second-wise clock, the heartbeats on their way
(`flight` holds how long each has travelled) and one watcher, reduced to what its
timing needs: sleep, read the clock, wait for the lock, check. Its `Plant`,
`SendBeat`, ... are `Firmware`'s actions with the server's variables beside them, so
every behaviour of its plant is one of `Firmware` (`PlantIsFirmware`). What happens
between the threads of the server is DeviceManager's subject.

### Readings
A reading from `Sensed` to `Shown`. A word is `Base`^4 and goes through the packet
as four bytes: `Encoded` is `write32bitNumber` (htonl, then byte after byte), and
`Decoded` is `get_uint32_t`. Packets stay in `net` and may arrive any number of
times or never, at any later time. `Junk` is what an int may hold that nobody set:
`Moisture_getTemperature` has no return statement on its good path, and a NaN
becomes any int. The tables' keys are (id, second), so the second of two readings in
one second is refused (`Inserted`). `Latest`, `Joined` and `Info` are the query's
subselects and joins, `Shown` what getDevices makes of its rows. `newest` and
`measured` are history. The server may forget all devices (`Restart`) and keeps the
tables. Ids are `rand()`'s: below 2^31, so the `%d` of one statement and the `%u` of
the others print the same (`AsInt`).

### Display
The display with its thread, the joystick, and under both the pins as `GPIO.c`
handles them: every function is an operator on a pin's record, of which `dir`,
`level` and `exported` are the hardware's and `status` and `cached` the program's
belief. The hardware may be found in any state of `Found`, and the belief is whatever
the caller's memory held. `files` counts the value
files that `GPIO_ReadPin` opened and never closes; at `MaxFiles`, fopen fails in
every function, and each does what its code does then. `SetChars` is two steps
around the critical section; with an empty character it ends inside it
(`seg_display.c:154`), and nobody gets the lock again. The thread's loop is one
action per write to a pin, and one per digit loaded over the bus (`Load`): each of
its two writes may fail and leave its half of the segments as it was, and the digit
is lit all the same. `lost` (the last load did not get through), `held` and `blind`
(the switch, and whether a file could be opened, at the last call for the joystick)
are history.

Each module has a short block of "plausible mistakes": variants of its own
definitions that no specification uses. Putting one in the place of the
definition it varies makes the property listed with it in `PROJECT.json`
(`mutants`) fail, which shows that the property depends on that code.

## 3. Runs

| run | instance | shows |
|---|---|---|
| DeviceManagerSafety | 2 ids, 2 records, 4 s, timeout 1 s | TypeOK, JoinSafe, FreedWindow, StatusTruth, TimeoutJustified, ShutdownProgresses, DeviceSetSpec (refinement) |
| DeviceManagerLive | 1 id, 2 records, 3 s | WatchedSilentTimesOut, HeartbeatCompletes, ShutdownCompletes |
| LostWatcher | 1 record, 5 s | **fails**: SilentDeviceTimesOut |
| ArrayRegistry | 2 threads, 2 ids, 2 devices, size 1 at first | RegistrySpec (refinement), HolderProgresses, CallsReturn |
| ArrayMemory | 2 threads, 3 devices, failing allocations | TypeOK, InBounds |
| IrrigationSafety | 2 plants, 2 s, failing statements | TypeOK, OwnRows, ControlBounded, WedgeIsPermanent |
| ProtocolSafety | 2 plants, 2 ids of two bytes, one whole and one cut to 0 in a heartbeat, 2 ids given in all, 2 packets in flight, 1 server restart, duplicates | TypeOK, NoGhosts, ReadingsAreOwn, OnlyNamelessCrash |
| ProtocolLive | 1 plant, 2 ids of three bytes, one cut to the other in a heartbeat, 2 packets, 1 restart | PlantIsAlive, ServerKeepsToDeviceSet (the manager is used as specified) |
| WrongPump | 2 plants | **fails**: OwnPump |
| FirmwareTiming | clock of 5 ticks, heartbeats every 2, pumps of 2, pass of 1, second of 2 ticks, server clock of 6 s, timeout 1 s, delays of 1 tick | TypeOK, PumpOffInTime, HeartbeatGap, DetectionBound, PumpRunsOut, FalseTimeoutInMargin |
| SensorReadings | bytes of 4 values, 2 ids, 2 moistures, 2 unset words, limit 128, 2 s, 4 packets | TypeOK, RowsAreMeasured, DashboardRight, StoredStays |
| FrontPanel | 3 texts, 2 numbers, 2 files, pins found as inputs or as lit outputs | DigitsInTurn, WholePair, PressedIsPushed, SetIsShown, CleanupReturns |

Why the bounds are enough: two records are the least for which one can hold the
lock against the other, for equal ids, and for a shutdown scan that finds one
alive and one not. A timeout of 1 s with 4 or 5 s of time lets a device time
out, come back, and time out again; more time only repeats this. The array starts
with one slot so that two devices make it grow; a third, in ArrayMemory, makes it
grow after a failure. Two plants are the least that share a second; two packets
in flight reorder, and a set of packets with `Duplicates` delivers each any
number of times. The two ids of ProtocolSafety are 1-0 and 0-1: one is in a heartbeat
what it was, of the other nothing is left, so that 0 becomes a device and the readings
of a plant without an id are stored under it. Two ids given in all let each plant have
one, both the same, or one plant have two. In ProtocolLive the ids are 1-0-0 and 1-0-1,
whose heartbeats are those of the first: a plant is kept alive under an id that it does
not have, and may be given later.

The firmware's clock of 5 ticks is the least that the assumption
W > HeartbeatTime + 2 * MaxPass allows: every period and every run of a pump
crosses a wrap. A second of two ticks is the least with a rounding error, and a
server clock of 6 seconds wraps, too. With bytes of four values a word has 256:
ids 81 and 69 have the same bytes in another order, and a moisture of 99 has a byte
with the sign's bit, so that a byte read at the wrong place, or with a sign, makes
another id or another value; one unset word is below the
limit and one above it. Two seconds let two readings share one or not, and four
packets give a device one reading of each kind and one more. In FrontPanel there
are two files: a read can follow one that succeeded, with the switch turned or
not, before one finds no file, and all that happens with none left is reached from every
state. The texts have a digit, another character and an empty one on each side, the
numbers lie on both sides of 0..99, and the digits are few (0 and 9) because the register
holds any half of any of them once writes fail.

### What the failing runs show
* **LostWatcher.** A heartbeat of a timed-out device creates the new watcher
  (`device_manager.c:249`) before it sets the state back (`:255`); the watcher
  tests the state without the lock (`:85`), may read TIMEOUT and end. The device is
  ALIVE, never watched again, and its row stays "Offline".
  `test/device_manager_test.c:28` expects the contrary.
* **WrongPump.** All device addresses point to the receive buffer of the UDP
  thread: a pump request goes to the plant that spoke last.

Some more, met while modelling and without a run of their own: the query for a
plant's last row (`pid.c:38`) returns the rows of all plants in that second, and
the callback refuses a second row, so that two plants updated within one second are
out of control for good (`WedgeIsPermanent` says how permanently, restarts
included); on a plant's first round no reading has arrived, and
`DeviceManager_GetLastMoisture` (`device_manager.c:356`) says it read one and
returns memory that was never written (`{}` in Irrigation); heartbeats are written
as C strings (`main.cpp:309`), and an id with a zero byte arrives cut and is
registered as another device (the second half of `NoGhosts`), so that its plant's
readings are those of an unknown device (the second half of `OnlyNamelessCrash`), or,
when nothing is left of it, gives the readings of plants without an id a device to be
stored under (the second half of `ReadingsAreOwn`);
a heartbeat between a watcher's clock read and its lock makes the unsigned difference wrap
(the second disjunct of `TimeoutJustified`); a Put that cannot grow the array
returns with `arr_lock` held (in ArrayMemory such states are reached, and
`InBounds` holds in them because nobody gets the lock any more; `CallsReturn`
fails with `AllocFails = TRUE`); PutI after a failed growth leaves the lock free
and the array without memory; a failed INSERT at registration leaves a device
without a row, and later UPDATEs report success. The period of the heartbeats is
the timeout, so a plant that sends every one of them in time may be declared dead:
`FalseTimeoutInMargin` says when, and its interval would be empty if the period and
the delays were no more than the timeout. The temperature is never the sensor's
(`dht_moisture.cpp:64`): `RowsAreMeasured` counts a word nobody set as measured, and
no property can tell it from one. A write to the display's bus that failed is printed,
and the digit is lit with what the register held before. When the files have run out every direction of the
joystick reads as pressed (`PressedIsPushed`).

### Fairness
`DeviceManager`: the clock goes on; threads that can run do. The mutex is
requested again and again by threads that hold it for the time of one statement
and sleep for seconds between two requests, so a waiting thread finds it free over
and over: strong fairness for the steps that take it. No call of the API, no
Shutdown and no Restart is assumed to happen. `DeviceArray`: the same for
`arr_lock`. `PlantProtocol`: the firmware's loop comes round to the heartbeat, the
server's thread handles what it received and gets to packets that wait, and the
network loses any heartbeat but not, from some time on, all of them. `Display`:
threads that can run do (weak fairness of the thread's steps, of the second half of
SetChars and of the return of pthread_join), and the lock is free again and again
between two calls, hence strong fairness for the thread taking it. That anybody
calls anything is not assumed. `Firmware`, `FirmwareWatch` and `Readings` have no
fairness: their bounds on time are safety properties.

Deadlock is checked in every run: none of the modelled systems may stop.

## 4. Proofs

All theorems hold for every value of the constants that satisfies the named
assumption of the module, and are checked by TLAPS with Z3, Zenon and LS4.

* `DeviceManagerProofs`. `Inv` is the conjunction of TypeOK and six parts that
  JoinSafe and FreedWindow need to be inductive: who holds the lock agrees with
  the places of caller and watchers (`LockInv`), records exist from `NewRecord`
  on and have a watcher from `Spawn` on (`AllocInv`), a watcher inside its loop
  watches an ALIVE device and one that saves a timeout a TIMEOUT one
  (`WatcherInv`), the caller at the join works on a timed-out record (`JoinInv`),
  Shutdown's scan misses only timed-out records (`ShutdownInv`), no thread has
  seen a time that is still to come
  (`ClockInv`). From it: `TypeCorrectness`, `JoinUnderLockIsSafe`,
  `OnlyLeavingWatchersRemain`, `TimeoutsAreJustified`, with `StatusInv`
  `StatusIsTrue`, and with `ReadmitInv` (a device that a heartbeat is registering
  again stays ALIVE until it is in the array, because the lock keeps its watcher
  from judging it) `ManagerIsDeviceSet`, the refinement of DeviceSet. `StopInv` says
  that nobody leaves Shutdown; with it `ShutdownMovesOn`.
* `DeviceArrayProofs`, for all six operations.
  `ArrayInBounds`: memory safety for any number of threads and whatever
  allocations fail; the invariant `Inv` adds mutual exclusion of `arr_lock` and the
  kinds of calls. Where allocations may fail it is stated without PutI
  (`PutIAllocates`), for which it is false: PutI unlocks after a growth that failed,
  and nothing is behind the array then. The program never calls it. `TypeCorrectness`: no operation returns an index beyond the
  devices; `TypeInv` adds that the devices and the calls of Put under way are no
  more than `MaxLen` (the bound, by counting them) and that a loop's turn is at most
  `len`. `ArrayIsRegistry`: while allocations succeed, every step is one of
  `Registry` or none of it. `LoopInv` is what it needs of the loops: the slots that
  GetId has passed hold other ids, what GetAll has copied is all below its index,
  and between two calls nothing is left of either. That PutI's new size has room for
  its slot is `PowerAboveIsAbove`: the range from k + 1 to 2k + 1 holds a power of two.
  That is an induction over the numbers, which is proved as the search for a least
  counterexample (`Least`, from the library's theorem that the finite sets of numbers
  are well-founded; `Doubles`: twice a power of two is one). `EveryTurnCounts`, from
  the same invariants, bounds the turns under `arr_lock`.
* `IrrigationProofs`. `RowsAreOwn`, `ControlIsBounded`, and `WedgedForever`: a
  plant whose last row shares its second never gets a newer one, because every
  update returns before it inserts.
* `PlantProtocolProofs`. `Inv` (types, and `GivenInv`: the receiving thread
  answers the plant whose packet it is handling, and a reading names an id its plant
  was given, or 0) gives `TypeCorrectness`. `NoDeviceIsAGhost`: every heartbeat on its
  way, and every call of the manager, names an id that some plant was given, or what a
  zero byte left of one (`BeatsInv`). From both follows `ReadingsStayOwn`: 0 is a device
  only when an id was cut to it (`CutToNil`). `OnlyNamelessPlantsCrash`
  is not inductive as it stands: `Fresh` adds that ids on their way are known
  and that a plant coming back with an id from its flash is heard of by a
  heartbeat first, since `clientAddr` cannot be its address before
  (`HeardFirst`); `Whole` is an id that a heartbeat does not cut. A restart of the
  server breaks this, readings asked for by the old process arrive at the new one,
  hence `restarts = 0`. `ServerUsesDeviceSet`: every step is one of DeviceSet, with
  the id of the call among those the manager may hear of, or none of it.
* `FirmwareProofs`. The unsigned difference of two times grows with the clock as
  long as it is less than `W` (`SinceTick`, `SinceSum`, `SinceDifference`). `Inv` says
  for every place of the pass how old the last reading, the pump's start (`PumpInv`)
  and the last heartbeat (`BeatInv`) may be, so that they stay below `W`. Assumed is
  only that a wrap takes longer than the period, or the longest pump, and two passes.
  From it: `PumpStopsInTime`, `PumpIsNotCutShort`, `HeartbeatsKeepComing`.
* `FirmwareWatchProofs`. `PlantIsFirmware` carries the firmware's invariant over.
  `WatchInv` relates the server's rounded clock to the ages: the seconds since
  last_seen are `unseen` ticks up to rounding (`SeenInv`), a watched device has been
  unseen for a sleep, a second and its watcher's sleep at most (`WatchedInv`), a
  watcher's reading is as old as its wait (`WaitInv`, `StaleInv`), and if nothing was
  lost the heartbeat that ends the silence was sent in time (`BeatsInv`). It needs
  the server's clock not to wrap within `Horizon` (`Wrap * Second > Horizon +
  Second`, with 2^64 in the code). From it: `DetectionIsBounded`,
  `FalseTimeoutsInMargin`.
* `ReadingsProofs`. `RoundTrip`: `Decoded` of `Encoded` is the identity on words,
  for any `Base`, because the digits of a number determine it. So a packet carries
  what its plant measured (`NetInv`); with the tables' key (`KeyInv`) and the place
  of the newest value (`NewestInv`) follow `RowsWereMeasured`, `StoredRowsStay`, and
  `DashboardIsRight`: the subselects leave one row per device, and so does the join.
* `DisplayProofs`. As long as files can be opened, the digits' pins are outputs,
  known to be, and as lit as the thread's place says (`PinInv`), and, unless a write
  failed, the register holds the segments of the digit that is lit or comes next
  (`RegisterInv`); when they cannot, the digits' pins stay as they are (`DigitsStay`); `chars`
  is a pair somebody set whenever SetChars does not hold the lock, `bak` whenever the
  thread is not between its copies (`PairInv`); the joystick's pin is an input when
  the program takes it for one (`StickInv`), which makes `PressedIsPushed` inductive
  (`ReadStick`). From it: `DigitsAreLitInTurn`, `PairsAreWhole`, `PressedIsTrue`, for
  any texts, numbers, number of files and state the pins are found in, and
  with `StopInv` (who clears should_run calls nothing afterwards) `CleanupMovesOn`.

Every invariant, every action property and every refinement that the passing runs
check is proved. Two properties of the display, its TypeOK and CleanupProgresses, have
a proof and no run. Only model-checked are the liveness properties, since fairness and
ENABLED are out of this prover's reach. Of five of the seven the part that the code,
not the scheduler, answers for is a safety property, and proved:

| liveness | rests on | proved as |
|---|---|---|
| CallsReturn | HolderProgresses: a turn under `arr_lock` gives it back or leaves one turn less | EveryTurnCounts |
| HeartbeatCompletes | JoinSafe: the watcher that is joined under the lock does not want it | JoinUnderLockIsSafe |
| ShutdownCompletes | ShutdownProgresses: no watcher is created or sleeps again, and each step is one less | ShutdownMovesOn |
| WatchedSilentTimesOut | DetectionBound, in `FirmwareWatch`: the watch of a silent plant ends in time | DetectionIsBounded |
| CleanupReturns | CleanupProgresses: the display's thread goes straight to its end | CleanupMovesOn |

SetIsShown and PlantIsAlive have no such part beyond `PairsAreWhole` and
`ServerUsesDeviceSet`: that a pass begins, or that a heartbeat arrives, is fairness.
The modules use no RECURSIVE operator, so nothing in them is closed to the prover
for that reason.

## 5. Not modelled

* `sqlite3.c` with its header (98 % of the C lines of the repository), the DHT
  library, WiFiManager and the Python environment are third-party code. What the
  program needs of SQLite (keys, INSERT OR IGNORE, a statement that fails) is in the
  actions that use it.
* LEDs, A2D and the local moisture probe: not called by the program, no state of
  their own. The probe's thread takes one reading and ends
  (`moisture.c:24`). `I2C_ReadRegister` has no caller.
* The Vue front end shows what the backend answers.
* Of the UDP server, HandlePump, HandleActivate and HandleDevicesStatus handle
  packets nobody in the repository sends, and the end of the receive loop is never
  reached. `DeviceManager_GetMoistureAfterTime` and `update_devices` have no caller.
  `DeviceManager_InitPID` runs over an array that is still empty.
* The joystick's four directions share nothing but the files; one is modelled.

## 6. Plan

Done: all modules above with their runs and proofs. What could follow:

1. A second watcher in FirmwareWatch, for the lock it waits for: `Overrun` stands for
   that wait.
2. GetAlive as a list of copies with the state each had when it was copied.
