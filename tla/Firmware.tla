------------------------------- MODULE Firmware -------------------------------
(***************************************************************************)
(* The loop of a plant's ESP8266, esp/src/main.cpp, and its clock.         *)
(*                                                                         *)
(* One pass of loop() handles at most one packet, reads millis() once, and *)
(* with that reading decides whether a heartbeat is due and whether the    *)
(* pump is to stop.  millis() is an unsigned number that wraps (after 49   *)
(* days), time passes between any two steps of a pass, and the handlers    *)
(* block: save_id for 500 ms, a reading of the DHT sensor for some 250.    *)
(***************************************************************************)
EXTENDS Integers

CONSTANTS
  W,              \* 2^32: unsigned long
  HeartbeatTime,  \* HEARTBEAT_TIME
  MaxPass,        \* the longest time between two readings of the clock
  Duration        \* the durations that pump requests ask for

\* Durations are at most 1000 ms (DeviceManager_ActivatePump).
ASSUME FirmwareAssumption ==
  /\ W \in Nat
  /\ HeartbeatTime \in Nat \ {0}
  /\ MaxPass \in Nat \ {0}
  /\ Duration \subseteq Nat
  /\ W > HeartbeatTime + 2 * MaxPass
  /\ \A d \in Duration : W > d + 2 * MaxPass

VARIABLES
  millis,        \* millis()
  place,         \* where the pass stands; "off" without power
  currTime,      \* curr_time
  prevTime,      \* prev_time
  haveId,        \* have_id
  pumpOn,        \* pump_on, and the level of PUMP_PIN
  pumpStart,     \* pump_start
  pumpDuration,  \* pump_duration
  passAge,       \* history: time since the clock was read
  quiet,         \* history: time since the last heartbeat, or since the id came
  pumping        \* history: time since the pump was switched on

loopVars == <<place, currTime, prevTime, haveId>>
pumpVars == <<pumpOn, pumpStart, pumpDuration>>
ageVars  == <<passAge, quiet, pumping>>
firmwareVars == <<millis, loopVars, pumpVars, ageVars>>

Time == 0..(W - 1)

\* Plausible mistakes; no specification uses them.
SignedSince(t, start) == t - start
NoWrap(t)             == t + 1
DeadlinePassed        == currTime > (pumpStart + pumpDuration) % W
PassStart             == currTime

\* Subtraction and increment of unsigned numbers.
Since(t, start) == (t - start) % W
Advance(t)      == (t + 1) % W

\* setup() took its prev_time before autoConnect, which may wait for a person
\* to type the password: any time may have passed.
FirmwareInit ==
  /\ millis \in Time /\ prevTime \in Time
  /\ place = "udp"
  /\ currTime = 0
  /\ haveId \in BOOLEAN
  /\ pumpOn = FALSE /\ pumpStart = 0 /\ pumpDuration = 0
  /\ passAge = 0 /\ quiet = 0 /\ pumping = 0

------------------------------------------------------------------------------
\* udp_loop found no packet, or one with a request for a reading: nothing
\* changes but the time.
NoPacket ==
  /\ place = "udp"
  /\ place' = "clock"
  /\ UNCHANGED <<millis, currTime, prevTime, haveId, pumpVars, ageVars>>

\* handle_register.
GetId ==
  /\ place = "udp"
  /\ place' = "clock"
  /\ haveId' = TRUE
  /\ quiet' = IF haveId THEN quiet ELSE 0
  /\ UNCHANGED <<millis, currTime, prevTime, pumpVars, passAge, pumping>>

StartTime == millis

\* handle_pump, activate_pump.
GetPump(d) ==
  /\ place = "udp"
  /\ place' = "clock"
  /\ pumpOn' = TRUE
  /\ pumpStart' = StartTime
  /\ pumpDuration' = d
  /\ pumping' = 0
  /\ UNCHANGED <<millis, currTime, prevTime, haveId, passAge, quiet>>

ReadClock ==
  /\ place = "clock"
  /\ place' = "beat"
  /\ currTime' = millis
  /\ passAge' = 0
  /\ UNCHANGED <<millis, prevTime, haveId, pumpVars, quiet, pumping>>

BeatDue == Since(currTime, prevTime) >= HeartbeatTime

\* send_heartbeat, if it is time.
Beat ==
  /\ place = "beat"
  /\ place' = "pump"
  /\ IF haveId /\ BeatDue
     THEN prevTime' = currTime /\ quiet' = 0
     ELSE UNCHANGED <<prevTime, quiet>>
  /\ UNCHANGED <<millis, currTime, haveId, pumpVars, passAge, pumping>>

PumpDue == Since(currTime, pumpStart) > pumpDuration

StopPump ==
  /\ place = "pump"
  /\ place' = "udp"
  /\ IF pumpOn /\ PumpDue
     THEN pumpOn' = FALSE /\ pumping' = 0
     ELSE UNCHANGED <<pumpOn, pumping>>
  /\ UNCHANGED <<millis, currTime, prevTime, haveId, pumpStart, pumpDuration,
                 passAge, quiet>>

\* Memory is lost, and the pump stops.
PowerFails ==
  /\ place # "off"
  /\ place' = "off"
  /\ pumpOn' = FALSE
  /\ pumping' = 0
  \* inside handle_register the id may not be in flash yet
  /\ haveId' \in IF place = "clock" THEN {haveId, FALSE} ELSE {haveId}
  /\ currTime' = 0
  /\ pumpStart' = 0
  /\ pumpDuration' = 0
  /\ UNCHANGED <<millis, prevTime, passAge, quiet>>

PowerReturns ==
  /\ place = "off"
  /\ millis' \in Time /\ prevTime' \in Time
  /\ place' = "udp"
  /\ passAge' = 0
  /\ quiet' = 0
  /\ UNCHANGED <<currTime, haveId, pumpVars, pumping>>

\* A pass does not last longer than MaxPass.
FirmwareTick ==
  \/ /\ place = "off"
     /\ UNCHANGED firmwareVars
  \/ /\ place # "off"
     /\ passAge < MaxPass
     /\ millis' = Advance(millis)
     /\ passAge' = passAge + 1
     /\ quiet' = IF haveId THEN quiet + 1 ELSE 0
     /\ pumping' = IF pumpOn THEN pumping + 1 ELSE 0
     /\ UNCHANGED <<loopVars, pumpVars>>

\* Steps that take no time and that no other party sees.
Inner == NoPacket \/ (\E d \in Duration : GetPump(d)) \/ ReadClock \/ StopPump

FirmwareNext ==
  Inner \/ GetId \/ Beat \/ PowerFails \/ PowerReturns \/ FirmwareTick

FirmwareSpec == FirmwareInit /\ [][FirmwareNext]_firmwareVars

------------------------------------------------------------------------------
FirmwareTypeOK ==
  /\ millis \in Time /\ currTime \in Time /\ prevTime \in Time
  /\ pumpStart \in Time
  /\ place \in {"off", "udp", "clock", "beat", "pump"}
  /\ haveId \in BOOLEAN
  /\ pumpOn \in BOOLEAN
  /\ pumpDuration \in Duration \cup {0}
  /\ passAge \in 0..MaxPass /\ quiet \in Nat /\ pumping \in Nat

\* The pump that was told to run for d ms runs no longer than the rest of two
\* passes beyond that, also when millis() wraps meanwhile (main.cpp:324).
PumpOffInTime == pumpOn => pumping <= pumpDuration + 2 * MaxPass

\* It is not switched off before its time, except by a power failure.
PumpRunsOut ==
  [][ pumpOn /\ ~pumpOn' /\ place' # "off" => pumping > pumpDuration ]_firmwareVars

\* A plant that has its id is never silent for longer than the heartbeat's
\* period and three passes: one before the clock is read that sees the id, one
\* at the end of the period, and the one that sends (main.cpp:318).
HeartbeatGap == place # "off" /\ haveId => quiet < HeartbeatTime + 3 * MaxPass
===============================================================================
