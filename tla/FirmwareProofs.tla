---------------------------- MODULE FirmwareProofs ----------------------------
(***************************************************************************)
(* Proofs about Firmware, for every size of the clock and every length of  *)
(* a pass.                                                                 *)
(***************************************************************************)
EXTENDS Firmware, TLAPS

------------------------------------------------------------------------------
(* Arithmetic of the wrapping clock.                                       *)

\* A number on the clock is its own remainder, a negative one gets W added.
LEMMA ClockMod ==
  ASSUME NEW x \in Int, -W <= x, x < W
  PROVE  x % W = IF x >= 0 THEN x ELSE x + W
<1>1. CASE x >= 0
  BY <1>1, FirmwareAssumption, Z3 DEF FirmwareAssumption
<1>2. CASE x < 0
  BY <1>2, FirmwareAssumption, Z3 DEF FirmwareAssumption
<1> QED BY <1>1, <1>2

\* What Since is, without the remainder.
LEMMA SinceIs ==
  ASSUME NEW t \in Time, NEW s \in Time
  PROVE  /\ Since(t, s) = IF t >= s THEN t - s ELSE t - s + W
         /\ Since(t, s) \in Time
<1>1. /\ t - s \in Int /\ -W <= t - s /\ t - s < W
  BY FirmwareAssumption DEF Time, FirmwareAssumption
<1>2. (t - s) % W = IF t - s >= 0 THEN t - s ELSE t - s + W
  BY <1>1, ClockMod
<1> QED BY <1>2, FirmwareAssumption DEF Since, Time, FirmwareAssumption

LEMMA AdvanceIs ==
  ASSUME NEW t \in Time
  PROVE  /\ Advance(t) = IF t = W - 1 THEN 0 ELSE t + 1
         /\ Advance(t) \in Time
<1>1. CASE t = W - 1
  <2>1. Advance(t) = W % W
    BY <1>1, FirmwareAssumption DEF Advance, Time, FirmwareAssumption
  <2>2. W % W = 0
    BY FirmwareAssumption, Z3 DEF FirmwareAssumption
  <2> QED BY <1>1, <2>1, <2>2, FirmwareAssumption DEF Time, FirmwareAssumption
<1>2. CASE t # W - 1
  <2>1. t + 1 \in Int /\ -W <= t + 1 /\ t + 1 < W /\ t + 1 >= 0
    BY <1>2, FirmwareAssumption DEF Time, FirmwareAssumption
  <2>2. (t + 1) % W = t + 1
    BY <2>1, ClockMod
  <2> QED BY <1>2, <2>1, <2>2, FirmwareAssumption
          DEF Advance, Time, FirmwareAssumption
<1> QED BY <1>1, <1>2

\* A tick makes a time that is not yet a whole turn one longer.
LEMMA SinceTick ==
  ASSUME NEW t \in Time, NEW s \in Time, Since(t, s) + 1 < W
  PROVE  Since(Advance(t), s) = Since(t, s) + 1
<1>1. /\ Advance(t) = IF t = W - 1 THEN 0 ELSE t + 1
      /\ Advance(t) \in Time
  BY AdvanceIs
<1>2. Since(t, s) = IF t >= s THEN t - s ELSE t - s + W
  BY SinceIs
<1>3. Since(Advance(t), s) = IF Advance(t) >= s THEN Advance(t) - s
                                                ELSE Advance(t) - s + W
  BY <1>1, SinceIs
<1> QED BY <1>1, <1>2, <1>3, FirmwareAssumption DEF Time, FirmwareAssumption

\* Times add up while they stay below a turn, ...
LEMMA SinceSum ==
  ASSUME NEW t \in Time, NEW c \in Time, NEW s \in Time,
         Since(c, s) + Since(t, c) < W
  PROVE  Since(t, s) = Since(c, s) + Since(t, c)
<1>1. /\ Since(t, s) = IF t >= s THEN t - s ELSE t - s + W
      /\ Since(c, s) = IF c >= s THEN c - s ELSE c - s + W
      /\ Since(t, c) = IF t >= c THEN t - c ELSE t - c + W
  BY SinceIs
<1> QED BY <1>1, FirmwareAssumption DEF Time, FirmwareAssumption

\* ... and the earlier part is what remains.
LEMMA SinceDifference ==
  ASSUME NEW t \in Time, NEW c \in Time, NEW s \in Time,
         Since(t, s) >= Since(t, c)
  PROVE  Since(c, s) = Since(t, s) - Since(t, c)
<1>1. /\ Since(t, s) = IF t >= s THEN t - s ELSE t - s + W
      /\ Since(c, s) = IF c >= s THEN c - s ELSE c - s + W
      /\ Since(t, c) = IF t >= c THEN t - c ELSE t - c + W
  BY SinceIs
<1> QED BY <1>1, FirmwareAssumption DEF Time, FirmwareAssumption

LEMMA SinceSelf == ASSUME NEW t \in Time PROVE Since(t, t) = 0
  BY SinceIs, FirmwareAssumption DEF Time, FirmwareAssumption

------------------------------------------------------------------------------
(* The invariant.                                                          *)

\* Where curr_time is the last reading of the clock: everywhere but in the
\* first pass after boot.
ClockRead == Since(millis, currTime) = passAge

Checked == place \in {"udp", "clock"}

\* The pump's age is on the clock; at the last reading it was within the
\* duration, or is about to be found beyond it.
PumpInv ==
  pumpOn =>
    /\ Since(millis, pumpStart) = pumping
    /\ place = "udp" => passAge <= pumping /\ pumping <= pumpDuration + passAge
    /\ place = "clock" => pumping <= pumpDuration + passAge
    /\ place \in {"beat", "pump"} =>
         passAge <= pumping /\ pumping <= pumpDuration + MaxPass + passAge

\* The heartbeats are on schedule as of the last reading.
OnSchedule ==
  /\ ClockRead
  /\ Since(currTime, prevTime) < HeartbeatTime
  /\ quiet <= Since(currTime, prevTime) + passAge + MaxPass

BeatInv ==
  haveId =>
    /\ place = "pump" => OnSchedule
    /\ place \in {"udp", "clock"} => OnSchedule \/ quiet <= passAge
    /\ place = "beat" =>
         /\ quiet <= Since(currTime, prevTime) + passAge + MaxPass
         /\ quiet < HeartbeatTime + 2 * MaxPass + passAge

Inv ==
  /\ FirmwareTypeOK
  /\ place = "off" => ~pumpOn
  /\ place \in {"beat", "pump"} => ClockRead
  /\ PumpInv
  /\ BeatInv

LEMMA InitInv == FirmwareInit => Inv
<1> SUFFICES ASSUME FirmwareInit PROVE Inv
  OBVIOUS
<1> USE FirmwareAssumption DEF FirmwareInit, FirmwareAssumption
<1>1. FirmwareTypeOK
  <2>1. /\ millis \in Time /\ prevTime \in Time
        /\ currTime \in Time /\ pumpStart \in Time
        /\ passAge \in 0..MaxPass /\ quiet \in Nat /\ pumping \in Nat
        /\ pumpDuration \in Duration \cup {0}
    BY DEF Time
  <2>2. haveId \in BOOLEAN /\ pumpOn \in BOOLEAN
    BY Zenon
  <2> QED BY <2>1, <2>2 DEF FirmwareTypeOK
<1>2. PumpInv
  BY DEF PumpInv
<1>3. BeatInv
  BY DEF BeatInv
<1> QED BY <1>1, <1>2, <1>3 DEF Inv

\* Every step keeps the invariant: one case per action.
LEMMA StepInv == Inv /\ [FirmwareNext]_firmwareVars => Inv'
<1> SUFFICES ASSUME Inv, [FirmwareNext]_firmwareVars PROVE Inv'
  OBVIOUS
<1> USE FirmwareAssumption DEF Inv, loopVars, pumpVars, ageVars, FirmwareAssumption
<1>1. CASE NoPacket
  <2>1. FirmwareTypeOK'
    BY <1>1 DEF NoPacket, FirmwareTypeOK
  <2>2. PumpInv'
    BY <1>1 DEF NoPacket, PumpInv, FirmwareTypeOK, Time
  <2>3. BeatInv'
    BY <1>1 DEF NoPacket, BeatInv, OnSchedule, ClockRead, FirmwareTypeOK, Time
  <2> QED BY <1>1, <2>1, <2>2, <2>3 DEF NoPacket, Inv, ClockRead
<1>2. CASE GetId
  <2>1. FirmwareTypeOK'
    BY <1>2 DEF GetId, FirmwareTypeOK
  <2>2. PumpInv'
    BY <1>2 DEF GetId, PumpInv, FirmwareTypeOK, Time
  <2>3. BeatInv'
    BY <1>2 DEF GetId, BeatInv, OnSchedule, ClockRead, FirmwareTypeOK, Time
  <2> QED BY <1>2, <2>1, <2>2, <2>3 DEF GetId, Inv, ClockRead
<1>3. CASE (\E d \in Duration : GetPump(d))
  <2>1. FirmwareTypeOK'
    BY <1>3 DEF GetPump, StartTime, FirmwareTypeOK
  <2>2. PumpInv'
    <3>1. Since(millis, millis) = 0
      BY SinceSelf DEF FirmwareTypeOK
    <3> QED BY <1>3, <3>1 DEF GetPump, StartTime, PumpInv, FirmwareTypeOK, Time
  <2>3. BeatInv'
    BY <1>3 DEF GetPump, StartTime, BeatInv, OnSchedule, ClockRead, FirmwareTypeOK, Time
  <2> QED BY <1>3, <2>1, <2>2, <2>3 DEF GetPump, StartTime, Inv, ClockRead
<1>4. CASE ReadClock
  <2>1. FirmwareTypeOK'
    BY <1>4 DEF ReadClock, FirmwareTypeOK
  <2>2. PumpInv'
    BY <1>4 DEF ReadClock, PumpInv, FirmwareTypeOK, Time
  <2>3. ClockRead'
    BY <1>4, SinceSelf DEF ReadClock, ClockRead, FirmwareTypeOK
  <2>4. BeatInv'
    <3> SUFFICES ASSUME haveId
                 PROVE  /\ quiet <= Since(millis, prevTime) + 0 + MaxPass
                        /\ quiet < HeartbeatTime + 2 * MaxPass + 0
      BY <1>4 DEF ReadClock, BeatInv
    <3>1. Since(millis, prevTime) \in Nat
      BY SinceIs DEF FirmwareTypeOK, Time
    <3>2. CASE OnSchedule
      <4>1. Since(currTime, prevTime) \in Nat
        BY SinceIs DEF FirmwareTypeOK, Time
      <4>2. Since(millis, prevTime) = Since(currTime, prevTime) + passAge
        BY <3>2, <4>1, SinceSum DEF OnSchedule, ClockRead, FirmwareTypeOK
      <4> QED BY <3>2, <4>1, <4>2 DEF OnSchedule, FirmwareTypeOK
    <3>3. CASE quiet <= passAge
      BY <3>1, <3>3 DEF FirmwareTypeOK
    <3> QED BY <1>4, <3>2, <3>3 DEF ReadClock, BeatInv
  <2> QED BY <1>4, <2>1, <2>2, <2>3, <2>4 DEF ReadClock
<1>5. CASE Beat
  <2>1. FirmwareTypeOK'
    BY <1>5 DEF Beat, FirmwareTypeOK, BeatDue
  <2>2. PumpInv'
    BY <1>5 DEF Beat, PumpInv, FirmwareTypeOK, Time, BeatDue
  <2>3. ClockRead'
    BY <1>5 DEF Beat, ClockRead
  <2>4. BeatInv'
    <3>1. CASE haveId /\ BeatDue
      <4>1. Since(currTime, currTime) = 0
        BY SinceSelf DEF FirmwareTypeOK
      <4> QED BY <1>5, <2>3, <3>1, <4>1
              DEF Beat, BeatInv, OnSchedule, FirmwareTypeOK
    <3>2. CASE ~(haveId /\ BeatDue)
      <4>1. Since(currTime, prevTime) \in Nat
        BY SinceIs DEF FirmwareTypeOK, Time
      <4> QED BY <1>5, <2>3, <3>2, <4>1
              DEF Beat, BeatDue, BeatInv, OnSchedule, FirmwareTypeOK
    <3> QED BY <3>1, <3>2
  <2> QED BY <1>5, <2>1, <2>2, <2>3, <2>4 DEF Beat
<1>6. CASE StopPump
  <2>1. FirmwareTypeOK'
    <3>1. pumpOn' \in BOOLEAN
      BY <1>6, Zenon DEF StopPump, FirmwareTypeOK
    <3> QED BY <1>6, <3>1 DEF StopPump, FirmwareTypeOK
  <2>2. PumpInv'
    <3>1. CASE pumpOn /\ PumpDue
      BY <1>6, <3>1 DEF StopPump, PumpInv
    <3>2. CASE pumpOn /\ ~PumpDue
      <4>1. Since(currTime, pumpStart) = pumping - passAge
        BY <1>6, <3>2, SinceDifference
        DEF StopPump, PumpInv, ClockRead, FirmwareTypeOK
      <4> QED BY <1>6, <3>2, <4>1
              DEF StopPump, PumpDue, PumpInv, FirmwareTypeOK
    <3>3. CASE ~pumpOn
      BY <1>6, <3>3 DEF StopPump, PumpInv
    <3> QED BY <3>1, <3>2, <3>3
  <2>3. BeatInv'
    BY <1>6 DEF StopPump, BeatInv, OnSchedule, ClockRead
  <2> QED BY <1>6, <2>1, <2>2, <2>3 DEF StopPump
<1>7. CASE PowerFails
  <2>1. FirmwareTypeOK'
    <3>1. pumpOn' \in BOOLEAN /\ haveId' \in BOOLEAN
      BY <1>7, Zenon DEF PowerFails, FirmwareTypeOK
    <3>2. 0 \in Time
      BY DEF Time
    <3> QED BY <1>7, <3>1, <3>2 DEF PowerFails, FirmwareTypeOK
  <2>2. PumpInv'
    BY <1>7 DEF PowerFails, PumpInv, FirmwareTypeOK, Time
  <2>3. BeatInv'
    BY <1>7 DEF PowerFails, BeatInv, OnSchedule, ClockRead, FirmwareTypeOK, Time
  <2> QED BY <1>7, <2>1, <2>2, <2>3 DEF PowerFails, Inv, ClockRead
<1>8. CASE PowerReturns
  <2>1. FirmwareTypeOK'
    <3>1. pumpOn' \in BOOLEAN /\ haveId' \in BOOLEAN
      BY <1>8, Zenon DEF PowerReturns, FirmwareTypeOK
    <3> QED BY <1>8, <3>1 DEF PowerReturns, FirmwareTypeOK
  <2>2. PumpInv' /\ ~pumpOn'
    BY <1>8 DEF PowerReturns, PumpInv
  <2>3. BeatInv'
    BY <1>8 DEF PowerReturns, BeatInv
  <2> QED BY <1>8, <2>1, <2>2, <2>3 DEF PowerReturns
<1>9. CASE FirmwareTick /\ place # "off"
  <2> USE <1>9 DEF FirmwareTick
  <2>1. FirmwareTypeOK'
    <3>1. millis' \in Time
      BY AdvanceIs DEF FirmwareTypeOK
    <3> QED BY <3>1 DEF FirmwareTypeOK
  <2>2. ClockRead => ClockRead'
    BY SinceTick DEF ClockRead, FirmwareTypeOK
  <2>3. PumpInv'
    <3> SUFFICES ASSUME pumpOn PROVE PumpInv'
      BY DEF PumpInv
    <3>1. pumping + 1 < W
      <4>1. pumpDuration \in Nat /\ pumpDuration + 2 * MaxPass < W
        BY DEF FirmwareTypeOK
      <4>2. pumping <= pumpDuration + MaxPass + passAge
        BY <4>1 DEF PumpInv, FirmwareTypeOK
      <4>3. passAge \in Nat /\ pumping \in Nat /\ MaxPass \in Nat
        BY ONLY Inv, FirmwareAssumption
           DEF Inv, FirmwareTypeOK, FirmwareAssumption
      <4>4. passAge < MaxPass
        BY ONLY <1>9 DEF FirmwareTick
      <4>5. pumping + 1 <= pumpDuration + 2 * MaxPass
        BY ONLY <4>1, <4>2, <4>3, <4>4
      <4> QED BY <4>1, <4>3, <4>5
    <3>2. Since(millis', pumpStart) = pumping + 1
      BY <3>1, SinceTick DEF PumpInv, FirmwareTypeOK
    <3> QED BY <3>2 DEF PumpInv, FirmwareTypeOK
  <2>4. BeatInv'
    <3>1. Since(currTime, prevTime) \in Nat
      BY SinceIs DEF FirmwareTypeOK, Time
    <3>2. OnSchedule => OnSchedule'
      BY <2>2, <3>1 DEF OnSchedule, FirmwareTypeOK
    <3> SUFFICES ASSUME haveId PROVE BeatInv'
      BY DEF BeatInv
    <3>3. CASE place = "beat"
      BY <3>1, <3>3 DEF BeatInv, FirmwareTypeOK
    <3>4. CASE place # "beat"
      BY <3>2, <3>4 DEF BeatInv, FirmwareTypeOK
    <3> QED BY <3>3, <3>4
  <2> QED BY <2>1, <2>2, <2>3, <2>4
<1>10. CASE UNCHANGED firmwareVars
  BY <1>10 DEF firmwareVars, Inv, FirmwareTypeOK, PumpInv, BeatInv, OnSchedule, ClockRead
<1> QED BY <1>1, <1>2, <1>3, <1>4, <1>5, <1>6, <1>7, <1>8, <1>9, <1>10
        DEF FirmwareNext, Inner, FirmwareTick

LEMMA InvAlways == FirmwareSpec => []Inv
  BY InitInv, StepInv, PTL DEF FirmwareSpec

------------------------------------------------------------------------------
(* What follows.                                                           *)

\* The variables of the loop always have the values the code can give them.
THEOREM TypeCorrectness == FirmwareSpec => []FirmwareTypeOK
<1>1. Inv => FirmwareTypeOK
  BY DEF Inv
<1> QED BY <1>1, InvAlways, PTL

\* The pump stops in time, however often millis() wraps.
THEOREM PumpStopsInTime == FirmwareSpec => []PumpOffInTime
<1>1. Inv => PumpOffInTime
  <2> SUFFICES ASSUME Inv, pumpOn
               PROVE  pumping <= pumpDuration + 2 * MaxPass
    BY DEF PumpOffInTime
  <2> USE FirmwareAssumption DEF FirmwareAssumption, Inv, FirmwareTypeOK
  <2>1. pumping <= pumpDuration + MaxPass + passAge
    BY DEF PumpInv
  <2> QED BY <2>1
<1> QED BY <1>1, InvAlways, PTL

\* Nothing but a power failure stops it early.
THEOREM PumpIsNotCutShort == FirmwareSpec => PumpRunsOut
<1>1. Inv /\ [FirmwareNext]_firmwareVars =>
        [pumpOn /\ ~pumpOn' /\ place' # "off" => pumping > pumpDuration]_firmwareVars
  <2> SUFFICES ASSUME Inv, FirmwareNext, pumpOn, ~pumpOn', place' # "off"
               PROVE  pumping > pumpDuration
    OBVIOUS
  <2> USE FirmwareAssumption DEF FirmwareAssumption, Inv, FirmwareTypeOK
  <2>1. StopPump /\ PumpDue
    BY DEF FirmwareNext, Inner, NoPacket, GetId, GetPump, ReadClock, Beat,
           StopPump, PowerFails, PowerReturns, FirmwareTick, pumpVars, loopVars,
           firmwareVars
  <2>2. Since(currTime, pumpStart) = pumping - passAge
    BY <2>1, SinceDifference DEF StopPump, PumpInv, ClockRead
  <2> QED BY <2>1, <2>2 DEF PumpDue
<1> QED BY <1>1, InvAlways, PTL DEF FirmwareSpec, PumpRunsOut

LEMMA GapInv == Inv => HeartbeatGap
<1> SUFFICES ASSUME Inv, haveId, place # "off"
             PROVE  quiet < HeartbeatTime + 3 * MaxPass
  BY DEF HeartbeatGap
<1> USE FirmwareAssumption DEF FirmwareAssumption, Inv, FirmwareTypeOK
<1>1. Since(currTime, prevTime) \in Nat
  BY SinceIs DEF Time
<1>2. OnSchedule => quiet < HeartbeatTime + 3 * MaxPass
  BY <1>1 DEF OnSchedule
<1>3. quiet <= passAge => quiet < HeartbeatTime + 3 * MaxPass
  OBVIOUS
<1> QED BY <1>2, <1>3 DEF BeatInv

\* A plant with an id is not silent for longer than the period and three passes.
THEOREM HeartbeatsKeepComing == FirmwareSpec => []HeartbeatGap
BY GapInv, InvAlways, PTL
===============================================================================
