-------------------------- MODULE FirmwareWatchProofs --------------------------
(***************************************************************************)
(* The time in which a plant is declared dead, and for what: for every     *)
(* period, timeout, delay and size of the clocks.                          *)
(***************************************************************************)
EXTENDS FirmwareWatch, FirmwareProofs

------------------------------------------------------------------------------
(* Arithmetic of the server's clock.                                       *)

Clock == 0..(Wrap - 1)
Elapsed(t, s) == (t - s) % Wrap

\* Timeout * Second, the watcher's sleep.
Sleep == Timeout * Second

LEMMA ModIs ==
  ASSUME NEW n \in Nat \ {0}, NEW x \in Int, -n <= x, x < n
  PROVE  x % n = IF x >= 0 THEN x ELSE x + n
<1>1. CASE x >= 0
  BY <1>1, Z3
<1>2. CASE x < 0
  BY <1>2, Z3
<1> QED BY <1>1, <1>2

LEMMA NextIs ==
  ASSUME NEW n \in Nat \ {0}, NEW x \in 0..(n - 1)
  PROVE  (x + 1) % n = IF x = n - 1 THEN 0 ELSE x + 1
<1>1. CASE x = n - 1
  <2>1. n % n = 0
    BY Z3
  <2> QED BY <1>1, <2>1
<1>2. CASE x # n - 1
  BY <1>2, ModIs
<1> QED BY <1>1, <1>2

LEMMA Sizes ==
  /\ Sleep \in Nat \ {0} /\ Second \in Nat \ {0} /\ Wrap \in Nat \ {0}
  /\ Overrun \in Nat /\ MaxDelay \in Nat /\ HeartbeatTime \in Nat /\ MaxPass \in Nat
  /\ Detection = 2 * Sleep + Second + 2 * Overrun
  /\ Gap \in Nat /\ Horizon \in Nat /\ Gap <= Horizon /\ Detection <= Horizon
  /\ Second * Wrap > Horizon + Second
<1>1. Sleep \in Nat \ {0}
  <2>1. Timeout * Second > 0
    BY WatchAssumption, Z3 DEF WatchAssumption
  <2> QED BY <2>1, WatchAssumption DEF WatchAssumption, Sleep
<1>2. (2 * Timeout + 1) * Second = 2 * Sleep + Second
  BY WatchAssumption DEF WatchAssumption, Sleep
<1>3. Detection = 2 * Sleep + Second + 2 * Overrun
  BY <1>2 DEF Detection
<1>4. Gap \in Nat
  BY WatchAssumption, FirmwareAssumption DEF WatchAssumption, FirmwareAssumption, Gap
<1>5. Detection \in Nat
  BY <1>1, <1>3, WatchAssumption DEF WatchAssumption
<1>6. Horizon \in Nat /\ Gap <= Horizon /\ Detection <= Horizon
  BY <1>4, <1>5 DEF Horizon
<1>7. Second * Wrap > Horizon + Second
  BY WatchAssumption DEF WatchAssumption
<1>8. Wrap # 0
  BY <1>6, <1>7, WatchAssumption DEF WatchAssumption
<1> QED
  BY <1>1, <1>3, <1>4, <1>6, <1>7, <1>8, WatchAssumption, FirmwareAssumption
  DEF WatchAssumption, FirmwareAssumption

\* Seconds that pass, in ticks.
LEMMA InTicks ==
  ASSUME NEW e \in Nat
  PROVE  /\ Second * e \in Nat /\ Second * (e + 1) = Second * e + Second
         /\ e <= Timeout => Second * e <= Sleep
         /\ e > Timeout => Second * e >= Sleep + Second
         /\ Second * e < Second * Wrap => e < Wrap
<1> DEFINE T == Timeout
           S == Second
<1>0. T \in Nat /\ S \in Nat /\ S > 0 /\ Wrap \in Nat /\ Sleep = S * T
  BY Sizes, WatchAssumption DEF WatchAssumption, Sleep
<1> HIDE DEF T, S
<1>1. ASSUME NEW a \in Nat, NEW b \in Nat, a <= b PROVE S * a <= S * b
  <2>1. S * (b - a) >= 0
    BY <1>0, <1>1
  <2> QED BY <1>0, <2>1
<1>2. S * e \in Nat /\ S * (e + 1) = S * e + S /\ S * (T + 1) = Sleep + S
  BY <1>0
<1>3. e <= T => S * e <= Sleep
  BY <1>0, <1>1
<1>4. e > T => S * e >= Sleep + S
  BY <1>0, <1>1, <1>2
<1>5. S * e < S * Wrap => e < Wrap
  <2>1. e >= Wrap => S * e >= S * Wrap
    BY <1>0, <1>1
  <2> QED BY <1>0, <1>2, <2>1
<1> QED BY <1>2, <1>3, <1>4, <1>5 DEF S, T

LEMMA ElapsedIs ==
  ASSUME NEW t \in Clock, NEW s \in Clock
  PROVE  /\ Elapsed(t, s) = IF t >= s THEN t - s ELSE t - s + Wrap
         /\ Elapsed(t, s) \in Clock
<1>1. t - s \in Int /\ -Wrap <= t - s /\ t - s < Wrap
  BY Sizes DEF Clock
<1>2. (t - s) % Wrap = IF t - s >= 0 THEN t - s ELSE t - s + Wrap
  BY <1>1, Sizes, ModIs
<1> QED BY <1>2, Sizes DEF Elapsed, Clock

LEMMA ElapsedSelf ==
  ASSUME NEW t \in Clock PROVE Elapsed(t, t) = 0
BY ElapsedIs, Sizes DEF Clock

LEMMA ElapsedZero ==
  ASSUME NEW t \in Clock, NEW s \in Clock, Elapsed(t, s) = 0
  PROVE  t = s
<1>1. Elapsed(t, s) = IF t >= s THEN t - s ELSE t - s + Wrap
  BY ElapsedIs
<1> QED BY <1>1, Sizes DEF Clock

\* The next second is one later, until the clock is round.
LEMMA ElapsedTick ==
  ASSUME NEW t \in Clock, NEW s \in Clock
  PROVE  /\ (t + 1) % Wrap \in Clock
         /\ Elapsed(t, s) + 1 < Wrap => Elapsed((t + 1) % Wrap, s) = Elapsed(t, s) + 1
<1> DEFINE u == (t + 1) % Wrap
<1>1. u = (IF t = Wrap - 1 THEN 0 ELSE t + 1) /\ u \in Clock
  BY Sizes, NextIs DEF Clock
<1> HIDE DEF u
<1>2. Elapsed(t, s) = IF t >= s THEN t - s ELSE t - s + Wrap
  BY ElapsedIs
<1>3. Elapsed(u, s) = IF u >= s THEN u - s ELSE u - s + Wrap
  BY <1>1, ElapsedIs
<1>4. Elapsed(t, s) + 1 < Wrap => Elapsed(u, s) = Elapsed(t, s) + 1
  BY <1>1, <1>2, <1>3, Sizes DEF Clock
<1> QED BY <1>1, <1>4 DEF u

------------------------------------------------------------------------------
(* The invariant.                                                          *)

WatchTypes ==
  /\ sec \in Clock /\ ms \in 0..(Second - 1)
  /\ flight \subseteq 0..MaxDelay
  /\ state \in {"NONE", "ALIVE", "TIMEOUT"}
  /\ lastSeen \in Clock
  /\ watcher \in {"none", "sleep", "lock"}
  /\ slept \in 0..(Sleep + Overrun)
  /\ checkTime \in Clock
  /\ beats \in {"none", "good", "lost"}
  /\ unseen \in 0..(Horizon + 1)

\* The seconds since the last heartbeat are the ticks since, up to rounding.
SeenInv ==
  state # "NONE" /\ unseen <= Horizon =>
    LET ticks == Second * Elapsed(sec, lastSeen) + ms
    IN unseen <= ticks /\ ticks < unseen + Second

\* How long a device has been unseen while it is watched.
WatchedInv ==
  /\ watcher # "none" => state = "ALIVE" /\ unseen < Sleep + Second + Overrun + slept
  /\ watcher = "lock" => /\ slept >= Sleep
                         /\ ~Stale => unseen < Second + slept

\* How long a watcher has waited for the lock since it read the clock, ...
WaitInv ==
  watcher = "lock" =>
    /\ Elapsed(sec, checkTime) <= slept - Sleep
    /\ Second * Elapsed(sec, checkTime) + ms < slept - Sleep + Second

\* ... and whether a heartbeat came meanwhile.
StaleInv ==
  watcher = "lock" =>
    \/ Elapsed(lastSeen, checkTime) <= Elapsed(sec, checkTime)
    \/ Stale => unseen > Sleep

\* What was sent has come or will come in time.
BeatsInv ==
  /\ beats # "lost" => place # "off" /\ (flight # {} \/ beats = "good" => haveId)
  /\ beats = "good" =>
       unseen <= quiet \/ \E a \in flight : unseen <= a + HeartbeatTime + 3 * MaxPass

WatchInv ==
  Inv /\ WatchTypes /\ SeenInv /\ WatchedInv /\ WaitInv /\ StaleInv /\ BeatsInv

\* The plant does what Firmware says.
LEMMA PlantSteps == [Next]_vars => [FirmwareNext]_firmwareVars
BY DEF Next, vars, Plant, SendBeat, PlantReset, Register, ReceiveId, Arrive, Lose, Wake,
       Check, Tick, FirmwareNext

LEMMA WatchInit == Init => WatchInv
<1> SUFFICES ASSUME Init PROVE WatchInv
  OBVIOUS
<1> USE Sizes DEF Init
<1>1. Inv
  BY InitInv
<1>2. WatchTypes
  BY DEF WatchTypes, Clock
<1>3. SeenInv /\ WatchedInv /\ WaitInv /\ StaleInv
  BY DEF SeenInv, WatchedInv, WaitInv, StaleInv
<1>4. BeatsInv
  BY DEF BeatsInv, FirmwareInit
<1> QED BY <1>1, <1>2, <1>3, <1>4 DEF WatchInv

\* A heartbeat or a registration request comes.
LEMMA HeardStep ==
  ASSUME WatchInv, NEW w \in {"none", "sleep", "lock"}, Heard(w),
         w = "lock" => watcher = "lock", w = watcher \/ w # "lock"
  PROVE  SeenInv' /\ WatchedInv' /\ WaitInv' /\ StaleInv'
<1> USE DEF WatchInv, Heard
<1>1. sec \in Clock /\ ms \in 0..(Second - 1)
  BY DEF WatchTypes
<1>2. SeenInv'
  <2>1. Elapsed(sec, sec) = 0 /\ Second * 0 = 0
    BY <1>1, Sizes, ElapsedSelf
  <2> QED BY <1>1, <2>1, Sizes DEF SeenInv
<1>3. WatchedInv'
  BY Sizes DEF WatchedInv, WatchTypes
<1>4. WaitInv'
  BY DEF WaitInv
<1>5. StaleInv'
  <2>1. w = "lock" => Elapsed(sec, checkTime) \in Clock
    BY ElapsedIs DEF WatchTypes
  <2> QED BY <1>1, <2>1, Sizes DEF StaleInv, Clock
<1> QED BY <1>2, <1>3, <1>4, <1>5

\* One tick of the server's clock.
LEMMA ClockTick ==
  ASSUME sec \in Clock, ms \in 0..(Second - 1), NEW s \in Clock, Tick,
         Second * Elapsed(sec, s) + ms < Horizon + Second
  PROVE  LET before == Second * Elapsed(sec, s) + ms
             after  == Second * Elapsed(sec', s) + ms'
         IN /\ after = before + 1
            /\ Elapsed(sec', s) \in Elapsed(sec, s)..(Elapsed(sec, s) + 1)
<1> DEFINE e == Elapsed(sec, s)
<1>1. e \in Clock /\ e \in Nat
  BY ElapsedIs DEF Clock
<1>2. ms' = IF ms = Second - 1 THEN 0 ELSE ms + 1
  BY Sizes, NextIs DEF Tick
<1>3. CASE ms = Second - 1
  <2>1. sec' = (sec + 1) % Wrap
    BY <1>2, <1>3 DEF Tick
  <2>2. Second * (e + 1) = Second * e + Second /\ Second * e \in Nat
    BY <1>1, InTicks
  <2>3. Second * (e + 1) < Second * Wrap
    BY <1>3, <2>2, Sizes
  <2>4. e + 1 < Wrap
    BY <1>1, <2>3, InTicks
  <2>5. Elapsed(sec', s) = e + 1
    BY <2>1, <2>4, ElapsedTick
  <2> HIDE DEF e
  <2>6. Second * Elapsed(sec', s) + ms' = Second * e + ms + 1
    BY <1>2, <1>3, <2>2, <2>5, Sizes
  <2>7. Elapsed(sec', s) \in e..(e + 1)
    BY <1>1, <2>5
  <2> QED BY <2>6, <2>7 DEF e
<1>4. CASE ms # Second - 1
  <2>1. sec' = sec /\ ms' = ms + 1
    BY <1>2, <1>4, Sizes DEF Tick
  <2>2. Second * e \in Nat
    BY <1>1, InTicks
  <2>3. Second * Elapsed(sec', s) + ms' = Second * e + ms + 1
    BY <2>1, <2>2
  <2>4. Elapsed(sec', s) \in e..(e + 1)
    BY <1>1, <2>1
  <2> QED BY <2>3, <2>4
<1> QED BY <1>3, <1>4

LEMMA TickStep == WatchInv /\ Tick => WatchInv'
<1> SUFFICES ASSUME WatchInv, Tick PROVE WatchInv'
  OBVIOUS
<1> USE DEF WatchInv, Tick
<1>1. Inv'
  BY StepInv DEF FirmwareNext
<1>2. WatchTypes'
  <2>1. sec' \in Clock
    BY ElapsedTick DEF WatchTypes
  <2>2. ms' \in 0..(Second - 1)
    BY Sizes, NextIs DEF WatchTypes
  <2>3. flight' \subseteq 0..MaxDelay
    BY Sizes DEF WatchTypes
  <2>4. slept' \in 0..(Sleep + Overrun)
    BY Sizes DEF WatchTypes, Sleep
  <2>5. unseen' \in 0..(Horizon + 1)
    BY Sizes DEF WatchTypes
  <2> QED BY <2>1, <2>2, <2>3, <2>4, <2>5 DEF WatchTypes
<1>3. SeenInv'
  <2> SUFFICES ASSUME state # "NONE", unseen' <= Horizon
               PROVE  LET ticks == Second * Elapsed(sec', lastSeen) + ms'
                      IN unseen' <= ticks /\ ticks < unseen' + Second
    BY DEF SeenInv
  <2> DEFINE ticks == Second * Elapsed(sec, lastSeen) + ms
  <2>1. unseen' = unseen + 1 /\ unseen < Horizon
    BY Sizes DEF WatchTypes
  <2>2. unseen <= ticks /\ ticks < unseen + Second
    BY <2>1, Sizes DEF SeenInv, WatchTypes
  <2>3. ticks \in Nat
    <3>1. Elapsed(sec, lastSeen) \in Nat
      BY ElapsedIs DEF WatchTypes, Clock
    <3> QED BY <3>1, InTicks, Sizes DEF WatchTypes
  <2>4. ticks < Horizon + Second
    BY <2>1, <2>2, <2>3, Sizes DEF WatchTypes
  <2>5. Second * Elapsed(sec', lastSeen) + ms' = ticks + 1
    BY <2>4, ClockTick DEF WatchTypes
  <2> HIDE DEF ticks
  <2> QED BY <2>1, <2>2, <2>3, <2>5, Sizes DEF WatchTypes
<1>4. WatchedInv'
  <2>1. UNCHANGED <<state, watcher, lastSeen, checkTime>> /\ (Stale' <=> Stale)
    BY DEF Stale
  <2>2. watcher # "none" => slept' = slept + 1 /\ unseen' <= unseen + 1 /\ unseen' \in Nat
    BY Sizes DEF WatchTypes
  <2> QED BY <2>1, <2>2, Sizes DEF WatchedInv, WatchTypes
<1>5. WaitInv' /\ StaleInv'
  <2> SUFFICES ASSUME watcher = "lock" PROVE WaitInv' /\ StaleInv'
    BY DEF WaitInv, StaleInv
  <2> DEFINE k == Elapsed(sec, checkTime)
             next == Elapsed(sec', checkTime)
  <2>1. slept \in Nat /\ slept < Sleep + Overrun /\ slept' = slept + 1
    BY Sizes DEF WatchTypes, Sleep
  <2>2. k \in Nat /\ next \in Nat
    <3>1. sec \in Clock /\ sec' \in Clock /\ checkTime \in Clock
      BY <1>2 DEF WatchTypes
    <3>2. k \in Clock /\ next \in Clock
      BY ONLY <3>1, ElapsedIs
    <3> QED BY <3>2, Sizes DEF Clock
  <2>3. k <= slept - Sleep /\ Second * k + ms < slept - Sleep + Second
    BY DEF WaitInv
  <2>4. Second * k + ms < Horizon + Second
    <3>1. Second * k \in Nat
      BY <2>2, InTicks
    <3> HIDE DEF k
    <3> QED BY <2>1, <2>3, <3>1, Sizes DEF WatchTypes
  <2>5. Second * next + ms' = Second * k + ms + 1 /\ next \in k..(k + 1)
    BY <2>4, ClockTick DEF WatchTypes
  <2>6. Second * k \in Nat /\ Second * next \in Nat /\ ms \in Nat /\ ms' \in Nat
    <3>1. ms \in Nat /\ ms' \in Nat
      BY <1>2, Sizes DEF WatchTypes
    <3> QED BY <2>2, <3>1, InTicks
  <2>7. WaitInv'
    <3>1. next <= slept' - Sleep /\ Second * next + ms' < slept' - Sleep + Second
      <4> HIDE DEF k, next
      <4> QED BY <2>1, <2>2, <2>3, <2>5, <2>6, Sizes
    <3> QED BY <3>1 DEF WaitInv
  <2>8. StaleInv'
    <3>1. CASE Elapsed(lastSeen, checkTime) <= k
      <4>1. Elapsed(lastSeen, checkTime) \in Nat
        BY ElapsedIs DEF WatchTypes, Clock
      <4>2. Elapsed(lastSeen, checkTime) <= next
        <5> HIDE DEF k, next
        <5> QED BY <2>2, <2>5, <3>1, <4>1
      <4> QED BY <4>2 DEF StaleInv
    <3>2. CASE Stale => unseen > Sleep
      <4>1. Stale' <=> Stale
        BY DEF Stale
      <4>2. unseen' >= unseen /\ unseen' \in Nat
        BY Sizes DEF WatchTypes
      <4> QED BY <3>2, <4>1, <4>2, Sizes DEF StaleInv, WatchTypes
    <3> QED BY <3>1, <3>2 DEF StaleInv
  <2> QED BY <2>7, <2>8
<1>6. BeatsInv'
  <2>1. UNCHANGED <<place, haveId, beats>> /\ (flight' # {} <=> flight # {})
    BY DEF FirmwareTick, firmwareVars, loopVars
  <2>2. ASSUME beats = "good"
        PROVE  unseen' <= quiet'
               \/ \E a \in flight' : unseen' <= a + HeartbeatTime + 3 * MaxPass
    <3>1. place # "off" /\ haveId
      BY <2>2 DEF BeatsInv
    <3>2. quiet \in Nat /\ quiet' = quiet + 1
      BY <3>1 DEF FirmwareTick, Inv, FirmwareTypeOK
    <3>3. unseen \in Nat /\ unseen' \in Nat /\ unseen' <= unseen + 1
      BY Sizes DEF WatchTypes
    <3>4. CASE unseen <= quiet
      BY <3>2, <3>3, <3>4
    <3>5. ASSUME NEW a \in flight, unseen <= a + HeartbeatTime + 3 * MaxPass
          PROVE  \E b \in flight' : unseen' <= b + HeartbeatTime + 3 * MaxPass
      <4>1. a \in Nat
        BY Sizes DEF WatchTypes
      <4>2. a + 1 \in flight'
        OBVIOUS
      <4>3. unseen' <= (a + 1) + HeartbeatTime + 3 * MaxPass
        BY <3>3, <3>5, <4>1, Sizes
      <4> QED BY <4>2, <4>3
    <3> QED BY <2>2, <3>4, <3>5 DEF BeatsInv
  <2> QED BY <2>1, <2>2 DEF BeatsInv
<1> QED BY <1>1, <1>2, <1>3, <1>4, <1>5, <1>6

\* The watcher reads the clock.
LEMMA WakeStep == WatchInv /\ Wake => WatchInv'
<1> SUFFICES ASSUME WatchInv, Wake PROVE WatchInv'
  OBVIOUS
<1> USE DEF WatchInv, Wake
<1>1. Inv'
  BY StepInv
<1>2. WatchTypes'
  BY DEF WatchTypes
<1>3. SeenInv' /\ BeatsInv'
  BY DEF SeenInv, BeatsInv, firmwareVars, loopVars, ageVars
<1> DEFINE e == Elapsed(sec, lastSeen)
<1>4. e \in Nat /\ ms \in 0..(Second - 1) /\ unseen \in Nat /\ slept \in Nat
  <2>1. e \in Clock
    BY ElapsedIs DEF WatchTypes
  <2> QED BY <2>1, Sizes DEF WatchTypes, Clock
<1>5. Second * e \in Nat /\ (e <= Timeout => Second * e <= Sleep)
      /\ (e > Timeout => Second * e >= Sleep + Second)
  BY <1>4, InTicks
<1>6. Stale' <=> e > Timeout
  BY DEF Stale, Elapsed
<1>7. /\ unseen <= Horizon
      /\ unseen <= Second * e + ms /\ Second * e + ms < unseen + Second
  <2>1. state = "ALIVE" /\ unseen < Sleep + Second + Overrun + slept
    BY DEF WatchedInv
  <2>2. unseen <= Horizon
    BY <2>1, <1>4, Sizes DEF WatchTypes
  <2> QED BY <2>1, <2>2 DEF SeenInv
<1> HIDE DEF e
<1>8. WatchedInv'
  <2>1. slept >= Sleep
    BY DEF Sleep
  <2>2. e <= Timeout => unseen < Second + slept
    BY <1>4, <1>5, <1>7, <2>1, Sizes
  <2>3. ~Stale' => unseen < Second + slept
    BY <1>4, <1>6, <2>2, WatchAssumption DEF WatchAssumption
  <2> QED BY <2>1, <2>3 DEF WatchedInv
<1>9. WaitInv'
  <2>1. Elapsed(sec, sec) = 0 /\ Second * 0 = 0
    BY ElapsedSelf, Sizes DEF WatchTypes
  <2>2. slept >= Sleep
    BY DEF Sleep
  <2> QED BY <1>4, <2>1, <2>2, Sizes DEF WaitInv
<1>10. StaleInv'
  <2>1. e > Timeout => unseen > Sleep
    BY <1>4, <1>5, <1>7, Sizes
  <2> QED BY <1>6, <2>1 DEF StaleInv
<1> QED BY <1>1, <1>2, <1>3, <1>8, <1>9, <1>10

\* What the plant does between two ticks.
LEMMA PlantStep ==
  ASSUME WatchInv, [FirmwareNext]_firmwareVars, BeatsInv', WatchTypes',
         UNCHANGED <<sec, ms, state, lastSeen, watchVars, unseen>>
  PROVE  WatchInv'
<1> USE DEF WatchInv, watchVars
<1>1. Inv'
  BY StepInv
<1>2. SeenInv' /\ WatchedInv' /\ WaitInv' /\ StaleInv'
  BY DEF SeenInv, WatchedInv, WaitInv, StaleInv, Stale
<1> QED BY <1>1, <1>2

LEMMA WatchStep == WatchInv /\ [Next]_vars => WatchInv'
<1> SUFFICES ASSUME WatchInv, [Next]_vars PROVE WatchInv'
  OBVIOUS
<1> USE DEF WatchInv
<1>0. [FirmwareNext]_firmwareVars
  BY PlantSteps
<1>1. CASE Plant
  <2>1. WatchTypes'
    BY <1>1 DEF Plant, serverVars, watchVars, WatchTypes
  <2>2. UNCHANGED <<haveId, quiet>> /\ place' # "off"
    BY <1>1 DEF Plant, Inner, NoPacket, GetPump, ReadClock, StopPump, ageVars, pumpVars
  <2>3. BeatsInv'
    BY <1>1, <2>2 DEF Plant, serverVars, BeatsInv
  <2> QED BY <1>0, <1>1, <2>1, <2>3, PlantStep DEF Plant, serverVars
<1>2. CASE SendBeat
  <2>1. WatchTypes'
    BY <1>2, Sizes DEF SendBeat, watchVars, WatchTypes
  <2>2. BeatsInv'
    <3>1. place # "off" /\ place' # "off" /\ haveId' = haveId
      BY <1>2 DEF SendBeat, Beat
    <3>2. beats # "lost" => (flight' # {} \/ beats = "good" => haveId)
      BY <1>2 DEF SendBeat, BeatsInv
    <3>3. ASSUME beats = "good"
          PROVE  unseen <= quiet'
                 \/ \E a \in flight' : unseen <= a + HeartbeatTime + 3 * MaxPass
      <4>1. quiet \in Nat /\ quiet' \in {0, quiet} /\ unseen \in Nat
        BY <1>2, Sizes DEF SendBeat, Beat, Inv, FirmwareTypeOK, WatchTypes
      <4>2. quiet < HeartbeatTime + 3 * MaxPass
        BY <3>1, <3>3, GapInv DEF HeartbeatGap, BeatsInv
      <4>3. flight \subseteq flight' /\ (quiet' = quiet \/ 0 \in flight')
        BY <1>2 DEF SendBeat, Beat
      <4>4. CASE unseen <= quiet /\ 0 \in flight'
        <5>1. unseen <= 0 + HeartbeatTime + 3 * MaxPass
          BY <4>1, <4>2, <4>4, Sizes
        <5> QED BY <4>4, <5>1
      <4> QED BY <3>3, <4>3, <4>4 DEF BeatsInv
    <3> QED BY <1>2, <3>1, <3>2, <3>3 DEF SendBeat, BeatsInv
  <2> QED BY <1>0, <1>2, <2>1, <2>2, PlantStep DEF SendBeat
<1>3. CASE PlantReset
  <2>1. WatchTypes'
    BY <1>3 DEF PlantReset, watchVars, WatchTypes
  <2>2. BeatsInv'
    BY <1>3 DEF PlantReset, BeatsInv
  <2> QED BY <1>0, <1>3, <2>1, <2>2, PlantStep DEF PlantReset
<1>4. CASE Register
  <2>1. WatchTypes'
    BY <1>4, Sizes DEF Register, Heard, WatchTypes
  <2>2. SeenInv' /\ WatchedInv' /\ WaitInv' /\ StaleInv'
    BY <1>4, HeardStep DEF Register
  <2>3. BeatsInv'
    BY <1>4 DEF Register, BeatsInv, firmwareVars, loopVars
  <2> QED BY <1>0, <2>1, <2>2, <2>3, StepInv
<1>5. CASE ReceiveId
  <2>1. WatchTypes'
    BY <1>5 DEF ReceiveId, serverVars, watchVars, WatchTypes
  <2>2. place' # "off" /\ haveId' /\ (haveId => quiet' = quiet)
    BY <1>5 DEF ReceiveId, GetId
  <2>3. BeatsInv'
    BY <1>5, <2>2 DEF ReceiveId, serverVars, BeatsInv
  <2> QED BY <1>0, <1>5, <2>1, <2>3, PlantStep DEF ReceiveId, serverVars
<1>6. ASSUME NEW a \in flight, Arrive(a) PROVE WatchInv'
  <2>1. PICK w \in {"none", "sleep", "lock"} :
          Heard(w) /\ (w = "lock" => watcher = "lock") /\ (w = watcher \/ w # "lock")
    <3>1. CASE state = "ALIVE"
      BY <1>6, <3>1 DEF Arrive, WatchTypes
    <3>2. CASE state = "NONE"
      BY <1>6, <3>2 DEF Arrive
    <3>3. CASE state = "TIMEOUT"
      BY <1>6, <3>3 DEF Arrive
    <3> QED BY <3>1, <3>2, <3>3 DEF WatchTypes
  <2>2. WatchTypes'
    BY <1>6, <2>1, Sizes DEF Arrive, Heard, WatchTypes
  <2>3. SeenInv' /\ WatchedInv' /\ WaitInv' /\ StaleInv'
    BY <2>1, HeardStep
  <2>4. BeatsInv'
    <3>1. UNCHANGED <<place, haveId, quiet>> /\ quiet \in Nat
      BY <1>6 DEF Arrive, firmwareVars, loopVars, ageVars, Inv, FirmwareTypeOK
    <3>2. beats' # "lost" => beats # "lost"
      BY <1>6 DEF Arrive
    <3>3. unseen' <= quiet'
      BY <2>1, <3>1 DEF Heard
    <3> QED BY <1>6, <3>1, <3>2, <3>3 DEF BeatsInv
  <2> QED BY <1>0, <2>2, <2>3, <2>4, StepInv
<1>7. ASSUME NEW a \in flight, Lose(a) PROVE WatchInv'
  <2>1. WatchTypes'
    BY <1>7 DEF Lose, watchVars, WatchTypes
  <2>2. BeatsInv'
    BY <1>7 DEF Lose, BeatsInv
  <2> QED BY <1>0, <1>7, <2>1, <2>2, PlantStep DEF Lose
<1>8. CASE Wake
  BY <1>8, WakeStep
<1>9. CASE Check
  <2>1. WatchTypes'
    BY <1>9, Sizes DEF Check, WatchTypes, Clock
  <2>2. SeenInv' /\ WaitInv' /\ StaleInv' /\ BeatsInv'
    BY <1>9 DEF Check, SeenInv, WaitInv, StaleInv, BeatsInv, WatchedInv,
                firmwareVars, loopVars, ageVars
  <2>3. WatchedInv'
    <3>1. CASE Stale
      BY <1>9, <3>1 DEF Check, WatchedInv
    <3>2. CASE ~Stale
      <4>1. unseen < Second + slept /\ slept <= Sleep + Overrun
        BY <1>9, <3>2, Sizes DEF Check, WatchedInv, WatchTypes
      <4>2. unseen < Sleep + Second + Overrun + 0
        BY <4>1, Sizes DEF WatchTypes
      <4> QED BY <1>9, <3>2, <4>2 DEF Check, WatchedInv
    <3> QED BY <3>1, <3>2
  <2> QED BY <1>0, <2>1, <2>2, <2>3, StepInv
<1>10. CASE Tick
  BY <1>10, TickStep
<1>11. CASE UNCHANGED vars
  <2>1. WatchTypes' /\ BeatsInv'
    BY <1>11 DEF vars, serverVars, watchVars, WatchTypes, BeatsInv, firmwareVars, loopVars,
                 ageVars
  <2> QED BY <1>0, <1>11, <2>1, PlantStep DEF vars, serverVars
<1> QED BY <1>1, <1>2, <1>3, <1>4, <1>5, <1>6, <1>7, <1>8, <1>9, <1>10, <1>11 DEF Next

LEMMA WatchAlways == Spec => []WatchInv
  BY WatchInit, WatchStep, PTL DEF Spec

------------------------------------------------------------------------------
(* What follows.                                                           *)

\* Together with the network and the server the plant is still the one of
\* Firmware: all that is proved of it there holds here.
THEOREM PlantIsFirmware == Spec => FirmwareSpec
<1>1. Init => FirmwareInit
  BY DEF Init
<1> QED BY <1>1, PlantSteps, PTL DEF Spec, FirmwareSpec

\* Clocks, flights and the watcher's place keep their types.
THEOREM WatchTypeCorrectness == Spec => []TypeOK
<1>1. WatchInv => TypeOK
  BY DEF WatchInv, Inv, WatchTypes, TypeOK, Clock, Sleep
<1> QED BY <1>1, WatchAlways, PTL

\* A watched plant that falls silent is declared dead within two sleeps of the
\* watcher, a second, and twice what a sleep takes too long.
THEOREM DetectionIsBounded == Spec => []DetectionBound
<1>1. WatchInv => DetectionBound
  <2> SUFFICES ASSUME WatchInv, watcher # "none" PROVE unseen < Detection
    BY DEF DetectionBound
  <2> QED BY Sizes DEF WatchInv, WatchedInv, WatchTypes
<1> QED BY <1>1, WatchAlways, PTL

\* A plant that is heard of as it should be is declared dead only in the margin
\* between the timeout and the longest gap, or past a heartbeat that came while
\* the watcher waited for the lock.
THEOREM FalseTimeoutsInMargin == Spec => FalseTimeoutInMargin
<1>1. WatchInv /\ [Next]_vars =>
        [ state = "ALIVE" /\ state' = "TIMEOUT" /\ beats = "good" =>
            \/ unseen \in (Timeout * Second + 1)..Gap
            \/ (lastSeen - checkTime) % Wrap \in 1..Overrun ]_vars
  <2> SUFFICES ASSUME WatchInv, Next, state = "ALIVE", state' = "TIMEOUT", beats = "good"
               PROVE  \/ unseen \in (Timeout * Second + 1)..Gap
                      \/ (lastSeen - checkTime) % Wrap \in 1..Overrun
    OBVIOUS
  <2> USE DEF WatchInv
  <2>1. Check /\ Stale
    BY DEF Next, Plant, SendBeat, PlantReset, Register, ReceiveId, Arrive, Lose, Wake, Check,
           Tick, Heard, serverVars
  <2>2. watcher = "lock"
    BY <2>1 DEF Check
  <2> DEFINE j == Elapsed(lastSeen, checkTime)
             k == Elapsed(sec, checkTime)
  <2>3. j \in Nat /\ k \in Nat
    <3>1. sec \in Clock /\ lastSeen \in Clock /\ checkTime \in Clock
      BY DEF WatchTypes
    <3>2. j \in Clock /\ k \in Clock
      BY ONLY <3>1, ElapsedIs
    <3> QED BY <3>2, Sizes DEF Clock
  <2>4. CASE j <= k
    <3>1. k <= Overrun
      <4>1. k <= slept - Sleep
        BY <2>2 DEF WaitInv
      <4> HIDE DEF k
      <4> QED BY <4>1, <2>3, Sizes DEF WatchTypes
    <3>2. j # 0
      <4> SUFFICES ASSUME j = 0 PROVE FALSE
        OBVIOUS
      <4>1. lastSeen = checkTime
        BY ElapsedZero DEF WatchTypes
      <4>2. (checkTime - lastSeen) % Wrap = 0
        BY <4>1, ElapsedSelf DEF WatchTypes, Elapsed
      <4> QED BY <2>1, <4>2, WatchAssumption DEF Stale, WatchAssumption
    <3> HIDE DEF k
    <3>3. j \in 1..Overrun
      BY <2>3, <2>4, <3>1, <3>2, Sizes
    <3> QED BY <3>3 DEF Elapsed
  <2>5. CASE unseen > Sleep
    <3>1. unseen <= Gap
      <4>1. quiet < HeartbeatTime + 3 * MaxPass /\ quiet \in Nat
        BY GapInv DEF HeartbeatGap, BeatsInv, Inv, FirmwareTypeOK
      <4>2. \A a \in flight : a \in 0..MaxDelay
        BY DEF WatchTypes
      <4> QED BY <4>1, <4>2, Sizes DEF BeatsInv, WatchTypes, Gap
    <3> QED BY <2>5, <3>1, Sizes DEF WatchTypes, Sleep
  <2> QED BY <2>1, <2>2, <2>4, <2>5 DEF StaleInv
<1> QED BY <1>1, WatchAlways, PTL DEF Spec, FalseTimeoutInMargin
===============================================================================
