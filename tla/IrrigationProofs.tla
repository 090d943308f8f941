-------------------------- MODULE IrrigationProofs --------------------------
(***************************************************************************)
(* Theorems about Irrigation, for every set of devices, readings and       *)
(* contents of unwritten memory, and for every clock.                      *)
(***************************************************************************)
EXTENDS Irrigation, TLAPS

\* Between the read of the controller's last row and the write of the next one
\* nobody else writes the table: the row read is still the last one.
SaveInv == pc = "save" => ~Wedged(cur)

CurInv ==
  /\ pc \in {"readPid", "save"} => cur \in Id
  /\ pc # "save" => last = {}

Inv == TypeOK /\ CurInv /\ OwnRows /\ ControlBounded /\ SaveInv

\* A lone row in the second of d's latest row is d's.
LEMMA LoneRowIsOwn ==
  ASSUME NEW table, NEW d, Fits(LastRows(table, d)), NEW r \in LastRows(table, d)
  PROVE  r.id = d /\ r \in table
<1>1. PICK o \in table : /\ o.id = d
                         /\ o.time = r.time
                         /\ \A q \in table : q.id = d => q.time <= o.time
  BY DEF LastRows
<1>2. o \in LastRows(table, d)
  BY <1>1 DEF LastRows
<1>3. o = r
  BY <1>2 DEF Fits
<1> QED
  BY <1>1, <1>3 DEF LastRows

\* A new row of one device changes nothing for the others.
LEMMA OthersKeepTheirRows ==
  ASSUME NEW table, NEW n, NEW d, n.id # d
  PROVE  LastRows(table, d) \subseteq LastRows(table \cup {n}, d)
  BY DEF LastRows

LEMMA InsertEffect ==
  ASSUME NEW table, NEW r, NEW new \in Insert(table, r)
  PROVE  new = table \/ new = table \cup {r}
  BY DEF Insert

LEMMA ClampedIsBounded ==
  ASSUME NEW sum \in Int
  PROVE  Clamped(sum) \in IntegratorMin..IntegratorMax
  BY DEF Clamped, IntegratorMin, IntegratorMax

LEMMA InitInv == Init => Inv
  BY IrrigationAssumption
  DEF Init, Inv, TypeOK, Time, CurInv, OwnRows, ControlBounded, SaveInv, MaxPump

\* What Save writes and asks for.
LEMMA SaveEffect ==
  ASSUME Inv, Save
  PROVE  /\ cur \in Id
         /\ \E n \in PidRows :
              /\ n.id = cur
              /\ n.integrator \in IntegratorMin..IntegratorMax
              /\ pid' = pid \/ pid' = pid \cup {n}
         /\ pump' \in 0..MaxPump
<1>1. cur \in Id /\ reading \subseteq Readings /\ last \subseteq PidRows
  BY DEF Inv, TypeOK, CurInv, Save
<1>2. PICK value \in Values(reading), derivative \in Derivatives(last) :
      \E sum \in Sums(last, MoistureGoal - value) :
        LET duration == Duration(value, derivative)
        IN  /\ pid' \in Insert(pid, [id |-> cur, time |-> now,
                                     derivative |-> value,
                                     integrator |-> Clamped(sum)])
            /\ pump' = IF duration > 0 THEN LimitedPump(duration) ELSE pump
  BY DEF Save
<1>3. value \in Nat
  BY <1>1, <1>2 DEF Values, Readings
<1>4. derivative \in Int
  BY <1>1, <1>2, IrrigationAssumption DEF Derivatives, PidRows
<1>5. PICK sum \in Sums(last, MoistureGoal - value) :
        /\ pid' \in Insert(pid, [id |-> cur, time |-> now,
                                 derivative |-> value,
                                 integrator |-> Clamped(sum)])
        /\ pump' = IF Duration(value, derivative) > 0
                   THEN LimitedPump(Duration(value, derivative)) ELSE pump
  BY <1>2
<1>6. sum \in Int
  BY <1>1, <1>3, <1>5, IrrigationAssumption DEF Sums, PidRows, MoistureGoal
<1>7. Clamped(sum) \in IntegratorMin..IntegratorMax
  BY <1>6, ClampedIsBounded
<1>8. pump' \in 0..MaxPump
  <2>1. Duration(value, derivative) \in Int
    BY <1>3, <1>4 DEF Duration, MoistureGoal
  <2>2. pump \in 0..MaxPump
    BY DEF Inv, ControlBounded
  <2> QED
    BY <1>5, <2>1, <2>2 DEF LimitedPump, MaxPump
<1> DEFINE n == [id |-> cur, time |-> now, derivative |-> value,
                 integrator |-> Clamped(sum)]
<1>9. n \in PidRows
  BY <1>1, <1>3, <1>7 DEF PidRows, Inv, TypeOK, IntegratorMin, IntegratorMax
<1>10. pid' = pid \/ pid' = pid \cup {n}
  BY <1>5, InsertEffect
<1> QED
  BY <1>1, <1>7, <1>8, <1>9, <1>10

LEMMA InvStep == Inv /\ [Next]_vars => Inv'
<1> SUFFICES ASSUME Inv, [Next]_vars PROVE Inv'
  OBVIOUS
<1> USE DEF Inv, TypeOK, CurInv, OwnRows, ControlBounded, SaveInv
<1>1. CASE StartRound \/ EndRound
  BY <1>1 DEF StartRound, EndRound
<1>2. ASSUME NEW d \in Id, ReadMoisture(d) PROVE Inv'
  <2>1. CASE Leave
    BY <1>2, <2>1 DEF ReadMoisture, Leave
  <2>2. CASE Fits(LastRows(moisture, d)) /\ reading' = LastRows(moisture, d)
             /\ cur' = d /\ pc' = "readPid" /\ UNCHANGED last
    <3>1. \A r \in reading' : r.id = d /\ r \in moisture
      BY <2>2, LoneRowIsOwn
    <3>2. last = {}
      BY <1>2 DEF ReadMoisture
    <3> QED
      BY <1>2, <2>2, <3>1, <3>2 DEF ReadMoisture
  <2> QED
    BY <1>2, <2>1, <2>2 DEF ReadMoisture
<1>3. CASE ReadPid
  <2>1. CASE Leave
    BY <1>3, <2>1 DEF ReadPid, Leave
  <2>2. CASE Fits(LastRows(pid, cur)) /\ last' = LastRows(pid, cur)
             /\ pc' = "save" /\ UNCHANGED <<reading, cur>>
    <3>1. \A r \in last' : r.id = cur /\ r \in pid
      BY <2>2, LoneRowIsOwn
    <3>2. UNCHANGED <<pid, cur>> /\ ~Wedged(cur)
      BY <1>3, <2>2 DEF ReadPid, Wedged, Fits
    <3>3. ~Wedged(cur)'
      BY <3>2 DEF Wedged, LastRows, Fits
    <3> QED
      BY <1>3, <2>2, <3>1, <3>2, <3>3 DEF ReadPid
  <2> QED
    BY <1>3, <2>1, <2>2 DEF ReadPid
<1>4. CASE Save
  BY <1>4, SaveEffect DEF Save, Leave
<1>5. ASSUME NEW d \in Id, NEW value \in Value, SaveReading(d, value) PROVE Inv'
  <2>1. moisture' \subseteq Readings
    BY <1>5, InsertEffect, IrrigationAssumption DEF SaveReading, Readings
  <2> QED
    BY <1>5, <2>1 DEF SaveReading, Wedged, LastRows, Fits
<1>6. CASE Tick
  BY <1>6, IrrigationAssumption DEF Tick, Time, Wedged, LastRows, Fits
<1>7. CASE Restart
  BY <1>7 DEF Restart, MaxPump
<1>8. CASE UNCHANGED vars
  BY <1>8 DEF vars, Wedged, LastRows, Fits
<1> QED
  BY <1>1, <1>2, <1>3, <1>4, <1>5, <1>6, <1>7, <1>8 DEF Next

------------------------------------------------------------------------------
THEOREM Invariance == Spec => []Inv
  BY InitInv, InvStep, PTL DEF Spec

\* The types: only whole rows get into the tables, and no update works for a
\* device that does not exist.
THEOREM TypeCorrectness == Spec => []TypeOK
  BY Invariance, PTL DEF Inv

\* No plant is watered by another plant's reading or controller state.
THEOREM RowsAreOwn == Spec => []OwnRows
  BY Invariance, PTL DEF Inv

\* Stored integrators and requested durations stay within their limits, from
\* whatever unwritten memory the controller starts.
THEOREM ControlIsBounded == Spec => []ControlBounded
  BY Invariance, PTL DEF Inv

\* Two devices updated within one second are out of control for good.
THEOREM WedgedForever == Spec => WedgeIsPermanent
<1>1. ASSUME Inv, [Next]_vars, NEW d \in Id, Wedged(d) PROVE Wedged(d)'
  <2>1. CASE UNCHANGED pid
    BY <1>1, <2>1 DEF Wedged, LastRows, Fits
  <2>2. CASE Save
    <3>1. PICK n \in PidRows : n.id = cur /\ (pid' = pid \/ pid' = pid \cup {n})
      BY <1>1, <2>2, SaveEffect
    <3>2. d # cur
      BY <1>1, <2>2 DEF Inv, SaveInv, Save
    <3>3. LastRows(pid, d) \subseteq LastRows(pid', d)
      BY <3>1, <3>2, OthersKeepTheirRows
    <3> QED
      BY <1>1, <3>3 DEF Wedged, Fits
  <2>3. Save \/ UNCHANGED pid
    BY <1>1 DEF Next, StartRound, EndRound, ReadMoisture, ReadPid, SaveReading,
                Tick, Restart, vars
  <2> QED
    BY <2>1, <2>2, <2>3
<1>2. Inv /\ [Next]_vars => [ \A d \in Id : Wedged(d) => Wedged(d)' ]_vars
  BY <1>1
<1> QED
  BY Invariance, <1>2, PTL DEF Spec, WedgeIsPermanent
==============================================================================
