---------------------------- MODULE ReadingsProofs ----------------------------
(***************************************************************************)
(* What the dashboard shows was measured, for any size of a byte, any ids, *)
(* any readings and any length of a run.                                   *)
(***************************************************************************)
EXTENDS Readings, TLAPS

Byte  == 0..(Base - 1)
Bytes4 == [1..4 -> Byte]

\* Division splits a number into its lowest digit and the rest.
LEMMA Split ==
  ASSUME NEW n \in Nat
  PROVE  /\ n % Base \in Byte /\ Upper(n) \in Nat
         /\ n = (n % Base) + Base * Upper(n)
BY ReadingsAssumption DEF Byte, Upper

\* A digit put below a number is found there again.
LEMMA Join ==
  ASSUME NEW a \in Byte, NEW q \in Nat
  PROVE  /\ a + Base * q \in Nat
         /\ (a + Base * q) % Base = a
         /\ Upper(a + Base * q) = q
<1> DEFINE n == a + Base * q
<1>1. n \in Nat
  BY ReadingsAssumption DEF Byte
<1> DEFINE r == n % Base
           u == Upper(n)
<1>2. r \in Byte /\ u \in Nat /\ n = r + Base * u
  BY <1>1, Split
<1> HIDE DEF r, u
<1>3. Base * (q - u) = r - a
  BY <1>2, ReadingsAssumption DEF Byte
<1>4. q = u
  <2>1. CASE q > u
    <3>1. Base * (q - u) >= Base
      BY <2>1, <1>2, ReadingsAssumption
    <3> QED BY <3>1, <1>2, <1>3, ReadingsAssumption DEF Byte
  <2>2. CASE q < u
    <3>1. Base * (u - q) >= Base
      BY <2>2, <1>2, ReadingsAssumption
    <3>2. Base * (u - q) = a - r
      BY <1>2, <1>3, ReadingsAssumption DEF Byte
    <3> QED BY <3>1, <3>2, <1>2, ReadingsAssumption DEF Byte
  <2> QED BY <2>1, <2>2, <1>2
<1>5. a = r
  BY <1>2, <1>4, ReadingsAssumption DEF Byte
<1> QED BY <1>1, <1>4, <1>5 DEF r, u

\* How large numbers get with a digit put below them, ...
LEMMA Grow ==
  ASSUME NEW a \in Byte, NEW m \in Nat, NEW q \in 0..(m - 1)
  PROVE  a + Base * q \in 0..(Base * m - 1)
<1>1. Base * q + Base <= Base * m
  <2>1. Base * (m - 1 - q) >= 0
    BY ReadingsAssumption
  <2> QED BY <2>1, ReadingsAssumption
<1>2. Base * q \in Nat /\ Base * m \in Nat
  BY ReadingsAssumption
<1> QED BY <1>1, <1>2, ReadingsAssumption DEF Byte

\* ... and how small without their lowest one.
LEMMA Shrink ==
  ASSUME NEW m \in Nat, NEW n \in 0..(Base * m - 1)
  PROVE  Upper(n) \in 0..(m - 1)
<1>1. Base * m \in Nat /\ n \in Nat
  BY ReadingsAssumption
<1>2. n % Base \in Byte /\ Upper(n) \in Nat /\ n = (n % Base) + Base * Upper(n)
  BY <1>1, Split
<1> DEFINE r == n % Base
           u == Upper(n)
<1>3. r \in Byte /\ u \in Nat /\ n = r + Base * u
  BY <1>2
<1> HIDE DEF r, u
<1>4. u < m
  <2>1. SUFFICES ASSUME u >= m PROVE FALSE
    BY <1>3
  <2>2. Base * (u - m) >= 0
    BY <2>1, <1>3, ReadingsAssumption
  <2>3. Base * u >= Base * m
    BY <2>2, <1>3, ReadingsAssumption
  <2>4. Base * u \in Nat
    BY <1>3, ReadingsAssumption
  <2> QED BY <2>3, <2>4, <1>1, <1>3 DEF Byte
<1> QED BY <1>3, <1>4 DEF u

LEMMA WordsFact ==
  /\ Base * Base \in Nat /\ Base * (Base * Base) \in Nat /\ Words \in Nat
  /\ Words = Base * (Base * (Base * Base))
BY ReadingsAssumption DEF Words

\* Four bytes make a word, and are found there again.
LEMMA BytesOfNumber ==
  ASSUME NEW a \in Byte, NEW b \in Byte, NEW c \in Byte, NEW d \in Byte
  PROVE  /\ Number(<<a, b, c, d>>) \in Word
         /\ Bytes(Number(<<a, b, c, d>>)) = <<a, b, c, d>>
<1> DEFINE x == c + Base * d
           y == b + Base * x
           n == a + Base * y
<1>1. d \in 0..(Base - 1)
  BY DEF Byte
<1>2. x \in 0..(Base * Base - 1) /\ x % Base = c /\ Upper(x) = d
  <2>1. Base \in Nat /\ d \in Nat
    BY <1>1, ReadingsAssumption
  <2> QED BY <2>1, <1>1, Grow, Join
<1> HIDE DEF x
<1>3. y \in 0..(Base * (Base * Base) - 1) /\ y % Base = b /\ Upper(y) = x
  BY <1>2, Grow, Join, WordsFact
<1> HIDE DEF y
<1>4. n \in 0..(Base * (Base * (Base * Base)) - 1) /\ n % Base = a /\ Upper(n) = y
  BY <1>3, Grow, Join, WordsFact
<1>5. Number(<<a, b, c, d>>) = n
  BY DEF Number, x, y
<1> HIDE DEF n
<1>6. Bytes(n) = <<a, b, c, d>>
  BY <1>2, <1>3, <1>4 DEF Bytes
<1> QED BY <1>4, <1>5, <1>6, WordsFact DEF Word

\* A word is made of four bytes.
LEMMA NumberOfBytes ==
  ASSUME NEW n \in Word
  PROVE  /\ Number(Bytes(n)) = n
         /\ \E a, b, c, d \in Byte : Bytes(n) = <<a, b, c, d>>
<1>1. n \in Nat /\ n \in 0..(Base * (Base * (Base * Base)) - 1)
  BY WordsFact DEF Word
<1> DEFINE y == Upper(n)
           x == Upper(y)
           d == Upper(x)
<1>2. y \in 0..(Base * (Base * Base) - 1) /\ y \in Nat
      /\ n % Base \in Byte /\ n = (n % Base) + Base * y
  BY <1>1, Shrink, Split, WordsFact
<1> HIDE DEF y
<1>3. x \in 0..(Base * Base - 1) /\ x \in Nat
      /\ y % Base \in Byte /\ y = (y % Base) + Base * x
  BY <1>2, Shrink, Split, WordsFact
<1> HIDE DEF x
<1>4. d \in 0..(Base - 1) /\ x % Base \in Byte /\ x = (x % Base) + Base * d
  <2>1. Base \in Nat
    BY ReadingsAssumption
  <2>2. d \in 0..(Base - 1)
    BY <1>3, <2>1, Shrink
  <2> QED BY <1>3, <2>2, Split
<1>5. Bytes(n) = <<n % Base, y % Base, x % Base, d>>
  BY DEF Bytes, x, y
<1>6. Number(Bytes(n)) = (n % Base) + Base * ((y % Base) + Base * ((x % Base) + Base * d))
  BY <1>5 DEF Number
<1>7. d \in Byte
  BY <1>4 DEF Byte
<1>8. Number(Bytes(n)) = n
  BY <1>6, <1>2, <1>3, <1>4
<1> QED BY <1>2, <1>3, <1>4, <1>5, <1>7, <1>8

\* What one machine writes, the other reads.
LEMMA RoundTrip ==
  ASSUME NEW n \in Word
  PROVE  Encoded(n) \in Bytes4 /\ Decoded(Encoded(n)) = n
<1>1. PICK a \in Byte, b \in Byte, c \in Byte, d \in Byte : Bytes(n) = <<a, b, c, d>>
  BY NumberOfBytes
<1>2. Number(<<a, b, c, d>>) = n
  BY <1>1, NumberOfBytes
<1>3. Swapped(n) = Number(<<d, c, b, a>>)
  BY <1>1 DEF Swapped
<1>4. Encoded(n) = <<d, c, b, a>>
  BY <1>3, BytesOfNumber DEF Encoded
<1>5. Decoded(Encoded(n)) = Number(<<a, b, c, d>>)
  BY <1>4, BytesOfNumber DEF Decoded, Swapped
<1>6. <<d, c, b, a>> \in Bytes4
  BY DEF Bytes4
<1> QED BY <1>2, <1>4, <1>5, <1>6

------------------------------------------------------------------------------
Packet(s) == [kind |-> s.kind, id |-> Encoded(s.id), value |-> Encoded(s.value)]

\* A packet is a reading that was taken, and moisture is a percentage.
NetInv ==
  /\ \A m \in net : \E s \in measured : m = Packet(s)
  /\ \A s \in measured : s.kind = "moisture" => s.value <= 99

\* (id, time) is a key, and no row is from the future.
KeyInv ==
  \A kind \in Kind : \A r \in table[kind] :
    /\ r.time <= now
    /\ \A s \in table[kind] : r.id = s.id /\ r.time = s.time => r = s

\* newest is the value of the row with the latest time.
NewestInv ==
  \A kind \in Kind, i \in Id :
    \/ /\ newest[kind][i] = {}
       /\ \A r \in table[kind] : r.id # i
    \/ \E r \in table[kind] :
         /\ r.id = i /\ newest[kind][i] = {r.value}
         /\ \A s \in table[kind] : s.id = i => s.time <= r.time

Inv == TypeOK /\ NetInv /\ RowsAreMeasured /\ KeyInv /\ NewestInv

LEMMA IdIsWord == Id \subseteq Word
BY ReadingsAssumption DEF Word

\* What a sensor's function returns is a word, and moisture a percentage.
LEMMA SensedIsWord ==
  ASSUME NEW kind \in Kind, NEW value \in Sensed(kind)
  PROVE  value \in Word /\ (kind = "moisture" => value <= 99)
<1>1. CASE kind = "moisture"
  <2>1. PICK r \in Raw : value = (r * 100) \div 1024
    BY <1>1 DEF Sensed
  <2>2. r \in 0..1023
    BY ReadingsAssumption
  <2> QED BY <2>1, <2>2, WordsFact, ReadingsAssumption DEF Word
<1>2. CASE kind = "humidity"
  BY <1>2, ReadingsAssumption DEF Sensed, Word
<1>3. CASE kind = "temperature"
  BY <1>3, ReadingsAssumption DEF Sensed, Word
<1> QED BY <1>1, <1>2, <1>3 DEF Kind

LEMMA InvInit == Init => Inv
BY ReadingsAssumption
   DEF Init, Inv, TypeOK, NetInv, RowsAreMeasured, KeyInv, NewestInv, Time

LEMMA AnswerKeepsInv ==
  ASSUME Inv, NEW i \in Id, NEW kind \in Kind, Answer(i, kind)
  PROVE  Inv'
<1>1. PICK value \in Sensed(kind) :
        /\ net' = net \cup {Packet([kind |-> kind, id |-> i, value |-> value])}
        /\ measured' = measured \cup {[kind |-> kind, id |-> i, value |-> value]}
  BY DEF Answer, Packet
<1>2. UNCHANGED <<now, known, devices, table, newest>>
  BY DEF Answer
<1>3. value \in Word /\ (kind = "moisture" => value <= 99) /\ i \in Word
  BY SensedIsWord, IdIsWord
<1>4. Encoded(i) \in Bytes4 /\ Encoded(value) \in Bytes4
  BY <1>3, RoundTrip
<1>5. TypeOK'
  BY <1>1, <1>2, <1>3, <1>4 DEF Inv, TypeOK, Packet, Bytes4, Byte
<1>6. NetInv'
  BY <1>1, <1>3 DEF Inv, NetInv, TypeOK
<1>7. RowsAreMeasured'
  BY <1>1, <1>2 DEF Inv, RowsAreMeasured
<1>8. KeyInv' /\ NewestInv'
  BY <1>2 DEF Inv, KeyInv, NewestInv
<1> QED BY <1>5, <1>6, <1>7, <1>8 DEF Inv

LEMMA RegisterKeepsInv ==
  ASSUME Inv, NEW i \in Id, Register(i)
  PROVE  Inv'
<1>1. AsInt(i) = i
  BY ReadingsAssumption DEF AsInt
<1>2. TypeOK'
  BY <1>1 DEF Register, Inv, TypeOK
<1>3. NetInv' /\ RowsAreMeasured' /\ KeyInv' /\ NewestInv'
  BY DEF Register, Inv, NetInv, RowsAreMeasured, KeyInv, NewestInv
<1> QED BY <1>2, <1>3 DEF Inv

\* What Receive does when it stores a row.
Stores(m, s) ==
  LET r == [id |-> s.id, time |-> now, value |-> s.value]
  IN /\ s \in measured /\ m = Packet(s) /\ r \in Row
     /\ s.value < Limit
     /\ \A q \in table[s.kind] : q.id = s.id => q.time < now
     /\ table' = [table EXCEPT ![s.kind] = @ \cup {r}]
     /\ newest' = [newest EXCEPT ![s.kind][s.id] = {s.value}]
     /\ UNCHANGED <<now, net, known, devices, measured>>

\* A packet is stored as the reading it was made of, or not at all.
LEMMA ReceiveStores ==
  ASSUME Inv, NEW m \in net, Receive(m)
  PROVE  UNCHANGED vars \/ \E s \in measured : Stores(m, s)
<1>1. PICK s \in measured : m = Packet(s)
  BY DEF Inv, NetInv
<1>2. s \in [kind : Kind, id : Id, value : Word]
  BY DEF Inv, TypeOK
<1>3. /\ m.kind = s.kind /\ Decoded(m.id) = s.id /\ Decoded(m.value) = s.value
  BY <1>1, <1>2, RoundTrip, IdIsWord DEF Packet
<1> DEFINE r == [id |-> s.id, time |-> now, value |-> s.value]
           rows == table[s.kind]
<1>4. r \in Row /\ rows \subseteq Row
  BY <1>2 DEF Inv, TypeOK, Row
<1>5. UNCHANGED <<now, net, known, devices, measured>>
  BY DEF Receive
<1>6. CASE UNCHANGED <<table, newest>>
  BY <1>5, <1>6 DEF vars
<1>7. CASE /\ Accepted(s.value)
           /\ table' = [table EXCEPT ![s.kind] = Inserted(rows, r)]
           /\ newest' = IF Inserted(rows, r) = rows THEN newest
                        ELSE [newest EXCEPT ![s.kind][s.id] = {s.value}]
  <2>1. CASE \E q \in rows : q.id = r.id /\ q.time = r.time
    <3>1. Inserted(rows, r) = rows
      BY <2>1 DEF Inserted
    <3>2. table' = table
      BY <3>1, <1>7, <1>2 DEF Inv, TypeOK
    <3> QED BY <3>1, <3>2, <1>5, <1>7 DEF vars
  <2>2. CASE ~ \E q \in rows : q.id = r.id /\ q.time = r.time
    <3>1. Inserted(rows, r) = rows \cup {r}
      BY <2>2 DEF Inserted
    <3>2. r \notin rows
      BY <2>2
    <3>3. \A q \in rows : q.id = s.id => q.time < now
      <4>1. SUFFICES ASSUME NEW q \in rows, q.id = s.id PROVE q.time < now
        OBVIOUS
      <4>2. q.time # now
        BY <2>2, <4>1
      <4>3. q.time <= now
        BY <1>2 DEF Inv, KeyInv
      <4>4. q.time \in Nat /\ now \in Nat
        BY <1>4, ReadingsAssumption DEF Inv, TypeOK, Time, Row
      <4> QED BY <4>2, <4>3, <4>4
    <3>4. Stores(m, s)
      BY <3>1, <3>2, <3>3, <1>1, <1>4, <1>5, <1>7 DEF Stores, Accepted
    <3> QED BY <3>4
  <2> QED BY <2>1, <2>2
<1> QED BY <1>3, <1>6, <1>7 DEF Receive

LEMMA StoresKeepsInv ==
  ASSUME Inv, NEW m \in net, NEW s \in measured, Stores(m, s)
  PROVE  Inv'
<1> DEFINE r == [id |-> s.id, time |-> now, value |-> s.value]
<1>1. s \in [kind : Kind, id : Id, value : Word] /\ r \in Row
  BY DEF Inv, TypeOK, Stores
<1>2. /\ UNCHANGED <<now, net, known, devices, measured>>
      /\ s.value < Limit
      /\ \A q \in table[s.kind] : q.id = s.id => q.time < now
  BY DEF Stores
<1>3. /\ table \in [Kind -> SUBSET Row]
      /\ newest \in [Kind -> [Id -> SUBSET Word]]
      /\ now \in Nat /\ \A q \in Row : q.time \in Nat
  BY ReadingsAssumption DEF Inv, TypeOK, Row, Time
<1>4. \A k \in Kind : table'[k] = IF k = s.kind THEN table[k] \cup {r} ELSE table[k]
  BY <1>1, <1>3 DEF Stores
<1>5. \A k \in Kind, i \in Id :
        newest'[k][i] = IF k = s.kind /\ i = s.id THEN {s.value} ELSE newest[k][i]
  BY <1>1, <1>3 DEF Stores
<1>6. TypeOK'
  <2>1. table' \in [Kind -> SUBSET Row]
    BY <1>1, <1>3 DEF Stores
  <2>2. newest' \in [Kind -> [Id -> SUBSET Word]]
    BY <1>1, <1>3 DEF Stores
  <2> QED BY <1>2, <2>1, <2>2 DEF Inv, TypeOK
<1>7. NetInv'
  BY <1>2 DEF Inv, NetInv
<1>8. RowsAreMeasured'
  <2>1. s = [kind |-> s.kind, id |-> s.id, value |-> s.value]
    BY <1>1
  <2>2. [kind |-> s.kind, id |-> r.id, value |-> r.value] \in measured
    BY <2>1
  <2>3. s.kind = "moisture" => r.value <= 99
    BY DEF Inv, NetInv
  <2>4. SUFFICES ASSUME NEW k \in Kind, NEW p \in table'[k]
                 PROVE  /\ [kind |-> k, id |-> p.id, value |-> p.value] \in measured
                        /\ p.value < Limit
                        /\ k = "moisture" => p.value <= 99
    BY <1>2 DEF RowsAreMeasured
  <2>5. CASE p \in table[k]
    BY <2>5 DEF Inv, RowsAreMeasured
  <2>6. CASE p \notin table[k]
    <3>1. k = s.kind /\ p = r
      BY <1>4, <2>6
    <3> QED BY <3>1, <1>2, <2>2, <2>3
  <2> QED BY <2>5, <2>6
<1>9. KeyInv'
  <2>1. SUFFICES ASSUME NEW k \in Kind, NEW p \in table'[k]
                 PROVE  /\ p.time <= now
                        /\ \A q \in table'[k] :
                             p.id = q.id /\ p.time = q.time => p = q
    BY <1>2 DEF KeyInv
  <2>2. CASE k # s.kind
    BY <1>4, <2>1, <2>2 DEF Inv, KeyInv
  <2>3. CASE k = s.kind
    <3>1. table'[k] = table[k] \cup {r}
      BY <1>4, <2>3
    <3>2. /\ \A q \in table[k] : q.time <= now
          /\ \A p1, q \in table[k] : p1.id = q.id /\ p1.time = q.time => p1 = q
      BY DEF Inv, KeyInv
    <3>3. \A q \in table[k] : q.id = r.id => q.time # r.time
      BY <1>2, <1>3, <2>3
    <3>4. r.time <= now
      BY <1>3
    <3> QED BY <2>1, <3>1, <3>2, <3>3, <3>4
  <2> QED BY <2>2, <2>3
<1>10. NewestInv'
  <2>1. SUFFICES ASSUME NEW k \in Kind, NEW i \in Id
                 PROVE  \/ /\ newest'[k][i] = {}
                           /\ \A p \in table'[k] : p.id # i
                        \/ \E p \in table'[k] :
                             /\ p.id = i /\ newest'[k][i] = {p.value}
                             /\ \A q \in table'[k] : q.id = i => q.time <= p.time
    BY DEF NewestInv
  <2>2. \/ /\ newest[k][i] = {}
           /\ \A p \in table[k] : p.id # i
        \/ \E p \in table[k] :
             /\ p.id = i /\ newest[k][i] = {p.value}
             /\ \A q \in table[k] : q.id = i => q.time <= p.time
    BY DEF Inv, NewestInv
  <2>3. CASE k = s.kind /\ i = s.id
    <3>1. r \in table'[k] /\ r.id = i /\ newest'[k][i] = {r.value}
      BY <1>4, <1>5, <2>3
    <3>2. \A q \in table'[k] : q.id = i => q.time <= r.time
      <4>1. table'[k] = table[k] \cup {r} /\ r.time = now
        BY <1>4, <2>3
      <4>2. \A q \in table[k] : q.id = i => q.time <= now
        BY <2>3 DEF Inv, KeyInv
      <4> QED BY <4>1, <4>2, <1>3
    <3> QED BY <3>1, <3>2
  <2>4. CASE k = s.kind /\ i # s.id
    <3>1. newest'[k][i] = newest[k][i] /\ table'[k] = table[k] \cup {r} /\ r.id # i
      BY <1>4, <1>5, <2>4
    <3> QED BY <2>2, <3>1
  <2>5. CASE k # s.kind
    <3>1. newest'[k][i] = newest[k][i] /\ table'[k] = table[k]
      BY <1>4, <1>5, <2>5
    <3> QED BY <2>2, <3>1
  <2> QED BY <2>3, <2>4, <2>5
<1> QED BY <1>6, <1>7, <1>8, <1>9, <1>10 DEF Inv

\* Every step keeps the invariant.
LEMMA InvNext ==
  ASSUME Inv, [Next]_vars
  PROVE  Inv'
<1>1. CASE \E i \in Id, kind \in Kind : Answer(i, kind)
  BY <1>1, AnswerKeepsInv
<1>2. CASE \E i \in Id : Register(i)
  BY <1>2, RegisterKeepsInv
<1>3. ASSUME UNCHANGED <<now, net, table, measured, newest>>,
             known' \subseteq known, devices' = devices
      PROVE  Inv'
  <2>1. TypeOK'
    BY <1>3 DEF Inv, TypeOK
  <2>2. NetInv' /\ RowsAreMeasured'
    BY <1>3 DEF Inv, NetInv, RowsAreMeasured
  <2>3. KeyInv' /\ NewestInv'
    BY <1>3 DEF Inv, KeyInv, NewestInv
  <2> QED BY <2>1, <2>2, <2>3 DEF Inv
<1>4. CASE \E m \in net : Receive(m)
  BY <1>3, <1>4, ReceiveStores, StoresKeepsInv DEF vars
<1>5. CASE Restart
  BY <1>3, <1>5 DEF Restart
<1>6. CASE Tick
  <2>1. now' = now + 1 /\ now' \in Time /\ now \in Nat
    BY <1>6, ReadingsAssumption DEF Tick, Inv, TypeOK, Time
  <2>2. TypeOK' /\ NetInv' /\ RowsAreMeasured' /\ NewestInv'
    BY <1>6, <2>1 DEF Tick, Inv, TypeOK, NetInv, RowsAreMeasured, NewestInv
  <2>3. \A kind \in Kind : \A r \in table[kind] : r.time \in Nat
    BY ReadingsAssumption DEF Inv, TypeOK, Row, Time
  <2>4. KeyInv'
    BY <1>6, <2>1, <2>3 DEF Tick, Inv, KeyInv
  <2> QED BY <2>2, <2>4 DEF Inv
<1>7. CASE UNCHANGED vars
  BY <1>3, <1>7 DEF vars
<1> QED BY <1>1, <1>2, <1>4, <1>5, <1>6, <1>7 DEF Next

\* Types: no id reaches a table that is not a device's.
THEOREM TypeCorrectness == Spec => []TypeOK
<1>1. Inv => TypeOK
  BY DEF Inv
<1> QED BY InvInit, InvNext, <1>1, PTL DEF Spec

\* Every stored value was measured by the device and the sensor it is stored
\* for, whatever the network does (udp_server.c:141-143).
THEOREM RowsWereMeasured == Spec => []RowsAreMeasured
<1>1. Inv => RowsAreMeasured
  BY DEF Inv
<1> QED BY InvInit, InvNext, <1>1, PTL DEF Spec

\* The row a table has for a device with the latest time, if it has one.
LEMMA LatestRow ==
  ASSUME Inv, NEW kind \in Kind, NEW d \in Id
  PROVE  \/ /\ newest[kind][d] = {}
            /\ \A r \in Latest(table[kind]) : r.id # d
         \/ \E r \in Latest(table[kind]) :
              /\ r.id = d /\ newest[kind][d] = {r.value}
              /\ \A s \in Latest(table[kind]) : s.id = d => s = r
<1>1. CASE /\ newest[kind][d] = {}
           /\ \A r \in table[kind] : r.id # d
  BY <1>1 DEF Latest
<1>2. ASSUME NEW r \in table[kind], r.id = d, newest[kind][d] = {r.value},
             \A s \in table[kind] : s.id = d => s.time <= r.time
      PROVE  \E p \in Latest(table[kind]) :
              /\ p.id = d /\ newest[kind][d] = {p.value}
              /\ \A s \in Latest(table[kind]) : s.id = d => s = p
  <2>1. r \in Latest(table[kind])
    BY <1>2 DEF Latest
  <2>2. ASSUME NEW s \in Latest(table[kind]), s.id = d
        PROVE  s = r
    <3>1. s \in table[kind] /\ r.time <= s.time /\ s.time <= r.time
      BY <1>2, <2>2 DEF Latest
    <3>2. s.time \in Nat /\ r.time \in Nat
      BY <3>1, ReadingsAssumption DEF Inv, TypeOK, Row, Time
    <3> QED BY <1>2, <2>2, <3>1, <3>2 DEF Inv, KeyInv
  <2> QED BY <1>2, <2>1, <2>2
<1> QED BY <1>1, <1>2 DEF Inv, NewestInv

\* The query's answer: one line for each device, with the values stored last,
\* or zeros if a kind is missing (run.py:6).
THEOREM DashboardIsRight == Spec => []DashboardRight
<1>1. ASSUME Inv PROVE DashboardRight
  <2> DEFINE H == table["humidity"]
             T == table["temperature"]
             M == table["moisture"]
  <2> USE <1>1
  <2>1. SUFFICES ASSUME NEW d \in devices
                 PROVE  Shown(d) =
                   newest["humidity"][d] \X newest["temperature"][d]
                     \X newest["moisture"][d]
                   \cup {z \in {<<0, 0, 0>>} :
                         \E kind \in Kind : newest[kind][d] = {}}
    BY DEF DashboardRight
  <2> DEFINE h == newest["humidity"][d]
             t == newest["temperature"][d]
             m == newest["moisture"][d]
             hits == {hit \in Info : hit[1].id = d}
  <2>2. d \in Id /\ "humidity" \in Kind /\ "temperature" \in Kind /\ "moisture" \in Kind
    BY <1>1 DEF Inv, TypeOK, Kind
  <2>3. \A hit \in hits : /\ hit[1] \in Latest(H) /\ hit[2] \in Latest(T)
                          /\ hit[3] \in Latest(M)
                          /\ hit[1].id = d /\ hit[2].id = d /\ hit[3].id = d
                          /\ hit = <<hit[1], hit[2], hit[3]>>
    BY DEF Info, Joined
  <2>4. CASE h = {} \/ t = {} \/ m = {}
    <3>1. \/ \A r \in Latest(H) : r.id # d
          \/ \A r \in Latest(T) : r.id # d
          \/ \A r \in Latest(M) : r.id # d
      <4>1. CASE h = {}
        BY <2>2, <4>1, LatestRow
      <4>2. CASE t = {}
        BY <2>2, <4>2, LatestRow
      <4>3. CASE m = {}
        BY <2>2, <4>3, LatestRow
      <4> QED BY <2>4, <4>1, <4>2, <4>3
    <3>4. hits = {}
      BY <2>3, <3>1
    <3>2. h \X t \X m = {}
      BY <2>4
    <3>3. \E kind \in Kind : newest[kind][d] = {}
      BY <2>2, <2>4
    <3> QED BY <3>2, <3>3, <3>4 DEF Shown
  <2>5. CASE h # {} /\ t # {} /\ m # {}
    <3>1. PICK p \in Latest(H) : /\ p.id = d /\ h = {p.value}
                                /\ \A s \in Latest(H) : s.id = d => s = p
      BY <1>1, <2>2, <2>5, LatestRow
    <3>2. PICK q \in Latest(T) : /\ q.id = d /\ t = {q.value}
                                /\ \A s \in Latest(T) : s.id = d => s = q
      BY <1>1, <2>2, <2>5, LatestRow
    <3>3. PICK r \in Latest(M) : /\ r.id = d /\ m = {r.value}
                                /\ \A s \in Latest(M) : s.id = d => s = r
      BY <1>1, <2>2, <2>5, LatestRow
    <3>4. <<p, q, r>> \in hits
      BY <3>1, <3>2, <3>3 DEF Info, Joined
    <3>5. hits = {<<p, q, r>>}
      BY <2>3, <3>1, <3>2, <3>3, <3>4
    <3>6. Shown(d) = {<<p.value, q.value, r.value>>}
      <4>1. Shown(d) = {<<hit[1].value, hit[2].value, hit[3].value>> : hit \in hits}
        BY <3>4 DEF Shown
      <4> DEFINE x == <<p, q, r>>
      <4>2. x[1] = p /\ x[2] = q /\ x[3] = r
        OBVIOUS
      <4>3. {<<hit[1].value, hit[2].value, hit[3].value>> : hit \in hits}
              = {<<x[1].value, x[2].value, x[3].value>>}
        <5> HIDE DEF x, hits
        <5>1. hits = {x}
          BY <3>5 DEF x
        <5> QED BY <5>1
      <4> QED BY <4>1, <4>2, <4>3
    <3>7. h \X t \X m = {<<p.value, q.value, r.value>>}
      BY <3>1, <3>2, <3>3
    <3>8. ~ \E kind \in Kind : newest[kind][d] = {}
      BY <2>5 DEF Kind
    <3> QED BY <3>6, <3>7, <3>8
  <2> QED BY <2>4, <2>5
<1> QED BY InvInit, InvNext, <1>1, PTL DEF Spec

\* Stored rows are never changed or lost, and new ones are later
\* (sql/init.sql:1-3).
THEOREM StoredRowsStay == Spec => StoredStays
<1>1. ASSUME Inv, [Next]_vars
      PROVE  [ \A kind \in Kind :
                /\ table[kind] \subseteq table'[kind]
                /\ \A r \in table'[kind] \ table[kind] : \A s \in table[kind] :
                     s.id = r.id => s.time < r.time ]_vars
  <2>1. CASE table' = table
    BY <2>1
  <2>2. ASSUME NEW m \in net, NEW s \in measured, Stores(m, s)
        PROVE  \A kind \in Kind :
                /\ table[kind] \subseteq table'[kind]
                /\ \A r \in table'[kind] \ table[kind] : \A q \in table[kind] :
                     q.id = r.id => q.time < r.time
    <3>1. TAKE kind \in Kind
    <3> DEFINE new == [id |-> s.id, time |-> now, value |-> s.value]
    <3>2. table'[kind] = IF kind = s.kind THEN table[kind] \cup {new} ELSE table[kind]
      BY <2>2, <1>1 DEF Stores, Inv, TypeOK
    <3>3. kind = s.kind => \A q \in table[kind] : q.id = s.id => q.time < now
      BY <2>2 DEF Stores
    <3> QED BY <3>2, <3>3
  <2>3. CASE \E m \in net : Receive(m)
    BY <1>1, <2>1, <2>2, <2>3, ReceiveStores DEF vars
  <2> QED BY <1>1, <2>1, <2>3 DEF Next, Answer, Register, Restart, Tick, vars
<1> QED BY InvInit, InvNext, <1>1, PTL DEF Spec, StoredStays
===============================================================================
