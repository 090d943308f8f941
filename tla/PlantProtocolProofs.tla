------------------------- MODULE PlantProtocolProofs -------------------------
(***************************************************************************)
(* Theorems about PlantProtocol, for every set of plants and ids, every    *)
(* width of a word, and any number of packets in flight and of restarts.   *)
(***************************************************************************)
EXTENDS PlantProtocol, TLAPS

USE ProtocolAssumption
USE DEF plantVars, serverVars, pollVars, Measured, ToServer, ToPlant, Packet, Msg, NoJob

\* What the device manager does while a packet is being handled.
LEMMA CallFacts ==
  /\ job.type = "new" => CallUnderWay = [op |-> "register", id |-> job.id]
  /\ job.type = "heartbeat" => CallUnderWay = [op |-> "heartbeat", id |-> job.id]
  /\ job.type \notin {"new", "heartbeat"} => CallUnderWay = [op |-> "none", id |-> NoId]
BY DEF CallUnderWay

LEMMA RegisterEffect ==
  ASSUME Register
  PROVE  /\ known' = known \cup {job.id} /\ alive' \in {alive, alive \cup {job.id}}
         /\ job.type = "new" /\ server = "up" /\ job' = Msg("answer", job.plant, job.id)
         /\ given' = [given EXCEPT ![job.plant] = @ \cup {job.id}]
         /\ UNCHANGED <<plantVars, net, server, clientAddr, pollVars, restarts>>
<1>1. CallUnderWay.id = job.id
  BY CallFacts DEF Register, Handling
<1> QED BY <1>1 DEF Register, Handling, D!Registered

LEMMA ReadmitEffect ==
  ASSUME Readmit
  PROVE  /\ known' = known \cup {job.id} /\ alive' = alive \cup {job.id}
         /\ job.type = "heartbeat" /\ job.id \notin known
         /\ UNCHANGED <<job, plantVars, net, server, clientAddr, pollVars, given, restarts>>
<1>1. CallUnderWay.id = job.id
  BY CallFacts DEF Readmit, Handling
<1> QED BY <1>1 DEF Readmit, Handling, D!Readmitted

LEMMA HeartbeatEffect ==
  ASSUME HandleHeartbeat
  PROVE  /\ job.id \in known /\ alive' = alive \cup {job.id}
         /\ job.type = "heartbeat" /\ server = "up" /\ job' = NoJob
         /\ UNCHANGED <<known, plantVars, net, server, clientAddr, pollVars, given, restarts>>
<1>1. CallUnderWay.id = job.id
  BY CallFacts DEF HandleHeartbeat, Handling
<1> QED BY <1>1 DEF HandleHeartbeat, Handling, D!HeardOf

LEMMA TimeoutEffect ==
  ASSUME NEW i, Timeout(i)
  PROVE  /\ alive' = alive \ {i}
         /\ UNCHANGED <<known, job, plantVars, net, server, clientAddr, pollVars, given, restarts>>
BY DEF Timeout, D!TimedOut

LEMMA RestartEffect ==
  ASSUME Restart
  PROVE  /\ known' = {} /\ alive' = {} /\ job' = NoJob /\ clientAddr' = NoPlant
         /\ server' = "up" /\ queue' = {} /\ cur' = NoId
         /\ restarts < MaxRestarts /\ restarts' = restarts + 1
         /\ UNCHANGED <<plantVars, net, given>>
BY DEF Restart, D!Restart

\* What the receiving thread takes up.
LEMMA ReceiveEffect ==
  ASSUME NEW m \in net, Receive(m)
  PROVE  /\ server = "up" /\ job = NoJob /\ clientAddr' = m.plant /\ net' \in After(m)
         /\ \/ m.type \in {"heartbeat", "reading", "overLimit"} /\ job' = m
            \/ m.type = "register" /\ \E i \in Id : job' = Msg("new", m.plant, i)
         /\ UNCHANGED <<plantVars, server, known, alive, pollVars, given, restarts>>
<1>1. CASE m.type = "register"
  BY <1>1 DEF Receive, NotBusy, Taken
<1>2. CASE m.type # "register"
  BY <1>2 DEF Receive, NotBusy, Taken
<1> QED BY <1>1, <1>2

LEMMA NilWord == Nil \in Word
  BY DEF Nil, Word

LEMMA CutWord == ASSUME NEW w \in Word PROVE CutAtZero(w) \in Word
<1>1. \A k \in 1..Width : (IF \E j \in 1..k : w[j] = 0 THEN 0 ELSE w[k]) \in 0..255
  <2> TAKE k \in 1..Width
  <2> QED BY DEF Word
<1> QED
  BY <1>1 DEF CutAtZero, Word

\* What the network carries after a sendto was there before or is the packet.
LEMMA SentBounds ==
  ASSUME NEW flying, NEW m, NEW after \in Sent(flying, m)
  PROVE  after \subseteq flying \cup {m}
  BY DEF Sent

LEMMA AfterBounds ==
  ASSUME NEW m, NEW after \in After(m)
  PROVE  after \subseteq net
  BY DEF After

------------------------------------------------------------------------------
(* Types, and who was given which id.                                       *)

\* A plant and its flash hold an id it was given, its readings carry such an
\* id or none, and an answer on its way holds an id that was made for the
\* plant it goes to: the receiving thread answers the packet it is handling.
\* Where there is a device to poll, some plant has spoken.
GivenInv ==
  /\ id = flash
  /\ \A p \in Plant : id[p] \in given[p] \cup {NoId}
  /\ \A m \in net : m.type = "id" => m.id \in given[m.plant]
  /\ \A m \in net \cup {job} : m.type = "reading" => m.id \in given[m.plant] \cup {Nil}
  /\ job.type = "new" => job.id \in Id
  /\ job.type = "answer" => job.id \in given[job.plant]
  /\ job # NoJob => clientAddr = job.plant
  /\ clientAddr = NoPlant => alive = {} /\ queue = {} /\ cur = NoId

Inv == TypeOK /\ GivenInv

LEMMA InitInv == Init => Inv
<1> SUFFICES ASSUME Init PROVE Inv
  OBVIOUS
<1>1. given \in [Plant -> SUBSET Id]
  BY DEF Ids, Init
<1> QED
  BY <1>1, NilWord DEF Init, Inv, TypeOK, GivenInv, Ids

LEMMA OwnWord == ASSUME TypeOK, NEW p \in Plant PROVE Own(p) \in Word
  BY NilWord DEF TypeOK, Own

\* Nothing but the network and a plant's id changes when a plant boots.
LEMMA BootInv ==
  ASSUME Inv, NEW p \in Plant, NEW saved \in given[p] \cup {NoId},
         NEW flying \in SUBSET net, Boot(p, saved, flying),
         UNCHANGED <<serverVars, pollVars, given, restarts>>
  PROVE  Inv'
<1>1. net' \subseteq net \cup {Msg("register", p, Nil)}
  BY SentBounds DEF Boot
<1>2. saved \in Id \cup {NoId}
  BY DEF Inv, TypeOK
<1>3. TypeOK'
  BY <1>1, <1>2, NilWord DEF Inv, TypeOK, Boot
<1>4. GivenInv'
  BY <1>1 DEF Inv, TypeOK, GivenInv, Boot
<1> QED
  BY <1>3, <1>4 DEF Inv

\* A packet that is no answer and no strange reading does no harm.
LEMMA NetInv ==
  ASSUME Inv, NEW m \in Packet, net' \subseteq net \cup {m},
         m.type = "id" => m.id \in given[m.plant],
         m.type = "reading" => m.id \in given[m.plant] \cup {Nil},
         UNCHANGED <<plantVars, serverVars, given, restarts>>,
         queue' \subseteq Word, cur' \in Word \cup {NoId},
         clientAddr # NoPlant \/ UNCHANGED pollVars
  PROVE  Inv'
<1>1. TypeOK'
  BY DEF Inv, TypeOK
<1>2. GivenInv'
  BY DEF Inv, GivenInv
<1> QED
  BY <1>1, <1>2 DEF Inv

LEMMA InvStep == Inv /\ [Next]_vars => Inv'
<1> SUFFICES ASSUME Inv, [Next]_vars PROVE Inv'
  OBVIOUS
<1> USE NilWord
<1>1. ASSUME NEW p \in Plant, Reboot(p) PROVE Inv'
  <2>1. flash[p] \in given[p] \cup {NoId}
    BY DEF Inv, GivenInv
  <2> QED
    BY <1>1, <2>1, BootInv DEF Reboot
<1>2. ASSUME NEW p \in Plant, SendHeartbeat(p) PROVE Inv'
  <2> DEFINE m == Msg("heartbeat", p, CutAtZero(Own(p)))
  <2>1. m \in Packet
    BY OwnWord, CutWord DEF Inv
  <2>2. net' \subseteq net \cup {m}
    BY <1>2, SentBounds DEF SendHeartbeat
  <2> QED
    BY <1>2, <2>1, <2>2, NetInv DEF SendHeartbeat, Inv, TypeOK
<1>3. ASSUME NEW p \in Plant, NEW m \in net, GetIdPacket(p, m) PROVE Inv'
  <2>1. PICK flying \in After(m) :
          \/ /\ flash' = [flash EXCEPT ![p] = m.id]
             /\ id' = [id EXCEPT ![p] = m.id]
             /\ net' = flying
          \/ \E saved \in Saved(p, m.id) : Boot(p, saved, flying)
    BY <1>3 DEF GetIdPacket
  <2>2. flying \subseteq net
    BY AfterBounds
  <2>3. m.id \in given[p] /\ m.id \in Id
    BY <1>3 DEF GetIdPacket, Inv, GivenInv, TypeOK
  <2>4. UNCHANGED <<serverVars, pollVars, given, restarts>>
    BY <1>3 DEF GetIdPacket
  <2>5. CASE /\ flash' = [flash EXCEPT ![p] = m.id]
             /\ id' = [id EXCEPT ![p] = m.id]
             /\ net' = flying
    <3>1. TypeOK'
      BY <2>2, <2>3, <2>4, <2>5 DEF Inv, TypeOK
    <3>2. GivenInv'
      BY <2>2, <2>3, <2>4, <2>5 DEF Inv, TypeOK, GivenInv
    <3> QED
      BY <3>1, <3>2 DEF Inv
  <2>6. ASSUME NEW saved \in Saved(p, m.id), Boot(p, saved, flying) PROVE Inv'
    <3>1. saved \in given[p] \cup {NoId}
      BY <2>3 DEF Saved, Inv, GivenInv
    <3> QED
      BY <2>2, <2>4, <2>6, <3>1, BootInv
  <2> QED
    BY <2>1, <2>5, <2>6
<1>4. ASSUME NEW p \in Plant, NEW m \in net, GetRequest(p, m) PROVE Inv'
  <2>1. PICK r \in Answers(p, m) : net' \subseteq net \cup {r}
    BY <1>4, SentBounds, AfterBounds DEF GetRequest
  <2>2. r \in Packet /\ r.type \in Measured /\ r.plant = p
        /\ r.id \in given[p] \cup {Nil}
    BY OwnWord DEF Inv, GivenInv, Answers, Answering, Own
  <2> QED
    BY <1>4, <2>1, <2>2, NetInv DEF GetRequest, Inv, TypeOK
<1>5. ASSUME NEW p \in Plant, NEW m \in net, GetPump(p, m) PROVE Inv'
  <2>1. m \in Packet /\ net' \subseteq net \cup {m}
    BY <1>5, AfterBounds DEF GetPump, Inv, TypeOK
  <2> QED
    BY <1>5, <2>1, NetInv DEF GetPump, Inv, TypeOK, GivenInv
<1>6. ASSUME NEW m \in net, Receive(m) PROVE Inv'
  <2>1. net' \subseteq net /\ m \in Packet
    BY <1>6, ReceiveEffect, AfterBounds DEF Inv, TypeOK
  <2>2. CASE m.type \in {"heartbeat", "reading", "overLimit"} /\ job' = m
    <3>1. TypeOK'
      BY <1>6, <2>1, <2>2, ReceiveEffect DEF Inv, TypeOK
    <3>2. GivenInv'
      BY <1>6, <2>1, <2>2, ReceiveEffect DEF Inv, TypeOK, GivenInv
    <3> QED BY <3>1, <3>2 DEF Inv
  <2>3. ASSUME NEW i \in Id, job' = Msg("new", m.plant, i) PROVE Inv'
    <3>1. TypeOK'
      BY <1>6, <2>1, <2>3, ReceiveEffect DEF Inv, TypeOK
    <3>2. GivenInv'
      BY <1>6, <2>1, <2>3, ReceiveEffect DEF Inv, TypeOK, GivenInv
    <3> QED BY <3>1, <3>2 DEF Inv
  <2> QED BY <1>6, <2>2, <2>3, ReceiveEffect
<1>7. ASSUME NEW m \in net, Drop(m) PROVE Inv'
  <2>1. m \in Packet /\ net' \subseteq net \cup {m}
    BY <1>7 DEF Drop, Inv, TypeOK
  <2> QED
    BY <1>7, <2>1, NetInv DEF Drop, Inv, TypeOK, GivenInv
<1>8. CASE Register
  <2>1. job.plant \in Plant /\ job # NoJob /\ job.id \in Id /\ job.id \in Word
    BY <1>8, RegisterEffect DEF Inv, TypeOK, GivenInv
  <2>2. TypeOK'
    BY <1>8, <2>1, RegisterEffect DEF Inv, TypeOK
  <2>3. GivenInv'
    BY <1>8, <2>1, RegisterEffect DEF Inv, TypeOK, GivenInv
  <2> QED
    BY <2>2, <2>3 DEF Inv
<1>9. CASE Answer
  <2> DEFINE m == Msg("id", clientAddr, job.id)
  <2>1. job # NoJob /\ job.plant \in Plant /\ job.id \in Word
    BY <1>9 DEF Answer, Handling, Inv, TypeOK
  <2>2. clientAddr = job.plant /\ job.id \in given[job.plant]
    BY <1>9, <2>1 DEF Answer, Handling, Inv, GivenInv
  <2>3. net' \subseteq net \cup {m} /\ m \in Packet
    BY <1>9, <2>1, <2>2, SentBounds DEF Answer
  <2>4. TypeOK'
    BY <1>9, <2>1, <2>3 DEF Answer, Inv, TypeOK
  <2>5. GivenInv'
    BY <1>9, <2>2, <2>3 DEF Answer, Inv, GivenInv
  <2> QED
    BY <2>4, <2>5 DEF Inv
<1>10. CASE Readmit \/ HandleHeartbeat
  <2>1. job # NoJob /\ job.plant \in Plant /\ job.id \in Word
    BY <1>10, ReadmitEffect, HeartbeatEffect DEF Inv, TypeOK
  <2>2. TypeOK'
    BY <1>10, <2>1, ReadmitEffect, HeartbeatEffect DEF Inv, TypeOK
  <2>3. clientAddr' # NoPlant
    BY <1>10, <2>1, ReadmitEffect, HeartbeatEffect DEF Inv, GivenInv
  <2>4. GivenInv'
    BY <1>10, <2>3, ReadmitEffect, HeartbeatEffect DEF Inv, GivenInv
  <2> QED
    BY <2>2, <2>4 DEF Inv
<1>11. CASE HandleSensor
  BY <1>11 DEF HandleSensor, Inv, TypeOK, GivenInv
<1>12. ASSUME NEW i \in alive, Timeout(i) PROVE Inv'
  BY <1>12, TimeoutEffect DEF Inv, TypeOK, GivenInv
<1>13. CASE StartRound
  BY <1>13 DEF StartRound, Inv, TypeOK, GivenInv
<1>14. ASSUME NEW i \in queue, RequestSensors(i) PROVE Inv'
  <2> DEFINE m == Msg("request", clientAddr, i)
  <2>1. clientAddr \in Plant /\ i \in Word
    BY <1>14 DEF RequestSensors, Inv, TypeOK, GivenInv
  <2>2. m \in Packet /\ net' \subseteq net \cup {m}
    BY <1>14, <2>1, SentBounds DEF RequestSensors
  <2>3. queue' \subseteq Word /\ cur' \in Word
    BY <1>14, <2>1 DEF RequestSensors, Inv, TypeOK
  <2> QED
    BY <1>14, <2>1, <2>2, <2>3, NetInv DEF RequestSensors
<1>15. CASE Update
  <2> DEFINE m == Msg("pump", clientAddr, Nil)
  <2>1. clientAddr \in Plant
    BY <1>15 DEF Update, Inv, TypeOK, GivenInv
  <2>2. m \in Packet /\ net' \subseteq net \cup {m}
    BY <1>15, <2>1, SentBounds DEF Update
  <2>3. queue' \subseteq Word /\ cur' = NoId
    BY <1>15 DEF Update, Inv, TypeOK
  <2> QED
    BY <1>15, <2>1, <2>2, <2>3, NetInv DEF Update
<1>16. CASE Restart
  BY <1>16, RestartEffect DEF Inv, TypeOK, GivenInv
<1>17. CASE UNCHANGED vars
  BY <1>17 DEF vars, Inv, TypeOK, GivenInv
<1> QED
  BY <1>1, <1>2, <1>3, <1>4, <1>5, <1>6, <1>7, <1>8, <1>9, <1>10, <1>11,
     <1>12, <1>13, <1>14, <1>15, <1>16, <1>17 DEF Next, Handle

\* In every reachable state the variables have their types, the firmware's id
\* is the one in flash, and an answer on its way goes to the plant it was made
\* for (udp_server.c:109, main.cpp:113).
THEOREM Invariance == Spec => []Inv
  BY InitInv, InvStep, PTL DEF Spec

\* The variables have their types.
THEOREM TypeCorrectness == Spec => []TypeOK
<1>1. Inv => TypeOK
  BY DEF Inv
<1> QED
  BY <1>1, Invariance, PTL

------------------------------------------------------------------------------
(* Heartbeats and devices.                                                  *)

\* Every heartbeat names an id of the plant that sent it, cut at a zero byte.
BeatsInv ==
  /\ \A m \in net \cup {job} : m.type = "heartbeat" =>
       \E own \in given[m.plant] : m.id = CutAtZero(own)
  /\ NoGhosts

LEMMA BeatsInit == Init => BeatsInv
  BY DEF Init, BeatsInv, NoGhosts

LEMMA BootBeats ==
  ASSUME Inv, BeatsInv, NEW p \in Plant, NEW saved \in given[p] \cup {NoId},
         NEW flying \in SUBSET net, Boot(p, saved, flying),
         UNCHANGED <<serverVars, given>>
  PROVE  BeatsInv'
<1>1. net' \subseteq net \cup {Msg("register", p, Nil)}
  BY SentBounds DEF Boot
<1>2. NoGhosts'
  BY DEF BeatsInv, NoGhosts
<1> QED
  BY <1>1, <1>2 DEF BeatsInv

LEMMA NetBeats ==
  ASSUME BeatsInv, NEW m, net' \subseteq net \cup {m},
         m.type = "heartbeat" => \E own \in given[m.plant] : m.id = CutAtZero(own),
         UNCHANGED <<job, known, given>>
  PROVE  BeatsInv'
<1>1. NoGhosts'
  BY DEF BeatsInv, NoGhosts
<1> QED
  BY <1>1 DEF BeatsInv

LEMMA BeatsStep ==
  ASSUME Inv, BeatsInv, [Next]_vars PROVE BeatsInv'
<1>1. ASSUME NEW p \in Plant, Reboot(p) PROVE BeatsInv'
  <2>1. flash[p] \in given[p] \cup {NoId}
    BY DEF Inv, GivenInv
  <2> QED
    BY <1>1, <2>1, BootBeats DEF Reboot
<1>2. ASSUME NEW p \in Plant, SendHeartbeat(p) PROVE BeatsInv'
  <2> DEFINE m == Msg("heartbeat", p, CutAtZero(Own(p)))
  <2>1. id[p] \in given[p] /\ id[p] \in Id
    BY <1>2 DEF SendHeartbeat, Beats, Inv, TypeOK, GivenInv
  <2>2. \E own \in given[m.plant] : m.id = CutAtZero(own)
    BY <1>2, <2>1 DEF Own, SendHeartbeat, Beats
  <2>3. net' \subseteq net \cup {m}
    BY <1>2, SentBounds DEF SendHeartbeat
  <2> QED
    BY <1>2, <2>2, <2>3, NetBeats DEF SendHeartbeat
<1>3. ASSUME NEW p \in Plant, NEW m \in net, GetIdPacket(p, m) PROVE BeatsInv'
  <2>1. PICK flying \in After(m) :
          \/ net' = flying
          \/ \E saved \in Saved(p, m.id) : Boot(p, saved, flying)
    BY <1>3 DEF GetIdPacket
  <2>2. flying \subseteq net
    BY AfterBounds
  <2>3. UNCHANGED <<serverVars, given>>
    BY <1>3 DEF GetIdPacket
  <2>4. CASE net' = flying
    <3>1. net' \subseteq net \cup {m} /\ m.type # "heartbeat"
      BY <1>3, <2>2, <2>4 DEF GetIdPacket
    <3> QED
      BY <2>3, <3>1, NetBeats
  <2>5. ASSUME NEW saved \in Saved(p, m.id), Boot(p, saved, flying)
        PROVE  BeatsInv'
    <3>1. saved \in given[p] \cup {NoId}
      BY <1>3 DEF GetIdPacket, Saved, Inv, GivenInv
    <3> QED
      BY <2>2, <2>3, <2>5, <3>1, BootBeats
  <2> QED
    BY <2>1, <2>4, <2>5
<1>4. ASSUME NEW p \in Plant, NEW m \in net, GetRequest(p, m) PROVE BeatsInv'
  <2>1. PICK r \in Answers(p, m) : net' \subseteq net \cup {r}
    BY <1>4, SentBounds, AfterBounds DEF GetRequest
  <2>2. r.type # "heartbeat"
    BY DEF Answers
  <2> QED
    BY <1>4, <2>1, <2>2, NetBeats DEF GetRequest
<1>5. ASSUME NEW p \in Plant, NEW m \in net, GetPump(p, m) PROVE BeatsInv'
  <2>1. net' \subseteq net \cup {m}
    BY <1>5, AfterBounds DEF GetPump
  <2> QED
    BY <1>5, <2>1, NetBeats DEF GetPump
<1>6. ASSUME NEW m \in net, Receive(m) PROVE BeatsInv'
  <2>1. net' \subseteq net
    BY <1>6, ReceiveEffect, AfterBounds
  <2>2. NoGhosts'
    BY <1>6, ReceiveEffect DEF BeatsInv, NoGhosts
  <2> QED
    BY <1>6, <2>1, <2>2, ReceiveEffect DEF BeatsInv
<1>7. ASSUME NEW m \in net, Drop(m) PROVE BeatsInv'
  <2>1. net' \subseteq net \cup {m}
    BY <1>7 DEF Drop
  <2> QED
    BY <1>7, <2>1, NetBeats DEF Drop, BeatsInv
<1>8. CASE Register
  <2>1. /\ \A p \in Plant : given[p] \subseteq given'[p]
        /\ job.plant \in Plant /\ job.id \in given'[job.plant]
    BY <1>8, RegisterEffect DEF Inv, TypeOK
  <2>2. NoGhosts'
    BY <1>8, <2>1, RegisterEffect DEF BeatsInv, NoGhosts
  <2>3. \A m \in net : m.plant \in Plant
    BY DEF Inv, TypeOK
  <2> QED
    BY <1>8, <2>1, <2>2, <2>3, RegisterEffect DEF BeatsInv
<1>9. CASE Answer
  <2>1. net' \subseteq net \cup {Msg("id", clientAddr, job.id)}
    BY <1>9, SentBounds DEF Answer
  <2>2. NoGhosts'
    BY <1>9 DEF Answer, BeatsInv, NoGhosts
  <2> QED
    BY <1>9, <2>1, <2>2 DEF Answer, BeatsInv
<1>10. CASE Readmit \/ HandleHeartbeat
  <2>1. job.plant \in Plant /\ \E own \in given[job.plant] : job.id = CutAtZero(own)
    BY <1>10, ReadmitEffect, HeartbeatEffect DEF Inv, TypeOK, BeatsInv
  <2>2. NoGhosts'
    BY <1>10, <2>1, ReadmitEffect, HeartbeatEffect DEF BeatsInv, NoGhosts
  <2> QED
    BY <1>10, <2>2, ReadmitEffect, HeartbeatEffect DEF BeatsInv
<1>11. CASE HandleSensor
  <2>1. NoGhosts'
    BY <1>11 DEF HandleSensor, BeatsInv, NoGhosts
  <2> QED
    BY <1>11, <2>1 DEF HandleSensor, BeatsInv
<1>12. ASSUME NEW i \in alive, Timeout(i) PROVE BeatsInv'
  BY <1>12, TimeoutEffect DEF BeatsInv, NoGhosts
<1>13. CASE StartRound
  BY <1>13 DEF StartRound, BeatsInv, NoGhosts
<1>14. ASSUME NEW i \in queue, RequestSensors(i) PROVE BeatsInv'
  <2>1. net' \subseteq net \cup {Msg("request", clientAddr, i)}
    BY <1>14, SentBounds DEF RequestSensors
  <2> QED
    BY <1>14, <2>1, NetBeats DEF RequestSensors
<1>15. CASE Update
  <2>1. net' \subseteq net \cup {Msg("pump", clientAddr, Nil)}
    BY <1>15, SentBounds DEF Update
  <2> QED
    BY <1>15, <2>1, NetBeats DEF Update
<1>16. CASE Restart
  BY <1>16, RestartEffect DEF BeatsInv, NoGhosts
<1>17. CASE UNCHANGED vars
  BY <1>17 DEF vars, BeatsInv, NoGhosts
<1> QED
  BY <1>1, <1>2, <1>3, <1>4, <1>5, <1>6, <1>7, <1>8, <1>9, <1>10, <1>11,
     <1>12, <1>13, <1>14, <1>15, <1>16, <1>17 DEF Next, Handle

\* Every device in the array is one that some plant asked for, or what is left of
\* its id at a zero byte, since a heartbeat is a C string (main.cpp:309).
THEOREM NoDeviceIsAGhost == Spec => []NoGhosts
<1>1. BeatsInv => NoGhosts
  BY DEF BeatsInv
<1>2. Inv /\ BeatsInv /\ [Next]_vars => BeatsInv'
  BY BeatsStep
<1> QED
  BY <1>1, <1>2, BeatsInit, Invariance, PTL DEF Spec

\* A word of which nothing is left at its first zero byte begins with one.
LEMMA CutToNil ==
  ASSUME NEW w, CutAtZero(w) = Nil PROVE w[1] = 0
<1>1. 1 \in 1..Width
  BY ProtocolAssumption
<1>2. CutAtZero(w)[1] = 0
  BY <1>1 DEF Nil
<1>3. CASE w[1] # 0
  <2>1. CutAtZero(w)[1] = w[1]
    BY <1>1, <1>3 DEF CutAtZero
  <2> QED BY <1>2, <1>3, <2>1
<1> QED BY <1>3

\* Whatever the network does and whoever restarts, a reading is stored under an
\* id that was given to the plant that measured it, or, when it has none yet,
\* under 0 if an id that begins with a zero byte has made that a device
\* (main.cpp:209, 309, udp_server.c:141).
THEOREM ReadingsStayOwn == Spec => []ReadingsAreOwn
<1>1. ASSUME Inv, BeatsInv, NEW m \in net \cup {job}, m.type = "reading", m.id \in known,
             m.id \notin given[m.plant]
      PROVE  m.id = Nil /\ \E p \in Plant : \E own \in given[p] : own[1] = 0
  <2>1. m.id = Nil
    BY <1>1 DEF Inv, GivenInv
  <2>2. PICK p \in Plant : Nil \in given[p] \/ \E own \in given[p] : CutAtZero(own) = Nil
    BY <1>1, <2>1 DEF BeatsInv, NoGhosts
  <2>3. Nil[1] = 0
    BY DEF Nil
  <2> QED
    BY <2>1, <2>2, <2>3, CutToNil
<1>2. Inv /\ BeatsInv => ReadingsAreOwn
  BY <1>1 DEF ReadingsAreOwn
<1>3. Inv /\ BeatsInv /\ [Next]_vars => BeatsInv'
  BY BeatsStep
<1> QED
  BY <1>2, <1>3, BeatsInit, Invariance, PTL DEF Spec

------------------------------------------------------------------------------
(* The server and the device manager.                                       *)

LEMMA InitKeeps == Init => D!Init
<1> SUFFICES ASSUME Init PROVE D!Init
  OBVIOUS
<1>1. CallUnderWay = [op |-> "none", id |-> NoId]
  BY CallFacts DEF Init
<1> QED BY <1>1 DEF Init, D!Init, D!NoCall

LEMMA SameCall ==
  ASSUME UNCHANGED <<known, alive>>, job'.type = job.type, job'.id = job.id
  PROVE  UNCHANGED D!vars
BY DEF D!vars, CallUnderWay

LEMMA NoCalls ==
  ASSUME UNCHANGED <<known, alive>>,
         job.type \notin {"new", "heartbeat"}, job'.type \notin {"new", "heartbeat"}
  PROVE  UNCHANGED D!vars
<1>1. CallUnderWay = [op |-> "none", id |-> NoId]
  BY CallFacts
<1>2. CallUnderWay' = [op |-> "none", id |-> NoId]
  BY DEF CallUnderWay
<1> QED BY <1>1, <1>2 DEF D!vars

\* Taking up a request or a heartbeat is a call of the manager, ...
LEMMA ReceiveKeeps ==
  ASSUME Inv, BeatsInv, NEW m \in net, Receive(m)
  PROVE  D!Next \/ UNCHANGED D!vars
<1>1. UNCHANGED <<known, alive>> /\ job = NoJob
  BY ReceiveEffect
<1>2. CallUnderWay = [op |-> "none", id |-> NoId]
  BY <1>1, CallFacts
<1>3. CASE m.type \in Measured /\ job' = m
  BY <1>1, <1>3, NoCalls
<1>4. CASE m.type = "heartbeat" /\ job' = m
  <2>1. CallUnderWay' = [op |-> "heartbeat", id |-> m.id]
    BY <1>4 DEF CallUnderWay
  <2>2. m.id \in NamedIds
    <3>1. PICK own \in given[m.plant] : m.id = CutAtZero(own)
      BY <1>4 DEF BeatsInv
    <3>2. own \in Id
      BY DEF Inv, TypeOK
    <3> QED BY <3>1, <3>2 DEF NamedIds
  <2>3. D!Ask("heartbeat", m.id)
    BY <1>1, <1>2, <2>1 DEF D!Ask, D!NoCall
  <2> QED BY <2>2, <2>3 DEF D!Next
<1>5. ASSUME NEW i \in Id, job' = Msg("new", m.plant, i) PROVE D!Next
  <2>1. CallUnderWay' = [op |-> "register", id |-> i]
    BY <1>5 DEF CallUnderWay
  <2>2. D!Ask("register", i)
    BY <1>1, <1>2, <2>1 DEF D!Ask, D!NoCall
  <2> QED BY <2>2 DEF D!Next, NamedIds
<1> QED BY <1>3, <1>4, <1>5, ReceiveEffect

\* ... and nothing else that plants, network, poll thread and receiving thread do
\* is a step of the manager.
LEMMA KeepsStep ==
  ASSUME Inv, BeatsInv, [Next]_vars PROVE D!Next \/ UNCHANGED D!vars
<1>1. ASSUME NEW p \in Plant, Reboot(p) \/ SendHeartbeat(p) PROVE UNCHANGED D!vars
  BY <1>1, SameCall DEF Reboot, SendHeartbeat
<1>2. ASSUME NEW p \in Plant, NEW m \in net, GetIdPacket(p, m) \/ GetRequest(p, m) \/ GetPump(p, m)
      PROVE  UNCHANGED D!vars
  BY <1>2, SameCall DEF GetIdPacket, GetRequest, GetPump
<1>3. ASSUME NEW m \in net, Receive(m) PROVE D!Next \/ UNCHANGED D!vars
  BY <1>3, ReceiveKeeps
<1>4. ASSUME NEW m \in net, Drop(m) PROVE UNCHANGED D!vars
  BY <1>4, SameCall DEF Drop
<1>5. CASE Register \/ Readmit \/ HandleHeartbeat
  BY <1>5 DEF Register, Readmit, HandleHeartbeat, D!Next
<1>6. CASE Answer
  BY <1>6, NoCalls DEF Answer, Handling
<1>7. CASE HandleSensor
  <2>1. job'.type \notin {"new", "heartbeat"}
    BY <1>7 DEF HandleSensor, Handling
  <2> QED BY <1>7, <2>1, NoCalls DEF HandleSensor, Handling
<1>8. ASSUME NEW i \in alive, Timeout(i) PROVE D!Next
  BY <1>8 DEF Timeout, D!Next
<1>9. CASE StartRound \/ Update \/ \E i \in queue : RequestSensors(i)
  BY <1>9, SameCall DEF StartRound, Update, RequestSensors
<1>10. CASE Restart
  BY <1>10 DEF Restart, D!Next
<1>11. CASE UNCHANGED vars
  BY <1>11, SameCall DEF vars
<1> QED
  BY <1>1, <1>2, <1>3, <1>4, <1>5, <1>6, <1>7, <1>8, <1>9, <1>10, <1>11
  DEF Next, Handle

\* The server is a user of the device manager as DeviceSet describes it: one call
\* at a time, about an id of its own or one that a heartbeat may name, and no
\* device comes, goes or is alive but by a step of the manager.
THEOREM ServerUsesDeviceSet == Spec => ServerKeepsToDeviceSet
<1>1. Inv /\ BeatsInv /\ [Next]_vars => BeatsInv' /\ [D!Next]_(D!vars)
  BY BeatsStep, KeepsStep
<1> QED
  BY <1>1, BeatsInit, InitKeeps, Invariance, PTL DEF Spec, ServerKeepsToDeviceSet, D!Spec
------------------------------------------------------------------------------
(* Until the server is restarted, only a plant without an id crashes it.    *)

\* No zero byte, or only zero bytes after it.
Whole(i) == CutAtZero(i) = i

\* A plant that has its id from earlier and was not heard of yet.
Returning(p) == id[p] \notin known \cup {NoId} /\ Whole(id[p])

\* An id on its way is known: the server made it up.
AnswersKnown ==
  \A m \in net \cup {job} : m.type \in {"id", "answer"} => m.id \in known

\* A reading of a device is one of none, of a known one, or of its sender, unless
\* its id is one that heartbeats do not say.
IdsKnown ==
  \A m \in net \cup {job} :
    m.type = "reading" => m.id \in known \cup {Nil, id[m.plant]} \/ ~Whole(m.id)

\* A returning plant is heard of by a heartbeat first, and is not asked for a
\* reading before that heartbeat is being handled.
HeardFirst(p) ==
  /\ \A m \in net \cup {job} : m.plant = p =>
       /\ m.type \notin {"register", "new", "id", "answer"}
       /\ m.type = "heartbeat" => m.id = id[p]
  /\ \/ clientAddr = p
     \/ \E m \in net : m.plant = p /\ m.type \in {"request"} \cup Measured
     => job.type = "heartbeat" /\ job.plant = p

Fresh ==
  /\ AnswersKnown
  /\ IdsKnown
  /\ \A p \in Plant : Returning(p) => HeardFirst(p)
  /\ server = "crashed" => job.id = Nil \/ ~Whole(job.id)

FreshInv == restarts = 0 => Fresh

LEMMA FreshInit == Init => FreshInv
<1> SUFFICES ASSUME Init PROVE Fresh
  BY DEF FreshInv
<1>1. \A p \in Plant : Returning(p) => HeardFirst(p)
  BY DEF Init, Returning, HeardFirst
<1> QED
  BY <1>1 DEF Init, Fresh, AnswersKnown, IdsKnown

\* A plant that boots with the id it had, or without one, or with a known one,
\* asks for no id if it is a returning one.
LEMMA BootFresh ==
  ASSUME Inv, Fresh, NEW p \in Plant, NEW saved, NEW flying \in SUBSET net,
         saved \in known \cup {NoId, id[p]},
         Returning(p) => saved = id[p],
         Boot(p, saved, flying), UNCHANGED serverVars
  PROVE  Fresh'
<1> DEFINE r == Msg("register", p, Nil)
<1>1. net' \subseteq net \cup {r} /\ (saved # NoId => net' \subseteq net)
  BY SentBounds DEF Boot
<1>2. id' = [id EXCEPT ![p] = saved] /\ id \in [Plant -> Id \cup {NoId}]
  BY DEF Boot, Inv, TypeOK
<1>3. \A m \in net : m.plant \in Plant
  BY DEF Inv, TypeOK
<1>4. AnswersKnown'
  BY <1>1 DEF Fresh, AnswersKnown
<1>5. IdsKnown'
  <2> SUFFICES ASSUME NEW m \in (net \cup {job})',
                      m.type = "reading", Whole(m.id)
               PROVE  m.id \in (known \cup {Nil, id[m.plant]})'
    BY DEF IdsKnown, Whole
  <2>1. m \in net \cup {job} /\ m.id \in known \cup {Nil, id[m.plant]}
    BY <1>1 DEF Fresh, IdsKnown
  <2>2. m.plant \in Plant
    BY <2>1 DEF Inv, TypeOK
  <2>3. CASE m.plant # p \/ m.id # id[p]
    BY <1>2, <2>1, <2>2, <2>3
  <2>4. CASE m.plant = p /\ m.id = id[p]
    <3>1. m.id \in Word
      BY <2>1 DEF Inv, TypeOK
    <3>2. id[p] # NoId
      BY <2>4, <3>1
    <3> QED
      BY <1>2, <2>4, <3>2 DEF Returning
  <2> QED
    BY <2>3, <2>4
<1>6. ASSUME NEW q \in Plant, Returning(q)' PROVE HeardFirst(q)'
  <2>1. Returning(q) /\ id'[q] = id[q]
    BY <1>2, <1>6 DEF Returning
  <2>2. q = p => net' \subseteq net
    BY <1>1, <1>2, <2>1 DEF Returning
  <2>3. HeardFirst(q)
    BY <2>1 DEF Fresh
  <2> QED
    BY <1>1, <2>1, <2>2, <2>3 DEF HeardFirst
<1> QED
  BY <1>4, <1>5, <1>6 DEF Fresh

\* A packet that is no id, no request to a returning plant and names no strange
\* device does no harm.
LEMMA NetFresh ==
  ASSUME Fresh, NEW m, net' \subseteq net \cup {m},
         m.type \notin {"id", "register", "new", "answer"},
         m.type = "reading" => m.id \in known \cup {Nil, id[m.plant]},
         \A p \in Plant : Returning(p) /\ m.plant = p =>
           /\ m.type = "heartbeat" => m.id = id[p]
           /\ m.type \in {"request"} \cup Measured =>
                job.type = "heartbeat" /\ job.plant = p,
         UNCHANGED <<id, serverVars>>
  PROVE  Fresh'
<1>1. AnswersKnown' /\ IdsKnown'
  BY DEF Fresh, AnswersKnown, IdsKnown
<1>2. ASSUME NEW p \in Plant, Returning(p)' PROVE HeardFirst(p)'
  BY <1>2 DEF Fresh, Returning, HeardFirst
<1> QED
  BY <1>1, <1>2 DEF Fresh

LEMMA FewerFresh ==
  ASSUME Fresh, net' \subseteq net, UNCHANGED <<id, serverVars>>
  PROVE  Fresh'
<1>1. AnswersKnown' /\ IdsKnown'
  BY DEF Fresh, AnswersKnown, IdsKnown
<1>2. ASSUME NEW p \in Plant, Returning(p)' PROVE HeardFirst(p)'
  BY <1>2 DEF Fresh, Returning, HeardFirst
<1> QED
  BY <1>1, <1>2 DEF Fresh

LEMMA FreshStep ==
  ASSUME Inv, Inv', Fresh, [Next]_vars, ~Restart PROVE Fresh'
<1>1. ASSUME NEW p \in Plant, Reboot(p) PROVE Fresh'
  <2>1. flash[p] = id[p]
    BY DEF Inv, GivenInv
  <2> QED
    BY <1>1, <2>1, BootFresh DEF Reboot
<1>2. ASSUME NEW p \in Plant, SendHeartbeat(p) PROVE Fresh'
  <2> DEFINE m == Msg("heartbeat", p, CutAtZero(Own(p)))
  <2>1. id[p] \in Id
    BY <1>2 DEF SendHeartbeat, Beats, Inv, TypeOK
  <2>2. Returning(p) => m.id = id[p]
    BY <1>2, <2>1 DEF Own, Returning, Whole, SendHeartbeat, Beats
  <2>3. net' \subseteq net \cup {m}
    BY <1>2, SentBounds DEF SendHeartbeat
  <2>4. UNCHANGED <<id, serverVars>>
    BY <1>2 DEF SendHeartbeat
  <2>5. m.type = "heartbeat" /\ m.plant = p
    OBVIOUS
  <2> HIDE DEF m
  <2> QED
    BY <2>2, <2>3, <2>4, <2>5, NetFresh
<1>3. ASSUME NEW p \in Plant, NEW m \in net, GetIdPacket(p, m) PROVE Fresh'
  <2>1. PICK flying \in After(m) :
          \/ /\ flash' = [flash EXCEPT ![p] = m.id]
             /\ id' = [id EXCEPT ![p] = m.id]
             /\ net' = flying
          \/ \E saved \in Saved(p, m.id) : Boot(p, saved, flying)
    BY <1>3 DEF GetIdPacket
  <2>2. flying \subseteq net
    BY AfterBounds
  <2>3. m.id \in known /\ m.id # NoId /\ ~Returning(p)
    BY <1>3 DEF GetIdPacket, Inv, TypeOK, Fresh, AnswersKnown, HeardFirst
  <2>4. UNCHANGED serverVars
    BY <1>3 DEF GetIdPacket
  <2>5. CASE /\ flash' = [flash EXCEPT ![p] = m.id]
             /\ id' = [id EXCEPT ![p] = m.id]
             /\ net' = flying
    <3>1. Boot(p, m.id, flying)
      BY <2>3, <2>5 DEF Boot
    <3> QED
      BY <2>2, <2>3, <2>4, <3>1, BootFresh
  <2>6. ASSUME NEW saved \in Saved(p, m.id), Boot(p, saved, flying)
        PROVE  Fresh'
    <3>1. saved \in known \cup {NoId, id[p]}
      BY <2>3 DEF Saved, Inv, GivenInv
    <3> QED
      BY <2>2, <2>3, <2>4, <2>6, <3>1, BootFresh
  <2> QED
    BY <2>1, <2>5, <2>6
<1>4. ASSUME NEW p \in Plant, NEW m \in net, GetRequest(p, m) PROVE Fresh'
  <2>1. PICK r \in Answers(p, m) : net' \subseteq net \cup {r}
    BY <1>4, SentBounds, AfterBounds DEF GetRequest
  <2>2. Returning(p) => job.type = "heartbeat" /\ job.plant = p
    BY <1>4 DEF GetRequest, Fresh, HeardFirst
  <2>3. UNCHANGED <<id, serverVars>>
    BY <1>4 DEF GetRequest
  <2>4. r.type \in Measured /\ r.plant = p /\ r.id \in {Nil, id[p]}
    BY DEF Answers, Answering, Own
  <2> QED
    BY <2>1, <2>2, <2>3, <2>4, NetFresh
<1>5. ASSUME NEW p \in Plant, NEW m \in net, GetPump(p, m) PROVE Fresh'
  BY <1>5, AfterBounds, FewerFresh DEF GetPump
<1>6. ASSUME NEW m \in net, Receive(m) PROVE Fresh'
  <2>1. net' \subseteq net /\ clientAddr' = m.plant
        /\ UNCHANGED <<id, known, server>> /\ server = "up" /\ job = NoJob
    BY <1>6, ReceiveEffect, AfterBounds
  <2>2. \/ m.type \in {"heartbeat", "reading", "overLimit"} /\ job' = m
        \/ m.type = "register" /\ job'.type = "new" /\ job'.plant = m.plant
    BY <1>6, ReceiveEffect
  <2>3. AnswersKnown' /\ IdsKnown'
    BY <2>1, <2>2 DEF Fresh, AnswersKnown, IdsKnown
  <2>4. ASSUME NEW p \in Plant, Returning(p)' PROVE HeardFirst(p)'
    <3>1. Returning(p) /\ HeardFirst(p)
      BY <2>1, <2>4 DEF Returning, Fresh
    <3>2. m.plant = p => m.type = "heartbeat"
      BY <2>1, <2>2, <3>1 DEF HeardFirst
    <3> QED
      BY <2>1, <2>2, <3>1, <3>2 DEF HeardFirst
  <2> QED
    BY <2>1, <2>3, <2>4 DEF Fresh
<1>7. ASSUME NEW m \in net, Drop(m) PROVE Fresh'
  BY <1>7, FewerFresh DEF Drop
<1>8. CASE Register
  <2>1. /\ known' = known \cup {job.id} /\ job' = Msg("answer", job.plant, job.id)
        /\ UNCHANGED <<id, net, clientAddr, server>> /\ server = "up"
        /\ job.type = "new" /\ clientAddr = job.plant
    BY <1>8, RegisterEffect DEF Inv, GivenInv
  <2>2. AnswersKnown' /\ IdsKnown'
    BY <2>1 DEF Fresh, AnswersKnown, IdsKnown
  <2>3. ASSUME NEW p \in Plant, Returning(p)' PROVE HeardFirst(p)'
    <3>1. Returning(p) /\ HeardFirst(p)
      BY <2>1, <2>3 DEF Returning, Fresh
    <3> QED
      BY <2>1, <3>1 DEF HeardFirst
  <2> QED
    BY <2>1, <2>2, <2>3 DEF Fresh
<1>9. CASE Answer
  <2> DEFINE m == Msg("id", clientAddr, job.id)
  <2>1. /\ net' \subseteq net \cup {m} /\ job' = NoJob
        /\ UNCHANGED <<id, known, clientAddr, server>> /\ server = "up"
        /\ job.type = "answer" /\ clientAddr = job.plant
    BY <1>9, SentBounds DEF Answer, Handling, Inv, GivenInv
  <2>2. AnswersKnown' /\ IdsKnown'
    BY <2>1 DEF Fresh, AnswersKnown, IdsKnown
  <2>3. ASSUME NEW p \in Plant, Returning(p)' PROVE HeardFirst(p)'
    <3>1. Returning(p) /\ HeardFirst(p)
      BY <2>1, <2>3 DEF Returning, Fresh
    <3>2. job.plant # p
      BY <2>1, <3>1 DEF HeardFirst
    <3> QED
      BY <2>1, <3>1, <3>2 DEF HeardFirst
  <2> QED
    BY <2>1, <2>2, <2>3 DEF Fresh
<1>10. CASE HandleHeartbeat
  <2>1. /\ job.id \in known /\ job' = NoJob
        /\ UNCHANGED <<id, net, clientAddr, server, known>> /\ server = "up"
        /\ job.type = "heartbeat" /\ clientAddr = job.plant
    BY <1>10, HeartbeatEffect DEF Inv, GivenInv
  <2>2. AnswersKnown' /\ IdsKnown'
    BY <2>1 DEF Fresh, AnswersKnown, IdsKnown
  <2>3. ASSUME NEW p \in Plant, Returning(p)' PROVE HeardFirst(p)'
    <3>1. Returning(p) /\ HeardFirst(p)
      BY <2>1, <2>3 DEF Returning, Fresh
    <3>2. job.plant # p
      BY <2>1, <3>1 DEF HeardFirst, Returning
    <3> QED
      BY <2>1, <3>1, <3>2 DEF HeardFirst
  <2> QED
    BY <2>1, <2>2, <2>3 DEF Fresh
<1>17. CASE Readmit
  <2>1. known' = known \cup {job.id} /\ UNCHANGED <<id, net, clientAddr, server, job>>
    BY <1>17, ReadmitEffect
  <2>2. AnswersKnown' /\ IdsKnown'
    BY <2>1 DEF Fresh, AnswersKnown, IdsKnown
  <2>3. ASSUME NEW p \in Plant, Returning(p)' PROVE HeardFirst(p)'
    <3>1. Returning(p) /\ HeardFirst(p)
      BY <2>1, <2>3 DEF Returning, Fresh
    <3> QED
      BY <2>1, <3>1 DEF HeardFirst
  <2> QED
    BY <2>1, <2>2, <2>3 DEF Fresh
<1>11. CASE HandleSensor
  <2>1. /\ job' \in {NoJob, job} /\ server = "up"
        /\ UNCHANGED <<id, net, clientAddr, known>>
        /\ job.type \in Measured /\ clientAddr = job.plant
        /\ job.plant \in Plant /\ job.id \in Word
        /\ server' = "crashed" => job.type = "reading" /\ job.id \notin known /\ job' = job
    BY <1>11 DEF HandleSensor, Handling, Inv, TypeOK, GivenInv
  <2>2. AnswersKnown' /\ IdsKnown'
    BY <2>1 DEF Fresh, AnswersKnown, IdsKnown
  <2>3. ~Returning(job.plant)
    BY <2>1 DEF Fresh, HeardFirst
  <2>4. ASSUME NEW p \in Plant, Returning(p)' PROVE HeardFirst(p)'
    <3>1. Returning(p) /\ HeardFirst(p) /\ job.plant # p
      BY <2>1, <2>3, <2>4 DEF Returning, Fresh
    <3> QED
      BY <2>1, <3>1 DEF HeardFirst
  <2>5. server' = "crashed" => job'.id = Nil \/ ~Whole(job'.id)
    <3> SUFFICES ASSUME job.type = "reading", job.id \notin known, job' = job
                 PROVE  job.id = Nil \/ ~Whole(job.id)
      BY <2>1
    <3>1. job.id \in known \cup {Nil, id[job.plant]} \/ ~Whole(job.id)
      BY <2>1 DEF Fresh, IdsKnown
    <3> QED
      BY <2>1, <2>3, <3>1 DEF Returning
  <2> QED
    BY <2>2, <2>4, <2>5 DEF Fresh
<1>12. ASSUME NEW i \in alive, Timeout(i) PROVE Fresh'
  <2>1. UNCHANGED <<id, net, server, clientAddr, job, known>>
    BY <1>12, TimeoutEffect
  <2> QED
    BY <2>1 DEF Fresh, AnswersKnown, IdsKnown, Returning, HeardFirst
<1>13. CASE StartRound
  BY <1>13, FewerFresh DEF StartRound
<1>14. ASSUME NEW i \in queue, RequestSensors(i) PROVE Fresh'
  <2> DEFINE m == Msg("request", clientAddr, i)
  <2>1. net' \subseteq net \cup {m} /\ UNCHANGED <<id, serverVars>>
    BY <1>14, SentBounds DEF RequestSensors
  <2>2. \A p \in Plant : Returning(p) /\ clientAddr = p =>
          job.type = "heartbeat" /\ job.plant = p
    BY DEF Fresh, HeardFirst
  <2>3. m.type = "request" /\ m.plant = clientAddr
    OBVIOUS
  <2> HIDE DEF m
  <2> QED
    BY <2>1, <2>2, <2>3, NetFresh
<1>15. CASE Update
  <2> DEFINE m == Msg("pump", clientAddr, Nil)
  <2>1. net' \subseteq net \cup {m} /\ UNCHANGED <<id, serverVars>>
    BY <1>15, SentBounds DEF Update
  <2>2. m.type = "pump"
    OBVIOUS
  <2> HIDE DEF m
  <2> QED
    BY <2>1, <2>2, NetFresh
<1>16. CASE UNCHANGED vars
  BY <1>16, FewerFresh DEF vars
<1> QED
  BY <1>1, <1>2, <1>3, <1>4, <1>5, <1>6, <1>7, <1>8, <1>9, <1>10, <1>11,
     <1>12, <1>13, <1>14, <1>15, <1>16, <1>17 DEF Next, Handle

LEMMA FreshInvStep ==
  ASSUME Inv, Inv', FreshInv, [Next]_vars PROVE FreshInv'
<1>1. CASE Restart
  BY <1>1, RestartEffect DEF FreshInv, Inv, TypeOK
<1>2. CASE ~Restart
  <2>1. restarts' = restarts
    BY <1>2 DEF Next, Handle, vars, Reboot, SendHeartbeat, GetIdPacket,
       GetRequest, GetPump, Receive, Drop, Register, Answer, Readmit, HandleHeartbeat,
       HandleSensor, Timeout, StartRound, RequestSensors, Update
  <2> QED
    BY <1>2, <2>1, FreshStep DEF FreshInv
<1> QED
  BY <1>1, <1>2

\* What crashes a server that was not restarted is a plant that was asked for a
\* reading before it had received its id, or one whose id has a zero byte
\* (udp_server.c:142, device_manager.c:284, main.cpp:309).
THEOREM OnlyNamelessPlantsCrash == Spec => []OnlyNamelessCrash
<1>1. FreshInv => OnlyNamelessCrash
  BY DEF FreshInv, Fresh, OnlyNamelessCrash, Whole
<1>2. Inv /\ Inv' /\ FreshInv /\ [Next]_vars => FreshInv'
  BY FreshInvStep
<1> QED
  BY <1>1, <1>2, FreshInit, Invariance, PTL DEF Spec
==============================================================================
