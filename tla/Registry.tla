------------------------------ MODULE Registry ------------------------------
(***************************************************************************)
(* What a device array promises to the threads that share it: a list of    *)
(* devices that only grows, on which every call takes effect at one moment *)
(* between its start and its return.  One call cannot: the list of living  *)
(* devices is taken one device at a time, because connection states change *)
(* without the array's lock.                                               *)
(***************************************************************************)
EXTENDS Integers, Sequences, FiniteSetsExt

CONSTANTS Thread, Id, NoId, Ops, MaxLen

Index == 0..(MaxLen - 1)

VARIABLES
  reg,      \* the ids of the devices, oldest first
  alive,    \* alive[k]: device k is ALIVE
  job,      \* the call a thread is in: an operation and its argument
  sampled,  \* the devices a getAlive has looked at
  picked,   \* those of them that were ALIVE then
  result    \* the devices its last call returned: none, one or a list

vars == <<reg, alive, job, sampled, picked, result>>

NoJob == [op |-> "none", arg |-> NoId]

Init ==
  /\ reg = <<>>
  /\ alive = [k \in Index |-> TRUE]
  /\ job = [t \in Thread |-> NoJob]
  /\ sampled = [t \in Thread |-> {}]
  /\ picked = [t \in Thread |-> {}]
  /\ result = [t \in Thread |-> {}]

Call(t, op, a) ==
  /\ job[t] = NoJob
  /\ job' = [job EXCEPT ![t] = [op |-> op, arg |-> a]]
  /\ UNCHANGED <<reg, alive, sampled, picked, result>>

Return(t, value) ==
  /\ result' = [result EXCEPT ![t] = value]
  /\ job' = [job EXCEPT ![t] = NoJob]
  /\ sampled' = [sampled EXCEPT ![t] = {}]
  /\ picked' = [picked EXCEPT ![t] = {}]
  /\ UNCHANGED alive

Put(t) ==
  /\ job[t].op = "put"
  /\ reg' = Append(reg, job[t].arg)
  /\ Return(t, {Len(reg)})

\* Replace a device.  A slot that holds none yet is not part of the list: what
\* is written there is lost with the next Put.
PutI(t) ==
  LET k == job[t].arg
  IN  /\ job[t].op = "putI"
      /\ IF k \in 0..(Len(reg) - 1)
         THEN \E id \in Id : reg' = [reg EXCEPT ![k + 1] = id]
         ELSE UNCHANGED reg
      /\ Return(t, {k} \cap Index)

Get(t) ==
  /\ job[t].op = "get"
  /\ Return(t, {job[t].arg} \cap (0..(Len(reg) - 1)))
  /\ UNCHANGED reg

\* The oldest device with this id.
GetId(t) ==
  LET hits == {k \in 0..(Len(reg) - 1) : reg[k + 1] = job[t].arg}
  IN  /\ job[t].op = "getId"
      /\ Return(t, IF hits = {} THEN {} ELSE {Min(hits)})
      /\ UNCHANGED reg

GetAll(t) ==
  /\ job[t].op = "getAll"
  /\ Return(t, 0..(Len(reg) - 1))
  /\ UNCHANGED reg

Sample(t, k) ==
  /\ job[t].op = "getAlive"
  /\ k \in 0..(Len(reg) - 1)
  /\ k \notin sampled[t]
  /\ sampled' = [sampled EXCEPT ![t] = @ \cup {k}]
  /\ picked' = IF alive[k] THEN [picked EXCEPT ![t] = @ \cup {k}] ELSE picked
  /\ UNCHANGED <<reg, alive, job, result>>

GetAlive(t) ==
  /\ job[t].op = "getAlive"
  /\ sampled[t] = 0..(Len(reg) - 1)
  /\ Return(t, picked[t])
  /\ UNCHANGED reg

\* A watcher or a heartbeat changes the state of a device.
Flip(k) ==
  /\ alive' = [alive EXCEPT ![k] = ~@]
  /\ UNCHANGED <<reg, job, sampled, picked, result>>

Next ==
  \/ \E t \in Thread :
       \/ \E op \in Ops, a \in Id \cup Index \cup {-1, NoId} : Call(t, op, a)
       \/ Put(t) \/ PutI(t) \/ Get(t) \/ GetId(t) \/ GetAll(t) \/ GetAlive(t)
       \/ \E k \in Index : Sample(t, k)
  \/ \E k \in Index : Flip(k)

Spec == Init /\ [][Next]_vars
==============================================================================
