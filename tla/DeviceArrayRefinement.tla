------------------------ MODULE DeviceArrayRefinement ------------------------
(***************************************************************************)
(* The device array implements the Registry, as long as no allocation      *)
(* fails: the slots below len are the registry's list, a loop's progress   *)
(* under arr_lock is what it has sampled so far.                           *)
(***************************************************************************)
EXTENDS DeviceArray, Sequences

Contents == [k \in 1..len |-> data[k - 1]]

DuringGetAlive(t, value) == IF job[t].op = "getAlive" THEN value ELSE {}

R == INSTANCE Registry WITH
       reg     <- Contents,
       sampled <- [t \in Thread |-> DuringGetAlive(t, 0..(i[t] - 1))],
       picked  <- [t \in Thread |-> DuringGetAlive(t, picked[t])]

\* DeviceArray_Put, Get, GetId and GetAll, loops, lock, doubling and copying of
\* the memory included, behave as one step each; GetAlive tells of every
\* device whether it was ALIVE at some moment of the call, and of all of them.
RegistrySpec == R!Spec
==============================================================================
