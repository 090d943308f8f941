-------------------------- MODULE DeviceArrayProofs --------------------------
(***************************************************************************)
(* Types and memory safety of the device array, and that it is a Registry, *)
(* for every number of threads, devices and slots.                         *)
(***************************************************************************)
EXTENDS DeviceArrayRefinement, FiniteSetTheorems, WellFoundedInduction, TLAPS

(* The size PutI grows the array to.  Induction over the numbers is the search  *)
(* for a least counterexample.                                                 *)

\* Of a set of natural numbers one is the least.
LEMMA Least ==
  ASSUME NEW S \in SUBSET Nat, S # {}
  PROVE  \E m \in S : \A n \in S : m <= n
<1> DEFINE Below == {0..n : n \in S}
<1>1. IsWellFoundedOn(StrictSubsetOrdering(Nat), FiniteSubsetsOf(Nat))
  BY FS_StrictSubsetOrderingWellFounded
<1>2. Below \subseteq FiniteSubsetsOf(Nat) /\ Below # {}
  <2>1. ASSUME NEW n \in S PROVE IsFiniteSet(0..n) /\ 0..n \subseteq Nat
    BY FS_Interval
  <2> QED BY <2>1 DEF FiniteSubsetsOf
<1>3. \E x \in Below : \A y \in Below : ~ (<<y, x>> \in StrictSubsetOrdering(Nat))
  <2> HIDE DEF Below
  <2> QED BY <1>1, <1>2, WFMin
<1>4. PICK m \in S : \A n \in S : ~ (<<0..n, 0..m>> \in StrictSubsetOrdering(Nat))
  BY <1>3
<1>5. ASSUME NEW n \in S, ~(m <= n) PROVE FALSE
  <2>1. 0..n \subseteq 0..m /\ m \in 0..m /\ m \notin 0..n
    BY <1>5
  <2>2. 0..n \subseteq Nat /\ 0..m \subseteq Nat /\ 0..n # 0..m
    BY <2>1
  <2> QED BY ONLY <2>1, <2>2, <1>4, <1>5 DEF StrictSubsetOrdering
<1> QED BY <1>5

\* An odd divisor of 2p divides p.
LEMMA Doubles ==
  ASSUME NEW p \in Nat \ {0}, PowerOfTwo(p)
  PROVE  PowerOfTwo(2 * p)
<1> SUFFICES ASSUME NEW d \in 1..(2 * p), NEW q \in 1..(2 * p), d * q = 2 * p, d % 2 # 0
             PROVE  d = 1
  BY DEF PowerOfTwo
<1>1. PICK e \in Nat : d = 2 * e + 1
  <2>1. d = 2 * (d \div 2) + 1 /\ d \div 2 \in Nat
    OBVIOUS
  <2> QED BY <2>1
<1>2. 2 * p = 2 * (e * q) + q
  BY <1>1
<1>3. PICK r \in Nat : q = 2 * r
  <2>1. e * q \in Int
    OBVIOUS
  <2>2. q = 2 * (p - e * q)
    BY <1>2, <2>1
  <2>3. p - e * q \in Nat
    BY <2>1, <2>2
  <2> QED BY <2>2, <2>3
<1>4. d * r = p /\ r \in 1..p /\ d \in 1..p
  <2>1. d * q = 2 * (d * r)
    BY <1>3
  <2>2. d * r \in Int /\ r >= 1
    BY <1>3
  <2>3. d * r = p
    BY <2>1, <2>2
  <2>4. r <= d * r /\ d <= d * r
    BY <2>2
  <2> QED BY <2>2, <2>3, <2>4
<1> QED BY <1>4 DEF PowerOfTwo

\* Twice the power of two that is too small for the next number is big enough.
LEMMA PowerExists ==
  ASSUME NEW n \in Nat \ {0}
  PROVE  \E p \in n..(2 * n - 1) : PowerOfTwo(p)
<1> DEFINE Bad == {m \in Nat \ {0} : ~ \E p \in m..(2 * m - 1) : PowerOfTwo(p)}
<1> SUFFICES ASSUME Bad # {} PROVE FALSE
  OBVIOUS
<1>1. PICK m \in Bad : \A k \in Bad : m <= k
  <2>1. Bad \in SUBSET Nat
    OBVIOUS
  <2> HIDE DEF Bad
  <2> QED BY <2>1, Least
<1>2. PowerOfTwo(1)
  BY DEF PowerOfTwo
<1>3. m > 1
  BY <1>1, <1>2
<1>4. m - 1 \notin Bad /\ m - 1 \in Nat \ {0}
  BY <1>1, <1>3
<1>5. PICK p \in (m - 1)..(2 * (m - 1) - 1) : PowerOfTwo(p)
  BY <1>4
<1>6. ~ PowerOfTwo(2 * p) \/ ~(2 * p \in m..(2 * m - 1))
  BY <1>1
<1>7. p \notin m..(2 * m - 1)
  BY <1>1, <1>5
<1>8. p = m - 1 /\ p \in Nat \ {0}
  BY <1>3, <1>4, <1>5, <1>7
<1> QED BY <1>3, <1>5, <1>6, <1>8, Doubles

\* The size PutI asks for has room for the slot it is to write.
LEMMA PowerAboveIsAbove ==
  ASSUME NEW k \in Nat
  PROVE  PowerAbove(k) \in Nat \ {0} /\ k < PowerAbove(k)
<1>1. \E p \in (k + 1)..(2 * (k + 1) - 1) : PowerOfTwo(p)
  BY PowerExists
<1>2. PowerAbove(k) \in (k + 1)..(2 * k + 1)
  BY <1>1 DEF PowerAbove
<1> QED BY <1>2
------------------------------------------------------------------------------
(* Memory safety.                                                              *)

\* Only the thread that holds arr_lock is in the critical section.
Exclusion ==
  /\ lock \in Thread \cup {Free}
  /\ pc \in [Thread -> {"idle", "lock", "locked"}]
  /\ \A t \in Thread : At(t, "locked") => lock = t

Sizes == len \in Nat /\ total \in Nat /\ room \in Nat

Job == [op : Ops \cup {"none"}, arg : Id \cup Index \cup {-1, NoId}]
OnlyOps == job \in [Thread -> Job]
OnlyArgs == \A t \in Thread : job[t].op = "putI" => job[t].arg \in Index \cup {-1}

Inv == Exclusion /\ Sizes /\ OnlyOps /\ OnlyArgs /\ InBounds

USE DEF At, Goto, Free, Doing, Return, arrVars, Job

\* PutI returns and unlocks after a growth that failed, with no memory behind the
\* array; nothing but its tests call it.
PutIAllocates == AllocFails => "putI" \notin Ops

\* An allocation that fails leaves no memory; one that succeeds leaves at least
\* as much as total_size says.
LEMMA ResizeEffect ==
  ASSUME Sizes, NEW t \in Thread, NEW size \in Nat, size >= total, Resize(t, size), total <= room
  PROVE  /\ total' \in Nat /\ room' \in Nat
         /\ total' = total \/ total' <= room'
         /\ total' <= room' \/ room' = 0
  BY DEF Sizes, Resize

LEMMA InitInv == Init => Inv
  BY ArrayAssumption DEF Init, Inv, Exclusion, Sizes, OnlyOps, OnlyArgs, InBounds, NoJob

LEMMA InvStep == PutIAllocates /\ Inv /\ [Next]_vars => Inv'
<1> SUFFICES ASSUME PutIAllocates, Inv, [Next]_vars PROVE Inv'
  OBVIOUS
<1> USE ArrayAssumption DEF Inv
<1>1. ASSUME NEW t \in Thread, NEW op \in Ops, NEW a \in Args(op), Call(t, op, a)
      PROVE  Inv'
  BY <1>1 DEF Call, Exclusion, Sizes, OnlyOps, OnlyArgs, InBounds, Args
<1>2. ASSUME NEW t \in Thread, Acquire(t) PROVE Inv'
  BY <1>2 DEF Acquire, Exclusion, Sizes, OnlyOps, OnlyArgs, InBounds
<1>3. ASSUME NEW t \in Thread, PutGrow(t) PROVE Inv'
  <2>1. lock = t /\ len >= total /\ total <= room /\ Resize(t, 2 * total)
    BY <1>3 DEF PutGrow, DoubledSize, Exclusion, InBounds, Full
  <2>2. /\ total' \in Nat /\ room' \in Nat
        /\ total' = total \/ total' <= room'
    <3>1. 2 * total \in Nat /\ 2 * total >= total
      BY DEF Sizes
    <3> QED BY <2>1, <3>1, ResizeEffect
  <2>3. UNCHANGED <<len, lock, alive, picked>>
    BY <1>3 DEF PutGrow
  <2>4. CASE len < total' /\ UNCHANGED <<pc, job, i, result>>
    BY <2>1, <2>2, <2>3, <2>4 DEF Exclusion, Sizes, OnlyOps, OnlyArgs, InBounds
  <2>5. CASE Goto(t, "idle") /\ job' = [job EXCEPT ![t] = NoJob]
    BY <2>1, <2>2, <2>3, <2>5 DEF Exclusion, Sizes, OnlyOps, OnlyArgs, InBounds, NoJob
  <2> QED
    BY <1>3, <2>4, <2>5 DEF PutGrow
<1>4. ASSUME NEW t \in Thread, PutStore(t) PROVE Inv'
  BY <1>4 DEF PutStore, Exclusion, Sizes, OnlyOps, OnlyArgs, InBounds, Full, NoJob
<1>5. ASSUME NEW t \in Thread, PutI(t) \/ PutIGrow(t) PROVE Inv'
  <2>1. "putI" \in Ops /\ ~AllocFails /\ lock = t /\ total <= room /\ len <= total
    BY <1>5 DEF PutI, PutIGrow, OnlyOps, PutIAllocates, Exclusion, InBounds
  <2>2. CASE PutI(t)
    BY <2>1, <2>2 DEF PutI, Exclusion, Sizes, OnlyOps, OnlyArgs, InBounds, NoJob
  <2>3. CASE PutIGrow(t)
    <3>1. /\ job[t].arg >= total /\ Resize(t, PowerAbove(job[t].arg))
          /\ \/ UNCHANGED <<lock, pc, job, i, picked, result>>
             \/ Return(t, {})
          /\ UNCHANGED <<len, alive>>
      BY <2>3 DEF PutIGrow
    <3>2. job[t].arg \in Nat
      BY <2>3 DEF PutIGrow, OnlyArgs, Sizes, Index
    <3>3. PowerAbove(job[t].arg) \in Nat /\ PowerAbove(job[t].arg) >= total
      BY <3>1, <3>2, PowerAboveIsAbove DEF Sizes
    <3>4. total' <= room' /\ total' \in Nat /\ room' \in Nat /\ total <= total'
      BY <2>1, <3>1, <3>3 DEF Resize, Sizes
    <3> QED BY <2>1, <3>1, <3>4 DEF Exclusion, Sizes, OnlyOps, OnlyArgs, InBounds, NoJob
  <2> QED BY <1>5, <2>2, <2>3
<1>6. ASSUME NEW t \in Thread, Get(t) PROVE Inv'
  BY <1>6 DEF Get, Exclusion, Sizes, OnlyOps, OnlyArgs, InBounds, NoJob
<1>7. ASSUME NEW t \in Thread, GetId(t) PROVE Inv'
  <2>1. CASE \E devices : Return(t, devices)
    BY <1>7, <2>1 DEF GetId, Exclusion, Sizes, OnlyOps, OnlyArgs, InBounds, NoJob
  <2>2. CASE UNCHANGED <<lock, pc, job, picked, result>>
    BY <1>7, <2>2 DEF GetId, Exclusion, Sizes, OnlyOps, OnlyArgs, InBounds
  <2> QED BY <1>7, <2>1, <2>2 DEF GetId
<1>8. ASSUME NEW t \in Thread, NoCopy(t) \/ Copy(t) PROVE Inv'
  BY <1>8 DEF NoCopy, Copy, Exclusion, Sizes, OnlyOps, OnlyArgs, InBounds, NoJob
<1>9. ASSUME NEW t \in Thread, OtherError(t) PROVE Inv'
  BY <1>9 DEF OtherError, Exclusion, Sizes, OnlyOps, OnlyArgs, InBounds
<1>10. ASSUME NEW k \in Index, Flip(k) PROVE Inv'
  BY <1>10 DEF Flip, Exclusion, Sizes, OnlyOps, OnlyArgs, InBounds
<1>11. CASE UNCHANGED vars
  BY <1>11 DEF vars, Exclusion, Sizes, OnlyOps, OnlyArgs, InBounds
<1> QED
  BY <1>1, <1>2, <1>3, <1>4, <1>5, <1>6, <1>7, <1>8, <1>9, <1>10, <1>11
  DEF Next, Step

\* Whoever can reach the array finds memory behind every slot below
\* total_size, even after a realloc that failed or an errno that was stale.
THEOREM ArrayInBounds == PutIAllocates /\ Spec => []InBounds
<1> SUFFICES ASSUME PutIAllocates PROVE Spec => []InBounds
  OBVIOUS
<1>1. Inv => InBounds
  BY DEF Inv
<1>2. Inv /\ [Next]_vars => Inv'
  BY InvStep
<1> QED
  BY InitInv, <1>1, <1>2, PTL DEF Spec

------------------------------------------------------------------------------
(* Types.  That no index leaves the array's devices rests on the bound: the    *)
(* devices and the calls of Put under way are no more than MaxLen.             *)

Putters == {u \in Thread : job[u].op = "put"}

Bounded == len + Cardinality(Putters) <= MaxLen

\* A turn of a loop is inside the list or just behind it.
Turn == \A t \in Thread : i[t] <= len

TypeInv ==
  /\ TypeOK
  /\ job \in [Thread -> Job]
  /\ Bounded
  /\ Turn
  /\ \A t \in Thread : At(t, "locked") => lock = t

LEMMA ArgTypes ==
  ASSUME TypeOK, NEW t \in Thread
  PROVE  /\ job[t].op = "put" => job[t].arg \in Id
         /\ job[t].op = "putI" => job[t].arg \in Index \cup {-1}
<1>1. Args("put") = Id /\ Args("putI") = Index \cup {-1}
  BY DEF Args
<1>2. job[t] = NoJob \/ job[t].arg \in Args(job[t].op)
  BY DEF TypeOK
<1>3. NoJob.op # "put" /\ NoJob.op # "putI"
  BY DEF NoJob
<1> QED BY <1>1, <1>2, <1>3

LEMMA PuttersFinite ==
  IsFiniteSet(Putters) /\ Cardinality(Putters) \in Nat
BY ArrayAssumption, FS_Subset, FS_CardinalityType DEF Putters

LEMMA OneMore ==
  ASSUME NEW t
  PROVE  LET n == Cardinality(Putters \cup {t}) IN n \in Nat /\ n <= Cardinality(Putters) + 1
<1>1. Cardinality(Putters \cup {t}) =
        IF t \in Putters THEN Cardinality(Putters) ELSE Cardinality(Putters) + 1
  BY ONLY PuttersFinite, FS_AddElement
<1> QED BY <1>1, PuttersFinite

LEMMA OneLess ==
  ASSUME NEW t
  PROVE  LET n == Cardinality(Putters \ {t})
         IN /\ n \in Nat /\ n <= Cardinality(Putters)
            /\ t \in Putters => n = Cardinality(Putters) - 1
<1>1. Cardinality(Putters \ {t}) =
        IF t \in Putters THEN Cardinality(Putters) - 1 ELSE Cardinality(Putters)
  BY ONLY PuttersFinite, FS_RemoveElement
<1>2. IsFiniteSet(Putters \ {t})
  BY ONLY PuttersFinite, FS_RemoveElement
<1>3. Cardinality(Putters \ {t}) \in Nat
  BY ONLY <1>2, FS_CardinalityType
<1> QED BY <1>1, <1>3, PuttersFinite

\* A call that ends is one putter less, and none of the other calls is one more.
LEMMA PutterLeaves ==
  ASSUME NEW t \in Thread, job[t].op = "put",
         job' = [job EXCEPT ![t] = NoJob],
         job \in [Thread -> Job]
  PROVE  Cardinality(Putters') = Cardinality(Putters) - 1
<1>1. Putters' = Putters \ {t} /\ t \in Putters
  BY DEF Putters, NoJob
<1> QED BY <1>1, OneLess

LEMMA OtherLeaves ==
  ASSUME NEW t \in Thread, job[t].op # "put",
         job' = [job EXCEPT ![t] = NoJob],
         job \in [Thread -> Job]
  PROVE  Putters' = Putters
BY DEF Putters, NoJob

LEMMA ResizeTypes ==
  ASSUME NEW t \in Thread, NEW size \in Nat \ {0}, Resize(t, size),
         room \in Nat, total \in Nat \ {0}, data \in [0..(room - 1) -> Id \cup {NoId}],
         errno \in [Thread -> {"none", "ENOMEM", "other"}]
  PROVE  /\ total' \in Nat \ {0} /\ room' \in Nat
         /\ data' \in [0..(room' - 1) -> Id \cup {NoId}]
         /\ errno' \in [Thread -> {"none", "ENOMEM", "other"}]
<1>1. CASE /\ room' = size
           /\ data' = [k \in 0..(size - 1) |-> IF k < room THEN data[k] ELSE NoId]
           /\ total' = IF errno[t] = "ENOMEM" THEN total ELSE size
           /\ UNCHANGED errno
  BY <1>1
<1>2. CASE /\ room' = 0
           /\ data' = [k \in 0..(-1) |-> NoId]
           /\ errno' = [errno EXCEPT ![t] = "ENOMEM"]
           /\ UNCHANGED total
  BY <1>2
<1> QED BY <1>1, <1>2 DEF Resize

\* Leaving a call.
LEMMA ReturnTypes ==
  ASSUME NEW t \in Thread, At(t, "locked"), NEW devices \in SUBSET Index, Return(t, devices),
         UNCHANGED <<len, alive>>, TypeInv, Bounded',
         total' \in Nat \ {0}, room' \in Nat, data' \in [0..(room' - 1) -> Id \cup {NoId}],
         errno' \in [Thread -> {"none", "ENOMEM", "other"}]
  PROVE  TypeInv'
<1> USE DEF TypeInv
<1>1. /\ lock' \in Thread \cup {Free}
      /\ pc' \in [Thread -> {"idle", "lock", "locked"}]
      /\ picked' \in [Thread -> SUBSET Index] /\ result' \in [Thread -> SUBSET Index]
  BY DEF TypeOK
<1>2. i' \in [Thread -> 0..MaxLen] /\ Turn'
  BY ArrayAssumption DEF TypeOK, Turn
<1>3. /\ job' \in [Thread -> Job]
      /\ \A u \in Thread :
           job'[u] = NoJob \/ (job'[u].op \in Ops /\ job'[u].arg \in Args(job'[u].op))
  BY DEF TypeOK, NoJob
<1>4. \A u \in Thread : At(u, "locked")' => lock' = u
  BY DEF TypeOK
<1> QED BY <1>1, <1>2, <1>3, <1>4 DEF TypeOK

LEMMA InitTypes == Init => TypeInv
<1> SUFFICES ASSUME Init PROVE TypeInv
  OBVIOUS
<1>1. Putters = {}
  BY DEF Init, Putters, NoJob
<1>2. Bounded
  BY <1>1, FS_EmptySet, ArrayAssumption DEF Bounded, Init
<1> QED BY <1>2, ArrayAssumption DEF Init, TypeInv, TypeOK, Turn, NoJob, Index

LEMMA TypeStep == TypeInv /\ [Next]_vars => TypeInv'
<1> SUFFICES ASSUME TypeInv, [Next]_vars PROVE TypeInv'
  OBVIOUS
<1> USE ArrayAssumption DEF TypeInv
<1>0. Cardinality(Putters) \in Nat
  BY PuttersFinite
<1>1. ASSUME NEW t \in Thread, NEW op \in Ops, NEW a \in Args(op), Call(t, op, a)
      PROVE  TypeInv'
  <2>1. Bounded'
    <3>1. CASE op = "put"
      <4>1. Putters' = Putters \cup {t}
        BY <1>1, <3>1 DEF Call, Putters
      <4>2. Cardinality(Putters') <= Cardinality(Putters) + 1 /\ Cardinality(Putters') \in Nat
        BY ONLY <4>1, OneMore
      <4> QED BY <1>1, <3>1, <4>2, <1>0 DEF Call, Putters, Bounded, TypeOK
    <3>2. CASE op # "put"
      <4>1. Putters' = Putters \ {t}
        BY <1>1, <3>2 DEF Call, Putters
      <4>2. Cardinality(Putters') <= Cardinality(Putters) /\ Cardinality(Putters') \in Nat
        BY ONLY <4>1, OneLess
      <4> QED BY <1>1, <4>2, <1>0 DEF Call, Bounded, TypeOK
    <3> QED BY <3>1, <3>2
  <2>2. job' = [job EXCEPT ![t] = [op |-> op, arg |-> a]] /\ op # "none" /\ [op |-> op, arg |-> a] # NoJob
    BY <1>1 DEF Call, NoJob
  <2>3. a \in Id \cup Index \cup {-1, NoId}
    BY <1>1 DEF Args
  <2> QED BY <1>1, <2>1, <2>2, <2>3 DEF Call, TypeOK, Turn
<1>2. ASSUME NEW t \in Thread, Acquire(t) PROVE TypeInv'
  BY <1>2 DEF Acquire, TypeOK, Turn, Bounded, Putters, FirstSlot
<1>3. ASSUME NEW t \in Thread, PutGrow(t) PROVE TypeInv'
  <2>1. job[t].op = "put" /\ UNCHANGED <<len, lock, alive, picked>> /\ Resize(t, 2 * total)
    BY <1>3 DEF PutGrow, DoubledSize
  <2>2. /\ total' \in Nat \ {0} /\ room' \in Nat
        /\ data' \in [0..(room' - 1) -> Id \cup {NoId}]
        /\ errno' \in [Thread -> {"none", "ENOMEM", "other"}]
    <3>1. 2 * total \in Nat \ {0}
      BY DEF TypeOK
    <3> QED BY <2>1, <3>1, ResizeTypes DEF TypeOK
  <2>3. CASE UNCHANGED <<pc, job, i, result>>
    BY <2>1, <2>2, <2>3 DEF TypeOK, Turn, Bounded, Putters
  <2>4. CASE /\ Goto(t, "idle") /\ job' = [job EXCEPT ![t] = NoJob]
             /\ result' = [result EXCEPT ![t] = {}] /\ i' = [i EXCEPT ![t] = 0]
    <3>1. Bounded'
      <4>1. Cardinality(Putters') = Cardinality(Putters) - 1
        BY <2>1, <2>4, PutterLeaves
      <4> QED BY <1>0, <2>1, <4>1 DEF Bounded, TypeOK
    <3>2. i' \in [Thread -> 0..MaxLen] /\ Turn'
      BY <2>1, <2>4 DEF TypeOK, Turn
    <3>3. /\ pc' \in [Thread -> {"idle", "lock", "locked"}]
          /\ \A u \in Thread : At(u, "locked")' => lock' = u
          /\ result' \in [Thread -> SUBSET Index]
      BY <2>1, <2>4 DEF TypeOK
    <3>4. /\ job' \in [Thread -> Job]
          /\ \A u \in Thread :
               job'[u] = NoJob \/ (job'[u].op \in Ops /\ job'[u].arg \in Args(job'[u].op))
      BY <2>4 DEF TypeOK, NoJob
    <3> QED BY <2>1, <2>2, <3>1, <3>2, <3>3, <3>4 DEF TypeOK
  <2> QED BY <1>3, <2>3, <2>4 DEF PutGrow
<1>4. ASSUME NEW t \in Thread, PutStore(t) PROVE TypeInv'
  <2>1. Bounded' /\ len < MaxLen
    <3>1. Cardinality(Putters') = Cardinality(Putters) - 1
      BY <1>4, PutterLeaves DEF PutStore
    <3>2. t \in Putters
      BY <1>4 DEF PutStore, Putters
    <3>3. Cardinality(Putters) # 0
      BY <3>2, PuttersFinite, FS_EmptySet
    <3> QED BY <1>0, <1>4, <3>1, <3>3 DEF PutStore, Bounded, TypeOK
  <2>2. job[t].arg \in Id
    BY <1>4, ArgTypes DEF PutStore
  <2>3. data' \in [0..(room' - 1) -> Id \cup {NoId}]
    BY <1>4, <2>2 DEF PutStore, TypeOK
  <2> QED BY <1>4, <2>1, <2>3 DEF PutStore, TypeOK, Turn, NoJob, Index, PutIndex
<1>5. ASSUME NEW t \in Thread, PutI(t) \/ PutIGrow(t) PROVE TypeInv'
  <2>0. /\ Doing(t, "putI") /\ lock = t /\ UNCHANGED <<len, alive>>
        /\ job[t].arg \in Index \cup {-1}
    BY <1>5, ArgTypes DEF PutI, PutIGrow
  <2>1. /\ total' \in Nat \ {0} /\ room' \in Nat
        /\ data' \in [0..(room' - 1) -> Id \cup {NoId}]
        /\ errno' \in [Thread -> {"none", "ENOMEM", "other"}]
    <3>1. CASE PutI(t)
      BY <3>1 DEF PutI, TypeOK
    <3>2. CASE PutIGrow(t)
      <4>1. Resize(t, PowerAbove(job[t].arg)) /\ job[t].arg \in Nat
        BY <2>0, <3>2 DEF PutIGrow, TypeOK, Index
      <4>2. PowerAbove(job[t].arg) \in Nat \ {0}
        BY <4>1, PowerAboveIsAbove
      <4> QED BY <4>1, <4>2, ResizeTypes DEF TypeOK
    <3> QED BY <1>5, <3>1, <3>2
  <2>2. CASE UNCHANGED <<lock, pc, job, i, picked, result>>
    BY <2>0, <2>1, <2>2 DEF TypeOK, Turn, Bounded, Putters
  <2>3. ASSUME NEW devices \in SUBSET Index, Return(t, devices) PROVE TypeInv'
    <3>1. Putters' = Putters
      BY <2>0, <2>3, OtherLeaves
    <3>2. Bounded'
      BY <2>0, <3>1 DEF Bounded
    <3> QED BY <2>0, <2>1, <2>3, <3>2, ReturnTypes
  <2>4. /\ {} \in SUBSET Index
        /\ ~(job[t].arg < 0) => {job[t].arg} \in SUBSET Index
    BY <2>0 DEF Index
  <2>5. \/ UNCHANGED <<lock, pc, job, i, picked, result>>
        \/ Return(t, {})
        \/ ~(job[t].arg < 0) /\ Return(t, {job[t].arg})
    BY <1>5 DEF PutI, PutIGrow
  <2> QED BY <2>2, <2>3, <2>4, <2>5
<1>6. ASSUME NEW t \in Thread, At(t, "locked"), job[t].op # "put", UNCHANGED <<arrVars, alive>>,
             NEW devices \in SUBSET Index, Return(t, devices),
             errno' \in [Thread -> {"none", "ENOMEM", "other"}]
      PROVE  TypeInv'
  <2>1. Putters' = Putters
    BY <1>6, OtherLeaves
  <2>2. Bounded'
    BY <1>6, <2>1 DEF Bounded
  <2>3. total' \in Nat \ {0} /\ room' \in Nat /\ data' \in [0..(room' - 1) -> Id \cup {NoId}]
    BY <1>6 DEF TypeOK
  <2> QED BY <1>6, <2>2, <2>3, ReturnTypes
<1>7. ASSUME NEW t \in Thread, Get(t) PROVE TypeInv'
  <2>1. {job[t].arg} \cap (0..(len - 1)) \in SUBSET Index
    BY DEF TypeOK, Index
  <2>2. At(t, "locked") /\ job[t].op # "put" /\ errno' \in [Thread -> {"none", "ENOMEM", "other"}]
    BY <1>7 DEF Get, TypeOK
  <2> QED BY <1>6, <1>7, <2>1, <2>2 DEF Get
<1>8. ASSUME NEW t \in Thread, GetId(t) PROVE TypeInv'
  <2>0. At(t, "locked") /\ job[t].op # "put" /\ errno' \in [Thread -> {"none", "ENOMEM", "other"}]
        /\ UNCHANGED <<arrVars, alive>>
    BY <1>8 DEF GetId, TypeOK
  <2>1. CASE Return(t, {})
    <3>1. {} \in SUBSET Index
      OBVIOUS
    <3> QED BY <1>6, <2>0, <2>1, <3>1
  <2>2. CASE i[t] < len /\ Return(t, {i[t]})
    <3>1. {i[t]} \in SUBSET Index
      BY <2>2 DEF TypeOK, Index
    <3> QED BY <1>6, <2>0, <2>2, <3>1
  <2>3. CASE i[t] < len /\ i' = [i EXCEPT ![t] = @ + 1] /\ UNCHANGED <<lock, pc, job, picked, result>>
    BY <2>0, <2>3 DEF TypeOK, Turn, Bounded, Putters
  <2> QED BY <1>8, <2>1, <2>2, <2>3 DEF GetId
<1>9. ASSUME NEW t \in Thread, NoCopy(t) PROVE TypeInv'
  <2>1. At(t, "locked") /\ job[t].op # "put" /\ errno' \in [Thread -> {"none", "ENOMEM", "other"}]
        /\ UNCHANGED <<arrVars, alive>> /\ Return(t, {})
    BY <1>9 DEF NoCopy, TypeOK
  <2>2. {} \in SUBSET Index
    OBVIOUS
  <2> QED BY <1>6, <2>1, <2>2
<1>10. ASSUME NEW t \in Thread, Copy(t) PROVE TypeInv'
  <2>0. At(t, "locked") /\ job[t].op # "put" /\ errno' \in [Thread -> {"none", "ENOMEM", "other"}]
        /\ UNCHANGED <<arrVars, alive>>
    BY <1>10 DEF Copy, TypeOK
  <2>1. CASE Return(t, picked[t])
    <3>1. picked[t] \in SUBSET Index
      BY DEF TypeOK
    <3> QED BY <1>6, <2>0, <2>1, <3>1
  <2>2. CASE /\ i[t] < len /\ i' = [i EXCEPT ![t] = @ + 1] /\ UNCHANGED <<lock, pc, job, result>>
             /\ picked' = IF Doing(t, "getAll") \/ alive[i[t]]
                          THEN [picked EXCEPT ![t] = @ \cup {i[t]}] ELSE picked
    <3>1. i[t] \in Index
      BY <2>2 DEF TypeOK, Index
    <3>2. picked' \in [Thread -> SUBSET Index]
      BY <2>2, <3>1 DEF TypeOK
    <3> QED BY <2>0, <2>2, <3>2 DEF TypeOK, Turn, Bounded, Putters
  <2> QED BY <1>10, <2>1, <2>2 DEF Copy
<1>11. ASSUME NEW t \in Thread, OtherError(t) PROVE TypeInv'
  BY <1>11 DEF OtherError, TypeOK, Turn, Bounded, Putters
<1>12. ASSUME NEW k \in Index, Flip(k) PROVE TypeInv'
  BY <1>12 DEF Flip, TypeOK, Turn, Bounded, Putters
<1>13. CASE UNCHANGED vars
  BY <1>13 DEF vars, TypeOK, Turn, Bounded, Putters
<1> QED
  BY <1>1, <1>2, <1>3, <1>4, <1>5, <1>7, <1>8, <1>9, <1>10, <1>11, <1>12, <1>13
  DEF Next, Step

\* The array's variables, every thread's call and what it returned stay within
\* their types: no operation returns a device that is not in the list.
THEOREM TypeCorrectness == Spec => []TypeOK
<1>1. TypeInv => TypeOK
  BY DEF TypeInv
<1>2. TypeInv /\ [Next]_vars => TypeInv'
  BY TypeStep
<1> QED
  BY InitTypes, <1>1, <1>2, PTL DEF Spec

------------------------------------------------------------------------------
(* Refinement.                                                                 *)

\* What a loop has done so far; and between two calls nothing is left of one.
LoopInv ==
  /\ \A t \in Thread :
       /\ ~At(t, "locked") => i[t] = 0 /\ picked[t] = {}
       /\ At(t, "idle") => job[t] = NoJob
       /\ ~At(t, "idle") => job[t] # NoJob
       /\ Doing(t, "getId") => \A k \in 0..(i[t] - 1) : data[k] # job[t].arg
       /\ Doing(t, "getAll") => picked[t] = 0..(i[t] - 1)
       /\ errno[t] # "ENOMEM"

FullInv == Inv /\ TypeInv /\ LoopInv

LEMMA InitLoop == Init => LoopInv
BY DEF Init, LoopInv

LEMMA LoopStep == ~AllocFails /\ FullInv /\ [Next]_vars => LoopInv'
<1> SUFFICES ASSUME ~AllocFails, FullInv, [Next]_vars PROVE LoopInv'
  OBVIOUS
<1> USE DEF FullInv, TypeInv
<1>1. ASSUME NEW t \in Thread, NEW op \in Ops, NEW a \in Args(op), Call(t, op, a)
      PROVE  LoopInv'
  <2>1. op # "none"
    BY ArrayAssumption
  <2> QED BY <1>1, <2>1 DEF Call, LoopInv, TypeOK, NoJob
<1>2. ASSUME NEW t \in Thread, Acquire(t) PROVE LoopInv'
  <2>1. At(t, "lock") /\ i'[t] = 0 /\ picked[t] = {} /\ pc'[t] = "locked" /\ job[t] # NoJob
    BY <1>2 DEF Acquire, LoopInv, TypeOK, FirstSlot
  <2>2. 0..(i'[t] - 1) = {}
    BY <2>1
  <2>3. /\ \A u \in Thread : u # t => pc'[u] = pc[u] /\ i'[u] = i[u]
        /\ UNCHANGED <<data, errno, job, picked>>
    BY <1>2 DEF Acquire, TypeOK
  <2> QED BY <2>1, <2>2, <2>3 DEF LoopInv
<1>3. ASSUME NEW t \in Thread, PutGrow(t) PROVE LoopInv'
  <2>1. Doing(t, "put") /\ Full /\ Resize(t, 2 * total) /\ lock = t /\ total <= room
    BY <1>3 DEF PutGrow, DoubledSize, Inv, InBounds
  <2>2. total' = 2 * total /\ UNCHANGED errno
    BY <2>1 DEF Resize, LoopInv
  <2>3. len < total'
    BY <2>1, <2>2 DEF Inv, InBounds, TypeOK
  <2>4. UNCHANGED <<pc, job, i, picked>>
    BY <1>3, <2>3 DEF PutGrow
  <2>5. \A u \in Thread : ~Doing(u, "getId")
    BY <2>1
  <2> QED BY <2>2, <2>4, <2>5 DEF LoopInv
<1>4. ASSUME NEW t \in Thread, PutStore(t) PROVE LoopInv'
  <2>1. \A u \in Thread : ~Doing(u, "getId")
    BY <1>4 DEF PutStore
  <2> QED BY <1>4, <2>1 DEF PutStore, LoopInv, TypeOK, NoJob
<1>5. ASSUME NEW t \in Thread, PutI(t) \/ PutIGrow(t) PROVE LoopInv'
  <2>1. \A u \in Thread : ~Doing(u, "getId")
    BY <1>5 DEF PutI, PutIGrow
  <2>2. CASE PutI(t)
    BY <2>1, <2>2 DEF PutI, LoopInv, TypeOK, NoJob
  <2>3. CASE PutIGrow(t)
    <3>1. UNCHANGED errno
      BY <2>3 DEF PutIGrow, Resize
    <3> QED BY <2>1, <2>3, <3>1 DEF PutIGrow, LoopInv, TypeOK, NoJob
  <2> QED BY <1>5, <2>2, <2>3
<1>6. ASSUME NEW t \in Thread, Get(t) PROVE LoopInv'
  BY <1>6 DEF Get, LoopInv, TypeOK, NoJob
<1>7. ASSUME NEW t \in Thread, GetId(t) PROVE LoopInv'
  <2>1. CASE \E devices : Return(t, devices)
    BY <1>7, <2>1 DEF GetId, LoopInv, TypeOK, NoJob
  <2>2. CASE /\ data[i[t]] # job[t].arg /\ i' = [i EXCEPT ![t] = @ + 1]
             /\ UNCHANGED <<lock, pc, job, picked, result>>
    BY <1>7, <2>2 DEF GetId, LoopInv, TypeOK
  <2> QED BY <1>7, <2>1, <2>2 DEF GetId
<1>8. ASSUME NEW t \in Thread, Copy(t) PROVE LoopInv'
  <2>1. CASE \E devices : Return(t, devices)
    BY <1>8, <2>1 DEF Copy, LoopInv, TypeOK, NoJob
  <2>2. CASE /\ i[t] < len /\ i' = [i EXCEPT ![t] = @ + 1] /\ UNCHANGED <<lock, pc, job, result>>
             /\ picked' = IF Doing(t, "getAll") \/ alive[i[t]]
                          THEN [picked EXCEPT ![t] = @ \cup {i[t]}] ELSE picked
    <3>1. Doing(t, "getAll") => picked'[t] = 0..(i'[t] - 1)
      BY <2>2 DEF LoopInv, TypeOK
    <3>2. \A u \in Thread : u # t => picked'[u] = picked[u] /\ i'[u] = i[u]
      BY <2>2 DEF TypeOK
    <3>3. UNCHANGED <<data, errno>> /\ At(t, "locked") /\ ~Doing(t, "getId")
      BY <1>8 DEF Copy
    <3> QED BY <2>2, <3>1, <3>2, <3>3 DEF LoopInv
  <2> QED BY <1>8, <2>1, <2>2 DEF Copy
<1>9. ASSUME NEW t \in Thread, NoCopy(t) \/ OtherError(t) PROVE LoopInv'
  BY <1>9 DEF NoCopy, OtherError
<1>10. ASSUME NEW k \in Index, Flip(k) PROVE LoopInv'
  BY <1>10 DEF Flip, LoopInv
<1>11. CASE UNCHANGED vars
  BY <1>11 DEF vars, LoopInv
<1> QED
  BY <1>1, <1>2, <1>3, <1>4, <1>5, <1>6, <1>7, <1>8, <1>9, <1>10, <1>11
  DEF Next, Step

\* What the refinement mapping makes of a step.
Sampled == [t \in Thread |-> DuringGetAlive(t, 0..(i[t] - 1))]
Picked  == [t \in Thread |-> DuringGetAlive(t, picked[t])]

LEMMA InitRefines == Init => R!Init
<1> SUFFICES ASSUME Init PROVE R!Init
  OBVIOUS
<1>1. Contents = <<>>
  BY DEF Init, Contents
<1>2. Sampled = [t \in Thread |-> {}] /\ Picked = [t \in Thread |-> {}]
  BY DEF Init, Sampled, Picked, DuringGetAlive, NoJob
<1> QED BY <1>1, <1>2 DEF Init, R!Init, R!Index, R!NoJob, Index, NoJob, Sampled, Picked

\* A step that leaves the list, the calls and the progress of every GetAlive
\* alone is no step of the registry.
LEMMA Stutters ==
  ASSUME UNCHANGED <<len, alive, job, result>>,
         \A k \in 0..(len - 1) : data'[k] = data[k],
         len \in Nat,
         \A t \in Thread :
           job[t].op = "getAlive" => i'[t] = i[t] /\ picked'[t] = picked[t]
  PROVE  UNCHANGED R!vars
<1>1. Contents' = Contents
  BY DEF Contents
<1>2. Sampled' = Sampled /\ Picked' = Picked
  BY DEF Sampled, Picked, DuringGetAlive
<1> QED BY <1>1, <1>2 DEF R!vars, Sampled, Picked

\* Leaving a call is the registry's Return of the same value.
LEMMA Returns ==
  ASSUME TypeInv, NEW t \in Thread, NEW devices, Return(t, devices), UNCHANGED alive
  PROVE  R!Return(t, devices)
<1>1. Sampled' = [Sampled EXCEPT ![t] = {}]
  BY DEF TypeInv, TypeOK, Sampled, DuringGetAlive, NoJob
<1>2. Picked' = [Picked EXCEPT ![t] = {}]
  BY DEF TypeInv, TypeOK, Picked, DuringGetAlive, NoJob
<1> QED BY <1>1, <1>2 DEF R!Return, R!NoJob, NoJob, Sampled, Picked

LEMMA ListFacts ==
  ASSUME len \in Nat
  PROVE  /\ Len(Contents) = len
         /\ 0..(Len(Contents) - 1) = 0..(len - 1)
         /\ \A k \in 0..(len - 1) : Contents[k + 1] = data[k]
BY DEF Contents

LEMMA CallRefines ==
  ASSUME FullInv, NEW t \in Thread, NEW op \in Ops, NEW a \in Args(op), Call(t, op, a)
  PROVE  R!Next
<1>1. Sampled' = Sampled
  BY DEF FullInv, TypeInv, LoopInv, Call, Sampled, DuringGetAlive
<1>2. Picked' = Picked
  BY DEF FullInv, TypeInv, LoopInv, Call, Picked, DuringGetAlive
<1>3. Contents' = Contents
  BY DEF Call, Contents
<1>4. R!Call(t, op, a)
  BY <1>1, <1>2, <1>3 DEF FullInv, LoopInv, Call, R!Call, R!NoJob, NoJob, Sampled, Picked
<1>5. a \in Id \cup R!Index \cup {-1, NoId}
  BY ArrayAssumption DEF Args, Index, R!Index
<1> QED BY <1>4, <1>5 DEF R!Next

LEMMA PutRefines ==
  ASSUME FullInv, NEW t \in Thread, PutStore(t)
  PROVE  R!Next
<1>1. len < room /\ DOMAIN data = 0..(room - 1) /\ len \in Nat /\ room \in Nat
  BY DEF FullInv, Inv, InBounds, TypeInv, TypeOK, PutStore, Full
<1>2. data' = [data EXCEPT ![len] = job[t].arg] /\ len' = len + 1
  BY DEF PutStore
<1>3. Contents' = Append(Contents, job[t].arg)
  <2>1. Contents' = [k \in 1..(len + 1) |-> IF k = len + 1 THEN job[t].arg ELSE Contents[k]]
    BY <1>1, <1>2 DEF Contents
  <2>2. Append(Contents, job[t].arg) =
          [k \in 1..(Len(Contents) + 1) |-> IF k = Len(Contents) + 1 THEN job[t].arg ELSE Contents[k]]
    BY DEF Append
  <2> QED BY <2>1, <2>2, <1>1, ListFacts
<1>4. R!Return(t, {Len(Contents)})
  BY <1>1, Returns, ListFacts DEF FullInv, PutStore, PutIndex
<1> QED BY <1>3, <1>4 DEF PutStore, R!Put, R!Next

LEMMA GetRefines ==
  ASSUME FullInv, NEW t \in Thread, Get(t)
  PROVE  R!Next
<1>1. len \in Nat /\ Contents' = Contents
  BY DEF FullInv, TypeInv, TypeOK, Get, Contents
<1>2. R!Return(t, {job[t].arg} \cap (0..(Len(Contents) - 1)))
  BY <1>1, Returns, ListFacts DEF FullInv, Get
<1> QED BY <1>1, <1>2 DEF Get, R!Get, R!Next

LEMMA LeastOf ==
  ASSUME NEW S \in SUBSET Nat, NEW m \in S, \A k \in S : m <= k
  PROVE  R!Min(S) = m
<1>1. \A k \in S : (\A j \in S : k <= j) => k = m
  OBVIOUS
<1> QED BY <1>1 DEF R!Min

LEMMA GetIdRefines ==
  ASSUME FullInv, NEW t \in Thread, GetId(t)
  PROVE  R!Next \/ UNCHANGED R!vars
<1> DEFINE hits == {k \in 0..(Len(Contents) - 1) : Contents[k + 1] = job[t].arg}
<1>1. len \in Nat /\ Contents' = Contents /\ i[t] \in Nat /\ job[t].op = "getId"
  BY DEF FullInv, TypeInv, TypeOK, GetId, Contents
<1>2. hits = {k \in 0..(len - 1) : data[k] = job[t].arg}
  BY <1>1, ListFacts
<1>3. \A k \in 0..(i[t] - 1) : data[k] # job[t].arg
  BY DEF FullInv, LoopInv, GetId
<1>4. CASE /\ i[t] < len /\ data[i[t]] # job[t].arg
           /\ i' = [i EXCEPT ![t] = @ + 1] /\ UNCHANGED <<lock, pc, job, picked, result>>
  <2>1. \A u \in Thread : job[u].op = "getAlive" => i'[u] = i[u]
    BY <1>1, <1>4 DEF FullInv, TypeInv, TypeOK
  <2> QED BY <1>1, <1>4, <2>1, Stutters DEF GetId
<1>5. CASE i[t] < len /\ data[i[t]] = job[t].arg /\ Return(t, {i[t]})
  <2>1. i[t] \in hits /\ \A k \in hits : i[t] <= k
    BY <1>1, <1>2, <1>3, <1>5
  <2>2. hits \in SUBSET Nat
    BY <1>1, <1>2
  <2>3. R!Min(hits) = i[t] /\ hits # {}
    BY ONLY <2>1, <2>2, LeastOf
  <2>4. R!Return(t, IF hits = {} THEN {} ELSE {R!Min(hits)})
    BY <1>5, <2>3, Returns DEF FullInv, GetId
  <2> QED BY <1>1, <2>4 DEF R!GetId, R!Next
<1>6. CASE i[t] >= len /\ Return(t, {})
  <2>1. hits = {}
    BY <1>1, <1>2, <1>3, <1>6
  <2>2. R!Return(t, IF hits = {} THEN {} ELSE {R!Min(hits)})
    BY <1>6, <2>1, Returns DEF FullInv, GetId
  <2> QED BY <1>1, <2>2 DEF R!GetId, R!Next
<1> QED BY <1>4, <1>5, <1>6 DEF GetId

LEMMA CopyRefines ==
  ASSUME FullInv, NEW t \in Thread, Copy(t)
  PROVE  R!Next \/ UNCHANGED R!vars
<1>1. /\ len \in Nat /\ i[t] \in Nat /\ i[t] <= len /\ Contents' = Contents
      /\ i \in [Thread -> 0..MaxLen] /\ picked \in [Thread -> SUBSET Index]
      /\ UNCHANGED <<len, data, alive>>
  BY DEF FullInv, TypeInv, TypeOK, Turn, Copy, Contents
<1>2. CASE i[t] < len /\ i' = [i EXCEPT ![t] = @ + 1] /\ UNCHANGED <<job, result>>
           /\ picked' = [picked EXCEPT ![t] = @ \cup {i[t]}] /\ job[t].op = "getAll"
  <2>1. \A u \in Thread : job[u].op = "getAlive" => i'[u] = i[u] /\ picked'[u] = picked[u]
    BY <1>1, <1>2
  <2> QED BY <1>1, <1>2, <2>1, Stutters
<1>3. CASE /\ i[t] < len /\ i' = [i EXCEPT ![t] = @ + 1] /\ UNCHANGED <<job, result>>
           /\ picked' = IF alive[i[t]] THEN [picked EXCEPT ![t] = @ \cup {i[t]}] ELSE picked
           /\ job[t].op = "getAlive"
  <2>1. Sampled' = [Sampled EXCEPT ![t] = @ \cup {i[t]}]
    <3>1. 0..(i'[t] - 1) = (0..(i[t] - 1)) \cup {i[t]}
      BY <1>1, <1>3
    <3> QED BY <1>1, <1>3, <3>1 DEF Sampled, DuringGetAlive
  <2>2. Picked' = IF alive[i[t]] THEN [Picked EXCEPT ![t] = @ \cup {i[t]}] ELSE Picked
    <3>1. CASE alive[i[t]]
      <4>1. picked' = [picked EXCEPT ![t] = picked[t] \cup {i[t]}] /\ job' = job
        BY <1>3, <3>1
      <4>2. \A u \in Thread :
              picked'[u] = IF u = t THEN picked[t] \cup {i[t]} ELSE picked[u]
        BY <1>1, <4>1
      <4>3. Picked' = [u \in Thread |-> IF u = t THEN Picked[t] \cup {i[t]} ELSE Picked[u]]
        BY <1>3, <4>1, <4>2 DEF Picked, DuringGetAlive
      <4> QED BY <3>1, <4>3 DEF Picked
    <3>2. CASE ~alive[i[t]]
      BY <1>1, <1>3, <3>2 DEF Picked, DuringGetAlive
    <3> QED BY <3>1, <3>2
  <2>3. i[t] \in 0..(Len(Contents) - 1) /\ i[t] \notin Sampled[t]
    BY <1>1, <1>3, ListFacts DEF Sampled, DuringGetAlive
  <2>4. R!Sample(t, i[t])
    BY <1>1, <1>3, <2>1, <2>2, <2>3 DEF R!Sample, Sampled, Picked
  <2>5. i[t] \in R!Index
    BY <1>1, <1>3, ArrayAssumption DEF FullInv, TypeInv, TypeOK, R!Index
  <2> QED BY <2>4, <2>5 DEF R!Next
<1>4. CASE i[t] >= len /\ Return(t, picked[t])
  <2>1. i[t] = len /\ 0..(Len(Contents) - 1) = 0..(i[t] - 1)
    BY <1>1, <1>4, ListFacts
  <2>2. CASE job[t].op = "getAll"
    <3>1. picked[t] = 0..(i[t] - 1)
      BY <2>2 DEF FullInv, LoopInv, Copy
    <3> QED BY <1>1, <1>4, <2>1, <2>2, <3>1, Returns DEF FullInv, R!GetAll, R!Next
  <2>3. CASE job[t].op = "getAlive"
    <3>1. Sampled[t] = 0..(Len(Contents) - 1) /\ Picked[t] = picked[t]
      BY <2>1, <2>3 DEF Sampled, Picked, DuringGetAlive
    <3>2. R!Return(t, Picked[t])
      BY <1>1, <1>4, <3>1, Returns DEF FullInv
    <3> QED BY <1>1, <2>3, <3>1, <3>2 DEF R!GetAlive, R!Next, Sampled, Picked
  <2> QED BY <2>2, <2>3 DEF Copy
<1> QED BY <1>2, <1>3, <1>4 DEF Copy

LEMMA PutIRefines ==
  ASSUME FullInv, NEW t \in Thread, PutI(t)
  PROVE  R!Next
<1>0. job[t].arg \in Index \cup {-1} /\ job[t].arg \in Int /\ job[t].op = "putI"
  BY ArgTypes DEF FullInv, TypeInv, PutI, Index
<1>1. /\ len \in Nat /\ room \in Nat /\ len <= room /\ data \in [0..(room - 1) -> Id \cup {NoId}]
      /\ job[t].arg \in Index \cup {-1} /\ job[t].arg \in Int /\ job[t].op = "putI"
      /\ job[t].arg < room
      /\ len' = len
  BY <1>0 DEF FullInv, Inv, InBounds, TypeInv, TypeOK, PutI
<1>2. CASE job[t].arg < 0
  <2>1. Contents' = Contents /\ Return(t, {}) /\ {job[t].arg} \cap R!Index = {}
    BY <1>1, <1>2 DEF PutI, Contents, R!Index
  <2>2. R!Return(t, {job[t].arg} \cap R!Index)
    BY <2>1, Returns DEF FullInv, PutI
  <2>3. job[t].arg \notin 0..(Len(Contents) - 1)
    BY <1>1, <1>2, ListFacts
  <2> QED BY <1>1, <2>1, <2>2, <2>3 DEF R!PutI, R!Next
<1>3. CASE job[t].arg >= 0
  <2>1. /\ Return(t, {job[t].arg}) /\ {job[t].arg} \cap R!Index = {job[t].arg}
        /\ \E id \in Id : data' = [data EXCEPT ![job[t].arg] = id]
    BY <1>1, <1>3 DEF PutI, R!Index, Index
  <2>2. R!Return(t, {job[t].arg} \cap R!Index)
    BY <2>1, Returns DEF FullInv, PutI
  <2>3. PICK id \in Id : data' = [data EXCEPT ![job[t].arg] = id]
    BY <2>1
  <2>4. CASE job[t].arg < len
    <3>1. Contents' = [Contents EXCEPT ![job[t].arg + 1] = id]
      <4>1. data' = [k \in 0..(room - 1) |-> IF k = job[t].arg THEN id ELSE data[k]]
        BY <1>1, <2>3
      <4>2. Contents' = [k \in 1..len |-> IF k = job[t].arg + 1 THEN id ELSE data[k - 1]]
        <5>1. \A k \in 1..len : k - 1 \in 0..(room - 1) /\ (k - 1 = job[t].arg <=> k = job[t].arg + 1)
          BY <1>1
        <5> QED BY <1>1, <4>1, <5>1 DEF Contents
      <4> QED BY <1>1, <4>2 DEF Contents
    <3>2. job[t].arg \in 0..(Len(Contents) - 1)
      BY <1>1, <1>3, <2>4, ListFacts
    <3> QED BY <1>1, <2>2, <3>1, <3>2 DEF R!PutI, R!Next
  <2>5. CASE job[t].arg >= len
    <3>1. Contents' = Contents
      <4>1. \A k \in 0..(len - 1) : data'[k] = data[k]
        BY <1>1, <2>3, <2>5
      <4> QED BY <1>1, <4>1 DEF Contents
    <3>2. job[t].arg \notin 0..(Len(Contents) - 1)
      BY <1>1, <1>3, <2>5, ListFacts
    <3> QED BY <1>1, <2>2, <3>1, <3>2 DEF R!PutI, R!Next
  <2> QED BY <1>1, <1>3, <2>4, <2>5
<1> QED BY <1>1, <1>2, <1>3

\* Growing the memory for PutI is no step of the registry: without a failed
\* allocation the slot is there afterwards.
LEMMA PutIGrowStutters ==
  ASSUME ~AllocFails, FullInv, NEW t \in Thread, PutIGrow(t)
  PROVE  UNCHANGED R!vars
<1>1. /\ len \in Nat /\ total \in Nat /\ room \in Nat /\ len <= total /\ total <= room
      /\ job[t].arg \in Nat /\ job[t].arg >= total /\ job[t].op = "putI"
      /\ Resize(t, PowerAbove(job[t].arg))
  BY DEF FullInv, Inv, OnlyArgs, InBounds, TypeInv, TypeOK, PutIGrow, Index
<1> DEFINE size == PowerAbove(job[t].arg)
<1>2. size \in Nat /\ job[t].arg < size
  BY <1>1, PowerAboveIsAbove
<1>3. total' = size /\ data' = [k \in 0..(size - 1) |-> IF k < room THEN data[k] ELSE NoId]
  BY <1>1 DEF Resize, FullInv, LoopInv
<1>4. \A k \in 0..(len - 1) : data'[k] = data[k]
  BY <1>1, <1>2, <1>3
<1>5. UNCHANGED <<lock, pc, job, i, picked, result, len, alive>>
  BY <1>2, <1>3 DEF PutIGrow
<1> QED BY <1>1, <1>4, <1>5, Stutters

LEMMA StepRefines ==
  ~AllocFails /\ FullInv /\ [Next]_vars => [R!Next]_(R!vars)
<1> SUFFICES ASSUME ~AllocFails, FullInv, [Next]_vars
             PROVE  R!Next \/ UNCHANGED R!vars
  OBVIOUS
<1>0. len \in Nat
  BY DEF FullInv, TypeInv, TypeOK
<1>1. ASSUME NEW t \in Thread, NEW op \in Ops, NEW a \in Args(op), Call(t, op, a)
      PROVE  R!Next
  BY <1>1, CallRefines
<1>2. ASSUME NEW t \in Thread, Acquire(t) PROVE UNCHANGED R!vars
  <2>1. i' = i
    BY <1>2 DEF Acquire, FullInv, LoopInv, TypeInv, TypeOK, FirstSlot
  <2> QED BY <1>0, <1>2, <2>1, Stutters DEF Acquire
<1>3. ASSUME NEW t \in Thread, PutGrow(t) PROVE UNCHANGED R!vars
  <2>1. lock = t /\ Resize(t, 2 * total) /\ len >= total /\ len <= total /\ total <= room
    BY <1>3 DEF PutGrow, DoubledSize, FullInv, Inv, InBounds, TypeInv, Full
  <2>2. /\ total' = 2 * total
        /\ data' = [k \in 0..(2 * total - 1) |-> IF k < room THEN data[k] ELSE NoId]
    BY <2>1 DEF Resize, FullInv, LoopInv
  <2>3. len < total' /\ \A k \in 0..(len - 1) : data'[k] = data[k]
    BY <2>1, <2>2 DEF FullInv, TypeInv, TypeOK
  <2> QED BY <1>0, <1>3, <2>3, Stutters DEF PutGrow
<1>4. ASSUME NEW t \in Thread, PutStore(t) PROVE R!Next
  BY <1>4, PutRefines
<1>5. ASSUME NEW t \in Thread, PutI(t) \/ PutIGrow(t) PROVE R!Next \/ UNCHANGED R!vars
  BY <1>5, PutIRefines, PutIGrowStutters
<1>6. ASSUME NEW t \in Thread, Get(t) PROVE R!Next
  BY <1>6, GetRefines
<1>7. ASSUME NEW t \in Thread, GetId(t) PROVE R!Next \/ UNCHANGED R!vars
  BY <1>7, GetIdRefines
<1>8. ASSUME NEW t \in Thread, Copy(t) PROVE R!Next \/ UNCHANGED R!vars
  BY <1>8, CopyRefines
<1>9. ASSUME NEW t \in Thread, NoCopy(t) \/ OtherError(t) PROVE FALSE
  BY <1>9 DEF NoCopy, OtherError
<1>10. ASSUME NEW k \in Index, Flip(k) PROVE R!Next
  <2>1. Sampled' = Sampled /\ Picked' = Picked /\ Contents' = Contents
    BY <1>10 DEF Flip, Sampled, Picked, Contents, DuringGetAlive
  <2> QED BY <1>10, <2>1 DEF Flip, R!Flip, R!Next, R!Index, Index, Sampled, Picked
<1>11. CASE UNCHANGED vars
  BY <1>0, <1>11, Stutters DEF vars
<1> QED
  BY <1>1, <1>2, <1>3, <1>4, <1>5, <1>6, <1>7, <1>8, <1>9, <1>10, <1>11
  DEF Next, Step

------------------------------------------------------------------------------
(* Why calls return: a thread in the critical section leaves it or has a turn  *)
(* less before it.                                                             *)

Progress(t) ==
  \/ lock' = Free
  \/ lock' = t /\ At(t, "locked")' /\ 0 <= TurnsLeft(t)' /\ TurnsLeft(t)' < TurnsLeft(t)

\* Growing the array leaves it large enough.
LEMMA GrowthIsATurn ==
  ASSUME ~AllocFails, FullInv, NEW t \in Thread, PutGrow(t) \/ PutIGrow(t)
  PROVE  Progress(t)
<1>1. /\ lock = t /\ At(t, "locked") /\ len \in Nat /\ total \in Nat \ {0} /\ len <= total
      /\ i[t] \in Nat /\ i[t] <= len /\ errno[t] # "ENOMEM"
  BY DEF FullInv, TypeInv, LoopInv, Inv, InBounds, TypeOK, Turn, PutGrow, PutIGrow
<1>2. CASE PutGrow(t)
  <2>1. job[t].op = "put" /\ len >= total /\ total' = 2 * total
    BY <1>1, <1>2 DEF PutGrow, Resize, DoubledSize, Full
  <2>2. len < total'
    BY <1>1, <2>1
  <2>3. UNCHANGED <<len, lock, pc, job, i>>
    BY <1>2, <2>2 DEF PutGrow
  <2> QED BY <1>1, <2>1, <2>2, <2>3 DEF Progress, TurnsLeft, TooSmall
<1>3. CASE PutIGrow(t)
  <2>1. /\ job[t].op = "putI" /\ job[t].arg >= total
        /\ job[t].arg \in Nat /\ total' = PowerAbove(job[t].arg)
    BY <1>1, <1>3, ArgTypes DEF FullInv, TypeInv, PutIGrow, Resize, Index
  <2>2. total' \in Nat /\ job[t].arg < total'
    BY <2>1, PowerAboveIsAbove
  <2>3. UNCHANGED <<len, lock, pc, job, i>>
    BY <1>3, <2>2 DEF PutIGrow
  <2> QED BY <1>1, <2>1, <2>2, <2>3 DEF Progress, TurnsLeft, TooSmall
<1> QED BY <1>2, <1>3

\* A turn of a loop is one device less to look at.
LEMMA LoopTurn ==
  ASSUME FullInv, NEW t \in Thread, GetId(t) \/ Copy(t)
  PROVE  Progress(t)
<1>1. /\ lock = t /\ At(t, "locked") /\ len \in Nat /\ UNCHANGED <<len, total>>
      /\ i \in [Thread -> 0..MaxLen] /\ job[t].op \notin {"put", "putI"}
  BY DEF FullInv, TypeInv, TypeOK, GetId, Copy
<1>2. \/ lock' = Free
      \/ i[t] < len /\ i' = [i EXCEPT ![t] = @ + 1] /\ UNCHANGED <<lock, pc, job>>
  BY DEF GetId, Copy
<1> QED BY <1>1, <1>2, ArrayAssumption DEF Progress, TurnsLeft, TooSmall

\* What CallsReturn rests on: every function of the array gives arr_lock back
\* after no more turns than there are devices, and one for growing the array.
THEOREM EveryTurnCounts == ~AllocFails /\ Spec => HolderProgresses
<1> SUFFICES ASSUME ~AllocFails PROVE Spec => HolderProgresses
  OBVIOUS
<1>1. FullInv /\ [Next]_vars => \A t \in Thread : Step(t) => Progress(t)
  BY GrowthIsATurn, LoopTurn DEF Step, PutStore, PutI, Get, NoCopy, Progress
<1>2. FullInv /\ [Next]_vars => FullInv'
  BY InvStep, TypeStep, LoopStep DEF FullInv, PutIAllocates
<1>3. Init => FullInv
  BY InitInv, InitTypes, InitLoop DEF FullInv
<1> QED
  BY <1>1, <1>2, <1>3, PTL DEF Spec, HolderProgresses, Progress

\* The array, with its lock, its loops and the doubling and copying of its
\* memory, is the registry to every number of threads that share it.
THEOREM ArrayIsRegistry ==
  ~AllocFails /\ Spec => RegistrySpec
<1> SUFFICES ASSUME ~AllocFails PROVE Spec => RegistrySpec
  OBVIOUS
<1>1. Init => FullInv
  BY InitInv, InitTypes, InitLoop DEF FullInv
<1>2. FullInv /\ [Next]_vars => FullInv'
  BY InvStep, TypeStep, LoopStep DEF FullInv, PutIAllocates
<1>3. FullInv /\ [Next]_vars => [R!Next]_(R!vars)
  BY StepRefines
<1> QED
  BY InitRefines, <1>1, <1>2, <1>3, PTL DEF Spec, RegistrySpec, R!Spec
==============================================================================
