--------------------------- MODULE WorkerPoolProofs ---------------------------
(***************************************************************************)
(* The theorems about the job queue and the pool programs, for any number  *)
(* of workers, any jobs and any positive capacity.  First, of the queue    *)
(* alone: what it does for every client, and for every client that keeps   *)
(* its contract.  Second: the pool programs keep the contract, so all that *)
(* holds of them too.  Third: no job is lost or handled twice, and all are *)
(* handled when main returns.                                              *)
(***************************************************************************)
EXTENDS WorkerPool, SequenceTheorems, FiniteSetTheorems, TLAPS


(* The strengthening that makes the properties of JobQueue inductive. *)

\* The mutex is held by the thread in a critical section, and by no other.
HolderInv ==
  \A t \in Threads : stage[t] = "crit" <=> mutex = t

\* A thread outside an operation is at no place in one.
OutsideInv ==
  \A t \in Threads : op[t] = None <=> stage[t] = "idle"

\* A pusher carries a job.
ItemInv ==
  \A t \in Threads : op[t] = "push" => item[t] \in Data

\* The buffer is freed in the critical section that sets dead.
FreedInv == live <=> dead = 0

\* With the programs' client, a destroyed queue is empty for good: no push
\* and no further destroy is under way, and no two are at any time.
DrainedInv ==
  /\ dead = 1 => num_used = 0 /\ \A t \in Threads : op[t] \notin {"push", "destroy"}
  /\ \A t \in Threads : op[t] = "destroy" =>
       \A u \in Threads : u # t => op[u] \notin {"push", "destroy"}

OpenInv == TypeOK /\ HolderInv /\ OutsideInv /\ ItemInv /\ NoLostWakeup
Inv == OpenInv /\ FreedInv /\ DrainedInv

-----------------------------------------------------------------------------
\* The index of a ring of Capacity cells wraps at most once.
LEMMA RingIndex ==
  ASSUME NEW i \in 0 .. Capacity - 1, NEW k \in 0 .. Capacity
  PROVE  /\ (i + k) % Capacity = IF i + k < Capacity THEN i + k ELSE i + k - Capacity
         /\ (i + k) % Capacity \in Slots
<1>1. Capacity \in Nat /\ Capacity > 0
  BY CapacityAssumption
<1>2. CASE i + k < Capacity
  BY <1>1, <1>2, SMT DEF Slots
<1>3. CASE i + k >= Capacity
  <2>1. (i + k) % Capacity = (i + k - Capacity) % Capacity
    BY <1>1, <1>3, SMT
  <2>2. i + k - Capacity \in 0 .. Capacity - 1
    BY <1>1, <1>3, SMT
  <2> QED BY <1>1, <1>3, <2>1, <2>2, SMT DEF Slots
<1> QED BY <1>1, <1>2, <1>3, SMT


\* Where a store and a load go, and that they stay inside the buffer.
LEMMA IndexInRange ==
  ASSUME TypeOK
  PROVE  /\ PushIndex \in Slots
         /\ NextFirst \in Slots
         /\ NextFirst = (first + 1) % Capacity
<1>1. first \in 0 .. Capacity - 1 /\ num_used \in 0 .. Capacity /\ Capacity \in Nat \ {0}
  BY CapacityAssumption DEF TypeOK, Slots
<1>2. (first + num_used) % Capacity \in Slots
  BY <1>1, RingIndex
<1>3. (first + 1) % Capacity = IF first + 1 < Capacity THEN first + 1 ELSE first + 1 - Capacity
  BY <1>1, RingIndex
<1>4. num_used + first = first + num_used
  BY <1>1
<1> QED BY <1>1, <1>2, <1>3, <1>4 DEF PushIndex, NextFirst, Slots

\* The common end of an operation leaves nobody asleep and the mutex free.
LEMMA ReturnFacts ==
  ASSUME TypeOK, HolderInv, OutsideInv,
         NEW t \in Threads, NEW r \in {0, 1}, stage[t] = "crit", Return(t, r)
  PROVE  /\ stage' \in [Threads -> {"idle", "lock", "crit", "wait"}]
         /\ op' \in [Threads -> Ops \cup {None}]
         /\ ret' \in [Threads -> {0, 1, None}]
         /\ mutex' \in Threads \cup {None}
         /\ HolderInv' /\ OutsideInv'
         /\ \A u \in Threads : stage'[u] # "wait"
         /\ \A u \in Threads : u # t => op'[u] = op[u]
         /\ op'[t] = None
<1>1. \A u \in Threads : stage'[u] = IF u = t THEN "idle"
                                     ELSE IF stage[u] = "wait" THEN "lock" ELSE stage[u]
  BY DEF Return, BroadcastTo, TypeOK
<1>2. stage' \in [Threads -> {"idle", "lock", "crit", "wait"}]
  BY DEF Return, BroadcastTo, TypeOK
<1>3. op' \in [Threads -> Ops \cup {None}] /\ ret' \in [Threads -> {0, 1, None}]
  BY DEF Return, TypeOK
<1>4. mutex' = None /\ mutex' \in Threads \cup {None}
  BY DEF Return
<1>5. op'[t] = None /\ \A u \in Threads : u # t => op'[u] = op[u]
  BY DEF Return, TypeOK
<1>6. \A u \in Threads : stage'[u] # "crit"
  BY <1>1 DEF HolderInv
<1>7. HolderInv'
  BY <1>4, <1>6, NoneAssumption DEF HolderInv
<1>8. OutsideInv'
  BY <1>1, <1>5 DEF OutsideInv
<1> QED BY <1>1, <1>2, <1>3, <1>4, <1>5, <1>7, <1>8

-----------------------------------------------------------------------------
(* One lemma per group of actions: each preserves OpenInv, whatever the    *)
(* client does.                                                            *)

LEMMA CallOpen ==
  ASSUME OpenInv, NEW t \in Threads, NEW o \in Ops, NEW d \in Data \cup {None}, Call(t, o, d)
  PROVE  OpenInv'
<1> USE DEF OpenInv
<1>0. o # None
  BY NoneAssumption DEF Ops
<1>1. TypeOK'
  BY DEF TypeOK, Call, queueVars
<1>2. HolderInv'
  BY DEF TypeOK, Call, HolderInv, OutsideInv
<1>3. OutsideInv'
  BY <1>0 DEF TypeOK, Call, OutsideInv
<1>4. ItemInv'
  BY DEF TypeOK, Call, ItemInv
<1>5. NoLostWakeup'
  BY DEF TypeOK, Call, NoLostWakeup, OutsideInv, Blocked, GivesUp, queueVars
<1> QED BY <1>1, <1>2, <1>3, <1>4, <1>5

LEMMA WaitOpen ==
  ASSUME OpenInv, NEW t \in Threads, Acquire(t) \/ CondWait(t) \/ SpuriousWake(t)
  PROVE  OpenInv'
<1> USE DEF OpenInv
<1>1. CASE Acquire(t)
  <2>1. TypeOK' /\ OutsideInv' /\ ItemInv'
    BY <1>1 DEF TypeOK, Acquire, OutsideInv, ItemInv, queueVars
  <2>2. HolderInv'
    BY <1>1, NoneAssumption DEF TypeOK, Acquire, HolderInv
  <2>3. NoLostWakeup'
    BY <1>1 DEF TypeOK, Acquire, NoLostWakeup, Blocked, GivesUp, queueVars
  <2> QED BY <2>1, <2>2, <2>3
<1>2. CASE CondWait(t)
  <2>1. TypeOK' /\ OutsideInv' /\ ItemInv'
    BY <1>2 DEF TypeOK, CondWait, OutsideInv, ItemInv, queueVars
  <2>2. HolderInv'
    BY <1>2, NoneAssumption DEF TypeOK, CondWait, HolderInv
  <2>3. NoLostWakeup'
    BY <1>2 DEF TypeOK, CondWait, NoLostWakeup, Blocked, GivesUp, queueVars
  <2> QED BY <2>1, <2>2, <2>3
<1>3. CASE SpuriousWake(t)
  <2>1. TypeOK' /\ OutsideInv' /\ ItemInv'
    BY <1>3 DEF TypeOK, SpuriousWake, OutsideInv, ItemInv, queueVars
  <2>2. HolderInv'
    BY <1>3 DEF TypeOK, SpuriousWake, HolderInv
  <2>3. NoLostWakeup'
    BY <1>3 DEF TypeOK, SpuriousWake, NoLostWakeup, Blocked, GivesUp, queueVars
  <2> QED BY <2>1, <2>2, <2>3
<1> QED BY <1>1, <1>2, <1>3

LEMMA PushOpen ==
  ASSUME OpenInv, NEW t \in Threads, PushStore(t) \/ Refused(t)
  PROVE  OpenInv'
<1> USE DEF OpenInv
<1>1. CASE PushStore(t)
  <2> USE <1>1 DEF PushStore
  <2>1. item[t] \in Data /\ num_used + 1 \in 0 .. Capacity
    BY CapacityAssumption DEF ItemInv, TypeOK, Blocked
  <2>2. buffer' \in [Slots -> Data \cup {None}]
    BY <2>1, IndexInRange DEF Store, TypeOK
  <2>3. TypeOK'
    BY <2>1, <2>2, ReturnFacts DEF TypeOK
  <2>4. ItemInv'
    BY ReturnFacts, NoneAssumption DEF ItemInv
  <2>5. NoLostWakeup'
    BY ReturnFacts DEF NoLostWakeup
  <2> QED BY <2>3, <2>4, <2>5, ReturnFacts
<1>2. CASE Refused(t)
  <2> USE <1>2 DEF Refused
  <2>1. TypeOK'
    BY ReturnFacts DEF TypeOK, queueVars
  <2>2. ItemInv'
    BY ReturnFacts, NoneAssumption DEF ItemInv
  <2>3. NoLostWakeup'
    BY ReturnFacts DEF NoLostWakeup
  <2> QED BY <2>1, <2>2, <2>3, ReturnFacts
<1> QED BY <1>1, <1>2

LEMMA PopOpen ==
  ASSUME OpenInv, NEW t \in Threads, PopTake(t)
  PROVE  OpenInv'
<1> USE DEF OpenInv, PopTake
<1>1. num_used - 1 \in 0 .. Capacity
  BY CapacityAssumption DEF TypeOK, Blocked
<1>2. Load(first) \subseteq Data \cup {None}
  BY DEF Load, TypeOK
<1>3. PICK d \in Data \cup {None} : item' = [item EXCEPT ![t] = d]
  BY <1>2
<1>4. TypeOK'
  BY <1>1, <1>3, IndexInRange, ReturnFacts DEF TypeOK
<1>5. ItemInv'
  BY <1>3, ReturnFacts, NoneAssumption DEF ItemInv, TypeOK
<1>6. NoLostWakeup'
  BY ReturnFacts DEF NoLostWakeup
<1> QED BY <1>4, <1>5, <1>6, ReturnFacts

LEMMA DestroyOpen ==
  ASSUME OpenInv, NEW t \in Threads, Destroy(t)
  PROVE  OpenInv'
<1> USE DEF OpenInv, Destroy
<1>1. TypeOK'
  BY ReturnFacts DEF TypeOK
<1>2. ItemInv'
  BY ReturnFacts, NoneAssumption DEF ItemInv
<1>3. NoLostWakeup'
  BY ReturnFacts DEF NoLostWakeup
<1> QED BY <1>1, <1>2, <1>3, ReturnFacts

LEMMA StutterOpen ==
  ASSUME OpenInv, UNCHANGED vars
  PROVE  OpenInv'
BY DEF OpenInv, vars, queueVars, TypeOK, HolderInv, OutsideInv, ItemInv, NoLostWakeup,
       Blocked, GivesUp

LEMMA InitOpen == Init => OpenInv
<1> SUFFICES ASSUME Init PROVE OpenInv
  OBVIOUS
<1>1. TypeOK
  BY CapacityAssumption DEF Init, TypeOK, Slots
<1>2. HolderInv /\ OutsideInv /\ ItemInv /\ NoLostWakeup
  BY NoneAssumption DEF Init, HolderInv, OutsideInv, ItemInv, NoLostWakeup
<1> QED BY <1>1, <1>2 DEF OpenInv

LEMMA OpenNextOpen == OpenInv /\ [OpenNext]_vars => OpenInv'
<1> SUFFICES ASSUME OpenInv, [OpenNext]_vars PROVE OpenInv'
  OBVIOUS
<1>1. ASSUME NEW t \in Threads, NEW o \in Ops, NEW d \in Data \cup {None}, Call(t, o, d)
      PROVE  OpenInv'
  BY <1>1, CallOpen
<1>2. ASSUME NEW t \in Threads, QueueStep(t)
      PROVE  OpenInv'
  BY <1>2, WaitOpen, PushOpen, PopOpen, DestroyOpen DEF QueueStep
<1>3. CASE UNCHANGED vars
  BY <1>3, StutterOpen
<1> QED BY <1>1, <1>2, <1>3 DEF OpenNext

\* Whoever calls the queue, its state stays well-formed: indices inside the
\* ring, never more than Capacity jobs (job_queue.c:39-97).
THEOREM OpenTypeCorrect == OpenSpec => []TypeOK
<1>1. OpenInv => TypeOK
  BY DEF OpenInv
<1> QED BY InitOpen, OpenNextOpen, <1>1, PTL DEF OpenSpec

\* Whoever calls the queue, no thread sleeps on the condition variable while
\* it could go on: the one broadcast at the end of every operation is enough.
THEOREM OpenWakeups == OpenSpec => []NoLostWakeup
<1>1. OpenInv => NoLostWakeup
  BY DEF OpenInv
<1> QED BY InitOpen, OpenNextOpen, <1>1, PTL DEF OpenSpec

-----------------------------------------------------------------------------
(* With the programs' client: who pushes destroys, once, and pushes no     *)
(* more.                                                                   *)

LEMMA CallFreed ==
  ASSUME Inv, NEW t \in Threads, NEW o \in Ops, NEW d \in Data \cup {None},
         MayCall(o), Call(t, o, d)
  PROVE  FreedInv' /\ DrainedInv'
<1> USE DEF Inv, OpenInv
<1>1. FreedInv'
  BY DEF Call, FreedInv, queueVars
<1>2. dead' = dead /\ num_used' = num_used /\ op' = [op EXCEPT ![t] = o]
  BY DEF Call, queueVars
<1>3. \A u \in Threads : op'[u] = IF u = t THEN o ELSE op[u]
  BY <1>2 DEF TypeOK
<1>4. DrainedInv'
  <2>1. CASE o = "pop"
    BY <1>2, <1>3, <2>1 DEF DrainedInv
  <2>2. CASE o = "push"
    BY <1>2, <1>3, <2>2 DEF DrainedInv, MayCall, Closing
  <2>3. CASE o = "destroy"
    BY <1>2, <1>3, <2>3 DEF DrainedInv, MayCall, Closing
  <2> QED BY <2>1, <2>2, <2>3 DEF Ops
<1> QED BY <1>1, <1>4

\* An operation that only ends cannot break DrainedInv unless it adds a job
\* or sets dead.
LEMMA ReturnDrained ==
  ASSUME Inv, NEW t \in Threads, NEW r \in {0, 1}, stage[t] = "crit", Return(t, r),
         dead' = 1 => num_used' = 0 /\ \A u \in Threads : u # t => op[u] \notin {"push", "destroy"}
  PROVE  DrainedInv'
<1> USE DEF Inv, OpenInv
<1>1. op'[t] = None /\ \A u \in Threads : u # t => op'[u] = op[u]
  BY ReturnFacts
<1>2. None \notin {"push", "destroy"}
  BY NoneAssumption
<1> QED BY <1>1, <1>2 DEF DrainedInv

LEMMA StepFreed ==
  ASSUME Inv, NEW t \in Threads, QueueStep(t)
  PROVE  FreedInv' /\ DrainedInv'
<1> USE DEF Inv, OpenInv
<1>1. CASE Acquire(t) \/ CondWait(t) \/ SpuriousWake(t)
  BY <1>1 DEF Acquire, CondWait, SpuriousWake, FreedInv, DrainedInv, queueVars
<1>2. CASE PushStore(t)
  <2>1. dead' = 0 /\ live' = live
    BY <1>2 DEF PushStore, DrainedInv, TypeOK
  <2>2. DrainedInv'
    BY <1>2, <2>1, ReturnDrained DEF PushStore
  <2> QED BY <1>2, <2>1, <2>2 DEF FreedInv, PushStore
<1>3. CASE PopTake(t)
  <2>1. dead = 0
    BY <1>3 DEF PopTake, DrainedInv, Blocked, TypeOK
  <2>2. dead' = 0 /\ live' = live
    BY <1>3, <2>1 DEF PopTake
  <2>3. DrainedInv'
    BY <1>3, <2>2, ReturnDrained DEF PopTake
  <2> QED BY <2>1, <2>2, <2>3 DEF FreedInv
<1>4. CASE Refused(t)
  <2>1. dead' = 1 /\ num_used' = 0 /\ live' = live /\ dead = 1
    BY <1>4 DEF Refused, GivesUp, DrainedInv, queueVars
  <2>2. \A u \in Threads : op[u] \notin {"push", "destroy"}
    BY <2>1 DEF DrainedInv
  <2>3. DrainedInv'
    BY <1>4, <2>1, <2>2, ReturnDrained DEF Refused
  <2> QED BY <2>1, <2>3 DEF FreedInv
<1>5. CASE Destroy(t)
  <2>1. num_used' = 0 /\ op[t] = "destroy" /\ dead' = 1 /\ live' = FALSE
    BY <1>5 DEF Destroy, Blocked
  <2>2. \A u \in Threads : u # t => op[u] \notin {"push", "destroy"}
    BY <2>1 DEF DrainedInv
  <2>3. DrainedInv'
    BY <1>5, <2>1, <2>2, ReturnDrained DEF Destroy
  <2> QED BY <2>1, <2>3 DEF FreedInv
<1> QED BY <1>1, <1>2, <1>3, <1>4, <1>5 DEF QueueStep

LEMMA InitInv == Init => Inv
<1> SUFFICES ASSUME Init PROVE Inv
  OBVIOUS
<1>1. FreedInv /\ DrainedInv
  BY NoneAssumption DEF Init, FreedInv, DrainedInv
<1> QED BY <1>1, InitOpen DEF Inv

LEMMA NextInv == Inv /\ [Next]_vars => Inv'
<1> SUFFICES ASSUME Inv, [Next]_vars PROVE Inv'
  OBVIOUS
<1>1. OpenInv'
  <2>1. [OpenNext]_vars
    BY DEF Next, OpenNext
  <2> QED BY <2>1, OpenNextOpen DEF Inv
<1>2. FreedInv' /\ DrainedInv'
  <2>1. CASE UNCHANGED vars
    BY <2>1 DEF Inv, FreedInv, DrainedInv, vars, queueVars
  <2>2. CASE Next
    BY <2>2, CallFreed, StepFreed DEF Next
  <2> QED BY <2>1, <2>2
<1> QED BY <1>1, <1>2 DEF Inv

LEMMA SpecInv == Spec => []Inv
BY InitInv, NextInv, PTL DEF Spec

\* With the programs' client the ring is well-formed in every reachable state.
THEOREM TypeCorrect == Spec => []TypeOK
<1>1. Inv => TypeOK
  BY DEF Inv, OpenInv
<1> QED BY <1>1, SpecInv, PTL

\* With the programs' client nobody sleeps through its chance.
THEOREM Wakeups == Spec => []NoLostWakeup
<1>1. Inv => NoLostWakeup
  BY DEF Inv, OpenInv
<1> QED BY <1>1, SpecInv, PTL

\* With the programs' client no operation touches the buffer once destroy has
\* freed it (job_queue.c:34, 57, 84).
THEOREM NeverUsedAfterFree == Spec => []NoUseAfterFree
<1>1. ASSUME Inv PROVE NoUseAfterFree
  <2> SUFFICES ASSUME NEW t \in Threads, stage[t] = "crit", ~Blocked(t) PROVE live
    BY DEF NoUseAfterFree
  <2> USE <1>1 DEF Inv, OpenInv
  <2>1. op[t] \in Ops
    BY DEF OutsideInv, TypeOK
  <2>2. dead = 0
    BY <2>1 DEF Ops, Blocked, DrainedInv, TypeOK
  <2> QED BY <2>2 DEF FreedInv
<1> QED BY <1>1, SpecInv, PTL

-----------------------------------------------------------------------------
(* The ring buffer implements the first-in first-out queue.                *)

ContentsFacts ==
  /\ Contents \in Seq(Data \cup {None})
  /\ Len(Contents) = num_used
  /\ \A i \in 1 .. num_used : Contents[i] = buffer[(first + i - 1) % Capacity]

LEMMA ContentsIsSeq == TypeOK => ContentsFacts
<1> SUFFICES ASSUME TypeOK PROVE ContentsFacts
  OBVIOUS
<1>1. num_used \in Nat /\ num_used <= Capacity /\ first \in 0 .. Capacity - 1 /\ Capacity \in Nat
  BY CapacityAssumption DEF TypeOK, Slots
<1>2. ASSUME NEW i \in 1 .. num_used
      PROVE  (first + i - 1) % Capacity \in Slots
  <2>1. i - 1 \in 0 .. Capacity /\ first + i - 1 = first + (i - 1)
    BY <1>1
  <2> QED BY <1>1, <2>1, RingIndex
<1>3. \A i \in 1 .. num_used : buffer[(first + i - 1) % Capacity] \in Data \cup {None}
  BY <1>2 DEF TypeOK
<1> QED BY <1>1, <1>3 DEF Contents, ContentsFacts

\* Two places of the ring in use at once are different cells.
LEMMA CellsDiffer ==
  ASSUME TypeOK, num_used < Capacity, NEW i \in 1 .. num_used
  PROVE  (first + i - 1) % Capacity # PushIndex
<1>1. num_used \in Nat /\ first \in 0 .. Capacity - 1 /\ Capacity \in Nat \ {0}
  BY CapacityAssumption DEF TypeOK, Slots
<1>2. i - 1 \in 0 .. Capacity /\ num_used \in 0 .. Capacity /\ first + i - 1 = first + (i - 1)
  BY <1>1
<1>3. (first + (i - 1)) % Capacity =
        IF first + (i - 1) < Capacity THEN first + (i - 1) ELSE first + (i - 1) - Capacity
  BY <1>1, <1>2, RingIndex
<1>4. (first + num_used) % Capacity =
        IF first + num_used < Capacity THEN first + num_used ELSE first + num_used - Capacity
  BY <1>1, <1>2, RingIndex
<1>5. num_used + first = first + num_used
  BY <1>1
<1> QED BY <1>1, <1>2, <1>3, <1>4, <1>5 DEF PushIndex

LEMMA PushAppends ==
  ASSUME TypeOK, TypeOK', num_used < Capacity, NEW d \in Data,
         first' = first, num_used' = num_used + 1,
         buffer' = [buffer EXCEPT ![PushIndex] = d]
  PROVE  Contents' = Append(Contents, d)
<1>1. num_used \in Nat /\ first \in 0 .. Capacity - 1 /\ Capacity \in Nat
  BY CapacityAssumption DEF TypeOK, Slots
<1>2. PushIndex \in Slots /\ buffer \in [Slots -> Data \cup {None}]
  BY IndexInRange DEF TypeOK
<1>3. /\ Contents' \in Seq(Data \cup {None}) /\ Len(Contents') = num_used + 1
      /\ \A i \in 1 .. num_used + 1 : Contents'[i] = buffer'[(first + i - 1) % Capacity]
  <2>1. ContentsFacts'
    BY ContentsIsSeq, PTL
  <2> QED BY <2>1 DEF ContentsFacts
<1>4. Append(Contents, d) \in Seq(Data \cup {None})
      /\ Len(Append(Contents, d)) = num_used + 1
      /\ Append(Contents, d)[num_used + 1] = d
      /\ \A i \in 1 .. num_used : Append(Contents, d)[i] = Contents[i]
  BY <1>1, ContentsIsSeq, AppendProperties DEF ContentsFacts
<1>5. ASSUME NEW i \in 1 .. num_used
      PROVE  Contents'[i] = Append(Contents, d)[i]
  <2>1. (first + i - 1) % Capacity # PushIndex
    BY CellsDiffer
  <2>2. buffer'[(first + i - 1) % Capacity] = buffer[(first + i - 1) % Capacity]
    BY <1>2, <2>1
  <2>3. i \in 1 .. num_used + 1
    BY <1>1
  <2> QED BY <1>3, <1>4, <2>2, <2>3, ContentsIsSeq DEF ContentsFacts
<1>6. Contents'[num_used + 1] = d
  <2>1. first + (num_used + 1) - 1 = num_used + first /\ num_used + 1 \in 1 .. num_used + 1
    BY <1>1
  <2>2. buffer'[PushIndex] = d
    BY <1>2
  <2> QED BY <1>3, <2>1, <2>2 DEF PushIndex
<1>7. \A i \in 1 .. Len(Contents') : Contents'[i] = Append(Contents, d)[i]
  <2>1. ASSUME NEW i \in 1 .. num_used + 1 PROVE i = num_used + 1 \/ i \in 1 .. num_used
    BY <1>1
  <2> QED BY <1>3, <1>4, <1>5, <1>6, <2>1
<1> QED BY <1>3, <1>4, <1>7, SeqEqual

LEMMA PopTakesHead ==
  ASSUME TypeOK, TypeOK', num_used # 0,
         first' = NextFirst, num_used' = num_used - 1, buffer' = buffer
  PROVE  Contents # <<>> /\ Head(Contents) = buffer[first] /\ Contents' = Tail(Contents)
<1>1. num_used \in Nat \ {0} /\ num_used <= Capacity
      /\ first \in 0 .. Capacity - 1 /\ Capacity \in Nat \ {0}
  BY CapacityAssumption DEF TypeOK, Slots
<1>2. Contents # <<>> /\ Contents \in Seq(Data \cup {None}) /\ Len(Contents) = num_used
  BY <1>1, ContentsIsSeq DEF ContentsFacts
<1>3. Head(Contents) = buffer[first]
  <2>1. Head(Contents) = Contents[1]
    BY <1>2, HeadTailProperties
  <2>2. (first + 1 - 1) % Capacity = first
    BY <1>1
  <2> QED BY <1>1, <2>1, <2>2, ContentsIsSeq DEF ContentsFacts
<1>4. /\ Contents' \in Seq(Data \cup {None}) /\ Len(Contents') = num_used - 1
      /\ \A i \in 1 .. num_used - 1 : Contents'[i] = buffer[(NextFirst + i - 1) % Capacity]
  <2>1. ContentsFacts'
    BY ContentsIsSeq, PTL
  <2> QED BY <2>1 DEF ContentsFacts
<1>5. /\ Tail(Contents) \in Seq(Data \cup {None}) /\ Len(Tail(Contents)) = num_used - 1
      /\ \A i \in 1 .. num_used - 1 : Tail(Contents)[i] = Contents[i + 1]
  BY <1>2, HeadTailProperties
<1>6. ASSUME NEW i \in 1 .. num_used - 1
      PROVE  Contents'[i] = Tail(Contents)[i]
  <2>1. /\ i \in 0 .. Capacity /\ i - 1 \in 0 .. Capacity
        /\ first + (i + 1) - 1 = first + i /\ i + 1 \in 1 .. num_used
    BY <1>1
  <2>2. NextFirst \in 0 .. Capacity - 1 /\ NextFirst + i - 1 = NextFirst + (i - 1)
    BY <1>1, IndexInRange DEF Slots
  <2>3. (NextFirst + (i - 1)) % Capacity =
          IF NextFirst + (i - 1) < Capacity THEN NextFirst + (i - 1)
                                            ELSE NextFirst + (i - 1) - Capacity
    BY <2>1, <2>2, RingIndex
  <2>4. (first + i) % Capacity = IF first + i < Capacity THEN first + i ELSE first + i - Capacity
    BY <1>1, <2>1, RingIndex
  <2>5. (NextFirst + i - 1) % Capacity = (first + (i + 1) - 1) % Capacity
    BY <1>1, <2>1, <2>2, <2>3, <2>4 DEF NextFirst
  <2> QED BY <1>4, <1>5, <2>1, <2>5, ContentsIsSeq DEF ContentsFacts
<1>7. Contents' = Tail(Contents)
  BY <1>4, <1>5, <1>6, SeqEqual
<1> QED BY <1>2, <1>3, <1>7

\* What the abstract queue sees of a step that leaves the ring alone.
LEMMA SameContents ==
  ASSUME UNCHANGED queueVars
  PROVE  Contents' = Contents /\ UNCHANGED (dead = 1)
BY DEF queueVars, Contents

AbstractResult == [t \in Threads |-> Result(ret[t])]

LEMMA ResultOfReturn ==
  ASSUME TypeOK, NEW t \in Threads, NEW r \in {0, 1, None}, ret' = [ret EXCEPT ![t] = r]
  PROVE  AbstractResult' = [AbstractResult EXCEPT ![t] = Result(r)]
BY DEF AbstractResult, TypeOK

\* Every step of the queue is a step of the abstract queue or none.
LEMMA StepRefines ==
  ASSUME Inv, Inv', [Next]_vars
  PROVE  [Abstract!Next]_(Abstract!vars)
<1> USE DEF Inv, OpenInv
<1>1. ASSUME NEW t \in Threads, NEW o \in Ops, NEW d \in Data \cup {None}, Call(t, o, d)
      PROVE  Abstract!Invoke(t, o, d)
  <2>1. Contents' = Contents /\ UNCHANGED (dead = 1)
    BY <1>1, SameContents DEF Call
  <2>2. AbstractResult' = [AbstractResult EXCEPT ![t] = None]
    <3>1. ret' = [ret EXCEPT ![t] = None]
      BY <1>1 DEF Call
    <3>2. Result(None) = None
      BY NoneAssumption DEF Result
    <3> QED BY <3>1, <3>2, ResultOfReturn
  <2> QED BY <1>1, <2>1, <2>2 DEF Call, Abstract!Invoke, AbstractResult
<1>2. ASSUME NEW t \in Threads, Acquire(t) \/ CondWait(t) \/ SpuriousWake(t)
      PROVE  UNCHANGED Abstract!vars
  BY <1>2, SameContents DEF Acquire, CondWait, SpuriousWake, Abstract!vars
<1>3. ASSUME NEW t \in Threads, PushStore(t)
      PROVE  Abstract!Push(t)
  <2> USE <1>3 DEF PushStore
  <2>1. dead = 0 /\ dead' = 0 /\ live /\ item[t] \in Data
    BY DEF DrainedInv, FreedInv, ItemInv, TypeOK
  <2>2. num_used < Capacity /\ Len(Contents) = num_used
    BY CapacityAssumption, ContentsIsSeq DEF Blocked, TypeOK, ContentsFacts
  <2>3. Contents' = Append(Contents, item[t])
    BY <2>1, <2>2, PushAppends DEF Store
  <2>4. AbstractResult' = [AbstractResult EXCEPT ![t] = "ok"]
    BY ResultOfReturn DEF Return, Result
  <2> QED BY <2>1, <2>2, <2>3, <2>4
          DEF Return, Abstract!Push, Abstract!Return, AbstractResult
<1>4. ASSUME NEW t \in Threads, PopTake(t)
      PROVE  Abstract!Pop(t)
  <2> USE <1>4 DEF PopTake
  <2>1. num_used # 0 /\ dead = 0 /\ dead' = 0 /\ live
    BY DEF Blocked, DrainedInv, FreedInv, TypeOK
  <2>2. Contents # <<>> /\ Head(Contents) = buffer[first] /\ Contents' = Tail(Contents)
    BY <2>1, PopTakesHead
  <2>3. item' = [item EXCEPT ![t] = Head(Contents)]
    BY <2>1, <2>2 DEF Load
  <2>4. AbstractResult' = [AbstractResult EXCEPT ![t] = "ok"]
    BY ResultOfReturn DEF Return, Result
  <2> QED BY <2>1, <2>2, <2>3, <2>4
          DEF Return, Abstract!Pop, Abstract!Return, AbstractResult
<1>5. ASSUME NEW t \in Threads, Refused(t)
      PROVE  Abstract!PopClosed(t)
  <2> USE <1>5 DEF Refused
  <2>1. dead = 1 /\ num_used = 0 /\ op[t] = "pop"
    BY DEF Blocked, GivesUp, DrainedInv
  <2>2. Contents = <<>>
    BY <2>1 DEF Contents
  <2>3. Contents' = Contents /\ UNCHANGED (dead = 1)
    BY SameContents
  <2>4. AbstractResult' = [AbstractResult EXCEPT ![t] = "error"]
    <3>1. ret' = [ret EXCEPT ![t] = 1]
      BY DEF Return
    <3>2. 1 # None /\ 1 # 0
      BY NoneAssumption
    <3>3. Result(1) = "error"
      BY <3>2 DEF Result
    <3> QED BY <3>1, <3>3, ResultOfReturn
  <2> QED BY <2>1, <2>2, <2>3, <2>4
          DEF Return, Abstract!PopClosed, Abstract!Return, AbstractResult
<1>6. ASSUME NEW t \in Threads, Destroy(t)
      PROVE  Abstract!Close(t)
  <2> USE <1>6 DEF Destroy
  <2>1. dead = 0 /\ dead' = 1 /\ num_used = 0 /\ num_used' = 0
    BY DEF Blocked, DrainedInv, TypeOK
  <2>2. Contents = <<>> /\ Contents' = <<>>
    BY <2>1 DEF Contents
  <2>3. AbstractResult' = [AbstractResult EXCEPT ![t] = "ok"]
    BY ResultOfReturn DEF Return, Result
  <2> QED BY <2>1, <2>2, <2>3
          DEF Return, Abstract!Close, Abstract!Return, AbstractResult
<1>7. CASE UNCHANGED vars
  <2>1. Contents' = Contents /\ UNCHANGED (dead = 1)
    BY <1>7, SameContents DEF vars
  <2> QED BY <1>7, <2>1 DEF vars, Abstract!vars
<1>8. CASE Next
  <2>1. PICK t \in Threads :
          \/ \E o \in Ops, d \in Data \cup {None} : MayCall(o) /\ Call(t, o, d)
          \/ QueueStep(t)
    BY <1>8 DEF Next
  <2>2. CASE \E o \in Ops, d \in Data \cup {None} : MayCall(o) /\ Call(t, o, d)
    BY <1>1, <2>2 DEF Abstract!Next, Ops
  <2>3. CASE QueueStep(t)
    BY <1>2, <1>3, <1>4, <1>5, <1>6, <1>7, <2>3 DEF QueueStep, Abstract!Next
  <2> QED BY <2>1, <2>2, <2>3
<1> QED BY <1>7, <1>8

\* The ring buffer under the mutex and the one condition variable implements
\* the abstract bounded queue of job_queue.h, for every number of threads,
\* every set of jobs and every capacity: each operation takes effect in one
\* step, in first-in first-out order.
THEOREM Refinement == Spec => ImplementsBoundedQueue
<1>1. Init => Abstract!Init
  BY NoneAssumption DEF Init, Abstract!Init, Contents, Result
<1>2. Inv /\ Inv' /\ [Next]_vars => [Abstract!Next]_(Abstract!vars)
  BY StepRefines
<1> QED BY <1>1, <1>2, SpecInv, PTL DEF Spec, ImplementsBoundedQueue, Abstract!Spec

-----------------------------------------------------------------------------
(* The pool programs.                                                      *)


\* Workers only pop; main only pushes until it destroys, and then calls
\* nothing more; the queue is not destroyed while main still pushes.
RolesInv ==
  /\ op \in [Threads -> Ops \cup {None}]
  /\ \A w \in Workers : op[w] \in {None, "pop"}
  /\ mainAt \in {"feed", "join", "done"}
  /\ mainAt = "feed" => dead = 0 /\ op[Main] \in {None, "push"}
  /\ mainAt # "feed" => op[Main] \in {None, "destroy"}

-----------------------------------------------------------------------------
\* A step inside the queue starts no operation, and only a destroy sets dead.
LEMMA QueueStepOps ==
  ASSUME NEW t \in Threads, op \in [Threads -> Ops \cup {None}], QueueStep(t)
  PROVE  /\ op' \in [Threads -> Ops \cup {None}]
         /\ \A u \in Threads : op'[u] \in {op[u], None}
         /\ dead' # dead => op[t] = "destroy"
         /\ dead = 1 => dead' = 1
         /\ op[t] = "destroy" /\ op'[t] = None => dead' = 1
         /\ \A u \in Threads : u # t => op'[u] = op[u]
<1> USE NoneAssumption
<1>1. CASE Acquire(t) \/ CondWait(t) \/ SpuriousWake(t)
  BY <1>1 DEF Acquire, CondWait, SpuriousWake, queueVars
<1>2. CASE PushStore(t) \/ PopTake(t) \/ Refused(t) \/ Destroy(t)
  <2>1. op' = [op EXCEPT ![t] = None]
    BY <1>2 DEF PushStore, PopTake, Refused, Destroy, Return
  <2>2. dead' = dead \/ (op[t] = "destroy" /\ dead' = 1)
    BY <1>2 DEF PushStore, PopTake, Refused, Destroy, queueVars
  <2>3. op[t] = "destroy" => dead' = 1
    BY <1>2 DEF PushStore, PopTake, Refused, Destroy, GivesUp
  <2> QED
    BY <2>1, <2>2, <2>3
<1> QED
  BY <1>1, <1>2 DEF QueueStep

\* While main is about to push or to destroy, nobody else does either.
LEMMA MainMayCall ==
  ASSUME RolesInv, mainAt = "feed", op[Main] = None
  PROVE  MayCall("push") /\ MayCall("destroy")
<1>1. \A t \in Threads : op[t] \in {None, "pop"}
  BY ThreadsAssumption DEF RolesInv
<1>2. \A t \in Threads : op[t] \notin {"push", "destroy"}
  BY <1>1, NoneAssumption
<1>3. ~Closing
  BY <1>2 DEF RolesInv, Closing
<1> QED
  BY <1>2, <1>3 DEF MayCall

LEMMA RolesInit == PoolInit => RolesInv
  BY ThreadsAssumption DEF PoolInit, Init, RolesInv

\* Every step of the pool keeps the roles, and is a step that the queue's
\* contract allows.
LEMMA RolesStep ==
  ASSUME RolesInv, [PoolNext]_poolVars
  PROVE  RolesInv' /\ [Next]_vars
<1> USE ThreadsAssumption, NoneAssumption
<1>1. CASE MainPush
  <2>1. Call(Main, "push", Head(todo)) /\ mainAt = "feed" /\ op[Main] = None /\ mainAt' = mainAt
    BY <1>1 DEF MainPush
  <2>2. Head(todo) \in Data /\ op' = [op EXCEPT ![Main] = "push"] /\ dead' = dead
    BY <2>1 DEF Call, queueVars
  <2>3. Next
    BY <2>1, <2>2, MainMayCall DEF Next, Ops
  <2> QED
    BY <2>1, <2>2, <2>3 DEF RolesInv, Ops
<1>2. CASE MainDestroy
  <2>1. Call(Main, "destroy", None) /\ mainAt = "feed" /\ op[Main] = None /\ mainAt' = "join"
    BY <1>2 DEF MainDestroy
  <2>2. op' = [op EXCEPT ![Main] = "destroy"]
    BY <2>1 DEF Call
  <2>3. Next
    BY <2>1, MainMayCall DEF Next, Ops
  <2> QED
    BY <2>1, <2>2, <2>3 DEF RolesInv, Ops
<1>3. CASE MainJoin
  BY <1>3 DEF MainJoin, RolesInv, vars, queueVars
<1>4. ASSUME NEW w \in Workers, WorkerPop(w) PROVE RolesInv' /\ [Next]_vars
  <2>1. Call(w, "pop", None) /\ mainAt' = mainAt /\ op' = [op EXCEPT ![w] = "pop"] /\ dead' = dead
    BY <1>4 DEF WorkerPop, Call, queueVars
  <2>2. MayCall("pop")
    BY DEF MayCall
  <2>3. Next
    BY <2>1, <2>2 DEF Next, Ops
  <2> QED
    BY <2>1, <2>3 DEF RolesInv, Ops
<1>5. ASSUME NEW w \in Workers, WorkerGot(w) \/ WorkerHandle(w) \/ WorkerQuit(w)
      PROVE  RolesInv' /\ [Next]_vars
  BY <1>5 DEF WorkerGot, WorkerHandle, WorkerQuit, RolesInv, vars, queueVars
<1>6. CASE InQueue
  <2>1. PICK t \in Threads : QueueStep(t)
    BY <1>6 DEF InQueue
  <2>2. mainAt' = mainAt
    BY <1>6 DEF InQueue
  <2>3. /\ op' \in [Threads -> Ops \cup {None}]
        /\ \A u \in Threads : op'[u] \in {op[u], None}
        /\ dead' # dead => op[t] = "destroy"
    BY <2>1, QueueStepOps DEF RolesInv
  <2>4. mainAt = "feed" => dead' = dead
    BY <2>3 DEF RolesInv
  <2>5. Next
    BY <2>1 DEF Next
  <2> QED
    BY <2>2, <2>3, <2>4, <2>5 DEF RolesInv
<1>7. CASE UNCHANGED poolVars
  BY <1>7 DEF poolVars, RolesInv, vars, queueVars
<1> QED
  BY <1>1, <1>2, <1>3, <1>4, <1>5, <1>6, <1>7 DEF PoolNext

-----------------------------------------------------------------------------
\* main and the workers never push during or after the destroy, and destroy
\* once: whatever their number, the programs keep the contract of the queue.
THEOREM ContractKept == PoolSpec => KeepsContract
<1>1. PoolInit => Init
  BY DEF PoolInit
<1>2. RolesInv /\ [PoolNext]_poolVars => RolesInv' /\ [Next]_vars
  BY RolesStep
<1> QED
  BY <1>1, <1>2, RolesInit, PTL DEF PoolSpec, KeepsContract, Spec

\* The programs never touch the buffer after destroy has freed it.
THEOREM PoolNeverUsedAfterFree == PoolSpec => []NoUseAfterFree
  BY ContractKept, NeverUsedAfterFree, PTL DEF KeepsContract

\* In the programs the queue behaves like the abstract first-in first-out
\* queue.
THEOREM PoolRefinement == PoolSpec => ImplementsBoundedQueue
  BY ContractKept, Refinement, PTL DEF KeepsContract

\* Nobody sleeps through its chance, main and the workers included.
THEOREM PoolWakeups == PoolSpec => []NoLostWakeup
  BY ContractKept, Wakeups, PTL DEF KeepsContract

-----------------------------------------------------------------------------
(* Counting the copies of a job in a sequence.                             *)

Places(s, d) == {i \in DOMAIN s : s[i] = d}

LEMMA CountOfPlaces == \A s, d : CountIn(s, d) = Cardinality(Places(s, d))
  BY DEF CountIn, Places

LEMMA CountIsNat ==
  ASSUME NEW S, NEW s \in Seq(S), NEW d
  PROVE  IsFiniteSet(Places(s, d)) /\ CountIn(s, d) \in Nat
<1>1. DOMAIN s = 1 .. Len(s) /\ Len(s) \in Nat
  OBVIOUS
<1>2. IsFiniteSet(1 .. Len(s))
  BY <1>1, FS_Interval
<1>3. IsFiniteSet(Places(s, d))
  BY <1>1, <1>2, FS_Subset DEF Places
<1> QED
  BY <1>3, FS_CardinalityType, CountOfPlaces

LEMMA CountAppend ==
  ASSUME NEW S, NEW s \in Seq(S), NEW e \in S, NEW d
  PROVE  CountIn(Append(s, e), d) = CountIn(s, d) + IF e = d THEN 1 ELSE 0
<1>1. Len(s) \in Nat /\ DOMAIN s = 1 .. Len(s) /\ DOMAIN Append(s, e) = 1 .. Len(s) + 1
  BY AppendProperties
<1>2. /\ \A i \in 1 .. Len(s) : Append(s, e)[i] = s[i]
      /\ Append(s, e)[Len(s) + 1] = e
  BY AppendProperties
<1>3. Len(s) + 1 \notin Places(s, d)
  BY <1>1 DEF Places
<1>4. IsFiniteSet(Places(s, d)) /\ CountIn(s, d) \in Nat
  BY CountIsNat
<1>5. CASE e = d
  <2>1. Places(Append(s, e), d) = Places(s, d) \cup {Len(s) + 1}
    BY <1>1, <1>2, <1>5 DEF Places
  <2> QED
    BY <1>3, <1>4, <1>5, <2>1, FS_AddElement, CountOfPlaces
<1>6. CASE e # d
  <2>1. Places(Append(s, e), d) = Places(s, d)
    BY <1>1, <1>2, <1>6 DEF Places
  <2> QED
    BY <1>4, <1>6, <2>1, CountOfPlaces
<1> QED
  BY <1>5, <1>6

LEMMA CountTail ==
  ASSUME NEW S, NEW s \in Seq(S), s # <<>>, NEW d
  PROVE  CountIn(s, d) = CountIn(Tail(s), d) + IF Head(s) = d THEN 1 ELSE 0
<1> DEFINE Later == Places(s, d) \ {1}
           shift == [i \in Places(Tail(s), d) |-> i + 1]
<1>1. /\ Len(s) \in Nat \ {0} /\ DOMAIN s = 1 .. Len(s) /\ Head(s) = s[1]
      /\ DOMAIN Tail(s) = 1 .. Len(s) - 1
      /\ \A i \in 1 .. Len(s) - 1 : Tail(s)[i] = s[i + 1]
  BY HeadTailProperties
<1>2. shift \in Bijection(Places(Tail(s), d), Later)
  <2>1. \A i \in Places(Tail(s), d) : i \in 1 .. Len(s) - 1 /\ s[i + 1] = d
    BY <1>1 DEF Places
  <2>2. \A i \in Places(Tail(s), d) : i + 1 \in Later
    BY <1>1, <2>1 DEF Places
  <2>3. \A j \in Later : j - 1 \in Places(Tail(s), d) /\ (j - 1) + 1 = j
    BY <1>1 DEF Places
  <2>4. \A i, j \in Places(Tail(s), d) : shift[i] = shift[j] => i = j
    BY <2>1
  <2>5. \A j \in Later : \E i \in Places(Tail(s), d) : shift[i] = j
    BY <2>3
  <2> QED
    BY <2>2, <2>4, <2>5 DEF Bijection, Injection, Surjection, IsInjective
<1>3. IsFiniteSet(Places(s, d)) /\ IsFiniteSet(Places(Tail(s), d))
  BY CountIsNat, HeadTailProperties
<1>4. IsFiniteSet(Later) /\ Cardinality(Later) = Cardinality(Places(Tail(s), d))
  BY <1>2, <1>3, FS_Bijection DEF ExistsBijection
<1>5. Cardinality(Later) = IF 1 \in Places(s, d) THEN Cardinality(Places(s, d)) - 1
                                                ELSE Cardinality(Places(s, d))
  BY <1>3, FS_RemoveElement
<1>6. 1 \in Places(s, d) <=> Head(s) = d
  BY <1>1 DEF Places
<1>7. Cardinality(Places(s, d)) \in Nat /\ Cardinality(Places(Tail(s), d)) \in Nat
  BY <1>3, FS_CardinalityType
<1> QED
  BY <1>4, <1>5, <1>6, <1>7, CountOfPlaces

\* A step of one thread adds it to those that carry d, or takes it off.
LEMMA HandChange ==
  ASSUME NEW t \in Threads, NEW d,
         \A u \in Threads : u # t => (Carries(u, d)' <=> Carries(u, d))
  PROVE  /\ Cardinality(InHand(d)) \in Nat /\ Cardinality(InHand(d)') \in Nat
         /\ Cardinality(InHand(d)') + (IF Carries(t, d) THEN 1 ELSE 0)
              = Cardinality(InHand(d)) + (IF Carries(t, d)' THEN 1 ELSE 0)
<1> DEFINE Rest == InHand(d) \ {t}
<1>1. IsFiniteSet(Threads)
  BY ThreadsAssumption, FS_AddElement
<1>2. InHand(d) \subseteq Threads /\ IsFiniteSet(InHand(d)) /\ IsFiniteSet(Rest)
  BY <1>1, FS_Subset, FS_RemoveElement DEF InHand
<1>3. InHand(d) = (IF Carries(t, d) THEN Rest \cup {t} ELSE Rest)
  BY DEF InHand
<1>4. InHand(d)' = (IF Carries(t, d)' THEN Rest \cup {t} ELSE Rest)
  BY DEF InHand
<1>5. Cardinality(Rest) \in Nat /\ Cardinality(Rest \cup {t}) = Cardinality(Rest) + 1
  BY <1>2, FS_CardinalityType, FS_AddElement
<1> QED
  BY <1>3, <1>4, <1>5

-----------------------------------------------------------------------------
(* No job is lost or handled twice.                                        *)

\* Where a worker is tells what it does in the queue, and that it carries a
\* job while it works on it.
WorkInv ==
  /\ todo \in Seq(Data)
  /\ workerAt \in [Workers -> {"loop", "pop", "work", "exit"}]
  /\ handled \in [Handled -> Nat]
  /\ \A w \in Workers :
       /\ op[w] = "pop" => workerAt[w] = "pop"
       /\ workerAt[w] = "work" => op[w] = None /\ ret[w] = 0

\* main destroys the queue after the last push, and joins after the destroy.
EndInv ==
  /\ mainAt # "feed" => todo = <<>>
  /\ mainAt # "feed" /\ op[Main] = None => dead = 1
  /\ mainAt = "done" => op[Main] = None /\ \A w \in Workers : workerAt[w] = "exit"

PInv == Inv /\ RolesInv /\ WorkInv /\ EndInv

LEMMA InvTypes == PInv => /\ TypeOK
                          /\ op \in [Threads -> Ops \cup {None}]
                          /\ item \in [Threads -> Data \cup {None}]
                          /\ ret \in [Threads -> {0, 1, None}]
  BY DEF PInv, Inv, OpenInv, TypeOK

LEMMA InitPInv == PoolInit => PInv
<1> SUFFICES ASSUME PoolInit PROVE PInv
  OBVIOUS
<1>1. Inv /\ RolesInv
  BY InitInv, RolesInit DEF PoolInit
<1>2. WorkInv
  BY JobsAssumption, ThreadsAssumption, NoneAssumption DEF PoolInit, Init, WorkInv
<1>3. EndInv
  BY DEF PoolInit, EndInv
<1> QED
  BY <1>1, <1>2, <1>3 DEF PInv

\* Incrementing a counter keeps the type of the counters.
LEMMA CountUp ==
  ASSUME NEW S, NEW f \in [S -> Nat], NEW x
  PROVE  [f EXCEPT ![x] = @ + 1] \in [S -> Nat]
<1>1. CASE x \in S
  BY <1>1
<1>2. CASE x \notin S
  <2>1. [f EXCEPT ![x] = @ + 1] = f
    BY <1>2
  <2> QED
    BY <2>1
<1> QED
  BY <1>1, <1>2

LEMMA StepPInv == ASSUME PInv, [PoolNext]_poolVars PROVE PInv'
<1> USE ThreadsAssumption, NoneAssumption
<1>1. RolesInv' /\ Inv'
  BY RolesStep, NextInv DEF PInv
<1>2. CASE MainPush
  <2>1. WorkInv'
    BY <1>2, InvTypes DEF MainPush, Call, PInv, WorkInv
  <2>2. EndInv'
    BY <1>2, InvTypes DEF MainPush, Call, queueVars, PInv, EndInv
  <2> QED
    BY <1>1, <2>1, <2>2 DEF PInv
<1>3. CASE MainDestroy
  <2>1. WorkInv'
    BY <1>3, InvTypes DEF MainDestroy, Call, PInv, WorkInv
  <2>2. EndInv'
    BY <1>3, InvTypes DEF MainDestroy, Call, queueVars, PInv, EndInv
  <2> QED
    BY <1>1, <2>1, <2>2 DEF PInv
<1>4. CASE MainJoin
  BY <1>1, <1>4 DEF MainJoin, PInv, WorkInv, EndInv, vars, queueVars
<1>5. ASSUME NEW w \in Workers, WorkerPop(w) \/ WorkerGot(w) \/ WorkerHandle(w) \/ WorkerQuit(w)
      PROVE  PInv'
  <2>1. WorkInv'
    <3>1. CASE WorkerPop(w)
      BY <3>1, InvTypes DEF WorkerPop, Call, PInv, WorkInv
    <3>2. CASE WorkerGot(w) \/ WorkerQuit(w)
      BY <3>2, InvTypes DEF WorkerGot, WorkerQuit, vars, PInv, WorkInv
    <3>3. CASE WorkerHandle(w)
      <4>1. op' = op /\ ret' = ret /\ todo' = todo /\ workerAt' = [workerAt EXCEPT ![w] = "loop"]
        BY <3>3 DEF WorkerHandle, vars
      <4>2. handled' \in [Handled -> Nat]
        <5>1. handled \in [Handled -> Nat] /\ handled' = [handled EXCEPT ![item[w]] = @ + 1]
          BY <3>3 DEF WorkerHandle, PInv, WorkInv
        <5> QED
          BY <5>1, CountUp
      <4>3. op[w] = None
        BY <3>3 DEF WorkerHandle, PInv, WorkInv
      <4> QED
        BY <4>1, <4>2, <4>3 DEF PInv, WorkInv
    <3> QED
      BY <1>5, <3>1, <3>2, <3>3
  <2>2. mainAt' = mainAt /\ todo' = todo /\ workerAt[w] # "exit"
        /\ \A u \in Workers : u # w => workerAt'[u] = workerAt[u]
    BY <1>5 DEF WorkerPop, WorkerGot, WorkerHandle, WorkerQuit, PInv, WorkInv
  <2>3. dead' = dead /\ op'[Main] = op[Main]
    <3>1. CASE WorkerPop(w)
      BY <3>1, InvTypes DEF WorkerPop, Call, queueVars
    <3>2. CASE WorkerGot(w) \/ WorkerHandle(w) \/ WorkerQuit(w)
      BY <3>2 DEF WorkerGot, WorkerHandle, WorkerQuit, vars, queueVars
    <3> QED
      BY <1>5, <3>1, <3>2
  <2>4. EndInv'
    BY <2>2, <2>3 DEF PInv, EndInv
  <2> QED
    BY <1>1, <2>1, <2>4 DEF PInv
<1>6. ASSUME NEW t \in Threads, QueueStep(t), UNCHANGED <<todo, mainAt, workerAt, handled>>
      PROVE  PInv'
  <2>1. /\ \A u \in Threads : op'[u] \in {op[u], None}
        /\ dead = 1 => dead' = 1
        /\ op[t] = "destroy" /\ op'[t] = None => dead' = 1
        /\ \A u \in Threads : u # t => op'[u] = op[u]
    BY <1>6, QueueStepOps, InvTypes
  <2>2. op[t] # None /\ \A u \in Threads : u # t => ret'[u] = ret[u]
    BY <1>6, InvTypes DEF PInv, Inv, OpenInv, OutsideInv, QueueStep, Acquire, CondWait, SpuriousWake,
      PushStore, PopTake, Refused, Destroy, Return
  <2>3. WorkInv'
    BY <1>6, <2>1, <2>2 DEF PInv, WorkInv
  <2>4. EndInv'
    BY <1>6, <2>1, <2>2 DEF PInv, EndInv, RolesInv
  <2> QED
    BY <1>1, <2>3, <2>4 DEF PInv
<1>7. CASE UNCHANGED poolVars
  BY <1>1, <1>7 DEF poolVars, vars, queueVars, PInv, WorkInv, EndInv
<1> QED
  BY <1>2, <1>3, <1>4, <1>5, <1>6, <1>7 DEF PoolNext, InQueue

-----------------------------------------------------------------------------
Total(d) == CountIn(todo, d) + Cardinality(InHand(d)) + CountIn(Contents, d) + handled[d]

\* The parts of the sum are numbers.
LEMMA PartsAreNat ==
  ASSUME PInv, NEW d \in Handled
  PROVE  /\ CountIn(todo, d) \in Nat /\ CountIn(Contents, d) \in Nat /\ handled[d] \in Nat
         /\ Contents \in Seq(Data \cup {None})
<1>1. todo \in Seq(Data) /\ handled[d] \in Nat
  BY DEF PInv, WorkInv
<1>2. Contents \in Seq(Data \cup {None})
  BY InvTypes, ContentsIsSeq DEF ContentsFacts
<1> QED
  BY <1>1, <1>2, CountIsNat

\* If only thread t acts, it alone can begin or cease to carry a job.
LEMMA OnlyOne ==
  ASSUME NEW t \in Threads, NEW d,
         \A u \in Threads : u # t => /\ op'[u] = op[u] /\ item'[u] = item[u] /\ ret'[u] = ret[u]
                                     /\ u \in Workers => workerAt'[u] = workerAt[u]
  PROVE  /\ Cardinality(InHand(d)) \in Nat /\ Cardinality(InHand(d)') \in Nat
         /\ Cardinality(InHand(d)') + (IF Carries(t, d) THEN 1 ELSE 0)
              = Cardinality(InHand(d)) + (IF Carries(t, d)' THEN 1 ELSE 0)
<1>1. \A u \in Threads : u # t => (Carries(u, d)' <=> Carries(u, d))
  BY DEF Carries
<1> QED
  BY <1>1, HandChange

\* main takes the next job into its hands.
LEMMA MainPushTotal ==
  ASSUME PInv, MainPush, NEW d \in Handled
  PROVE  Total(d)' = Total(d)
<1> USE ThreadsAssumption, NoneAssumption
<1>1. /\ op[Main] = None /\ todo # <<>> /\ todo' = Tail(todo) /\ todo \in Seq(Data)
      /\ op' = [op EXCEPT ![Main] = "push"] /\ item' = [item EXCEPT ![Main] = Head(todo)]
      /\ ret' = [ret EXCEPT ![Main] = None] /\ UNCHANGED queueVars
      /\ UNCHANGED <<workerAt, handled>>
  BY DEF MainPush, Call, PInv, WorkInv
<1>2. ~Carries(Main, d) /\ (Carries(Main, d)' <=> Head(todo) = d)
  BY <1>1, InvTypes DEF Carries
<1>3. /\ Cardinality(InHand(d)) \in Nat /\ Cardinality(InHand(d)') \in Nat
      /\ Cardinality(InHand(d)') + (IF Carries(Main, d) THEN 1 ELSE 0)
           = Cardinality(InHand(d)) + (IF Carries(Main, d)' THEN 1 ELSE 0)
  BY <1>1, InvTypes, OnlyOne
<1>4. CountIn(todo, d) = CountIn(todo', d) + IF Head(todo) = d THEN 1 ELSE 0
  BY <1>1, CountTail
<1>5. Contents' = Contents
  BY <1>1, SameContents
<1>6. CountIn(todo', d) \in Nat
  BY <1>1, CountIsNat, HeadTailProperties
<1> QED
  BY <1>1, <1>2, <1>3, <1>4, <1>5, <1>6, PartsAreNat DEF Total

\* A step that moves no job: the acting thread carries the same jobs as before.
LEMMA StillTotal ==
  ASSUME PInv, NEW d \in Handled, NEW t \in Threads,
         \A u \in Threads : u # t => /\ op'[u] = op[u] /\ item'[u] = item[u] /\ ret'[u] = ret[u]
                                     /\ u \in Workers => workerAt'[u] = workerAt[u],
         Carries(t, d)' <=> Carries(t, d),
         UNCHANGED <<todo, handled>>, UNCHANGED queueVars
  PROVE  Total(d)' = Total(d)
<1>1. Cardinality(InHand(d)') = Cardinality(InHand(d))
  BY OnlyOne
<1>2. Contents' = Contents
  BY SameContents
<1> QED
  BY <1>1, <1>2 DEF Total

\* The store of a push moves a job from main into the buffer.
LEMMA PushTotal ==
  ASSUME PInv, PInv', NEW d \in Handled, NEW t \in Threads, PushStore(t),
         UNCHANGED <<todo, workerAt, handled>>
  PROVE  Total(d)' = Total(d)
<1> USE ThreadsAssumption, NoneAssumption
<1>1. op[t] = "push" /\ t \notin Workers
  BY DEF PushStore, PInv, RolesInv
<1>2. TypeOK /\ TypeOK' /\ item[t] \in Data /\ live
  BY <1>1 DEF PInv, Inv, OpenInv, ItemInv, FreedInv, DrainedInv, TypeOK
<1>3. /\ num_used < Capacity /\ first' = first /\ num_used' = num_used + 1 /\ item' = item
      /\ buffer' = [buffer EXCEPT ![PushIndex] = item[t]]
      /\ op' = [op EXCEPT ![t] = None] /\ ret' = [ret EXCEPT ![t] = 0]
  BY <1>1, <1>2, CapacityAssumption DEF PushStore, Store, Return, Blocked, TypeOK
<1>4. Contents' = Append(Contents, item[t])
  BY <1>2, <1>3, PushAppends
<1>5. CountIn(Contents', d) = CountIn(Contents, d) + IF item[t] = d THEN 1 ELSE 0
  BY <1>2, <1>4, PartsAreNat, CountAppend
<1>6. (Carries(t, d) <=> item[t] = d) /\ ~Carries(t, d)'
  BY <1>1, <1>3, InvTypes DEF Carries
<1>7. /\ Cardinality(InHand(d)) \in Nat /\ Cardinality(InHand(d)') \in Nat
      /\ Cardinality(InHand(d)') + (IF Carries(t, d) THEN 1 ELSE 0)
           = Cardinality(InHand(d)) + (IF Carries(t, d)' THEN 1 ELSE 0)
  BY <1>3, InvTypes, OnlyOne
<1> QED
  BY <1>5, <1>6, <1>7, PartsAreNat DEF Total

\* The load of a pop moves the oldest job from the buffer to a worker.
LEMMA PopTotal ==
  ASSUME PInv, PInv', NEW d \in Handled, NEW t \in Threads, PopTake(t),
         UNCHANGED <<todo, workerAt, handled>>
  PROVE  Total(d)' = Total(d)
<1> USE ThreadsAssumption, NoneAssumption
<1>1. op[t] = "pop" /\ t \in Workers /\ workerAt[t] = "pop"
  BY DEF PopTake, PInv, RolesInv, WorkInv
<1>2. TypeOK /\ TypeOK' /\ num_used # 0 /\ live
  BY <1>1 DEF PopTake, Blocked, PInv, Inv, OpenInv, FreedInv, DrainedInv, TypeOK
<1>3. /\ first' = NextFirst /\ num_used' = num_used - 1 /\ buffer' = buffer
      /\ item' = [item EXCEPT ![t] = buffer[first]]
      /\ op' = [op EXCEPT ![t] = None] /\ ret' = [ret EXCEPT ![t] = 0]
  BY <1>2 DEF PopTake, Load, Return
<1>4. Contents # <<>> /\ Head(Contents) = buffer[first] /\ Contents' = Tail(Contents)
  BY <1>2, <1>3, PopTakesHead
<1>5. CountIn(Contents, d) = CountIn(Contents', d) + IF buffer[first] = d THEN 1 ELSE 0
  BY <1>4, PartsAreNat, CountTail
<1>6. ~Carries(t, d) /\ (Carries(t, d)' <=> buffer[first] = d)
  BY <1>1, <1>3, InvTypes DEF Carries
<1>7. /\ Cardinality(InHand(d)) \in Nat /\ Cardinality(InHand(d)') \in Nat
      /\ Cardinality(InHand(d)') + (IF Carries(t, d) THEN 1 ELSE 0)
           = Cardinality(InHand(d)) + (IF Carries(t, d)' THEN 1 ELSE 0)
  BY <1>3, InvTypes, OnlyOne
<1>8. CountIn(Contents', d) \in Nat
  BY <1>4, PartsAreNat, CountIsNat, HeadTailProperties
<1> QED
  BY <1>5, <1>6, <1>7, <1>8, PartsAreNat DEF Total

\* A worker that has handled a job no longer carries it.
LEMMA HandleTotal ==
  ASSUME PInv, NEW d \in Handled, NEW w \in Workers, WorkerHandle(w)
  PROVE  Total(d)' = Total(d)
<1> USE ThreadsAssumption, NoneAssumption
<1>1. /\ workerAt[w] = "work" /\ op[w] = None /\ ret[w] = 0
      /\ workerAt' = [workerAt EXCEPT ![w] = "loop"] /\ UNCHANGED <<op, item, ret, todo>>
      /\ UNCHANGED queueVars
      /\ handled' = [handled EXCEPT ![item[w]] = @ + 1]
  BY DEF WorkerHandle, PInv, WorkInv, vars
<1>2. handled'[d] = handled[d] + IF item[w] = d THEN 1 ELSE 0
  BY <1>1 DEF PInv, WorkInv
<1>3. (Carries(w, d) <=> item[w] = d) /\ ~Carries(w, d)'
  BY <1>1 DEF Carries, PInv, WorkInv
<1>4. /\ Cardinality(InHand(d)) \in Nat /\ Cardinality(InHand(d)') \in Nat
      /\ Cardinality(InHand(d)') + (IF Carries(w, d) THEN 1 ELSE 0)
           = Cardinality(InHand(d)) + (IF Carries(w, d)' THEN 1 ELSE 0)
  BY <1>1, OnlyOne DEF PInv, WorkInv
<1>5. Contents' = Contents /\ todo' = todo
  BY <1>1, SameContents
<1>6. Cardinality(InHand(d)') + handled'[d] = Cardinality(InHand(d)) + handled[d]
  BY <1>2, <1>3, <1>4, PartsAreNat
<1>7. CountIn(todo, d)' = CountIn(todo, d) /\ CountIn(Contents, d)' = CountIn(Contents, d)
  BY <1>5
<1>8. /\ CountIn(todo, d) \in Nat /\ CountIn(Contents, d) \in Nat
      /\ handled[d] \in Nat /\ handled'[d] \in Nat
  BY <1>2, PartsAreNat
<1>9. Total(d)' = CountIn(todo, d) + Cardinality(InHand(d)') + CountIn(Contents, d) + handled'[d]
  BY <1>7 DEF Total
<1> QED
  BY <1>4, <1>6, <1>8, <1>9 DEF Total

\* Every step leaves the number of copies of every job as it was.
LEMMA StepTotal ==
  ASSUME PInv, PInv', [PoolNext]_poolVars, NEW d \in Handled
  PROVE  Total(d)' = Total(d)
<1> USE ThreadsAssumption, NoneAssumption
<1>1. CASE MainPush
  BY <1>1, MainPushTotal
<1>2. CASE MainDestroy \/ MainJoin
  <2>1. /\ \A u \in Threads : u # Main => /\ op'[u] = op[u] /\ item'[u] = item[u] /\ ret'[u] = ret[u]
                                          /\ u \in Workers => workerAt'[u] = workerAt[u]
        /\ UNCHANGED <<todo, handled>> /\ UNCHANGED queueVars
    BY <1>2, InvTypes DEF MainDestroy, MainJoin, Call, vars
  <2>2. ~Carries(Main, d) /\ ~Carries(Main, d)'
    BY <1>2, InvTypes DEF MainDestroy, MainJoin, Call, Carries, vars
  <2> QED
    BY <2>1, <2>2, StillTotal
<1>3. ASSUME NEW w \in Workers, WorkerPop(w) \/ WorkerGot(w) \/ WorkerQuit(w)
      PROVE  Total(d)' = Total(d)
  <2>1. /\ \A u \in Threads : u # w => /\ op'[u] = op[u] /\ item'[u] = item[u] /\ ret'[u] = ret[u]
                                       /\ u \in Workers => workerAt'[u] = workerAt[u]
        /\ UNCHANGED <<todo, handled>> /\ UNCHANGED queueVars
    BY <1>3, InvTypes DEF WorkerPop, WorkerGot, WorkerQuit, Call, vars, PInv, WorkInv
  <2>2. CASE WorkerPop(w)
    <3>1. ~Carries(w, d) /\ ~Carries(w, d)'
      BY <2>2, InvTypes DEF WorkerPop, Call, Carries
    <3> QED
      BY <2>1, <3>1, StillTotal
  <2>3. CASE WorkerGot(w) \/ WorkerQuit(w)
    <3>1. Carries(w, d)' <=> Carries(w, d)
      BY <2>3, InvTypes DEF WorkerGot, WorkerQuit, Carries, vars, PInv, WorkInv
    <3> QED
      BY <2>1, <3>1, StillTotal
  <2> QED
    BY <1>3, <2>2, <2>3
<1>4. ASSUME NEW w \in Workers, WorkerHandle(w) PROVE Total(d)' = Total(d)
  BY <1>4, HandleTotal
<1>5. ASSUME NEW t \in Threads, QueueStep(t), UNCHANGED <<todo, mainAt, workerAt, handled>>
      PROVE  Total(d)' = Total(d)
  <2>1. CASE PushStore(t)
    BY <1>5, <2>1, PushTotal
  <2>2. CASE PopTake(t)
    BY <1>5, <2>2, PopTotal
  <2>3. CASE Acquire(t) \/ CondWait(t) \/ SpuriousWake(t)
    <3>1. UNCHANGED <<op, item, ret, workerAt>> /\ UNCHANGED queueVars
      BY <1>5, <2>3 DEF Acquire, CondWait, SpuriousWake
    <3>2. Carries(t, d)' <=> Carries(t, d)
      BY <3>1 DEF Carries
    <3> QED
      BY <1>5, <3>1, <3>2, StillTotal
  <2>4. CASE Refused(t)
    <3>1. /\ UNCHANGED queueVars /\ item' = item /\ op[t] = "pop"
          /\ op' = [op EXCEPT ![t] = None] /\ ret' = [ret EXCEPT ![t] = 1]
      BY <2>4 DEF Refused, GivesUp, Blocked, Return, PInv, Inv, DrainedInv
    <3>2. ~Carries(t, d) /\ ~Carries(t, d)'
      BY <3>1, InvTypes DEF Carries
    <3> QED
      BY <1>5, <3>1, <3>2, InvTypes, StillTotal
  <2>5. CASE Destroy(t)
    <3>1. /\ first' = first /\ num_used' = num_used /\ buffer' = buffer /\ item' = item
          /\ op[t] = "destroy"
          /\ op' = [op EXCEPT ![t] = None] /\ ret' = [ret EXCEPT ![t] = 0]
      BY <2>5 DEF Destroy, Return
    <3>2. t \notin Workers /\ ~Carries(t, d) /\ ~Carries(t, d)'
      BY <3>1, InvTypes DEF Carries, PInv, RolesInv
    <3>3. Cardinality(InHand(d)') = Cardinality(InHand(d))
      BY <1>5, <3>1, <3>2, InvTypes, OnlyOne
    <3>4. Contents' = Contents
      BY <3>1 DEF Contents
    <3> QED
      BY <1>5, <3>3, <3>4 DEF Total
  <2> QED
    BY <1>5, <2>1, <2>2, <2>3, <2>4, <2>5 DEF QueueStep
<1>6. CASE UNCHANGED poolVars
  <2>1. UNCHANGED <<op, item, ret, workerAt, todo, handled>> /\ UNCHANGED queueVars
    BY <1>6 DEF poolVars, vars
  <2>2. InHand(d)' = InHand(d) /\ Contents' = Contents
    BY <2>1, SameContents DEF InHand, Carries
  <2> QED
    BY <2>1, <2>2 DEF Total
<1> QED
  BY <1>1, <1>2, <1>3, <1>4, <1>5, <1>6 DEF PoolNext, InQueue

\* At the start every job is still to push.
LEMMA InitTotal == ASSUME PoolInit, NEW d \in Handled PROVE Total(d) = CountIn(Jobs, d)
<1> USE ThreadsAssumption, NoneAssumption
<1>1. InHand(d) = {}
  BY DEF PoolInit, Init, InHand, Carries
<1>2. Contents = <<>>
  BY DEF PoolInit, Init, Contents
<1>3. CountIn(<<>>, d) = 0
  <2>1. Places(<<>>, d) = {}
    BY DEF Places
  <2> QED
    BY <2>1, FS_EmptySet, CountOfPlaces
<1>4. CountIn(Jobs, d) \in Nat
  BY JobsAssumption, CountIsNat
<1> QED
  BY <1>1, <1>2, <1>3, <1>4, FS_EmptySet DEF PoolInit, Total

-----------------------------------------------------------------------------
\* Every reachable state of the programs satisfies the invariant.
LEMMA SpecPInv == PoolSpec => [](PInv /\ JobsConserved)
<1>1. PoolInit => PInv /\ JobsConserved
  BY InitPInv, InitTotal DEF JobsConserved, Total
<1>2. ASSUME PInv /\ JobsConserved, [PoolNext]_poolVars PROVE (PInv /\ JobsConserved)'
  <2>1. PInv'
    BY <1>2, StepPInv
  <2>2. \A d \in Handled : Total(d)' = Total(d)
    BY <1>2, <2>1, StepTotal
  <2>3. JobsConserved'
    BY <1>2, <2>2 DEF JobsConserved, Total
  <2> QED
    BY <2>1, <2>3
<1> QED
  BY <1>1, <1>2, PTL DEF PoolSpec

\* The variables of the programs keep their types.
THEOREM PoolTypeCorrect == PoolSpec => []PoolTypeOK
<1>1. PInv => PoolTypeOK
  BY DEF PInv, Inv, OpenInv, RolesInv, WorkInv, PoolTypeOK
<1> QED
  BY <1>1, SpecPInv, PTL

\* No job is lost and none is handled twice, whatever the number of workers,
\* the input and the capacity of the queue.
THEOREM EachJobInOnePlace == PoolSpec => []JobsConserved
  BY SpecPInv, PTL

\* When main returns, every job has been handled as often as it was read,
\* every worker has left its loop and the buffer has been freed.
THEOREM AllHandledAtEnd == PoolSpec => []DoneMeansHandled
<1> USE ThreadsAssumption, NoneAssumption
<1>1. ASSUME PInv, JobsConserved PROVE DoneMeansHandled
  <2> SUFFICES ASSUME mainAt = "done"
               PROVE  /\ \A d \in Handled : handled[d] = CountIn(Jobs, d)
                      /\ \A w \in Workers : workerAt[w] = "exit"
                      /\ ~live
    BY DEF DoneMeansHandled
  <2>1. /\ todo = <<>> /\ dead = 1 /\ op[Main] = None
        /\ \A w \in Workers : workerAt[w] = "exit"
    BY <1>1 DEF PInv, EndInv
  <2>2. num_used = 0 /\ ~live /\ \A t \in Threads : op[t] # "push"
    BY <1>1, <2>1 DEF PInv, Inv, FreedInv, DrainedInv
  <2>3. Contents = <<>>
    BY <2>2 DEF Contents
  <2>4. ASSUME NEW d \in Handled PROVE handled[d] = CountIn(Jobs, d)
    <3>1. InHand(d) = {}
      BY <2>1, <2>2 DEF InHand, Carries
    <3>2. Places(<<>>, d) = {}
      BY DEF Places
    <3>3. CountIn(<<>>, d) = 0 /\ Cardinality(InHand(d)) = 0
      BY <3>1, <3>2, FS_EmptySet, CountOfPlaces
    <3>4. handled[d] \in Nat
      BY <1>1 DEF PInv, WorkInv
    <3> QED
      BY <1>1, <2>1, <2>3, <3>3, <3>4 DEF JobsConserved
  <2> QED
    BY <2>1, <2>2, <2>4
<1> QED
  BY <1>1, SpecPInv, PTL
=============================================================================
