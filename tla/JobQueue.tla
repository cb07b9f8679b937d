------------------------------ MODULE JobQueue ------------------------------
(***************************************************************************)
(* Parallel_queues/job_queue.c: a bounded ring buffer that any number of   *)
(* threads share, guarded by one mutex and one condition variable.         *)
(*                                                                         *)
(* A thread inside an operation is at one of three places: "lock" (it asks *)
(* for the mutex, on entry or on the way out of pthread_cond_wait), "crit" *)
(* (it holds the mutex and is about to evaluate the condition of its while *)
(* loop) and "wait" (asleep on the condition variable).  The steps of one  *)
(* critical section are one action, because every access to the structure  *)
(* is under the mutex; the acquisition is an action of its own, so that    *)
(* the queue can change between a wake-up and the test that follows it.    *)
(***************************************************************************)
EXTENDS Integers, Sequences

CONSTANTS Threads,      \* the threads of the process that use the queue
          Data,         \* the jobs (void pointers)
          Capacity,     \* capacity given to job_queue_init: 64 in the programs
          None          \* no job, no thread, an uninitialised cell

ASSUME CapacityAssumption == Capacity \in Nat \ {0}
ASSUME NoneAssumption ==
  /\ None \notin Data \cup Threads
  /\ None \notin {"push", "pop", "destroy"} /\ None \notin {0, 1}

VARIABLES first,        \* index of the oldest job
          num_used,     \* number of jobs in the buffer
          buffer,       \* the cells
          dead,         \* 1 once a destroy has gone through
          live,         \* is the buffer allocated?  (malloc .. free)
          mutex,        \* the thread that holds the mutex, or None
          op,           \* op[t]: the operation t is inside, None outside
          stage,        \* stage[t]: where in it (see above)
          item,         \* item[t]: the argument of a push, the job a pop got
          ret           \* ret[t]: what t's last operation returned

queueVars == <<first, num_used, buffer, dead, live>>
vars == <<queueVars, mutex, op, stage, item, ret>>

Slots == 0 .. Capacity - 1
Ops == {"push", "pop", "destroy"}

TypeOK ==
  /\ first \in Slots
  /\ num_used \in 0 .. Capacity
  /\ buffer \in [Slots -> Data \cup {None}]
  /\ dead \in {0, 1}
  /\ live \in BOOLEAN
  /\ mutex \in Threads \cup {None}
  /\ op \in [Threads -> Ops \cup {None}]
  /\ stage \in [Threads -> {"idle", "lock", "crit", "wait"}]
  /\ item \in [Threads -> Data \cup {None}]
  /\ ret \in [Threads -> {0, 1, None}]

\* job_queue_init: the cells come from malloc, so nothing is in them yet.
Init ==
  /\ first = 0
  /\ num_used = 0
  /\ buffer = [i \in Slots |-> None]
  /\ dead = 0
  /\ live = TRUE
  /\ mutex = None
  /\ op = [t \in Threads |-> None]
  /\ stage = [t \in Threads |-> "idle"]
  /\ item = [t \in Threads |-> None]
  /\ ret = [t \in Threads |-> None]

-----------------------------------------------------------------------------
(* The condition of the while loop each operation waits in, and the reason *)
(* for which push and pop leave that loop without having waited it out.    *)

Blocked(t) ==
  \/ op[t] = "push" /\ num_used = Capacity
  \/ op[t] = "pop" /\ num_used = 0
  \/ op[t] = "destroy" /\ num_used # 0

GivesUp(t) == op[t] \in {"push", "pop"} /\ dead = 1

\* pthread_cond_signal, for comparison: it wakes one sleeper only.
SignalTo(st) ==
  LET asleep == {u \in Threads : st[u] = "wait"} IN
  IF asleep = {} THEN st ELSE [st EXCEPT ![CHOOSE u \in asleep : TRUE] = "lock"]

\* pthread_cond_broadcast: every sleeper has to take the mutex again.
BroadcastTo(st) == [u \in Threads |-> IF st[u] = "wait" THEN "lock" ELSE st[u]]

\* The common end of the three functions: broadcast, unlock, return r.
Return(t, r) ==
  /\ stage' = [BroadcastTo(stage) EXCEPT ![t] = "idle"]
  /\ mutex' = None
  /\ op' = [op EXCEPT ![t] = None]
  /\ ret' = [ret EXCEPT ![t] = r]

-----------------------------------------------------------------------------
\* Thread t calls operation o; d is the job it pushes.
Call(t, o, d) ==
  /\ op[t] = None
  /\ IF o = "push" THEN d \in Data ELSE d = None
  /\ op' = [op EXCEPT ![t] = o]
  /\ stage' = [stage EXCEPT ![t] = "lock"]
  /\ item' = [item EXCEPT ![t] = d]
  /\ ret' = [ret EXCEPT ![t] = None]
  /\ UNCHANGED <<queueVars, mutex>>

\* pthread_mutex_lock returns, or pthread_cond_wait has the mutex again.
Acquire(t) ==
  /\ stage[t] = "lock" /\ mutex = None
  /\ mutex' = t
  /\ stage' = [stage EXCEPT ![t] = "crit"]
  /\ UNCHANGED <<queueVars, op, item, ret>>

\* pthread_cond_wait releases the mutex and falls asleep in one step.
CondWait(t) ==
  /\ stage[t] = "crit" /\ Blocked(t) /\ ~GivesUp(t)
  /\ stage' = [stage EXCEPT ![t] = "wait"]
  /\ mutex' = None
  /\ UNCHANGED <<queueVars, op, item, ret>>

\* POSIX lets pthread_cond_wait return although nobody called broadcast.
SpuriousWake(t) ==
  /\ stage[t] = "wait"
  /\ stage' = [stage EXCEPT ![t] = "lock"]
  /\ UNCHANGED <<queueVars, mutex, op, item, ret>>

-----------------------------------------------------------------------------
(* The critical sections.  Memory that was freed may hold anything: a load *)
(* from it yields any value, a store to it may be lost.                    *)

Load(i) == IF live THEN {buffer[i]} ELSE Data \cup {None}

Store(i, d) ==
  {[buffer EXCEPT ![i] = d]} \cup (IF live THEN {} ELSE {buffer})

PushIndexOffByOne == (num_used + first + 1) % Capacity
PushIndex == (num_used + first) % Capacity

PushStore(t) ==
  /\ stage[t] = "crit" /\ op[t] = "push" /\ ~Blocked(t)
  /\ buffer' \in Store(PushIndex, item[t])
  /\ num_used' = num_used + 1
  /\ Return(t, 0)
  /\ UNCHANGED <<first, dead, live, item>>

NextFirstTooLate == IF first + 1 > Capacity THEN 0 ELSE first + 1
NextFirst == IF first + 1 >= Capacity THEN 0 ELSE first + 1

PopTake(t) ==
  /\ stage[t] = "crit" /\ op[t] = "pop" /\ ~Blocked(t)
  /\ \E d \in Load(first) : item' = [item EXCEPT ![t] = d]
  /\ num_used' = num_used - 1
  /\ first' = NextFirst
  /\ Return(t, 0)
  /\ UNCHANGED <<buffer, dead, live>>

\* A push that finds the buffer full, or a pop that finds it empty, after the
\* destroy: both return 1 and leave the queue as it is.
Refused(t) ==
  /\ stage[t] = "crit" /\ Blocked(t) /\ GivesUp(t)
  /\ Return(t, 1)
  /\ UNCHANGED <<queueVars, item>>

\* A destroy that does not wait for the queue to drain.
DestroyAtOnce(t) ==
  /\ stage[t] = "crit" /\ op[t] = "destroy"
  /\ dead' = 1
  /\ live' = FALSE
  /\ Return(t, 0)
  /\ UNCHANGED <<first, num_used, buffer, item>>

Destroy(t) ==
  /\ stage[t] = "crit" /\ op[t] = "destroy" /\ ~Blocked(t)
  /\ dead' = 1
  /\ live' = FALSE
  /\ Return(t, 0)
  /\ UNCHANGED <<first, num_used, buffer, item>>

\* What thread t does inside an operation it has called.
QueueStep(t) ==
  \/ Acquire(t) \/ CondWait(t) \/ SpuriousWake(t)
  \/ PushStore(t) \/ PopTake(t) \/ Refused(t) \/ Destroy(t)

-----------------------------------------------------------------------------
(* Two kinds of client.  The programs (fibs.c, fauxgrep-mt.c and           *)
(* fhistogram-mt.c) push and destroy from the main thread only, so no push *)
(* overlaps or follows the destroy and there is one destroy: MayCall.  An  *)
(* open client calls anything at any time, as the header allows for push.  *)

Closing == dead = 1 \/ \E u \in Threads : op[u] = "destroy"

MayCall(o) ==
  /\ o \in {"push", "destroy"} => ~Closing
  /\ o = "destroy" => \A u \in Threads : op[u] # "push"

Next ==
  \E t \in Threads :
    \/ \E o \in Ops, d \in Data \cup {None} : MayCall(o) /\ Call(t, o, d)
    \/ QueueStep(t)

Spec == Init /\ [][Next]_vars

OpenNext ==
  \E t \in Threads :
    \/ \E o \in Ops, d \in Data \cup {None} : Call(t, o, d)
    \/ QueueStep(t)

OpenSpec == Init /\ [][OpenNext]_vars

-----------------------------------------------------------------------------
(* Properties.                                                             *)

\* Nobody sleeps through its chance: a thread that is asleep on the one
\* shared condition variable would, if it woke now, find its loop condition
\* still true and no reason to give up.  Pushers, poppers and a destroyer all
\* wait on the same variable, each for its own condition, so this rests on
\* every change of num_used or dead being followed by a broadcast to all
\* before the mutex is released.
NoLostWakeup ==
  \A t \in Threads : stage[t] = "wait" => Blocked(t) /\ ~GivesUp(t)

\* The buffer is never touched after destroy has freed it: a thread about to
\* store, to load or to free finds it allocated.  With the programs' client
\* this rests on destroy waiting for the queue to drain and on the thread
\* that destroys being the one that pushes; the code itself checks dead only
\* when a push finds the queue full.
NoUseAfterFree ==
  \A t \in Threads : stage[t] = "crit" /\ ~Blocked(t) => live

\* The queue as job_queue.h describes it: the cells from first on, in order.
Contents == [i \in 1 .. num_used |-> buffer[(first + i - 1) % Capacity]]

Result(r) == IF r = 0 THEN "ok" ELSE IF r = None THEN None ELSE "error"

\* The ring buffer, the mutex and the condition variable together implement
\* the abstract first-in first-out queue: every operation takes effect in one
\* step, a pop returns the oldest job pushed and not yet popped, a push never
\* overwrites one, and a pop fails only on a closed and empty queue.
Abstract == INSTANCE BoundedQueue WITH
  queue <- Contents, closed <- (dead = 1), call <- op,
  result <- [t \in Threads |-> Result(ret[t])]

ImplementsBoundedQueue == Abstract!Spec
=============================================================================
