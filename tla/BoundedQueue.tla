---------------------------- MODULE BoundedQueue ----------------------------
(***************************************************************************)
(* What Parallel_queues/job_queue.h promises: a first-in first-out queue   *)
(* of at most Capacity jobs.  A push blocks while the queue is full, a pop *)
(* blocks while it is empty, and a destroy blocks until it is empty and    *)
(* closes it; after that every pop fails.  Each operation takes effect in  *)
(* one step between its call and its return.  There is no buffer, no mutex *)
(* and no condition variable here: JobQueue implements this module.        *)
(***************************************************************************)
EXTENDS Integers, Sequences

CONSTANTS Threads,      \* the threads that may call the queue
          Data,         \* the jobs (void pointers in the code)
          Capacity,     \* size given to job_queue_init
          None          \* no job, no operation

VARIABLES queue,        \* the jobs pushed and not popped, oldest first
          closed,       \* has a destroy returned?
          call,         \* call[t]: the operation t is inside, None outside
          item,         \* item[t]: the job t pushes, or the one it last popped
          result        \* result[t]: how t's last operation ended

vars == <<queue, closed, call, item, result>>

Init ==
  /\ queue = <<>>
  /\ closed = FALSE
  /\ call = [t \in Threads |-> None]
  /\ item = [t \in Threads |-> None]
  /\ result = [t \in Threads |-> None]

Invoke(t, o, d) ==
  /\ call[t] = None
  /\ call' = [call EXCEPT ![t] = o]
  /\ item' = [item EXCEPT ![t] = d]
  /\ result' = [result EXCEPT ![t] = None]
  /\ UNCHANGED <<queue, closed>>

Return(t, r) ==
  /\ call' = [call EXCEPT ![t] = None]
  /\ result' = [result EXCEPT ![t] = r]

Push(t) ==
  /\ call[t] = "push" /\ ~closed /\ Len(queue) < Capacity
  /\ queue' = Append(queue, item[t])
  /\ Return(t, "ok")
  /\ UNCHANGED <<closed, item>>

Pop(t) ==
  /\ call[t] = "pop" /\ queue # <<>>
  /\ item' = [item EXCEPT ![t] = Head(queue)]
  /\ queue' = Tail(queue)
  /\ Return(t, "ok")
  /\ UNCHANGED closed

PopClosed(t) ==
  /\ call[t] = "pop" /\ queue = <<>> /\ closed
  /\ Return(t, "error")
  /\ UNCHANGED <<queue, closed, item>>

Close(t) ==
  /\ call[t] = "destroy" /\ queue = <<>> /\ ~closed
  /\ closed' = TRUE
  /\ Return(t, "ok")
  /\ UNCHANGED <<queue, item>>

Next ==
  \E t \in Threads :
    \/ \E o \in {"push", "pop", "destroy"}, d \in Data \cup {None} : Invoke(t, o, d)
    \/ Push(t) \/ Pop(t) \/ PopClosed(t) \/ Close(t)

Spec == Init /\ [][Next]_vars
=============================================================================
