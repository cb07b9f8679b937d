----------------------------- MODULE WorkerPool -----------------------------
(***************************************************************************)
(* The three programs built on the job queue: fibs.c, fauxgrep-mt.c and    *)
(* fhistogram-mt.c have the same shape.  The main thread creates the       *)
(* workers, pushes one job per input line or file, destroys the queue and  *)
(* joins the workers; a worker pops a job, handles it, frees it, and       *)
(* leaves its loop when a pop fails.  main ignores what push and destroy   *)
(* return, and the workers ignore the result of the handling.              *)
(***************************************************************************)
EXTENDS JobQueue, FiniteSets

CONSTANTS Main,         \* the main thread
          Workers,      \* the num_threads threads that main creates
          Jobs          \* the lines of stdin, or the files fts_read yields

ASSUME ThreadsAssumption ==
  IsFiniteSet(Workers) /\ Main \notin Workers /\ Threads = Workers \cup {Main}
ASSUME JobsAssumption == Jobs \in Seq(Data)

VARIABLES todo,         \* the jobs main has not yet pushed
          mainAt,       \* where main is: "feed", "join", "done"
          workerAt,     \* where each worker is: "loop", "pop", "work", "exit"
          handled       \* handled[d]: how often job d was handled and freed

poolVars == <<vars, todo, mainAt, workerAt, handled>>

Handled == {Jobs[i] : i \in DOMAIN Jobs}

PoolTypeOK ==
  /\ TypeOK
  /\ todo \in Seq(Data)
  /\ mainAt \in {"feed", "join", "done"}
  /\ workerAt \in [Workers -> {"loop", "pop", "work", "exit"}]
  /\ handled \in [Handled -> Nat]

PoolInit ==
  /\ Init
  /\ todo = Jobs
  /\ mainAt = "feed"
  /\ workerAt = [w \in Workers |-> "loop"]
  /\ handled = [d \in Handled |-> 0]

-----------------------------------------------------------------------------
\* main hands the next line or path to the queue.
MainPush ==
  /\ mainAt = "feed" /\ op[Main] = None /\ todo # <<>>
  /\ Call(Main, "push", Head(todo))
  /\ todo' = Tail(todo)
  /\ UNCHANGED <<mainAt, workerAt, handled>>

\* A main that would destroy the queue again after the last push.
MainDestroyTwice ==
  /\ mainAt = "feed" /\ op[Main] = None /\ todo = <<>>
  /\ Call(Main, "destroy", None)
  /\ mainAt' \in {"feed", "join"}
  /\ UNCHANGED <<todo, workerAt, handled>>

\* End of input: destroy the queue.
MainDestroy ==
  /\ mainAt = "feed" /\ op[Main] = None /\ todo = <<>>
  /\ Call(Main, "destroy", None)
  /\ mainAt' = "join"
  /\ UNCHANGED <<todo, workerAt, handled>>

\* A main without the pthread_join loop.
MainReturnAtOnce ==
  /\ mainAt = "join" /\ op[Main] = None
  /\ mainAt' = "done"
  /\ UNCHANGED <<vars, todo, workerAt, handled>>

\* The pthread_join loop has seen every worker return.
MainJoin ==
  /\ mainAt = "join" /\ op[Main] = None
  /\ \A w \in Workers : workerAt[w] = "exit"
  /\ mainAt' = "done"
  /\ UNCHANGED <<vars, todo, workerAt, handled>>

WorkerPop(w) ==
  /\ workerAt[w] = "loop"
  /\ Call(w, "pop", None)
  /\ workerAt' = [workerAt EXCEPT ![w] = "pop"]
  /\ UNCHANGED <<todo, mainAt, handled>>

WorkerGot(w) ==
  /\ workerAt[w] = "pop" /\ op[w] = None /\ ret[w] = 0
  /\ workerAt' = [workerAt EXCEPT ![w] = "work"]
  /\ UNCHANGED <<vars, todo, mainAt, handled>>

\* fib_line, fauxgrep_file or fhistogram, then free.
WorkerHandle(w) ==
  /\ workerAt[w] = "work"
  /\ handled' = [handled EXCEPT ![item[w]] = @ + 1]
  /\ workerAt' = [workerAt EXCEPT ![w] = "loop"]
  /\ UNCHANGED <<vars, todo, mainAt>>

\* The pop failed: the queue is being destroyed.
WorkerQuit(w) ==
  /\ workerAt[w] = "pop" /\ op[w] = None /\ ret[w] # 0
  /\ workerAt' = [workerAt EXCEPT ![w] = "exit"]
  /\ UNCHANGED <<vars, todo, mainAt, handled>>

InQueue == \E t \in Threads : QueueStep(t) /\ UNCHANGED <<todo, mainAt, workerAt, handled>>

PoolNext ==
  \/ MainPush \/ MainDestroy \/ MainJoin
  \/ \E w \in Workers : WorkerPop(w) \/ WorkerGot(w) \/ WorkerHandle(w) \/ WorkerQuit(w)
  \/ InQueue

\* A step that some thread takes by itself: a wake-up that nobody caused is
\* allowed at any time and owed to nobody.
Progress == PoolNext /\ \A t \in Threads : ~SpuriousWake(t)

\* The process runs as long as one of its threads can.
PoolSpec == PoolInit /\ [][PoolNext]_poolVars /\ WF_poolVars(Progress)

-----------------------------------------------------------------------------
(* Properties.                                                             *)

\* How many copies of job d exist, and where: not yet pushed, in main's
\* hands, in the buffer, in a worker's hands, handled and freed.
CountIn(s, d) == Cardinality({i \in DOMAIN s : s[i] = d})

Carries(t, d) ==
  /\ item[t] = d
  /\ \/ op[t] = "push"
     \/ t \in Workers /\ op[t] = None /\ ret[t] = 0 /\ workerAt[t] \in {"pop", "work"}

InHand(d) == {t \in Threads : Carries(t, d)}

\* No job is lost and none is handled twice: at every moment every job that
\* main read is in exactly one place.  Each path is freed by whoever handled
\* it, so handling one twice would free it twice.
JobsConserved ==
  \A d \in Handled :
    CountIn(todo, d) + Cardinality(InHand(d)) + CountIn(Contents, d) + handled[d]
      = CountIn(Jobs, d)

\* When main returns, every job has been handled (main returns only after
\* the joins, "some may still be working on their job"), every worker has left
\* its loop and the buffer has been freed.
DoneMeansHandled ==
  mainAt = "done" =>
    /\ \A d \in Handled : handled[d] = CountIn(Jobs, d)
    /\ \A w \in Workers : workerAt[w] = "exit"
    /\ ~live

\* The programs keep the contract under which JobQueue is safe: no push after
\* or during the destroy, and a single destroy.
KeepsContract == Spec

\* The program ends.  All that is assumed of the scheduler is that it does not
\* stop the whole process, and of pthread_cond_wait that it does not return
\* without a broadcast forever.
Terminates ==
  <>[][\A t \in Threads : ~SpuriousWake(t)]_vars => <>(mainAt = "done")
=============================================================================
