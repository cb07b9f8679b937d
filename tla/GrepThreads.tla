----------------------------- MODULE GrepThreads -----------------------------
(***************************************************************************)
(* fauxgrep-mt.c, the search with threads: main walks the entries and      *)
(* pushes the files, each worker searches the files it pops and holds      *)
(* stdout_mutex while it prints a line.  A call of the job queue is one    *)
(* step, which is what JobQueue establishes.                               *)
(***************************************************************************)
EXTENDS Naturals, Sequences, FiniteSets

CONSTANTS Entries,      \* what fts_read yields, as in Grep
          Workers,      \* the worker threads
          Capacity,     \* of the queue: 64 in the code
          None

ASSUME EntriesAssumption ==
  Entries \in Seq([info : {"FTS_D", "FTS_F", "other"},
                   opens : BOOLEAN, lines : Seq(BOOLEAN)])
ASSUME NoneIsNoWorker == None \notin Workers
ASSUME QueueHasRoom == Capacity \in Nat \ {0}

VARIABLES fts,          \* how many entries fts_read has yielded
          queue,        \* the files pushed and not yet popped
          dead,         \* has job_queue_destroy seen the queue empty?
          joined,       \* have the workers been joined?
          stdout_mutex, \* the worker that holds it, or None
          at,           \* at[w]: where worker w is
          file,         \* file[w]: the entry that w has popped last
          lineno,       \* lineno[w], in fauxgrep_file
          out           \* the lines printed

main == <<fts, queue, dead, joined>>
vars == <<main, stdout_mutex, at, file, lineno, out>>

Init ==
  /\ fts = 0 /\ queue = <<>>
  /\ dead = FALSE /\ joined = FALSE
  /\ stdout_mutex = None
  /\ at = [w \in Workers |-> "idle"]
  /\ file = [w \in Workers |-> 0]
  /\ lineno = [w \in Workers |-> 1]
  /\ out = <<>>

Goto(w, l) == at' = [at EXCEPT ![w] = l]

-----------------------------------------------------------------------------
\* The next entry of the walk: job_queue_push of a file waits for room.
Walk ==
  /\ fts < Len(Entries)
  /\ fts' = fts + 1
  /\ \/ /\ Entries[fts + 1].info = "FTS_F" /\ Len(queue) < Capacity
        /\ queue' = Append(queue, fts + 1)
     \/ Entries[fts + 1].info # "FTS_F" /\ UNCHANGED queue
  /\ UNCHANGED <<dead, joined, stdout_mutex, at, file, lineno, out>>

\* job_queue_destroy waits until the queue is empty.
Destroy ==
  /\ fts = Len(Entries) /\ queue = <<>> /\ ~dead
  /\ dead' = TRUE
  /\ UNCHANGED <<fts, queue, joined, stdout_mutex, at, file, lineno, out>>

Join ==
  /\ dead /\ ~joined /\ \A w \in Workers : at[w] = "exit"
  /\ joined' = TRUE
  /\ UNCHANGED <<fts, queue, dead, stdout_mutex, at, file, lineno, out>>

\* job_queue_pop succeeds: fauxgrep_file opens the file, or warns and returns.
Pop(w) ==
  /\ at[w] = "idle" /\ queue # <<>>
  /\ queue' = Tail(queue)
  /\ file' = [file EXCEPT ![w] = Head(queue)]
  /\ lineno' = [lineno EXCEPT ![w] = 1]
  /\ Goto(w, IF Entries[Head(queue)].opens THEN "read" ELSE "idle")
  /\ UNCHANGED <<fts, dead, joined, stdout_mutex, out>>

\* job_queue_pop fails.
Quit(w) ==
  /\ at[w] = "idle" /\ dead
  /\ Goto(w, "exit")
  /\ UNCHANGED <<main, stdout_mutex, file, lineno, out>>

-----------------------------------------------------------------------------
(* fauxgrep_file.                                                          *)

Lines(w) == Entries[file[w]].lines

Miss(w) ==
  /\ at[w] = "read" /\ lineno[w] \in DOMAIN Lines(w) /\ ~Lines(w)[lineno[w]]
  /\ lineno' = [lineno EXCEPT ![w] = @ + 1]
  /\ UNCHANGED <<main, stdout_mutex, at, file, out>>

Hit(w) ==
  /\ at[w] = "read" /\ lineno[w] \in DOMAIN Lines(w) /\ Lines(w)[lineno[w]]
  /\ Goto(w, "lock")
  /\ UNCHANGED <<main, stdout_mutex, file, lineno, out>>

Lock(w) ==
  /\ at[w] = "lock" /\ stdout_mutex = None
  /\ stdout_mutex' = w
  /\ Goto(w, "print")
  /\ UNCHANGED <<main, file, lineno, out>>

\* printf locks the stream itself: the line appears in one piece.
Printf(w) ==
  /\ at[w] = "print"
  /\ out' = Append(out, <<file[w], lineno[w]>>)
  /\ Goto(w, "unlock")
  /\ UNCHANGED <<main, stdout_mutex, file, lineno>>

\* A worker that keeps the mutex after the first line it finds.
UnlockForgotten(w) ==
  /\ at[w] = "unlock"
  /\ lineno' = [lineno EXCEPT ![w] = @ + 1]
  /\ Goto(w, "read")
  /\ UNCHANGED <<main, stdout_mutex, file, out>>

Unlock(w) ==
  /\ at[w] = "unlock"
  /\ stdout_mutex' = None
  /\ lineno' = [lineno EXCEPT ![w] = @ + 1]
  /\ Goto(w, "read")
  /\ UNCHANGED <<main, file, out>>

\* getline returns -1.
Eof(w) ==
  /\ at[w] = "read" /\ lineno[w] > Len(Lines(w))
  /\ Goto(w, "idle")
  /\ UNCHANGED <<main, stdout_mutex, file, lineno, out>>

Worker(w) ==
  \/ Pop(w) \/ Quit(w)
  \/ Miss(w) \/ Hit(w) \/ Lock(w) \/ Printf(w) \/ Unlock(w) \/ Eof(w)

Next == Walk \/ Destroy \/ Join \/ \E w \in Workers : Worker(w)

\* The process runs as long as one of its threads can.
Spec == Init /\ [][Next]_vars /\ WF_vars(Next)

-----------------------------------------------------------------------------
(* Properties.                                                             *)

\* What the program has done with entry f alone: the worker that searches
\* it, if one does, the line it is at, whether nothing more is to come, and
\* the lines of it that have been printed.
Searching(f) == {w \in Workers : file[w] = f /\ at[w] \notin {"idle", "exit"}}

LineOf(f) ==
  IF Searching(f) = {} THEN 0
  ELSE LET w == CHOOSE w \in Searching(f) : TRUE
       IN  IF at[w] = "unlock" THEN lineno[w] + 1 ELSE lineno[w]

Waiting(f) == f > fts \/ \E i \in DOMAIN queue : queue[i] = f

Finished(f) == IF Waiting(f) \/ Searching(f) # {} THEN 0 ELSE 1

PrintedOf(f) ==
  LET Mine(line) == line[1] = f
      mine == SelectSeq(out, Mine)
  IN  [i \in DOMAIN mine |-> <<1, mine[i][2]>>]

One(f) == INSTANCE Grep WITH Entries <- <<Entries[f]>>, visited <- Finished(f),
                             lineno <- LineOf(f), out <- PrintedOf(f)

\* However the workers share the files and the screen, each file is searched
\* as fauxgrep.c searches it: the same lines with the same numbers, in the
\* order of the file, each once, and to its end.  Only the lines of different
\* files may come in another order than the one-threaded program's.  (The
\* conjuncts say \A f : One(f)!Spec; a program that searches one file to the
\* end of it is one that is fair.)
EachLikeFauxgrep ==
  /\ \A f \in DOMAIN Entries : One(f)!Init
  /\ [][\A f \in DOMAIN Entries : [One(f)!Next]_(One(f)!vars)]_vars
  /\ <>(joined /\ \A f \in DOMAIN Entries : Finished(f) = 1)
=============================================================================
