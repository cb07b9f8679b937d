------------------------------- MODULE HandOff -------------------------------
(***************************************************************************)
(* name_server.c: how the main loop hands each accepted connection to the  *)
(* thread it creates for it.  All threads get a pointer to the one struct  *)
(* t_args of main; the struct points to a heap cell with the descriptor.   *)
(* The thread follows the pointer twice: to read the descriptor (line 77)  *)
(* and to free the cell (line 79).  main moves the pointer to a new cell   *)
(* whenever the next connection is accepted.                               *)
(***************************************************************************)
EXTENDS Integers, FiniteSets

CONSTANTS NumConns,     \* bound: connections accepted during a run
          Cells,        \* bound: the heap cells malloc can return
          Fds,          \* bound: the descriptors accept can return
          None          \* no cell, no descriptor, whatever free memory holds

Conns == 1 .. NumConns  \* the k-th connection and the k-th thread

\* What the theorems assume of the constants.
Sizes ==
  /\ NumConns \in Nat
  /\ Cardinality(Cells) >= NumConns /\ Cardinality(Fds) >= NumConns
  /\ None \notin Cells \cup Fds

VARIABLES accepted,     \* connections accepted so far
          mainAt,       \* main's place in its loop
          connfd,       \* main's local pointer
          published,    \* t_args.connfd
          allocated,    \* the cells that are malloc'ed and not freed
          memory,       \* memory[p]: what cell p holds
          fdOf,         \* fdOf[k]: the descriptor accept gave connection k
          open,         \* the descriptors in use
          threadAt,     \* where thread k is
          pointer,      \* pointer[k]: the pointer thread k loaded last
          serves,       \* serves[k]: thread k's connfd
          misused       \* was a freed cell read or freed again?

vars == <<accepted, mainAt, connfd, published, allocated, memory, fdOf, open,
          threadAt, pointer, serves, misused>>

TypeOK ==
  /\ accepted \in 0 .. NumConns
  /\ mainAt \in {"malloc", "accept", "publish", "create"}
  /\ connfd \in Cells \cup {None} /\ published \in Cells \cup {None}
  /\ allocated \subseteq Cells
  /\ memory \in [Cells -> Fds \cup {None}]
  /\ fdOf \in [Conns -> Fds \cup {None}] /\ open \subseteq Fds
  /\ threadAt \in [Conns -> {"none", "load", "read", "reload", "free", "serve", "done"}]
  /\ pointer \in [Conns -> Cells \cup {None}]
  /\ serves \in [Conns -> Fds \cup {None}]
  /\ misused \in BOOLEAN

Init ==
  /\ accepted = 0
  /\ mainAt = "malloc"
  /\ connfd = None /\ published = None
  /\ allocated = {} /\ memory = [p \in Cells |-> None]
  /\ fdOf = [k \in Conns |-> None] /\ open = {}
  /\ threadAt = [k \in Conns |-> "none"]
  /\ pointer = [k \in Conns |-> None]
  /\ serves = [k \in Conns |-> None]
  /\ misused = FALSE

-----------------------------------------------------------------------------
(* main: Malloc, Accept, publish, Pthread_create.                          *)

MainMalloc ==
  /\ mainAt = "malloc" /\ accepted < NumConns
  /\ \E p \in Cells \ allocated : connfd' = p /\ allocated' = allocated \cup {p}
  /\ mainAt' = "accept"
  /\ UNCHANGED <<accepted, published, memory, fdOf, open, threadAt, pointer, serves, misused>>

MainAccept ==
  /\ mainAt = "accept"
  /\ accepted' = accepted + 1
  /\ \E fd \in Fds \ open :
       /\ memory' = [memory EXCEPT ![connfd] = fd]
       /\ fdOf' = [fdOf EXCEPT ![accepted + 1] = fd]
       /\ open' = open \cup {fd}
  /\ mainAt' = "publish"
  /\ UNCHANGED <<connfd, published, allocated, threadAt, pointer, serves, misused>>

MainPublish ==
  /\ mainAt = "publish"
  /\ published' = connfd
  /\ mainAt' = "create"
  /\ UNCHANGED <<accepted, connfd, allocated, memory, fdOf, open, threadAt, pointer, serves, misused>>

MainCreate ==
  /\ mainAt = "create"
  /\ threadAt' = [threadAt EXCEPT ![accepted] = "load"]
  /\ mainAt' = "malloc"
  /\ UNCHANGED <<accepted, connfd, published, allocated, memory, fdOf, open, pointer, serves, misused>>

-----------------------------------------------------------------------------
(* thread: both uses of var->connfd load the pointer, then follow it.      *)

Load(k) ==
  /\ threadAt[k] \in {"load", "reload"}
  /\ pointer' = [pointer EXCEPT ![k] = published]
  /\ threadAt' = [threadAt EXCEPT ![k] = IF @ = "load" THEN "read" ELSE "free"]
  /\ UNCHANGED <<accepted, mainAt, connfd, published, allocated, memory, fdOf, open, serves, misused>>

\* connfd = *((int *)var->connfd).  A freed cell may hold anything.
ReadFd(k) ==
  /\ threadAt[k] = "read"
  /\ \E fd \in IF pointer[k] \in allocated THEN {memory[pointer[k]]} ELSE Fds \cup {None} :
       serves' = [serves EXCEPT ![k] = fd]
  /\ misused' = (misused \/ pointer[k] \notin allocated)
  /\ threadAt' = [threadAt EXCEPT ![k] = "reload"]
  /\ UNCHANGED <<accepted, mainAt, connfd, published, allocated, memory, fdOf, open, pointer>>

FreeCell(k) ==
  /\ threadAt[k] = "free"
  /\ allocated' = allocated \ {pointer[k]}
  /\ misused' = (misused \/ pointer[k] \notin allocated)
  /\ threadAt' = [threadAt EXCEPT ![k] = "serve"]
  /\ UNCHANGED <<accepted, mainAt, connfd, published, memory, fdOf, open, pointer, serves>>

\* nameserverLoop returns and the thread closes the descriptor it served.
CloseFd(k) ==
  /\ threadAt[k] = "serve"
  /\ open' = open \ {serves[k]}
  /\ threadAt' = [threadAt EXCEPT ![k] = "done"]
  /\ UNCHANGED <<accepted, mainAt, connfd, published, allocated, memory, fdOf, pointer, serves, misused>>

Thread(k) == Load(k) \/ ReadFd(k) \/ FreeCell(k) \/ CloseFd(k)

Next ==
  \/ MainMalloc \/ MainAccept \/ MainPublish \/ MainCreate
  \/ \E k \in Conns : Thread(k)

Spec == Init /\ [][Next]_vars

\* The same loop when connections come far enough apart: a connection is
\* accepted only when every thread created so far has freed its cell.
Started(k) == threadAt[k] \in {"serve", "done"}

SpacedNext ==
  \/ MainMalloc
  \/ (\A k \in 1 .. accepted : Started(k)) /\ MainAccept
  \/ MainPublish \/ MainCreate
  \/ \E k \in Conns : Thread(k)

SpacedSpec == Init /\ [][SpacedNext]_vars

-----------------------------------------------------------------------------
(* Properties.                                                             *)

\* The k-th thread serves the k-th connection.
OwnConnection == \A k \in Conns : serves[k] # None => serves[k] = fdOf[k]

\* No cell is read or freed after it was freed, and none is leaked: once the
\* threads have started, only the cell main prepares is allocated.
CellsBalanced ==
  /\ ~misused
  /\ (\A k \in 1 .. accepted : Started(k)) => allocated \subseteq {connfd}

\* name_server.c:47: "Only one connected file descriptor, make it so there can
\* be multiple."  With several connections, two threads never serve the same
\* one.  A connection accepted before the previous thread has run line 77
\* moves the shared pointer under it.
Using(k) == threadAt[k] \in {"reload", "free", "serve"}

ConnectionsServedApart ==
  \A j, k \in Conns : Using(j) /\ Using(k) /\ serves[j] = serves[k] => j = k
=============================================================================
