---------------------------- MODULE HandOffProofs ----------------------------
(***************************************************************************)
(* Proofs about HandOff for any number of connections, cells and           *)
(* descriptors, under SpacedSpec: an accept returns only when the threads  *)
(* created before have freed their cells.                                  *)
(***************************************************************************)
EXTENDS HandOff, TLAPS

Pending(k) == threadAt[k] \in {"load", "read", "reload", "free"}

\* Where main is tells which threads exist, and all but the newest have
\* started.
ThreadsInv ==
  /\ mainAt = "accept" => accepted < NumConns
  /\ mainAt \in {"publish", "create"} => accepted \in Conns /\ threadAt[accepted] = "none"
  /\ \A k \in Conns :
       /\ k > accepted => threadAt[k] = "none"
       /\ k < accepted => Started(k)
       /\ k <= accepted /\ mainAt \in {"malloc", "accept"} => threadAt[k] # "none"

\* The cell main prepares is its own until the thread is created.
MainInv ==
  /\ mainAt # "malloc" => connfd \in allocated
  /\ mainAt \in {"publish", "create"} => memory[connfd] = fdOf[accepted]
  /\ mainAt = "create" => published = connfd

\* While a thread still needs the shared pointer, it leads to its own cell.
PendingInv ==
  \A k \in Conns : Pending(k) =>
    /\ mainAt \in {"malloc", "accept"}
    /\ mainAt = "accept" => connfd # published
    /\ published \in allocated /\ memory[published] = fdOf[k]
    /\ threadAt[k] \in {"read", "free"} => pointer[k] = published

ServesInv ==
  \A k \in Conns :
    /\ serves[k] \in {None, fdOf[k]}
    /\ threadAt[k] \in {"none", "load", "read"} => serves[k] = None

\* Every allocated cell is main's or that of the thread that is starting.
CellsInv ==
  /\ \A p \in allocated :
       \/ mainAt # "malloc" /\ p = connfd
       \/ p = published /\ \E k \in Conns : Pending(k)
  /\ ~misused

IInv == TypeOK /\ ThreadsInv /\ MainInv /\ PendingInv /\ ServesInv /\ CellsInv

-----------------------------------------------------------------------------
\* The initial state satisfies the invariant.
LEMMA InitInv ==
  ASSUME Sizes
  PROVE  Init => IInv
<1> SUFFICES ASSUME Init PROVE IInv
  OBVIOUS
<1>1. TypeOK
  <2>1. memory \in [Cells -> Fds \cup {None}] /\ fdOf \in [Conns -> Fds \cup {None}]
    BY DEF Init
  <2>2. pointer \in [Conns -> Cells \cup {None}] /\ serves \in [Conns -> Fds \cup {None}]
    BY DEF Init
  <2>3. threadAt \in [Conns -> {"none", "load", "read", "reload", "free", "serve", "done"}]
    BY DEF Init
  <2>4. accepted \in 0 .. NumConns
    BY DEF Sizes, Init
  <2> QED
    BY <2>1, <2>2, <2>3, <2>4 DEF Init, TypeOK
<1>2. ThreadsInv
  <2>1. mainAt = "malloc" /\ accepted = 0 /\ \A k \in Conns : threadAt[k] = "none" /\ k > 0
    BY DEF Sizes, Init, Conns
  <2> QED
    BY <2>1 DEF Sizes, ThreadsInv, Conns
<1>3. MainInv
  BY DEF Init, MainInv
<1>4. PendingInv
  BY DEF Init, PendingInv, Pending
<1>5. ServesInv
  BY DEF Init, ServesInv
<1>6. CellsInv
  BY DEF Init, CellsInv
<1> QED
  BY <1>1, <1>2, <1>3, <1>4, <1>5, <1>6 DEF IInv

\* malloc returns a cell that is not allocated, so not the one a thread that is starting still needs.
LEMMA MainMallocInv ==
  ASSUME Sizes
  PROVE  IInv /\ MainMalloc => IInv'
<1> SUFFICES ASSUME IInv /\ MainMalloc PROVE IInv'
  OBVIOUS
<1> USE DEF Sizes, IInv, MainMalloc, Conns
<1>1. TypeOK'
  BY DEF TypeOK
<1>2. ThreadsInv'
  BY DEF TypeOK, ThreadsInv, Started
<1>3. MainInv'
  BY DEF MainInv
<1>4. PendingInv'
  <2> SUFFICES ASSUME NEW k \in 1 .. NumConns, Pending(k)'
               PROVE  /\ mainAt' = "accept" /\ connfd' # published'
                      /\ published' \in allocated' /\ memory'[published'] = fdOf'[k]
                      /\ threadAt'[k] \in {"read", "free"} => pointer'[k] = published'
    BY DEF PendingInv
  <2>1. Pending(k)
    BY DEF Pending
  <2>2. published \in allocated /\ memory[published] = fdOf[k]
        /\ (threadAt[k] \in {"read", "free"} => pointer[k] = published)
    BY <2>1 DEF PendingInv
  <2>3. connfd' \notin allocated
    OBVIOUS
  <2> QED
    BY <2>2, <2>3
<1>5. ServesInv'
  BY DEF ServesInv
<1>6. CellsInv'
  BY DEF CellsInv, Pending
<1> QED
  BY <1>1, <1>2, <1>3, <1>4, <1>5, <1>6

\* The descriptor goes into the cell of main, which no thread needs.
LEMMA MainAcceptInv ==
  ASSUME Sizes
  PROVE  IInv /\ (\A k \in 1 .. accepted : Started(k)) /\ MainAccept => IInv'
<1> SUFFICES ASSUME IInv /\ (\A k \in 1 .. accepted : Started(k)) /\ MainAccept PROVE IInv'
  OBVIOUS
<1> USE DEF Sizes, IInv, MainAccept, Conns
<1>1. TypeOK'
  BY DEF TypeOK, ThreadsInv, MainInv
<1>2. ThreadsInv'
  BY DEF TypeOK, ThreadsInv, Started
<1>3. MainInv'
  BY DEF TypeOK, ThreadsInv, MainInv
<1>4. PendingInv'
  BY DEF TypeOK, ThreadsInv, PendingInv, Pending, Started
<1>5. ServesInv'
  BY DEF TypeOK, ThreadsInv, ServesInv, Started
<1>6. CellsInv'
  BY DEF CellsInv, Pending
<1> QED
  BY <1>1, <1>2, <1>3, <1>4, <1>5, <1>6

\* The shared pointer moves only when every thread has started.
LEMMA MainPublishInv ==
  ASSUME Sizes
  PROVE  IInv /\ MainPublish => IInv'
<1> SUFFICES ASSUME IInv /\ MainPublish PROVE IInv'
  OBVIOUS
<1> USE DEF Sizes, IInv, MainPublish, Conns
<1>1. TypeOK'
  BY DEF TypeOK
<1>2. ThreadsInv'
  BY DEF ThreadsInv, Started
<1>3. MainInv'
  BY DEF MainInv
<1>4. PendingInv'
  BY DEF PendingInv, Pending
<1>5. ServesInv'
  BY DEF ServesInv
<1>6. CellsInv'
  BY DEF CellsInv, PendingInv, Pending
<1> QED
  BY <1>1, <1>2, <1>3, <1>4, <1>5, <1>6

\* The new thread finds the pointer to the cell with its descriptor.
LEMMA MainCreateInv ==
  ASSUME Sizes
  PROVE  IInv /\ MainCreate => IInv'
<1> SUFFICES ASSUME IInv /\ MainCreate PROVE IInv'
  OBVIOUS
<1> USE DEF Sizes, IInv, MainCreate, Conns
<1>1. TypeOK'
  BY DEF TypeOK
<1>2. ThreadsInv'
  BY DEF TypeOK, ThreadsInv, Started
<1>3. MainInv'
  BY DEF MainInv
<1>4. PendingInv'
  BY DEF TypeOK, ThreadsInv, MainInv, PendingInv, Pending
<1>5. ServesInv'
  BY DEF TypeOK, ThreadsInv, ServesInv
<1>6. CellsInv'
  BY DEF TypeOK, ThreadsInv, MainInv, CellsInv, Pending
<1> QED
  BY <1>1, <1>2, <1>3, <1>4, <1>5, <1>6

\* A thread loads the pointer to its own cell.
LEMMA LoadInv ==
  ASSUME Sizes, NEW k \in Conns, IInv, Load(k)
  PROVE  IInv'
<1> USE DEF Sizes, IInv, Load, Conns
<1>1. TypeOK'
  BY DEF TypeOK
<1>2. ThreadsInv'
  BY DEF TypeOK, ThreadsInv, Started
<1>3. MainInv'
  BY DEF TypeOK, MainInv, ThreadsInv
<1>4. PendingInv'
  BY DEF TypeOK, PendingInv, Pending
<1>5. ServesInv'
  BY DEF TypeOK, ServesInv
<1>6. CellsInv'
  BY DEF TypeOK, CellsInv, Pending
<1> QED
  BY <1>1, <1>2, <1>3, <1>4, <1>5, <1>6

\* A thread reads its own descriptor from a cell that is allocated.
LEMMA ReadFdInv ==
  ASSUME Sizes, NEW k \in Conns, IInv, ReadFd(k)
  PROVE  IInv'
<1> USE DEF Sizes, IInv, ReadFd, Conns
<1>1. TypeOK'
  BY DEF TypeOK
<1>2. ThreadsInv'
  BY DEF TypeOK, ThreadsInv, Started
<1>3. MainInv'
  BY DEF MainInv
<1>4. PendingInv'
  BY DEF TypeOK, PendingInv, Pending
<1>5. ServesInv'
  BY DEF TypeOK, PendingInv, ServesInv, Pending
<1>6. CellsInv'
  BY DEF TypeOK, PendingInv, CellsInv, Pending
<1> QED
  BY <1>1, <1>2, <1>3, <1>4, <1>5, <1>6

\* A thread frees its own cell, once.
LEMMA FreeCellInv ==
  ASSUME Sizes, NEW k \in Conns, IInv, FreeCell(k)
  PROVE  IInv'
<1> USE DEF Sizes, IInv, FreeCell, Conns
<1>1. TypeOK'
  BY DEF TypeOK
<1>2. ThreadsInv'
  BY DEF TypeOK, ThreadsInv, Started
<1>3. MainInv'
  BY DEF TypeOK, ThreadsInv, MainInv, PendingInv, Pending
<1>4. PendingInv'
  BY SMTT(60) DEF TypeOK, ThreadsInv, PendingInv, Pending, Started
<1>5. ServesInv'
  BY DEF TypeOK, ServesInv
<1>6. CellsInv'
  BY DEF TypeOK, PendingInv, CellsInv, Pending
<1> QED
  BY <1>1, <1>2, <1>3, <1>4, <1>5, <1>6

\* A thread that ends leaves the cells alone.
LEMMA CloseFdInv ==
  ASSUME Sizes, NEW k \in Conns, IInv, CloseFd(k)
  PROVE  IInv'
<1> USE DEF Sizes, IInv, CloseFd, Conns
<1>1. TypeOK'
  BY DEF TypeOK
<1>2. ThreadsInv'
  BY DEF TypeOK, ThreadsInv, Started
<1>3. MainInv'
  BY DEF MainInv
<1>4. PendingInv'
  BY DEF TypeOK, PendingInv, Pending
<1>5. ServesInv'
  BY DEF TypeOK, ServesInv
<1>6. CellsInv'
  BY DEF TypeOK, CellsInv, Pending
<1> QED
  BY <1>1, <1>2, <1>3, <1>4, <1>5, <1>6

-----------------------------------------------------------------------------
\* Every reachable state of the spaced loop satisfies the invariant.
THEOREM SpacedInv ==
  ASSUME Sizes
  PROVE  SpacedSpec => []IInv
<1>1. IInv /\ [SpacedNext]_vars => IInv'
  <2> SUFFICES ASSUME IInv, [SpacedNext]_vars PROVE IInv'
    OBVIOUS
  <2>1. CASE MainMalloc
    BY <2>1, MainMallocInv
  <2>2. CASE (\A k \in 1 .. accepted : Started(k)) /\ MainAccept
    BY <2>2, MainAcceptInv
  <2>3. CASE MainPublish
    BY <2>3, MainPublishInv
  <2>4. CASE MainCreate
    BY <2>4, MainCreateInv
  <2>5. CASE \E k \in Conns : Thread(k)
    BY <2>5, LoadInv, ReadFdInv, FreeCellInv, CloseFdInv DEF Thread
  <2>6. CASE UNCHANGED vars
    BY <2>6 DEF vars, IInv, TypeOK, ThreadsInv, MainInv, PendingInv, ServesInv, CellsInv,
      Pending, Started, Conns
  <2> QED
    BY <2>1, <2>2, <2>3, <2>4, <2>5, <2>6 DEF SpacedNext
<1> QED
  BY InitInv, <1>1, PTL DEF SpacedSpec

\* However many connections are accepted, if each thread has freed its cell
\* before the next accept returns, the k-th thread serves the k-th connection.
THEOREM ServesOwn ==
  ASSUME Sizes
  PROVE  SpacedSpec => []OwnConnection
<1>1. IInv => OwnConnection
  BY DEF IInv, ServesInv, OwnConnection
<1> QED
  BY <1>1, SpacedInv, PTL

\* Under the same condition no cell is read or freed after its free, and none
\* is leaked.
THEOREM Balanced ==
  ASSUME Sizes
  PROVE  SpacedSpec => []CellsBalanced
<1>1. IInv => CellsBalanced
  BY DEF Sizes, IInv, TypeOK, ThreadsInv, PendingInv, CellsInv, CellsBalanced, Pending, Started, Conns
<1> QED
  BY <1>1, SpacedInv, PTL

\* The variables of the hand-off keep their types.
THEOREM SpacedTypeCorrect ==
  ASSUME Sizes
  PROVE  SpacedSpec => []TypeOK
<1>1. IInv => TypeOK
  BY DEF IInv
<1> QED
  BY <1>1, SpacedInv, PTL
=============================================================================
