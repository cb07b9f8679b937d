------------------------------ MODULE Histogram ------------------------------
(***************************************************************************)
(* What the workers of fhistogram-mt.c do with the files they pop: each    *)
(* counts the bits of its file in a histogram of its own and from time to  *)
(* time merges it into the global one and redraws the screen, both under   *)
(* stdout_mutex.  A byte is the set of its bits that are one.  Taking a    *)
(* file is one step, which is what WorkerPool and JobQueue establish.      *)
(***************************************************************************)
EXTENDS Integers, Sequences, FiniteSets

CONSTANTS Workers,      \* the worker threads
          Files,        \* the files, in the order they are pushed
          Unreadable,   \* the indices of those that fopen cannot open
          NumBits,      \* bits of a byte: 8 in the code
          Period,       \* bytes between two merges: 100000 in the code
          None

Bits == 0 .. NumBits - 1
FileIds == DOMAIN Files

ASSUME PeriodAssumption == Period \in Nat \ {0} /\ NumBits \in Nat \ {0}
ASSUME FilesAssumption == Files \in Seq(Seq(SUBSET Bits)) /\ Unreadable \subseteq FileIds
ASSUME WorkersAssumption == IsFiniteSet(Workers) /\ Workers # {} /\ None \notin Workers

VARIABLES taken,        \* how many files have been popped
          pos,          \* pos[f]: bytes of file f read so far (i in the code)
          global,       \* global_histogram
          shown,        \* the histogram on the screen
          stdout_mutex, \* the worker that holds it, or None
          at,           \* at[w]: where worker w is
          file,         \* file[w]: the file w works on
          eof,          \* eof[w]: has fread failed?
          local,        \* local[w]: local_histogram
          bit,          \* bit[w]: the loop index of merge_histogram
          loaded,       \* loaded[w]: to[i] as merge_histogram loaded it
          drawing       \* drawing[w]: the counters print_histogram has read

vars == <<taken, pos, global, shown, stdout_mutex, at, file, eof, local, bit, loaded, drawing>>

Zero == [b \in Bits |-> 0]

TypeOK ==
  /\ taken \in 0 .. Len(Files)
  /\ pos \in [FileIds -> Nat] /\ \A f \in FileIds : pos[f] <= Len(Files[f])
  /\ global \in [Bits -> Nat] /\ shown \in [Bits -> Nat]
  /\ stdout_mutex \in Workers \cup {None}
  /\ at \in [Workers -> {"idle", "read", "lock", "load", "add", "draw", "show", "exit"}]
  /\ file \in [Workers -> 0 .. Len(Files)]
  /\ eof \in [Workers -> BOOLEAN]
  /\ local \in [Workers -> [Bits -> Nat]]
  /\ bit \in [Workers -> Bits]
  /\ loaded \in [Workers -> Nat]
  /\ drawing \in [Workers -> [Bits -> Nat]]

Init ==
  /\ taken = 0
  /\ pos = [f \in FileIds |-> 0]
  /\ global = Zero /\ shown = Zero
  /\ stdout_mutex = None
  /\ at = [w \in Workers |-> "idle"]
  /\ file = [w \in Workers |-> 0]
  /\ eof = [w \in Workers |-> FALSE]
  /\ local = [w \in Workers |-> Zero]
  /\ bit = [w \in Workers |-> 0]
  /\ loaded = [w \in Workers |-> 0]
  /\ drawing = [w \in Workers |-> Zero]

Goto(w, l) == at' = [at EXCEPT ![w] = l]

-----------------------------------------------------------------------------
\* A worker that goes on when job_queue_pop has failed.
TakeFileAlways(w) ==
  /\ at[w] = "idle"
  /\ taken' = taken + 1
  /\ file' = [file EXCEPT ![w] = taken + 1]
  /\ eof' = [eof EXCEPT ![w] = FALSE]
  /\ local' = [local EXCEPT ![w] = Zero]
  /\ Goto(w, IF taken + 1 \in Unreadable THEN "idle" ELSE "read")
  /\ UNCHANGED <<pos, global, shown, stdout_mutex, bit, loaded, drawing>>

\* job_queue_pop succeeded: fhistogram opens the file, or warns and returns.
TakeFile(w) ==
  /\ at[w] = "idle" /\ taken < Len(Files)
  /\ taken' = taken + 1
  /\ file' = [file EXCEPT ![w] = taken + 1]
  /\ eof' = [eof EXCEPT ![w] = FALSE]
  /\ local' = [local EXCEPT ![w] = Zero]
  /\ Goto(w, IF taken + 1 \in Unreadable THEN "idle" ELSE "read")
  /\ UNCHANGED <<pos, global, shown, stdout_mutex, bit, loaded, drawing>>

\* job_queue_pop failed: no file is left.
Quit(w) ==
  /\ at[w] = "idle" /\ taken = Len(Files)
  /\ Goto(w, "exit")
  /\ UNCHANGED <<taken, pos, global, shown, stdout_mutex, file, eof, local, bit, loaded, drawing>>

\* fread delivers a byte and update_histogram counts its bits.
ReadByte(w) ==
  LET f == file[w]
      i == pos[f] + 1
  IN
  /\ at[w] = "read" /\ i <= Len(Files[f])
  /\ pos' = [pos EXCEPT ![f] = i]
  /\ local' = [local EXCEPT ![w] =
                 [b \in Bits |-> @[b] + (IF b \in Files[f][i] THEN 1 ELSE 0)]]
  /\ Goto(w, IF i % Period = 0 THEN "lock" ELSE "read")
  /\ UNCHANGED <<taken, global, shown, stdout_mutex, file, eof, bit, loaded, drawing>>

\* fread delivers nothing: the last merge.
ReadEof(w) ==
  /\ at[w] = "read" /\ pos[file[w]] = Len(Files[file[w]])
  /\ eof' = [eof EXCEPT ![w] = TRUE]
  /\ Goto(w, "lock")
  /\ UNCHANGED <<taken, pos, global, shown, stdout_mutex, file, local, bit, loaded, drawing>>

\* A worker that does not take stdout_mutex.
LockNothing(w) ==
  /\ at[w] = "lock"
  /\ bit' = [bit EXCEPT ![w] = 0]
  /\ Goto(w, "load")
  /\ UNCHANGED <<taken, pos, global, shown, stdout_mutex, file, eof, local, loaded, drawing>>

Lock(w) ==
  /\ at[w] = "lock" /\ stdout_mutex = None
  /\ stdout_mutex' = w
  /\ bit' = [bit EXCEPT ![w] = 0]
  /\ Goto(w, "load")
  /\ UNCHANGED <<taken, pos, global, shown, file, eof, local, loaded, drawing>>

-----------------------------------------------------------------------------
(* merge_histogram: to[i] += from[i] loads and stores the shared counter.  *)

MergeLoad(w) ==
  /\ at[w] = "load"
  /\ loaded' = [loaded EXCEPT ![w] = global[bit[w]]]
  /\ Goto(w, "add")
  /\ UNCHANGED <<taken, pos, global, shown, stdout_mutex, file, eof, local, bit, drawing>>

\* A merge that leaves from[i] as it was.
MergeAddNoReset(w) ==
  /\ at[w] = "add"
  /\ global' = [global EXCEPT ![bit[w]] = loaded[w] + local[w][bit[w]]]
  /\ IF bit[w] = NumBits - 1
     THEN Goto(w, "draw") /\ UNCHANGED bit
     ELSE Goto(w, "load") /\ bit' = [bit EXCEPT ![w] = @ + 1]
  /\ UNCHANGED <<taken, pos, shown, stdout_mutex, file, eof, local, loaded, drawing>>

MergeAdd(w) ==
  /\ at[w] = "add"
  /\ global' = [global EXCEPT ![bit[w]] = loaded[w] + local[w][bit[w]]]
  /\ local' = [local EXCEPT ![w][bit[w]] = 0]
  /\ IF bit[w] = NumBits - 1
     THEN Goto(w, "draw") /\ UNCHANGED bit
     ELSE Goto(w, "load") /\ bit' = [bit EXCEPT ![w] = @ + 1]
  /\ UNCHANGED <<taken, pos, shown, stdout_mutex, file, eof, loaded, drawing>>

-----------------------------------------------------------------------------
(* print_histogram: read the counters, then draw them, then unlock.        *)

\* A worker that unlocks between the merge and the drawing.
PrintReadUnlocking(w) ==
  /\ at[w] = "draw"
  /\ drawing' = [drawing EXCEPT ![w] = global]
  /\ stdout_mutex' = None
  /\ Goto(w, "show")
  /\ UNCHANGED <<taken, pos, global, shown, file, eof, local, bit, loaded>>

PrintRead(w) ==
  /\ at[w] = "draw"
  /\ drawing' = [drawing EXCEPT ![w] = global]
  /\ Goto(w, "show")
  /\ UNCHANGED <<taken, pos, global, shown, stdout_mutex, file, eof, local, bit, loaded>>

\* A worker that does not unlock after the last merge of a file.
PrintShowNoUnlock(w) ==
  /\ at[w] = "show"
  /\ shown' = drawing[w]
  /\ stdout_mutex' = IF eof[w] THEN w ELSE None
  /\ Goto(w, IF eof[w] THEN "idle" ELSE "read")
  /\ UNCHANGED <<taken, pos, global, file, eof, local, bit, loaded, drawing>>

PrintShow(w) ==
  /\ at[w] = "show"
  /\ shown' = drawing[w]
  /\ stdout_mutex' = None
  /\ Goto(w, IF eof[w] THEN "idle" ELSE "read")
  /\ UNCHANGED <<taken, pos, global, file, eof, local, bit, loaded, drawing>>

Worker(w) ==
  \/ TakeFile(w) \/ Quit(w)
  \/ ReadByte(w) \/ ReadEof(w)
  \/ Lock(w) \/ MergeLoad(w) \/ MergeAdd(w)
  \/ PrintRead(w) \/ PrintShow(w)

Next == \E w \in Workers : Worker(w)

\* The process runs as long as one of its threads can.
Spec == Init /\ [][Next]_vars /\ WF_vars(Next)

-----------------------------------------------------------------------------
(* Properties.                                                             *)

\* Where bit b is one among the first n[f] bytes of the files f of fs.
Ones(b, fs, n) == UNION {{f} \X {k \in 1 .. n[f] : b \in Files[f][k]} : f \in fs}

\* The bits b that workers have counted and not yet merged, as numbered tokens.
Held(b) == UNION {{w} \X (1 .. local[w][b]) : w \in Workers}

\* No bit is lost and none is counted twice: what the workers hold and what
\* has been merged is, at every moment, what has been read.  Two workers that
\* merge at the same time would lose one of their sums (histogram.h:55).
BitsConserved ==
  \A b \in Bits : global[b] + Cardinality(Held(b)) = Cardinality(Ones(b, FileIds, pos))

\* The screen is never left behind: whenever nobody holds stdout_mutex it
\* shows the global histogram, so an older picture is never drawn over a
\* newer one.
ScreenCurrent == stdout_mutex = None => shown = global

\* What fhistogram.c, the program with one thread, shows in the end: the bits
\* of all the files that it can open.
FhistogramShows ==
  [b \in Bits |-> Cardinality(Ones(b, FileIds \ Unreadable, [f \in FileIds |-> Len(Files[f])]))]

\* The program ends with the picture that the program with one thread draws
\* last: every readable file counted, in whatever order the workers merged.
EndsWithTotal == <>((\A w \in Workers : at[w] = "exit") /\ shown = FhistogramShows)
=============================================================================
