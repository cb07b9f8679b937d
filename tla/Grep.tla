-------------------------------- MODULE Grep --------------------------------
(***************************************************************************)
(* fauxgrep.c, the search with one thread: it visits what fts_read yields, *)
(* one entry after the other, and prints the lines that hold the needle.   *)
(* A line is TRUE when strstr finds the needle in it.  What is printed is  *)
(* the entry (for its path) and the number of the line.                    *)
(***************************************************************************)
EXTENDS Naturals, Sequences

CONSTANT Entries        \* what fts_read yields, in its order

VARIABLES visited,      \* how many entries the walk has finished
          lineno,       \* the line that getline reads next, 0 between files
          out           \* the lines printed: pairs of an entry and a number

vars == <<visited, lineno, out>>

Init == visited = 0 /\ lineno = 0 /\ out = <<>>

\* Only regular files are searched; opens says whether fopen succeeds.
Searches(e) == e.info = "FTS_F" /\ e.opens

\* A directory, or a file that fopen cannot open.
Skip ==
  /\ lineno = 0 /\ visited < Len(Entries)
  /\ ~Searches(Entries[visited + 1])
  /\ visited' = visited + 1
  /\ UNCHANGED <<lineno, out>>

Open ==
  /\ lineno = 0 /\ visited < Len(Entries)
  /\ Searches(Entries[visited + 1])
  /\ lineno' = 1
  /\ UNCHANGED <<visited, out>>

\* getline delivers a line, which is printed if it holds the needle.
Line ==
  LET lines == Entries[visited + 1].lines
  IN
  /\ lineno > 0 /\ lineno <= Len(lines)
  /\ lineno' = lineno + 1
  /\ out' = IF lines[lineno] THEN Append(out, <<visited + 1, lineno>>) ELSE out
  /\ UNCHANGED visited

\* getline returns -1.
Close ==
  /\ lineno > 0 /\ lineno > Len(Entries[visited + 1].lines)
  /\ visited' = visited + 1
  /\ lineno' = 0
  /\ UNCHANGED out

Next == Skip \/ Open \/ Line \/ Close

Spec == Init /\ [][Next]_vars /\ WF_vars(Next)
=============================================================================
