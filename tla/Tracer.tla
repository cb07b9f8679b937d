------------------------------- MODULE Tracer -------------------------------
(***************************************************************************)
(* The trace validator of the simulator (Assembly/support.c): every write  *)
(* the machine reports must be found among the next four entries of a      *)
(* reference trace.  A tracer is the record of struct trace_reader, with   *)
(* the entries left in the file in place of the FILE*, and error holding   *)
(* the message the process exits with ("none" while it runs).              *)
(***************************************************************************)
EXTENDS Integers, Sequences, SequencesExt, FiniteSets

Depth == 4   \* Trace_Entry entries[4]

create_trace_reader(lines) ==
  [file |-> lines, input_failed |-> FALSE, entries |-> <<>>, error |-> "none"]

\* The loop that reads until the buffer is full or the file has no entry left.
Fill(t) ==
  LET room == IF t.input_failed THEN 0 ELSE Depth - Len(t.entries)
      got == IF Len(t.file) < room THEN Len(t.file) ELSE room
  IN [t EXCEPT !.entries = @ \o SubSeq(t.file, 1, got),
               !.file = SubSeq(@, got + 1, Len(@)),
               !.input_failed = @ \/ got < room]

\* Mutant: stale entries are not looked for.
MatchOnly(t0, magic, instruction_number, addr, value) ==
  LET t == Fill(t0)
      e == t.entries
      hit == {i \in DOMAIN e : e[i] = [counter |-> instruction_number, type |-> magic,
                                       destination |-> addr, value |-> value]}
  IN IF hit = {} THEN [t EXCEPT !.error = "no matching write"]
     ELSE LET m == CHOOSE i \in hit : \A j \in hit : i <= j
          IN [t EXCEPT !.entries = RemoveAt(e, m)]

\* Mutant: the value written is not compared.
MatchPlaceOnly(t0, magic, instruction_number, addr, value) ==
  LET t == Fill(t0)
      e == t.entries
      stale == {i \in DOMAIN e : e[i].counter < instruction_number}
      hit == {i \in DOMAIN e : /\ e[i].counter = instruction_number
                               /\ e[i].type = magic /\ e[i].destination = addr}
      first == {i \in stale \cup hit : \A j \in stale \cup hit : i <= j}
  IN IF first = {} THEN [t EXCEPT !.error = "no matching write"]
     ELSE IF first \subseteq stale THEN [t EXCEPT !.error = "missed write"]
     ELSE LET m == CHOOSE i \in first : TRUE
          IN [t EXCEPT !.entries = RemoveAt(e, m)]

\* One write is looked up.  The first entry that is stale or matches decides.
validate_magic(t0, magic, instruction_number, addr, value) ==
  LET t == Fill(t0)
      e == t.entries
      stale == {i \in DOMAIN e : e[i].counter < instruction_number}
      hit == {i \in DOMAIN e : e[i] = [counter |-> instruction_number, type |-> magic,
                                       destination |-> addr, value |-> value]}
      first == {i \in stale \cup hit : \A j \in stale \cup hit : i <= j}
  IN IF first = {} THEN [t EXCEPT !.error = "no matching write"]
     ELSE IF first \subseteq stale THEN [t EXCEPT !.error = "missed write"]
     ELSE LET m == CHOOSE i \in first : TRUE
          IN [t EXCEPT !.entries = RemoveAt(e, m)]
=============================================================================
