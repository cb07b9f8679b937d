----------------------------- MODULE MCFileType -----------------------------
(***************************************************************************)
(* Every file of up to MaxFile bytes on its own, and argument lists of     *)
(* two and three files with paths of different lengths, one missing, one   *)
(* too long for an int.                                                    *)
(***************************************************************************)
EXTENDS FileType

CONSTANTS NoFile, MaxFile

Arg(n, f) == [length |-> n, content |-> f]

Single == {<<Arg(2, f)>> : f \in UNION {[1..n -> Byte] : n \in 0..MaxFile}}

Repeat(n, b) == [k \in 1..n |-> b]

\* With an IntLimit of 8 the sizes are -8, -8, -7, 0 and 2; the first file that
\* is not text has its other byte at the end, the last one after two bytes.
Long == {Repeat(8, "text"), Repeat(7, "text") \o <<"high">>, Repeat(9, "ctl"),
         Repeat(16, "text"), Repeat(2, "text") \o Repeat(16, "FE")}

Some == {NoFile, <<>>, <<"text">>, <<"lead3", "lowC">>, <<"FF", "FE", "ctl">>,
         <<"lead4", "lowC", "highC", "lowC", "text">>}

MCCommands == Single \cup {<<Arg(2, f), Arg(1, g)>> : f \in Long, g \in Some}
                     \cup {<<Arg(1, f), Arg(4, g)>> : f \in Some, g \in Some}
                     \cup {<<Arg(3, f), Arg(5, g), Arg(1, f)>> : f \in Some, g \in Some}
MCStackGarbage == {-7, 9}
=============================================================================
