------------------------------ MODULE FileType ------------------------------
(***************************************************************************)
(* The file classifier (ASCII_text_generator/file.c).  For each argument   *)
(* it reads the file several times through one FILE*, byte by byte: empty, *)
(* ASCII, UTF-8, ISO-8859, UTF-16, and prints a line with the first type   *)
(* that fits.  The tests share the stream position, and buffers on the     *)
(* stack that start with garbage and keep their old byte at end of file.   *)
(*                                                                         *)
(* A byte is the class the macros of lines 1-6 put it in.                  *)
(***************************************************************************)
EXTENDS Integers, Sequences, FiniteSets

CONSTANTS Commands,      \* the argument lists: sequences of [length, content]
          Missing,       \* the content of an argument that cannot be opened
          IntLimit,      \* 2^31: an int holds -IntLimit .. IntLimit - 1
          StackGarbage   \* what max_length can hold before its first assignment

(***************************************************************************)
(* ctl: below 0x80 but not text; lowC: 80-9F; highC: A0-BF; lead2/3/4:     *)
(* C0-DF, E0-EF, F0-F7; high: F8-FD; FE and FF, the byte order mark.       *)
(***************************************************************************)
Byte == {"ctl", "text", "lowC", "highC", "lead2", "lead3", "lead4", "high", "FE", "FF"}

ASCII(b) == b = "text"
UTF8_CONT(b) == b \in {"lowC", "highC"}
AtLeastA0(b) == b \in Byte \ {"ctl", "text", "lowC"}

\* The continuation bytes a lead byte asks for (UTF8_4B, UTF8_3B, UTF8_2B).
Leads == {"lead2", "lead3", "lead4"}
Continuations(b) == CASE b = "lead2" -> 1 [] b = "lead3" -> 2 [] b = "lead4" -> 3

Types == {"data", "empty", "ASCII", "ISO8859", "UTF8", "UTF16L", "UTF16B"}

ASSUME FileTypeAssumption ==
  /\ IntLimit \in Nat \ {0}
  /\ Missing \notin Seq(Byte)
  /\ Commands \subseteq Seq([length : Nat, content : Seq(Byte) \cup {Missing}])
  /\ StackGarbage \subseteq Int

VARIABLES argv,        \* the arguments: length of the path, content of the file
          i,           \* the argument the loop of main is at
          test,        \* what determine_file_type is doing
          pos,         \* bytes of the file before the stream position
          buffer,      \* the byte in buffer[0] of the running test
          due,         \* continuation bytes the UTF-8 test still expects
          max_length,
          wraps,       \* what size - 1 does below the smallest int in this build
          printed      \* the lines of the output: type and its column

vars == <<argv, i, test, pos, buffer, due, max_length, wraps, printed>>
inputs == <<argv, wraps>>

Content == argv[i].content
AtEnd == pos = Len(Content)

\* fread(buffer, 1, 1, fp): at end of file the byte read last stays.
Byte_read == IF AtEnd THEN buffer ELSE Content[pos + 1]
After_read == IF AtEnd THEN pos ELSE pos + 1

\* int size = ftell(fp): the long that ftell returns is cut to an int.
AsInt(n) == ((n + IntLimit) % (2 * IntLimit)) - IntLimit
Size == AsInt(Len(Content))

\* i <= size - 1, after pos turns.  With the smallest size the subtraction is
\* undefined: a build that wraps around loops forever, one that compares i
\* with size does not loop.
InTurns == pos < Size \/ (Size = -IntLimit /\ wraps)

Init ==
  /\ argv \in Commands
  /\ i = 1
  /\ test = "measure"
  /\ pos = 0
  /\ buffer = "text"   \* of no account: every test reads a byte first
  /\ due = 0
  /\ max_length \in StackGarbage
  /\ wraps \in BOOLEAN
  /\ printed = <<>>

\* Mutant: the length of the last path, not of the longest.
LastLength ==
  /\ test = "measure"
  /\ max_length' = IF argv = <<>> THEN max_length ELSE argv[Len(argv)].length
  /\ test' = "open"
  /\ UNCHANGED <<inputs, i, pos, buffer, due, printed>>

\* The longest path, over a variable that was never initialised.
determine_max_length ==
  /\ test = "measure"
  /\ max_length' \in {m \in {max_length} \cup {argv[k].length : k \in DOMAIN argv} :
                        m >= max_length /\ \A k \in DOMAIN argv : m >= argv[k].length}
  /\ test' = "open"
  /\ UNCHANGED <<inputs, i, pos, buffer, due, printed>>

(***************************************************************************)
(* One output line, path:padding type, and on to the next argument.  The   *)
(* padding is a minimum width: printf ignores a width below zero here only *)
(* because the string it pads is empty, and pads on the right instead.     *)
(***************************************************************************)
Pad(width) == IF width >= 0 THEN width ELSE -width

Report(type) ==
  /\ printed' = Append(printed, [type |-> type,
                   column |-> argv[i].length + 1 + Pad(max_length - argv[i].length + 1)])
  /\ i' = i + 1
  /\ test' = "open"
  /\ pos' = 0

\* Mutant: main returns at the first file that cannot be opened.
StopAtMissing ==
  /\ test = "open"
  /\ test' = IF i > Len(argv) \/ Content = Missing THEN "done" ELSE "empty"
  /\ UNCHANGED <<inputs, i, pos, buffer, due, max_length, printed>>

\* fopen, with an error line when it fails; main returns after the last one.
OpenNext ==
  /\ test = "open"
  /\ IF i > Len(argv) THEN test' = "done" /\ UNCHANGED <<i, pos, printed>>
     ELSE IF Content = Missing THEN Report("ERROR")
     ELSE test' = "empty" /\ UNCHANGED <<i, pos, printed>>
  /\ UNCHANGED <<inputs, buffer, due, max_length>>

\* Mutant: the ISO-8859 test starts where the UTF-8 test stopped.
GoOnWithoutRewind(t, left) ==
  /\ test' = t
  /\ pos' = IF t = "ASCII" THEN 0 ELSE left
  /\ UNCHANGED <<i, printed>>

\* On to test t, with the stream left at position left.  The ASCII and ISO
\* tests seek to the end for the size and rewind before they read.
GoOn(t, left) ==
  /\ test' = t
  /\ pos' = IF t \in {"ASCII", "ISO8859"} THEN 0 ELSE left
  /\ UNCHANGED <<i, printed>>

determine_if_empty ==
  /\ test = "empty"
  /\ IF Size = 0 THEN Report("empty") ELSE GoOn("ASCII", 0)
  /\ UNCHANGED <<inputs, buffer, due, max_length>>

\* One turn of the loop of the ASCII test.
determine_if_ASCII ==
  /\ test = "ASCII"
  /\ IF ~InTurns THEN Report("ASCII") /\ UNCHANGED buffer
     ELSE /\ buffer' = Byte_read
          /\ IF ASCII(buffer') THEN pos' = After_read /\ UNCHANGED <<i, test, printed>>
                               ELSE GoOn("UTF8", 0)
  /\ UNCHANGED <<inputs, due, max_length>>

\* The loop of the UTF-8 test, outside a sequence.
determine_if_UTF8 ==
  /\ test = "UTF8"
  /\ due = 0
  /\ IF AtEnd THEN Report("UTF8") /\ UNCHANGED <<buffer, due>>
     ELSE /\ buffer' = Byte_read
          /\ IF ASCII(buffer') \/ buffer' \in Leads
             THEN /\ pos' = After_read
                  /\ due' = IF ASCII(buffer') THEN 0 ELSE Continuations(buffer')
                  /\ UNCHANGED <<i, test, printed>>
             ELSE GoOn("ISO8859", 0) /\ UNCHANGED due
  /\ UNCHANGED <<inputs, max_length>>

\* Mutant: one continuation byte too many is counted.
CountOneMore ==
  /\ test = "UTF8"
  /\ due >= 0 /\ buffer \in Leads \cup {"lowC", "highC"}
  /\ buffer' = Byte_read
  /\ IF UTF8_CONT(buffer')
     THEN pos' = After_read /\ due' = due - 1 /\ UNCHANGED <<i, test, printed>>
     ELSE GoOn("ISO8859", After_read) /\ due' = 0
  /\ UNCHANGED <<inputs, max_length>>

\* Inside a sequence fread is not checked: at end of file the byte read last
\* is looked at again.  A missing continuation returns without rewinding.
UTF8_continuation ==
  /\ test = "UTF8"
  /\ due > 0
  /\ buffer' = Byte_read
  /\ IF UTF8_CONT(buffer')
     THEN pos' = After_read /\ due' = due - 1 /\ UNCHANGED <<i, test, printed>>
     ELSE GoOn("ISO8859", After_read) /\ due' = 0
  /\ UNCHANGED <<inputs, max_length>>

\* One turn of the loop of the ISO-8859 test.
determine_if_ISO ==
  /\ test = "ISO8859"
  /\ IF ~InTurns THEN Report("ISO8859") /\ UNCHANGED buffer
     ELSE /\ buffer' = Byte_read
          /\ IF ASCII(buffer') \/ AtLeastA0(buffer')
             THEN pos' = After_read /\ UNCHANGED <<i, test, printed>>
             ELSE GoOn("UTF16L", 0)
  /\ UNCHANGED <<inputs, due, max_length>>

\* The byte order mark, from the current position.  A byte the file does not
\* have is whatever the stack holds.
Marked(first, second) ==
  LET at(k) == IF pos + k < Len(Content) THEN {Content[pos + k + 1]} ELSE Byte
      both == at(0) \X at(1)
  IN {m = <<first, second>> : m \in both}

determine_if_Little_UTF16 ==
  /\ test = "UTF16L"
  /\ \E marked \in Marked("FF", "FE") :
       IF marked THEN Report("UTF16L") ELSE GoOn("UTF16B", 0)
  /\ UNCHANGED <<inputs, buffer, due, max_length>>

determine_if_Big_UTF16 ==
  /\ test = "UTF16B"
  /\ \E marked \in Marked("FE", "FF") :
       Report(IF marked THEN "UTF16B" ELSE "data")
  /\ UNCHANGED <<inputs, buffer, due, max_length>>

Next ==
  \/ determine_max_length
  \/ OpenNext
  \/ determine_if_empty
  \/ determine_if_ASCII
  \/ determine_if_UTF8
  \/ UTF8_continuation
  \/ determine_if_ISO
  \/ determine_if_Little_UTF16
  \/ determine_if_Big_UTF16

\* One thread that never blocks: it keeps taking steps.
Spec == Init /\ [][Next]_vars /\ WF_vars(Next)

(***************************************************************************)
(* Properties                                                              *)
(***************************************************************************)
TypeOK ==
  /\ i \in 1..(Len(argv) + 1)
  /\ test \in {"measure", "open", "empty", "ASCII", "UTF8", "ISO8859", "UTF16L", "UTF16B", "done"}
  /\ pos \in Nat
  /\ buffer \in Byte
  /\ due \in 0..3
  /\ max_length \in Int
  /\ printed \in Seq([type : Types \cup {"ERROR"}, column : Nat])

(***************************************************************************)
(* The types as sets of files, with no reading order and no buffers.  A    *)
(* UTF-8 text is made of characters of the right length.  A text cut short *)
(* lacks some, not all, of the continuation bytes of its last character.   *)
(***************************************************************************)
AllText(f) == \A k \in DOMAIN f : ASCII(f[k])

\* The number of continuation bytes between position k and the next other byte.
Run(f, k) == Cardinality({m \in (k + 1)..Len(f) : \A n \in (k + 1)..m : UTF8_CONT(f[n])})

\* The byte at k is a continuation byte or starts a whole character.
Whole(f, k) ==
  \/ UTF8_CONT(f[k])
  \/ ASCII(f[k]) /\ Run(f, k) = 0
  \/ f[k] \in Leads /\ Run(f, k) = Continuations(f[k])

IsUTF8(f) == ~UTF8_CONT(f[1]) /\ \A k \in DOMAIN f : Whole(f, k)

CutShort(f) ==
  \E last \in DOMAIN f :
    /\ f[last] \in Leads
    /\ last + Run(f, last) = Len(f) /\ Run(f, last) \in 1..(Continuations(f[last]) - 1)
    /\ ~UTF8_CONT(f[1]) /\ \A k \in 1..(last - 1) : Whole(f, k)

IsISO(f) == \A k \in DOMAIN f : ASCII(f[k]) \/ AtLeastA0(f[k])

Classify(f) ==
  CASE f = Missing -> "ERROR"
    [] f = <<>> -> "empty"
    [] f # <<>> /\ f # Missing ->
         IF AllText(f) THEN "ASCII"
         ELSE IF IsUTF8(f) THEN "UTF8"
         ELSE IF IsISO(f) THEN "ISO8859"
         ELSE IF Len(f) > 1 /\ f[1] = "FF" /\ f[2] = "FE" THEN "UTF16L"
         ELSE IF Len(f) > 1 /\ f[1] = "FE" /\ f[2] = "FF" THEN "UTF16B"
         ELSE "data"

\* Does the size fit an int?
Fits(f) == f = Missing \/ Len(f) < IntLimit

\* What the program says of f: a text that is cut short counts as UTF-8.
Verdict(f) == IF f # Missing /\ CutShort(f) THEN "UTF8" ELSE Classify(f)

\* Every line names the type of its own file, whatever the buffers held and
\* wherever the tests before left the stream (file.c:96-121): the byte order
\* mark is never read from garbage, no test starts in the middle of the file.
\* Two kinds of files are excepted.  Of one whose size does not fit an int
\* nothing is said.  One that is cut short is called UTF-8, because the bytes
\* that are missing are not asked for: see UTF8Whole.
VerdictRight ==
  \A k \in DOMAIN printed :
    Fits(argv[k].content) => printed[k].type = Verdict(argv[k].content)

\* file.c:218: "Checks the next 3 bytes if the begin with 10xxxxxx.", and so
\* for 2 (line 231) and 1 (line 244): what is called UTF-8 has all of them.
\* fread is not checked, and a byte the file does not have is taken to be the
\* one before it.
UTF8Whole ==
  \A k \in DOMAIN printed : printed[k].type = "UTF8" => IsUTF8(argv[k].content)

\* The types stand in one column, although max_length starts with garbage
\* (file.c:86).
Aligned == \A k, m \in DOMAIN printed : printed[k].column = printed[m].column

\* Every argument gets its line and the program ends; the UTF-8 loop, which
\* has no bound of its own, included (file.c:211).  A build that wraps around
\* may loop forever on a file with the smallest size.
Endless ==
  wraps /\ \E k \in DOMAIN argv :
    argv[k].content # Missing /\ AsInt(Len(argv[k].content)) = -IntLimit

EveryFileReported == ~Endless => <>(test = "done" /\ Len(printed) = Len(argv))
=============================================================================
