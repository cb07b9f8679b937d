----------------------------- MODULE MCMachine -----------------------------
(***************************************************************************)
(* Instances of Machine.  The images are the repository's own test         *)
(* programs (Assembly/testfiles) and all short programs over a table of    *)
(* instructions; the registers start with values around the sign bit.      *)
(***************************************************************************)
EXTENDS Machine

BitsOf(n) == {i \in 0..20 : (n \div 2^i) % 2 = 1}

\* The first six cells, for the code, and the stack below 0x100.
CellNumbers == 0..5 \cup {240, 248, 256}
MCCells == {BitsOf(n) : n \in CellNumbers}

Image(bytes) ==
  LET byte(k) == IF k < Len(bytes) THEN bytes[k + 1] ELSE 0
      cell(n) == {i \in Bits : i % 8 \in BitsOf(byte(8 * n + i \div 8))}
      content(n) == IF n < 6 THEN cell(n) ELSE {}
  IN [a \in MCCells |-> content(CHOOSE n \in CellNumbers : BitsOf(n) = a)]

\* Test programs: push.x64, MtoR.x64, ccmove.x64, nops.x64, Add.x64.
PushImage == Image(<<48,4,0,1,0,0, 48,14,25,0,0,0, 160,224, 160,224, 32,15>>)
LoadImage == Image(<<80,239,8,0,0,0, 0>>)
CMoveImage == Image(<<48,14,3,0,0,0, 48,10,4,0,0,0, 35,234, 96,174>>)
NopsImage == Image(<<16,16,16,0>>)
AddImage == Image(<<48,15,2,0,0,0, 48,14,2,0,0,0, 97,239>>)

\* One of each instruction; a flag setter and every condition.
Others == { <<16>>, <<192>>, <<48,4,0,1,0,0>>, <<64,84,240,0,0,0>>, <<80,84,0,0,0,0>>,
            <<64,69,0,0,0,0>>, <<128,9,0,0,0>>, <<144>>, <<160,80>>, <<176,80>>,
            <<160,64>>, <<176,64>> }
Stackers == {<<128,9,0,0,0>>, <<144>>, <<160,80>>, <<176,80>>}
Setters == {<<96 + k, 86>> : k \in 0..5}
Testers == {<<32 + k, 103>> : k \in 0..7} \cup {<<112 + k, 10,0,0,0>> : k \in 0..7}

Tests == {PushImage, LoadImage, CMoveImage, NopsImage, AddImage}
MCImages == Tests \cup {Image(a \o b) : a \in Setters, b \in Testers}
                  \cup {Image(a \o b) : a \in Others, b \in Others}
                  \cup {Image(a \o b \o c) : a \in Others, b \in Others, c \in Stackers}

\* Registers 5 and 6 are the operands of the setters, 4 is %rsp.
RegFile(r4, r5, r6) ==
  [r \in Regs |-> CASE r = BitsOf(4) -> r4
                    [] r = BitsOf(5) -> r5
                    [] r = BitsOf(6) -> r6
                    [] OTHER -> {}]
MCRegFiles == { RegFile({}, {}, {}),
                RegFile(BitsOf(248), {63}, 0..62),
                RegFile(BitsOf(256), {62}, {62}),
                RegFile(BitsOf(5), BitsOf(6), BitsOf(5)) }

MCGarbage == {{}, Bits}

\* An arithmetic instruction and a jump that depends on it, with no trace.
SignedImages == {Image(a \o b) : a \in Setters, b \in Testers}
NoTraces(image, registers) == {}

(***************************************************************************)
(* The trace files of the test programs, and each with a line missing, a   *)
(* value wrong, or two lines of one instruction exchanged.                 *)
(***************************************************************************)
Line(n, ty, dest, v) == [counter |-> n, type |-> ty, destination |-> BitsOf(dest), value |-> BitsOf(v)]

PushLines == << Line(1,0,4,256), Line(1,2,0,6), Line(2,0,14,25), Line(2,2,0,12),
                Line(3,0,4,248), Line(3,1,248,25), Line(3,2,0,14),
                Line(4,0,4,240), Line(4,1,240,25), Line(4,2,0,16),
                Line(5,0,15,0), Line(5,2,0,18) >>
LoadLines == << Line(1,0,14,0), Line(1,2,0,6) >>
CMoveLines == << Line(1,0,14,3), Line(1,2,0,6), Line(2,0,10,4), Line(2,2,0,12),
                 Line(3,2,0,14), Line(4,0,14,7), Line(4,2,0,16) >>
NopsLines == << Line(1,2,0,1), Line(2,2,0,2), Line(3,2,0,3) >>
AddLines == << Line(1,0,15,2), Line(1,2,0,6), Line(2,0,14,2), Line(2,2,0,12),
               Line(3,0,15,0), Line(3,2,0,14) >>

LinesOf(image) == CASE image = PushImage -> PushLines
                    [] image = LoadImage -> LoadLines
                    [] image = CMoveImage -> CMoveLines
                    [] image = NopsImage -> NopsLines
                    [] image = AddImage -> AddLines

Without(s, i) == SubSeq(s, 1, i - 1) \o SubSeq(s, i + 1, Len(s))
Wrong(s, i) == [s EXCEPT ![i].value = xor(@, {0})]
Exchanged(s, i) == [s EXCEPT ![i] = s[i + 1], ![i + 1] = s[i]]

MCTraces(image, registers) ==
  IF image \notin Tests THEN {}
  ELSE LET s == LinesOf(image)
       IN {s} \cup {Without(s, i) : i \in DOMAIN s} \cup {Wrong(s, i) : i \in DOMAIN s}
              \cup {Exchanged(s, i) : i \in {k \in 1..(Len(s) - 1) : s[k].counter = s[k + 1].counter}}
=============================================================================
