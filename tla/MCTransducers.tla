---------------------------- MODULE MCTransducers ----------------------------
(* The networks of the repository's programs, and variants of them, on     *)
(* small inputs.                                                           *)
EXTENDS Transducers

Call(fn, ins, outs, arg) == [fn |-> fn, in |-> ins, out |-> outs, arg |-> arg]
FreeAll(n) == [s \in 1 .. n |-> Call("free", <<s>>, <<>>, <<>>)]

MCStreams == 1 .. 9

\* divisible.c: main.
Divisible ==
  << Call("source", <<>>, <<1>>, <<6, 4, 3>>),
     Call("dup", <<1>>, <<2, 3>>, <<>>),
     Call("dup", <<2>>, <<4, 5>>, <<>>),
     Call("divisible_by", <<3>>, <<6>>, <<2>>),
     Call("divisible_by", <<4>>, <<7>>, <<3>>),
     Call("and_streams", <<6, 7>>, <<8>>, <<>>),
     Call("filter_streams", <<8, 5>>, <<9>>, <<>>),
     Call("sink", <<9>>, <<>>, <<>>) >> \o FreeAll(9)

\* test2.c: transducers that ignore their input, and every call is made a
\* second time and refused.
Refusals ==
  << Call("source", <<>>, <<1>>, <<7>>),
     Call("source", <<1>>, <<2>>, <<7>>),
     Call("source", <<1>>, <<2>>, <<7>>),
     Call("dup", <<2>>, <<3, 4>>, <<>>),
     Call("dup", <<2>>, <<3, 4>>, <<>>),
     Call("source", <<3, 4>>, <<5>>, <<7, 8>>),
     Call("source", <<3, 4>>, <<5>>, <<7, 8>>),
     Call("sink", <<5>>, <<>>, <<>>),
     Call("sink", <<5>>, <<>>, <<>>) >> \o FreeAll(5)

\* test3.c: two sources, one of which is read to its end before the other.
TwoSources ==
  << Call("source", <<>>, <<1>>, <<1, 2, 3, 4, 5, 6>>),
     Call("source", <<>>, <<2>>, <<255, 1, 255, 1, 2, 3>>),
     Call("function", <<1, 2>>, <<3>>, <<1>>),
     Call("sink", <<3>>, <<>>, <<>>) >> \o FreeAll(3)

\* test5.c: the two copies of one stream, one read to its end before the
\* other.  The input is short enough for the pipe of the copy that waits.
TwoCopies ==
  << Call("source", <<>>, <<1>>, <<1, 254>>),
     Call("function_single", <<1>>, <<2>>, <<1>>),
     Call("dup", <<2>>, <<3, 4>>, <<>>),
     Call("function", <<3, 4>>, <<5>>, <<1>>),
     Call("sink", <<5>>, <<>>, <<>>) >> \o FreeAll(5)

\* A sink that stops early leaves writers behind.  One of them is writing a
\* copy that is never used, which free_stream does not close.
EarlySink ==
  << Call("source", <<>>, <<1>>, <<1, 2, 3, 4, 5, 6, 7>>),
     Call("function_single", <<1>>, <<2>>, <<1>>),
     Call("dup", <<2>>, <<3, 4>>, <<>>),
     Call("head", <<3>>, <<>>, <<1>>) >> \o FreeAll(4)

MCPrograms == {Divisible, Refusals, TwoSources, TwoCopies, EarlySink}
=============================================================================
