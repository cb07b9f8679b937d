------------------------------ MODULE Addition ------------------------------
(***************************************************************************)
(* Textbook addition of 64-bit words, against which the lookahead adder of *)
(* Words is checked and proved.                                            *)
(***************************************************************************)
EXTENDS Words

(***************************************************************************)
(* Addition as taught: there is a carry into bit i when one was generated  *)
(* below it, or came in at the bottom, and every bit between passed it on. *)
(***************************************************************************)
Chain(a, b, c0) ==
  LET passed(from, i) == from..(i - 1) \subseteq (a \cup b)
  IN {i \in Bits : \/ c0 /\ passed(0, i)
                  \/ \E j \in a \cap b : j < i /\ passed(j + 1, i)}

Sum(a, b, c0) == xor(xor(a, b), Chain(a, b, c0))
Plus(a, b) == Sum(a, b, FALSE)
Minus(a, b) == Sum(a, Bits \ b, TRUE)

\* Do the carries into the two top bits differ?
TopCarriesDiffer(a, b, c0) == (63 \in Chain(a, b, c0)) # (62 \in Chain(a, b, c0))

\* A signed sum that does not fit: the sign test of arithmetic.c:60.
SignTest(a, b, c0) == same_sign(a, b) /\ ~same_sign(Sum(a, b, c0), a)
PlusOf(a, b) == SignTest(a, b, FALSE)
MinusOf(a, b) == SignTest(a, Bits \ b, TRUE)
=============================================================================
