------------------------------- MODULE Words -------------------------------
(***************************************************************************)
(* The bit vectors, gates, adder and ALU of the x64 subset simulator       *)
(* (Assembly/wires.c, arithmetic.c, alu.c).                                *)
(*                                                                         *)
(* A val of 64 bits is the set of the positions of its one bits, so the    *)
(* model has the real width, a gate is a set operator, and zero is {}.     *)
(***************************************************************************)
EXTENDS Integers

Bits == 0..63
Word == SUBSET Bits

(***************************************************************************)
(* wires.c                                                                 *)
(***************************************************************************)
\* Bits lsb .. lsb+sz-1 of v, moved down to position 0.
pick_bits(lsb, sz, v) == {i \in 0..(sz - 1) : i + lsb \in v}

pick_one(position, v) == position \in v

\* Even and odd bits, each packed into the low half of a word, and back.
unzip(v) == [hi |-> {i \in 0..31 : 2 * i + 1 \in v},
             lo |-> {i \in 0..31 : 2 * i \in v}]

zip(h) == {i \in Bits : IF i % 2 = 1 THEN i \div 2 \in h.hi
                                     ELSE i \div 2 \in h.lo}

(***************************************************************************)
(* The gates of arithmetic.c                                               *)
(***************************************************************************)
use_if(control, v) == IF control THEN v ELSE {}
and(a, b) == a \cap b
or(a, b)  == a \cup b
xor(a, b) == (a \ b) \cup (b \ a)
neg(num_bits, a) == 0..(num_bits - 1) \ a
reduce_or(a) == a # {}
same_sign(a, b) == pick_one(63, a) = pick_one(63, b)

(***************************************************************************)
(* The carry-lookahead adder.  A pg says of each group of bits whether it  *)
(* propagates and whether it generates a carry; gen_pg joins neighbouring  *)
(* groups, gen_c derives the carries into groups of half the size.         *)
(***************************************************************************)
gen_pg(prev) ==
  LET p == unzip(prev.p)
      g == unzip(prev.g)
  IN [p |-> and(p.lo, p.hi), g |-> or(g.hi, and(g.lo, p.hi))]

\* Mutant: the carry into the high group skips what the low group generates.
CarryOnlyPassedOn(prev, c_in) ==
  LET p == unzip(prev.p)
  IN zip([lo |-> c_in, hi |-> and(c_in, p.lo)])

gen_c(prev, c_in) ==
  LET p == unzip(prev.p)
      g == unzip(prev.g)
  IN zip([lo |-> c_in, hi |-> or(and(c_in, p.lo), g.lo)])

\* The carry into every bit position of val_a + val_b + carry_in.
Carries(val_a, val_b, carry_in) ==
  LET pg_1  == [p |-> or(val_a, val_b), g |-> and(val_a, val_b)]
      pg_2  == gen_pg(pg_1)
      pg_4  == gen_pg(pg_2)
      pg_8  == gen_pg(pg_4)
      pg_16 == gen_pg(pg_8)
      pg_32 == gen_pg(pg_16)
      c_32 == gen_c(pg_32, use_if(carry_in, {0}))
      c_16 == gen_c(pg_16, c_32)
      c_8  == gen_c(pg_8, c_16)
      c_4  == gen_c(pg_4, c_8)
      c_2  == gen_c(pg_2, c_4)
  IN gen_c(pg_1, c_2)

\* What is made of the operands and the carries into their bits.
sum_bits(val_a, val_b, c_1) ==
  [result |-> xor(xor(val_a, val_b), c_1),
   of |-> pick_one(63, c_1) # pick_one(62, c_1)]

generic_adder(val_a, val_b, carry_in) ==
  sum_bits(val_a, val_b, Carries(val_a, val_b, carry_in))

add(a, b) == generic_adder(a, b, FALSE).result

(***************************************************************************)
(* alu.c.  Opcodes and conditions are four-bit values: SUB = 1 = {0}, ...  *)
(***************************************************************************)
ADD == {}
SUB == {0}
AND == {1}
XOR == {0, 1}
CMP == {2}

ALWAYS == {}
LE == {0}
LT == {1}
EQ == {0, 1}
NE == {2}
GE == {0, 2}
GT == {1, 2}

eval_condition(cc, op) ==
  \/ op = ALWAYS
  \/ op = LE /\ (cc.sf # cc.of \/ cc.zf)
  \/ op = LT /\ cc.sf # cc.of
  \/ op = EQ /\ cc.zf
  \/ op = NE /\ ~cc.zf
  \/ op = GE /\ cc.sf = cc.of
  \/ op = GT /\ cc.sf = cc.of /\ ~cc.zf

\* The result and the flags, given the output of the adder.
alu_output(op, op_a, op_b, sum) ==
  LET is_sub == op \in {SUB, CMP}
      is_add == op = ADD
      res == or(use_if(is_add \/ is_sub, sum.result),
             or(use_if(op = AND, and(op_a, op_b)),
                use_if(op = XOR, xor(op_a, op_b))))
  IN [result |-> res,
      cc |-> [sf |-> pick_one(63, res), zf |-> ~reduce_or(res),
              of |-> (is_sub \/ is_add) /\ sum.of]]

\* The operand order of subtraction is op_b - op_a, done as op_b + ~op_a + 1.
alu_execute(op, op_a, op_b) ==
  LET is_sub == op \in {SUB, CMP}
  IN alu_output(op, op_a, op_b,
                generic_adder(op_b, IF is_sub THEN neg(64, op_a) ELSE op_a, is_sub))
=============================================================================
