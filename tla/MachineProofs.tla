---------------------------- MODULE MachineProofs ----------------------------
(***************************************************************************)
(* The datapath of main.c implements the instruction set, for every image, *)
(* register file and trace, and no write of the reference is forgotten.    *)
(***************************************************************************)
EXTENDS Machine, Addition, SequenceTheorems, TLAPS

-----------------------------------------------------------------------------
(***************************************************************************)
(* The six levels of lookahead of generic_adder compute textbook addition, *)
(* for all words.  No induction over the bits is needed: what a level says *)
(* of a group has a closed form over the bits of the group, and each level *)
(* is the one below it, two groups at a time.                              *)
(***************************************************************************)
\* Every bit from lo up to but not including hi passes a carry on.
Passes(P, lo, hi) == \A m \in lo..(hi - 1) : m \in P

\* A carry generated somewhere in lo .. hi-1 leaves the group at hi.
Generates(P, G, lo, hi) == \E m \in lo..(hi - 1) : m \in G /\ Passes(P, m + 1, hi)

\* A carry comes into bit i.
CarryInto(P, G, c0, i) == Generates(P, G, 0, i) \/ (c0 /\ Passes(P, 0, i))

\* A group of bits is its two halves (the comment on gen_pg, arithmetic.c:18).
LEMMA PassesSplit ==
  ASSUME NEW P, NEW lo \in Int, NEW mid \in Int, NEW hi \in Int, lo <= mid, mid <= hi
  PROVE  Passes(P, lo, hi) <=> Passes(P, lo, mid) /\ Passes(P, mid, hi)
BY DEF Passes

LEMMA GeneratesSplit ==
  ASSUME NEW P, NEW G, NEW lo \in Int, NEW mid \in Int, NEW hi \in Int, lo <= mid, mid <= hi
  PROVE  Generates(P, G, lo, hi) <=>
           Generates(P, G, mid, hi) \/ (Generates(P, G, lo, mid) /\ Passes(P, mid, hi))
<1>1. ASSUME Generates(P, G, lo, hi)
      PROVE  Generates(P, G, mid, hi) \/ (Generates(P, G, lo, mid) /\ Passes(P, mid, hi))
  <2>1. PICK m \in lo..(hi - 1) : m \in G /\ Passes(P, m + 1, hi)
    BY <1>1 DEF Generates
  <2>2. CASE m >= mid
    BY <2>1, <2>2 DEF Generates
  <2>3. CASE m < mid
    <3>1. Passes(P, m + 1, mid) /\ Passes(P, mid, hi)
      BY <2>1, <2>3, PassesSplit
    <3> QED BY <2>1, <2>3, <3>1 DEF Generates
  <2> QED BY <2>2, <2>3
<1>2. ASSUME Generates(P, G, mid, hi)
      PROVE  Generates(P, G, lo, hi)
  BY <1>2 DEF Generates
<1>3. ASSUME Generates(P, G, lo, mid), Passes(P, mid, hi)
      PROVE  Generates(P, G, lo, hi)
  <2>1. PICK m \in lo..(mid - 1) : m \in G /\ Passes(P, m + 1, mid)
    BY <1>3 DEF Generates
  <2>2. Passes(P, m + 1, hi)
    BY <1>3, <2>1, PassesSplit
  <2> QED BY <2>1, <2>2 DEF Generates
<1> QED BY <1>1, <1>2, <1>3

\* The carry into a bit from the carry into any bit below it.
LEMMA CarrySplit ==
  ASSUME NEW P, NEW G, NEW c0 \in BOOLEAN, NEW mid \in Nat, NEW hi \in Nat, mid <= hi
  PROVE  CarryInto(P, G, c0, hi) <=>
           Generates(P, G, mid, hi) \/ (CarryInto(P, G, c0, mid) /\ Passes(P, mid, hi))
<1>1. Passes(P, 0, hi) <=> Passes(P, 0, mid) /\ Passes(P, mid, hi)
  BY PassesSplit
<1>2. Generates(P, G, 0, hi) <=>
        Generates(P, G, mid, hi) \/ (Generates(P, G, 0, mid) /\ Passes(P, mid, hi))
  BY GeneratesSplit
<1> QED BY <1>1, <1>2 DEF CarryInto

-----------------------------------------------------------------------------
\* A pg that is right about the groups of size s, and carries into those groups.
RightPG(P, G, s, pg) ==
  \A j \in Bits : s * j + s <= 64 =>
    /\ j \in pg.p <=> Passes(P, s * j, s * j + s)
    /\ j \in pg.g <=> Generates(P, G, s * j, s * j + s)

RightC(P, G, c0, s, c) ==
  \A j \in Bits : s * j + s <= 64 => (j \in c <=> CarryInto(P, G, c0, s * j))

\* The bits of gen_pg, without the packing.
LEMMA GenPGBits ==
  ASSUME NEW pg, NEW j \in 0..31
  PROVE  /\ j \in gen_pg(pg).p <=> 2 * j \in pg.p /\ 2 * j + 1 \in pg.p
         /\ j \in gen_pg(pg).g <=>
              2 * j + 1 \in pg.g \/ (2 * j \in pg.g /\ 2 * j + 1 \in pg.p)
BY DEF gen_pg, unzip, and, or

\* gen_pg goes from groups of size s to groups of size 2s.
LEMMA GenPG ==
  ASSUME NEW P, NEW G, NEW s \in {1, 2, 4, 8, 16}, NEW pg, RightPG(P, G, s, pg)
  PROVE  RightPG(P, G, 2 * s, gen_pg(pg))
<1> SUFFICES ASSUME NEW j \in 0..31, 2 * s * j + 2 * s <= 64
             PROVE  /\ j \in gen_pg(pg).p <=> Passes(P, 2 * s * j, 2 * s * j + 2 * s)
                    /\ j \in gen_pg(pg).g <=> Generates(P, G, 2 * s * j, 2 * s * j + 2 * s)
  BY DEF RightPG, Bits
<1> DEFINE lo == 2 * s * j  mid == lo + s  hi == lo + 2 * s
<1>1. /\ 2 * j \in Bits /\ 2 * j + 1 \in Bits
      /\ s * (2 * j) = lo /\ s * (2 * j) + s = mid /\ mid <= 64
      /\ s * (2 * j + 1) = mid /\ s * (2 * j + 1) + s = hi /\ hi <= 64
      /\ lo \in Int /\ mid \in Int /\ hi \in Int /\ lo <= mid /\ mid <= hi
  BY DEF Bits
<1>2. /\ 2 * j \in pg.p <=> Passes(P, lo, mid)
      /\ 2 * j \in pg.g <=> Generates(P, G, lo, mid)
      /\ 2 * j + 1 \in pg.p <=> Passes(P, mid, hi)
      /\ 2 * j + 1 \in pg.g <=> Generates(P, G, mid, hi)
  BY <1>1 DEF RightPG
<1>3. /\ j \in gen_pg(pg).p <=> 2 * j \in pg.p /\ 2 * j + 1 \in pg.p
      /\ j \in gen_pg(pg).g <=> 2 * j + 1 \in pg.g \/ (2 * j \in pg.g /\ 2 * j + 1 \in pg.p)
  BY GenPGBits
<1> HIDE DEF lo, mid, hi
<1>4. /\ Passes(P, lo, hi) <=> Passes(P, lo, mid) /\ Passes(P, mid, hi)
      /\ Generates(P, G, lo, hi) <=>
           Generates(P, G, mid, hi) \/ (Generates(P, G, lo, mid) /\ Passes(P, mid, hi))
  BY <1>1, PassesSplit, GeneratesSplit
<1>5. /\ j \in gen_pg(pg).p <=> Passes(P, lo, hi)
      /\ j \in gen_pg(pg).g <=> Generates(P, G, lo, hi)
  BY <1>2, <1>3, <1>4
<1> QED BY <1>5 DEF lo, hi

\* gen_c goes from the carries into groups of size 2s to those of size s.
LEMMA GenC ==
  ASSUME NEW P, NEW G, NEW c0 \in BOOLEAN, NEW s \in {1, 2, 4, 8, 16, 32}, NEW pg, NEW c,
         RightPG(P, G, s, pg), RightC(P, G, c0, 2 * s, c)
  PROVE  RightC(P, G, c0, s, gen_c(pg, c))
<1> SUFFICES ASSUME NEW i \in Bits, s * i + s <= 64
             PROVE  i \in gen_c(pg, c) <=> CarryInto(P, G, c0, s * i)
  BY DEF RightC
<1>1. PICK j \in 0..31 : i = 2 * j \/ i = 2 * j + 1
  <2>1. i \div 2 \in 0..31 /\ (i = 2 * (i \div 2) \/ i = 2 * (i \div 2) + 1)
    BY DEF Bits
  <2> QED BY <2>1
<1>2. 2 * j \in 0..63 /\ j \in 0..63
  OBVIOUS
<1>3. CASE i = 2 * j
  <2>1. i % 2 = 0 /\ i \div 2 = j
    BY <1>3
  <2>2. i \in gen_c(pg, c) <=> j \in c
    BY <2>1 DEF gen_c, unzip, zip, or, and
  <2>3. 2 * s * j + 2 * s <= 64 /\ 2 * s * j = s * i
    BY <1>3 DEF Bits
  <2> QED BY <2>2, <2>3, <1>2 DEF RightC, Bits
<1>4. CASE i = 2 * j + 1
  <2>1. i % 2 = 1 /\ i \div 2 = j
    BY <1>4
  <2>2. i \in gen_c(pg, c) <=> (j \in c /\ 2 * j \in pg.p) \/ 2 * j \in pg.g
    BY <2>1 DEF gen_c, unzip, zip, or, and, Bits
  <2> DEFINE lo == 2 * s * j  mid == s * i
  <2>3. /\ lo + 2 * s <= 64
        /\ s * (2 * j) = lo /\ s * (2 * j) + s = mid /\ mid <= 64
        /\ lo \in Nat /\ mid \in Nat /\ lo <= mid
    BY <1>4 DEF Bits
  <2>4. j \in c <=> CarryInto(P, G, c0, lo)
    BY <2>3, <1>2 DEF RightC, Bits
  <2>5. /\ 2 * j \in pg.p <=> Passes(P, lo, mid)
        /\ 2 * j \in pg.g <=> Generates(P, G, lo, mid)
    BY <1>2, <2>3 DEF RightPG, Bits
  <2> HIDE DEF lo, mid
  <2>6. CarryInto(P, G, c0, mid) <=>
          Generates(P, G, lo, mid) \/ (CarryInto(P, G, c0, lo) /\ Passes(P, lo, mid))
    BY <2>3, CarrySplit
  <2>7. i \in gen_c(pg, c) <=> CarryInto(P, G, c0, mid)
    BY <2>2, <2>4, <2>5, <2>6
  <2> QED BY <2>7 DEF mid
<1> QED BY <1>1, <1>3, <1>4

-----------------------------------------------------------------------------
\* The carries of textbook addition, in the terms of this module.
LEMMA ChainIsCarry ==
  ASSUME NEW a \in Word, NEW b \in Word, NEW c0 \in BOOLEAN, NEW i \in Bits
  PROVE  i \in Chain(a, b, c0) <=> CarryInto(a \cup b, a \cap b, c0, i)
<1> DEFINE P == a \cup b  G == a \cap b
<1>1. i \in Chain(a, b, c0) <=>
        (c0 /\ 0..(i - 1) \subseteq P) \/ \E j \in G : j < i /\ (j + 1)..(i - 1) \subseteq P
  BY DEF Chain
<1>2. 0..(i - 1) \subseteq P <=> Passes(P, 0, i)
  BY DEF Passes
<1>3. \A j \in G : (j + 1)..(i - 1) \subseteq P <=> Passes(P, j + 1, i)
  BY DEF Passes
<1>4. \A j \in G : j < i <=> j \in 0..(i - 1)
  BY DEF Word, Bits
<1> HIDE DEF P, G
<1>5. CarryInto(P, G, c0, i) <=>
        (c0 /\ Passes(P, 0, i)) \/ \E j \in G : j \in 0..(i - 1) /\ Passes(P, j + 1, i)
  BY DEF CarryInto, Generates
<1>6. i \in Chain(a, b, c0) <=> CarryInto(P, G, c0, i)
  BY <1>1, <1>2, <1>3, <1>4, <1>5
<1> QED BY <1>6 DEF P, G

\* The carries that the lookahead computes are those of textbook addition.
THEOREM CarriesAreChain ==
  ASSUME NEW a \in Word, NEW b \in Word, NEW c0 \in BOOLEAN
  PROVE  Carries(a, b, c0) = Chain(a, b, c0)
<1> DEFINE P == a \cup b  G == a \cap b
           pg_1 == [p |-> or(a, b), g |-> and(a, b)]
           pg_2 == gen_pg(pg_1)   pg_4 == gen_pg(pg_2)    pg_8 == gen_pg(pg_4)
           pg_16 == gen_pg(pg_8)  pg_32 == gen_pg(pg_16)
           c_64 == use_if(c0, {0})
           c_32 == gen_c(pg_32, c_64)  c_16 == gen_c(pg_16, c_32)  c_8 == gen_c(pg_8, c_16)
           c_4 == gen_c(pg_4, c_8)     c_2 == gen_c(pg_2, c_4)     c_1 == gen_c(pg_1, c_2)
<1>1. Carries(a, b, c0) = c_1
  BY DEF Carries
<1>2. RightPG(P, G, 1, pg_1)
  BY DEF RightPG, Passes, Generates, Bits, or, and
<1>3. RightC(P, G, c0, 64, c_64)
  BY DEF RightC, CarryInto, Passes, Generates, Bits, use_if
<1> HIDE DEF pg_1, c_64, P, G
<1>4. RightPG(P, G, 2, pg_2)
  BY <1>2, GenPG
<1> HIDE DEF pg_2
<1>5. RightPG(P, G, 4, pg_4)
  BY <1>4, GenPG
<1> HIDE DEF pg_4
<1>6. RightPG(P, G, 8, pg_8)
  BY <1>5, GenPG
<1> HIDE DEF pg_8
<1>7. RightPG(P, G, 16, pg_16)
  BY <1>6, GenPG
<1> HIDE DEF pg_16
<1>8. RightPG(P, G, 32, pg_32)
  BY <1>7, GenPG
<1> HIDE DEF pg_32
<1>9. RightC(P, G, c0, 32, c_32)
  BY <1>3, <1>8, GenC
<1> HIDE DEF c_32
<1>10. RightC(P, G, c0, 16, c_16)
  BY <1>7, <1>9, GenC
<1> HIDE DEF c_16
<1>11. RightC(P, G, c0, 8, c_8)
  BY <1>6, <1>10, GenC
<1> HIDE DEF c_8
<1>12. RightC(P, G, c0, 4, c_4)
  BY <1>5, <1>11, GenC
<1> HIDE DEF c_4
<1>13. RightC(P, G, c0, 2, c_2)
  BY <1>4, <1>12, GenC
<1> HIDE DEF c_2
<1>14. RightC(P, G, c0, 1, c_1)
  BY <1>2, <1>13, GenC
<1>15. c_1 \subseteq Bits
  BY DEF gen_c, zip
<1> HIDE DEF c_1
<1>16. \A i \in Bits : i \in c_1 <=> CarryInto(P, G, c0, i)
  BY <1>14 DEF RightC, Bits
<1>17. \A i \in Bits : CarryInto(P, G, c0, i) <=> i \in Chain(a, b, c0)
  BY ChainIsCarry DEF P, G
<1>18. Chain(a, b, c0) \subseteq Bits
  BY DEF Chain
<1> QED BY <1>1, <1>15, <1>16, <1>17, <1>18

\* generic_adder (arithmetic.c:36) adds, whatever the words and the carry in.
THEOREM AdderAdds ==
  ASSUME NEW a \in Word, NEW b \in Word, NEW c0 \in BOOLEAN
  PROVE  /\ generic_adder(a, b, c0).result = Sum(a, b, c0)
         /\ Sum(a, b, c0) \in Word
<1>1. generic_adder(a, b, c0).result = xor(xor(a, b), Carries(a, b, c0))
  BY DEF generic_adder, sum_bits
<1>2. Chain(a, b, c0) \in Word
  BY DEF Chain, Word
<1> QED BY <1>1, <1>2, CarriesAreChain DEF Sum, xor, Word

\* The overflow output of the adder looks at the carries into the top two bits.
LEMMA AdderOverflow ==
  ASSUME NEW a \in Word, NEW b \in Word, NEW c0 \in BOOLEAN
  PROVE  generic_adder(a, b, c0).of = TopCarriesDiffer(a, b, c0)
BY CarriesAreChain DEF generic_adder, sum_bits, pick_one, TopCarriesDiffer

\* The textbook carries are a ripple: the carry in comes into bit 0, and a bit
\* passes one on when two of its three inputs are one.
THEOREM ChainRipples ==
  ASSUME NEW a \in Word, NEW b \in Word, NEW c0 \in BOOLEAN
  PROVE  /\ 0 \in Chain(a, b, c0) <=> c0
         /\ \A i \in 0..62 : i + 1 \in Chain(a, b, c0) <=>
              \/ i \in a /\ i \in b
              \/ (i \in a \/ i \in b) /\ i \in Chain(a, b, c0)
<1> DEFINE P == a \cup b  G == a \cap b
<1>1. \A i \in Bits : i \in Chain(a, b, c0) <=> CarryInto(P, G, c0, i)
  BY ChainIsCarry
<1>2. CarryInto(P, G, c0, 0) <=> c0
  BY DEF CarryInto, Generates, Passes
<1>3. ASSUME NEW i \in 0..62
      PROVE  CarryInto(P, G, c0, i + 1) <=> i \in G \/ (CarryInto(P, G, c0, i) /\ i \in P)
  <2>1. Generates(P, G, i, i + 1) <=> i \in G
    BY DEF Generates, Passes
  <2>2. Passes(P, i, i + 1) <=> i \in P
    BY DEF Passes
  <2>3. i \in Nat /\ i + 1 \in Nat /\ i <= i + 1
    OBVIOUS
  <2> HIDE DEF P, G
  <2> QED BY <2>1, <2>2, <2>3, CarrySplit
<1> QED BY <1>1, <1>2, <1>3 DEF Bits

-----------------------------------------------------------------------------
(***************************************************************************)
(* Words stay words.                                                       *)
(***************************************************************************)
LEMMA PickIsWord ==
  ASSUME NEW v, NEW lsb \in Nat, NEW sz \in 0..64
  PROVE  pick_bits(lsb, sz, v) \in Word
BY DEF pick_bits, Word, Bits

LEMMA GateIsWord ==
  ASSUME NEW a \in Word, NEW b \in Word, NEW c \in BOOLEAN
  PROVE  /\ use_if(c, a) \in Word
         /\ or(a, b) \in Word
         /\ and(a, b) \in Word
         /\ xor(a, b) \in Word
         /\ neg(64, a) \in Word
BY DEF use_if, or, and, xor, neg, Word, Bits

LEMMA AddIsWord ==
  ASSUME NEW a \in Word, NEW b \in Word
  PROVE  add(a, b) \in Word /\ add(a, b) = Plus(a, b)
BY AdderAdds DEF add, Plus

\* What the ALU returns for each operation that the decoder selects.
LEMMA AluResult ==
  ASSUME NEW op \in {ADD, SUB, AND, XOR, CMP}, NEW a \in Word, NEW b \in Word
  PROVE  LET q == alu_execute(op, a, b)
         IN /\ op \in {SUB, CMP} => q.result = Minus(b, a)
            /\ op = ADD => q.result = Plus(b, a)
            /\ op = AND => q.result = b \cap a
            /\ op = XOR => q.result = xor(b, a)
            /\ q.result \in Word
            /\ q.cc.sf = (63 \in q.result)
            /\ q.cc.zf = (q.result = {})
<1> DEFINE q == alu_execute(op, a, b)
           is_sub == op \in {SUB, CMP}
           is_add == op = ADD
           sum == generic_adder(b, IF is_sub THEN neg(64, a) ELSE a, is_sub)
<1>0. q.result = or(use_if(is_add \/ is_sub, sum.result),
                 or(use_if(op = AND, and(a, b)), use_if(op = XOR, xor(a, b))))
  BY DEF alu_execute, alu_output
<1>1. q.cc.sf = (63 \in q.result) /\ q.cc.zf = (q.result = {})
  BY DEF alu_execute, alu_output, pick_one, reduce_or
<1>3. neg(64, a) = Bits \ a /\ Bits \ a \in Word
  BY DEF neg, Bits, Word
<1>4. /\ is_sub => sum.result = Minus(b, a) /\ Minus(b, a) \in Word
      /\ ~is_sub => sum.result = Plus(b, a) /\ Plus(b, a) \in Word
  <2>1. ASSUME is_sub PROVE sum = generic_adder(b, Bits \ a, TRUE)
    BY <2>1, <1>3
  <2>2. ASSUME ~is_sub PROVE sum = generic_adder(b, a, FALSE)
    <3>1. is_sub = FALSE
      BY <2>2
    <3> HIDE DEF is_sub
    <3> QED BY <3>1
  <2>3. generic_adder(b, Bits \ a, TRUE).result = Minus(b, a) /\ Minus(b, a) \in Word
    BY <1>3, AdderAdds DEF Minus
  <2>4. generic_adder(b, a, FALSE).result = Plus(b, a) /\ Plus(b, a) \in Word
    BY AdderAdds DEF Plus
  <2> QED BY <2>1, <2>2, <2>3, <2>4
<1> HIDE DEF sum, q
<1>5. CASE is_sub
  <2>1. op \in {SUB, CMP} /\ ~is_add /\ op # AND /\ op # XOR
    BY <1>5 DEF ADD, SUB, AND, XOR, CMP
  <2>2. q.result = sum.result
    BY <1>0, <1>5, <2>1 DEF or, use_if
  <2> QED BY <1>1, <1>4, <1>5, <2>1, <2>2 DEF q
<1>6. CASE op = ADD
  <2>1. ~is_sub /\ op # AND /\ op # XOR
    BY <1>6 DEF ADD, SUB, AND, XOR, CMP
  <2>2. q.result = sum.result
    BY <1>0, <1>6, <2>1 DEF or, use_if
  <2> QED BY <1>1, <1>4, <1>6, <2>1, <2>2 DEF q
<1>7. CASE op = AND
  <2>1. ~is_sub /\ ~is_add /\ op # XOR
    BY <1>7 DEF ADD, SUB, AND, XOR, CMP
  <2>2. q.result = b \cap a /\ b \cap a \in Word
    BY <1>0, <1>7, <2>1 DEF or, use_if, and, Word
  <2> QED BY <1>1, <1>7, <2>1, <2>2 DEF q
<1>8. CASE op = XOR
  <2>1. ~is_sub /\ ~is_add /\ op # AND
    BY <1>8 DEF ADD, SUB, AND, XOR, CMP
  <2>2. q.result = xor(b, a) /\ xor(b, a) \in Word
    BY <1>0, <1>8, <2>1 DEF or, use_if, xor, Word
  <2> QED BY <1>1, <1>8, <2>1, <2>2 DEF q
<1> QED BY <1>5, <1>6, <1>7, <1>8

\* The overflow flag of each operation.
LEMMA AluOverflow ==
  ASSUME NEW op \in {ADD, SUB, AND, XOR, CMP}, NEW a \in Word, NEW b \in Word
  PROVE  LET q == alu_execute(op, a, b)
         IN /\ op \in {SUB, CMP} => q.cc.of = TopCarriesDiffer(b, Bits \ a, TRUE)
            /\ op = ADD => q.cc.of = TopCarriesDiffer(b, a, FALSE)
            /\ op \in {AND, XOR} => q.cc.of = FALSE
<1> DEFINE q == alu_execute(op, a, b)
           is_sub == op \in {SUB, CMP}
           sum == generic_adder(b, IF is_sub THEN neg(64, a) ELSE a, is_sub)
<1>1. q.cc.of = ((is_sub \/ op = ADD) /\ sum.of)
  BY DEF alu_execute, alu_output
<1>2. neg(64, a) = Bits \ a /\ Bits \ a \in Word
  BY DEF neg, Bits, Word
<1>3. /\ generic_adder(b, Bits \ a, TRUE).of = TopCarriesDiffer(b, Bits \ a, TRUE)
      /\ generic_adder(b, a, FALSE).of = TopCarriesDiffer(b, a, FALSE)
      /\ TopCarriesDiffer(b, Bits \ a, TRUE) \in BOOLEAN /\ TopCarriesDiffer(b, a, FALSE) \in BOOLEAN
  BY <1>2, AdderOverflow DEF TopCarriesDiffer
<1>4. \A p \in BOOLEAN : (TRUE /\ p) = p
  OBVIOUS
<1>5. ASSUME op \in {SUB, CMP} PROVE q.cc.of = TopCarriesDiffer(b, Bits \ a, TRUE)
  <2>1. is_sub = TRUE
    BY <1>5
  <2>2. sum = generic_adder(b, Bits \ a, TRUE)
    BY <1>2, <2>1
  <2> HIDE DEF is_sub, sum, q
  <2> QED BY <1>1, <1>3, <1>4, <2>1, <2>2
<1>6. ASSUME op = ADD PROVE q.cc.of = TopCarriesDiffer(b, a, FALSE)
  <2>1. is_sub = FALSE
    BY <1>6 DEF ADD, SUB, CMP
  <2> HIDE DEF is_sub
  <2>2. sum = generic_adder(b, a, FALSE)
    BY <2>1
  <2> HIDE DEF sum, q
  <2> QED BY <1>1, <1>3, <1>4, <1>6, <2>1, <2>2
<1>7. ASSUME op \in {AND, XOR} PROVE q.cc.of = FALSE
  <2>1. ~is_sub /\ op # ADD
    BY <1>7 DEF ADD, SUB, AND, XOR, CMP
  <2> HIDE DEF is_sub, sum, q
  <2> QED BY <1>1, <2>1
<1> QED BY <1>5, <1>6, <1>7

-----------------------------------------------------------------------------
(***************************************************************************)
(* Decode: the control signals follow the opcode, and the fields are those *)
(* of the instruction set.                                                 *)
(***************************************************************************)
Opcodes == {HLT, MOV_RtoR, MOV_ItoR, MOV_RtoM, MOV_MtoR, ARITHMETIC, JCC, CALL, RET, PUSH, POP}

LEMMA OpcodesDiffer ==
  /\ HLT \notin {MOV_RtoR, MOV_ItoR, MOV_RtoM, MOV_MtoR, ARITHMETIC, JCC, CALL, RET, PUSH, POP}
  /\ MOV_RtoR \notin {MOV_ItoR, MOV_RtoM, MOV_MtoR, ARITHMETIC, JCC, CALL, RET, PUSH, POP}
  /\ MOV_ItoR \notin {MOV_RtoM, MOV_MtoR, ARITHMETIC, JCC, CALL, RET, PUSH, POP}
  /\ MOV_RtoM \notin {MOV_MtoR, ARITHMETIC, JCC, CALL, RET, PUSH, POP}
  /\ MOV_MtoR \notin {ARITHMETIC, JCC, CALL, RET, PUSH, POP}
  /\ ARITHMETIC \notin {JCC, CALL, RET, PUSH, POP}
  /\ JCC \notin {CALL, RET, PUSH, POP}
  /\ CALL \notin {RET, PUSH, POP}
  /\ RET \notin {PUSH, POP}
  /\ PUSH # POP
BY DEF HLT, MOV_RtoR, MOV_ItoR, MOV_RtoM, MOV_MtoR, ARITHMETIC, JCC, CALL, RET, PUSH, POP

LEMMA GateLaws ==
  /\ \A v : use_if(TRUE, v) = v /\ use_if(FALSE, v) = {}
  /\ \A v : or({}, v) = v /\ or(v, {}) = v
BY DEF use_if, or

LEMMA Fields ==
  ASSUME NEW w
  PROVE  LET d == Decode(w) IN
         /\ d.minor_op = ISA!Minor(w) /\ d.minor_op \in Regs
         /\ d.reg_a = ISA!A(w) /\ d.reg_a \in Regs
         /\ d.reg_b = ISA!B(w) /\ d.reg_b \in Regs
         /\ pick_bits(4, 4, w) = ISA!Op(w)
<1>1. /\ pick_bits(0, 4, w) = ISA!Minor(w) /\ pick_bits(12, 4, w) = ISA!A(w)
      /\ pick_bits(8, 4, w) = ISA!B(w) /\ pick_bits(4, 4, w) = ISA!Op(w)
  BY DEF pick_bits, ISA!Minor, ISA!A, ISA!B, ISA!Op, ISA!Nibble
<1>2. ISA!Minor(w) \in Regs /\ ISA!A(w) \in Regs /\ ISA!B(w) \in Regs
  BY DEF ISA!Minor, ISA!A, ISA!B, ISA!Nibble, Regs
<1> QED BY <1>1, <1>2 DEF Decode

\* All the control signals of one opcode.
LEMMA Signals ==
  ASSUME NEW w
  PROVE  LET d == Decode(w)
             op == ISA!Op(w)
         IN /\ d.is_halt = (op = HLT) /\ d.is_cmov = (op = MOV_RtoR) /\ d.is_itor = (op = MOV_ItoR)
            /\ d.is_rtom = (op = MOV_RtoM) /\ d.is_mtor = (op = MOV_MtoR)
            /\ d.is_arit = (op = ARITHMETIC) /\ d.is_jcc = (op = JCC) /\ d.is_call = (op = CALL)
            /\ d.is_ret = (op = RET) /\ d.is_push = (op = PUSH) /\ d.is_pop = (op = POP)
            /\ op \in {MOV_RtoR, MOV_ItoR, MOV_RtoM, MOV_MtoR, ARITHMETIC, PUSH, POP} =>
                 d.has_regs = TRUE
            /\ op \notin {MOV_RtoR, MOV_ItoR, MOV_RtoM, MOV_MtoR, ARITHMETIC, PUSH, POP} =>
                 d.has_regs = FALSE
            /\ op \in {PUSH, POP, CALL, RET} => d.uses_rsp = TRUE
            /\ op \notin {PUSH, POP, CALL, RET} => d.uses_rsp = FALSE
            /\ d.size = CASE op \in {MOV_ItoR, MOV_RtoM, MOV_MtoR} -> {1, 2}
                          [] op \in {MOV_RtoR, ARITHMETIC, PUSH, POP} -> {1}
                          [] op \in {JCC, CALL} -> {0, 2}
                          [] OTHER -> {0}
            /\ d.imm = IF d.has_regs THEN ISA!Imm(w, 2) ELSE ISA!Imm(w, 1)
<1> DEFINE d == Decode(w)
           op == ISA!Op(w)
           has_regs == op \in {MOV_RtoR, MOV_ItoR, MOV_RtoM, MOV_MtoR, ARITHMETIC, PUSH, POP}
           has_imm == op \in {MOV_ItoR, MOV_RtoM, MOV_MtoR, JCC, CALL}
<1>1. op = pick_bits(4, 4, w)
  BY Fields
<1> HIDE DEF op
<1>2. /\ d.is_halt = (op = HLT) /\ d.is_cmov = (op = MOV_RtoR) /\ d.is_itor = (op = MOV_ItoR)
      /\ d.is_rtom = (op = MOV_RtoM) /\ d.is_mtor = (op = MOV_MtoR)
      /\ d.is_arit = (op = ARITHMETIC) /\ d.is_jcc = (op = JCC) /\ d.is_call = (op = CALL)
      /\ d.is_ret = (op = RET) /\ d.is_push = (op = PUSH) /\ d.is_pop = (op = POP)
  BY <1>1 DEF Decode
<1>3. d.has_regs = has_regs
  BY <1>1 DEF Decode
<1>4. d.uses_rsp = (op \in {PUSH, POP, CALL, RET})
  BY <1>1 DEF Decode
<1>5. d.size = or(use_if(has_regs /\ has_imm, {1, 2}),
               or(use_if(has_regs /\ ~has_imm, {1}),
               or(use_if(~has_regs /\ ~has_imm, {0}),
                  use_if(~has_regs /\ has_imm, {0, 2}))))
  BY <1>1 DEF Decode
<1>6. d.imm = or(use_if(~has_regs, pick_bits(8, 32, w)), use_if(has_regs, pick_bits(16, 32, w)))
  BY <1>1 DEF Decode
<1>7. pick_bits(8, 32, w) = ISA!Imm(w, 1) /\ pick_bits(16, 32, w) = ISA!Imm(w, 2)
  BY DEF pick_bits, ISA!Imm
<1>8. d.imm = IF d.has_regs THEN ISA!Imm(w, 2) ELSE ISA!Imm(w, 1)
  BY <1>3, <1>6, <1>7 DEF use_if, or
<1>9. d.size = CASE op \in {MOV_ItoR, MOV_RtoM, MOV_MtoR} -> {1, 2}
                [] op \in {MOV_RtoR, ARITHMETIC, PUSH, POP} -> {1}
                [] op \in {JCC, CALL} -> {0, 2}
                [] OTHER -> {0}
  <2>1. CASE has_regs /\ has_imm
    <3>1. d.size = {1, 2}
      BY <2>1, <1>5 DEF use_if, or
    <3> QED BY <2>1, <3>1, OpcodesDiffer
  <2>2. CASE has_regs /\ ~has_imm
    <3>1. d.size = {1}
      BY <2>2, <1>5 DEF use_if, or
    <3> QED BY <2>2, <3>1, OpcodesDiffer
  <2>3. CASE ~has_regs /\ has_imm
    <3>1. d.size = {0, 2}
      BY <2>3, <1>5 DEF use_if, or
    <3> QED BY <2>3, <3>1, OpcodesDiffer
  <2>4. CASE ~has_regs /\ ~has_imm
    <3>1. d.size = {0}
      BY <2>4, <1>5 DEF use_if, or
    <3> QED BY <2>4, <3>1, OpcodesDiffer
  <2> QED BY <2>1, <2>2, <2>3, <2>4
<1>10. /\ has_regs => d.has_regs = TRUE
       /\ ~has_regs => d.has_regs = FALSE
       /\ op \in {PUSH, POP, CALL, RET} => d.uses_rsp = TRUE
       /\ op \notin {PUSH, POP, CALL, RET} => d.uses_rsp = FALSE
  <2> DEFINE uses_rsp == op \in {PUSH, POP, CALL, RET}
  <2>1. d.uses_rsp = uses_rsp
    BY <1>4
  <2>2. has_regs \in BOOLEAN /\ uses_rsp \in BOOLEAN
    OBVIOUS
  <2> HIDE DEF d, has_regs, uses_rsp
  <2>3. /\ has_regs => d.has_regs = TRUE
        /\ ~has_regs => d.has_regs = FALSE
    BY <1>3, <2>2
  <2>4. /\ uses_rsp => d.uses_rsp = TRUE
        /\ ~uses_rsp => d.uses_rsp = FALSE
    BY <2>1, <2>2
  <2> QED BY <2>3, <2>4 DEF uses_rsp
<1> QED BY <1>2, <1>8, <1>9, <1>10 DEF op

-----------------------------------------------------------------------------
(***************************************************************************)
(* One cycle, opcode by opcode.                                            *)
(***************************************************************************)
MachineState ==
  /\ regs \in [Regs -> Word]
  /\ mem \in [Cells -> Word]
  /\ pc \in Word
  /\ cc \in [of : BOOLEAN, sf : BOOLEAN, zf : BOOLEAN]

\* What Perform does when validation succeeds.
Effect(d, x) ==
  /\ pc' = x.next_pc
  /\ cc' = x.cc
  /\ stop' = d.is_halt
  /\ regs' = memory_write(memory_write(regs, x.target_reg, x.datapath_result, x.reg_wr_enable),
                          d.reg_a, x.mem_stack_top, d.is_pop)
  /\ mem' = memory_write(mem, x.target_mem, x.memory_result, x.mem_wr_enable)

LEMMA Constants ==
  /\ {0} \in Word /\ {1} \in Word /\ {1, 2} \in Word /\ {0, 2} \in Word /\ {3} \in Word /\ {} \in Word
  /\ REG_SP \in Regs /\ REG_SP = ISA!SP
  /\ Regs \subseteq Word
BY DEF Word, Bits, Regs, REG_SP, ISA!SP

LEMMA IsaSums ==
  /\ \A a, b : ISA!Plus(a, b) = Plus(a, b)
  /\ \A a, b : ISA!Minus(a, b) = Minus(a, b)
BY DEF ISA!Plus, ISA!Minus, Plus, Minus, ISA!Sum, Sum, ISA!Chain, Chain, ISA!xor, xor, ISA!Bits, Bits

LEMMA IsaOverflows ==
  \A a, b, c0 : ISA!TopCarriesDiffer(a, b, c0) = TopCarriesDiffer(a, b, c0)
BY DEF ISA!TopCarriesDiffer, TopCarriesDiffer, ISA!Chain, Chain, ISA!Bits, Bits

\* What the operands of an instruction are.
LEMMA Operands ==
  ASSUME MachineState, NEW w, NEW junk \in Word
  PROVE  LET d == Decode(w) IN
         /\ d.imm \in Word /\ d.size \in Word
         /\ d.has_regs => /\ op_a(d, junk) = regs[ISA!A(w)] /\ op_a(d, junk) \in Word
                         /\ op_b(d, junk) = regs[ISA!B(w)] /\ op_b(d, junk) \in Word
         /\ d.uses_rsp => rsp(d, junk) = ISA!Top /\ rsp(d, junk) \in Word
         /\ next_inst_pc(d) = ISA!Plus(pc, d.size)
<1> DEFINE d == Decode(w)
<1>1. d.imm \in Word
  <2>1. ISA!Imm(w, 1) \in Word /\ ISA!Imm(w, 2) \in Word
    BY DEF ISA!Imm, Word, Bits
  <2> QED BY <2>1, Signals
<1>2. d.size \in Word
  <2>1. d.size \in {{0}, {1}, {1, 2}, {0, 2}}
    BY Signals
  <2> QED BY <2>1, Constants
<1>3. d.reg_a = ISA!A(w) /\ d.reg_b = ISA!B(w) /\ d.reg_a \in Regs /\ d.reg_b \in Regs
  BY Fields
<1> HIDE DEF d
<1>4. DOMAIN regs = Regs /\ \A r \in Regs : regs[r] \in Word
  BY DEF MachineState
<1>5. d.has_regs => /\ op_a(d, junk) = regs[ISA!A(w)] /\ op_a(d, junk) \in Word
                   /\ op_b(d, junk) = regs[ISA!B(w)] /\ op_b(d, junk) \in Word
  BY <1>3, <1>4 DEF op_a, op_b, memory_read
<1>6. d.uses_rsp => rsp(d, junk) = ISA!Top /\ rsp(d, junk) \in Word
  BY <1>4, Constants DEF rsp, memory_read, ISA!Top
<1>7. next_inst_pc(d) = ISA!Plus(pc, d.size)
  BY <1>2, AddIsWord, IsaSums DEF next_inst_pc, MachineState
<1> QED BY <1>1, <1>2, <1>5, <1>6, <1>7 DEF d

\* The writes at the end of a cycle.
LEMMA Writes ==
  ASSUME MachineState, NEW d, NEW x, Effect(d, x)
  PROVE  /\ d.is_pop = FALSE /\ x.reg_wr_enable = TRUE /\ x.target_reg \in Regs =>
              regs' = [regs EXCEPT ![x.target_reg] = x.datapath_result]
         /\ d.is_pop = FALSE /\ x.reg_wr_enable = FALSE => regs' = regs
         /\ x.mem_wr_enable = TRUE => mem' = ISA!Store(x.target_mem, x.memory_result)
         /\ x.mem_wr_enable = FALSE => mem' = mem
<1>1. DOMAIN regs = Regs /\ DOMAIN mem = Cells
  BY DEF MachineState
<1>2. \A m, a, v : memory_write(m, a, v, FALSE) = m
  BY DEF memory_write
<1>3. \A a, v : a \in Regs => memory_write(regs, a, v, TRUE) = [regs EXCEPT ![a] = v]
  BY <1>1 DEF memory_write
<1>4. ASSUME NEW a, NEW v
      PROVE  memory_write(mem, a, v, TRUE) = ISA!Store(a, v)
  BY DEF memory_write, ISA!Store, MachineState
<1>5. ASSUME d.is_pop = FALSE
      PROVE  regs' = memory_write(regs, x.target_reg, x.datapath_result, x.reg_wr_enable)
  BY <1>2, <1>5 DEF Effect
<1>6. mem' = memory_write(mem, x.target_mem, x.memory_result, x.mem_wr_enable)
  BY DEF Effect
<1> QED BY <1>2, <1>3, <1>4, <1>5, <1>6

LEMMA SubtractEight ==
  ASSUME NEW b \in Word
  PROVE  alu_execute(SUB, {3}, b).result = Minus(b, {3}) /\ Minus(b, {3}) \in Word
<1>1. SUB \in {ADD, SUB, AND, XOR, CMP} /\ SUB \in {SUB, CMP} /\ {3} \in Word
  BY Constants
<1> DEFINE q == alu_execute(SUB, {3}, b)
<1>2. q.result = Minus(b, {3}) /\ q.result \in Word
  BY <1>1, AluResult
<1> QED BY <1>2

\* The condition codes: an unknown condition always holds.
LEMMA IsaCodes ==
  /\ ISA!ADD = ADD /\ ISA!SUB = SUB /\ ISA!AND = AND /\ ISA!XOR = XOR /\ ISA!CMP = CMP
  /\ ISA!LE = LE /\ ISA!LT = LT /\ ISA!EQ = EQ /\ ISA!NE = NE /\ ISA!GE = GE /\ ISA!GT = GT
  /\ \A a, b : ISA!xor(a, b) = xor(a, b)
BY DEF ISA!ADD, ISA!SUB, ISA!AND, ISA!XOR, ISA!CMP, ISA!LE, ISA!LT, ISA!EQ, ISA!NE, ISA!GE, ISA!GT,
       ADD, SUB, AND, XOR, CMP, LE, LT, EQ, NE, GE, GT, ISA!xor, xor

LEMMA Conditions ==
  ASSUME MachineState, NEW w
  PROVE  LET d == Decode(w) IN
         /\ d.is_cmov \/ d.is_jcc => condition_holds(d) = ISA!Holds(ISA!Minor(w))
         /\ ISA!Holds(ISA!Minor(w)) \in BOOLEAN
<1> DEFINE d == Decode(w)
           minor == ISA!Minor(w)
           known == {ALWAYS, LE, LT, EQ, NE, GE, GT}
<1>1. d.minor_op = minor
  BY Fields
<1> HIDE DEF d, minor
<1>2. /\ ALWAYS \notin {LE, LT, EQ, NE, GE, GT} /\ LE \notin {LT, EQ, NE, GE, GT}
      /\ LT \notin {EQ, NE, GE, GT} /\ EQ \notin {NE, GE, GT} /\ NE \notin {GE, GT} /\ GE # GT
  BY DEF ALWAYS, LE, LT, EQ, NE, GE, GT
<1>3. cc.sf \in BOOLEAN /\ cc.of \in BOOLEAN /\ cc.zf \in BOOLEAN
  BY DEF MachineState
<1>4. ISA!Holds(minor) \in BOOLEAN
  BY <1>3 DEF ISA!Holds
<1>5. ASSUME d.is_cmov \/ d.is_jcc
      PROVE  condition_holds(d) = eval_condition(cc, IF minor \in known THEN minor ELSE ALWAYS)
  BY <1>1, <1>5 DEF condition_holds, Selected, use_if, ALWAYS
<1>6. eval_condition(cc, IF minor \in known THEN minor ELSE ALWAYS) = ISA!Holds(minor)
  <2>1. CASE minor \in {LE, LT, EQ, NE, GE, GT}
    BY <1>2, <1>3, <2>1, IsaCodes DEF eval_condition, ISA!Holds
  <2>2. CASE minor \notin {LE, LT, EQ, NE, GE, GT}
    BY <1>2, <2>2, IsaCodes DEF eval_condition, ISA!Holds
  <2> QED BY <2>1, <2>2
<1> QED BY <1>4, <1>5, <1>6 DEF d, minor

\* The arithmetic of an instruction: an unknown operation adds.
LEMMA Operations ==
  ASSUME MachineState, NEW d, NEW junk, d.is_arit = TRUE,
         op_a(d, junk) \in Word, op_b(d, junk) \in Word
  PROVE  LET q == op_q(d, junk)
             r == ISA!Result(d.minor_op, op_a(d, junk), op_b(d, junk))
         IN /\ q.result = r
            /\ q.cc.sf = (63 \in r) /\ q.cc.zf = (r = {})
            /\ q.cc.of = FlagOfCarries(d.minor_op, op_a(d, junk), op_b(d, junk))
<1> DEFINE minor == d.minor_op
           a == op_a(d, junk)
           b == op_b(d, junk)
           known == {ADD, SUB, AND, XOR, CMP}
           op == IF minor \in known THEN minor ELSE ADD
           q == op_q(d, junk)
           r == ISA!Result(minor, a, b)
<1>1. q = alu_execute(op, a, b)
  BY DEF op_q, Selected, use_if, ADD
<1>2. op \in known /\ (minor \in {AND, XOR} => op \in {AND, XOR})
  OBVIOUS
<1>3. /\ ADD \notin {SUB, AND, XOR, CMP} /\ SUB \notin {AND, XOR, CMP}
      /\ AND \notin {XOR, CMP} /\ XOR # CMP
  BY DEF ADD, SUB, AND, XOR, CMP
<1>4. /\ op \in {SUB, CMP} => q.result = Minus(b, a)
      /\ op = ADD => q.result = Plus(b, a)
      /\ op = AND => q.result = b \cap a
      /\ op = XOR => q.result = xor(b, a)
      /\ q.cc.sf = (63 \in q.result) /\ q.cc.zf = (q.result = {})
  BY <1>1, <1>2, AluResult
<1>5. /\ op \in {SUB, CMP} => q.cc.of = TopCarriesDiffer(b, Bits \ a, TRUE)
      /\ op = ADD => q.cc.of = TopCarriesDiffer(b, a, FALSE)
      /\ op \in {AND, XOR} => q.cc.of = FALSE
  <2>1. a \in Word /\ b \in Word /\ op \in {ADD, SUB, AND, XOR, CMP}
    BY <1>2
  <2> HIDE DEF a, b, op, q
  <2>2. /\ op \in {SUB, CMP} => alu_execute(op, a, b).cc.of = TopCarriesDiffer(b, Bits \ a, TRUE)
        /\ op = ADD => alu_execute(op, a, b).cc.of = TopCarriesDiffer(b, a, FALSE)
        /\ op \in {AND, XOR} => alu_execute(op, a, b).cc.of = FALSE
    BY <2>1, AluOverflow
  <2> QED BY <1>1, <2>2
<1>6. q.result = r
  <2>1. CASE minor \in {SUB, CMP, AND, XOR}
    BY <1>3, <1>4, <2>1, IsaCodes, IsaSums DEF ISA!Result
  <2>2. CASE minor \notin {SUB, CMP, AND, XOR}
    BY <1>3, <1>4, <2>2, IsaCodes, IsaSums DEF ISA!Result
  <2> QED BY <2>1, <2>2
<1>7. q.cc.of = FlagOfCarries(minor, a, b)
  <2>1. CASE minor \in {SUB, CMP}
    BY <1>3, <1>5, <2>1, IsaCodes, IsaOverflows DEF FlagOfCarries
  <2>2. CASE minor \in {AND, XOR}
    BY <1>3, <1>5, <2>2, IsaCodes DEF FlagOfCarries
  <2>3. CASE minor \notin {SUB, CMP, AND, XOR}
    BY <1>3, <1>5, <2>3, IsaCodes, IsaOverflows DEF FlagOfCarries
  <2> QED BY <2>1, <2>2, <2>3
<1> QED BY <1>4, <1>6, <1>7

\* hlt stops, and steps over itself.
LEMMA HaltStep ==
  ASSUME MachineState, NEW w, NEW junk \in Word, stop = FALSE, ISA!Op(w) = HLT,
         Effect(Decode(w), Execute(Decode(w), junk))
  PROVE  ISA!Halt(w)
<1> DEFINE d == Decode(w)
           x == Execute(d, junk)
<1>1. /\ d.is_halt = TRUE /\ d.is_cmov = FALSE /\ d.is_itor = FALSE /\ d.is_rtom = FALSE
      /\ d.is_mtor = FALSE /\ d.is_arit = FALSE /\ d.is_jcc = FALSE /\ d.is_call = FALSE
      /\ d.is_ret = FALSE /\ d.is_push = FALSE /\ d.is_pop = FALSE /\ d.has_regs = FALSE
      /\ d.uses_rsp = FALSE /\ d.size = {0}
  BY Signals, OpcodesDiffer DEF Opcodes
<1>2. next_inst_pc(d) = ISA!Plus(pc, {0})
  BY <1>1, Operands
<1> HIDE DEF d
<1>3. x.cc = ISA!NoFlags
  BY <1>1 DEF Execute, flags, ISA!NoFlags
<1>4. x.next_pc = ISA!Plus(pc, {0})
  BY <1>1, <1>2, GateLaws DEF Execute, next_pc, use_if
<1>5. x.reg_wr_enable = FALSE /\ x.mem_wr_enable = FALSE
  BY <1>1 DEF Execute, reg_wr_enable, mem_wr_enable
<1>8. Effect(d, x)
  BY DEF d
<1> HIDE DEF x
<1>9. regs' = regs /\ mem' = mem
  BY <1>1, <1>5, <1>8, Writes
<1>10. /\ pc' = ISA!Plus(pc, {0}) /\ cc' = ISA!NoFlags /\ stop' = TRUE
       /\ regs' = regs
       /\ mem' = mem
  BY <1>1, <1>2, <1>3, <1>4, <1>5, <1>8, <1>9 DEF Effect
<1> QED BY <1>10 DEF ISA!Halt, HLT, ISA!Goto, ISA!ClearFlags

\* Every other opcode without a meaning does nothing.
LEMMA NopStep ==
  ASSUME MachineState, NEW w, NEW junk \in Word, stop = FALSE, ISA!Op(w) \notin Opcodes,
         Effect(Decode(w), Execute(Decode(w), junk))
  PROVE  ISA!Nop(w)
<1> DEFINE d == Decode(w)
           x == Execute(d, junk)
<1>1. /\ d.is_halt = FALSE /\ d.is_cmov = FALSE /\ d.is_itor = FALSE /\ d.is_rtom = FALSE
      /\ d.is_mtor = FALSE /\ d.is_arit = FALSE /\ d.is_jcc = FALSE /\ d.is_call = FALSE
      /\ d.is_ret = FALSE /\ d.is_push = FALSE /\ d.is_pop = FALSE /\ d.has_regs = FALSE
      /\ d.uses_rsp = FALSE /\ d.size = {0}
  BY Signals, OpcodesDiffer DEF Opcodes
<1>2. next_inst_pc(d) = ISA!Plus(pc, {0})
  BY <1>1, Operands
<1> HIDE DEF d
<1>3. x.cc = ISA!NoFlags
  BY <1>1 DEF Execute, flags, ISA!NoFlags
<1>4. x.next_pc = ISA!Plus(pc, {0})
  BY <1>1, <1>2, GateLaws DEF Execute, next_pc, use_if
<1>5. x.reg_wr_enable = FALSE /\ x.mem_wr_enable = FALSE
  BY <1>1 DEF Execute, reg_wr_enable, mem_wr_enable
<1>8. Effect(d, x)
  BY DEF d
<1> HIDE DEF x
<1>9. regs' = regs /\ mem' = mem
  BY <1>1, <1>5, <1>8, Writes
<1>10. /\ pc' = ISA!Plus(pc, {0}) /\ cc' = ISA!NoFlags /\ stop' = FALSE
       /\ regs' = regs
       /\ mem' = mem
  BY <1>1, <1>2, <1>3, <1>4, <1>5, <1>8, <1>9 DEF Effect
<1> QED BY <1>10 DEF ISA!Nop, ISA!Known, Opcodes, HLT, MOV_RtoR,
  MOV_ItoR, MOV_RtoM, MOV_MtoR, ARITHMETIC, JCC, CALL, RET, PUSH, POP,
  ISA!Goto, ISA!ClearFlags

\* A load reaches no register.
LEMMA MoveFromMemoryStep ==
  ASSUME MachineState, NEW w, NEW junk \in Word, stop = FALSE, ISA!Op(w) = MOV_MtoR,
         Effect(Decode(w), Execute(Decode(w), junk))
  PROVE  LoadIsLost(w)
<1> DEFINE d == Decode(w)
           x == Execute(d, junk)
<1>1. /\ d.is_halt = FALSE /\ d.is_cmov = FALSE /\ d.is_itor = FALSE /\ d.is_rtom = FALSE
      /\ d.is_mtor = TRUE /\ d.is_arit = FALSE /\ d.is_jcc = FALSE /\ d.is_call = FALSE
      /\ d.is_ret = FALSE /\ d.is_push = FALSE /\ d.is_pop = FALSE /\ d.has_regs = TRUE
      /\ d.uses_rsp = FALSE /\ d.size = {1, 2}
  BY Signals, OpcodesDiffer DEF Opcodes
<1>2. next_inst_pc(d) = ISA!Plus(pc, {1, 2})
  BY <1>1, Operands
<1> HIDE DEF d
<1>3. x.cc = ISA!NoFlags
  BY <1>1 DEF Execute, flags, ISA!NoFlags
<1>4. x.next_pc = ISA!Plus(pc, {1, 2})
  BY <1>1, <1>2, GateLaws DEF Execute, next_pc, use_if
<1>5. x.reg_wr_enable = FALSE /\ x.mem_wr_enable = FALSE
  BY <1>1 DEF Execute, reg_wr_enable, mem_wr_enable
<1>8. Effect(d, x)
  BY DEF d
<1> HIDE DEF x
<1>9. regs' = regs /\ mem' = mem
  BY <1>1, <1>5, <1>8, Writes
<1>10. /\ pc' = ISA!Plus(pc, {1, 2}) /\ cc' = ISA!NoFlags /\ stop' = FALSE
       /\ regs' = regs
       /\ mem' = mem
  BY <1>1, <1>2, <1>3, <1>4, <1>5, <1>8, <1>9 DEF Effect
<1> QED BY <1>10 DEF LoadIsLost, ISA!Goto, ISA!ClearFlags

\* An immediate reaches register B.
LEMMA MoveImmediateStep ==
  ASSUME MachineState, NEW w, NEW junk \in Word, stop = FALSE, ISA!Op(w) = MOV_ItoR,
         Effect(Decode(w), Execute(Decode(w), junk))
  PROVE  ISA!MoveImmediate(w)
<1> DEFINE d == Decode(w)
           x == Execute(d, junk)
<1>1. /\ d.is_halt = FALSE /\ d.is_cmov = FALSE /\ d.is_itor = TRUE /\ d.is_rtom = FALSE
      /\ d.is_mtor = FALSE /\ d.is_arit = FALSE /\ d.is_jcc = FALSE /\ d.is_call = FALSE
      /\ d.is_ret = FALSE /\ d.is_push = FALSE /\ d.is_pop = FALSE /\ d.has_regs = TRUE
      /\ d.uses_rsp = FALSE /\ d.size = {1, 2} /\ d.imm = ISA!Imm(w, 2)
  BY Signals, OpcodesDiffer DEF Opcodes
<1>2. next_inst_pc(d) = ISA!Plus(pc, {1, 2}) /\ d.reg_b = ISA!B(w) /\ d.reg_b \in Regs
  BY <1>1, Operands, Fields
<1> HIDE DEF d
<1>3. x.cc = ISA!NoFlags
  BY <1>1 DEF Execute, flags, ISA!NoFlags
<1>4. x.next_pc = ISA!Plus(pc, {1, 2})
  BY <1>1, <1>2, GateLaws DEF Execute, next_pc, use_if
<1>5. /\ x.reg_wr_enable = TRUE /\ x.mem_wr_enable = FALSE
      /\ x.target_reg = ISA!B(w) /\ x.datapath_result = ISA!Imm(w, 2)
  <2>1. reg_wr_enable(d) = TRUE /\ mem_wr_enable(d) = FALSE
    BY <1>1, <1>2 DEF reg_wr_enable, mem_wr_enable
  <2>2. target_reg(d) = ISA!B(w)
    BY <1>1, <1>2, GateLaws DEF target_reg, use_if
  <2>3. datapath_result(d, junk) = ISA!Imm(w, 2)
    BY <1>1, <1>2, GateLaws DEF datapath_result, use_if
  <2> QED BY <2>1, <2>2, <2>3 DEF Execute
<1>8. Effect(d, x)
  BY DEF d
<1> HIDE DEF x
<1>9. /\ d.is_pop = FALSE /\ x.reg_wr_enable = TRUE /\ x.target_reg \in Regs =>
            regs' = [regs EXCEPT ![x.target_reg] = x.datapath_result]
      /\ mem' = mem
  BY <1>5, <1>8, Writes
<1>10. /\ pc' = ISA!Plus(pc, {1, 2}) /\ cc' = ISA!NoFlags /\ stop' = FALSE
       /\ regs' = [regs EXCEPT ![ISA!B(w)] = ISA!Imm(w, 2)]
       /\ mem' = mem
  BY <1>1, <1>2, <1>3, <1>4, <1>5, <1>8, <1>9 DEF Effect
<1> QED BY <1>10 DEF ISA!MoveImmediate, MOV_ItoR, ISA!Goto, ISA!ClearFlags

\* A store adds the immediate to register B.
LEMMA MoveToMemoryStep ==
  ASSUME MachineState, NEW w, NEW junk \in Word, stop = FALSE, ISA!Op(w) = MOV_RtoM,
         Effect(Decode(w), Execute(Decode(w), junk))
  PROVE  ISA!MoveToMemory(w)
<1> DEFINE d == Decode(w)
           x == Execute(d, junk)
<1>1. /\ d.is_halt = FALSE /\ d.is_cmov = FALSE /\ d.is_itor = FALSE /\ d.is_rtom = TRUE
      /\ d.is_mtor = FALSE /\ d.is_arit = FALSE /\ d.is_jcc = FALSE /\ d.is_call = FALSE
      /\ d.is_ret = FALSE /\ d.is_push = FALSE /\ d.is_pop = FALSE /\ d.has_regs = TRUE
      /\ d.uses_rsp = FALSE /\ d.size = {1, 2} /\ d.imm = ISA!Imm(w, 2)
  BY Signals, OpcodesDiffer DEF Opcodes
<1>2. /\ next_inst_pc(d) = ISA!Plus(pc, {1, 2})
      /\ op_a(d, junk) = regs[ISA!A(w)] /\ op_b(d, junk) = regs[ISA!B(w)]
      /\ op_b(d, junk) \in Word /\ d.imm \in Word
  BY <1>1, Operands
<1> HIDE DEF d
<1>3. x.cc = ISA!NoFlags
  BY <1>1 DEF Execute, flags, ISA!NoFlags
<1>4. x.next_pc = ISA!Plus(pc, {1, 2})
  BY <1>1, <1>2, GateLaws DEF Execute, next_pc, use_if
<1>5. x.reg_wr_enable = FALSE /\ x.mem_wr_enable = TRUE
  BY <1>1 DEF Execute, reg_wr_enable, mem_wr_enable
<1>6. x.memory_result = regs[ISA!A(w)]
  BY <1>1, <1>2, GateLaws DEF Execute, memory_result, datapath_result, use_if
<1>7. x.target_mem = ISA!Plus(regs[ISA!B(w)], ISA!Imm(w, 2))
  <2>1. x.target_mem = add(op_b(d, junk), d.imm)
    BY <1>1, GateLaws DEF Execute, target_mem, use_if
  <2> QED BY <1>1, <1>2, <2>1, AddIsWord, IsaSums
<1>8. Effect(d, x)
  BY DEF d
<1> HIDE DEF x
<1>9. /\ x.mem_wr_enable = TRUE => mem' = ISA!Store(x.target_mem, x.memory_result)
      /\ regs' = regs
  BY <1>1, <1>5, <1>8, Writes
<1>10. /\ pc' = ISA!Plus(pc, {1, 2}) /\ cc' = ISA!NoFlags /\ stop' = FALSE
       /\ regs' = regs
       /\ mem' = ISA!Store(ISA!Plus(regs[ISA!B(w)], ISA!Imm(w, 2)), regs[ISA!A(w)])
  BY <1>1, <1>2, <1>3, <1>4, <1>5, <1>6, <1>7, <1>8, <1>9 DEF Effect
<1> QED BY <1>10 DEF ISA!MoveToMemory, MOV_RtoM, ISA!Goto, ISA!ClearFlags

\* A jump goes to its immediate when the condition holds.
LEMMA JumpStep ==
  ASSUME MachineState, NEW w, NEW junk \in Word, stop = FALSE, ISA!Op(w) = JCC,
         Effect(Decode(w), Execute(Decode(w), junk))
  PROVE  ISA!Jump(w)
<1> DEFINE d == Decode(w)
           x == Execute(d, junk)
<1>1. /\ d.is_halt = FALSE /\ d.is_cmov = FALSE /\ d.is_itor = FALSE /\ d.is_rtom = FALSE
      /\ d.is_mtor = FALSE /\ d.is_arit = FALSE /\ d.is_jcc = TRUE /\ d.is_call = FALSE
      /\ d.is_ret = FALSE /\ d.is_push = FALSE /\ d.is_pop = FALSE /\ d.has_regs = FALSE
      /\ d.uses_rsp = FALSE /\ d.size = {0, 2} /\ d.imm = ISA!Imm(w, 1)
  BY Signals, OpcodesDiffer DEF Opcodes
<1>2. /\ next_inst_pc(d) = ISA!Plus(pc, {0, 2})
      /\ d.is_cmov \/ d.is_jcc => condition_holds(d) = ISA!Holds(ISA!Minor(w))
      /\ ISA!Holds(ISA!Minor(w)) \in BOOLEAN
  BY <1>1, Operands, Conditions
<1> HIDE DEF d
<1>3. x.cc = ISA!NoFlags
  BY <1>1 DEF Execute, flags, ISA!NoFlags
<1>4. x.next_pc = IF ISA!Holds(ISA!Minor(w)) THEN ISA!Imm(w, 1) ELSE ISA!Plus(pc, {0, 2})
  BY <1>1, <1>2, GateLaws DEF Execute, next_pc, use_if
<1>5. x.reg_wr_enable = FALSE /\ x.mem_wr_enable = FALSE
  BY <1>1 DEF Execute, reg_wr_enable, mem_wr_enable
<1>8. Effect(d, x)
  BY DEF d
<1> HIDE DEF x
<1>9. regs' = regs /\ mem' = mem
  BY <1>1, <1>5, <1>8, Writes
<1>10. /\ pc' = IF ISA!Holds(ISA!Minor(w)) THEN ISA!Imm(w, 1) ELSE ISA!Plus(pc, {0, 2})
       /\ cc' = ISA!NoFlags /\ stop' = FALSE
       /\ regs' = regs
       /\ mem' = mem
  BY <1>1, <1>2, <1>3, <1>4, <1>5, <1>8, <1>9 DEF Effect
<1> QED BY <1>10 DEF ISA!Jump, JCC, ISA!Goto, ISA!ClearFlags

\* A move happens when the condition holds.
LEMMA MoveStep ==
  ASSUME MachineState, NEW w, NEW junk \in Word, stop = FALSE, ISA!Op(w) = MOV_RtoR,
         Effect(Decode(w), Execute(Decode(w), junk))
  PROVE  ISA!Move(w)
<1> DEFINE d == Decode(w)
           x == Execute(d, junk)
<1>1. /\ d.is_halt = FALSE /\ d.is_cmov = TRUE /\ d.is_itor = FALSE /\ d.is_rtom = FALSE
      /\ d.is_mtor = FALSE /\ d.is_arit = FALSE /\ d.is_jcc = FALSE /\ d.is_call = FALSE
      /\ d.is_ret = FALSE /\ d.is_push = FALSE /\ d.is_pop = FALSE /\ d.has_regs = TRUE
      /\ d.uses_rsp = FALSE /\ d.size = {1}
  BY Signals, OpcodesDiffer DEF Opcodes
<1>2. /\ next_inst_pc(d) = ISA!Plus(pc, {1})
      /\ d.is_cmov \/ d.is_jcc => condition_holds(d) = ISA!Holds(ISA!Minor(w))
      /\ ISA!Holds(ISA!Minor(w)) \in BOOLEAN
      /\ op_a(d, junk) = regs[ISA!A(w)]
      /\ d.reg_b = ISA!B(w) /\ d.reg_b \in Regs
  BY <1>1, Operands, Conditions, Fields
<1> HIDE DEF d
<1>3. x.cc = ISA!NoFlags
  BY <1>1 DEF Execute, flags, ISA!NoFlags
<1>4. x.next_pc = ISA!Plus(pc, {1})
  BY <1>1, <1>2, GateLaws DEF Execute, next_pc, use_if
<1>5. /\ x.reg_wr_enable = ISA!Holds(ISA!Minor(w)) /\ x.mem_wr_enable = FALSE
      /\ x.target_reg = ISA!B(w) /\ x.datapath_result = regs[ISA!A(w)]
  <2>1. reg_wr_enable(d) = ISA!Holds(ISA!Minor(w)) /\ mem_wr_enable(d) = FALSE
    BY <1>1, <1>2 DEF reg_wr_enable, mem_wr_enable
  <2>2. target_reg(d) = ISA!B(w)
    BY <1>1, <1>2, GateLaws DEF target_reg, use_if
  <2>3. datapath_result(d, junk) = regs[ISA!A(w)]
    BY <1>1, <1>2, GateLaws DEF datapath_result, use_if
  <2> QED BY <2>1, <2>2, <2>3 DEF Execute
<1>8. Effect(d, x)
  BY DEF d
<1> HIDE DEF x
<1>9. /\ d.is_pop = FALSE /\ x.reg_wr_enable = TRUE /\ x.target_reg \in Regs =>
            regs' = [regs EXCEPT ![x.target_reg] = x.datapath_result]
      /\ d.is_pop = FALSE /\ x.reg_wr_enable = FALSE => regs' = regs
      /\ mem' = mem
  BY <1>5, <1>8, Writes
<1>10. /\ pc' = ISA!Plus(pc, {1}) /\ cc' = ISA!NoFlags /\ stop' = FALSE
       /\ regs' = [regs EXCEPT ![ISA!B(w)] = IF ISA!Holds(ISA!Minor(w)) THEN regs[ISA!A(w)] ELSE @]
       /\ mem' = mem
  <2>1. CASE ISA!Holds(ISA!Minor(w))
    BY <1>1, <1>2, <1>3, <1>4, <1>5, <1>8, <1>9, <2>1 DEF Effect
  <2>2. CASE ~ISA!Holds(ISA!Minor(w))
    <3>1. x.reg_wr_enable = FALSE
      BY <1>2, <1>5, <2>2
    <3>2. regs' = regs
      BY <1>1, <1>9, <3>1
    <3>3. regs = [regs EXCEPT ![ISA!B(w)] = @]
      BY DEF MachineState
    <3> QED BY <1>1, <1>3, <1>4, <1>8, <1>9, <2>2, <3>2, <3>3 DEF Effect
  <2> QED BY <2>1, <2>2
<1> QED BY <1>10 DEF ISA!Move, MOV_RtoR, ISA!Goto, ISA!ClearFlags

\* The arithmetic instructions set the flags, overflow from the carries.
LEMMA ArithmeticStep ==
  ASSUME MachineState, NEW w, NEW junk \in Word, stop = FALSE, ISA!Op(w) = ARITHMETIC,
         Effect(Decode(w), Execute(Decode(w), junk))
  PROVE  OverflowIsOfCarries(w)
<1> DEFINE d == Decode(w)
           x == Execute(d, junk)
<1>1. /\ d.is_halt = FALSE /\ d.is_cmov = FALSE /\ d.is_itor = FALSE /\ d.is_rtom = FALSE
      /\ d.is_mtor = FALSE /\ d.is_arit = TRUE /\ d.is_jcc = FALSE /\ d.is_call = FALSE
      /\ d.is_ret = FALSE /\ d.is_push = FALSE /\ d.is_pop = FALSE /\ d.has_regs = TRUE
      /\ d.uses_rsp = FALSE /\ d.size = {1}
  BY Signals, OpcodesDiffer DEF Opcodes
<1>2. /\ next_inst_pc(d) = ISA!Plus(pc, {1})
      /\ op_a(d, junk) = regs[ISA!A(w)] /\ op_b(d, junk) = regs[ISA!B(w)]
      /\ op_a(d, junk) \in Word /\ op_b(d, junk) \in Word
      /\ d.reg_b = ISA!B(w) /\ d.reg_b \in Regs /\ d.minor_op = ISA!Minor(w)
  BY <1>1, Operands, Fields
<1> HIDE DEF d
<1> DEFINE r == ISA!Result(ISA!Minor(w), regs[ISA!A(w)], regs[ISA!B(w)])
           o == FlagOfCarries(ISA!Minor(w), regs[ISA!A(w)], regs[ISA!B(w)])
           q == op_q(d, junk)
<1>3. /\ q.result = r
      /\ q.cc.sf = (63 \in r) /\ q.cc.zf = (r = {}) /\ q.cc.of = o
  <2>1. op_a(Decode(w), junk) \in Word /\ op_b(Decode(w), junk) \in Word
    BY <1>2 DEF d
  <2>2. Decode(w).is_arit = TRUE
    BY <1>1 DEF d
  <2> DEFINE r2 == ISA!Result(Decode(w).minor_op, op_a(Decode(w), junk), op_b(Decode(w), junk))
             o2 == FlagOfCarries(Decode(w).minor_op, op_a(Decode(w), junk), op_b(Decode(w), junk))
             q2 == op_q(Decode(w), junk)
  <2>3. /\ q2.result = r2
        /\ q2.cc.sf = (63 \in r2) /\ q2.cc.zf = (r2 = {}) /\ q2.cc.of = o2
    BY <2>1, <2>2, Operations
  <2>4. q2 = q /\ r2 = r /\ o2 = o
    BY <1>2 DEF d
  <2> HIDE DEF q, r, o, q2, r2, o2
  <2> QED BY <2>3, <2>4
<1>7. o \in BOOLEAN
  BY DEF FlagOfCarries, ISA!TopCarriesDiffer
<1> HIDE DEF q, r, o
<1>6. x.cc = [of |-> o, sf |-> 63 \in r, zf |-> r = {}]
  <2>1. x.cc = [of |-> d.is_arit /\ q.cc.of, sf |-> d.is_arit /\ q.cc.sf, zf |-> d.is_arit /\ q.cc.zf]
    BY DEF Execute, flags, q
  <2>2. /\ (d.is_arit /\ q.cc.of) = o /\ (d.is_arit /\ q.cc.sf) = (63 \in r)
        /\ (d.is_arit /\ q.cc.zf) = (r = {})
    <3>1. q.cc.of \in BOOLEAN /\ q.cc.sf \in BOOLEAN /\ q.cc.zf \in BOOLEAN
      BY <1>3, <1>7
    <3>2. \A b \in BOOLEAN : (TRUE /\ b) = b
      OBVIOUS
    <3>3. /\ (d.is_arit /\ q.cc.of) = q.cc.of /\ (d.is_arit /\ q.cc.sf) = q.cc.sf
          /\ (d.is_arit /\ q.cc.zf) = q.cc.zf
      BY <1>1, <3>1, <3>2
    <3> QED BY <1>3, <3>3
  <2> QED BY <2>1, <2>2
<1>4. x.next_pc = ISA!Plus(pc, {1})
  BY <1>1, <1>2, GateLaws DEF Execute, next_pc, use_if
<1>5. /\ x.reg_wr_enable = (ISA!Minor(w) # CMP) /\ x.mem_wr_enable = FALSE
      /\ x.target_reg = ISA!B(w) /\ x.datapath_result = r
  <2>1. reg_wr_enable(d) = (ISA!Minor(w) # CMP) /\ mem_wr_enable(d) = FALSE
    BY <1>1, <1>2 DEF reg_wr_enable, mem_wr_enable
  <2>2. target_reg(d) = ISA!B(w)
    BY <1>1, <1>2, GateLaws DEF target_reg, use_if
  <2>3. datapath_result(d, junk) = r
    BY <1>1, <1>3, GateLaws DEF datapath_result, use_if, q
  <2> QED BY <2>1, <2>2, <2>3 DEF Execute
<1>8. Effect(d, x)
  BY DEF d
<1> HIDE DEF x
<1>9. /\ d.is_pop = FALSE /\ x.reg_wr_enable = TRUE /\ x.target_reg \in Regs =>
            regs' = [regs EXCEPT ![x.target_reg] = x.datapath_result]
      /\ d.is_pop = FALSE /\ x.reg_wr_enable = FALSE => regs' = regs
      /\ mem' = mem
  BY <1>5, <1>8, Writes
<1>10. /\ pc' = ISA!Plus(pc, {1}) /\ stop' = FALSE
       /\ regs' = [regs EXCEPT ![ISA!B(w)] = IF ISA!Minor(w) = CMP THEN @ ELSE r]
       /\ mem' = mem
       /\ cc' = x.cc
  <2>1. CASE ISA!Minor(w) # CMP
    BY <1>1, <1>2, <1>4, <1>5, <1>8, <1>9, <2>1 DEF Effect
  <2>2. CASE ISA!Minor(w) = CMP
    <3>1. regs' = regs
      BY <1>1, <1>5, <1>9, <2>2
    <3>2. regs = [regs EXCEPT ![ISA!B(w)] = @]
      BY DEF MachineState
    <3> QED BY <1>1, <1>4, <1>8, <1>9, <2>2, <3>1, <3>2 DEF Effect
  <2> QED BY <2>1, <2>2
<1> QED BY <1>6, <1>10, IsaCodes DEF r, o, OverflowIsOfCarries, ISA!Compute, ARITHMETIC, ISA!Goto, ISA!ClearFlags

\* The word on the stack is the next pc, and stays there.
LEMMA ReturnStep ==
  ASSUME MachineState, NEW w, NEW junk \in Word, stop = FALSE, ISA!Op(w) = RET,
         Effect(Decode(w), Execute(Decode(w), junk))
  PROVE  StackIsKept(w, junk)
<1> DEFINE d == Decode(w)
           x == Execute(d, junk)
<1>1. /\ d.is_halt = FALSE /\ d.is_cmov = FALSE /\ d.is_itor = FALSE /\ d.is_rtom = FALSE
      /\ d.is_mtor = FALSE /\ d.is_arit = FALSE /\ d.is_jcc = FALSE /\ d.is_call = FALSE
      /\ d.is_ret = TRUE /\ d.is_push = FALSE /\ d.is_pop = FALSE /\ d.has_regs = FALSE
      /\ d.uses_rsp = TRUE /\ d.size = {0}
  BY Signals, OpcodesDiffer DEF Opcodes
<1>2. rsp(d, junk) = ISA!Top
  BY <1>1, Operands
<1> HIDE DEF d
<1>3. x.cc = ISA!NoFlags
  BY <1>1 DEF Execute, flags, ISA!NoFlags
<1>4. x.next_pc = ISA!Load(ISA!Top, junk)
  <2>1. mem_stack_top(d, junk) = ISA!Load(ISA!Top, junk)
    BY <1>1, <1>2 DEF mem_stack_top, memory_read, ISA!Load, MachineState
  <2> QED BY <1>1, <2>1, GateLaws DEF Execute, next_pc, use_if
<1>5. x.reg_wr_enable = FALSE /\ x.mem_wr_enable = FALSE
  BY <1>1 DEF Execute, reg_wr_enable, mem_wr_enable
<1>8. Effect(d, x)
  BY DEF d
<1> HIDE DEF x
<1>9. regs' = regs /\ mem' = mem
  BY <1>1, <1>5, <1>8, Writes
<1>10. /\ pc' = ISA!Load(ISA!Top, junk) /\ cc' = ISA!NoFlags /\ stop' = FALSE
       /\ regs' = regs
       /\ mem' = mem
  BY <1>1, <1>2, <1>3, <1>4, <1>5, <1>8, <1>9 DEF Effect
<1> QED BY <1>10 DEF StackIsKept, ISA!Goto, ISA!ClearFlags

\* A call pushes the address behind it.
LEMMA CallStep ==
  ASSUME MachineState, NEW w, NEW junk \in Word, stop = FALSE, ISA!Op(w) = CALL,
         Effect(Decode(w), Execute(Decode(w), junk))
  PROVE  ISA!Call(w)
<1> DEFINE d == Decode(w)
           x == Execute(d, junk)
<1>1. /\ d.is_halt = FALSE /\ d.is_cmov = FALSE /\ d.is_itor = FALSE /\ d.is_rtom = FALSE
      /\ d.is_mtor = FALSE /\ d.is_arit = FALSE /\ d.is_jcc = FALSE /\ d.is_call = TRUE
      /\ d.is_ret = FALSE /\ d.is_push = FALSE /\ d.is_pop = FALSE /\ d.has_regs = FALSE
      /\ d.uses_rsp = TRUE /\ d.size = {0, 2} /\ d.imm = ISA!Imm(w, 1)
  BY Signals, OpcodesDiffer DEF Opcodes
<1>2. /\ rsp(d, junk) = ISA!Top /\ rsp(d, junk) \in Word
      /\ next_inst_pc(d) = ISA!Plus(pc, {0, 2})
  BY <1>1, Operands
<1> HIDE DEF d
<1>3. x.cc = ISA!NoFlags
  BY <1>1 DEF Execute, flags, ISA!NoFlags
<1>4. x.next_pc = ISA!Imm(w, 1)
  BY <1>1, GateLaws DEF Execute, next_pc, use_if
<1>5. /\ x.reg_wr_enable = TRUE /\ x.mem_wr_enable = TRUE
      /\ x.datapath_result = ISA!Down
  <2>1. datapath_result(d, junk) = alu_execute(SUB, {3}, rsp(d, junk)).result
    BY <1>1, GateLaws DEF datapath_result, use_if
  <2>2. datapath_result(d, junk) = ISA!Down
    BY <1>2, <2>1, SubtractEight, IsaSums DEF ISA!Down
  <2> QED BY <1>1, <2>2 DEF Execute, reg_wr_enable, mem_wr_enable
<1>6. x.target_reg = ISA!SP /\ x.target_mem = ISA!Down
  BY <1>1, <1>5, GateLaws, Constants DEF Execute, target_reg, target_mem, use_if
<1>7. x.memory_result = ISA!Plus(pc, {0, 2})
  BY <1>1, <1>2, GateLaws DEF Execute, memory_result, use_if
<1>8. Effect(d, x)
  BY DEF d
<1> HIDE DEF x
<1>9. /\ d.is_pop = FALSE /\ x.reg_wr_enable = TRUE /\ x.target_reg \in Regs =>
            regs' = [regs EXCEPT ![x.target_reg] = x.datapath_result]
      /\ x.mem_wr_enable = TRUE => mem' = ISA!Store(x.target_mem, x.memory_result)
  BY <1>8, Writes
<1>10. /\ pc' = ISA!Imm(w, 1) /\ cc' = ISA!NoFlags /\ stop' = FALSE
       /\ regs' = [regs EXCEPT ![ISA!SP] = ISA!Down]
       /\ mem' = ISA!Store(ISA!Down, ISA!Plus(pc, {0, 2}))
  BY <1>1, <1>2, <1>3, <1>4, <1>5, <1>6, <1>7, <1>8, <1>9, Constants DEF Effect
<1> QED BY <1>10 DEF ISA!Call, CALL, ISA!Goto, ISA!ClearFlags

\* A push stores register A below the stack.
LEMMA PushStep ==
  ASSUME MachineState, NEW w, NEW junk \in Word, stop = FALSE, ISA!Op(w) = PUSH,
         Effect(Decode(w), Execute(Decode(w), junk))
  PROVE  ISA!Push(w)
<1> DEFINE d == Decode(w)
           x == Execute(d, junk)
<1>1. /\ d.is_halt = FALSE /\ d.is_cmov = FALSE /\ d.is_itor = FALSE /\ d.is_rtom = FALSE
      /\ d.is_mtor = FALSE /\ d.is_arit = FALSE /\ d.is_jcc = FALSE /\ d.is_call = FALSE
      /\ d.is_ret = FALSE /\ d.is_push = TRUE /\ d.is_pop = FALSE /\ d.has_regs = TRUE
      /\ d.uses_rsp = TRUE /\ d.size = {1}
  BY Signals, OpcodesDiffer DEF Opcodes
<1>2. /\ rsp(d, junk) = ISA!Top /\ rsp(d, junk) \in Word
      /\ op_a(d, junk) = regs[ISA!A(w)] /\ next_inst_pc(d) = ISA!Plus(pc, {1})
  BY <1>1, Operands
<1> HIDE DEF d
<1>3. x.cc = ISA!NoFlags
  BY <1>1 DEF Execute, flags, ISA!NoFlags
<1>4. x.next_pc = ISA!Plus(pc, {1})
  BY <1>1, <1>2, GateLaws DEF Execute, next_pc, use_if
<1>5. /\ x.reg_wr_enable = TRUE /\ x.mem_wr_enable = TRUE
      /\ x.datapath_result = ISA!Down
  <2>1. datapath_result(d, junk) = alu_execute(SUB, {3}, rsp(d, junk)).result
    BY <1>1, GateLaws DEF datapath_result, use_if
  <2>2. datapath_result(d, junk) = ISA!Down
    BY <1>2, <2>1, SubtractEight, IsaSums DEF ISA!Down
  <2> QED BY <1>1, <2>2 DEF Execute, reg_wr_enable, mem_wr_enable
<1>6. x.target_reg = ISA!SP /\ x.target_mem = ISA!Down
  BY <1>1, <1>5, GateLaws, Constants DEF Execute, target_reg, target_mem, use_if
<1>7. x.memory_result = regs[ISA!A(w)]
  BY <1>1, <1>2, GateLaws DEF Execute, memory_result, use_if
<1>8. Effect(d, x)
  BY DEF d
<1> HIDE DEF x
<1>9. /\ d.is_pop = FALSE /\ x.reg_wr_enable = TRUE /\ x.target_reg \in Regs =>
            regs' = [regs EXCEPT ![x.target_reg] = x.datapath_result]
      /\ x.mem_wr_enable = TRUE => mem' = ISA!Store(x.target_mem, x.memory_result)
  BY <1>8, Writes
<1>10. /\ pc' = ISA!Plus(pc, {1}) /\ cc' = ISA!NoFlags /\ stop' = FALSE
       /\ regs' = [regs EXCEPT ![ISA!SP] = ISA!Down]
       /\ mem' = ISA!Store(ISA!Down, regs[ISA!A(w)])
  BY <1>1, <1>2, <1>3, <1>4, <1>5, <1>6, <1>7, <1>8, <1>9, Constants DEF Effect
<1> QED BY <1>10 DEF ISA!Push, PUSH, ISA!Goto, ISA!ClearFlags

\* A pop writes two registers, the popped word last.
LEMMA PopStep ==
  ASSUME MachineState, NEW w, NEW junk \in Word, stop = FALSE, ISA!Op(w) = POP,
         Effect(Decode(w), Execute(Decode(w), junk))
  PROVE  ISA!Pop(w, junk)
<1> DEFINE d == Decode(w)
           x == Execute(d, junk)
<1>1. /\ d.is_halt = FALSE /\ d.is_cmov = FALSE /\ d.is_itor = FALSE /\ d.is_rtom = FALSE
      /\ d.is_mtor = FALSE /\ d.is_arit = FALSE /\ d.is_jcc = FALSE /\ d.is_call = FALSE
      /\ d.is_ret = FALSE /\ d.is_push = FALSE /\ d.is_pop = TRUE /\ d.has_regs = TRUE
      /\ d.uses_rsp = TRUE /\ d.size = {1}
  BY Signals, OpcodesDiffer DEF Opcodes
<1>2. /\ rsp(d, junk) = ISA!Top /\ rsp(d, junk) \in Word
      /\ next_inst_pc(d) = ISA!Plus(pc, {1}) /\ d.reg_a = ISA!A(w) /\ d.reg_a \in Regs
  BY <1>1, Operands, Fields
<1> HIDE DEF d
<1>3. x.cc = ISA!NoFlags
  BY <1>1 DEF Execute, flags, ISA!NoFlags
<1>4. x.next_pc = ISA!Plus(pc, {1})
  BY <1>1, <1>2, GateLaws DEF Execute, next_pc, use_if
<1>5. x.reg_wr_enable = TRUE /\ x.mem_wr_enable = FALSE
  BY <1>1 DEF Execute, reg_wr_enable, mem_wr_enable
<1>6. x.target_reg = ISA!SP /\ x.datapath_result = ISA!Plus(ISA!Top, {3})
  <2>1. datapath_result(d, junk) = add(rsp(d, junk), {3})
    BY <1>1, GateLaws DEF datapath_result, use_if
  <2>2. datapath_result(d, junk) = ISA!Plus(ISA!Top, {3})
    BY <1>2, <2>1, AddIsWord, Constants, IsaSums
  <2>3. target_reg(d) = ISA!SP
    BY <1>1, GateLaws, Constants DEF target_reg, use_if
  <2> QED BY <2>2, <2>3 DEF Execute
<1>7. x.mem_stack_top = ISA!Load(ISA!Top, junk)
  BY <1>1, <1>2 DEF Execute, mem_stack_top, memory_read, ISA!Load, MachineState
<1>8. Effect(d, x)
  BY DEF d
<1> HIDE DEF x
<1>9. /\ regs' = memory_write(memory_write(regs, ISA!SP, ISA!Plus(ISA!Top, {3}), TRUE),
                              ISA!A(w), ISA!Load(ISA!Top, junk), TRUE)
      /\ mem' = mem
  <2>1. mem' = mem
    BY <1>5, <1>8, Writes
  <2> QED BY <1>1, <1>2, <1>5, <1>6, <1>7, <1>8, <2>1 DEF Effect
<1>10. /\ pc' = ISA!Plus(pc, {1}) /\ cc' = ISA!NoFlags /\ stop' = FALSE
       /\ regs' = [regs EXCEPT ![ISA!SP] = ISA!Plus(ISA!Top, {3}),
                            ![ISA!A(w)] = ISA!Load(ISA!Top, junk)]
       /\ mem' = mem
  <2>1. ISA!SP \in DOMAIN regs /\ ISA!A(w) \in DOMAIN regs
    BY <1>2, Constants DEF MachineState
  <2> QED BY <1>1, <1>3, <1>4, <1>8, <1>9, <2>1 DEF Effect, memory_write
<1> QED BY <1>10 DEF ISA!Pop, POP, ISA!Goto, ISA!ClearFlags

-----------------------------------------------------------------------------
(***************************************************************************)
(* The fetch, the step, and the types of the machine state.                *)
(***************************************************************************)
\* Two aligned reads and the byte picker give the eight bytes at pc.
LEMMA FetchSame ==
  ASSUME MachineState, NEW junk1, NEW junk2
  PROVE  memory_read_unaligned(mem, pc, junk1, junk2) = ISA!Fetch(junk1, junk2)
<1> DEFINE frst == pick_bits(3, 61, pc)
           one(i) == IF pick_one(i, pc) THEN 1 ELSE 0
           pos == one(0) + 2 * one(1) + 4 * one(2)
           cell == {i - 3 : i \in {k \in pc : k >= 3}}
           shift == (IF 0 \in pc THEN 8 ELSE 0) + (IF 1 \in pc THEN 16 ELSE 0)
                      + (IF 2 \in pc THEN 32 ELSE 0)
<1>1. frst = cell
  BY DEF MachineState, Word, Bits, pick_bits
<1>2. frst \in Word
  BY PickIsWord
<1>3. add(frst, {0}) = ISA!Plus(cell, {0})
  BY <1>1, <1>2, AddIsWord, Constants, IsaSums
<1>4. 8 * pos = shift /\ pos \in Int /\ shift \in Int
  BY DEF pick_one
<1>5. \A a, junk : memory_read(mem, a, TRUE, junk) = ISA!Load(a, junk)
  BY DEF memory_read, ISA!Load, MachineState
<1> DEFINE lo == ISA!Load(cell, junk1)
           hi == ISA!Load(ISA!Plus(cell, {0}), junk2)
<1>6. memory_read_unaligned(mem, pc, junk1, junk2) = pick_bytes(pos, lo, hi)
  BY <1>1, <1>3, <1>5 DEF memory_read_unaligned
<1>7. ISA!Fetch(junk1, junk2) =
        {i \in Bits : IF i + shift < 64 THEN i + shift \in lo ELSE i + shift - 64 \in hi}
  BY DEF ISA!Fetch, ISA!Bits, Bits
<1> HIDE DEF pos, shift, lo, hi
<1>8. pick_bytes(pos, lo, hi) =
        {i \in Bits : IF i + shift < 64 THEN i + shift \in lo ELSE i + shift - 64 \in hi}
  BY <1>4 DEF pick_bytes
<1> QED BY <1>6, <1>7, <1>8

\* What a cycle comes to: nine kinds of instruction and the three departures.
Done(w, junk) ==
  \/ ISA!Halt(w) \/ ISA!Nop(w) \/ ISA!Move(w) \/ ISA!MoveImmediate(w) \/ ISA!MoveToMemory(w)
  \/ ISA!Jump(w) \/ ISA!Call(w) \/ ISA!Push(w) \/ ISA!Pop(w, junk)
  \/ LoadIsLost(w) \/ StackIsKept(w, junk) \/ OverflowIsOfCarries(w)

LEMMA EachStep ==
  ASSUME MachineState, NEW w, NEW junk \in Word, stop = FALSE,
         Effect(Decode(w), Execute(Decode(w), junk))
  PROVE  Done(w, junk)
<1>1. ISA!Op(w) \in Opcodes \/ ISA!Op(w) \notin Opcodes
  OBVIOUS
<1> QED BY <1>1, HaltStep, NopStep, MoveStep, MoveImmediateStep, MoveToMemoryStep,
           MoveFromMemoryStep, ArithmeticStep, JumpStep, CallStep, ReturnStep, PushStep, PopStep
        DEF Opcodes, Done

\* Arithmetic and memory reads give words.
LEMMA IsaWords ==
  ASSUME MachineState, NEW a \in Word, NEW b \in Word, NEW junk \in Word, NEW w
  PROVE  /\ ISA!Plus(a, b) \in Word /\ ISA!Minus(a, b) \in Word
         /\ ISA!Load(a, junk) \in Word
         /\ ISA!Store(a, b) \in [Cells -> Word]
         /\ ISA!Imm(w, 1) \in Word /\ ISA!Imm(w, 2) \in Word
         /\ ISA!A(w) \in Regs /\ ISA!B(w) \in Regs
         /\ ISA!Result(ISA!Minor(w), a, b) \in Word
<1>1. Plus(a, b) \in Word
  BY AddIsWord
<1>2. \A x, y \in Word : Minus(x, y) \in Word /\ Plus(x, y) \in Word
  <2>1. \A x, y, c : Chain(x, y, c) \in Word
    BY DEF Chain, Word
  <2>2. \A x, y \in Word : xor(x, y) \in Word /\ Bits \ y \in Word
    BY DEF xor, Word
  <2> QED BY <2>1, <2>2 DEF Minus, Plus, Sum
<1>3. xor(b, a) \in Word /\ b \cap a \in Word
  BY DEF xor, Word
<1>4. ISA!Result(ISA!Minor(w), a, b) \in {Minus(b, a), b \cap a, xor(b, a), Plus(b, a)}
  BY IsaSums, IsaCodes DEF ISA!Result
<1>5. ISA!Imm(w, 1) \in Word /\ ISA!Imm(w, 2) \in Word
  BY DEF ISA!Imm, Word, Bits
<1>6. ISA!A(w) \in Regs /\ ISA!B(w) \in Regs
  BY Fields
<1>7. ISA!Load(a, junk) \in Word /\ ISA!Store(a, b) \in [Cells -> Word]
  BY DEF ISA!Load, ISA!Store, MachineState
<1> QED BY <1>2, <1>3, <1>4, <1>5, <1>6, <1>7, IsaSums

\* A cycle keeps the machine state well typed.
LEMMA StepTyped ==
  ASSUME MachineState, NEW w, NEW junk \in Word, stop \in BOOLEAN, Done(w, junk)
  PROVE  MachineState' /\ stop' \in BOOLEAN
<1>1. /\ \A r \in Regs : regs[r] \in Word
      /\ ISA!A(w) \in Regs /\ ISA!B(w) \in Regs /\ ISA!SP \in Regs
      /\ ISA!Imm(w, 1) \in Word /\ ISA!Imm(w, 2) \in Word
      /\ pc \in Word /\ ISA!NoFlags \in [of : BOOLEAN, sf : BOOLEAN, zf : BOOLEAN]
  BY Constants, IsaWords DEF MachineState, ISA!NoFlags
<1>2. \A a, b \in Word : ISA!Plus(a, b) \in Word /\ ISA!Minus(a, b) \in Word
  BY IsaWords
<1>3. \A a, b \in Word : ISA!Store(a, b) \in [Cells -> Word] /\ ISA!Load(a, junk) \in Word
  BY IsaWords
<1>4. ISA!Top \in Word /\ ISA!Down \in Word
  BY <1>1, <1>2, Constants DEF ISA!Top, ISA!Down
<1>5. \A v \in Word, r \in Regs : [regs EXCEPT ![r] = v] \in [Regs -> Word]
  BY DEF MachineState
<1> USE DEF ISA!Goto, ISA!ClearFlags
<1>6. CASE ISA!Halt(w) \/ ISA!Nop(w) \/ LoadIsLost(w)
  BY <1>1, <1>2, <1>6, Constants DEF ISA!Halt, ISA!Nop, LoadIsLost, MachineState
<1>7. CASE ISA!Move(w)
  <2>1. (IF ISA!Holds(ISA!Minor(w)) THEN regs[ISA!A(w)] ELSE regs[ISA!B(w)]) \in Word
    BY <1>1
  <2> QED BY <1>1, <1>2, <1>5, <1>7, <2>1, Constants DEF ISA!Move, MachineState
<1>8. CASE ISA!MoveImmediate(w)
  BY <1>1, <1>2, <1>5, <1>8, Constants DEF ISA!MoveImmediate, MachineState
<1>9. CASE ISA!MoveToMemory(w)
  BY <1>1, <1>2, <1>3, <1>9, Constants DEF ISA!MoveToMemory, MachineState
<1>10. CASE OverflowIsOfCarries(w)
  <2> DEFINE r == ISA!Result(ISA!Minor(w), regs[ISA!A(w)], regs[ISA!B(w)])
             o == FlagOfCarries(ISA!Minor(w), regs[ISA!A(w)], regs[ISA!B(w)])
  <2>1. r \in Word /\ o \in BOOLEAN
    BY <1>1, IsaWords DEF FlagOfCarries, ISA!TopCarriesDiffer
  <2>2. /\ regs' = [regs EXCEPT ![ISA!B(w)] = IF ISA!Minor(w) = ISA!CMP THEN @ ELSE r]
        /\ cc' = [of |-> o, sf |-> 63 \in r, zf |-> r = {}]
        /\ pc' = ISA!Plus(pc, {1}) /\ mem' = mem /\ stop' = stop
    BY <1>10 DEF OverflowIsOfCarries, ISA!Compute
  <2> HIDE DEF r, o
  <2>3. (IF ISA!Minor(w) = ISA!CMP THEN regs[ISA!B(w)] ELSE r) \in Word
    BY <1>1, <2>1
  <2>4. regs' \in [Regs -> Word]
    BY <1>1, <1>5, <2>2, <2>3 DEF MachineState
  <2>5. cc' \in [of : BOOLEAN, sf : BOOLEAN, zf : BOOLEAN]
    <3>1. (63 \in r) \in BOOLEAN /\ (r = {}) \in BOOLEAN
      OBVIOUS
    <3> QED BY <2>1, <2>2, <3>1
  <2> QED BY <1>1, <1>2, <2>2, <2>4, <2>5, Constants DEF MachineState
<1>11. CASE ISA!Jump(w)
  BY <1>1, <1>2, <1>11, Constants DEF ISA!Jump, MachineState
<1>12. CASE ISA!Call(w)
  BY <1>1, <1>2, <1>3, <1>4, <1>5, <1>12, Constants DEF ISA!Call, MachineState
<1>13. CASE StackIsKept(w, junk)
  BY <1>1, <1>3, <1>4, <1>13 DEF StackIsKept, MachineState
<1>14. CASE ISA!Push(w)
  BY <1>1, <1>2, <1>3, <1>4, <1>5, <1>14, Constants DEF ISA!Push, MachineState
<1>15. CASE ISA!Pop(w, junk)
  <2>1. ISA!Plus(ISA!Top, {3}) \in Word /\ ISA!Load(ISA!Top, junk) \in Word
    BY <1>2, <1>3, <1>4, Constants
  <2>2. regs' = [regs EXCEPT ![ISA!SP] = ISA!Plus(ISA!Top, {3}),
                             ![ISA!A(w)] = ISA!Load(ISA!Top, junk)]
    BY <1>15 DEF ISA!Pop
  <2>3. regs' \in [Regs -> Word]
    BY <1>1, <2>1, <2>2 DEF MachineState
  <2> QED BY <1>1, <1>2, <1>15, <2>3, Constants DEF ISA!Pop, MachineState
<1> QED BY <1>6, <1>7, <1>8, <1>9, <1>10, <1>11, <1>12, <1>13, <1>14, <1>15 DEF Done

\* A cycle that validates is an instruction or a departure; one that does not changes nothing.
LEMMA CycleIsStep ==
  ASSUME MachineState, stop \in BOOLEAN, Next
  PROVE  \/ /\ stop = FALSE
            /\ \E junk1, junk2, junk \in Garbage : Done(ISA!Fetch(junk1, junk2), junk)
         \/ UNCHANGED <<regs, mem, pc, cc, stop>>
<1>1. PICK junk1, junk2, junk \in Garbage :
        Perform(Decode(memory_read_unaligned(mem, pc, junk1, junk2)),
                Execute(Decode(memory_read_unaligned(mem, pc, junk1, junk2)), junk))
  BY DEF Next, Cycle
<1>2. stop = FALSE
  BY DEF Next, Cycle, Running
<1>3. junk \in Word
  BY MachineAssumption
<1> DEFINE w == ISA!Fetch(junk1, junk2)
<1>4. Perform(Decode(w), Execute(Decode(w), junk))
  BY <1>1, FetchSame
<1> HIDE DEF w
<1>5. Effect(Decode(w), Execute(Decode(w), junk)) \/ UNCHANGED <<regs, mem, pc, cc, stop>>
  BY <1>4 DEF Perform, Effect
<1>6. CASE Effect(Decode(w), Execute(Decode(w), junk))
  <2>1. Done(w, junk)
    BY <1>2, <1>3, <1>6, EachStep
  <2> QED BY <1>2, <2>1 DEF w
<1> QED BY <1>5, <1>6

-----------------------------------------------------------------------------
(***************************************************************************)
(* The validator.  Removing one element keeps the rest in order, and a     *)
(* lookup that succeeds leaves nothing older than the instruction.         *)
(***************************************************************************)
LEMMA CatFacts ==
  ASSUME NEW s \in Seq(Entry), NEW f \in Seq(Entry)
  PROVE  /\ s \o f \in Seq(Entry)
         /\ Len(s) \in Nat /\ Len(f) \in Nat /\ Len(s \o f) = Len(s) + Len(f)
         /\ DOMAIN s = 1..Len(s) /\ DOMAIN (s \o f) = 1..(Len(s) + Len(f))
         /\ \A i \in 1..(Len(s) + Len(f)) : (s \o f)[i] = IF i <= Len(s) THEN s[i] ELSE f[i - Len(s)]
<1>1. /\ s \o f \in Seq(Entry) /\ Len(s \o f) = Len(s) + Len(f)
      /\ \A i \in 1..(Len(s) + Len(f)) : (s \o f)[i] = IF i <= Len(s) THEN s[i] ELSE f[i - Len(s)]
  BY ConcatProperties
<1> QED BY <1>1

LEMMA Counters ==
  ASSUME NEW s \in Seq(Entry), NEW i \in DOMAIN s
  PROVE  s[i] \in Entry /\ s[i].counter \in Nat
<1>1. s[i] \in Entry
  OBVIOUS
<1> QED BY <1>1 DEF Entry

LEMMA FillKeeps ==
  ASSUME NEW t \in Tracers
  PROVE  Fill(t) \in Tracers /\ Remaining(Fill(t)) = Remaining(t)
<1> DEFINE f == t.file
           room == IF t.input_failed THEN 0 ELSE Depth - Len(t.entries)
           got == IF Len(f) < room THEN Len(f) ELSE room
           front == SubSeq(f, 1, got)
           back == SubSeq(f, got + 1, Len(f))
<1>1. /\ f \in Seq(Entry) /\ t.entries \in Seq(Entry) /\ t.input_failed \in BOOLEAN
      /\ Len(t.entries) <= Depth /\ Len(f) \in Nat /\ Len(t.entries) \in Nat
  <2>1. /\ f \in Seq(Entry) /\ t.entries \in Seq(Entry) /\ t.input_failed \in BOOLEAN
        /\ Len(t.entries) <= Depth
    BY DEF Tracers
  <2> QED BY <2>1, LenProperties
<1>2. room \in Nat /\ got \in 0..Len(f) /\ (t.input_failed \/ got < room) \in BOOLEAN
  BY <1>1 DEF Depth
<1>3. got + Len(t.entries) <= Depth
  <2> DEFINE k == Len(t.entries)
             n == Len(f)
  <2>1. k \in Nat /\ n \in Nat /\ k <= 4 /\ got = (IF n < room THEN n ELSE room)
    BY <1>1 DEF Depth
  <2>2. room <= 4 - k /\ room \in Nat
    <3>1. room = (IF t.input_failed THEN 0 ELSE 4 - k)
      BY DEF Depth
    <3>2. CASE t.input_failed
      BY <2>1, <3>1, <3>2
    <3>3. CASE ~t.input_failed
      BY <1>2, <2>1, <3>1, <3>3
    <3> QED BY <3>2, <3>3
  <2> HIDE DEF room, got, k, n
  <2>3. got + k <= 4
    BY <2>1, <2>2
  <2> QED BY <2>3 DEF Depth, k
<1>4. Fill(t) = [t EXCEPT !.entries = t.entries \o front, !.file = back,
                          !.input_failed = t.input_failed \/ got < room]
  BY DEF Fill, Tracers
<1> HIDE DEF room, got
<1>5. front \in Seq(Entry) /\ Len(front) = got /\ back \in Seq(Entry)
  <2>1. \A i \in 1..Len(f) : f[i] \in Entry
    BY <1>1
  <2>2. \A i \in 1..got : f[i] \in Entry
    BY <1>1, <1>2, <2>1
  <2>3. \A i \in (got + 1)..Len(f) : f[i] \in Entry
    BY <1>1, <1>2, <2>1
  <2>4. front \in Seq(Entry) /\ Len(front) = got
    BY <1>2, <2>2, SubSeqProperties
  <2>5. back \in Seq(Entry)
    BY <1>1, <1>2, <2>3, SubSeqProperties
  <2> QED BY <2>4, <2>5
<1>6. front \o back = f
  <2>1. 1 \in 1..(Len(f) + 1) /\ got \in (1 - 1)..Len(f) /\ Len(f) \in got..Len(f)
    BY <1>1, <1>2
  <2>2. front \o back = SubSeq(f, 1, Len(f))
    BY <1>1, <2>1, ConcatAdjacentSubSeq
  <2> QED BY <1>1, <2>2, SubSeqFull
<1> HIDE DEF front, back, f
<1>7. t.entries \o front \in Seq(Entry) /\ Len(t.entries \o front) <= Depth
  BY <1>1, <1>2, <1>3, <1>5, CatFacts DEF Depth
<1>8. Fill(t) \in Tracers
  <2> DEFINE joined == t.entries \o front
             failed == t.input_failed \/ got < room
  <2>1. joined \in Seq(Entry) /\ Len(joined) <= Depth /\ failed \in BOOLEAN
    BY <1>2, <1>7
  <2>2. Fill(t) = [t EXCEPT !.entries = joined, !.file = back, !.input_failed = failed]
    BY <1>4
  <2> HIDE DEF joined, failed
  <2> QED BY <1>5, <2>1, <2>2 DEF Tracers
<1>9. (t.entries \o front) \o back = t.entries \o (front \o back)
  <2>1. t.entries \in Seq(Entry) /\ front \in Seq(Entry) /\ back \in Seq(Entry)
    BY <1>1, <1>5
  <2> DEFINE a == t.entries
  <2>2. a \in Seq(Entry)
    BY <2>1
  <2> HIDE DEF a
  <2>3. (a \o front) \o back = a \o (front \o back)
    BY <2>1, <2>2, ConcatAssociative
  <2> QED BY <2>3 DEF a
<1>10. Fill(t).entries = t.entries \o front /\ Fill(t).file = back
  BY <1>4 DEF Tracers
<1> QED BY <1>6, <1>8, <1>9, <1>10 DEF Remaining, f

\* A sequence without its m-th element.
LEMMA Without ==
  ASSUME NEW s \in Seq(Entry), NEW f \in Seq(Entry), NEW m \in DOMAIN s
  PROVE  LET e == SubSeq(s, 1, m - 1) \o SubSeq(s, m + 1, Len(s))
             old == s \o f
             new == e \o f
         IN /\ e \in Seq(Entry) /\ Len(e) = Len(s) - 1
            /\ Len(new) = Len(old) - 1
            /\ \A i \in DOMAIN new : new[i] = old[IF i < m THEN i ELSE i + 1]
<1> DEFINE l == SubSeq(s, 1, m - 1)
           r == SubSeq(s, m + 1, Len(s))
           e == l \o r
<1>1. /\ m \in 1..Len(s) /\ Len(s) \in Nat /\ Len(f) \in Nat
      /\ \A i \in 1..Len(s) : s[i] \in Entry
  OBVIOUS
<1>2. l \in Seq(Entry) /\ Len(l) = m - 1 /\ \A i \in 1..(m - 1) : l[i] = s[i]
  <2>1. \A i \in 1..(m - 1) : s[i] \in Entry
    BY <1>1
  <2>2. 1 \in Int /\ m - 1 \in Int
    BY <1>1
  <2>3. /\ l \in Seq(Entry) /\ Len(l) = IF 1 <= m - 1 THEN m - 1 - 1 + 1 ELSE 0
        /\ \A i \in 1..(m - 1 - 1 + 1) : l[i] = s[1 + i - 1]
    BY <2>1, <2>2, SubSeqProperties
  <2> HIDE DEF l
  <2> QED BY <1>1, <2>3
<1>3. /\ r \in Seq(Entry) /\ Len(r) = Len(s) - m
      /\ \A i \in 1..(Len(s) - m) : r[i] = s[m + i]
  <2>1. \A i \in (m + 1)..Len(s) : s[i] \in Entry
    BY <1>1
  <2>2. m + 1 \in Int /\ Len(s) \in Int
    BY <1>1
  <2>3. /\ r \in Seq(Entry)
        /\ Len(r) = IF m + 1 <= Len(s) THEN Len(s) - (m + 1) + 1 ELSE 0
        /\ \A i \in 1..(Len(s) - (m + 1) + 1) : r[i] = s[m + 1 + i - 1]
    BY <2>1, <2>2, SubSeqProperties
  <2> HIDE DEF r
  <2> QED BY <1>1, <2>3
<1> HIDE DEF l, r
<1>4. /\ e \in Seq(Entry) /\ Len(e) = Len(s) - 1
      /\ \A i \in 1..(m - 1) : e[i] = s[i]
      /\ \A i \in m..(Len(s) - 1) : e[i] = s[i + 1]
  <2>1. /\ e \in Seq(Entry) /\ Len(e) = Len(l) + Len(r)
        /\ \A i \in 1..(Len(l) + Len(r)) : e[i] = IF i <= Len(l) THEN l[i] ELSE r[i - Len(l)]
    BY <1>2, <1>3, CatFacts
  <2> HIDE DEF e
  <2>2. Len(l) + Len(r) = Len(s) - 1 /\ Len(l) = m - 1
    BY <1>1, <1>2, <1>3
  <2>3. ASSUME NEW i \in 1..(m - 1) PROVE e[i] = s[i]
    <3>1. i \in 1..(Len(l) + Len(r)) /\ i <= Len(l)
      BY <1>1, <2>2
    <3> QED BY <1>2, <2>1, <3>1
  <2>4. ASSUME NEW i \in m..(Len(s) - 1) PROVE e[i] = s[i + 1]
    <3>1. /\ i \in 1..(Len(l) + Len(r)) /\ ~(i <= Len(l))
          /\ i - Len(l) \in 1..(Len(s) - m) /\ m + (i - Len(l)) = i + 1
      BY <1>1, <2>2
    <3>2. e[i] = r[i - Len(l)]
      BY <2>1, <3>1
    <3>3. r[i - Len(l)] = s[m + (i - Len(l))]
      BY <1>3, <3>1
    <3> QED BY <3>1, <3>2, <3>3
  <2> QED BY <2>1, <2>2, <2>3, <2>4
<1> HIDE DEF e
<1>5. /\ Len(e \o f) = Len(e) + Len(f) /\ DOMAIN (e \o f) = 1..(Len(e) + Len(f))
      /\ \A i \in 1..(Len(e) + Len(f)) : (e \o f)[i] = IF i <= Len(e) THEN e[i] ELSE f[i - Len(e)]
  BY <1>4, CatFacts
<1>6. /\ Len(s \o f) = Len(s) + Len(f)
      /\ \A i \in 1..(Len(s) + Len(f)) : (s \o f)[i] = IF i <= Len(s) THEN s[i] ELSE f[i - Len(s)]
  BY CatFacts
<1>7. ASSUME NEW i \in DOMAIN (e \o f)
      PROVE  (e \o f)[i] = (s \o f)[IF i < m THEN i ELSE i + 1]
  <2>1. i \in 1..(Len(s) - 1 + Len(f))
    BY <1>4, <1>5
  <2>2. CASE i < m
    <3>0. /\ i \in 1..(Len(e) + Len(f)) /\ i <= Len(e) /\ i \in 1..(m - 1)
          /\ i \in 1..(Len(s) + Len(f)) /\ i <= Len(s)
      BY <1>1, <1>4, <2>1, <2>2
    <3>1. (e \o f)[i] = s[i]
      BY <1>4, <1>5, <3>0
    <3>2. (s \o f)[i] = s[i]
      BY <1>6, <3>0
    <3> QED BY <2>2, <3>1, <3>2
  <2>3. CASE m <= i /\ i < Len(s)
    <3>0. /\ i \in 1..(Len(e) + Len(f)) /\ i <= Len(e) /\ i \in m..(Len(s) - 1)
          /\ i + 1 \in 1..(Len(s) + Len(f)) /\ i + 1 <= Len(s)
      BY <1>1, <1>4, <2>1, <2>3
    <3>1. (e \o f)[i] = s[i + 1]
      BY <1>4, <1>5, <3>0
    <3>2. (s \o f)[i + 1] = s[i + 1]
      BY <1>6, <3>0
    <3> QED BY <1>1, <2>1, <2>3, <3>1, <3>2
  <2>4. CASE Len(s) <= i
    <3>1. (e \o f)[i] = f[i - (Len(s) - 1)]
      BY <1>1, <1>4, <1>5, <2>1, <2>4
    <3>2. (s \o f)[i + 1] = f[i + 1 - Len(s)]
      BY <1>1, <1>6, <2>1, <2>4
    <3>3. i - (Len(s) - 1) = i + 1 - Len(s) /\ ~(i < m)
      BY <1>1, <2>1, <2>4
    <3> QED BY <3>1, <3>2, <3>3
  <2> QED BY <1>1, <2>1, <2>2, <2>3, <2>4
<1>8. Len(e \o f) = Len(s \o f) - 1
  BY <1>1, <1>4, <1>5, <1>6
<1> QED BY <1>4, <1>7, <1>8 DEF e, l, r

LEMMA LookUp ==
  ASSUME NEW t0 \in Tracers, InOrder(Remaining(t0)), NEW magic, NEW n \in Nat, NEW addr, NEW value
  PROVE  LET u == validate_magic(t0, magic, n, addr, value)
         IN /\ u \in Tracers
            /\ InOrder(Remaining(u))
            /\ u.error = "none" => \A i \in DOMAIN Remaining(u) : Remaining(u)[i].counter >= n
<1> DEFINE t == Fill(t0)
           e == t.entries
           old == Remaining(t)
           stale == {i \in DOMAIN e : e[i].counter < n}
           hit == {i \in DOMAIN e : e[i] = [counter |-> n, type |-> magic,
                                            destination |-> addr, value |-> value]}
           first == {i \in stale \cup hit : \A j \in stale \cup hit : i <= j}
           u == validate_magic(t0, magic, n, addr, value)
<1>1. t \in Tracers /\ InOrder(old)
  BY FillKeeps
<1>2. u = IF first = {} THEN [t EXCEPT !.error = "no matching write"]
          ELSE IF first \subseteq stale THEN [t EXCEPT !.error = "missed write"]
          ELSE LET m == CHOOSE i \in first : TRUE
               IN [t EXCEPT !.entries = SubSeq(e, 1, m - 1) \o SubSeq(e, m + 1, Len(e))]
  BY DEF validate_magic, RemoveAt
<1> HIDE DEF u
<1>3. CASE first = {} \/ first \subseteq stale
  <2>1. /\ u \in Tracers /\ u.error # "none" /\ u.entries = e /\ u.file = t.file
    BY <1>1, <1>2, <1>3 DEF Tracers
  <2> QED BY <1>1, <2>1 DEF u, Remaining
<1>4. CASE ~(first = {} \/ first \subseteq stale)
  <2> DEFINE m == CHOOSE i \in first : TRUE
             rest == SubSeq(e, 1, m - 1) \o SubSeq(e, m + 1, Len(e))
             new == rest \o t.file
  <2>1. m \in first
    BY <1>4
  <2>2. u = [t EXCEPT !.entries = rest]
    BY <1>2, <1>4
  <2>3. /\ e \in Seq(Entry) /\ t.file \in Seq(Entry) /\ old = e \o t.file /\ m \in DOMAIN e
        /\ Len(e) <= Depth
    BY <1>1, <2>1 DEF Tracers, Remaining
  <2>4. \A k \in DOMAIN e : e[k].counter < n => k >= m
    BY <2>1, <2>3
  <2>5. e[m].counter = n
    <3>1. PICK k \in first : k \notin stale
      BY <1>4
    <3>2. k = m
      BY <2>1, <2>3, <3>1
    <3> QED BY <3>1, <3>2
  <2> HIDE DEF m, e, old
  <2>6. /\ old \in Seq(Entry) /\ Len(e) \in Nat /\ Len(t.file) \in Nat /\ m \in 1..Len(e)
        /\ DOMAIN old = 1..(Len(e) + Len(t.file)) /\ DOMAIN e = 1..Len(e)
        /\ \A k \in 1..Len(e) : old[k] = e[k]
    BY <2>3, CatFacts
  <2>7. \A k \in DOMAIN old : old[k].counter >= n
    <3> SUFFICES ASSUME NEW k \in DOMAIN old PROVE old[k].counter >= n
      OBVIOUS
    <3>1. k \in 1..(Len(e) + Len(t.file)) /\ m \in DOMAIN old
      BY <2>6
    <3>2. old[k].counter \in Nat /\ old[m] = e[m]
      BY <2>6, Counters
    <3>3. CASE k < m
      <4>1. k \in DOMAIN e /\ old[k] = e[k]
        BY <2>6, <3>1, <3>3
      <4>2. ~(e[k].counter < n)
        BY <2>3, <2>4, <3>3, <4>1
      <4> QED BY <3>2, <4>1, <4>2
    <3>4. CASE k = m
      BY <2>5, <3>2, <3>4
    <3>5. CASE m < k
      BY <1>1, <2>5, <3>1, <3>2, <3>5 DEF InOrder
    <3> QED BY <2>6, <3>1, <3>3, <3>4, <3>5
  <2>8. /\ rest \in Seq(Entry) /\ Len(rest) = Len(e) - 1 /\ Len(new) = Len(old) - 1
        /\ \A i \in DOMAIN new : new[i] = old[IF i < m THEN i ELSE i + 1]
    BY <2>3, Without
  <2>9. u \in Tracers /\ Remaining(u) = new
    <3>1. Len(rest) <= Depth
      BY <2>3, <2>6, <2>8 DEF Depth
    <3> HIDE DEF rest
    <3>2. u \in Tracers /\ u.entries = rest /\ u.file = t.file
      BY <1>1, <2>2, <2>8, <3>1 DEF Tracers
    <3> QED BY <3>2 DEF Remaining
  <2> HIDE DEF rest
  <2>10. /\ DOMAIN new = 1..Len(new) /\ DOMAIN old = 1..Len(old)
         /\ Len(new) \in Nat /\ Len(old) \in Nat /\ m \in Nat
    <3>1. new \in Seq(Entry) /\ old \in Seq(Entry)
      BY <2>3, <2>6, <2>8, CatFacts
    <3> HIDE DEF new
    <3>2. m \in Nat
      BY <2>6
    <3> QED BY <3>1, <3>2, LenProperties
  <2> HIDE DEF new
  <2>11. \A i \in DOMAIN new : (IF i < m THEN i ELSE i + 1) \in DOMAIN old
    BY <2>6, <2>8, <2>10
  <2>12. InOrder(new)
    <3> SUFFICES ASSUME NEW i \in DOMAIN new, NEW j \in DOMAIN new, i < j
                 PROVE  new[i].counter <= new[j].counter
      BY DEF InOrder
    <3>1. (IF i < m THEN i ELSE i + 1) < (IF j < m THEN j ELSE j + 1)
      BY <2>10
    <3> QED BY <1>1, <2>8, <2>11, <3>1 DEF InOrder
  <2>13. \A i \in DOMAIN new : new[i].counter >= n
    BY <2>7, <2>8, <2>11
  <2> QED BY <2>9, <2>12, <2>13 DEF u
<1> QED BY <1>3, <1>4

LEMMA ValidateLooksUp ==
  ASSUME NEW t \in Tracers, InOrder(Remaining(t)), NEW n \in Nat, NEW x
  PROVE  LET u == Validate(t, n, x)
         IN /\ u \in Tracers
            /\ InOrder(Remaining(u))
            /\ u.error = "none" => \A i \in DOMAIN Remaining(u) : Remaining(u)[i].counter >= n
<1> DEFINE t1 == validate_magic(t, Trace_Type_pc, n, {}, x.next_pc)
           reg == validate_magic(t1, Trace_Type_reg, n, x.target_reg, x.datapath_result)
           cell == validate_magic(t1, Trace_Type_mem, n, x.target_mem, x.memory_result)
           Good(u) == /\ u \in Tracers
                      /\ InOrder(Remaining(u))
                      /\ u.error = "none" =>
                           \A i \in DOMAIN Remaining(u) : Remaining(u)[i].counter >= n
<1>1. Good(t1)
  BY LookUp
<1>2. Good(reg)
  BY <1>1, LookUp
<1>3. Good(cell)
  BY <1>1, LookUp
<1>4. Validate(t, n, x) \in {t1, reg, cell}
  BY DEF Validate
<1> HIDE DEF t1, reg, cell
<1>5. Good(Validate(t, n, x))
  BY <1>1, <1>2, <1>3, <1>4
<1> QED BY <1>5

\* What is removed from the buffer is removed from the trace.
LEMMA RemoveFromFront ==
  ASSUME NEW s \in Seq(Entry), NEW f \in Seq(Entry), NEW m \in DOMAIN s
  PROVE  /\ m \in DOMAIN (s \o f) /\ (s \o f)[m] = s[m]
         /\ RemoveAt(s, m) \o f = RemoveAt(s \o f, m)
         /\ RemoveAt(s, m) \in Seq(Entry)
<1> DEFINE g == s \o f
           a == RemoveAt(s, m) \o f
           b == RemoveAt(g, m)
<1>1. g \in Seq(Entry) /\ m \in DOMAIN g /\ g[m] = s[m] /\ Len(g) \in Nat
  BY CatFacts
<1>2. /\ RemoveAt(s, m) \in Seq(Entry) /\ a \in Seq(Entry) /\ Len(a) = Len(g) - 1
      /\ \A i \in DOMAIN a : a[i] = g[IF i < m THEN i ELSE i + 1]
  <2>1. /\ RemoveAt(s, m) \in Seq(Entry) /\ Len(a) = Len(g) - 1
        /\ \A i \in DOMAIN a : a[i] = g[IF i < m THEN i ELSE i + 1]
    BY Without DEF RemoveAt
  <2> QED BY <2>1, CatFacts
<1> HIDE DEF g, a
<1>3. /\ b \in Seq(Entry) /\ Len(b) = Len(g) - 1
      /\ \A i \in DOMAIN b : b[i] = g[IF i < m THEN i ELSE i + 1]
  <2>1. <<>> \in Seq(Entry)
    OBVIOUS
  <2>2. /\ b \in Seq(Entry) /\ Len(b) = Len(g) - 1
        /\ \A i \in DOMAIN (b \o <<>>) : (b \o <<>>)[i] = (g \o <<>>)[IF i < m THEN i ELSE i + 1]
    BY <1>1, <2>1, Without DEF RemoveAt
  <2> HIDE DEF b
  <2>3. b \o <<>> = b /\ g \o <<>> = g
    BY <1>1, <2>2, ConcatEmptySeq
  <2> QED BY <2>2, <2>3
<1> HIDE DEF b
<1>4. DOMAIN a = 1..Len(a) /\ DOMAIN b = 1..Len(b)
  BY <1>2, <1>3, LenProperties
<1>5. a = b
  BY <1>2, <1>3, <1>4, SeqEqual
<1> QED BY <1>1, <1>2, <1>5 DEF a, b, g

\* A lookup that succeeds takes one line out of the trace, the one looked for.
LEMMA Takes ==
  ASSUME NEW t0 \in Tracers, NEW magic, NEW n, NEW addr, NEW value,
         validate_magic(t0, magic, n, addr, value).error = "none"
  PROVE  \E m \in DOMAIN Remaining(t0) :
           /\ Remaining(t0)[m] = [counter |-> n, type |-> magic, destination |-> addr, value |-> value]
           /\ Remaining(validate_magic(t0, magic, n, addr, value)) = RemoveAt(Remaining(t0), m)
<1> DEFINE t == Fill(t0)
           e == t.entries
           line == [counter |-> n, type |-> magic, destination |-> addr, value |-> value]
           stale == {i \in DOMAIN e : e[i].counter < n}
           hit == {i \in DOMAIN e : e[i] = line}
           first == {i \in stale \cup hit : \A j \in stale \cup hit : i <= j}
           m == CHOOSE i \in first : TRUE
           u == validate_magic(t0, magic, n, addr, value)
<1>1. t \in Tracers /\ Remaining(t0) = e \o t.file /\ e \in Seq(Entry) /\ t.file \in Seq(Entry)
  BY FillKeeps DEF Tracers, Remaining
<1>2. u = IF first = {} THEN [t EXCEPT !.error = "no matching write"]
          ELSE IF first \subseteq stale THEN [t EXCEPT !.error = "missed write"]
          ELSE [t EXCEPT !.entries = RemoveAt(e, m)]
  BY DEF validate_magic
<1>3. u.error = "none"
  OBVIOUS
<1> HIDE DEF u
<1>4. first # {} /\ ~(first \subseteq stale)
  BY <1>1, <1>2, <1>3 DEF Tracers
<1>5. m \in hit
  <2>1. m \in first
    BY <1>4
  <2>2. PICK k \in first : k \notin stale
    BY <1>4
  <2>3. k = m
    BY <1>1, <2>1, <2>2, LenProperties
  <2> QED BY <2>1, <2>2, <2>3
<1>6. m \in DOMAIN e /\ e[m] = line
  BY <1>5
<1>7. u.entries = RemoveAt(e, m) /\ u.file = t.file
  BY <1>1, <1>2, <1>4 DEF Tracers
<1> HIDE DEF m, e, t, line, stale, hit, first
<1>8. /\ m \in DOMAIN Remaining(t0) /\ Remaining(t0)[m] = line
      /\ Remaining(u) = RemoveAt(Remaining(t0), m)
  <2> DEFINE f == t.file
  <2>1. f \in Seq(Entry) /\ Remaining(t0) = e \o f /\ Remaining(u) = RemoveAt(e, m) \o f
    BY <1>1, <1>7 DEF Remaining
  <2> HIDE DEF f
  <2> QED BY <1>1, <1>6, <2>1, RemoveFromFront
<1> QED BY <1>8 DEF u, line

\* The line that a lookup of instruction n would take.
Line(n, type, destination, value) ==
  [counter |-> n, type |-> type, destination |-> destination, value |-> value]

\* A validation that succeeds takes the pc line, and then the line of the
\* register write or, without one, of the memory write.
LEMMA ValidateTakes ==
  ASSUME NEW t \in Tracers, InOrder(Remaining(t)), NEW n \in Nat, NEW x, Validate(t, n, x).error = "none"
  PROVE  \E i \in DOMAIN Remaining(t) :
           LET rest == RemoveAt(Remaining(t), i)
               left == Remaining(Validate(t, n, x))
           IN /\ Remaining(t)[i] = Line(n, Trace_Type_pc, {}, x.next_pc)
              /\ ~x.reg_wr_enable /\ ~x.mem_wr_enable => left = rest
              /\ x.reg_wr_enable => \E j \in DOMAIN rest :
                   rest[j] = Line(n, Trace_Type_reg, x.target_reg, x.datapath_result) /\ left = RemoveAt(rest, j)
              /\ ~x.reg_wr_enable /\ x.mem_wr_enable => \E j \in DOMAIN rest :
                   rest[j] = Line(n, Trace_Type_mem, x.target_mem, x.memory_result) /\ left = RemoveAt(rest, j)
<1> DEFINE t1 == validate_magic(t, Trace_Type_pc, n, {}, x.next_pc)
           reg == validate_magic(t1, Trace_Type_reg, n, x.target_reg, x.datapath_result)
           cell == validate_magic(t1, Trace_Type_mem, n, x.target_mem, x.memory_result)
           u == Validate(t, n, x)
<1>1. u = IF t1.error # "none" THEN t1 ELSE IF x.reg_wr_enable THEN reg ELSE IF x.mem_wr_enable THEN cell ELSE t1
  BY DEF Validate
<1>2. t1 \in Tracers
  BY LookUp
<1>3. u.error = "none"
  OBVIOUS
<1>4. t1.error = "none" => \E m \in DOMAIN Remaining(t) :
        Remaining(t)[m] = Line(n, Trace_Type_pc, {}, x.next_pc) /\ Remaining(t1) = RemoveAt(Remaining(t), m)
  BY Takes DEF Line
<1> HIDE DEF t1
<1>5. reg.error = "none" => \E m \in DOMAIN Remaining(t1) :
        /\ Remaining(t1)[m] = Line(n, Trace_Type_reg, x.target_reg, x.datapath_result)
        /\ Remaining(reg) = RemoveAt(Remaining(t1), m)
  BY <1>2, Takes DEF Line
<1>6. cell.error = "none" => \E m \in DOMAIN Remaining(t1) :
        /\ Remaining(t1)[m] = Line(n, Trace_Type_mem, x.target_mem, x.memory_result)
        /\ Remaining(cell) = RemoveAt(Remaining(t1), m)
  BY <1>2, Takes DEF Line
<1> HIDE DEF reg, cell, u
<1>7. t1.error = "none"
  BY <1>1, <1>3
<1>8. PICK i \in DOMAIN Remaining(t) :
        Remaining(t)[i] = Line(n, Trace_Type_pc, {}, x.next_pc) /\ Remaining(t1) = RemoveAt(Remaining(t), i)
  BY <1>4, <1>7
<1>9. /\ ~x.reg_wr_enable /\ ~x.mem_wr_enable => u = t1
      /\ x.reg_wr_enable => u = reg
      /\ ~x.reg_wr_enable /\ x.mem_wr_enable => u = cell
  BY <1>1, <1>7
<1> QED BY <1>3, <1>5, <1>6, <1>8, <1>9 DEF u

-----------------------------------------------------------------------------
(***************************************************************************)
(* The theorems.                                                           *)
(***************************************************************************)
\* The inductive invariant: the trace stays in order as entries are used up.
IInv ==
  /\ TypeOK
  /\ \A t \in tracer : InOrder(Remaining(t))
  /\ WritesNotForgotten

LEMMA InitIInv == Init => IInv
<1> SUFFICES ASSUME Init PROVE IInv
  OBVIOUS
<1>1. /\ regs \in [Regs -> Word] /\ mem \in [Cells -> Word] /\ pc \in Word
      /\ cc \in [of : BOOLEAN, sf : BOOLEAN, zf : BOOLEAN] /\ stop \in BOOLEAN
      /\ instruction_number \in 0..MaxInsns /\ instruction_number = 0
  <2>1. regs \in [Regs -> Word] /\ mem \in [Cells -> Word]
    BY MachineAssumption DEF Init
  <2>2. pc \in Word
    BY Constants DEF Init
  <2>3. instruction_number \in 0..MaxInsns /\ instruction_number = 0
    BY MachineAssumption DEF Init
  <2>4. cc \in [of : BOOLEAN, sf : BOOLEAN, zf : BOOLEAN] /\ stop \in BOOLEAN
    BY DEF Init
  <2> QED BY <2>1, <2>2, <2>3, <2>4
<1>2. CASE tracer = {}
  BY <1>1, <1>2 DEF IInv, TypeOK, WritesNotForgotten
<1>3. ASSUME NEW lines \in Traces(mem, regs), tracer = {create_trace_reader(lines)}
      PROVE  IInv
  <2>1. lines \in Seq(Entry) /\ InOrder(lines)
    BY MachineAssumption DEF Init
  <2> DEFINE t == create_trace_reader(lines)
  <2>2. t \in Tracers /\ Remaining(t) = lines
    <3>1. <<>> \in Seq(Entry) /\ Len(<<>>) = 0 /\ <<>> \o lines = lines
      BY <2>1, ConcatEmptySeq
    <3> QED BY <2>1, <3>1 DEF create_trace_reader, Tracers, Remaining, Depth
  <2>3. \A i \in DOMAIN lines : lines[i].counter >= 0
    <3>1. \A i \in DOMAIN lines : lines[i].counter \in Nat
      BY <2>1, Counters
    <3> QED BY <3>1
  <2> HIDE DEF t
  <2>4. tracer = {t}
    BY <1>3 DEF t
  <2> QED BY <1>1, <2>1, <2>2, <2>3, <2>4 DEF IInv, TypeOK, WritesNotForgotten
<1> QED BY <1>2, <1>3 DEF Init

\* What a cycle does to the tracer.
LEMMA CycleTracer ==
  ASSUME IInv, Next
  PROVE  /\ \A t, u \in tracer' : t = u /\ t \in Tracers
         /\ \A t \in tracer' : InOrder(Remaining(t))
         /\ WritesNotForgotten'
<1> DEFINE n == instruction_number'
<1>1. PICK d, x : Perform(d, x)
  BY DEF Next, Cycle
<1>2. n = instruction_number + 1 /\ n \in Nat
  BY MachineAssumption DEF Next, Cycle, IInv, TypeOK
<1>3. tracer' = {IF d.is_halt THEN t ELSE Validate(t, n, x) : t \in tracer}
  BY <1>1 DEF Perform
<1> HIDE DEF n
<1>4. \A t \in tracer : t \in Tracers /\ InOrder(Remaining(t)) /\ \A v \in tracer : v = t
  BY DEF IInv, TypeOK
<1>5. \A t \in tracer :
        LET u == Validate(t, n, x)
        IN /\ u \in Tracers
           /\ InOrder(Remaining(u))
           /\ u.error = "none" => \A i \in DOMAIN Remaining(u) : Remaining(u)[i].counter >= n
  BY <1>2, <1>4, ValidateLooksUp
<1>6. \A u \in tracer' : u \in Tracers /\ InOrder(Remaining(u))
  BY <1>3, <1>4, <1>5
<1>7. \A u, v \in tracer' : u = v
  BY <1>3, <1>4
<1>8. WritesNotForgotten'
  <2> SUFFICES ASSUME Running', NEW u \in tracer'
               PROVE  \A i \in DOMAIN Remaining(u) : Remaining(u)[i].counter >= n
    BY DEF WritesNotForgotten, n
  <2>1. u.error = "none" /\ (\A v \in tracer' : v.error = "none") /\ ~stop'
    BY DEF Running
  <2>2. ~d.is_halt
    BY <1>1, <2>1 DEF Perform
  <2>3. PICK t \in tracer : u = Validate(t, n, x)
    BY <1>3, <2>2
  <2> QED BY <1>5, <2>1, <2>3
<1> QED BY <1>6, <1>7, <1>8

LEMMA NextIInv == IInv /\ [Next]_vars => IInv'
<1> SUFFICES ASSUME IInv, [Next]_vars PROVE IInv'
  OBVIOUS
<1>1. CASE Next
  <2>1. MachineState /\ stop \in BOOLEAN /\ instruction_number \in 0..MaxInsns
    BY DEF IInv, TypeOK, MachineState
  <2>2. MachineState' /\ stop' \in BOOLEAN
    <3>1. CASE UNCHANGED <<regs, mem, pc, cc, stop>>
      BY <2>1, <3>1 DEF MachineState
    <3>2. CASE \E junk1, junk2, junk \in Garbage : Done(ISA!Fetch(junk1, junk2), junk)
      <4>1. PICK junk1, junk2, junk \in Garbage : Done(ISA!Fetch(junk1, junk2), junk)
        BY <3>2
      <4>2. junk \in Word
        BY MachineAssumption
      <4> QED BY <2>1, <4>1, <4>2, StepTyped
    <3> QED BY <1>1, <2>1, <3>1, <3>2, CycleIsStep
  <2>3. instruction_number' \in 0..MaxInsns
    BY <1>1, <2>1, MachineAssumption DEF Next, Cycle
  <2> QED BY <1>1, <2>2, <2>3, CycleTracer DEF IInv, TypeOK, MachineState
<1>2. CASE UNCHANGED vars
  BY <1>2 DEF vars, IInv, TypeOK, WritesNotForgotten, Running
<1> QED BY <1>1, <1>2

LEMMA Invariant == Spec => []IInv
BY InitIInv, NextIInv, PTL DEF Spec

\* Every register, cell and special register always holds a 64-bit word
\* (main.c:125-246).
THEOREM MachineTyped == Spec => []TypeOK
BY Invariant, PTL DEF IInv

\* No write that the reference made before the last validated instruction
\* is left unreported, for every trace in order (support.c:54).
THEOREM NothingForgotten == Spec => []WritesNotForgotten
BY Invariant, PTL DEF IInv

\* The register a cycle reports is one, and only a pop reports %rsp and then
\* writes another register.
LEMMA ReportedRegister ==
  ASSUME MachineState, NEW w, NEW junk \in Word
  PROVE  LET d == Decode(w)
             x == Execute(d, junk)
         IN /\ x.target_reg \in Regs /\ x.reg_wr_enable \in BOOLEAN /\ d.is_pop \in BOOLEAN
            /\ d.is_pop => /\ x.reg_wr_enable /\ x.target_reg = REG_SP
                           /\ x.datapath_result = add(regs[REG_SP], {3})
<1> DEFINE d == Decode(w)
           x == Execute(d, junk)
<1>1. d.reg_a \in Regs /\ d.reg_b \in Regs /\ REG_SP \in Regs /\ {} \in Regs
  BY Fields, Constants DEF Regs
<1>2. x.target_reg \in Regs
  <2> HIDE DEF d
  <2>1. /\ \A c, v : v \in Regs => use_if(c, v) \in Regs
        /\ \A a, b : a \in Regs /\ b \in Regs => or(a, b) \in Regs
    BY <1>1 DEF use_if, or, Regs
  <2> QED BY <1>1, <2>1 DEF Execute, target_reg
<1>3. d.is_pop \in BOOLEAN /\ x.reg_wr_enable \in BOOLEAN
  BY Signals DEF Execute, reg_wr_enable
<1>4. ASSUME d.is_pop
      PROVE  x.reg_wr_enable /\ x.target_reg = REG_SP /\ x.datapath_result = add(regs[REG_SP], {3})
  <2>1. /\ d.is_cmov = FALSE /\ d.is_itor = FALSE /\ d.is_rtom = FALSE
        /\ d.is_mtor = FALSE /\ d.is_arit = FALSE /\ d.is_call = FALSE
        /\ d.is_push = FALSE /\ d.is_pop = TRUE /\ d.uses_rsp = TRUE
    <3>1. d.is_pop = (ISA!Op(w) = POP)
      BY Signals
    <3>2. ISA!Op(w) = POP
      BY <1>4, <3>1
    <3> QED BY <3>2, Signals, OpcodesDiffer DEF Opcodes
  <2>2. rsp(d, junk) = regs[REG_SP]
    BY <2>1, <1>1 DEF rsp, memory_read, MachineState
  <2> HIDE DEF d
  <2>3. datapath_result(d, junk) = add(rsp(d, junk), {3})
    BY <2>1, GateLaws DEF datapath_result, use_if
  <2>4. target_reg(d) = REG_SP
    BY <2>1, GateLaws DEF target_reg, use_if
  <2>5. reg_wr_enable(d)
    BY <2>1 DEF reg_wr_enable
  <2> QED BY <2>2, <2>3, <2>4, <2>5 DEF Execute
<1> QED BY <1>2, <1>3, <1>4

\* When the line of a write is true.
LEMMA TrueLines ==
  ASSUME NEW destination, NEW value
  PROVE  LET n == instruction_number' IN
         /\ pc' = value => IsTrue(Line(n, Trace_Type_pc, destination, value))
         /\ regs'[destination] = value \/ (destination = REG_SP /\ add(regs[REG_SP], {3}) = value) =>
              IsTrue(Line(n, Trace_Type_reg, destination, value))
         /\ (destination \in Cells => mem'[destination] = value) =>
              IsTrue(Line(n, Trace_Type_mem, destination, value))
<1> DEFINE n == instruction_number'
<1>1. ASSUME NEW type, NEW e, e = Line(n, type, destination, value)
      PROVE  e.counter = n /\ e.type = type /\ e.destination = destination /\ e.value = value
  BY <1>1 DEF Line
<1> HIDE DEF n
<1>2. Trace_Type_pc # Trace_Type_reg /\ Trace_Type_pc # Trace_Type_mem /\ Trace_Type_reg # Trace_Type_mem
  BY DEF Trace_Type_pc, Trace_Type_reg, Trace_Type_mem
<1>3. ASSUME pc' = value
      PROVE  IsTrue(Line(n, Trace_Type_pc, destination, value))
  <2> DEFINE e == Line(n, Trace_Type_pc, destination, value)
  <2>1. e.counter = n /\ e.type = Trace_Type_pc /\ e.value = value
    BY <1>1
  <2> HIDE DEF e
  <2>2. Claim(e)
    BY <1>2, <1>3, <2>1 DEF Claim
  <2> QED BY <2>1, <2>2 DEF IsTrue, e, n
<1>4. ASSUME regs'[destination] = value \/ (destination = REG_SP /\ add(regs[REG_SP], {3}) = value)
      PROVE  IsTrue(Line(n, Trace_Type_reg, destination, value))
  <2> DEFINE e == Line(n, Trace_Type_reg, destination, value)
  <2>1. e.counter = n /\ e.type = Trace_Type_reg /\ e.destination = destination /\ e.value = value
    BY <1>1
  <2> HIDE DEF e
  <2>2. Claim(e)
    BY <1>2, <1>4, <2>1 DEF Claim
  <2> QED BY <2>1, <2>2 DEF IsTrue, e, n
<1>5. ASSUME destination \in Cells => mem'[destination] = value
      PROVE  IsTrue(Line(n, Trace_Type_mem, destination, value))
  <2> DEFINE e == Line(n, Trace_Type_mem, destination, value)
  <2>1. e.counter = n /\ e.type = Trace_Type_mem /\ e.destination = destination /\ e.value = value
    BY <1>1
  <2> HIDE DEF e
  <2>2. Claim(e)
    BY <1>2, <1>5, <2>1 DEF Claim
  <2> QED BY <2>1, <2>2 DEF IsTrue, e, n
<1> QED BY <1>3, <1>4, <1>5 DEF n

LEMMA UsedLines ==
  ASSUME IInv, Next, NEW t \in tracer, NEW u \in tracer', u.error = "none", ~stop'
  PROVE  \E i \in DOMAIN Remaining(t) :
           LET rest == RemoveAt(Remaining(t), i)
           IN /\ Remaining(t)[i].type = Trace_Type_pc /\ IsTrue(Remaining(t)[i])
              /\ \/ Remaining(u) = rest /\ UNCHANGED <<regs, mem>>
                 \/ \E j \in DOMAIN rest :
                      /\ IsTrue(rest[j]) /\ Remaining(u) = RemoveAt(rest, j)
                      /\ rest[j].type = Trace_Type_reg \/ UNCHANGED regs
<1> DEFINE n == instruction_number'
<1>1. PICK junk1, junk2, junk \in Garbage :
        Perform(Decode(memory_read_unaligned(mem, pc, junk1, junk2)),
                Execute(Decode(memory_read_unaligned(mem, pc, junk1, junk2)), junk))
  BY DEF Next, Cycle
<1> DEFINE d == Decode(memory_read_unaligned(mem, pc, junk1, junk2))
           x == Execute(d, junk)
<1>2. MachineState /\ junk \in Word /\ n \in Nat
  BY MachineAssumption DEF IInv, TypeOK, MachineState, Next, Cycle
<1>3. /\ x.target_reg \in Regs /\ x.reg_wr_enable \in BOOLEAN /\ d.is_pop \in BOOLEAN
      /\ d.is_pop => /\ x.reg_wr_enable /\ x.target_reg = REG_SP
                     /\ x.datapath_result = add(regs[REG_SP], {3})
  BY <1>2, ReportedRegister
<1>4. Perform(d, x)
  BY <1>1
<1> HIDE DEF d, x, n
<1>5. \A v \in tracer' : v.error = "none"
  BY CycleTracer
<1>6. /\ pc' = x.next_pc /\ ~d.is_halt
      /\ regs' = memory_write(memory_write(regs, x.target_reg, x.datapath_result, x.reg_wr_enable),
                              d.reg_a, x.mem_stack_top, d.is_pop)
      /\ mem' = memory_write(mem, x.target_mem, x.memory_result, x.mem_wr_enable)
  BY <1>4, <1>5 DEF Perform
<1>7. u = Validate(t, n, x) /\ t \in Tracers /\ InOrder(Remaining(t))
  <2>1. PICK v \in tracer : u = IF d.is_halt THEN v ELSE Validate(v, n, x)
    BY <1>4 DEF Perform, n
  <2>2. v = t /\ t \in Tracers /\ InOrder(Remaining(t))
    BY DEF IInv, TypeOK
  <2> QED BY <1>6, <2>1, <2>2
<1>8. DOMAIN regs = Regs /\ DOMAIN mem = Cells
  BY <1>2 DEF MachineState
<1>9. /\ ~x.reg_wr_enable => regs' = regs
      /\ ~x.mem_wr_enable => mem' = mem
      /\ x.reg_wr_enable /\ ~d.is_pop => regs'[x.target_reg] = x.datapath_result
      /\ x.mem_wr_enable /\ x.target_mem \in Cells => mem'[x.target_mem] = x.memory_result
  BY <1>3, <1>6, <1>8 DEF memory_write
<1>10. IsTrue(Line(n, Trace_Type_pc, {}, x.next_pc))
  BY <1>6, TrueLines DEF n
<1>11. x.reg_wr_enable => IsTrue(Line(n, Trace_Type_reg, x.target_reg, x.datapath_result))
  <2> SUFFICES ASSUME x.reg_wr_enable
               PROVE  IsTrue(Line(n, Trace_Type_reg, x.target_reg, x.datapath_result))
    OBVIOUS
  <2> DEFINE register == x.target_reg
             result == x.datapath_result
  <2>1. regs'[register] = result \/ (register = REG_SP /\ add(regs[REG_SP], {3}) = result)
    BY <1>3, <1>9
  <2> HIDE DEF register, result
  <2>2. IsTrue(Line(n, Trace_Type_reg, register, result))
    BY <2>1, TrueLines DEF n
  <2> QED BY <2>2 DEF register, result
<1>12. x.mem_wr_enable => IsTrue(Line(n, Trace_Type_mem, x.target_mem, x.memory_result))
  BY <1>9, TrueLines DEF n
<1>13. /\ Line(n, Trace_Type_pc, {}, x.next_pc).type = Trace_Type_pc
       /\ Line(n, Trace_Type_reg, x.target_reg, x.datapath_result).type = Trace_Type_reg
  BY DEF Line
<1>14. PICK i \in DOMAIN Remaining(t) :
         LET rest == RemoveAt(Remaining(t), i)
             left == Remaining(Validate(t, n, x))
         IN /\ Remaining(t)[i] = Line(n, Trace_Type_pc, {}, x.next_pc)
            /\ ~x.reg_wr_enable /\ ~x.mem_wr_enable => left = rest
            /\ x.reg_wr_enable => \E j \in DOMAIN rest :
                 rest[j] = Line(n, Trace_Type_reg, x.target_reg, x.datapath_result) /\ left = RemoveAt(rest, j)
            /\ ~x.reg_wr_enable /\ x.mem_wr_enable => \E j \in DOMAIN rest :
                 rest[j] = Line(n, Trace_Type_mem, x.target_mem, x.memory_result) /\ left = RemoveAt(rest, j)
  BY <1>2, <1>7, ValidateTakes
<1> DEFINE rest == RemoveAt(Remaining(t), i)
<1>15. Remaining(t)[i].type = Trace_Type_pc /\ IsTrue(Remaining(t)[i])
  BY <1>10, <1>13, <1>14
<1>16. CASE x.reg_wr_enable
  <2>1. PICK j \in DOMAIN rest :
          /\ rest[j] = Line(n, Trace_Type_reg, x.target_reg, x.datapath_result)
          /\ Remaining(u) = RemoveAt(rest, j)
    BY <1>7, <1>14, <1>16
  <2>2. IsTrue(rest[j]) /\ rest[j].type = Trace_Type_reg
    BY <1>11, <1>13, <1>16, <2>1
  <2> QED BY <1>15, <2>1, <2>2
<1>17. CASE ~x.reg_wr_enable /\ x.mem_wr_enable
  <2>1. PICK j \in DOMAIN rest :
          /\ rest[j] = Line(n, Trace_Type_mem, x.target_mem, x.memory_result)
          /\ Remaining(u) = RemoveAt(rest, j)
    BY <1>7, <1>14, <1>17
  <2>2. IsTrue(rest[j]) /\ UNCHANGED regs
    BY <1>9, <1>12, <1>17, <2>1
  <2> QED BY <1>15, <2>1, <2>2
<1>18. CASE ~x.reg_wr_enable /\ ~x.mem_wr_enable
  <2>1. Remaining(u) = rest /\ UNCHANGED <<regs, mem>>
    BY <1>7, <1>9, <1>14, <1>18
  <2> QED BY <1>15, <2>1
<1> QED BY <1>16, <1>17, <1>18

\* For every program and every ordered trace, with repeated lines or without:
\* a line is only used up when it is true of the machine and belongs to the
\* instruction, and a cycle that changes registers or memory has used up a
\* line besides that of its pc (main.c:214-244, support.c:51-69).
THEOREM LinesAreTrue == Spec => UsedLinesAreTrue
<1> DEFINE Used ==
      \A t \in tracer, u \in tracer' :
       u.error = "none" /\ ~stop' =>
         \E i \in DOMAIN Remaining(t) :
           LET rest == RemoveAt(Remaining(t), i)
           IN /\ Remaining(t)[i].type = Trace_Type_pc /\ IsTrue(Remaining(t)[i])
              /\ \/ Remaining(u) = rest /\ UNCHANGED <<regs, mem>>
                 \/ \E j \in DOMAIN rest :
                      /\ IsTrue(rest[j]) /\ Remaining(u) = RemoveAt(rest, j)
                      /\ rest[j].type = Trace_Type_reg \/ UNCHANGED regs
<1>1. IInv /\ [Next]_vars => [Used]_vars
  BY UsedLines
<1> QED BY <1>1, Invariant, PTL DEF Spec, UsedLinesAreTrue

LEMMA RefineInit == Init => ISA!IsaInit
BY MachineAssumption DEF Init, ISA!IsaInit, ISA!NoFlags, Regs, Word, Bits, ISA!Word, ISA!Bits

LEMMA RefineNext == IInv /\ [Next]_vars => [InstructionOrDeparture]_ISA!isaVars
<1> SUFFICES ASSUME IInv, [Next]_vars PROVE [InstructionOrDeparture]_ISA!isaVars
  OBVIOUS
<1>1. CASE Next
  <2>1. MachineState /\ stop \in BOOLEAN
    BY DEF IInv, TypeOK, MachineState
  <2>2. \A w, junk : Done(w, junk) =>
          \/ ISA!Step(w, junk)
          \/ LoadIsLost(w) \/ StackIsKept(w, junk) \/ OverflowIsOfCarries(w)
    BY DEF Done, ISA!Step
  <2> QED BY <1>1, <2>1, <2>2, CycleIsStep DEF InstructionOrDeparture, ISA!isaVars
<1>2. CASE UNCHANGED vars
  BY <1>2 DEF vars, ISA!isaVars
<1> QED BY <1>1, <1>2

\* The datapath of main.c, with its lookahead adder, does what the
\* instruction set says but for the three departures, whatever the program,
\* the registers and the trace.
THEOREM Follows == Spec => FollowsISA
<1>1. Init => ISA!IsaInit
  BY RefineInit
<1>2. IInv /\ [Next]_vars => [InstructionOrDeparture]_ISA!isaVars
  BY RefineNext
<1> QED BY <1>1, <1>2, Invariant, PTL DEF Spec, FollowsISA

=============================================================================
