-------------------------------- MODULE Isa --------------------------------
(***************************************************************************)
(* What the simulator of Assembly/main.c promises, one clause per          *)
(* instruction, with textbook arithmetic: no control signals, no           *)
(* multiplexers, no lookahead, no trace.                                   *)
(*                                                                         *)
(* The comments and the test files decide where the program does something *)
(* else: overflow is the sign test of arithmetic.c:60, a load writes its   *)
(* register (testfiles/MtoR.x64.trace) from the address in the other one   *)
(* (testfiles/MtoR.x64), and a return moves %rsp (ultimate.x64.trace, line *)
(* 61).  Machine says which cycles are not steps of this module.           *)
(***************************************************************************)
EXTENDS Addition

CONSTANTS Cells,     \* the addresses of the memory cells
          Garbage    \* what a read outside the memory can return

VARIABLES regs, mem, pc, cc, halted

isaVars == <<regs, mem, pc, cc, halted>>

NoFlags == [of |-> FALSE, sf |-> FALSE, zf |-> FALSE]
SP == {2}

(***************************************************************************)
(* Memory: a cell outside Cells holds garbage, a store to one is lost.     *)
(***************************************************************************)
Load(a, junk) == IF a \in Cells THEN mem[a] ELSE junk
Store(a, v) == [x \in Cells |-> IF x = a THEN v ELSE mem[x]]

\* The eight bytes at byte address pc, which may straddle two cells.
Fetch(junk1, junk2) ==
  LET cell == {i - 3 : i \in {k \in pc : k >= 3}}
      lo == Load(cell, junk1)
      hi == Load(Plus(cell, {0}), junk2)
      shift == (IF 0 \in pc THEN 8 ELSE 0) + (IF 1 \in pc THEN 16 ELSE 0)
                 + (IF 2 \in pc THEN 32 ELSE 0)
  IN {i \in Bits : IF i + shift < 64 THEN i + shift \in lo ELSE i + shift - 64 \in hi}

Nibble(inst, n) == {i \in 0..3 : i + 4 * n \in inst}
Imm(inst, byte) == {i \in 0..31 : i + 8 * byte \in inst}

(***************************************************************************)
(* The instructions: A and B are the register numbers, Minor the low       *)
(* nibble of the opcode; an unknown condition always holds and an unknown  *)
(* arithmetic minor adds.                                                  *)
(***************************************************************************)
Holds(minor) ==
  CASE minor = LE -> cc.zf \/ cc.sf # cc.of
    [] minor = LT -> cc.sf # cc.of
    [] minor = EQ -> cc.zf
    [] minor = NE -> ~cc.zf
    [] minor = GE -> cc.sf = cc.of
    [] minor = GT -> ~cc.zf /\ cc.sf = cc.of
    [] OTHER -> TRUE

Result(minor, va, vb) ==
  CASE minor \in {SUB, CMP} -> Minus(vb, va)
    [] minor = AND -> vb \cap va
    [] minor = XOR -> xor(vb, va)
    [] OTHER -> Plus(vb, va)

Overflow(minor, va, vb) ==
  CASE minor \in {SUB, CMP} -> MinusOf(vb, va)
    [] minor \in {AND, XOR} -> FALSE
    [] OTHER -> PlusOf(vb, va)

\* Every instruction but the arithmetic ones clears the flags.
Goto(next) == pc' = next
ClearFlags == cc' = NoFlags

Op(inst) == Nibble(inst, 1)
Minor(inst) == Nibble(inst, 0)
A(inst) == Nibble(inst, 3)
B(inst) == Nibble(inst, 2)

\* The stack pointer, and the cell below it.
Top == regs[SP]
Down == Minus(Top, {3})

Known == {{}, {1}, {0, 1}, {2}, {0, 2}, {1, 2}, {0, 1, 2}, {3}, {0, 3}, {1, 3}, {0, 1, 3}}

Halt(inst) ==
  /\ Op(inst) = {}
  /\ halted'
  /\ Goto(Plus(pc, {0})) /\ ClearFlags /\ UNCHANGED <<regs, mem>>

\* The opcodes no instruction has do nothing either.
Nop(inst) ==
  /\ Op(inst) \notin Known
  /\ Goto(Plus(pc, {0})) /\ ClearFlags /\ UNCHANGED <<regs, mem, halted>>

\* Conditional move between registers.
Move(inst) ==
  /\ Op(inst) = {1}
  /\ regs' = [regs EXCEPT ![B(inst)] = IF Holds(Minor(inst)) THEN regs[A(inst)] ELSE @]
  /\ Goto(Plus(pc, {1})) /\ ClearFlags /\ UNCHANGED <<mem, halted>>

MoveImmediate(inst) ==
  /\ Op(inst) = {0, 1}
  /\ regs' = [regs EXCEPT ![B(inst)] = Imm(inst, 2)]
  /\ Goto(Plus(pc, {1, 2})) /\ ClearFlags /\ UNCHANGED <<mem, halted>>

MoveToMemory(inst) ==
  /\ Op(inst) = {2}
  /\ mem' = Store(Plus(regs[B(inst)], Imm(inst, 2)), regs[A(inst)])
  /\ Goto(Plus(pc, {1, 2})) /\ ClearFlags /\ UNCHANGED <<regs, halted>>

MoveFromMemory(inst, junk) ==
  /\ Op(inst) = {0, 2}
  /\ regs' = [regs EXCEPT ![A(inst)] = Load(Plus(regs[B(inst)], Imm(inst, 2)), junk)]
  /\ Goto(Plus(pc, {1, 2})) /\ ClearFlags /\ UNCHANGED <<mem, halted>>

\* b := b op a, the other flags from the result; CMP writes no register.
Compute(inst, of) ==
  /\ Op(inst) = {1, 2}
  /\ LET r == Result(Minor(inst), regs[A(inst)], regs[B(inst)]) IN
     /\ regs' = [regs EXCEPT ![B(inst)] = IF Minor(inst) = CMP THEN @ ELSE r]
     /\ cc' = [of |-> of, sf |-> 63 \in r, zf |-> r = {}]
  /\ Goto(Plus(pc, {1})) /\ UNCHANGED <<mem, halted>>

Arithmetic(inst) == Compute(inst, Overflow(Minor(inst), regs[A(inst)], regs[B(inst)]))

Jump(inst) ==
  /\ Op(inst) = {0, 1, 2}
  /\ Goto(IF Holds(Minor(inst)) THEN Imm(inst, 1) ELSE Plus(pc, {0, 2}))
  /\ ClearFlags /\ UNCHANGED <<regs, mem, halted>>

Call(inst) ==
  /\ Op(inst) = {3}
  /\ regs' = [regs EXCEPT ![SP] = Down]
  /\ mem' = Store(Down, Plus(pc, {0, 2}))
  /\ Goto(Imm(inst, 1)) /\ ClearFlags /\ UNCHANGED halted

Return(inst, junk) ==
  /\ Op(inst) = {0, 3}
  /\ regs' = [regs EXCEPT ![SP] = Plus(Top, {3})]
  /\ Goto(Load(Top, junk)) /\ ClearFlags /\ UNCHANGED <<mem, halted>>

Push(inst) ==
  /\ Op(inst) = {1, 3}
  /\ regs' = [regs EXCEPT ![SP] = Down]
  /\ mem' = Store(Down, regs[A(inst)])
  /\ Goto(Plus(pc, {1})) /\ ClearFlags /\ UNCHANGED halted

\* The popped word wins when the target is %rsp itself.
Pop(inst, junk) ==
  /\ Op(inst) = {0, 1, 3}
  /\ regs' = [regs EXCEPT ![SP] = Plus(Top, {3}), ![A(inst)] = Load(Top, junk)]
  /\ Goto(Plus(pc, {1})) /\ ClearFlags /\ UNCHANGED <<mem, halted>>

Step(inst, junk) ==
  \/ Halt(inst) \/ Nop(inst)
  \/ Move(inst) \/ MoveImmediate(inst) \/ MoveToMemory(inst) \/ MoveFromMemory(inst, junk)
  \/ Arithmetic(inst)
  \/ Jump(inst) \/ Call(inst) \/ Return(inst, junk)
  \/ Push(inst) \/ Pop(inst, junk)

IsaInit ==
  /\ regs \in [SUBSET (0..3) -> Word]
  /\ mem \in [Cells -> Word]
  /\ pc = {}
  /\ cc = NoFlags
  /\ halted = FALSE

\* Each read outside the memory returns garbage of its own.
IsaNext ==
  /\ ~halted
  /\ \E junk1, junk2, junk \in Garbage : \E inst \in {Fetch(junk1, junk2)} : Step(inst, junk)

IsaSpec == IsaInit /\ [][IsaNext]_isaVars
=============================================================================
