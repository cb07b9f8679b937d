------------------------------ MODULE Machine ------------------------------
(***************************************************************************)
(* The x64 subset simulator (Assembly/main.c and memories.c): a single-    *)
(* cycle datapath.  Decode derives the control signals from the fetched    *)
(* word, Execute steers values through multiplexers built from or and      *)
(* use_if, Cycle validates the writes against the trace and then performs  *)
(* them.                                                                   *)
(***************************************************************************)
EXTENDS Words, Tracer

CONSTANTS Cells,        \* cell addresses; 0..1023 in the program
          Images,       \* memory contents after memory_read_from_file
          RegFiles,     \* contents of the malloc'ed register file
          Garbage,      \* what a read outside the memory can return
          Traces(_, _), \* the trace files given with an image and registers
          MaxInsns      \* bound on the number of cycles

Regs == SUBSET (0..3)

Entry == [counter : Nat, type : Nat, destination : Word, value : Word]

\* The reference machine wrote its trace instruction by instruction.
InOrder(lines) ==
  \A i, j \in DOMAIN lines : i < j => lines[i].counter <= lines[j].counter

ASSUME MachineAssumption ==
  /\ Cells \subseteq Word
  /\ Images \subseteq [Cells -> Word]
  /\ RegFiles \subseteq [Regs -> Word]
  /\ Garbage \subseteq Word
  /\ MaxInsns \in Nat
  /\ \A m \in Images, r \in RegFiles : \A lines \in Traces(m, r) :
       lines \in Seq(Entry) /\ InOrder(lines)

VARIABLES regs, mem,           \* the two memories
          pc, cc, stop,        \* special registers and the stop signal
          instruction_number,
          tracer               \* {} for NULL, else the set with the tracer

vars == <<regs, mem, pc, cc, stop, instruction_number, tracer>>

HLT == {}
NOP == {0}
MOV_RtoR == {1}
MOV_ItoR == {0, 1}
MOV_RtoM == {2}
MOV_MtoR == {0, 2}
ARITHMETIC == {1, 2}
JCC == {0, 1, 2}
CALL == {3}
RET == {0, 3}
PUSH == {1, 3}
POP == {0, 1, 3}
REG_SP == {2}

Trace_Type_reg == 0
Trace_Type_mem == 1
Trace_Type_pc == 2

(***************************************************************************)
(* memories.c.  memory_read does not check the address; a read outside the *)
(* array yields junk, or ends the process: a behaviour that stops there.   *)
(***************************************************************************)
memory_read(m, address, enable, junk) ==
  IF ~enable THEN {} ELSE IF address \in DOMAIN m THEN m[address] ELSE junk

\* Mutant: the address is not compared with the size of the memory.
WriteAnywhere(m, address, value, wr_enable) ==
  IF wr_enable THEN [a \in DOMAIN m \cup {address} |-> IF a = address THEN value ELSE m[a]] ELSE m

memory_write(m, address, value, wr_enable) ==
  IF wr_enable /\ address \in DOMAIN m THEN [m EXCEPT ![address] = value] ELSE m

\* Bytes pos .. pos+7 of the two cells that hold them.
pick_bytes(pos, a, b) ==
  {i \in Bits : IF i + 8 * pos < 64 THEN i + 8 * pos \in a ELSE i + 8 * pos - 64 \in b}

memory_read_unaligned(m, address, junk1, junk2) ==
  LET frst_addr == pick_bits(3, 61, address)
      next_addr == add(frst_addr, {0})
      one(i) == IF pick_one(i, address) THEN 1 ELSE 0
      pos_in_word == one(0) + 2 * one(1) + 4 * one(2)
  IN pick_bytes(pos_in_word, memory_read(m, frst_addr, TRUE, junk1),
                             memory_read(m, next_addr, TRUE, junk2))

(***************************************************************************)
(* Instruction decode: fields and control signals.                         *)
(***************************************************************************)
Decode(inst_word) ==
  LET major_op == pick_bits(4, 4, inst_word)
      is_move == major_op \in {MOV_RtoR, MOV_ItoR, MOV_RtoM, MOV_MtoR}
      is_push == major_op = PUSH
      is_pop  == major_op = POP
      is_call == major_op = CALL
      is_ret  == major_op = RET
      is_jcc  == major_op = JCC
      is_arit == major_op = ARITHMETIC
      has_regs == is_move \/ is_arit \/ is_push \/ is_pop
      has_imm  == major_op \in {MOV_ItoR, MOV_RtoM, MOV_MtoR} \/ is_jcc \/ is_call
  IN [minor_op |-> pick_bits(0, 4, inst_word),
      is_halt |-> major_op = HLT,
      is_itor |-> major_op = MOV_ItoR,
      is_rtom |-> major_op = MOV_RtoM,
      is_mtor |-> major_op = MOV_MtoR,
      is_cmov |-> major_op = MOV_RtoR,
      is_arit |-> is_arit, is_jcc |-> is_jcc, is_call |-> is_call,
      is_ret |-> is_ret, is_push |-> is_push, is_pop |-> is_pop,
      has_regs |-> has_regs,
      uses_rsp |-> is_push \/ is_pop \/ is_call \/ is_ret,
      size |-> or(use_if(has_regs /\ has_imm, {1, 2}),
               or(use_if(has_regs /\ ~has_imm, {1}),
               or(use_if(~has_regs /\ ~has_imm, {0}),
                  use_if(~has_regs /\ has_imm, {0, 2})))),
      reg_a |-> pick_bits(12, 4, inst_word),
      reg_b |-> pick_bits(8, 4, inst_word),
      imm |-> or(use_if(~has_regs, pick_bits(8, 32, inst_word)),
                 use_if(has_regs, pick_bits(16, 32, inst_word)))]

(***************************************************************************)
(* The datapath: everything a cycle computes from the old state.           *)
(***************************************************************************)
next_inst_pc(d) == add(pc, d.size)

op_a(d, junk) == memory_read(regs, d.reg_a, d.has_regs, junk)
op_b(d, junk) == memory_read(regs, d.reg_b, d.has_regs, junk)
rsp(d, junk) == memory_read(regs, REG_SP, d.uses_rsp, junk)
mem_op_b(d, junk) == memory_read(mem, add(op_a(d, junk), d.imm), d.is_mtor, junk)
mem_stack_top(d, junk) == memory_read(mem, rsp(d, junk), d.is_pop \/ d.is_ret, junk)

\* A minor opcode outside the known ones selects nothing, which reads as 0.
Selected(known, op) == use_if(op \in known, op)

condition_holds(d) ==
  eval_condition(cc, use_if(d.is_cmov \/ d.is_jcc,
                            Selected({ALWAYS, LE, LT, EQ, NE, GE, GT}, d.minor_op)))

op_q(d, junk) ==
  alu_execute(use_if(d.is_arit, Selected({ADD, SUB, AND, XOR, CMP}, d.minor_op)),
              op_a(d, junk), op_b(d, junk))

datapath_result(d, junk) ==
  or(use_if(d.is_cmov, op_a(d, junk)),
  or(use_if(d.is_itor, d.imm),
  or(use_if(d.is_mtor, mem_op_b(d, junk)),
  or(use_if(d.is_rtom, op_a(d, junk)),
  or(use_if(d.is_arit, op_q(d, junk).result),
  or(use_if(d.is_push \/ d.is_call, alu_execute(SUB, {3}, rsp(d, junk)).result),
     use_if(d.is_pop \/ d.is_ret, add(rsp(d, junk), {3}))))))))

memory_result(d, junk) ==
  or(use_if(d.is_call, next_inst_pc(d)),
  or(use_if(d.is_push, op_a(d, junk)),
     use_if(d.is_rtom, datapath_result(d, junk))))

target_reg(d) ==
  or(use_if(d.uses_rsp, REG_SP),
  or(use_if(d.is_mtor, d.reg_a),
     use_if(d.is_cmov \/ d.is_itor \/ d.is_arit, d.reg_b)))

target_mem(d, junk) ==
  or(use_if(d.is_rtom, add(op_b(d, junk), d.imm)),
     use_if(d.is_push \/ d.is_call, datapath_result(d, junk)))

reg_wr_enable(d) ==
  \/ d.is_cmov /\ condition_holds(d)
  \/ d.is_itor
  \/ d.is_arit /\ d.minor_op # CMP
  \/ d.is_push \/ d.is_pop \/ d.is_call

mem_wr_enable(d) == d.is_rtom \/ d.is_push \/ d.is_call

next_pc(d, junk) ==
  or(use_if(d.is_call, d.imm),
  or(use_if(d.is_ret, mem_stack_top(d, junk)),
  or(use_if(d.is_jcc /\ condition_holds(d), d.imm),
  or(use_if(d.is_jcc /\ ~condition_holds(d), next_inst_pc(d)),
     use_if(~d.is_jcc /\ ~d.is_call /\ ~d.is_ret, next_inst_pc(d))))))

flags(d, junk) ==
  [of |-> d.is_arit /\ op_q(d, junk).cc.of,
   sf |-> d.is_arit /\ op_q(d, junk).cc.sf,
   zf |-> d.is_arit /\ op_q(d, junk).cc.zf]

Execute(d, junk) ==
  [cc |-> flags(d, junk), next_pc |-> next_pc(d, junk),
   datapath_result |-> datapath_result(d, junk), mem_stack_top |-> mem_stack_top(d, junk),
   memory_result |-> memory_result(d, junk),
   target_reg |-> target_reg(d), target_mem |-> target_mem(d, junk),
   reg_wr_enable |-> reg_wr_enable(d), mem_wr_enable |-> mem_wr_enable(d)]

(***************************************************************************)
(* Validation of one cycle: the next pc, then the register write or else   *)
(* the memory write.  error() exits, so nothing is looked up after it.     *)
(***************************************************************************)
Validate(t, n, x) ==
  LET t1 == validate_magic(t, Trace_Type_pc, n, {}, x.next_pc)
  IN IF t1.error # "none" THEN t1
     ELSE IF x.reg_wr_enable
       THEN validate_magic(t1, Trace_Type_reg, n, x.target_reg, x.datapath_result)
     ELSE IF x.mem_wr_enable
       THEN validate_magic(t1, Trace_Type_mem, n, x.target_mem, x.memory_result)
     ELSE t1

Running == ~stop /\ \A t \in tracer : t.error = "none"

Init ==
  /\ regs \in RegFiles
  /\ mem \in Images
  /\ pc = {}
  /\ cc = [of |-> FALSE, sf |-> FALSE, zf |-> FALSE]
  /\ stop = FALSE
  /\ instruction_number = 0
  /\ \/ tracer = {}
     \/ \E lines \in Traces(mem, regs) : tracer = {create_trace_reader(lines)}

\* One turn of the while loop.  The writes are skipped when validation fails.
Perform(d, x) ==
  /\ tracer' = {IF d.is_halt THEN t ELSE Validate(t, instruction_number', x) : t \in tracer}
  /\ IF \A t \in tracer' : t.error = "none"
     THEN /\ pc' = x.next_pc
          /\ cc' = x.cc
          /\ stop' = d.is_halt
          /\ regs' = memory_write(
                       memory_write(regs, x.target_reg, x.datapath_result, x.reg_wr_enable),
                       d.reg_a, x.mem_stack_top, d.is_pop)
          /\ mem' = memory_write(mem, x.target_mem, x.memory_result, x.mem_wr_enable)
     ELSE UNCHANGED <<regs, mem, pc, cc, stop>>

Cycle ==
  /\ Running
  /\ instruction_number < MaxInsns
  /\ instruction_number' = instruction_number + 1
  /\ \E junk1, junk2, junk \in Garbage :
       LET d == Decode(memory_read_unaligned(mem, pc, junk1, junk2))
       IN Perform(d, Execute(d, junk))

Next == Cycle

Spec == Init /\ [][Next]_vars

\* The loop of main runs until it stops or the bound of the model is reached.
FairSpec == Spec /\ WF_vars(Next)

(***************************************************************************)
(* Properties                                                              *)
(***************************************************************************)
Tracers ==
  {t \in [file : Seq(Entry), entries : Seq(Entry), input_failed : BOOLEAN,
          error : {"none", "no matching write", "missed write"}] : Len(t.entries) <= Depth}

\* Every register, cell and special register holds a 64-bit word, through
\* all the multiplexers of main.c, and the trace buffer never outgrows its
\* array.
TypeOK ==
  /\ regs \in [Regs -> Word]
  /\ mem \in [Cells -> Word]
  /\ pc \in Word
  /\ cc \in [of : BOOLEAN, sf : BOOLEAN, zf : BOOLEAN]
  /\ stop \in BOOLEAN
  /\ instruction_number \in 0..MaxInsns
  /\ \A t, u \in tracer : t = u /\ t \in Tracers

ISA == INSTANCE Isa WITH halted <- stop

\* Where a cycle is not an instruction.  A load (main.c:190) goes on, but its
\* word reaches no register.
LoadIsLost(inst) ==
  /\ ISA!Op(inst) = MOV_MtoR
  /\ ISA!Goto(ISA!Plus(pc, {1, 2})) /\ ISA!ClearFlags /\ UNCHANGED <<regs, mem, stop>>

\* A return (main.c:190) goes to the address on the stack, which stays there.
StackIsKept(inst, junk) ==
  /\ ISA!Op(inst) = RET
  /\ ISA!Goto(ISA!Load(ISA!Top, junk)) /\ ISA!ClearFlags /\ UNCHANGED <<regs, mem, stop>>

\* The overflow flag of the adder (arithmetic.c:59).
FlagOfCarries(minor, va, vb) ==
  CASE minor \in {SUB, CMP} -> ISA!TopCarriesDiffer(vb, Bits \ va, TRUE)
    [] minor \in {AND, XOR} -> FALSE
    [] OTHER -> ISA!TopCarriesDiffer(vb, va, FALSE)

\* An arithmetic instruction has that flag; the rest of it is right.
OverflowIsOfCarries(inst) ==
  ISA!Compute(inst, FlagOfCarries(ISA!Minor(inst), regs[ISA!A(inst)], regs[ISA!B(inst)]))

InstructionOrDeparture ==
  /\ ~stop
  /\ \E junk1, junk2, junk \in Garbage : \E inst \in {ISA!Fetch(junk1, junk2)} :
       \/ ISA!Step(inst, junk)
       \/ LoadIsLost(inst) \/ StackIsKept(inst, junk) \/ OverflowIsOfCarries(inst)

\* The datapath of main.c, its lookahead adder, its multiplexers and its
\* two register write ports do what the instruction set says, for every
\* instruction, unknown opcodes included, but for the three departures
\* above, and the validator never changes what the machine does.
FollowsISA == ISA!IsaInit /\ [][InstructionOrDeparture]_ISA!isaVars

\* What the comments and the test files say: every cycle is an instruction,
\* with no departure ("check that result.of = same_sign(val_a, val_b) &&
\* !same_sign(result.result, val_a)", arithmetic.c:60).
ImplementsISA == ISA!IsaSpec

\* What is left of a trace: the buffered entries, then the file.
Remaining(t) == t.entries \o t.file

\* No write is forgotten: once instruction n has been validated, no line of
\* an earlier instruction is left in the trace, so every write the reference
\* made up to n-1 was also reported (support.c:54).
WritesNotForgotten ==
  Running => \A t \in tracer : \A i \in DOMAIN Remaining(t) :
               Remaining(t)[i].counter >= instruction_number

\* What a line claims holds of the machine after the cycle that used it.
\* Two cases are not written as reported: a pop of %rsp, whose second write
\* port overrides the first, and a store outside the memory, which is lost.
Claim(e) ==
  CASE e.type = Trace_Type_pc -> pc' = e.value
    [] e.type = Trace_Type_reg -> \/ regs'[e.destination] = e.value
                                  \/ e.destination = REG_SP /\ add(regs[REG_SP], {3}) = e.value
    [] e.type = Trace_Type_mem -> e.destination \in Cells => mem'[e.destination] = e.value
    [] OTHER -> FALSE

\* A line that belongs to the instruction and says what became of the machine.
IsTrue(e) == e.counter = instruction_number' /\ Claim(e)

\* A cycle that goes on takes its pc line out of the trace and at most one
\* line more, both are true of the machine after the cycle, and the others
\* stay as they were.  A cycle that changes a register has taken a register
\* line (a pop only that of %rsp), and one that changes the memory has taken a
\* second line, if not that of the memory: the trace cannot be matched by a
\* write that was never made, nor is it done with a cycle by its pc alone.
UsedLinesAreTrue ==
  [][\A t \in tracer, u \in tracer' :
       u.error = "none" /\ ~stop' =>
         \E i \in DOMAIN Remaining(t) :
           LET rest == RemoveAt(Remaining(t), i)
           IN /\ Remaining(t)[i].type = Trace_Type_pc /\ IsTrue(Remaining(t)[i])
              /\ \/ Remaining(u) = rest /\ UNCHANGED <<regs, mem>>
                 \/ \E j \in DOMAIN rest :
                      /\ IsTrue(rest[j]) /\ Remaining(u) = RemoveAt(rest, j)
                      /\ rest[j].type = Trace_Type_reg \/ UNCHANGED regs]_vars
=============================================================================
