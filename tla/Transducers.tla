----------------------------- MODULE Transducers -----------------------------
(***************************************************************************)
(* Divisibility_and_transducers/transducers.c: networks of processes that  *)
(* are connected by pipes.  The main process builds a network call by call *)
(* (link_source, link_1, link_2, dup), each call forking a child; it then  *)
(* runs the sink itself and frees the streams.                             *)
(*                                                                         *)
(* Every stream is a pipe of PipeSize items between two stdio buffers of   *)
(* BufSize items: fwrite fills the writer's buffer and flushes it when it  *)
(* is full, fread refills the reader's from what is in the pipe.  A pipe   *)
(* is at its end when it is empty and nobody holds its write end, and a    *)
(* write to a pipe whose read ends are all closed kills the writer, so the *)
(* model keeps the set of processes that hold each end.                    *)
(***************************************************************************)
EXTENDS Integers, Sequences, SequencesExt, FiniteSets

CONSTANTS Streams,      \* the streams of the program: 1 .. n, in order of creation
          Programs,     \* the programs considered; each is the sequence of main's calls
          BufSize,      \* items in a stdio buffer
          PipeSize      \* items in a pipe

\* fn: the function called, or the transducer function that is linked;
\* in, out: the streams; arg: what the function is given.  "source" stands for
\* the functions that write what they are given and read nothing, and
\* "function_single" for those that add arg to every byte.
Calls == [fn : {"source", "divisible_by", "and_streams", "filter_streams", "function",
                "function_single", "dup", "sink", "head", "free"},
          in : Seq(Streams), out : Seq(Streams), arg : Seq(Int)]

Ins(call) == ToSet(call.in)
Outs(call) == ToSet(call.out)
IsLink(call) == call.fn \notin {"sink", "head", "free"}
ReadsTwo(call) == call.fn \in {"and_streams", "filter_streams", "function"}

\* A call as the types of transducers.h allow it, with what its function needs.
\* No stream is given twice to one call.
ProperCall(call) ==
  /\ call \in Calls
  /\ IsInjective(call.in) /\ IsInjective(call.out)
  /\ Len(call.out) = IF ~IsLink(call) THEN 0 ELSE IF call.fn = "dup" THEN 2 ELSE 1
  /\ ReadsTwo(call) => Len(call.in) = 2
  /\ call.fn # "source" /\ ~ReadsTwo(call) => Len(call.in) = 1
  /\ call.fn \in {"function", "function_single"} => call.arg # <<>>
  /\ call.fn \in {"divisible_by", "head"} => call.arg # <<>> /\ call.arg[1] > 0

\* A tree of transducers as transducers.h:10 describes it, and how the programs
\* build it: a stream is used after a call has made it, which no call before it
\* can have made fail; a call that is repeated is the same call again and has
\* inputs, so that it is refused; all sinks read one stream; and the streams
\* are freed last (transducers.h:31).
ProperProgram(prog) ==
  /\ prog \in Seq(Calls)
  /\ \A j \in DOMAIN prog :
       /\ ProperCall(prog[j])
       /\ \A s \in Ins(prog[j]) :
            /\ \A t \in Outs(prog[j]) : s < t
            /\ \E i \in 1 .. j - 1 :
                 /\ s \in Outs(prog[i])
                 /\ \A k \in 1 .. i - 1 : Ins(prog[k]) \cap Ins(prog[i]) = {}
  /\ \A i, j \in DOMAIN prog :
       /\ i # j /\ Outs(prog[i]) \cap Outs(prog[j]) # {} => prog[i] = prog[j] /\ Ins(prog[i]) # {}
       /\ i < j /\ prog[i].fn = "free" => prog[j].fn = "free"
       /\ {prog[i].fn, prog[j].fn} \subseteq {"sink", "head"} => prog[i].in = prog[j].in

ASSUME ProgramsAssumption == \A prog \in Programs : ProperProgram(prog)
ASSUME StreamsAssumption == IsFiniteSet(Streams) /\ Streams = 1 .. Cardinality(Streams)
ASSUME SizesAssumption == BufSize \in Nat \ {0} /\ PipeSize \in Nat /\ PipeSize >= BufSize

VARIABLES program,      \* the program that is run
          pc,           \* main: the call it is at
          result,       \* result[i]: what the i-th call returned, -1 before
          read,         \* read[s]: the flag in struct stream, -1 before it exists
          readers,      \* readers[s]: the processes that hold the read end
          writers,      \* writers[s]: the processes that hold the write end
          pipe,         \* pipe[s]: the items in the pipe
          out,          \* out[s]: the items in the writer's buffer
          in,           \* in[s]: the items in the reader's buffer
          at,           \* at[p]: where process p is in its function
          first,        \* first[p]: the item p read from its first input
          value,        \* value[p]: the item p is writing
          output        \* the items the sink has read

netVars == <<read, readers, writers, pipe, out, in>>
vars == <<program, pc, result, netVars, at, first, value, output>>

Main == 0
Children == DOMAIN program              \* the child forked by the p-th call
Procs == {Main} \cup Children

TypeOK ==
  /\ program \in Programs
  /\ pc \in 1 .. Len(program) + 1
  /\ result \in [DOMAIN program -> {-1, 0, 1}]
  /\ read \in [Streams -> {-1, 0, 1}]
  /\ readers \in [Streams -> SUBSET Procs] /\ writers \in [Streams -> SUBSET Procs]
  /\ pipe \in [Streams -> Seq(Int)] /\ \A s \in Streams : Len(pipe[s]) <= PipeSize
  /\ out \in [Streams -> Seq(Int)] /\ \A s \in Streams : Len(out[s]) <= BufSize
  /\ in \in [Streams -> Seq(Int)] /\ \A s \in Streams : Len(in[s]) < BufSize
  /\ at \in [Procs -> {"none", "in1", "in2", "out1", "out2", "close1", "close2", "exit"}]
  /\ first \in [Procs -> Int] /\ value \in [Procs -> Int] /\ output \in Seq(Int)

Init ==
  /\ program \in Programs
  /\ pc = 1
  /\ result = [i \in DOMAIN program |-> -1]
  /\ read = [s \in Streams |-> -1]
  /\ readers = [s \in Streams |-> {}] /\ writers = [s \in Streams |-> {}]
  /\ pipe = [s \in Streams |-> <<>>]
  /\ out = [s \in Streams |-> <<>>] /\ in = [s \in Streams |-> <<>>]
  /\ at = [p \in Procs |-> "none"]
  /\ first = [p \in Procs |-> 0] /\ value = [p \in Procs |-> 0]
  /\ output = <<>>

Fn(p) == program[p].fn
In(p, k) == program[p].in[k]
Out(p, k) == program[p].out[k]

Goto(p, l) == at' = [at EXCEPT ![p] = l]

-----------------------------------------------------------------------------
(* main: the calls.                                                        *)

Free(call) == \A s \in Ins(call) : read[s] = 0

FirstPlace(fn) ==
  CASE fn = "source" -> "out1" [] fn = "function" -> "in2" [] OTHER -> "in1"

\* Return from the call main is at.
MainReturns(r) ==
  /\ result' = [result EXCEPT ![pc] = r]
  /\ pc' = pc + 1

\* A main that keeps the write end of the new pipe open.
LinkKeepsWriteEnd ==
  LET call == program[pc]
      new == Outs(call)
      used == Ins(call)
  IN
  /\ pc \in DOMAIN program /\ IsLink(call) /\ Free(call)
  /\ read' = [s \in Streams |-> IF s \in new THEN 0 ELSE IF s \in used THEN 1 ELSE read[s]]
  /\ readers' = [s \in Streams |-> IF s \in new THEN {Main}
                                   ELSE IF Main \in readers[s] THEN readers[s] \cup {pc} ELSE readers[s]]
  /\ writers' = [s \in Streams |-> IF s \in new THEN {Main, pc} ELSE writers[s]]
  /\ Goto(pc, FirstPlace(call.fn))
  /\ MainReturns(0)
  /\ UNCHANGED <<program, pipe, out, in, first, value, output>>

\* A call that does not mark its inputs as used.
LinkForgetsFlag ==
  LET call == program[pc]
      new == Outs(call)
  IN
  /\ pc \in DOMAIN program /\ IsLink(call) /\ Free(call)
  /\ read' = [s \in Streams |-> IF s \in new THEN 0 ELSE read[s]]
  /\ readers' = [s \in Streams |-> IF s \in new THEN {Main}
                                   ELSE IF Main \in readers[s] THEN readers[s] \cup {pc} ELSE readers[s]]
  /\ writers' = [s \in Streams |-> IF s \in new THEN {pc} ELSE writers[s]]
  /\ Goto(pc, FirstPlace(call.fn))
  /\ MainReturns(0)
  /\ UNCHANGED <<program, pipe, out, in, first, value, output>>

\* A call that counts the uses of its inputs and refuses none.
LinkCountsUses ==
  LET call == program[pc]
      new == Outs(call)
      used == Ins(call)
  IN
  /\ pc \in DOMAIN program /\ IsLink(call)
  /\ read' = [s \in Streams |-> IF s \in new THEN 0 ELSE IF s \in used THEN read[s] + 1 ELSE read[s]]
  /\ readers' = [s \in Streams |-> IF s \in new THEN {Main}
                                   ELSE IF Main \in readers[s] THEN readers[s] \cup {pc} ELSE readers[s]]
  /\ writers' = [s \in Streams |-> IF s \in new THEN {pc} ELSE writers[s]]
  /\ Goto(pc, FirstPlace(call.fn))
  /\ MainReturns(0)
  /\ UNCHANGED <<program, pipe, out, in, first, value, output>>

\* link_source, link_1, link_2 and dup: file_pipe, fork, and each side closes
\* the end it does not use.  The child also inherits the read end of every
\* stream main still has open.
Link ==
  LET call == program[pc]
      new == Outs(call)
      used == Ins(call)
  IN
  /\ pc \in DOMAIN program /\ IsLink(call) /\ Free(call)
  /\ read' = [s \in Streams |-> IF s \in new THEN 0 ELSE IF s \in used THEN 1 ELSE read[s]]
  /\ readers' = [s \in Streams |-> IF s \in new THEN {Main}
                                   ELSE IF Main \in readers[s] THEN readers[s] \cup {pc} ELSE readers[s]]
  /\ writers' = [s \in Streams |-> IF s \in new THEN {pc} ELSE writers[s]]
  /\ Goto(pc, FirstPlace(call.fn))
  /\ MainReturns(0)
  /\ UNCHANGED <<program, pipe, out, in, first, value, output>>

\* An input stream has already been used: return 1 and do nothing.
Refuse ==
  /\ pc \in DOMAIN program /\ Fn(pc) # "free" /\ at[Main] = "none"
  /\ ~Free(program[pc])
  /\ MainReturns(1)
  /\ UNCHANGED <<program, netVars, at, first, value, output>>

\* link_sink calls the sink function in the main process ...
SinkStart ==
  /\ pc \in DOMAIN program /\ Fn(pc) \in {"sink", "head"} /\ at[Main] = "none"
  /\ Free(program[pc])
  /\ Goto(Main, "in1")
  /\ UNCHANGED <<program, pc, result, netVars, first, value, output>>

\* ... and marks the stream as used when the function has returned.
SinkEnd ==
  /\ at[Main] = "exit"
  /\ Goto(Main, "none")
  /\ read' = [read EXCEPT ![In(pc, 1)] = 1]
  /\ MainReturns(0)
  /\ UNCHANGED <<program, readers, writers, pipe, out, in, first, value, output>>

\* free_stream closes the stream if it has been used, and else does nothing.
FreeStream ==
  /\ pc \in DOMAIN program /\ Fn(pc) = "free"
  /\ readers' = [readers EXCEPT ![In(pc, 1)] = IF read[In(pc, 1)] = 1 THEN @ \ {Main} ELSE @]
  /\ MainReturns(0)
  /\ UNCHANGED <<program, read, writers, pipe, out, in, at, first, value, output>>

\* main returns: the process closes what it still holds.
MainExit ==
  /\ pc = Len(program) + 1 /\ at[Main] = "none"
  /\ \E s \in Streams : Main \in readers[s] \cup writers[s]
  /\ readers' = [s \in Streams |-> readers[s] \ {Main}]
  /\ writers' = [s \in Streams |-> writers[s] \ {Main}]
  /\ UNCHANGED <<program, pc, result, read, pipe, out, in, at, first, value, output>>

-----------------------------------------------------------------------------
(* stdio on the streams, for a process p.                                  *)

\* fread finds an item: in the buffer, or in the pipe, from which it takes as
\* much as the buffer holds.
Items(s) == in[s] \o pipe[s]

Fread(s) ==
  /\ Items(s) # <<>>
  /\ IF in[s] # <<>>
     THEN in' = [in EXCEPT ![s] = Tail(@)] /\ UNCHANGED pipe
     ELSE LET n == IF Len(pipe[s]) < BufSize THEN Len(pipe[s]) ELSE BufSize IN
          /\ in' = [in EXCEPT ![s] = SubSeq(pipe[s], 2, n)]
          /\ pipe' = [pipe EXCEPT ![s] = SubSeq(@, n + 1, Len(@))]
  /\ UNCHANGED <<read, readers, writers, out>>

AtEnd(s) == Items(s) = <<>> /\ writers[s] = {}

\* fwrite, with room in the buffer.
Fwrite(s, v) ==
  /\ Len(out[s]) < BufSize
  /\ out' = [out EXCEPT ![s] = Append(@, v)]
  /\ UNCHANGED <<read, readers, writers, pipe, in>>

\* Process p ends: the kernel closes all it holds.
Ends(p) ==
  /\ Goto(p, "exit")
  /\ readers' = [s \in Streams |-> readers[s] \ {p}]
  /\ writers' = [s \in Streams |-> writers[s] \ {p}]

\* The write of a whole buffer, from fwrite with a full buffer or from fclose:
\* it waits for room, and kills the writer when nobody can read.
Flush(p, s) ==
  /\ out[s] # <<>>
  /\ \/ /\ readers[s] # {} /\ Len(pipe[s]) + Len(out[s]) <= PipeSize
        /\ pipe' = [pipe EXCEPT ![s] = @ \o out[s]]
        /\ out' = [out EXCEPT ![s] = <<>>]
        /\ UNCHANGED <<read, readers, writers, in, at>>
     \/ /\ readers[s] = {}
        /\ Ends(p)
        /\ UNCHANGED <<read, pipe, out, in>>

-----------------------------------------------------------------------------
(* The functions that the processes run.                                   *)

\* What a process does with an item v it has read from its first input.
ReadFirst(p) ==
  LET s == In(p, 1)
      v == Head(Items(s))
  IN
  /\ at[p] = "in1"
  /\ Fread(s)
  /\ CASE Fn(p) \in {"and_streams", "filter_streams"} ->
            first' = [first EXCEPT ![p] = v] /\ Goto(p, "in2") /\ UNCHANGED value
       [] Fn(p) = "divisible_by" ->
            /\ value' = [value EXCEPT ![p] = IF v % program[p].arg[1] = 0 THEN 1 ELSE 0]
            /\ Goto(p, "out1") /\ UNCHANGED first
       [] Fn(p) \in {"function", "function_single"} ->
            /\ value' = [value EXCEPT ![p] = (v + program[p].arg[1]) % 256]
            /\ Goto(p, "out1") /\ UNCHANGED first
       [] Fn(p) = "dup" ->
            value' = [value EXCEPT ![p] = v] /\ Goto(p, "out1") /\ UNCHANGED first
  /\ UNCHANGED <<program, pc, result, output>>

\* and_streams writes x && y; filter_streams writes y if x holds; function
\* (test3.c to test5.c) copies all of its second input before the first.
ReadSecond(p) ==
  LET s == In(p, 2)
      v == Head(Items(s))
  IN
  /\ at[p] = "in2"
  /\ Fread(s)
  /\ CASE Fn(p) = "and_streams" ->
            /\ value' = [value EXCEPT ![p] = IF first[p] # 0 /\ v # 0 THEN 1 ELSE 0]
            /\ Goto(p, "out1")
       [] Fn(p) = "filter_streams" ->
            /\ value' = [value EXCEPT ![p] = v]
            /\ Goto(p, IF first[p] # 0 THEN "out1" ELSE "in1")
       [] Fn(p) = "function" ->
            /\ value' = [value EXCEPT ![p] = (v + program[p].arg[1]) % 256]
            /\ Goto(p, "out1")
  /\ UNCHANGED <<program, pc, result, first, output>>

\* fread returned nothing: the function returns and its output is closed,
\* except that function goes on with its first input.
ReadEnd(p) ==
  /\ \/ at[p] = "in1" /\ AtEnd(In(p, 1)) /\ Goto(p, "close1") /\ UNCHANGED first
     \/ /\ at[p] = "in2" /\ AtEnd(In(p, 2))
        /\ IF Fn(p) = "function"
           THEN Goto(p, "in1") /\ first' = [first EXCEPT ![p] = 1]
           ELSE Goto(p, "close1") /\ UNCHANGED first
  /\ UNCHANGED <<program, pc, result, netVars, value, output>>

\* Where a process goes on after its output, by its function.
AfterWrite(p) ==
  IF Fn(p) = "dup" /\ at[p] = "out1" THEN "out2"
  ELSE IF Fn(p) = "function" /\ first[p] = 0 THEN "in2" ELSE "in1"

WriteValue(p) ==
  /\ Fn(p) # "source"
  /\ \/ at[p] = "out1" /\ Fwrite(Out(p, 1), value[p])
     \/ at[p] = "out2" /\ Fwrite(Out(p, 2), value[p])
  /\ Goto(p, AfterWrite(p))
  /\ UNCHANGED <<program, pc, result, first, value, output>>

\* A source writes its items; value[p] counts them.
SourceWrite(p) ==
  /\ Fn(p) = "source" /\ at[p] = "out1"
  /\ IF value[p] < Len(program[p].arg)
     THEN /\ Fwrite(Out(p, 1), program[p].arg[value[p] + 1])
          /\ value' = [value EXCEPT ![p] = @ + 1]
          /\ UNCHANGED at
     ELSE Goto(p, "close1") /\ UNCHANGED <<netVars, value>>
  /\ UNCHANGED <<program, pc, result, first, output>>

\* A full buffer has to be flushed before the next fwrite.
FlushFull(p) ==
  /\ \/ at[p] = "out1" /\ Len(out[Out(p, 1)]) = BufSize /\ Flush(p, Out(p, 1))
     \/ at[p] = "out2" /\ Len(out[Out(p, 2)]) = BufSize /\ Flush(p, Out(p, 2))
  /\ UNCHANGED <<program, pc, result, first, value, output>>

\* An fclose that forgets the buffered rest.
CloseUnflushed(p) ==
  /\ \/ /\ at[p] = "close1" /\ Fn(p) = "dup"
        /\ writers' = [writers EXCEPT ![Out(p, 1)] = @ \ {p}]
        /\ Goto(p, "close2") /\ UNCHANGED <<read, readers, pipe, out, in>>
     \/ /\ at[p] = (IF Fn(p) = "dup" THEN "close2" ELSE "close1")
        /\ Ends(p) /\ UNCHANGED <<read, pipe, out, in>>
  /\ UNCHANGED <<program, pc, result, first, value, output>>

\* fclose of the output, or of both outputs in turn, then exit.
Close(p) ==
  /\ \/ at[p] = "close1" /\ Flush(p, Out(p, 1))
     \/ at[p] = "close2" /\ Flush(p, Out(p, 2))
     \/ /\ at[p] = "close1" /\ out[Out(p, 1)] = <<>> /\ Fn(p) = "dup"
        /\ writers' = [writers EXCEPT ![Out(p, 1)] = @ \ {p}]
        /\ Goto(p, "close2") /\ UNCHANGED <<read, readers, pipe, out, in>>
     \/ /\ at[p] = (IF Fn(p) = "dup" THEN "close2" ELSE "close1")
        /\ out[Out(p, IF Fn(p) = "dup" THEN 2 ELSE 1)] = <<>>
        /\ Ends(p) /\ UNCHANGED <<read, pipe, out, in>>
  /\ UNCHANGED <<program, pc, result, first, value, output>>

\* print_stream and save_stream keep what they read; "head" is a sink that
\* returns after arg items.
SinkRead ==
  /\ at[Main] = "in1"
  /\ \/ /\ Fread(In(pc, 1))
        /\ output' = Append(output, Head(Items(In(pc, 1))))
        /\ IF Fn(pc) = "head" /\ Len(output) + 1 = program[pc].arg[1]
           THEN Goto(Main, "exit") ELSE UNCHANGED at
     \/ AtEnd(In(pc, 1)) /\ Goto(Main, "exit") /\ UNCHANGED <<netVars, output>>
  /\ UNCHANGED <<program, pc, result, first, value>>

Child(p) ==
  \/ ReadFirst(p) \/ ReadSecond(p) \/ ReadEnd(p) \/ WriteValue(p) \/ SourceWrite(p) \/ FlushFull(p) \/ Close(p)

Next ==
  \/ Link \/ Refuse \/ SinkStart \/ SinkRead \/ SinkEnd \/ FreeStream \/ MainExit
  \/ \E p \in Children : Child(p)

\* A process that can go on does so.
Spec == Init /\ [][Next]_vars /\ WF_vars(Next)

-----------------------------------------------------------------------------
(* What a network computes: each stream as a function of its inputs.       *)

Made == UNION {Outs(program[p]) : p \in DOMAIN program}

Creator(s) == CHOOSE p \in DOMAIN program : s \in Outs(program[p])

\* The two streams together are as long as the shorter one.
Pairs(x, y) == 1 .. (IF Len(x) < Len(y) THEN Len(x) ELSE Len(y))

\* Which items of x let the item of y beside them pass, and how many of those
\* are among the first n.
Passing(x, y) == {k \in Pairs(x, y) : x[k] # 0}
Rank(x, n) == Cardinality({k \in 1 .. n : x[k] # 0})

\* What process p makes of its inputs x and y.
Carries(p, x, y) ==
  LET arg == program[p].arg
      Plus(v) == [i \in DOMAIN v |-> (v[i] + arg[1]) % 256]
  IN
  CASE Fn(p) = "source" -> arg
    [] Fn(p) = "dup" -> x
    [] Fn(p) = "divisible_by" -> [i \in DOMAIN x |-> IF x[i] % arg[1] = 0 THEN 1 ELSE 0]
    [] Fn(p) = "and_streams" -> [i \in Pairs(x, y) |-> IF x[i] # 0 /\ y[i] # 0 THEN 1 ELSE 0]
    [] Fn(p) = "filter_streams" ->
         [n \in 1 .. Cardinality(Passing(x, y)) |->
            y[CHOOSE k \in Passing(x, y) : Rank(x, k) = n]]
    [] Fn(p) = "function_single" -> Plus(x)
    [] Fn(p) = "function" -> Plus(y) \o Plus(x)

Value[s \in Made] ==
  LET p == Creator(s) IN Carries(p, Value[In(p, 1)], Value[In(p, 2)])

-----------------------------------------------------------------------------
(* Properties.                                                             *)

SinkCalls == {i \in DOMAIN program : Fn(i) \in {"sink", "head"} /\ result[i] # 1}

\* However the processes are scheduled and however small the buffers are, the
\* sink reads the items that the network's functions define, in order, and
\* when link_sink returns it has read all of them (or as many as it wanted).
OutputIsValue ==
  \A i \in SinkCalls :
    LET value0 == Value[In(i, 1)] IN
    /\ IsPrefix(output, value0)
    /\ result[i] = 0 /\ Fn(i) = "sink" => output = value0

\* transducers.h:19: "Each stream may be used as input to only one
\* transducer".  A call returns 1 if and only if one of its inputs is taken,
\* and no two processes read from one stream.
TakenOnce ==
  \A i, j \in DOMAIN program :
    /\ i # j /\ result[i] = 0 /\ result[j] = 0 /\ "free" \notin {Fn(i), Fn(j)}
         => Ins(program[i]) \cap Ins(program[j]) = {}
    /\ result[j] = 1 => \E k \in 1 .. j - 1 :
         result[k] = 0 /\ Ins(program[k]) \cap Ins(program[j]) # {}

\* Everything ends: main returns, every child exits, and no process holds an
\* end of a pipe.  This rests on each side closing the ends it does not use,
\* although children inherit the read ends of all earlier streams.
AllEnd ==
  <>(/\ pc = Len(program) + 1 /\ at[Main] = "none"
     /\ \A p \in Children : at[p] \in {"none", "exit"}
     /\ \A s \in Streams : readers[s] = {} /\ writers[s] = {})
=============================================================================
