-------------------------- MODULE TransducersProofs --------------------------
(***************************************************************************)
(* For every proper program, every size of the buffers and every schedule: *)
(* a stream is taken once, and the sink reads what the functions of the    *)
(* network define.                                                         *)
(***************************************************************************)
EXTENDS Transducers, SequenceTheorems, FiniteSetTheorems, TLAPS

\* What the calls made so far have returned, and what they did to the flags.
CallsInv ==
  /\ \A j \in Children : result[j] = -1 <=> j >= pc
  /\ \A s \in Streams :
       /\ read[s] # -1 <=> \E k \in Children : result[k] = 0 /\ s \in Outs(program[k])
       /\ read[s] = 1 <=> \E k \in Children : result[k] = 0 /\ Fn(k) # "free" /\ s \in Ins(program[k])

\* A call that succeeded has forked its child, which stays in its function; main
\* runs the sink of a stream that is free.
PlaceInv ==
  /\ \A p \in Children :
       /\ at[p] # "none" <=> result[p] = 0 /\ IsLink(program[p])
       /\ at[p] = "in1" => Fn(p) # "source"
       /\ at[p] = "in2" => ReadsTwo(program[p])
       /\ at[p] \in {"out2", "close2"} => Fn(p) = "dup"
  /\ at[Main] \in {"none", "in1", "exit"}
  /\ at[Main] # "none" => pc \in Children /\ Fn(pc) \in {"sink", "head"} /\ Free(program[pc])

\* A source counts its items from 0.
SourceInv == \A p \in Children : Fn(p) = "source" => value[p] \in Nat

IInv == TypeOK /\ CallsInv /\ PlaceInv /\ TakenOnce /\ SourceInv

Functions == {"source", "divisible_by", "and_streams", "filter_streams", "function",
              "function_single", "dup", "sink", "head", "free"}
Places == {"none", "in1", "in2", "out1", "out2", "close1", "close2", "exit"}

-----------------------------------------------------------------------------
(* What a proper program is, call by call.                                 *)

LEMMA ProgramIs ==
  ASSUME TypeOK
  PROVE  /\ ProperProgram(program) /\ program \in Seq(Calls)
         /\ Len(program) \in Nat /\ Children = 1 .. Len(program)
         /\ Main \notin Children /\ Main \in Procs /\ Children \subseteq Procs /\ pc \in Nat
         /\ pc >= 1 /\ pc <= Len(program) + 1
<1>1. ProperProgram(program)
  BY ProgramsAssumption DEF TypeOK
<1>2. program \in Seq(Calls)
  BY <1>1 DEF ProperProgram
<1>3. Len(program) \in Nat /\ Children = 1 .. Len(program)
  BY <1>2 DEF Children
<1> QED
  BY <1>1, <1>2, <1>3 DEF TypeOK, Main, Procs

LEMMA StreamsAre == \E n \in Nat : Streams = 1 .. n
BY StreamsAssumption, FS_CardinalityType

\* The function, the streams and the argument of a call.
Shape(call) ==
  /\ call.fn \in Functions
  /\ call.in \in Seq(Streams) /\ call.out \in Seq(Streams) /\ call.arg \in Seq(Int)
  /\ Ins(call) \subseteq Streams /\ Outs(call) \subseteq Streams
  /\ IsLink(call) => call.out[1] \in Streams /\ 1 \in DOMAIN call.out
  /\ IsLink(call) /\ call.fn # "dup" => DOMAIN call.out = {1} /\ Outs(call) = {call.out[1]}
  /\ call.fn = "dup" => /\ DOMAIN call.out = {1, 2} /\ call.out[2] \in Streams
                        /\ call.out[1] # call.out[2] /\ Outs(call) = {call.out[1], call.out[2]}
  /\ ~IsLink(call) => Outs(call) = {}
  /\ call.fn # "source" => call.in[1] \in Streams /\ call.in[1] \in Ins(call)
  /\ call.fn # "source" /\ ~ReadsTwo(call) => Ins(call) = {call.in[1]}
  /\ ReadsTwo(call) => /\ call.in[2] \in Streams /\ call.in[1] # call.in[2]
                       /\ Ins(call) = {call.in[1], call.in[2]}
  /\ call.fn \in {"function", "function_single"} => call.arg[1] \in Int
  /\ call.fn \in {"divisible_by", "head"} => call.arg[1] \in Int /\ call.arg[1] > 0

LEMMA ProperShape ==
  ASSUME NEW call, ProperCall(call)
  PROVE  Shape(call)
<1>1. /\ call.fn \in Functions
      /\ call.in \in Seq(Streams) /\ call.out \in Seq(Streams) /\ call.arg \in Seq(Int)
  BY DEF ProperCall, Calls, Functions
<1>2. Ins(call) \subseteq Streams /\ Outs(call) \subseteq Streams
  BY <1>1 DEF Ins, Outs, ToSet
<1>3. DOMAIN call.out = 1 .. Len(call.out) /\ DOMAIN call.in = 1 .. Len(call.in)
      /\ DOMAIN call.arg = 1 .. Len(call.arg) /\ Len(call.arg) \in Nat
  BY <1>1
<1>4. /\ IsLink(call) => call.out[1] \in Streams /\ 1 \in DOMAIN call.out
      /\ IsLink(call) /\ call.fn # "dup" => DOMAIN call.out = {1} /\ Outs(call) = {call.out[1]}
      /\ ~IsLink(call) => Outs(call) = {}
  <2>1. CASE ~IsLink(call)
    BY <1>1, <1>3, <2>1 DEF ProperCall, Outs, ToSet
  <2>2. CASE IsLink(call) /\ call.fn = "dup"
    <3>1. 1 \in DOMAIN call.out
      BY <1>3, <2>2 DEF ProperCall
    <3> QED
      BY <1>1, <2>2, <3>1
  <2>3. CASE IsLink(call) /\ call.fn # "dup"
    <3>1. DOMAIN call.out = {1}
      BY <1>3, <2>3 DEF ProperCall
    <3> QED
      BY <1>1, <2>3, <3>1 DEF Outs, ToSet
  <2> QED
    BY <2>1, <2>2, <2>3
<1>5. call.fn = "dup" => /\ DOMAIN call.out = {1, 2} /\ call.out[2] \in Streams
                         /\ call.out[1] # call.out[2] /\ Outs(call) = {call.out[1], call.out[2]}
  <2> SUFFICES ASSUME call.fn = "dup" PROVE
                         /\ DOMAIN call.out = {1, 2} /\ call.out[2] \in Streams
                         /\ call.out[1] # call.out[2] /\ Outs(call) = {call.out[1], call.out[2]}
    OBVIOUS
  <2>1. DOMAIN call.out = {1, 2}
    BY <1>3 DEF ProperCall, IsLink
  <2>2. call.out[1] # call.out[2]
    BY <2>1 DEF ProperCall, IsInjective
  <2> QED
    BY <1>1, <2>1, <2>2 DEF Outs, ToSet
<1>6. /\ call.fn # "source" => call.in[1] \in Streams /\ call.in[1] \in Ins(call)
      /\ call.fn # "source" /\ ~ReadsTwo(call) => Ins(call) = {call.in[1]}
  <2>1. CASE ReadsTwo(call)
    <3>1. Len(call.in) = 2
      BY <2>1 DEF ProperCall
    <3>2. DOMAIN call.in = {1, 2}
      BY <1>3, <3>1
    <3> QED
      BY <1>1, <2>1, <3>2 DEF Ins, ToSet
  <2>2. CASE call.fn # "source" /\ ~ReadsTwo(call)
    <3>1. Len(call.in) = 1
      BY <2>2 DEF ProperCall
    <3>2. DOMAIN call.in = {1}
      BY <1>3, <3>1
    <3> QED
      BY <1>1, <2>2, <3>2 DEF Ins, ToSet
  <2> QED
    BY <2>1, <2>2 DEF ReadsTwo
<1>7. ReadsTwo(call) => /\ call.in[2] \in Streams /\ call.in[1] # call.in[2]
                        /\ Ins(call) = {call.in[1], call.in[2]}
  <2> SUFFICES ASSUME ReadsTwo(call)
               PROVE  /\ call.in[2] \in Streams /\ call.in[1] # call.in[2]
                      /\ Ins(call) = {call.in[1], call.in[2]}
    OBVIOUS
  <2>1. Len(call.in) = 2
    BY DEF ProperCall
  <2>2. DOMAIN call.in = {1, 2}
    BY <1>3, <2>1
  <2>3. call.in[1] # call.in[2]
    BY <2>2 DEF ProperCall, IsInjective
  <2> QED
    BY <1>1, <2>2, <2>3 DEF Ins, ToSet
<1>8. call.arg # <<>> => call.arg[1] \in Int
  BY <1>1
<1>9. /\ call.fn \in {"function", "function_single"} => call.arg[1] \in Int
      /\ call.fn \in {"divisible_by", "head"} => call.arg[1] \in Int /\ call.arg[1] > 0
  BY <1>8 DEF ProperCall
<1> QED
  BY <1>1, <1>2, <1>4, <1>5, <1>6, <1>7, <1>9 DEF Shape

LEMMA CallIs ==
  ASSUME TypeOK, NEW p \in Children
  PROVE  Shape(program[p]) /\ p \in Procs /\ p # Main /\ p \in Nat
<1>1. ProperCall(program[p])
  BY ProgramIs DEF ProperProgram, Children
<1> QED
  BY <1>1, ProgramIs, ProperShape

-----------------------------------------------------------------------------
(* What stdio does to a stream: Left(s) is what has been written to it and *)
(* not yet read.                                                           *)

Left(s) == in[s] \o pipe[s] \o out[s]

Buffers ==
  /\ pipe \in [Streams -> Seq(Int)] /\ \A s \in Streams : Len(pipe[s]) <= PipeSize
  /\ out \in [Streams -> Seq(Int)] /\ \A s \in Streams : Len(out[s]) <= BufSize
  /\ in \in [Streams -> Seq(Int)] /\ \A s \in Streams : Len(in[s]) < BufSize

LEMMA Sizes == BufSize \in Nat /\ BufSize > 0 /\ PipeSize \in Nat /\ PipeSize >= BufSize
BY SizesAssumption

LEMMA LeftIs ==
  ASSUME Buffers, NEW s \in Streams
  PROVE  /\ in[s] \in Seq(Int) /\ pipe[s] \in Seq(Int) /\ out[s] \in Seq(Int)
         /\ Items(s) \in Seq(Int) /\ Left(s) = Items(s) \o out[s]
         /\ Left(s) \in Seq(Int) /\ Len(Left(s)) \in Nat
<1>1. in[s] \in Seq(Int) /\ pipe[s] \in Seq(Int) /\ out[s] \in Seq(Int)
  BY DEF Buffers
<1>2. Items(s) \in Seq(Int)
  BY <1>1, ConcatProperties DEF Items
<1>3. Left(s) = Items(s) \o out[s]
  BY DEF Items, Left
<1>4. Left(s) \in Seq(Int)
  BY <1>1, <1>2, <1>3, ConcatProperties
<1> QED
  BY <1>1, <1>2, <1>3, <1>4

\* The rest of the pipe after a buffer has been filled from it.
LEMMA Refilled ==
  ASSUME NEW q \in Seq(Int), q # <<>>, NEW n \in Nat, 1 <= n, n <= Len(q)
  PROVE  /\ SubSeq(q, 2, n) \in Seq(Int) /\ Len(SubSeq(q, 2, n)) = n - 1
         /\ SubSeq(q, n + 1, Len(q)) \in Seq(Int) /\ Len(SubSeq(q, n + 1, Len(q))) = Len(q) - n
         /\ SubSeq(q, 2, n) \o SubSeq(q, n + 1, Len(q)) = Tail(q)
<1>1. Len(q) \in Nat /\ Len(q) >= 1
  BY EmptySeq
<1>2. SubSeq(q, 2, n) \in Seq(Int) /\ Len(SubSeq(q, 2, n)) = n - 1
  <2>1. \A i \in 2 .. n : q[i] \in Int
    BY <1>1
  <2>2. SubSeq(q, 2, n) \in Seq(Int) /\ Len(SubSeq(q, 2, n)) = IF 2 <= n THEN n - 2 + 1 ELSE 0
    BY <2>1, SubSeqProperties
  <2> QED
    BY <2>2
<1>3. SubSeq(q, n + 1, Len(q)) \in Seq(Int) /\ Len(SubSeq(q, n + 1, Len(q))) = Len(q) - n
  <2>1. \A i \in n + 1 .. Len(q) : q[i] \in Int
    BY <1>1
  <2>2. /\ SubSeq(q, n + 1, Len(q)) \in Seq(Int)
        /\ Len(SubSeq(q, n + 1, Len(q))) = IF n + 1 <= Len(q) THEN Len(q) - (n + 1) + 1 ELSE 0
    BY <1>1, <2>1, SubSeqProperties
  <2> QED
    BY <1>1, <2>2
<1>4. SubSeq(q, 2, n) \o SubSeq(q, n + 1, Len(q)) = SubSeq(q, 2, Len(q))
  <2>1. 2 \in 1 .. Len(q) + 1 /\ n \in 2 - 1 .. Len(q) /\ Len(q) \in n .. Len(q)
    BY <1>1
  <2> QED
    BY <2>1, ConcatAdjacentSubSeq
<1>5. Tail(q) = SubSeq(q, 2, Len(q))
  BY TailIsSubSeq
<1> QED
  BY <1>2, <1>3, <1>4, <1>5

LEMMA Assoc ==
  ASSUME NEW x \in Seq(Int), NEW y \in Seq(Int), NEW z \in Seq(Int)
  PROVE  (x \o y) \o z = x \o (y \o z)
BY ConcatAssociative

LEMMA TailConcat ==
  ASSUME NEW x \in Seq(Int), NEW y \in Seq(Int), x # <<>>
  PROVE  Tail(x) \o y = Tail(x \o y) /\ Head(x) = (x \o y)[1] /\ x \o y # <<>>
<1>1. Len(x) \in Nat /\ Len(x) > 0 /\ Tail(x) \in Seq(Int) /\ x \o y \in Seq(Int)
      /\ Len(y) \in Nat /\ Len(x \o y) = Len(x) + Len(y)
  BY EmptySeq
<1>2. x \o y # <<>>
  BY <1>1
<1>3. Tail(x) \o y \in Seq(Int) /\ Tail(x \o y) \in Seq(Int)
  BY <1>1, <1>2
<1>4. Len(Tail(x) \o y) = Len(Tail(x \o y))
  BY <1>1, <1>2
<1>5. ASSUME NEW i \in 1 .. Len(Tail(x) \o y) PROVE (Tail(x) \o y)[i] = Tail(x \o y)[i]
  BY <1>1, <1>2, <1>5
<1>6. Tail(x) \o y = Tail(x \o y)
  BY <1>3, <1>4, <1>5, SeqEqual
<1> QED
  BY <1>1, <1>2, <1>6

LEMMA FreadStep ==
  ASSUME Buffers, NEW s \in Streams, Fread(s)
  PROVE  /\ Buffers' /\ UNCHANGED <<read, readers, writers, out>>
         /\ Left(s) # <<>> /\ Head(Items(s)) \in Int /\ Head(Items(s)) = Left(s)[1]
         /\ Left(s)' = Tail(Left(s))
         /\ \A t \in Streams : t # s => Left(t)' = Left(t)
<1>1. Items(s) # <<>> /\ UNCHANGED <<read, readers, writers, out>>
  BY DEF Fread
<1>2. /\ in[s] \in Seq(Int) /\ pipe[s] \in Seq(Int) /\ out[s] \in Seq(Int)
      /\ Items(s) \in Seq(Int) /\ Left(s) = Items(s) \o out[s]
  BY LeftIs
<1>3. /\ in' \in [Streams -> Seq(Int)] /\ pipe' \in [Streams -> Seq(Int)]
      /\ Len(in'[s]) < BufSize /\ Len(pipe'[s]) <= PipeSize
      /\ \A t \in Streams : t # s => in'[t] = in[t] /\ pipe'[t] = pipe[t]
      /\ in'[s] \o pipe'[s] = Tail(Items(s))
  <2>1. CASE in[s] # <<>>
    <3>1. in' = [in EXCEPT ![s] = Tail(in[s])] /\ pipe' = pipe
      BY <2>1 DEF Fread
    <3>2. Tail(in[s]) \in Seq(Int) /\ Len(Tail(in[s])) = Len(in[s]) - 1
      BY <1>2, <2>1
    <3>3. in'[s] = Tail(in[s]) /\ pipe'[s] = pipe[s]
      BY <3>1 DEF Buffers
    <3>4. in'[s] \o pipe'[s] = Tail(Items(s))
      BY <1>2, <2>1, <3>3, TailConcat DEF Items
    <3>5. Len(in'[s]) < BufSize
      BY <1>2, <3>2, <3>3, Sizes DEF Buffers
    <3> QED
      BY <3>1, <3>2, <3>4, <3>5 DEF Buffers
  <2>2. CASE in[s] = <<>>
    <3>1. PICK n : n = IF Len(pipe[s]) < BufSize THEN Len(pipe[s]) ELSE BufSize
      OBVIOUS
    <3>2. /\ in' = [in EXCEPT ![s] = SubSeq(pipe[s], 2, n)]
          /\ pipe' = [pipe EXCEPT ![s] = SubSeq(pipe[s], n + 1, Len(pipe[s]))]
      BY <2>2, <3>1 DEF Fread
    <3>3. Items(s) = pipe[s] /\ pipe[s] # <<>>
      BY <1>1, <1>2, <2>2 DEF Items
    <3>4. n \in Nat /\ 1 <= n /\ n <= Len(pipe[s]) /\ n <= BufSize
      BY <1>2, <3>1, <3>3, Sizes, EmptySeq
    <3>5. /\ SubSeq(pipe[s], 2, n) \in Seq(Int) /\ Len(SubSeq(pipe[s], 2, n)) = n - 1
          /\ SubSeq(pipe[s], n + 1, Len(pipe[s])) \in Seq(Int)
          /\ Len(SubSeq(pipe[s], n + 1, Len(pipe[s]))) = Len(pipe[s]) - n
          /\ SubSeq(pipe[s], 2, n) \o SubSeq(pipe[s], n + 1, Len(pipe[s])) = Tail(pipe[s])
      BY <1>2, <3>3, <3>4, Refilled
    <3>6. in'[s] = SubSeq(pipe[s], 2, n) /\ pipe'[s] = SubSeq(pipe[s], n + 1, Len(pipe[s]))
      BY <3>2 DEF Buffers
    <3>7. Len(in'[s]) < BufSize /\ Len(pipe'[s]) <= PipeSize
      <4>1. Len(pipe[s]) <= PipeSize /\ Len(pipe[s]) \in Nat
        BY <1>2 DEF Buffers
      <4> QED
        BY <3>4, <3>5, <3>6, <4>1, Sizes
    <3> QED
      BY <3>2, <3>3, <3>5, <3>6, <3>7 DEF Buffers
  <2> QED
    BY <2>1, <2>2
<1>4. Buffers'
  BY <1>1, <1>3 DEF Buffers
<1>5. Head(Items(s)) \in Int /\ Left(s) # <<>> /\ Head(Items(s)) = Left(s)[1]
      /\ Tail(Items(s)) \o out[s] = Tail(Left(s))
  <2>1. Head(Items(s)) \in Int
    BY <1>1, <1>2
  <2> QED
    BY <1>1, <1>2, <2>1, TailConcat
<1>6. Left(s)' = Tail(Left(s))
  BY <1>1, <1>3, <1>5 DEF Left
<1>7. \A t \in Streams : t # s => Left(t)' = Left(t)
  BY <1>1, <1>3 DEF Left
<1> QED
  BY <1>1, <1>4, <1>5, <1>6, <1>7

LEMMA FwriteStep ==
  ASSUME Buffers, NEW s \in Streams, NEW v \in Int, Fwrite(s, v)
  PROVE  /\ Buffers' /\ UNCHANGED <<read, readers, writers, pipe, in>>
         /\ Left(s)' = Append(Left(s), v)
         /\ \A t \in Streams : t # s => Left(t)' = Left(t) /\ out'[t] = out[t]
<1>1. /\ in[s] \in Seq(Int) /\ pipe[s] \in Seq(Int) /\ out[s] \in Seq(Int)
      /\ Items(s) \in Seq(Int) /\ Left(s) = Items(s) \o out[s]
  BY LeftIs
<1>2. UNCHANGED <<read, readers, writers, pipe, in>> /\ Len(out[s]) < BufSize
      /\ out' = [out EXCEPT ![s] = Append(out[s], v)]
  BY DEF Fwrite
<1>3. Append(out[s], v) \in Seq(Int) /\ Len(Append(out[s], v)) <= BufSize
  BY <1>1, <1>2, Sizes
<1>4. out'[s] = Append(out[s], v)
  BY <1>2 DEF Buffers
<1>5. Buffers'
  BY <1>2, <1>3 DEF Buffers
<1>6. Items(s) \o Append(out[s], v) = Append(Items(s) \o out[s], v)
  <2>1. Append(out[s], v) = out[s] \o <<v>> /\ <<v>> \in Seq(Int)
    BY <1>1, AppendIsConcat
  <2>2. Append(Items(s) \o out[s], v) = (Items(s) \o out[s]) \o <<v>>
    BY <1>1, AppendIsConcat
  <2>3. (Items(s) \o out[s]) \o <<v>> = Items(s) \o (out[s] \o <<v>>)
    BY <1>1, <2>1, Assoc, Zenon
  <2> QED
    BY <2>1, <2>2, <2>3
<1>7. Left(s)' = Append(Left(s), v)
  BY <1>1, <1>2, <1>4, <1>6 DEF Left, Items
<1>8. \A t \in Streams : t # s => Left(t)' = Left(t) /\ out'[t] = out[t]
  BY <1>2 DEF Left, Buffers
<1> QED
  BY <1>2, <1>5, <1>7, <1>8

\* A flush that finds a reader moves the items from the buffer to the pipe.
LEMMA FlushStep ==
  ASSUME Buffers, NEW p, NEW s \in Streams, Flush(p, s), readers[s] # {}
  PROVE  /\ Buffers' /\ UNCHANGED <<read, readers, writers, in, at>>
         /\ out'[s] = <<>> /\ \A t \in Streams : t # s => out'[t] = out[t]
         /\ \A t \in Streams : Left(t)' = Left(t)
<1>1. /\ in[s] \in Seq(Int) /\ pipe[s] \in Seq(Int) /\ out[s] \in Seq(Int)
  BY LeftIs
<1>2. /\ Len(pipe[s]) + Len(out[s]) <= PipeSize
      /\ pipe' = [pipe EXCEPT ![s] = pipe[s] \o out[s]]
      /\ out' = [out EXCEPT ![s] = <<>>]
      /\ UNCHANGED <<read, readers, writers, in, at>>
  BY DEF Flush
<1>3. pipe[s] \o out[s] \in Seq(Int) /\ Len(pipe[s] \o out[s]) <= PipeSize
  <2>1. pipe[s] \o out[s] \in Seq(Int) /\ Len(pipe[s] \o out[s]) = Len(pipe[s]) + Len(out[s])
    BY <1>1, ConcatProperties
  <2> QED
    BY <1>2, <2>1
<1>4. <<>> \in Seq(Int) /\ Len(<<>>) <= BufSize
  BY Sizes
<1>5. Buffers'
  BY <1>2, <1>3, <1>4 DEF Buffers
<1>6. pipe'[s] = pipe[s] \o out[s] /\ out'[s] = <<>> /\ in' = in
  BY <1>2 DEF Buffers
<1>7. Left(s)' = Left(s)
  <2>1. in[s] \o (pipe[s] \o out[s]) \in Seq(Int)
    BY <1>1, <1>3, ConcatProperties
  <2>2. (in[s] \o (pipe[s] \o out[s])) \o <<>> = in[s] \o (pipe[s] \o out[s])
    BY <2>1, ConcatEmptySeq
  <2>3. (in[s] \o pipe[s]) \o out[s] = in[s] \o (pipe[s] \o out[s])
    BY <1>1, Assoc, Zenon
  <2> QED
    BY <1>6, <2>2, <2>3 DEF Left
<1>8. \A t \in Streams : t # s => Left(t)' = Left(t) /\ out'[t] = out[t]
  BY <1>2 DEF Left, Buffers
<1> QED
  BY <1>2, <1>5, <1>6, <1>7, <1>8

-----------------------------------------------------------------------------
(* The flags: TypeOK and TakenOnce.                                        *)

\* A stream that a call is about to make does not exist: the call that made it
\* would be the same call, and have taken its inputs.
LEMMA OutputsAreNew ==
  ASSUME IInv, pc \in Children, Free(program[pc]), NEW s \in Outs(program[pc])
  PROVE  read[s] = -1
<1>1. s \in Streams
  BY CallIs DEF IInv, Shape
<1>2. ASSUME read[s] # -1 PROVE FALSE
  <2>1. PICK k \in Children : result[k] = 0 /\ s \in Outs(program[k])
    BY <1>1, <1>2 DEF IInv, CallsInv
  <2>2. k # pc
    BY <2>1, ProgramIs DEF IInv, CallsInv
  <2>3. program[k] = program[pc] /\ Ins(program[pc]) # {}
    BY <2>1, <2>2, ProgramIs DEF IInv, ProperProgram, Children
  <2>4. PICK t \in Ins(program[pc]) : TRUE
    BY <2>3
  <2>5. t \in Streams /\ read[t] = 0
    BY CallIs DEF IInv, Shape, Free
  <2>6. program[k].fn # "free"
    BY <2>1, CallIs DEF IInv, Shape, IsLink
  <2> QED
    BY <2>1, <2>3, <2>5, <2>6 DEF IInv, CallsInv, Fn
<1> QED
  BY <1>2

\* A stream that a call is given exists.
LEMMA InputsExist ==
  ASSUME IInv, pc \in Children, NEW s \in Ins(program[pc])
  PROVE  read[s] # -1
<1>1. s \in Streams
  BY CallIs DEF IInv, Shape
<1>2. PICK i \in 1 .. pc - 1 :
        s \in Outs(program[i]) /\ \A k \in 1 .. i - 1 : Ins(program[k]) \cap Ins(program[i]) = {}
  BY ProgramIs DEF IInv, ProperProgram, Children
<1>3. i \in Children /\ i < pc /\ i \in Nat
  BY <1>2, ProgramIs DEF IInv
<1>4. result[i] # -1 /\ result[i] # 1
  BY <1>2, <1>3, ProgramIs DEF IInv, CallsInv, TakenOnce, Children
<1>5. result[i] = 0
  BY <1>3, <1>4 DEF IInv, TypeOK, Children
<1> QED
  BY <1>1, <1>2, <1>3, <1>5 DEF IInv, CallsInv

LEMMA InitInv == Init => IInv
<1> SUFFICES ASSUME Init PROVE IInv
  OBVIOUS
<1>1. ProperProgram(program) /\ program \in Seq(Calls) /\ Len(program) \in Nat
      /\ Children = 1 .. Len(program) /\ Main \notin Children
  <2>1. ProperProgram(program)
    BY ProgramsAssumption DEF Init
  <2>2. program \in Seq(Calls)
    BY <2>1 DEF ProperProgram
  <2> QED
    BY <2>1, <2>2 DEF Children, Main
<1>2. TypeOK
  BY <1>1, Sizes DEF Init, TypeOK, Procs, Children, Main
<1>3. CallsInv
  BY <1>1 DEF Init, CallsInv, Children
<1>4. PlaceInv
  BY <1>1 DEF Init, PlaceInv, Children, Procs, Main
<1>5. TakenOnce
  BY <1>1 DEF Init, TakenOnce, Children
<1>6. SourceInv
  BY <1>1 DEF Init, SourceInv, Fn, Children, Procs, Main
<1> QED
  BY <1>2, <1>3, <1>4, <1>5, <1>6 DEF IInv

LEMMA LinkInv == IInv /\ Link => IInv'
<1> SUFFICES ASSUME IInv, Link PROVE IInv'
  OBVIOUS
<1> DEFINE call == program[pc]
<1>1. /\ pc \in Children /\ IsLink(call) /\ Free(call)
      /\ read' = [s \in Streams |-> IF s \in Outs(call) THEN 0 ELSE IF s \in Ins(call) THEN 1 ELSE read[s]]
      /\ readers' = [s \in Streams |-> IF s \in Outs(call) THEN {Main}
                                       ELSE IF Main \in readers[s] THEN readers[s] \cup {pc} ELSE readers[s]]
      /\ writers' = [s \in Streams |-> IF s \in Outs(call) THEN {pc} ELSE writers[s]]
      /\ at' = [at EXCEPT ![pc] = FirstPlace(Fn(pc))]
      /\ result' = [result EXCEPT ![pc] = 0] /\ pc' = pc + 1
      /\ UNCHANGED <<program, pipe, out, in, first, value, output>>
  BY DEF Link, Children, Goto, MainReturns, Fn
<1>2. TypeOK /\ Shape(call) /\ pc \in Procs /\ pc # Main /\ pc \in Nat
  BY <1>1, CallIs DEF IInv
<1>3. Len(program) \in Nat /\ Children = 1 .. Len(program) /\ Main \in Procs /\ Children \subseteq Procs
  BY ProgramIs DEF IInv
<1>4. Children' = Children /\ Procs' = Procs
  BY <1>1 DEF Children, Procs
<1>5. FirstPlace(Fn(pc)) \in {"in1", "in2", "out1"}
      /\ (FirstPlace(Fn(pc)) = "in1" => Fn(pc) # "source")
      /\ (FirstPlace(Fn(pc)) = "in2" => Fn(pc) = "function")
  BY DEF FirstPlace
<1>6. TypeOK'
  <2>1. pc' \in 1 .. Len(program') + 1
    BY <1>1, <1>2, <1>3
  <2>2. result' \in [DOMAIN program' -> {-1, 0, 1}] /\ read' \in [Streams -> {-1, 0, 1}]
    BY <1>1, <1>2 DEF TypeOK
  <2>3. readers' \in [Streams -> SUBSET Procs'] /\ writers' \in [Streams -> SUBSET Procs']
    BY <1>1, <1>2, <1>3, <1>4 DEF TypeOK
  <2>4. at' \in [Procs' -> Places]
    BY <1>1, <1>2, <1>4, <1>5 DEF TypeOK, Places
  <2> QED
    BY <1>1, <1>2, <1>4, <2>1, <2>2, <2>3, <2>4 DEF TypeOK, Places
<1>7. \A s \in Outs(call) : s \in Streams /\ read[s] = -1 /\ s \notin Ins(call)
  <2>1. \A s \in Outs(call) : s \in Streams /\ s \in Nat
    BY <1>2, StreamsAre DEF Shape
  <2>2. \A s \in Ins(call), t \in Outs(call) : s < t
    BY <1>1, ProgramIs DEF IInv, ProperProgram, Children
  <2> QED
    BY <1>1, <2>1, <2>2, OutputsAreNew
<1>8. \A s \in Ins(call) : s \in Streams /\ read[s] = 0
  BY <1>1, <1>2 DEF Shape, Free
<1>9. /\ result'[pc] = 0 /\ result[pc] = -1
      /\ \A k \in Children : k # pc => result'[k] = result[k]
  BY <1>1, <1>2 DEF IInv, TypeOK, CallsInv, Children
<1>10. call.fn # "free"
  BY <1>1 DEF IsLink
<1>11. CallsInv'
  <2>1. ASSUME NEW j \in Children PROVE result'[j] = -1 <=> j >= pc'
    <3>1. j \in Nat
      BY <1>3
    <3>2. result[j] = -1 <=> j >= pc
      BY DEF IInv, CallsInv
    <3> QED
      BY <1>1, <1>2, <1>9, <3>1, <3>2
  <2>2. ASSUME NEW s \in Streams
        PROVE  read'[s] # -1 <=> \E k \in Children : result'[k] = 0 /\ s \in Outs(program[k])
    <3>1. CASE s \in Outs(call)
      BY <1>1, <1>9, <3>1
    <3>2. CASE s \notin Outs(call)
      <4>1. read'[s] # -1 <=> read[s] # -1
        BY <1>1, <1>8, <3>2
      <4>2. (\E k \in Children : result'[k] = 0 /\ s \in Outs(program[k]))
            <=> \E k \in Children : result[k] = 0 /\ s \in Outs(program[k])
        BY <1>9, <3>2
      <4> QED
        BY <4>1, <4>2 DEF IInv, CallsInv
    <3> QED
      BY <3>1, <3>2
  <2>3. ASSUME NEW s \in Streams
        PROVE  read'[s] = 1 <=> \E k \in Children : result'[k] = 0 /\ Fn(k) # "free" /\ s \in Ins(program[k])
    <3>1. read[s] = 1 <=> \E k \in Children : result[k] = 0 /\ Fn(k) # "free" /\ s \in Ins(program[k])
      BY DEF IInv, CallsInv
    <3>2. CASE s \in Outs(call)
      <4>1. read'[s] = 0 /\ read[s] # 1 /\ s \notin Ins(call)
        BY <1>1, <1>7, <3>2
      <4> QED
        BY <1>9, <3>1, <4>1
    <3>3. CASE s \in Ins(call)
      <4>1. read'[s] = 1
        BY <1>1, <1>7, <3>3
      <4> QED
        BY <1>1, <1>9, <1>10, <3>3, <4>1 DEF Fn
    <3>4. CASE s \notin Ins(call) /\ s \notin Outs(call)
      <4>1. read'[s] = read[s]
        BY <1>1, <3>4
      <4> QED
        BY <1>9, <3>1, <3>4, <4>1
    <3> QED
      BY <3>2, <3>3, <3>4
  <2> QED
    BY <1>1, <1>4, <2>1, <2>2, <2>3 DEF CallsInv, Fn
<1>12. PlaceInv'
  <2>1. at[Main] = "none"
    BY <1>1 DEF IInv, PlaceInv, IsLink, Fn
  <2>2. at'[Main] = "none"
    BY <1>1, <1>2, <1>3, <2>1 DEF TypeOK
  <2>3. ASSUME NEW p \in Children
        PROVE  /\ at'[p] # "none" <=> result'[p] = 0 /\ IsLink(program[p])
               /\ at'[p] = "in1" => Fn(p) # "source"
               /\ at'[p] = "in2" => ReadsTwo(program[p])
               /\ at'[p] \in {"out2", "close2"} => Fn(p) = "dup"
    <3>1. CASE p = pc
      <4>1. at'[p] = FirstPlace(Fn(pc))
        BY <1>1, <1>2, <3>1 DEF TypeOK
      <4> QED
        BY <1>1, <1>5, <1>9, <3>1, <4>1 DEF ReadsTwo, Fn
    <3>2. CASE p # pc
      <4>1. at'[p] = at[p]
        BY <1>1, <1>2, <1>3, <3>2 DEF TypeOK
      <4> QED
        BY <1>9, <3>2, <4>1 DEF IInv, PlaceInv
    <3> QED
      BY <3>1, <3>2
  <2> QED
    BY <1>1, <1>4, <2>2, <2>3 DEF PlaceInv, Fn
<1>13. TakenOnce'
  <2>1. ASSUME NEW i \in Children, NEW j \in Children, i # j, result'[i] = 0, result'[j] = 0,
               Fn(i) # "free", Fn(j) # "free"
        PROVE  Ins(program[i]) \cap Ins(program[j]) = {}
    <3>1. CASE i # pc /\ j # pc
      BY <1>9, <2>1, <3>1 DEF IInv, TakenOnce, Children
    <3>2. ASSUME NEW k \in Children, k # pc, result[k] = 0, Fn(k) # "free"
          PROVE  Ins(program[k]) \cap Ins(call) = {}
      <4>1. ASSUME NEW s \in Ins(program[k]), s \in Ins(call) PROVE FALSE
        BY <1>8, <3>2, <4>1 DEF IInv, CallsInv
      <4> QED
        BY <4>1
    <3> QED
      BY <1>9, <2>1, <3>1, <3>2
  <2>2. ASSUME NEW j \in Children, result'[j] = 1
        PROVE  \E k \in 1 .. j - 1 : result'[k] = 0 /\ Ins(program[k]) \cap Ins(program[j]) # {}
    <3>1. j # pc /\ result[j] = 1
      BY <1>9, <2>2
    <3>2. PICK k \in 1 .. j - 1 : result[k] = 0 /\ Ins(program[k]) \cap Ins(program[j]) # {}
      BY <3>1 DEF IInv, TakenOnce, Children
    <3>3. k \in Children /\ k # pc
      BY <1>3, <1>9, <3>2
    <3> QED
      BY <1>9, <3>2, <3>3
  <2> QED
    BY <1>1, <2>1, <2>2 DEF TakenOnce, Children, Fn
<1>14. SourceInv'
  BY <1>1, <1>4 DEF IInv, SourceInv, Fn
<1> QED
  BY <1>6, <1>11, <1>12, <1>13, <1>14 DEF IInv

\* A call that returns 1 meets another that took one of its inputs before.
LEMMA RefuseInv == IInv /\ Refuse => IInv'
<1> SUFFICES ASSUME IInv, Refuse PROVE IInv'
  OBVIOUS
<1> DEFINE call == program[pc]
<1>1. /\ pc \in Children /\ ~Free(call) /\ at[Main] = "none" /\ Fn(pc) # "free"
      /\ result' = [result EXCEPT ![pc] = 1] /\ pc' = pc + 1
      /\ UNCHANGED <<program, read, readers, writers, pipe, out, in, at, first, value, output>>
  BY DEF Refuse, Children, MainReturns, netVars
<1>2. TypeOK /\ Shape(call) /\ pc \in Nat
  BY <1>1, CallIs DEF IInv
<1>3. Len(program) \in Nat /\ Children = 1 .. Len(program)
  BY ProgramIs DEF IInv
<1>4. Children' = Children /\ Procs' = Procs
  BY <1>1 DEF Children, Procs
<1>5. TypeOK'
  <2>1. pc' \in 1 .. Len(program') + 1
    BY <1>1, <1>2, <1>3
  <2>2. result' \in [DOMAIN program' -> {-1, 0, 1}]
    BY <1>1, <1>2 DEF TypeOK
  <2> QED
    BY <1>1, <1>2, <1>4, <2>1, <2>2 DEF TypeOK
<1>6. /\ result'[pc] = 1 /\ result[pc] = -1
      /\ \A k \in Children : k # pc => result'[k] = result[k]
  BY <1>1, <1>2 DEF IInv, TypeOK, CallsInv, Children
<1>7. CallsInv'
  <2>1. ASSUME NEW j \in Children PROVE result'[j] = -1 <=> j >= pc'
    <3>1. j \in Nat
      BY <1>3
    <3>2. result[j] = -1 <=> j >= pc
      BY DEF IInv, CallsInv
    <3> QED
      BY <1>1, <1>2, <1>6, <3>1, <3>2
  <2>2. \A k \in Children : result'[k] = 0 <=> result[k] = 0
    BY <1>6
  <2> QED
    BY <1>1, <1>4, <2>1, <2>2 DEF IInv, CallsInv, Fn
<1>8. PlaceInv'
  <2>1. \A p \in Children : at[p] # "none" <=> result'[p] = 0 /\ IsLink(program[p])
    BY <1>6 DEF IInv, PlaceInv
  <2> QED
    BY <1>1, <1>4, <2>1 DEF IInv, PlaceInv, Fn
<1>9. TakenOnce'
  <2>1. PICK s \in Ins(call) : read[s] # 0
    BY <1>1 DEF Free
  <2>2. s \in Streams /\ read[s] = 1
    BY <1>1, <1>2, <2>1, InputsExist DEF Shape, TypeOK
  <2>3. PICK k0 \in Children : result[k0] = 0 /\ s \in Ins(program[k0])
    BY <2>2 DEF IInv, CallsInv
  <2>4. k0 \in 1 .. pc - 1 /\ Ins(program[k0]) \cap Ins(call) # {}
    BY <1>2, <1>3, <2>1, <2>3 DEF IInv, CallsInv
  <2>5. ASSUME NEW i \in Children, NEW j \in Children, i # j, result'[i] = 0, result'[j] = 0,
               Fn(i) # "free", Fn(j) # "free"
        PROVE  Ins(program[i]) \cap Ins(program[j]) = {}
    BY <1>6, <2>5 DEF IInv, TakenOnce, Children
  <2>6. ASSUME NEW j \in Children, result'[j] = 1
        PROVE  \E k \in 1 .. j - 1 : result'[k] = 0 /\ Ins(program[k]) \cap Ins(program[j]) # {}
    <3>1. CASE j = pc
      BY <1>6, <2>3, <2>4, <3>1
    <3>2. CASE j # pc
      <4>1. result[j] = 1
        BY <1>6, <2>6, <3>2
      <4>2. PICK k \in 1 .. j - 1 : result[k] = 0 /\ Ins(program[k]) \cap Ins(program[j]) # {}
        BY <4>1 DEF IInv, TakenOnce, Children
      <4>3. k \in Children /\ k # pc
        BY <1>3, <1>6, <4>2
      <4> QED
        BY <1>6, <4>2, <4>3
    <3> QED
      BY <3>1, <3>2
  <2> QED
    BY <1>1, <2>5, <2>6 DEF TakenOnce, Children, Fn
<1>10. SourceInv'
  BY <1>1, <1>4 DEF IInv, SourceInv, Fn
<1> QED
  BY <1>5, <1>7, <1>8, <1>9, <1>10 DEF IInv

LEMMA SinkStartInv == IInv /\ SinkStart => IInv'
<1> SUFFICES ASSUME IInv, SinkStart PROVE IInv'
  OBVIOUS
<1>1. /\ pc \in Children /\ Fn(pc) \in {"sink", "head"} /\ Free(program[pc])
      /\ at' = [at EXCEPT ![Main] = "in1"]
      /\ UNCHANGED <<program, pc, result, read, readers, writers, pipe, out, in, first, value, output>>
  BY DEF SinkStart, Children, Goto, netVars
<1>2. Children' = Children /\ Procs' = Procs /\ Main \in Procs /\ Main \notin Children /\ Children \subseteq Procs
  BY <1>1, ProgramIs DEF IInv, Children, Procs
<1>3. at'[Main] = "in1" /\ \A p \in Children : at'[p] = at[p]
  BY <1>1, <1>2 DEF IInv, TypeOK
<1>4. TypeOK'
  <2>1. at' \in [Procs -> Places]
    BY <1>1 DEF IInv, TypeOK, Places
  <2> QED
    BY <1>1, <1>2, <2>1 DEF IInv, TypeOK, Places
<1>5. CallsInv'
  BY <1>1, <1>2 DEF IInv, CallsInv, Fn
<1>6. PlaceInv'
  BY <1>1, <1>2, <1>3 DEF IInv, PlaceInv, Fn, Free
<1>7. TakenOnce'
  BY <1>1 DEF IInv, TakenOnce, Fn
<1>8. SourceInv'
  BY <1>1, <1>2 DEF IInv, SourceInv, Fn
<1> QED
  BY <1>4, <1>5, <1>6, <1>7, <1>8 DEF IInv

LEMMA SinkReadInv == IInv /\ SinkRead => IInv'
<1> SUFFICES ASSUME IInv, SinkRead PROVE IInv'
  OBVIOUS
<1>1. at[Main] = "in1" /\ UNCHANGED <<program, pc, result, first, value>>
  BY DEF SinkRead
<1>2. pc \in Children /\ Fn(pc) \in {"sink", "head"} /\ Free(program[pc])
  BY <1>1 DEF IInv, PlaceInv
<1>3. PICK s \in Streams : s = In(pc, 1)
  BY <1>2, CallIs DEF IInv, Shape, In, Fn
<1>4. Children' = Children /\ Procs' = Procs /\ Main \in Procs /\ Main \notin Children /\ Children \subseteq Procs
  BY <1>1, ProgramIs DEF IInv, Children, Procs
<1>5. Buffers
  BY DEF IInv, TypeOK, Buffers
<1>6. /\ Buffers' /\ UNCHANGED <<read, readers, writers>> /\ output' \in Seq(Int)
      /\ at' = at \/ at' = [at EXCEPT ![Main] = "exit"]
  <2>1. CASE Fread(In(pc, 1)) /\ output' = Append(output, Head(Items(In(pc, 1))))
             /\ IF Fn(pc) = "head" /\ Len(output) + 1 = program[pc].arg[1]
                THEN Goto(Main, "exit") ELSE UNCHANGED at
    <3>1. /\ Buffers' /\ UNCHANGED <<read, readers, writers>> /\ Head(Items(s)) \in Int
      BY <1>3, <1>5, <2>1, FreadStep
    <3>2. output \in Seq(Int)
      BY DEF IInv, TypeOK
    <3>3. output' \in Seq(Int)
      BY <1>3, <2>1, <3>1, <3>2
    <3> QED
      BY <2>1, <3>1, <3>3 DEF Goto
  <2>2. CASE AtEnd(In(pc, 1)) /\ Goto(Main, "exit") /\ UNCHANGED <<netVars, output>>
    <3>1. Buffers'
      BY <1>5, <2>2 DEF Buffers, netVars
    <3> QED
      BY <2>2, <3>1 DEF IInv, TypeOK, Goto, netVars
  <2> QED
    BY <2>1, <2>2 DEF SinkRead
<1>7. at' \in [Procs -> Places] /\ at'[Main] \in {"in1", "exit"} /\ \A p \in Children : at'[p] = at[p]
  BY <1>1, <1>4, <1>6 DEF IInv, TypeOK, Places
<1>8. TypeOK'
  BY <1>1, <1>4, <1>6, <1>7 DEF IInv, TypeOK, Places, Buffers
<1>9. CallsInv'
  BY <1>1, <1>4, <1>6 DEF IInv, CallsInv, Fn
<1>10. PlaceInv'
  BY <1>1, <1>2, <1>4, <1>6, <1>7 DEF IInv, PlaceInv, Fn, Free
<1>11. TakenOnce'
  BY <1>1 DEF IInv, TakenOnce, Fn
<1>12. SourceInv'
  BY <1>1, <1>4 DEF IInv, SourceInv, Fn
<1> QED
  BY <1>8, <1>9, <1>10, <1>11, <1>12 DEF IInv

LEMMA SinkEndInv == IInv /\ SinkEnd => IInv'
<1> SUFFICES ASSUME IInv, SinkEnd PROVE IInv'
  OBVIOUS
<1> DEFINE call == program[pc]
<1>1. /\ at[Main] = "exit" /\ at' = [at EXCEPT ![Main] = "none"]
      /\ read' = [read EXCEPT ![In(pc, 1)] = 1]
      /\ result' = [result EXCEPT ![pc] = 0] /\ pc' = pc + 1
      /\ UNCHANGED <<program, readers, writers, pipe, out, in, first, value, output>>
  BY DEF SinkEnd, Goto, MainReturns
<1>2. pc \in Children /\ Fn(pc) \in {"sink", "head"} /\ Free(call)
  BY <1>1 DEF IInv, PlaceInv
<1>3. TypeOK /\ Shape(call) /\ pc \in Nat
  BY <1>2, CallIs DEF IInv
<1>4. PICK s \in Streams : s = In(pc, 1) /\ Ins(call) = {s} /\ read[s] = 0
  BY <1>2, <1>3 DEF Shape, In, Fn, Free, ReadsTwo
<1>5. Len(program) \in Nat /\ Children = 1 .. Len(program)
  BY ProgramIs DEF IInv
<1>6. Children' = Children /\ Procs' = Procs /\ Main \in Procs /\ Main \notin Children /\ Children \subseteq Procs
  BY <1>1, ProgramIs DEF IInv, Children, Procs
<1>7. at' \in [Procs -> Places] /\ at'[Main] = "none" /\ \A p \in Children : at'[p] = at[p]
  BY <1>1, <1>6 DEF IInv, TypeOK, Places
<1>8. read'[s] = 1 /\ read' \in [Streams -> {-1, 0, 1}] /\ \A t \in Streams : t # s => read'[t] = read[t]
  BY <1>1, <1>3, <1>4 DEF TypeOK
<1>9. /\ result'[pc] = 0 /\ result[pc] = -1
      /\ \A k \in Children : k # pc => result'[k] = result[k]
  BY <1>1, <1>2, <1>3 DEF IInv, TypeOK, CallsInv, Children
<1>10. TypeOK'
  <2>1. pc' \in 1 .. Len(program') + 1
    BY <1>1, <1>2, <1>3, <1>5
  <2>2. result' \in [DOMAIN program' -> {-1, 0, 1}]
    BY <1>1, <1>3 DEF TypeOK
  <2> QED
    BY <1>1, <1>3, <1>6, <1>7, <1>8, <2>1, <2>2 DEF TypeOK, Places
<1>11. Outs(call) = {}
  BY <1>2, <1>3 DEF Shape, IsLink, Fn
<1>12. CallsInv'
  <2>1. ASSUME NEW j \in Children PROVE result'[j] = -1 <=> j >= pc'
    <3>1. j \in Nat
      BY <1>5
    <3>2. result[j] = -1 <=> j >= pc
      BY DEF IInv, CallsInv
    <3> QED
      BY <1>1, <1>3, <1>9, <3>1, <3>2
  <2>2. ASSUME NEW t \in Streams
        PROVE  read'[t] # -1 <=> \E k \in Children : result'[k] = 0 /\ t \in Outs(program[k])
    <3>1. read[t] # -1 <=> \E k \in Children : result[k] = 0 /\ t \in Outs(program[k])
      BY DEF IInv, CallsInv
    <3>2. (\E k \in Children : result'[k] = 0 /\ t \in Outs(program[k]))
          <=> \E k \in Children : result[k] = 0 /\ t \in Outs(program[k])
      BY <1>9, <1>11
    <3>3. read'[t] # -1 <=> read[t] # -1
      BY <1>4, <1>8
    <3> QED
      BY <3>1, <3>2, <3>3
  <2>3. ASSUME NEW t \in Streams
        PROVE  read'[t] = 1 <=> \E k \in Children : result'[k] = 0 /\ Fn(k) # "free" /\ t \in Ins(program[k])
    <3>1. read[t] = 1 <=> \E k \in Children : result[k] = 0 /\ Fn(k) # "free" /\ t \in Ins(program[k])
      BY DEF IInv, CallsInv
    <3>2. CASE t = s
      BY <1>2, <1>4, <1>8, <1>9, <3>2
    <3>3. CASE t # s
      BY <1>4, <1>8, <1>9, <3>1, <3>3
    <3> QED
      BY <3>2, <3>3
  <2> QED
    BY <1>1, <1>6, <2>1, <2>2, <2>3 DEF CallsInv, Fn
<1>13. PlaceInv'
  <2>1. ASSUME NEW p \in Children
        PROVE  at[p] # "none" <=> result'[p] = 0 /\ IsLink(program[p])
    BY <1>2, <1>9 DEF IInv, PlaceInv, IsLink, Fn
  <2> QED
    BY <1>1, <1>6, <1>7, <2>1 DEF IInv, PlaceInv, Fn
<1>14. TakenOnce'
  <2>1. ASSUME NEW k \in Children, k # pc, result[k] = 0, Fn(k) # "free"
        PROVE  Ins(program[k]) \cap Ins(call) = {}
    BY <1>4, <2>1 DEF IInv, CallsInv
  <2>2. ASSUME NEW i \in Children, NEW j \in Children, i # j, result'[i] = 0, result'[j] = 0,
               Fn(i) # "free", Fn(j) # "free"
        PROVE  Ins(program[i]) \cap Ins(program[j]) = {}
    <3>1. CASE i # pc /\ j # pc
      BY <1>9, <2>2, <3>1 DEF IInv, TakenOnce, Children
    <3> QED
      BY <1>9, <2>1, <2>2, <3>1
  <2>3. ASSUME NEW j \in Children, result'[j] = 1
        PROVE  \E k \in 1 .. j - 1 : result'[k] = 0 /\ Ins(program[k]) \cap Ins(program[j]) # {}
    <3>1. j # pc /\ result[j] = 1
      BY <1>9, <2>3
    <3>2. PICK k \in 1 .. j - 1 : result[k] = 0 /\ Ins(program[k]) \cap Ins(program[j]) # {}
      BY <3>1 DEF IInv, TakenOnce, Children
    <3>3. k \in Children /\ k # pc
      BY <1>5, <1>9, <3>2
    <3> QED
      BY <1>9, <3>2, <3>3
  <2> QED
    BY <1>1, <2>2, <2>3 DEF TakenOnce, Children, Fn
<1>15. SourceInv'
  BY <1>1, <1>6 DEF IInv, SourceInv, Fn
<1> QED
  BY <1>10, <1>12, <1>13, <1>14, <1>15 DEF IInv

LEMMA FreeInv == IInv /\ FreeStream => IInv'
<1> SUFFICES ASSUME IInv, FreeStream PROVE IInv'
  OBVIOUS
<1> DEFINE call == program[pc]
<1>1. /\ pc \in Children /\ Fn(pc) = "free"
      /\ readers' = [readers EXCEPT ![In(pc, 1)] = IF read[In(pc, 1)] = 1 THEN @ \ {Main} ELSE @]
      /\ result' = [result EXCEPT ![pc] = 0] /\ pc' = pc + 1
      /\ UNCHANGED <<program, read, writers, pipe, out, in, at, first, value, output>>
  BY DEF FreeStream, MainReturns, Children
<1>2. TypeOK /\ Shape(call) /\ pc \in Nat
  BY <1>1, CallIs DEF IInv
<1>3. PICK s \in Streams : s = In(pc, 1)
  BY <1>1, <1>2 DEF Shape, In, Fn
<1>4. Len(program) \in Nat /\ Children = 1 .. Len(program)
  BY ProgramIs DEF IInv
<1>5. Children' = Children /\ Procs' = Procs
  BY <1>1 DEF Children, Procs
<1>6. /\ result'[pc] = 0 /\ result[pc] = -1
      /\ \A k \in Children : k # pc => result'[k] = result[k]
  BY <1>1, <1>2 DEF IInv, TypeOK, CallsInv, Children
<1>7. TypeOK'
  <2>1. pc' \in 1 .. Len(program') + 1
    BY <1>1, <1>2, <1>4
  <2>2. result' \in [DOMAIN program' -> {-1, 0, 1}]
    BY <1>1, <1>2 DEF TypeOK
  <2>3. readers' \in [Streams -> SUBSET Procs]
    <3>1. (IF read[s] = 1 THEN readers[s] \ {Main} ELSE readers[s]) \in SUBSET Procs
      BY <1>2 DEF TypeOK
    <3> QED
      BY <1>1, <1>2, <1>3, <3>1 DEF TypeOK
  <2> QED
    BY <1>1, <1>2, <1>5, <2>1, <2>2, <2>3 DEF TypeOK
<1>8. Outs(call) = {} /\ ~IsLink(call)
  BY <1>1, <1>2 DEF Shape, IsLink, Fn
<1>9. CallsInv'
  <2>1. ASSUME NEW j \in Children PROVE result'[j] = -1 <=> j >= pc'
    <3>1. j \in Nat
      BY <1>4
    <3>2. result[j] = -1 <=> j >= pc
      BY DEF IInv, CallsInv
    <3> QED
      BY <1>1, <1>2, <1>6, <3>1, <3>2
  <2>2. ASSUME NEW t \in Streams
        PROVE  read'[t] # -1 <=> \E k \in Children : result'[k] = 0 /\ t \in Outs(program[k])
    BY <1>1, <1>6, <1>8 DEF IInv, CallsInv
  <2>3. ASSUME NEW t \in Streams
        PROVE  read'[t] = 1 <=> \E k \in Children : result'[k] = 0 /\ Fn(k) # "free" /\ t \in Ins(program[k])
    BY <1>1, <1>6 DEF IInv, CallsInv
  <2> QED
    BY <1>1, <1>5, <2>1, <2>2, <2>3 DEF CallsInv, Fn
<1>10. PlaceInv'
  <2>1. ASSUME NEW p \in Children
        PROVE  at[p] # "none" <=> result'[p] = 0 /\ IsLink(program[p])
    BY <1>6, <1>8 DEF IInv, PlaceInv
  <2>2. at[Main] = "none"
    BY <1>1 DEF IInv, PlaceInv
  <2> QED
    BY <1>1, <1>5, <2>1, <2>2 DEF IInv, PlaceInv, Fn
<1>11. TakenOnce'
  <2>1. ASSUME NEW i \in Children, NEW j \in Children, i # j, result'[i] = 0, result'[j] = 0,
               Fn(i) # "free", Fn(j) # "free"
        PROVE  Ins(program[i]) \cap Ins(program[j]) = {}
    BY <1>1, <1>6, <2>1 DEF IInv, TakenOnce, Children
  <2>2. ASSUME NEW j \in Children, result'[j] = 1
        PROVE  \E k \in 1 .. j - 1 : result'[k] = 0 /\ Ins(program[k]) \cap Ins(program[j]) # {}
    <3>1. j # pc /\ result[j] = 1
      BY <1>6, <2>2
    <3>2. PICK k \in 1 .. j - 1 : result[k] = 0 /\ Ins(program[k]) \cap Ins(program[j]) # {}
      BY <3>1 DEF IInv, TakenOnce, Children
    <3>3. k \in Children /\ k # pc
      BY <1>4, <1>6, <3>2
    <3> QED
      BY <1>6, <3>2, <3>3
  <2> QED
    BY <1>1, <2>1, <2>2 DEF TakenOnce, Children, Fn
<1>12. SourceInv'
  BY <1>1, <1>5 DEF IInv, SourceInv, Fn
<1> QED
  BY <1>7, <1>9, <1>10, <1>11, <1>12 DEF IInv

LEMMA MainExitInv == IInv /\ MainExit => IInv'
<1> SUFFICES ASSUME IInv, MainExit PROVE IInv'
  OBVIOUS
<1>1. /\ readers' = [s \in Streams |-> readers[s] \ {Main}]
      /\ writers' = [s \in Streams |-> writers[s] \ {Main}]
      /\ UNCHANGED <<program, pc, result, read, pipe, out, in, at, first, value, output>>
  BY DEF MainExit
<1>2. Children' = Children /\ Procs' = Procs
  BY <1>1 DEF Children, Procs
<1>3. TypeOK'
  BY <1>1, <1>2 DEF IInv, TypeOK
<1>4. CallsInv' /\ PlaceInv' /\ TakenOnce'
  BY <1>1, <1>2 DEF IInv, CallsInv, PlaceInv, TakenOnce, Fn, Free
<1>5. SourceInv'
  BY <1>1, <1>2 DEF IInv, SourceInv, Fn
<1> QED
  BY <1>3, <1>4, <1>5 DEF IInv

\* Where child p may be.
Allowed(p, l) ==
  /\ l \in Places \ {"none"}
  /\ l = "in1" => Fn(p) # "source"
  /\ l = "in2" => ReadsTwo(program[p])
  /\ l \in {"out2", "close2"} => Fn(p) = "dup"

\* What every step of a child p does and leaves alone.
ChildStep(p) ==
  /\ at[p] # "none"
  /\ UNCHANGED <<program, pc, result, read, output>>
  /\ Buffers'
  /\ readers' \in [Streams -> SUBSET Procs] /\ writers' \in [Streams -> SUBSET Procs]
  /\ first' \in [Procs -> Int] /\ value' \in [Procs -> Int]
  /\ value'[p] = value[p] \/ (Fn(p) = "source" => value'[p] \in Nat)
  /\ \A q \in Children : q # p => value'[q] = value[q]
  /\ \E l : Allowed(p, l) /\ at' = [at EXCEPT ![p] = l]

LEMMA ChildStepInv ==
  ASSUME IInv, NEW p \in Children, ChildStep(p)
  PROVE  IInv'
<1>1. /\ at[p] # "none" /\ UNCHANGED <<program, pc, result, read, output>>
      /\ Children' = Children /\ Procs' = Procs
  BY DEF ChildStep, Children, Procs
<1>2. PICK l : Allowed(p, l) /\ at' = [at EXCEPT ![p] = l]
  BY DEF ChildStep
<1>3. p \in Procs /\ p # Main /\ Children \subseteq Procs /\ Main \in Procs
  BY CallIs, ProgramIs DEF IInv
<1>4. at'[p] = l /\ \A q \in Procs : q # p => at'[q] = at[q]
  BY <1>2, <1>3 DEF IInv, TypeOK
<1>5. TypeOK'
  <2>1. at' \in [Procs -> Places]
    BY <1>2 DEF IInv, TypeOK, Places, Allowed
  <2> QED
    BY <1>1, <2>1 DEF IInv, TypeOK, ChildStep, Buffers, Places
<1>6. CallsInv'
  BY <1>1 DEF IInv, CallsInv, Fn
<1>7. PlaceInv'
  <2>1. ASSUME NEW q \in Children
        PROVE  /\ at'[q] # "none" <=> result[q] = 0 /\ IsLink(program[q])
               /\ at'[q] = "in1" => Fn(q) # "source"
               /\ at'[q] = "in2" => ReadsTwo(program[q])
               /\ at'[q] \in {"out2", "close2"} => Fn(q) = "dup"
    <3>1. CASE q = p
      BY <1>1, <1>2, <1>4, <3>1 DEF IInv, PlaceInv, Allowed
    <3>2. CASE q # p
      BY <1>3, <1>4, <3>2 DEF IInv, PlaceInv
    <3> QED
      BY <3>1, <3>2
  <2>2. at'[Main] = at[Main]
    BY <1>3, <1>4
  <2> QED
    BY <1>1, <2>1, <2>2 DEF IInv, PlaceInv, Fn, Free
<1>8. TakenOnce'
  BY <1>1 DEF IInv, TakenOnce, Fn
<1>9. SourceInv'
  BY <1>1 DEF IInv, SourceInv, Fn, ChildStep
<1> QED
  BY <1>5, <1>6, <1>7, <1>8, <1>9 DEF IInv

LEMMA Keeping ==
  ASSUME IInv, NEW p \in Children, at[p] # "none", UNCHANGED at
  PROVE  \E l : Allowed(p, l) /\ at' = [at EXCEPT ![p] = l]
<1>1. p \in Procs /\ at \in [Procs -> Places]
  BY CallIs DEF IInv, TypeOK, Places
<1>2. at' = [at EXCEPT ![p] = at[p]]
  BY <1>1
<1>3. Allowed(p, at[p])
  BY <1>1 DEF IInv, PlaceInv, Allowed
<1> QED
  BY <1>2, <1>3

LEMMA BuffersIs == IInv => /\ Buffers /\ at \in [Procs -> Places]
                           /\ first \in [Procs -> Int] /\ value \in [Procs -> Int]
                           /\ readers \in [Streams -> SUBSET Procs] /\ writers \in [Streams -> SUBSET Procs]
BY DEF IInv, TypeOK, Buffers, Places

LEMMA ReadFirstStep ==
  ASSUME IInv, NEW p \in Children, ReadFirst(p)
  PROVE  ChildStep(p)
<1>1. at[p] = "in1" /\ Fn(p) # "source" /\ Fn(p) \notin {"sink", "head", "free"} /\ Shape(program[p]) /\ p \in Procs
  BY CallIs DEF IInv, PlaceInv, ReadFirst, IsLink, Fn
<1>2. PICK s \in Streams : s = In(p, 1)
  BY <1>1 DEF Shape, In, Fn
<1>3. Fread(s) /\ Buffers
  BY <1>2, BuffersIs DEF ReadFirst
<1>4. Buffers' /\ UNCHANGED <<read, readers, writers>> /\ Head(Items(s)) \in Int
  BY <1>3, FreadStep
<1>5. PICK v \in Int : v = Head(Items(In(p, 1)))
  BY <1>2, <1>4
<1>6. (v + program[p].arg[1]) % 256 \in Int \/ Fn(p) \notin {"function", "function_single"}
  BY <1>1 DEF Shape, Fn
<1>7. /\ UNCHANGED <<program, pc, result, output>>
      /\ \/ first' = [first EXCEPT ![p] = v] /\ at' = [at EXCEPT ![p] = "in2"] /\ UNCHANGED value
            /\ Fn(p) \in {"and_streams", "filter_streams"}
         \/ /\ at' = [at EXCEPT ![p] = "out1"] /\ UNCHANGED first
            /\ \E w \in Int : value' = [value EXCEPT ![p] = w]
  <2>1. CASE Fn(p) \in {"and_streams", "filter_streams"}
    BY <1>5, <2>1 DEF ReadFirst, Goto
  <2>2. CASE Fn(p) = "divisible_by"
    BY <1>5, <2>2 DEF ReadFirst, Goto
  <2>3. CASE Fn(p) \in {"function", "function_single"}
    BY <1>5, <1>6, <2>3 DEF ReadFirst, Goto
  <2>4. CASE Fn(p) = "dup"
    BY <1>5, <2>4 DEF ReadFirst, Goto
  <2> QED
    BY <1>1, <2>1, <2>2, <2>3, <2>4 DEF Shape, Fn, Functions
<1>8. /\ first' \in [Procs -> Int] /\ value' \in [Procs -> Int]
      /\ \A q \in Children : q # p => value'[q] = value[q]
  BY <1>7, BuffersIs, ProgramIs DEF IInv
<1>9. \E l : Allowed(p, l) /\ at' = [at EXCEPT ![p] = l]
  BY <1>7 DEF Allowed, Places, ReadsTwo, Fn
<1> QED
  BY <1>1, <1>4, <1>7, <1>8, <1>9, BuffersIs DEF ChildStep

LEMMA ReadSecondStep ==
  ASSUME IInv, NEW p \in Children, ReadSecond(p)
  PROVE  ChildStep(p)
<1>1. at[p] = "in2" /\ ReadsTwo(program[p]) /\ Shape(program[p]) /\ p \in Procs
  BY CallIs DEF IInv, PlaceInv, ReadSecond
<1>2. PICK s \in Streams : s = In(p, 2)
  BY <1>1 DEF Shape, In
<1>3. Fread(s) /\ Buffers
  BY <1>2, BuffersIs DEF ReadSecond
<1>4. Buffers' /\ UNCHANGED <<read, readers, writers>> /\ Head(Items(s)) \in Int
  BY <1>3, FreadStep
<1>5. PICK v \in Int : v = Head(Items(In(p, 2)))
  BY <1>2, <1>4
<1>6. (v + program[p].arg[1]) % 256 \in Int \/ Fn(p) # "function"
  BY <1>1 DEF Shape, Fn
<1>7. /\ UNCHANGED <<program, pc, result, first, output>>
      /\ at' = [at EXCEPT ![p] = "out1"] \/ at' = [at EXCEPT ![p] = "in1"]
      /\ \E w \in Int : value' = [value EXCEPT ![p] = w]
  <2>1. CASE Fn(p) = "and_streams"
    BY <1>5, <2>1 DEF ReadSecond, Goto
  <2>2. CASE Fn(p) = "filter_streams"
    BY <1>5, <2>2 DEF ReadSecond, Goto
  <2>3. CASE Fn(p) = "function"
    BY <1>5, <1>6, <2>3 DEF ReadSecond, Goto
  <2> QED
    BY <1>1, <2>1, <2>2, <2>3 DEF ReadsTwo, Fn
<1>8. /\ first' \in [Procs -> Int] /\ value' \in [Procs -> Int]
      /\ \A q \in Children : q # p => value'[q] = value[q]
  BY <1>7, BuffersIs, ProgramIs DEF IInv
<1>9. \E l : Allowed(p, l) /\ at' = [at EXCEPT ![p] = l]
  BY <1>1, <1>7 DEF Allowed, Places, ReadsTwo, Fn
<1> QED
  BY <1>1, <1>4, <1>7, <1>8, <1>9, BuffersIs DEF ChildStep, ReadsTwo, Fn

LEMMA ReadEndStep ==
  ASSUME IInv, NEW p \in Children, ReadEnd(p)
  PROVE  ChildStep(p) /\ UNCHANGED netVars
<1>1. /\ at[p] # "none" /\ UNCHANGED <<program, pc, result, output, read, readers, writers, pipe, out, in, value>>
      /\ UNCHANGED netVars /\ p \in Procs
  BY CallIs DEF IInv, ReadEnd, netVars
<1>2. /\ at' = [at EXCEPT ![p] = "close1"] \/ (at' = [at EXCEPT ![p] = "in1"] /\ Fn(p) = "function")
      /\ first' = first \/ first' = [first EXCEPT ![p] = 1]
  BY DEF ReadEnd, Goto
<1>3. first' \in [Procs -> Int]
  BY <1>2, BuffersIs
<1>4. \E l : Allowed(p, l) /\ at' = [at EXCEPT ![p] = l]
  BY <1>2 DEF Allowed, Places
<1>5. Buffers'
  BY <1>1, BuffersIs DEF Buffers
<1> QED
  BY <1>1, <1>3, <1>4, <1>5, BuffersIs DEF ChildStep

LEMMA WriteValueStep ==
  ASSUME IInv, NEW p \in Children, WriteValue(p)
  PROVE  ChildStep(p)
<1>1. /\ at[p] \in {"out1", "out2"} /\ Fn(p) # "source" /\ Shape(program[p]) /\ p \in Procs
      /\ at[p] = "out2" => Fn(p) = "dup"
      /\ UNCHANGED <<program, pc, result, first, value, output>>
  BY CallIs DEF IInv, PlaceInv, WriteValue
<1>2. PICK k \in {1, 2} : Fwrite(Out(p, k), value[p]) /\ (k = 2 => at[p] = "out2")
  BY DEF WriteValue
<1>3. IsLink(program[p])
  BY <1>1 DEF IInv, PlaceInv
<1>4. PICK s \in Streams : s = Out(p, k)
  BY <1>1, <1>2, <1>3 DEF Shape, Out, Fn
<1>5. value[p] \in Int /\ Buffers
  BY <1>1, BuffersIs
<1>6. Buffers' /\ UNCHANGED <<read, readers, writers>>
  BY <1>2, <1>4, <1>5, FwriteStep
<1>7. \E l : Allowed(p, l) /\ at' = [at EXCEPT ![p] = l]
  <2>1. Allowed(p, AfterWrite(p))
    BY <1>1 DEF AfterWrite, Allowed, Places, ReadsTwo, Fn
  <2> QED
    BY <2>1 DEF WriteValue, Goto
<1> QED
  BY <1>1, <1>6, <1>7, BuffersIs DEF ChildStep

LEMMA SourceWriteStep ==
  ASSUME IInv, NEW p \in Children, SourceWrite(p)
  PROVE  ChildStep(p)
<1>1. /\ at[p] = "out1" /\ Fn(p) = "source" /\ Shape(program[p]) /\ p \in Procs
      /\ UNCHANGED <<program, pc, result, first, output>>
  BY CallIs DEF IInv, SourceWrite
<1>2. CASE value[p] < Len(program[p].arg)
  <2>1. PICK s \in Streams : s = Out(p, 1)
    BY <1>1 DEF Shape, IsLink, Out, Fn
  <2>2. program[p].arg[value[p] + 1] \in Int /\ value[p] \in Nat
    BY <1>1, <1>2 DEF Shape, IInv, SourceInv
  <2>3. Fwrite(s, program[p].arg[value[p] + 1]) /\ value' = [value EXCEPT ![p] = value[p] + 1] /\ UNCHANGED at
    BY <1>2, <2>1 DEF SourceWrite
  <2>4. PICK v \in Int : v = program[p].arg[value[p] + 1]
    BY <2>2
  <2>5. Buffers' /\ UNCHANGED <<read, readers, writers>>
    BY <2>3, <2>4, BuffersIs, FwriteStep
  <2>6. value' \in [Procs -> Int] /\ value'[p] \in Nat /\ \A q \in Children : q # p => value'[q] = value[q]
    BY <1>1, <2>2, <2>3, BuffersIs, ProgramIs DEF IInv
  <2> QED
    BY <1>1, <2>3, <2>5, <2>6, BuffersIs, Keeping DEF ChildStep
<1>3. CASE ~(value[p] < Len(program[p].arg))
  <2>1. at' = [at EXCEPT ![p] = "close1"] /\ UNCHANGED <<read, readers, writers, pipe, out, in, value>>
    BY <1>3 DEF SourceWrite, netVars, Goto
  <2>2. Buffers'
    BY <2>1, BuffersIs DEF Buffers
  <2>3. Allowed(p, "close1")
    BY DEF Allowed, Places
  <2> QED
    BY <1>1, <2>1, <2>2, <2>3, BuffersIs DEF ChildStep
<1> QED
  BY <1>2, <1>3

LEMMA EndsStep ==
  ASSUME IInv, NEW p \in Children, Ends(p), at[p] # "none",
         UNCHANGED <<program, pc, result, first, value, output, read, pipe, out, in>>
  PROVE  ChildStep(p)
<1>1. readers' \in [Streams -> SUBSET Procs] /\ writers' \in [Streams -> SUBSET Procs]
  <2>1. \A s \in Streams : readers[s] \ {p} \in SUBSET Procs /\ writers[s] \ {p} \in SUBSET Procs
    BY BuffersIs
  <2> QED
    BY <2>1 DEF Ends
<1>2. Allowed(p, "exit") /\ at' = [at EXCEPT ![p] = "exit"]
  BY DEF Ends, Goto, Allowed, Places
<1>3. Buffers'
  BY BuffersIs DEF Buffers
<1> QED
  BY <1>1, <1>2, <1>3, BuffersIs DEF ChildStep

LEMMA FlushChildStep ==
  ASSUME IInv, NEW p \in Children, NEW s \in Streams, Flush(p, s), at[p] # "none",
         UNCHANGED <<program, pc, result, first, value, output>>
  PROVE  ChildStep(p)
<1>1. CASE readers[s] # {}
  <2>1. Buffers' /\ UNCHANGED <<read, readers, writers, at>>
    BY <1>1, FlushStep, BuffersIs
  <2> QED
    BY <2>1, Keeping, BuffersIs DEF ChildStep
<1>2. CASE readers[s] = {}
  BY <1>2, EndsStep DEF Flush
<1> QED
  BY <1>1, <1>2

\* The streams a child writes to.
LEMMA OutputIs ==
  ASSUME IInv, NEW p \in Children, at[p] # "none"
  PROVE  /\ IsLink(program[p]) /\ Out(p, 1) \in Streams
         /\ Fn(p) = "dup" => Out(p, 2) \in Streams
BY CallIs DEF IInv, PlaceInv, Shape, Out, Fn

LEMMA FlushFullStep ==
  ASSUME IInv, NEW p \in Children, FlushFull(p)
  PROVE  ChildStep(p)
<1>1. /\ at[p] \in {"out1", "out2"} /\ (at[p] = "out2" => Fn(p) = "dup")
      /\ UNCHANGED <<program, pc, result, first, value, output>>
  BY DEF IInv, PlaceInv, FlushFull
<1>2. PICK s \in Streams : Flush(p, s)
  BY <1>1, OutputIs DEF FlushFull
<1> QED
  BY <1>1, <1>2, FlushChildStep

LEMMA CloseStep ==
  ASSUME IInv, NEW p \in Children, Close(p)
  PROVE  ChildStep(p)
<1>1. /\ at[p] \in {"close1", "close2"} /\ (at[p] = "close2" => Fn(p) = "dup")
      /\ UNCHANGED <<program, pc, result, first, value, output>>
  BY DEF IInv, PlaceInv, Close
<1>2. CASE \E s \in Streams : Flush(p, s)
  BY <1>1, <1>2, FlushChildStep
<1>3. CASE /\ at[p] = "close1" /\ out[Out(p, 1)] = <<>> /\ Fn(p) = "dup"
           /\ writers' = [writers EXCEPT ![Out(p, 1)] = @ \ {p}]
           /\ Goto(p, "close2") /\ UNCHANGED <<read, readers, pipe, out, in>>
  <2>1. writers' \in [Streams -> SUBSET Procs]
    BY <1>1, <1>3, BuffersIs, OutputIs
  <2>2. Allowed(p, "close2") /\ at' = [at EXCEPT ![p] = "close2"]
    BY <1>3 DEF Allowed, Places, Goto
  <2>3. Buffers'
    BY <1>3, BuffersIs DEF Buffers
  <2> QED
    BY <1>1, <1>3, <2>1, <2>2, <2>3, BuffersIs DEF ChildStep
<1>4. CASE Ends(p) /\ UNCHANGED <<read, pipe, out, in>>
  BY <1>1, <1>4, EndsStep
<1> QED
  BY <1>1, <1>2, <1>3, <1>4, OutputIs DEF Close

LEMMA ChildInv == ASSUME IInv, NEW p \in Children, Child(p) PROVE ChildStep(p) /\ IInv'
<1>1. ChildStep(p)
  BY ReadFirstStep, ReadSecondStep, ReadEndStep, WriteValueStep, SourceWriteStep, FlushFullStep, CloseStep DEF Child
<1> QED
  BY <1>1, ChildStepInv

LEMMA StutterInv == IInv /\ UNCHANGED vars => IInv'
<1> SUFFICES ASSUME IInv, UNCHANGED vars PROVE IInv'
  OBVIOUS
<1>1. UNCHANGED <<program, pc, result, read, readers, writers, pipe, out, in, at, first, value, output>>
  BY DEF vars, netVars
<1>2. Children' = Children /\ Procs' = Procs
  BY <1>1 DEF Children, Procs
<1>3. TypeOK'
  BY <1>1, <1>2 DEF IInv, TypeOK
<1>4. CallsInv' /\ PlaceInv' /\ TakenOnce' /\ SourceInv'
  BY <1>1, <1>2 DEF IInv, CallsInv, PlaceInv, TakenOnce, SourceInv, Fn, Free
<1> QED
  BY <1>3, <1>4 DEF IInv

LEMMA StepInv == IInv /\ [Next]_vars => IInv'
BY LinkInv, RefuseInv, SinkStartInv, SinkReadInv, SinkEndInv, FreeInv, MainExitInv, ChildInv, StutterInv DEF Next

LEMMA Invariant == Spec => []IInv
<1>1. Init => IInv
  BY InitInv
<1>2. IInv /\ [Next]_vars => IInv'
  BY StepInv
<1> QED
  BY <1>1, <1>2, PTL DEF Spec

\* For every program and every size of the buffers, no stdio buffer and no pipe
\* holds more than fits, and what is in them are items.
THEOREM NetworkTyped == Spec => []TypeOK
<1>1. IInv => TypeOK
  BY DEF IInv
<1> QED
  BY <1>1, Invariant, PTL

\* For every program, a stream is the input of one successful call at most, and a
\* call is refused only because an earlier one took one of its inputs: the flag in
\* struct stream, which main sets in three functions, says just that.
THEOREM StreamsTakenOnce == Spec => []TakenOnce
<1>1. IInv => TakenOnce
  BY DEF IInv
<1> QED
  BY <1>1, Invariant, PTL

-----------------------------------------------------------------------------
(* What the functions of a network define.                                 *)

\* Every set of numbers that is not empty has a least one.
LEMMA Least ==
  ASSUME NEW T \in SUBSET Nat, T # {}
  PROVE  \E n \in T : \A m \in T : n <= m
<1> DEFINE R == OpToRel(<, Nat)
<1>1. IsWellFoundedOn(R, Nat)
  BY NatLessThanWellFounded
<1>2. PICK n \in T : \A m \in T : ~(<<m, n>> \in R)
  <2> HIDE DEF R
  <2> QED
    BY <1>1, WFMin
<1>3. ASSUME NEW m \in T PROVE n <= m
  <2>1. n \in Nat /\ m \in Nat
    OBVIOUS
  <2>2. ~(m < n)
    BY <1>2, <2>1 DEF OpToRel
  <2> QED
    BY <2>1, <2>2
<1> QED
  BY <1>3

LEMMA RankFinite ==
  ASSUME NEW x, NEW n \in Nat
  PROVE  IsFiniteSet({k \in 1 .. n : x[k] # 0})
<1>1. IsFiniteSet(1 .. n)
  <2>1. n \in Int /\ 1 \in Int
    OBVIOUS
  <2> QED
    BY <2>1, FS_Interval
<1> QED
  BY <1>1, FS_Subset

LEMMA RankIsNat == \A x : \A n \in Nat : Rank(x, n) \in Nat
BY RankFinite, FS_CardinalityType DEF Rank

LEMMA RankZero == \A x : Rank(x, 0) = 0
<1>1. \A x : {k \in 1 .. 0 : x[k] # 0} = {}
  OBVIOUS
<1> QED
  BY <1>1, FS_EmptySet DEF Rank

LEMMA RankNext ==
  ASSUME NEW x, NEW n \in Nat
  PROVE  Rank(x, n + 1) = IF x[n + 1] # 0 THEN Rank(x, n) + 1 ELSE Rank(x, n)
<1> DEFINE S(m) == {k \in 1 .. m : x[k] # 0}
<1>1. IsFiniteSet(S(n)) /\ n + 1 \notin S(n)
  BY RankFinite
<1>2. CASE x[n + 1] # 0
  <2>1. S(n + 1) = S(n) \cup {n + 1}
    BY <1>2
  <2> QED
    BY <1>1, <1>2, <2>1, FS_AddElement DEF Rank
<1>3. CASE x[n + 1] = 0
  <2>1. S(n + 1) = S(n)
    BY <1>3
  <2> QED
    BY <1>3, <2>1 DEF Rank
<1> QED
  BY <1>2, <1>3

LEMMA RankGrows ==
  ASSUME NEW x, NEW m \in Nat, NEW n \in Nat, m <= n
  PROVE  Rank(x, m) <= Rank(x, n)
<1>1. {k \in 1 .. m : x[k] # 0} \in SUBSET {k \in 1 .. n : x[k] # 0}
  OBVIOUS
<1> QED
  BY <1>1, RankFinite, FS_Subset DEF Rank

LEMMA RankBefore ==
  ASSUME NEW x, NEW m \in Nat, NEW n \in Nat, m < n, x[n] # 0
  PROVE  Rank(x, m) < Rank(x, n)
<1>1. n - 1 \in Nat /\ m <= n - 1 /\ n - 1 + 1 = n
  OBVIOUS
<1>2. Rank(x, m) <= Rank(x, n - 1)
  BY <1>1, RankGrows
<1>3. Rank(x, n - 1 + 1) = Rank(x, n - 1) + 1
  BY <1>1, RankNext
<1> QED
  BY <1>1, <1>2, <1>3, RankIsNat

LEMMA RankFound ==
  ASSUME NEW x, NEW m \in Nat, NEW n \in 1 .. Rank(x, m)
  PROVE  \E k \in 1 .. m : x[k] # 0 /\ Rank(x, k) = n
<1> DEFINE T == {k \in 1 .. m : Rank(x, k) >= n}
<1>1. m \in T /\ T \in SUBSET Nat
  <2>1. Rank(x, m) \in Nat
    BY RankIsNat
  <2>2. m # 0
    BY RankZero
  <2> QED
    BY <2>1, <2>2
<1>2. PICK k \in T : \A j \in T : k <= j
  <2> HIDE DEF T
  <2> QED
    BY <1>1, Least
<1>3. k \in 1 .. m /\ k - 1 \in Nat /\ k - 1 + 1 = k /\ n \in Nat /\ n >= 1 /\ Rank(x, k) >= n
  BY RankIsNat
<1>4. Rank(x, k - 1) \in Nat /\ Rank(x, k) \in Nat
  BY <1>3, RankIsNat
<1>5. Rank(x, k - 1) < n
  <2>1. CASE k - 1 = 0
    BY <1>3, <2>1, RankZero
  <2>2. CASE k - 1 # 0
    <3>1. k - 1 \in 1 .. m /\ ~(k <= k - 1)
      BY <1>3, <2>2
    <3>2. k - 1 \notin T
      BY <1>2, <3>1
    <3> QED
      BY <1>3, <1>4, <3>1, <3>2
  <2> QED
    BY <2>1, <2>2
<1>6. Rank(x, k) = IF x[k] # 0 THEN Rank(x, k - 1) + 1 ELSE Rank(x, k - 1)
  BY <1>3, RankNext
<1> QED
  BY <1>3, <1>4, <1>5, <1>6

LEMMA SeqOfFunction ==
  ASSUME NEW S, NEW n \in Nat, NEW z \in [1 .. n -> S]
  PROVE  z \in Seq(S) /\ Len(z) = n /\ DOMAIN z = 1 .. n
OBVIOUS

Shorter(x, y) == IF Len(x) < Len(y) THEN Len(x) ELSE Len(y)

\* The items that pass, in order.
Filtered(x, y) ==
  [n \in 1 .. Cardinality(Passing(x, y)) |-> y[CHOOSE k \in Passing(x, y) : Rank(x, k) = n]]

LEMMA FilterIs ==
  ASSUME NEW x \in Seq(Int), NEW y \in Seq(Int)
  PROVE  /\ Filtered(x, y) \in Seq(Int) /\ Len(Filtered(x, y)) = Rank(x, Shorter(x, y))
         /\ \A k \in 1 .. Shorter(x, y) : x[k] # 0 => Filtered(x, y)[Rank(x, k)] = y[k]
<1> DEFINE m == Shorter(x, y)
           z == Filtered(x, y)
<1>1. m \in Nat /\ m <= Len(x) /\ m <= Len(y) /\ Len(y) \in Nat
  BY DEF Shorter
<1>2. Passing(x, y) = {k \in 1 .. m : x[k] # 0}
  BY DEF Passing, Pairs, Shorter
<1>3. Cardinality(Passing(x, y)) = Rank(x, m) /\ Rank(x, m) \in Nat
  BY <1>1, <1>2, RankIsNat DEF Rank
<1> HIDE DEF m, z
<1>4. ASSUME NEW k \in 1 .. m, x[k] # 0
      PROVE  /\ k \in Nat /\ Rank(x, k) \in 1 .. Rank(x, m)
             /\ (CHOOSE j \in Passing(x, y) : Rank(x, j) = Rank(x, k)) = k
  <2>1. Rank(x, 0) < Rank(x, k) /\ Rank(x, k) <= Rank(x, m) /\ k \in Nat
    BY <1>1, <1>4, RankBefore, RankGrows
  <2>2. \A j \in Passing(x, y) : Rank(x, j) = Rank(x, k) => j = k
    <3> SUFFICES ASSUME NEW j \in Passing(x, y), Rank(x, j) = Rank(x, k), j # k PROVE FALSE
      OBVIOUS
    <3>1. j \in Nat /\ k \in Nat /\ x[j] # 0
      BY <1>1, <1>2
    <3>2. Rank(x, j) \in Nat /\ Rank(x, k) \in Nat
      BY <3>1, RankIsNat
    <3> QED
      BY <1>4, <3>1, <3>2, RankBefore
  <2> QED
    BY <1>1, <1>2, <1>4, <2>1, <2>2, RankIsNat
<1>5. \A n \in 1 .. Rank(x, m) : y[CHOOSE k \in Passing(x, y) : Rank(x, k) = n] \in Int
  <2> TAKE n \in 1 .. Rank(x, m)
  <2>1. PICK k \in 1 .. m : x[k] # 0 /\ Rank(x, k) = n
    BY <1>1, RankFound
  <2>2. (CHOOSE j \in Passing(x, y) : Rank(x, j) = n) = k
    BY <1>4, <2>1
  <2>3. y[k] \in Int
    BY <1>1
  <2> QED
    BY <2>2, <2>3
<1>6. z \in [1 .. Rank(x, m) -> Int]
  BY <1>3, <1>5 DEF z, Filtered
<1>7. z \in Seq(Int) /\ Len(z) = Rank(x, m)
  BY <1>3, <1>6, SeqOfFunction
<1>8. \A k \in 1 .. m : x[k] # 0 => z[Rank(x, k)] = y[k]
  BY <1>3, <1>4 DEF z, Filtered
<1> QED
  BY <1>7, <1>8 DEF m, z

\* What process p writes, z, when its inputs carry x and y.
Carried(p, x, y, z) ==
  LET a == program[p].arg IN
  /\ z \in Seq(Int)
  /\ Fn(p) = "source" => z = a
  /\ Fn(p) = "dup" => z = x
  /\ Fn(p) = "divisible_by" =>
       Len(z) = Len(x) /\ \A i \in 1 .. Len(x) : z[i] = IF x[i] % a[1] = 0 THEN 1 ELSE 0
  /\ Fn(p) = "function_single" =>
       Len(z) = Len(x) /\ \A i \in 1 .. Len(x) : z[i] = (x[i] + a[1]) % 256
  /\ Fn(p) = "and_streams" =>
       /\ Len(z) = Shorter(x, y)
       /\ \A i \in 1 .. Shorter(x, y) : z[i] = IF x[i] # 0 /\ y[i] # 0 THEN 1 ELSE 0
  /\ Fn(p) = "filter_streams" =>
       /\ Len(z) = Rank(x, Shorter(x, y))
       /\ \A i \in 1 .. Shorter(x, y) : x[i] # 0 => z[Rank(x, i)] = y[i]
  /\ Fn(p) = "function" =>
       /\ Len(z) = Len(y) + Len(x)
       /\ \A i \in 1 .. Len(y) : z[i] = (y[i] + a[1]) % 256
       /\ \A i \in 1 .. Len(x) : z[Len(y) + i] = (x[i] + a[1]) % 256

Plus(x, a) == [i \in DOMAIN x |-> (x[i] + a) % 256]

LEMMA PlusIs ==
  ASSUME NEW x \in Seq(Int), NEW a \in Int
  PROVE  /\ Plus(x, a) \in Seq(Int) /\ Len(Plus(x, a)) = Len(x)
         /\ \A i \in 1 .. Len(x) : Plus(x, a)[i] = (x[i] + a) % 256
<1>1. DOMAIN x = 1 .. Len(x) /\ Len(x) \in Nat
  OBVIOUS
<1>2. \A i \in 1 .. Len(x) : (x[i] + a) % 256 \in Int
  OBVIOUS
<1>3. Plus(x, a) \in [1 .. Len(x) -> Int] /\ \A i \in 1 .. Len(x) : Plus(x, a)[i] = (x[i] + a) % 256
  BY <1>1, <1>2 DEF Plus
<1> QED
  BY <1>1, <1>3, SeqOfFunction

LEMMA ConcatTyped ==
  ASSUME NEW x \in Seq(Int), NEW y \in Seq(Int)
  PROVE  x \o y \in Seq(Int) /\ Len(x \o y) = Len(x) + Len(y)
OBVIOUS

LEMMA ConcatFirst ==
  ASSUME NEW x \in Seq(Int), NEW y \in Seq(Int), NEW i \in 1 .. Len(x)
  PROVE  (x \o y)[i] = x[i]
OBVIOUS

LEMMA ConcatSecond ==
  ASSUME NEW x \in Seq(Int), NEW y \in Seq(Int), NEW i \in 1 .. Len(y)
  PROVE  (x \o y)[Len(x) + i] = y[i]
<1>1. Len(x) \in Nat /\ Len(y) \in Nat /\ Len(x \o y) = Len(x) + Len(y)
  BY ConcatProperties
<1>2. PICK j \in 1 .. Len(x) + Len(y) : j = Len(x) + i /\ j > Len(x) /\ j - Len(x) = i
  BY <1>1
<1>3. (x \o y)[j] = y[j - Len(x)]
  BY <1>1, <1>2
<1> QED
  BY <1>2, <1>3

LEMMA CarriedIs ==
  ASSUME TypeOK, NEW p \in Children, IsLink(program[p]), NEW x, NEW y, NEW z, z = Carries(p, x, y),
         Fn(p) # "source" => x \in Seq(Int), ReadsTwo(program[p]) => y \in Seq(Int)
  PROVE  Carried(p, x, y, z)
<1>1. Shape(program[p]) /\ Fn(p) \in Functions /\ Fn(p) \notin {"sink", "head", "free"}
  BY CallIs DEF Shape, Fn, IsLink
<1>2. CASE Fn(p) = "source"
  BY <1>1, <1>2 DEF Carried, Carries, Shape
<1>3. CASE Fn(p) = "dup"
  BY <1>3 DEF Carried, Carries
<1>4. CASE Fn(p) = "divisible_by"
  <2>1. x \in Seq(Int) /\ Len(x) \in Nat /\ DOMAIN x = 1 .. Len(x)
    BY <1>4
  <2>2. z = [i \in 1 .. Len(x) |-> IF x[i] % program[p].arg[1] = 0 THEN 1 ELSE 0]
    BY <1>4, <2>1 DEF Carries
  <2>3. z \in [1 .. Len(x) -> Int]
    BY <2>2
  <2>4. z \in Seq(Int) /\ Len(z) = Len(x)
    BY <2>1, <2>3, SeqOfFunction
  <2> QED
    BY <1>4, <2>2, <2>4 DEF Carried
<1>5. CASE Fn(p) = "function_single"
  <2>1. z = Plus(x, program[p].arg[1]) /\ program[p].arg[1] \in Int
    BY <1>1, <1>5 DEF Carries, Shape, Fn, Plus
  <2> QED
    BY <1>5, <2>1, PlusIs DEF Carried
<1>6. CASE Fn(p) = "and_streams"
  <2>1. x \in Seq(Int) /\ y \in Seq(Int) /\ Shorter(x, y) \in Nat
    BY <1>6 DEF ReadsTwo, Fn, Shorter
  <2>2. z = [i \in 1 .. Shorter(x, y) |-> IF x[i] # 0 /\ y[i] # 0 THEN 1 ELSE 0]
    BY <1>6 DEF Carries, Pairs, Shorter
  <2>3. z \in [1 .. Shorter(x, y) -> Int]
    BY <2>2
  <2>4. z \in Seq(Int) /\ Len(z) = Shorter(x, y)
    BY <2>1, <2>3, SeqOfFunction
  <2> QED
    BY <1>6, <2>2, <2>4 DEF Carried
<1>7. CASE Fn(p) = "filter_streams"
  <2>1. x \in Seq(Int) /\ y \in Seq(Int)
    BY <1>7 DEF ReadsTwo, Fn
  <2>2. z = Filtered(x, y)
    BY <1>7 DEF Carries, Filtered
  <2> QED
    BY <1>7, <2>1, <2>2, FilterIs DEF Carried
<1>8. CASE Fn(p) = "function"
  <2>1. x \in Seq(Int) /\ y \in Seq(Int) /\ program[p].arg[1] \in Int
    BY <1>1, <1>8 DEF ReadsTwo, Fn, Shape
  <2>2. PICK a \in Int : a = program[p].arg[1]
    BY <2>1
  <2>3. z = Plus(y, a) \o Plus(x, a)
    BY <1>8, <2>2 DEF Carries, Plus
  <2>4. /\ Plus(x, a) \in Seq(Int) /\ Len(Plus(x, a)) = Len(x) /\ Len(x) \in Nat
        /\ \A i \in 1 .. Len(x) : Plus(x, a)[i] = (x[i] + a) % 256
    BY <2>1, PlusIs
  <2>5. /\ Plus(y, a) \in Seq(Int) /\ Len(Plus(y, a)) = Len(y) /\ Len(y) \in Nat
        /\ \A i \in 1 .. Len(y) : Plus(y, a)[i] = (y[i] + a) % 256
    BY <2>1, PlusIs
  <2>6. z \in Seq(Int) /\ Len(z) = Len(y) + Len(x)
    BY <2>3, <2>4, <2>5, ConcatTyped
  <2>7. ASSUME NEW i \in 1 .. Len(y) PROVE z[i] = (y[i] + a) % 256
    <3>1. (Plus(y, a) \o Plus(x, a))[i] = Plus(y, a)[i]
      BY <2>4, <2>5, ConcatFirst
    <3> QED
      BY <2>3, <2>5, <3>1
  <2>8. ASSUME NEW i \in 1 .. Len(x) PROVE z[Len(y) + i] = (x[i] + a) % 256
    <3>1. (Plus(y, a) \o Plus(x, a))[Len(Plus(y, a)) + i] = Plus(x, a)[i]
      BY <2>4, <2>5, ConcatSecond
    <3> QED
      BY <2>3, <2>4, <2>5, <3>1
  <2> QED
    BY <1>8, <2>2, <2>6, <2>7, <2>8 DEF Carried
<1> QED
  BY <1>1, <1>2, <1>3, <1>4, <1>5, <1>6, <1>7, <1>8 DEF Functions

-----------------------------------------------------------------------------
(* The definition of Value by recursion over the network is one.           *)

\* The streams below n, and what a definition g of the streams says of s.
Below(n) == {s \in Made : s < n}
Body(g, s) == LET p == Creator(s) IN Carries(p, g[In(p, 1)], g[In(p, 2)])

LEMMA MadeIs ==
  ASSUME TypeOK, NEW s \in Made
  PROVE  /\ s \in Streams /\ s \in Nat
         /\ Creator(s) \in Children /\ s \in Outs(program[Creator(s)]) /\ IsLink(program[Creator(s)])
         /\ \A t \in Ins(program[Creator(s)]) : t \in Made /\ t < s
<1>1. PICK q \in Children : s \in Outs(program[q])
  BY DEF Made, Children
<1>2. Creator(s) \in Children /\ s \in Outs(program[Creator(s)])
  BY <1>1 DEF Creator, Children
<1>3. PICK p \in Children : p = Creator(s)
  BY <1>2
<1>4. Shape(program[p])
  BY CallIs
<1>5. s \in Streams /\ s \in Nat
  BY <1>2, <1>3, <1>4, StreamsAre DEF Shape
<1>6. ASSUME NEW t \in Ins(program[p]) PROVE t \in Made /\ t < s
  <2>1. t < s
    BY <1>2, <1>3, ProgramIs DEF ProperProgram, Children
  <2>2. PICK i \in 1 .. p - 1 : t \in Outs(program[i])
    BY ProgramIs DEF ProperProgram, Children
  <2>3. i \in Children
    BY <2>2, ProgramIs
  <2> QED
    BY <2>1, <2>2, <2>3 DEF Made, Children
<1> QED
  BY <1>2, <1>3, <1>4, <1>5, <1>6 DEF Shape

\* What a process writes depends on the streams it reads only.
LEMMA SameCarries ==
  ASSUME TypeOK, NEW p \in Children, IsLink(program[p]), NEW g, NEW h,
         \A t \in Ins(program[p]) : g[t] = h[t]
  PROVE  Carries(p, g[In(p, 1)], g[In(p, 2)]) = Carries(p, h[In(p, 1)], h[In(p, 2)])
<1>1. Shape(program[p]) /\ Fn(p) \in Functions /\ Fn(p) \notin {"sink", "head", "free"}
  BY CallIs DEF Shape, Fn, IsLink
<1>2. CASE Fn(p) = "source"
  BY <1>2 DEF Carries
<1>3. CASE ReadsTwo(program[p])
  <2>1. g[In(p, 1)] = h[In(p, 1)] /\ g[In(p, 2)] = h[In(p, 2)]
    BY <1>1, <1>3 DEF Shape, In
  <2> QED
    BY <2>1
<1>4. CASE Fn(p) # "source" /\ ~ReadsTwo(program[p])
  <2>1. PICK x : x = g[In(p, 1)] /\ x = h[In(p, 1)]
    BY <1>1, <1>4 DEF Shape, In, Fn
  <2>2. PICK y : y = g[In(p, 2)]
    OBVIOUS
  <2>3. PICK z : z = h[In(p, 2)]
    OBVIOUS
  <2>4. Carries(p, x, y) = Carries(p, x, z)
    BY <1>1, <1>4 DEF Carries, ReadsTwo, Fn, Functions
  <2> QED
    BY <2>1, <2>2, <2>3, <2>4
<1> QED
  BY <1>2, <1>3, <1>4

Solves(g, n) == g = [s \in Below(n) |-> Body(g, s)]

LEMMA SolvedBelow ==
  ASSUME TypeOK, NEW n \in Nat
  PROVE  \E g : Solves(g, n)
<1> DEFINE T == {m \in Nat : ~\E g : Solves(g, m)}
<1>1. SUFFICES ASSUME T # {} PROVE FALSE
  OBVIOUS
<1>2. PICK m \in T : \A k \in T : m <= k
  <2>1. T \in SUBSET Nat
    OBVIOUS
  <2> HIDE DEF T
  <2> QED
    BY <1>1, <2>1, Least
<1>3. m # 0
  <2>1. Below(0) = {}
    BY MadeIs DEF Below
  <2>2. PICK g : g = [s \in {} |-> 0]
    OBVIOUS
  <2>3. g = [s \in {} |-> Body(g, s)]
    BY <2>2
  <2> QED
    BY <2>1, <2>3 DEF Solves
<1>4. m - 1 \in Nat /\ m - 1 \notin T
  BY <1>2, <1>3
<1>5. PICK g : Solves(g, m - 1)
  BY <1>4
<1>6. PICK h : h = [s \in Below(m) |-> Body(g, s)]
  OBVIOUS
<1>7. ASSUME NEW s \in Below(m) PROVE Body(g, s) = Body(h, s)
  <2>1. /\ s \in Made /\ s < m /\ s \in Nat /\ Creator(s) \in Children /\ IsLink(program[Creator(s)])
        /\ \A t \in Ins(program[Creator(s)]) : t \in Made /\ t < s
    BY MadeIs DEF Below
  <2>2. PICK p \in Children : p = Creator(s)
    BY <2>1
  <2>3. ASSUME NEW t \in Ins(program[p]) PROVE g[t] = h[t]
    <3>1. t \in Made /\ t \in Nat /\ t < m - 1
      <4>1. t \in Made /\ t < s
        BY <2>1, <2>2
      <4>2. t \in Nat
        BY <4>1, MadeIs
      <4>3. m \in Nat
        BY <1>2
      <4> QED
        BY <2>1, <4>1, <4>2, <4>3
    <3>2. t \in Below(m - 1) /\ t \in Below(m)
      BY <1>4, <3>1 DEF Below
    <3>3. g[t] = Body(g, t)
      BY <1>5, <3>2 DEF Solves
    <3>4. h[t] = Body(g, t)
      BY <1>6, <3>2
    <3> QED
      BY <3>3, <3>4
  <2>4. Carries(p, g[In(p, 1)], g[In(p, 2)]) = Carries(p, h[In(p, 1)], h[In(p, 2)])
    BY <2>1, <2>2, <2>3, SameCarries
  <2> QED
    BY <2>2, <2>4 DEF Body
<1>8. h = [s \in Below(m) |-> Body(h, s)]
  BY <1>6, <1>7
<1> QED
  BY <1>2, <1>8 DEF Solves

LEMMA ValueSolves ==
  ASSUME TypeOK
  PROVE  Value = [s \in Made |-> Body(Value, s)]
<1>1. PICK n \in Nat : Streams = 1 .. n
  BY StreamsAre
<1>2. Below(n + 1) = Made
  BY <1>1, MadeIs DEF Below
<1>3. PICK g : g = [s \in Made |-> Body(g, s)]
  <2>1. \E g : Solves(g, n + 1)
    BY SolvedBelow
  <2> QED
    BY <1>2, <2>1 DEF Solves
<1> QED
  BY <1>3 DEF Value, Body

LEMMA ValueIs ==
  ASSUME TypeOK, NEW s \in Made, NEW p \in Children, p = Creator(s)
  PROVE  Value[s] = Carries(p, Value[In(p, 1)], Value[In(p, 2)])
<1>1. Value[s] = Body(Value, s)
  BY ValueSolves
<1> QED
  BY <1>1 DEF Body

LEMMA ValueTyped ==
  ASSUME TypeOK, NEW s \in Made
  PROVE  Value[s] \in Seq(Int)
<1> DEFINE T == {t \in Made : Value[t] \notin Seq(Int)}
<1>1. SUFFICES ASSUME T # {} PROVE FALSE
  OBVIOUS
<1>2. PICK t \in T : \A u \in T : t <= u
  <2>1. T \in SUBSET Nat
    BY MadeIs
  <2> HIDE DEF T
  <2> QED
    BY <1>1, <2>1, Least
<1>3. PICK p \in Children : p = Creator(t)
  BY <1>2, MadeIs
<1>4. IsLink(program[p]) /\ Shape(program[p])
  BY <1>2, <1>3, MadeIs, CallIs
<1>5. \A u \in Ins(program[p]) : Value[u] \in Seq(Int)
  <2> TAKE u \in Ins(program[p])
  <2>1. u \in Made /\ u < t /\ u \in Nat /\ t \in Nat
    BY <1>2, <1>3, MadeIs
  <2> QED
    BY <1>2, <2>1
<1>6. PICK x : x = Value[In(p, 1)]
  OBVIOUS
<1>7. PICK y : y = Value[In(p, 2)]
  OBVIOUS
<1>8. /\ Fn(p) # "source" => x \in Seq(Int)
      /\ ReadsTwo(program[p]) => y \in Seq(Int)
  BY <1>4, <1>5, <1>6, <1>7 DEF Shape, In, Fn
<1>9. Value[t] = Carries(p, x, y)
  BY <1>2, <1>3, <1>6, <1>7, ValueIs
<1>10. Carried(p, x, y, Value[t])
  BY <1>4, <1>8, <1>9, CarriedIs
<1> QED
  BY <1>2, <1>10 DEF Carried

\* What every process writes, whichever of two equal calls is run.
LEMMA OutputValue ==
  ASSUME TypeOK, NEW p \in Children, NEW s \in Outs(program[p])
  PROVE  s \in Made /\ Carried(p, Value[In(p, 1)], Value[In(p, 2)], Value[s])
<1>1. s \in Made
  BY DEF Made, Children
<1>2. PICK q \in Children : q = Creator(s)
  BY <1>1, MadeIs
<1>3. program[q] = program[p]
  BY <1>1, <1>2, MadeIs, ProgramIs DEF ProperProgram, Children
<1>4. IsLink(program[p]) /\ Shape(program[p])
  BY <1>1, <1>2, <1>3, MadeIs, CallIs
<1>5. \A u \in Ins(program[p]) : Value[u] \in Seq(Int)
  BY <1>1, <1>2, <1>3, MadeIs, ValueTyped
<1>6. PICK x : x = Value[In(p, 1)]
  OBVIOUS
<1>7. PICK y : y = Value[In(p, 2)]
  OBVIOUS
<1>8. /\ Fn(p) # "source" => x \in Seq(Int)
      /\ ReadsTwo(program[p]) => y \in Seq(Int)
  BY <1>4, <1>5, <1>6, <1>7 DEF Shape, In, Fn
<1>9. Value[s] = Carries(q, Value[In(q, 1)], Value[In(q, 2)])
  BY <1>1, <1>2, ValueIs
<1>10. Value[s] = Carries(q, x, y)
  BY <1>3, <1>6, <1>7, <1>9 DEF In
<1>11. Carries(q, x, y) = Carries(p, x, y)
  BY <1>3 DEF Carries, Fn
<1>12. Carried(p, x, y, Value[s])
  BY <1>4, <1>8, <1>10, <1>11, CarriedIs
<1> QED
  BY <1>1, <1>6, <1>7, <1>12

LEMMA SameNetwork == program' = program => Value' = Value /\ Made' = Made
BY DEF Value, Made, Creator, Carries, Fn, In

-----------------------------------------------------------------------------
(* Where one process is: how much it has read and written by the time it   *)
(* is at l.                                                                *)

\* The streams of a process, and that what they carry is a sequence.
Wired(p) ==
  /\ Fn(p) \in Functions \ {"sink", "head", "free"}
  /\ Fn(p) # "source" => In(p, 1) \in Streams /\ In(p, 1) \in Ins(program[p]) /\ Value[In(p, 1)] \in Seq(Int)
  /\ ReadsTwo(program[p]) =>
       /\ In(p, 2) \in Streams /\ In(p, 2) \in Ins(program[p]) /\ Value[In(p, 2)] \in Seq(Int)
       /\ In(p, 1) # In(p, 2)
  /\ Out(p, 1) \in Streams /\ Out(p, 1) \in Outs(program[p])
  /\ Carried(p, Value[In(p, 1)], Value[In(p, 2)], Value[Out(p, 1)])
  /\ Fn(p) # "dup" => Outs(program[p]) = {Out(p, 1)}
  /\ Fn(p) = "dup" =>
       /\ Out(p, 2) \in Streams /\ Outs(program[p]) = {Out(p, 1), Out(p, 2)} /\ Out(p, 1) # Out(p, 2)
       /\ Carried(p, Value[In(p, 1)], Value[In(p, 2)], Value[Out(p, 2)])

LEMMA WiredIs ==
  ASSUME TypeOK, NEW p \in Children, IsLink(program[p])
  PROVE  Wired(p)
<1>1. Shape(program[p])
  BY CallIs
<1>2. Out(p, 1) \in Outs(program[p]) /\ Out(p, 1) \in Streams
  BY <1>1 DEF Shape, Out
<1>3. ASSUME NEW t \in Ins(program[p]) PROVE Value[t] \in Seq(Int)
  <2>1. PICK i \in 1 .. p - 1 : t \in Outs(program[i])
    BY ProgramIs DEF ProperProgram, Children
  <2>2. i \in Children
    BY <2>1, ProgramIs, CallIs
  <2>3. t \in Made
    BY <2>1, <2>2 DEF Made, Children
  <2> QED
    BY <2>3, ValueTyped
<1>4. Carried(p, Value[In(p, 1)], Value[In(p, 2)], Value[Out(p, 1)])
  BY <1>2, OutputValue
<1>5. Fn(p) = "dup" => /\ Out(p, 2) \in Streams /\ Out(p, 2) \in Outs(program[p]) /\ Out(p, 1) # Out(p, 2)
                       /\ Outs(program[p]) = {Out(p, 1), Out(p, 2)}
  BY <1>1 DEF Shape, Out, Fn
<1>6. Fn(p) = "dup" => Carried(p, Value[In(p, 1)], Value[In(p, 2)], Value[Out(p, 2)])
  BY <1>5, OutputValue
<1>7. /\ Fn(p) # "source" => In(p, 1) \in Streams /\ In(p, 1) \in Ins(program[p])
      /\ ReadsTwo(program[p]) => /\ In(p, 2) \in Streams /\ In(p, 2) \in Ins(program[p])
                                 /\ In(p, 1) # In(p, 2)
  BY <1>1 DEF Shape, In, Fn
<1>8. Fn(p) # "dup" => Outs(program[p]) = {Out(p, 1)}
  BY <1>1 DEF Shape, Out, Fn
<1>9. Fn(p) \in Functions \ {"sink", "head", "free"}
  BY <1>1 DEF Shape, IsLink, Fn
<1> QED
  BY <1>2, <1>3, <1>4, <1>5, <1>6, <1>7, <1>8, <1>9 DEF Wired

\* The items a process has to have written before it reads on, when it has read
\* m and n items from its inputs.
Due(p, m, n) ==
  CASE Fn(p) = "and_streams" -> n
    [] Fn(p) = "filter_streams" -> Rank(Value[In(p, 1)], n)
    [] Fn(p) = "function" -> m + n
    [] OTHER -> m

Working == {"in1", "in2", "out1", "out2"}

\* v is the item that follows the first k items of z.
Follows(v, z, k) == k < Len(z) /\ v = z[k + 1]

\* Process p is at l with value v and first item f, has read m and n items from
\* its inputs and written i and j items to its outputs.
Writes(p, l, v, m, n, i, j) ==
  /\ l = "out1" => Follows(v, Value[Out(p, 1)], i) /\ Due(p, m, n) = i + 1
  /\ l \in {"in1", "in2", "out2"} => Due(p, m, n) = i
  /\ Fn(p) = "dup" /\ l \in {"out1", "out2"} => Follows(v, Value[Out(p, 2)], j) /\ m = j + 1
  /\ Fn(p) = "dup" /\ l = "in1" => m = j

Reads(p, l, f, m, n) ==
  /\ Fn(p) \in {"and_streams", "filter_streams"} =>
       /\ l = "in2" => m = n + 1 /\ f = Value[In(p, 1)][m]
       /\ l \in {"in1", "out1"} => m = n
  /\ Fn(p) = "function" =>
       /\ l = "in2" => f = 0
       /\ l = "in1" => f # 0
       /\ l \in Working /\ f = 0 => m = 0
       /\ l \in Working /\ f # 0 => n = Len(Value[In(p, 2)])

Stage(p, l, v, f, m, n, i, j) ==
  /\ Fn(p) = "source" => (l = "out1" => v = i)
  /\ Fn(p) # "source" => Writes(p, l, v, m, n, i, j) /\ Reads(p, l, f, m, n)
  /\ l \notin Working => i = Len(Value[Out(p, 1)]) /\ (Fn(p) = "dup" => j = Len(Value[Out(p, 2)]))

LEMMA StageStart ==
  ASSUME NEW p, Wired(p)
  PROVE  Stage(p, FirstPlace(Fn(p)), 0, 0, 0, 0, 0, 0)
<1>1. Rank(Value[In(p, 1)], 0) = 0
  BY RankZero
<1>2. Due(p, 0, 0) = 0
  BY <1>1 DEF Due
<1> QED
  BY <1>2 DEF Stage, Writes, Reads, FirstPlace, Working, Wired, Functions

LEMMA StageFirst ==
  ASSUME NEW p, Wired(p), NEW v, NEW f, NEW m \in Nat, NEW n \in Nat, NEW i \in Nat, NEW j \in Nat,
         Stage(p, "in1", v, f, m, n, i, j), Fn(p) # "source",
         m < Len(Value[In(p, 1)]), ReadsTwo(program[p]) => n <= Len(Value[In(p, 2)]),
         NEW u, u = Value[In(p, 1)][m + 1]
  PROVE  /\ Fn(p) \in {"and_streams", "filter_streams"} => Stage(p, "in2", v, u, m + 1, n, i, j)
         /\ Fn(p) = "divisible_by" =>
              Stage(p, "out1", IF u % program[p].arg[1] = 0 THEN 1 ELSE 0, f, m + 1, n, i, j)
         /\ Fn(p) \in {"function", "function_single"} =>
              Stage(p, "out1", (u + program[p].arg[1]) % 256, f, m + 1, n, i, j)
         /\ Fn(p) = "dup" => Stage(p, "out1", u, f, m + 1, n, i, j)
<1>1. Due(p, m, n) = i
  BY DEF Stage, Writes
<1>2. m + 1 \in 1 .. Len(Value[In(p, 1)]) /\ Len(Value[In(p, 1)]) \in Nat
  BY DEF Wired
<1>3. CASE Fn(p) \in {"and_streams", "filter_streams"}
  <2>1. Due(p, m + 1, n) = i
    BY <1>1, <1>3 DEF Due
  <2>2. m = n
    BY <1>3 DEF Stage, Reads
  <2> QED
    BY <1>3, <2>1, <2>2 DEF Stage, Writes, Reads, Working
<1>4. CASE Fn(p) \in {"divisible_by", "function_single", "dup"}
  <2>1. Due(p, m + 1, n) = i + 1 /\ m = i
    BY <1>1, <1>4 DEF Due
  <2>2. Len(Value[Out(p, 1)]) = Len(Value[In(p, 1)])
    BY <1>4 DEF Wired, Carried
  <2>3. CASE Fn(p) = "divisible_by"
    <3>1. Value[Out(p, 1)][m + 1] = IF u % program[p].arg[1] = 0 THEN 1 ELSE 0
      BY <1>2, <2>3 DEF Wired, Carried
    <3> QED
      BY <2>1, <2>2, <2>3, <3>1 DEF Stage, Writes, Reads, Working, Follows
  <2>4. CASE Fn(p) = "function_single"
    <3>1. Value[Out(p, 1)][m + 1] = (u + program[p].arg[1]) % 256
      BY <1>2, <2>4 DEF Wired, Carried
    <3> QED
      BY <2>1, <2>2, <2>4, <3>1 DEF Stage, Writes, Reads, Working, Follows
  <2>5. CASE Fn(p) = "dup"
    <3>1. Value[Out(p, 1)] = Value[In(p, 1)] /\ Value[Out(p, 2)] = Value[In(p, 1)]
      BY <2>5 DEF Wired, Carried
    <3>2. m = j
      BY <2>5 DEF Stage, Writes
    <3> QED
      BY <2>1, <2>5, <3>1, <3>2 DEF Stage, Writes, Reads, Working, Follows
  <2> QED
    BY <1>4, <2>3, <2>4, <2>5
<1>5. CASE Fn(p) = "function"
  <2>1. Due(p, m + 1, n) = i + 1 /\ m + n = i
    BY <1>1, <1>5 DEF Due
  <2>2. f # 0 /\ n = Len(Value[In(p, 2)])
    BY <1>5 DEF Stage, Reads, Working
  <2>3. Value[Out(p, 1)][Len(Value[In(p, 2)]) + (m + 1)] = (u + program[p].arg[1]) % 256
    BY <1>2, <1>5 DEF Wired, Carried
  <2>4. Len(Value[In(p, 2)]) + (m + 1) = i + 1 /\ i < Len(Value[Out(p, 1)])
    <3>1. Len(Value[Out(p, 1)]) = Len(Value[In(p, 2)]) + Len(Value[In(p, 1)])
      BY <1>5 DEF Wired, Carried
    <3>2. Len(Value[Out(p, 1)]) = n + Len(Value[In(p, 1)])
      BY <2>2, <3>1
    <3>3. PICK a \in Nat : a = Len(Value[In(p, 1)]) /\ m < a
      BY <1>2
    <3>4. n + (m + 1) = i + 1 /\ i < n + a
      BY <2>1, <3>3
    <3> QED
      BY <2>2, <3>2, <3>3, <3>4
  <2>5. Follows((u + program[p].arg[1]) % 256, Value[Out(p, 1)], i)
    BY <2>3, <2>4 DEF Follows
  <2> QED
    BY <1>5, <2>1, <2>2, <2>5 DEF Stage, Writes, Reads, Working
<1> QED
  BY <1>3, <1>4, <1>5 DEF Wired, Functions

LEMMA StageSecond ==
  ASSUME NEW p, Wired(p), NEW v, NEW f, NEW m \in Nat, NEW n \in Nat, NEW i \in Nat, NEW j \in Nat,
         Stage(p, "in2", v, f, m, n, i, j), ReadsTwo(program[p]),
         m <= Len(Value[In(p, 1)]), n < Len(Value[In(p, 2)]),
         NEW u, u = Value[In(p, 2)][n + 1]
  PROVE  /\ Fn(p) = "and_streams" => Stage(p, "out1", IF f # 0 /\ u # 0 THEN 1 ELSE 0, f, m, n + 1, i, j)
         /\ Fn(p) = "filter_streams" => Stage(p, IF f # 0 THEN "out1" ELSE "in1", u, f, m, n + 1, i, j)
         /\ Fn(p) = "function" => Stage(p, "out1", (u + program[p].arg[1]) % 256, f, m, n + 1, i, j)
<1> DEFINE x == Value[In(p, 1)]
           y == Value[In(p, 2)]
           z == Value[Out(p, 1)]
<1>1. Due(p, m, n) = i
  BY DEF Stage, Writes, ReadsTwo, Fn
<1>2. x \in Seq(Int) /\ y \in Seq(Int) /\ Len(x) \in Nat /\ Len(y) \in Nat /\ Shorter(x, y) \in Nat
  BY DEF Wired, ReadsTwo, Fn, Shorter
<1>3. Fn(p) \in {"and_streams", "filter_streams"} =>
        m = n + 1 /\ f = x[n + 1] /\ n + 1 \in 1 .. Shorter(x, y)
  BY <1>2 DEF Stage, Reads, Shorter
<1>4. CASE Fn(p) = "and_streams"
  <2>1. Due(p, m, n + 1) = i + 1 /\ n = i
    BY <1>1, <1>4 DEF Due
  <2>2. Len(z) = Shorter(x, y) /\ z[n + 1] = IF x[n + 1] # 0 /\ y[n + 1] # 0 THEN 1 ELSE 0
    BY <1>3, <1>4 DEF Wired, Carried
  <2>3. Follows(IF f # 0 /\ u # 0 THEN 1 ELSE 0, z, i)
    BY <1>2, <1>3, <1>4, <2>1, <2>2 DEF Follows
  <2> QED
    BY <1>3, <1>4, <2>1, <2>3 DEF Stage, Writes, Reads, Working
<1>5. CASE Fn(p) = "filter_streams"
  <2>1. Due(p, m, n + 1) = Rank(x, n + 1) /\ Rank(x, n) = i
    BY <1>1, <1>5 DEF Due
  <2>2. Rank(x, n + 1) = IF f # 0 THEN i + 1 ELSE i
    BY <1>3, <1>5, <2>1, RankNext
  <2>3. CASE f # 0
    <3>1. z[i + 1] = u
      BY <1>3, <1>5, <2>2, <2>3 DEF Wired, Carried
    <3>2. Len(z) = Rank(x, Shorter(x, y))
      BY <1>5 DEF Wired, Carried
    <3>3. Rank(x, n + 1) <= Rank(x, Shorter(x, y))
      BY <1>2, <1>3, <1>5, RankGrows
    <3>4. Rank(x, Shorter(x, y)) \in Nat
      BY <1>2, RankIsNat
    <3>5. Follows(u, z, i)
      BY <2>2, <2>3, <3>1, <3>2, <3>3, <3>4 DEF Follows
    <3> QED
      BY <1>3, <1>5, <2>1, <2>2, <2>3, <3>5 DEF Stage, Writes, Reads, Working
  <2>4. CASE f = 0
    BY <1>3, <1>5, <2>1, <2>2, <2>4 DEF Stage, Writes, Reads, Working
  <2> QED
    BY <2>3, <2>4
<1>6. CASE Fn(p) = "function"
  <2>1. Due(p, m, n + 1) = i + 1 /\ m + n = i
    BY <1>1, <1>6 DEF Due
  <2>2. f = 0 /\ m = 0
    BY <1>6 DEF Stage, Reads, Working
  <2>3. n + 1 \in 1 .. Len(y)
    BY <1>2
  <2>4. z[n + 1] = (u + program[p].arg[1]) % 256
    BY <1>6, <2>3 DEF Wired, Carried
  <2>5. Len(z) = Len(y) + Len(x)
    BY <1>6 DEF Wired, Carried
  <2>6. Follows((u + program[p].arg[1]) % 256, z, i)
    <3>1. n = i
      BY <2>1, <2>2
    <3>2. i < Len(z)
      <4>1. PICK a \in Nat : a = Len(x)
        BY <1>2
      <4>2. PICK b \in Nat : b = Len(y) /\ n < b
        BY <1>2
      <4>3. Len(z) = b + a
        BY <2>5, <4>1, <4>2
      <4>4. n < b + a
        BY <4>2
      <4> QED
        BY <3>1, <4>3, <4>4
    <3> QED
      BY <2>4, <3>1, <3>2 DEF Follows
  <2> QED
    BY <1>6, <2>1, <2>2, <2>6 DEF Stage, Writes, Reads, Working
<1> QED
  BY <1>4, <1>5, <1>6

\* The end of an input.
LEMMA StageEndFirst ==
  ASSUME NEW p, Wired(p), NEW v, NEW f, NEW m \in Nat, NEW n \in Nat, NEW i \in Nat, NEW j \in Nat,
         Stage(p, "in1", v, f, m, n, i, j), Fn(p) # "source",
         m = Len(Value[In(p, 1)]), ReadsTwo(program[p]) => n <= Len(Value[In(p, 2)])
  PROVE  Stage(p, "close1", v, f, m, n, i, j)
<1> DEFINE x == Value[In(p, 1)]
           y == Value[In(p, 2)]
           z == Value[Out(p, 1)]
<1>1. Due(p, m, n) = i
  BY DEF Stage, Writes
<1>2. CASE Fn(p) \in {"divisible_by", "function_single", "dup"}
  <2>1. m = i
    BY <1>1, <1>2 DEF Due
  <2>2. Len(z) = Len(x)
    BY <1>2 DEF Wired, Carried
  <2>3. Fn(p) = "dup" => Value[Out(p, 2)] = x /\ m = j
    BY DEF Wired, Carried, Stage, Writes
  <2> QED
    BY <1>2, <2>1, <2>2, <2>3 DEF Stage, Writes, Reads, Working
<1>3. CASE Fn(p) \in {"and_streams", "filter_streams"}
  <2>1. m = n /\ n <= Len(y) /\ Len(y) \in Nat
    BY <1>3 DEF Stage, Reads, ReadsTwo, Fn, Wired
  <2>2. Shorter(x, y) = n
    BY <2>1 DEF Shorter
  <2>3. Len(z) = i
    BY <1>1, <1>3, <2>2 DEF Wired, Carried, Due
  <2> QED
    BY <1>3, <2>3 DEF Stage, Writes, Reads, Working
<1>4. CASE Fn(p) = "function"
  <2>1. n = Len(y) /\ m = Len(x)
    BY <1>4 DEF Stage, Reads, Working
  <2>2. Len(z) = Len(y) + Len(x)
    BY <1>4 DEF Wired, Carried
  <2>3. Len(z) = i
    <3>1. m + n = i
      BY <1>1, <1>4 DEF Due
    <3>2. Len(z) = n + m
      BY <2>1, <2>2
    <3>3. n + m = m + n
      OBVIOUS
    <3> QED
      BY <3>1, <3>2, <3>3
  <2> QED
    BY <1>4, <2>3 DEF Stage, Writes, Reads, Working
<1> QED
  BY <1>2, <1>3, <1>4 DEF Wired, Functions

LEMMA StageEndSecond ==
  ASSUME NEW p, Wired(p), NEW v, NEW f, NEW m \in Nat, NEW n \in Nat, NEW i \in Nat, NEW j \in Nat,
         Stage(p, "in2", v, f, m, n, i, j), ReadsTwo(program[p]),
         m <= Len(Value[In(p, 1)]), n = Len(Value[In(p, 2)])
  PROVE  /\ Fn(p) = "function" => Stage(p, "in1", v, 1, m, n, i, j)
         /\ Fn(p) # "function" => Stage(p, "close1", v, f, m, n, i, j)
<1> DEFINE x == Value[In(p, 1)]
           y == Value[In(p, 2)]
           z == Value[Out(p, 1)]
<1>1. Due(p, m, n) = i
  BY DEF Stage, Writes, ReadsTwo, Fn
<1>2. CASE Fn(p) = "function"
  BY <1>1, <1>2 DEF Stage, Writes, Reads, Working
<1>3. CASE Fn(p) \in {"and_streams", "filter_streams"}
  <2>1. m = n + 1 /\ Len(x) \in Nat
    BY <1>3 DEF Stage, Reads, ReadsTwo, Fn, Wired
  <2>2. Shorter(x, y) = n
    BY <2>1 DEF Shorter
  <2>3. Len(z) = i
    BY <1>1, <1>3, <2>2 DEF Wired, Carried, Due
  <2> QED
    BY <1>3, <2>3 DEF Stage, Writes, Reads, Working
<1> QED
  BY <1>2, <1>3 DEF ReadsTwo, Fn

\* What a process writes next is what its output carries next.
LEMMA StageWrite ==
  ASSUME NEW p, Wired(p), NEW v, NEW f, NEW m \in Nat, NEW n \in Nat, NEW i \in Nat, NEW j \in Nat,
         Stage(p, "out1", v, f, m, n, i, j), Fn(p) # "source"
  PROVE  /\ Follows(v, Value[Out(p, 1)], i)
         /\ Fn(p) = "dup" => Stage(p, "out2", v, f, m, n, i + 1, j)
         /\ Fn(p) = "function" /\ f = 0 => Stage(p, "in2", v, f, m, n, i + 1, j)
         /\ Fn(p) # "dup" /\ ~(Fn(p) = "function" /\ f = 0) => Stage(p, "in1", v, f, m, n, i + 1, j)
BY DEF Stage, Writes, Reads, Working

LEMMA StageWriteSecond ==
  ASSUME NEW p, Wired(p), NEW v, NEW f, NEW m \in Nat, NEW n \in Nat, NEW i \in Nat, NEW j \in Nat,
         Stage(p, "out2", v, f, m, n, i, j), Fn(p) = "dup"
  PROVE  Follows(v, Value[Out(p, 2)], j) /\ Stage(p, "in1", v, f, m, n, i, j + 1)
BY DEF Stage, Writes, Reads, Working, Due

LEMMA StageSource ==
  ASSUME NEW p, Wired(p), NEW v \in Nat, NEW f, NEW m \in Nat, NEW n \in Nat, NEW i \in Nat, NEW j \in Nat,
         Stage(p, "out1", v, f, m, n, i, j), Fn(p) = "source", i <= Len(Value[Out(p, 1)])
  PROVE  /\ v < Len(program[p].arg) => /\ Follows(program[p].arg[v + 1], Value[Out(p, 1)], i)
                                       /\ Stage(p, "out1", v + 1, f, m, n, i + 1, j)
         /\ ~(v < Len(program[p].arg)) => Stage(p, "close1", v, f, m, n, i, j)
<1>1. Value[Out(p, 1)] = program[p].arg /\ v = i /\ Len(Value[Out(p, 1)]) \in Nat
  BY DEF Wired, Carried, Stage
<1> QED
  BY <1>1 DEF Stage, Working, Follows

LEMMA StageClose ==
  ASSUME NEW p, NEW v, NEW f, NEW m, NEW n, NEW i, NEW j, NEW l \in {"close1", "close2"},
         Stage(p, l, v, f, m, n, i, j)
  PROVE  Stage(p, "close2", v, f, m, n, i, j) /\ Stage(p, "exit", v, f, m, n, i, j)
BY DEF Stage, Writes, Reads, Working

-----------------------------------------------------------------------------
(* The network while main builds it and runs its sink: d[s] is how many    *)
(* items have been read from stream s.                                     *)

Building == pc \in Children /\ Fn(pc) # "free"

\* How many items have been written to a stream, and that they are its first.
Sent(d, s) == d[s] + Len(Left(s))

Carrying(s, d) ==
  read[s] # -1 => /\ Sent(d, s) <= Len(Value[s])
                  /\ \A k \in 1 .. Len(Left(s)) : Left(s)[k] = Value[s][d[s] + k]

\* Nobody has used a stream before it exists, or reads it before it is taken.
Untouched(s, d) ==
  /\ read[s] = -1 => Left(s) = <<>>
  /\ read[s] # 1 /\ ~(at[Main] # "none" /\ s = In(pc, 1)) => d[s] = 0

\* Main keeps the read end of every stream until it frees them.
Open(s) == read[s] # -1 => Main \in readers[s]

ReadFrom(p, k, d) ==
  IF (k = 1 /\ Fn(p) # "source") \/ (k = 2 /\ ReadsTwo(program[p])) THEN d[In(p, k)] ELSE 0
SentTo(p, k, d) == IF k = 1 \/ Fn(p) = "dup" THEN Sent(d, Out(p, k)) ELSE 0

AtStage(p, d) ==
  Stage(p, at[p], value[p], first[p], ReadFrom(p, 1, d), ReadFrom(p, 2, d), SentTo(p, 1, d), SentTo(p, 2, d))

\* A process that has closed an output has flushed it, and it holds the write
\* ends of the others.
Flushed(p) ==
  /\ at[p] = "exit" => \A s \in Outs(program[p]) : out[s] = <<>>
  /\ at[p] = "close2" => out[Out(p, 1)] = <<>>

Holds(p) ==
  at[p] # "exit" => \A s \in Outs(program[p]) : p \in writers[s] \/ (at[p] = "close2" /\ s = Out(p, 1))

Process(p, d) ==
  /\ at[p] = "none" => value[p] = 0 /\ first[p] = 0
  /\ at[p] # "none" => AtStage(p, d) /\ Flushed(p) /\ Holds(p)

\* The sink has what the stream carried so far.
SinkInv(d) ==
  /\ at[Main] # "none" =>
       /\ Len(output) = d[In(pc, 1)]
       /\ \A k \in 1 .. Len(output) : output[k] = Value[In(pc, 1)][k]
       /\ at[Main] = "exit" /\ Fn(pc) = "sink" => Len(output) = Len(Value[In(pc, 1)])
  /\ at[Main] = "none" /\ (\A i \in SinkCalls : result[i] # 0) => output = <<>>

Network(d) ==
  /\ d \in [Streams -> Nat]
  /\ \A s \in Streams : Carrying(s, d) /\ Untouched(s, d) /\ Open(s)
  /\ \A p \in Children : Process(p, d)
  /\ SinkInv(d)

-----------------------------------------------------------------------------
(* The running processes are apart.                                        *)

LEMMA RunningIs ==
  ASSUME IInv, NEW p \in Children, at[p] # "none"
  PROVE  /\ result[p] = 0 /\ IsLink(program[p]) /\ Wired(p) /\ Fn(p) # "free"
         /\ \A s \in Ins(program[p]) : s \in Streams /\ read[s] = 1
         /\ \A s \in Outs(program[p]) : s \in Streams /\ read[s] # -1 /\ s \in Made
<1>1. result[p] = 0 /\ IsLink(program[p]) /\ Fn(p) # "free"
  BY DEF IInv, PlaceInv, IsLink, Fn
<1>2. Wired(p)
  BY <1>1, WiredIs DEF IInv
<1>3. Ins(program[p]) \subseteq Streams /\ Outs(program[p]) \subseteq Streams
  BY CallIs DEF IInv, Shape
<1>4. \A s \in Ins(program[p]) : read[s] = 1
  BY <1>1, <1>3 DEF IInv, CallsInv
<1>5. \A s \in Outs(program[p]) : read[s] # -1
  BY <1>1, <1>3 DEF IInv, CallsInv
<1>6. \A s \in Outs(program[p]) : s \in Made
  BY DEF Made, Children
<1> QED
  BY <1>1, <1>2, <1>3, <1>4, <1>5, <1>6

LEMMA Apart ==
  ASSUME IInv, NEW p \in Children, NEW q \in Children, p # q, at[p] # "none", at[q] # "none"
  PROVE  /\ \A s \in Ins(program[p]) : s \notin Ins(program[q])
         /\ \A s \in Outs(program[p]) : s \notin Outs(program[q])
<1>1. result[p] = 0 /\ result[q] = 0 /\ Fn(p) # "free" /\ Fn(q) # "free"
  BY RunningIs
<1>2. Ins(program[p]) \cap Ins(program[q]) = {}
  BY <1>1 DEF IInv, TakenOnce, Children
<1>3. Outs(program[p]) \cap Outs(program[q]) # {} => program[p] = program[q] /\ Ins(program[p]) # {}
  BY ProgramIs DEF IInv, ProperProgram, Children
<1> QED
  BY <1>2, <1>3

LEMMA ReadIsMade ==
  ASSUME IInv, NEW s \in Streams, read[s] # -1
  PROVE  s \in Made /\ Value[s] \in Seq(Int)
<1>1. s \in Made
  BY DEF IInv, CallsInv, Made, Children
<1> QED
  BY <1>1, ValueTyped DEF IInv

-----------------------------------------------------------------------------
(* The streams of the network.                                             *)

LEMMA CarryRead ==
  ASSUME Buffers, NEW s \in Streams, Fread(s), program' = program, read[s] # -1, Value[s] \in Seq(Int),
         NEW d \in [Streams -> Nat], Carrying(s, d), NEW e \in [Streams -> Nat], e[s] = d[s] + 1
  PROVE  /\ Carrying(s, e)' /\ Sent(e, s)' = Sent(d, s)
         /\ Head(Items(s)) = Value[s][d[s] + 1] /\ d[s] < Len(Value[s])
<1>1. /\ Left(s) # <<>> /\ Head(Items(s)) = Left(s)[1] /\ Left(s)' = Tail(Left(s)) /\ read' = read
  BY FreadStep
<1>2. Left(s) \in Seq(Int)
  BY LeftIs
<1>3. PICK q \in Seq(Int) : q = Left(s)
  BY <1>2
<1>4. /\ q # <<>> /\ Len(q) \in Nat /\ Len(q) >= 1 /\ Tail(q) \in Seq(Int) /\ Len(Tail(q)) = Len(q) - 1
      /\ \A k \in 1 .. Len(q) - 1 : Tail(q)[k] = q[k + 1]
  BY <1>1, <1>3, EmptySeq
<1>5. Left(s)' = Tail(q)
  BY <1>1, <1>3
<1>6. d[s] \in Nat /\ e[s] \in Nat /\ Len(Value[s]) \in Nat /\ Value' = Value
  BY SameNetwork
<1>7. d[s] + Len(q) <= Len(Value[s]) /\ \A k \in 1 .. Len(q) : q[k] = Value[s][d[s] + k]
  BY <1>3 DEF Carrying, Sent
<1>8. e[s] + Len(Tail(q)) = d[s] + Len(q)
  BY <1>4, <1>6
<1>9. ASSUME NEW k \in 1 .. Len(Tail(q)) PROVE Tail(q)[k] = Value[s][e[s] + k]
  <2>1. k \in 1 .. Len(q) - 1 /\ k + 1 \in 1 .. Len(q) /\ d[s] + (k + 1) = e[s] + k
    BY <1>4, <1>6
  <2>2. Tail(q)[k] = q[k + 1] /\ q[k + 1] = Value[s][d[s] + (k + 1)]
    BY <1>4, <1>7, <2>1
  <2> QED
    BY <2>1, <2>2
<1>10. Carrying(s, e)'
  BY <1>1, <1>5, <1>6, <1>7, <1>8, <1>9 DEF Carrying, Sent
<1>11. Sent(e, s)' = Sent(d, s)
  BY <1>3, <1>5, <1>8 DEF Sent
<1>12. q[1] = Value[s][d[s] + 1] /\ d[s] < Len(Value[s])
  BY <1>4, <1>6, <1>7
<1> QED
  BY <1>1, <1>3, <1>10, <1>11, <1>12

LEMMA CarryWrite ==
  ASSUME Buffers, NEW s \in Streams, NEW v \in Int, Fwrite(s, v), program' = program, Value[s] \in Seq(Int),
         NEW d \in [Streams -> Nat], Carrying(s, d), Follows(v, Value[s], Sent(d, s))
  PROVE  Carrying(s, d)' /\ Sent(d, s)' = Sent(d, s) + 1
<1>1. Left(s)' = Append(Left(s), v) /\ read' = read
  BY FwriteStep
<1>2. PICK q \in Seq(Int) : q = Left(s)
  BY LeftIs
<1>3. /\ Left(s)' = Append(q, v) /\ Len(q) \in Nat /\ Len(Append(q, v)) = Len(q) + 1
      /\ \A k \in 1 .. Len(q) : Append(q, v)[k] = q[k]
      /\ Append(q, v)[Len(q) + 1] = v
  BY <1>1, <1>2
<1>4. d[s] \in Nat /\ Len(Value[s]) \in Nat /\ Value' = Value
  BY SameNetwork
<1>5. d[s] + Len(q) < Len(Value[s]) /\ v = Value[s][d[s] + Len(q) + 1]
  BY <1>2 DEF Follows, Sent
<1>6. Sent(d, s)' = d[s] + Len(q) + 1
  BY <1>3, <1>4 DEF Sent
<1>7. ASSUME NEW k \in 1 .. Len(q) + 1, read[s] # -1 PROVE Append(q, v)[k] = Value[s][d[s] + k]
  <2>1. CASE k \in 1 .. Len(q)
    BY <1>2, <1>3, <1>7, <2>1 DEF Carrying
  <2>2. CASE k = Len(q) + 1
    <3>1. d[s] + Len(q) + 1 = d[s] + k
      BY <1>3, <1>4, <2>2
    <3> QED
      BY <1>3, <1>5, <2>2, <3>1
  <2> QED
    BY <1>3, <2>1, <2>2
<1>8. Carrying(s, d)'
  <2>1. Sent(d, s)' <= Len(Value[s])
    BY <1>3, <1>4, <1>5, <1>6
  <2> QED
    BY <1>1, <1>3, <1>4, <1>7, <2>1 DEF Carrying
<1> QED
  BY <1>2, <1>6, <1>8 DEF Sent

LEMMA CarrySame ==
  ASSUME NEW s, Left(s)' = Left(s), read' = read, program' = program, NEW d, Carrying(s, d),
         NEW e, e[s] = d[s]
  PROVE  Carrying(s, e)' /\ Sent(e, s)' = Sent(d, s)
BY SameNetwork DEF Carrying, Sent

-----------------------------------------------------------------------------
(* A step of child p touches only what belongs to p.                       *)

ChildMove(p, d, e) ==
  /\ ChildStep(p)
  /\ e \in [Streams -> Nat]
  /\ \A s \in Streams : Carrying(s, e)'
  /\ \A s \in Streams : s \notin Ins(program[p]) => e[s] = d[s]
  /\ \A s \in Streams : s \notin Outs(program[p]) => Sent(e, s)' = Sent(d, s) /\ out'[s] = out[s]
  /\ \A s \in Streams : readers[s] \ {p} \subseteq readers'[s] /\ writers[s] \ {p} \subseteq writers'[s]
  /\ \A q \in Children : q # p => first'[q] = first[q]
  /\ Process(p, e)'

LEMMA ReadFromIs ==
  ASSUME NEW p, Wired(p), NEW d \in [Streams -> Nat], Buffers
  PROVE  /\ ReadFrom(p, 1, d) \in Nat /\ ReadFrom(p, 2, d) \in Nat
         /\ SentTo(p, 1, d) \in Nat /\ SentTo(p, 2, d) \in Nat
         /\ Fn(p) # "source" => ReadFrom(p, 1, d) = d[In(p, 1)]
         /\ ReadsTwo(program[p]) => ReadFrom(p, 2, d) = d[In(p, 2)]
         /\ SentTo(p, 1, d) = Sent(d, Out(p, 1))
         /\ Fn(p) = "dup" => SentTo(p, 2, d) = Sent(d, Out(p, 2))
<1>1. \A s \in Streams : Sent(d, s) \in Nat
  BY LeftIs DEF Sent
<1> QED
  BY <1>1 DEF Wired, ReadFrom, SentTo, ReadsTwo, Fn

\* Being at a stage in the next state.
LEMMA StageNext ==
  ASSUME program' = program, NEW p, NEW l, NEW v, NEW f, NEW m, NEW n, NEW i, NEW j,
         Stage(p, l, v, f, m, n, i, j), at'[p] = l, value'[p] = v, first'[p] = f, NEW e,
         ReadFrom(p, 1, e) = m, ReadFrom(p, 2, e) = n, SentTo(p, 1, e)' = i, SentTo(p, 2, e)' = j
  PROVE  AtStage(p, e)'
<1>1. Value' = Value
  BY SameNetwork
<1>2. ReadFrom(p, 1, e)' = m /\ ReadFrom(p, 2, e)' = n
  BY DEF ReadFrom, Fn, In
<1>3. Stage(p, l, v, f, m, n, i, j)'
  BY <1>1 DEF Stage, Writes, Reads, Due, Follows, Fn, In, Out
<1> QED
  BY <1>2, <1>3 DEF AtStage

\* A process whose streams, place and item stay as they were is where it was.
LEMMA ProcessSame ==
  ASSUME IInv, NEW q \in Children, program' = program,
         at'[q] = at[q], value'[q] = value[q], first'[q] = first[q],
         NEW d, Process(q, d), NEW e,
         \A s \in Ins(program[q]) : e[s] = d[s],
         \A s \in Outs(program[q]) : Sent(e, s)' = Sent(d, s) /\ out'[s] = out[s],
         \A s \in Outs(program[q]) : q \in writers[s] => q \in writers'[s]
  PROVE  Process(q, e)'
<1>1. CASE at[q] = "none"
  BY <1>1 DEF Process
<1>2. CASE at[q] # "none"
  <2>1. Wired(q)
    BY <1>2, RunningIs
  <2>2. ReadFrom(q, 1, e) = ReadFrom(q, 1, d) /\ ReadFrom(q, 2, e) = ReadFrom(q, 2, d)
    BY <2>1 DEF ReadFrom, Wired
  <2>3. SentTo(q, 1, e)' = SentTo(q, 1, d)
    BY <2>1 DEF SentTo, Wired, Out, Fn
  <2>4. SentTo(q, 2, e)' = SentTo(q, 2, d)
    BY <2>1 DEF SentTo, Wired, Out, Fn
  <2>5. AtStage(q, d) /\ Flushed(q) /\ Holds(q)
    BY <1>2 DEF Process
  <2>6. AtStage(q, e)'
    <3>1. PICK l, v, f, m, n, i, j :
            /\ l = at[q] /\ v = value[q] /\ f = first[q] /\ m = ReadFrom(q, 1, d) /\ n = ReadFrom(q, 2, d)
            /\ i = SentTo(q, 1, d) /\ j = SentTo(q, 2, d)
      OBVIOUS
    <3>2. Stage(q, l, v, f, m, n, i, j)
      BY <2>5, <3>1 DEF AtStage
    <3>3. /\ at'[q] = l /\ value'[q] = v /\ first'[q] = f
          /\ ReadFrom(q, 1, e) = m /\ ReadFrom(q, 2, e) = n /\ SentTo(q, 1, e)' = i /\ SentTo(q, 2, e)' = j
      BY <2>2, <2>3, <2>4, <3>1
    <3> QED
      BY <3>2, <3>3, StageNext
  <2>7. Flushed(q)'
    BY <2>1, <2>5 DEF Flushed, Wired, Out
  <2>8. Holds(q)'
    BY <2>5 DEF Holds, Out
  <2> QED
    BY <1>2, <2>6, <2>7, <2>8 DEF Process
<1> QED
  BY <1>1, <1>2

LEMMA ChildNet ==
  ASSUME IInv, Building, NEW d, Network(d), NEW p \in Children, NEW e, ChildMove(p, d, e)
  PROVE  Network(e)'
<1>1. /\ at[p] # "none" /\ UNCHANGED <<program, pc, result, read, output>> /\ ChildStep(p)
      /\ Children' = Children /\ p \in Procs /\ p # Main /\ Main \in Procs /\ Children \subseteq Procs
  BY CallIs, ProgramIs DEF IInv, ChildMove, ChildStep, Children
<1>2. \A q \in Procs : q # p => at'[q] = at[q]
  BY <1>1, BuffersIs DEF ChildStep
<1>3. /\ \A s \in Ins(program[p]) : s \in Streams /\ read[s] = 1
      /\ \A s \in Outs(program[p]) : s \in Streams /\ read[s] # -1
  BY <1>1, RunningIs
<1>4. ASSUME NEW s \in Streams PROVE Carrying(s, e)' /\ Untouched(s, e)' /\ Open(s)'
  <2>1. Carrying(s, e)'
    BY DEF ChildMove
  <2>2. Open(s)'
    BY <1>1 DEF ChildMove, Network, Open
  <2>3. read[s] = -1 => Left(s)' = <<>>
    <3> SUFFICES ASSUME read[s] = -1 PROVE Left(s)' = <<>>
      OBVIOUS
    <3>1. s \notin Ins(program[p]) /\ s \notin Outs(program[p])
      BY <1>3
    <3>2. e[s] = d[s] /\ Sent(e, s)' = Sent(d, s) /\ d[s] \in Nat
      BY <3>1 DEF ChildMove, Network
    <3>3. Left(s) = <<>>
      BY DEF Network, Untouched
    <3>4. Len(Left(s)) = 0
      BY <3>3
    <3>5. Buffers'
      BY <1>1 DEF ChildStep
    <3>6. Left(s)' \in Seq(Int) /\ Len(Left(s)') \in Nat
      BY <3>5 , LeftIs DEF Buffers, Left
    <3>7. Len(Left(s)') = 0
      BY <3>2, <3>4, <3>6 DEF Sent
    <3> QED
      BY <3>6, <3>7, EmptySeq
  <2>4. ASSUME read[s] # 1, ~(at[Main] # "none" /\ s = In(pc, 1)) PROVE e[s] = 0
    BY <1>3, <2>4 DEF ChildMove, Network, Untouched
  <2>5. Untouched(s, e)'
    BY <1>1, <1>2, <2>3, <2>4 DEF Untouched, In
  <2> QED
    BY <2>1, <2>2, <2>5
<1>5. ASSUME NEW q \in Children PROVE Process(q, e)'
  <2>1. CASE q = p
    BY <2>1 DEF ChildMove
  <2>2. CASE q # p
    <3>1. q \in Procs /\ at'[q] = at[q] /\ value'[q] = value[q] /\ first'[q] = first[q]
      BY <1>1, <1>2, <2>2 DEF ChildMove, ChildStep
    <3>2. Process(q, d)
      BY DEF Network
    <3>3. CASE at[q] = "none"
      BY <3>1, <3>2, <3>3 DEF Process
    <3>4. CASE at[q] # "none"
      <4>1. \A s \in Ins(program[q]) : s \in Streams /\ s \notin Ins(program[p])
        BY <1>1, <2>2, <3>4, Apart, RunningIs
      <4>2. \A s \in Outs(program[q]) : s \in Streams /\ s \notin Outs(program[p])
        BY <1>1, <2>2, <3>4, Apart, RunningIs
      <4>3. \A s \in Ins(program[q]) : e[s] = d[s]
        BY <4>1 DEF ChildMove
      <4>4. \A s \in Outs(program[q]) : Sent(e, s)' = Sent(d, s) /\ out'[s] = out[s]
        BY <4>2 DEF ChildMove
      <4>5. \A s \in Outs(program[q]) : q \in writers[s] => q \in writers'[s]
        BY <2>2, <4>2 DEF ChildMove
      <4> QED
        BY <1>1, <3>1, <3>2, <4>3, <4>4, <4>5, ProcessSame
    <3> QED
      BY <3>3, <3>4
  <2> QED
    BY <2>1, <2>2
<1>6. SinkInv(e)'
  <2>1. at'[Main] = at[Main] /\ Value' = Value /\ SinkCalls' = SinkCalls
    BY <1>1, <1>2, SameNetwork DEF SinkCalls, Fn
  <2>2. at[Main] # "none" => e[In(pc, 1)] = d[In(pc, 1)]
    <3> SUFFICES ASSUME at[Main] # "none" PROVE e[In(pc, 1)] = d[In(pc, 1)]
      OBVIOUS
    <3>1. pc \in Children /\ Fn(pc) \in {"sink", "head"} /\ Free(program[pc])
      BY DEF IInv, PlaceInv
    <3>2. In(pc, 1) \in Streams /\ read[In(pc, 1)] = 0
      BY <3>1, CallIs DEF IInv, Shape, In, Fn, Free
    <3> QED
      BY <1>3, <3>2 DEF ChildMove
  <2> QED
    BY <1>1, <2>1, <2>2 DEF Network, SinkInv, In, Fn
<1> QED
  BY <1>1, <1>4, <1>5, <1>6 DEF Network, ChildMove

-----------------------------------------------------------------------------
(* The steps of the children, with the network around them.                *)

LEMMA ReadBound ==
  ASSUME IInv, NEW d, Network(d), NEW s \in Streams, read[s] # -1
  PROVE  d[s] \in Nat /\ d[s] <= Len(Value[s])
<1>1. d[s] \in Nat /\ Len(Value[s]) \in Nat /\ Len(Left(s)) \in Nat
  BY ReadIsMade, LeftIs, BuffersIs DEF Network
<1>2. d[s] + Len(Left(s)) <= Len(Value[s])
  BY DEF Network, Carrying, Sent
<1> QED
  BY <1>1, <1>2

\* One more item has been read from stream s.
OneMore(s, d, e) ==
  e \in [Streams -> Nat] /\ e[s] = d[s] + 1 /\ \A t \in Streams : t # s => e[t] = d[t]

LEMMA OneMoreIs ==
  ASSUME NEW d \in [Streams -> Nat], NEW s \in Streams
  PROVE  \E e : OneMore(s, d, e)
<1>1. OneMore(s, d, [d EXCEPT ![s] = d[s] + 1])
  BY DEF OneMore
<1> QED
  BY <1>1

LEMMA ReadFacts ==
  ASSUME IInv, NEW d, Network(d), NEW p \in Children, at[p] # "none",
         NEW s \in Ins(program[p]), Fread(s), program' = program,
         NEW e, OneMore(s, d, e)
  PROVE  /\ \A t \in Streams : Carrying(t, e)' /\ Sent(e, t)' = Sent(d, t)
         /\ Head(Items(s)) = Value[s][d[s] + 1] /\ d[s] < Len(Value[s])
         /\ SentTo(p, 1, e)' = SentTo(p, 1, d) /\ SentTo(p, 2, e)' = SentTo(p, 2, d)
         /\ UNCHANGED <<read, readers, writers, out>>
<1>1. s \in Streams /\ read[s] # -1 /\ Wired(p) /\ Buffers
  BY RunningIs, BuffersIs
<1>2. d \in [Streams -> Nat] /\ \A t \in Streams : Carrying(t, d)
  BY DEF Network
<1>3. e \in [Streams -> Nat] /\ e[s] = d[s] + 1 /\ \A t \in Streams : t # s => e[t] = d[t]
  BY DEF OneMore
<1>4. Value[s] \in Seq(Int)
  BY <1>1, ReadIsMade
<1>5. /\ Carrying(s, e)' /\ Sent(e, s)' = Sent(d, s)
      /\ Head(Items(s)) = Value[s][d[s] + 1] /\ d[s] < Len(Value[s])
  BY <1>1, <1>2, <1>3, <1>4, CarryRead
<1>6. UNCHANGED <<read, readers, writers, out>> /\ \A t \in Streams : t # s => Left(t)' = Left(t)
  BY <1>1, FreadStep
<1>7. ASSUME NEW t \in Streams, t # s PROVE Carrying(t, e)' /\ Sent(e, t)' = Sent(d, t)
  BY <1>2, <1>3, <1>6, <1>7, CarrySame
<1>8. \A t \in Streams : Carrying(t, e)' /\ Sent(e, t)' = Sent(d, t)
  BY <1>5, <1>7
<1>9. SentTo(p, 1, e)' = SentTo(p, 1, d)
  BY <1>1, <1>8 DEF SentTo, Wired, Out, Fn
<1>10. SentTo(p, 2, e)' = SentTo(p, 2, d)
  BY <1>1, <1>8 DEF SentTo, Wired, Out, Fn
<1> QED
  BY <1>5, <1>6, <1>8, <1>9, <1>10

LEMMA ReadMove ==
  ASSUME IInv, NEW d, Network(d), NEW p \in Children, ChildStep(p), at[p] \in {"in1", "in2"},
         NEW s \in Ins(program[p]), Fread(s),
         NEW e, OneMore(s, d, e),
         \A q \in Children : q # p => first'[q] = first[q],
         at'[p] \in Working, AtStage(p, e)'
  PROVE  ChildMove(p, d, e)
<1>1. program' = program /\ at[p] # "none"
  BY DEF ChildStep
<1>2. e \in [Streams -> Nat] /\ \A t \in Streams : t # s => e[t] = d[t]
  BY DEF OneMore
<1>3. /\ \A t \in Streams : Carrying(t, e)' /\ Sent(e, t)' = Sent(d, t)
      /\ UNCHANGED <<read, readers, writers, out>>
  BY <1>1, ReadFacts
<1>4. Process(p, d)
  BY DEF Network
<1>5. Flushed(p)' /\ Holds(p)'
  BY <1>1, <1>3, <1>4 DEF Process, Flushed, Holds, Working
<1>6. Process(p, e)'
  BY <1>5 DEF Process, Working
<1> QED
  BY <1>3, <1>6, <1>2 DEF ChildMove

LEMMA ReadFirstNet ==
  ASSUME IInv, NEW d, Network(d), NEW p \in Children, ReadFirst(p)
  PROVE  \E e : ChildMove(p, d, e)
<1>1. at[p] = "in1" /\ at[p] # "none" /\ ChildStep(p) /\ program' = program
  BY ReadFirstStep DEF ReadFirst
<1>2. Fn(p) # "source" /\ Wired(p) /\ Buffers
  BY <1>1, RunningIs, BuffersIs DEF IInv, PlaceInv
<1>3. PICK s \in Ins(program[p]) : s = In(p, 1)
  BY <1>2 DEF Wired
<1>4. s \in Streams /\ read[s] # -1 /\ Fread(s)
  BY <1>1, <1>3, RunningIs DEF ReadFirst
<1>5. PICK e : OneMore(s, d, e)
  BY <1>4, OneMoreIs DEF Network
<1>6. e \in [Streams -> Nat] /\ e[s] = d[s] + 1 /\ \A t \in Streams : t # s => e[t] = d[t]
  BY <1>5 DEF OneMore
<1>7. /\ Head(Items(s)) = Value[s][d[s] + 1] /\ d[s] < Len(Value[s])
      /\ SentTo(p, 1, e)' = SentTo(p, 1, d) /\ SentTo(p, 2, e)' = SentTo(p, 2, d)
  BY <1>1, <1>4, <1>5, ReadFacts
<1>8. PICK v, f, u : v = value[p] /\ f = first[p] /\ u = Value[s][d[s] + 1] /\ u = Head(Items(s))
  BY <1>7
<1>9. PICK m \in Nat, n \in Nat, i \in Nat, j \in Nat :
        m = ReadFrom(p, 1, d) /\ n = ReadFrom(p, 2, d) /\ i = SentTo(p, 1, d) /\ j = SentTo(p, 2, d)
  BY <1>2, ReadFromIs DEF Network
<1>10. /\ m = d[s] /\ ReadFrom(p, 1, e) = m + 1
       /\ ReadFrom(p, 2, e) = n
       /\ ReadsTwo(program[p]) => n <= Len(Value[In(p, 2)])
  <2>1. m = d[s] /\ ReadFrom(p, 1, e) = m + 1
    BY <1>2, <1>3, <1>6, <1>9 DEF ReadFrom
  <2>2. CASE ReadsTwo(program[p])
    <3>1. In(p, 2) \in Streams /\ In(p, 2) # s /\ read[In(p, 2)] # -1
      BY <1>1, <1>2, <1>3, <2>2, RunningIs DEF Wired
    <3>2. ReadFrom(p, 2, e) = e[In(p, 2)] /\ n = d[In(p, 2)]
      BY <1>9, <2>2 DEF ReadFrom
    <3> QED
      BY <1>6, <2>1, <3>1, <3>2, ReadBound
  <2>3. CASE ~ReadsTwo(program[p])
    BY <1>9, <2>1, <2>3 DEF ReadFrom
  <2> QED
    BY <2>1, <2>2, <2>3
<1>11. Stage(p, "in1", v, f, m, n, i, j)
  BY <1>1, <1>8, <1>9 DEF Network, Process, AtStage
<1>12. u = Value[In(p, 1)][m + 1] /\ m < Len(Value[In(p, 1)])
  BY <1>3, <1>7, <1>8, <1>10
<1>13. /\ Fn(p) \in {"and_streams", "filter_streams"} => Stage(p, "in2", v, u, m + 1, n, i, j)
       /\ Fn(p) = "divisible_by" =>
            Stage(p, "out1", IF u % program[p].arg[1] = 0 THEN 1 ELSE 0, f, m + 1, n, i, j)
       /\ Fn(p) \in {"function", "function_single"} =>
            Stage(p, "out1", (u + program[p].arg[1]) % 256, f, m + 1, n, i, j)
       /\ Fn(p) = "dup" => Stage(p, "out1", u, f, m + 1, n, i, j)
  BY <1>2, <1>10, <1>11, <1>12, StageFirst
<1>14. \E l, w, g : /\ at'[p] = l /\ value'[p] = w /\ first'[p] = g /\ l \in Working
                    /\ Stage(p, l, w, g, m + 1, n, i, j)
                    /\ \A q \in Children : q # p => first'[q] = first[q]
  <2>1. p \in Procs /\ Children \subseteq Procs /\ u = Head(Items(In(p, 1)))
    BY <1>3, <1>8, CallIs, ProgramIs DEF IInv
  <2>2. CASE Fn(p) \in {"and_streams", "filter_streams"}
    BY <1>8, <1>13, <2>1, <2>2, BuffersIs DEF ReadFirst, Goto, Working
  <2>3. CASE Fn(p) = "divisible_by"
    BY <1>8, <1>13, <2>1, <2>3, BuffersIs DEF ReadFirst, Goto, Working
  <2>4. CASE Fn(p) \in {"function", "function_single"}
    BY <1>8, <1>13, <2>1, <2>4, BuffersIs DEF ReadFirst, Goto, Working
  <2>5. CASE Fn(p) = "dup"
    BY <1>8, <1>13, <2>1, <2>5, BuffersIs DEF ReadFirst, Goto, Working
  <2> QED
    BY <1>2, <2>2, <2>3, <2>4, <2>5 DEF Wired, Functions
<1>15. AtStage(p, e)' /\ at'[p] \in Working /\ \A q \in Children : q # p => first'[q] = first[q]
  <2>1. PICK l, w, g : /\ at'[p] = l /\ value'[p] = w /\ first'[p] = g /\ l \in Working
                       /\ Stage(p, l, w, g, m + 1, n, i, j)
                       /\ \A q \in Children : q # p => first'[q] = first[q]
    BY <1>14
  <2>2. PICK k : k = m + 1
    OBVIOUS
  <2>3. ReadFrom(p, 1, e) = k /\ ReadFrom(p, 2, e) = n /\ SentTo(p, 1, e)' = i /\ SentTo(p, 2, e)' = j
    BY <1>7, <1>9, <1>10, <2>2
  <2>4. Stage(p, l, w, g, k, n, i, j)
    BY <2>1, <2>2
  <2>5. AtStage(p, e)'
    BY <1>1, <2>1, <2>3, <2>4, StageNext
  <2> QED
    BY <2>1, <2>5
<1>16. ChildMove(p, d, e)
  BY <1>1, <1>4, <1>5, <1>15, ReadMove
<1> QED
  BY <1>16

LEMMA ReadSecondNet ==
  ASSUME IInv, NEW d, Network(d), NEW p \in Children, ReadSecond(p)
  PROVE  \E e : ChildMove(p, d, e)
<1>1. at[p] = "in2" /\ at[p] # "none" /\ ChildStep(p) /\ program' = program
  BY ReadSecondStep DEF ReadSecond
<1>2. Fn(p) # "source" /\ ReadsTwo(program[p]) /\ Wired(p) /\ Buffers
  BY <1>1, RunningIs, BuffersIs DEF IInv, PlaceInv, ReadsTwo, Fn
<1>3. PICK s \in Ins(program[p]) : s = In(p, 2)
  BY <1>2 DEF Wired
<1>4. s \in Streams /\ read[s] # -1 /\ Fread(s)
  BY <1>1, <1>3, RunningIs DEF ReadSecond
<1>5. PICK e : OneMore(s, d, e)
  BY <1>4, OneMoreIs DEF Network
<1>6. e \in [Streams -> Nat] /\ e[s] = d[s] + 1 /\ \A t \in Streams : t # s => e[t] = d[t]
  BY <1>5 DEF OneMore
<1>7. /\ Head(Items(s)) = Value[s][d[s] + 1] /\ d[s] < Len(Value[s])
      /\ SentTo(p, 1, e)' = SentTo(p, 1, d) /\ SentTo(p, 2, e)' = SentTo(p, 2, d)
  BY <1>1, <1>4, <1>5, ReadFacts
<1>8. PICK v, f, u : v = value[p] /\ f = first[p] /\ u = Value[s][d[s] + 1] /\ u = Head(Items(s))
  BY <1>7
<1>9. PICK m \in Nat, n \in Nat, i \in Nat, j \in Nat :
        m = ReadFrom(p, 1, d) /\ n = ReadFrom(p, 2, d) /\ i = SentTo(p, 1, d) /\ j = SentTo(p, 2, d)
  BY <1>2, ReadFromIs DEF Network
<1>10. /\ n = d[s] /\ ReadFrom(p, 2, e) = n + 1
       /\ ReadFrom(p, 1, e) = m /\ m <= Len(Value[In(p, 1)])
  <2>1. n = d[s] /\ ReadFrom(p, 2, e) = n + 1
    BY <1>2, <1>3, <1>6, <1>9 DEF ReadFrom
  <2>2. In(p, 1) \in Streams /\ In(p, 1) # s /\ read[In(p, 1)] # -1
    BY <1>1, <1>2, <1>3, RunningIs DEF Wired
  <2>3. ReadFrom(p, 1, e) = e[In(p, 1)] /\ m = d[In(p, 1)]
    BY <1>2, <1>9 DEF ReadFrom
  <2> QED
    BY <1>6, <2>1, <2>2, <2>3, ReadBound
<1>11. Stage(p, "in2", v, f, m, n, i, j)
  BY <1>1, <1>8, <1>9 DEF Network, Process, AtStage
<1>12. u = Value[In(p, 2)][n + 1] /\ n < Len(Value[In(p, 2)])
  BY <1>3, <1>7, <1>8, <1>10
<1>13. /\ Fn(p) = "and_streams" => Stage(p, "out1", IF f # 0 /\ u # 0 THEN 1 ELSE 0, f, m, n + 1, i, j)
       /\ Fn(p) = "filter_streams" => Stage(p, IF f # 0 THEN "out1" ELSE "in1", u, f, m, n + 1, i, j)
       /\ Fn(p) = "function" => Stage(p, "out1", (u + program[p].arg[1]) % 256, f, m, n + 1, i, j)
  BY <1>2, <1>10, <1>11, <1>12, StageSecond
<1>14. \E l, w : /\ at'[p] = l /\ value'[p] = w /\ first'[p] = f /\ l \in Working
                 /\ Stage(p, l, w, f, m, n + 1, i, j)
  <2>1. p \in Procs /\ u = Head(Items(In(p, 2))) /\ first' = first
    BY <1>3, <1>8, CallIs DEF IInv, ReadSecond
  <2>2. CASE Fn(p) = "and_streams"
    BY <1>8, <1>13, <2>1, <2>2, BuffersIs DEF ReadSecond, Goto, Working
  <2>3. CASE Fn(p) = "filter_streams"
    BY <1>8, <1>13, <2>1, <2>3, BuffersIs DEF ReadSecond, Goto, Working
  <2>4. CASE Fn(p) = "function"
    BY <1>8, <1>13, <2>1, <2>4, BuffersIs DEF ReadSecond, Goto, Working
  <2> QED
    BY <1>2, <2>2, <2>3, <2>4 DEF ReadsTwo, Fn
<1>15. AtStage(p, e)' /\ at'[p] \in Working
  <2>1. PICK l, w : /\ at'[p] = l /\ value'[p] = w /\ first'[p] = f /\ l \in Working
                    /\ Stage(p, l, w, f, m, n + 1, i, j)
    BY <1>14
  <2>2. PICK k : k = n + 1
    OBVIOUS
  <2>3. ReadFrom(p, 1, e) = m /\ ReadFrom(p, 2, e) = k /\ SentTo(p, 1, e)' = i /\ SentTo(p, 2, e)' = j
    BY <1>7, <1>9, <1>10, <2>2
  <2>4. Stage(p, l, w, f, m, k, i, j)
    BY <2>1, <2>2
  <2>5. AtStage(p, e)'
    BY <1>1, <2>1, <2>3, <2>4, StageNext
  <2> QED
    BY <2>1, <2>5
<1>16. \A q \in Children : q # p => first'[q] = first[q]
  BY DEF ReadSecond
<1>17. ChildMove(p, d, e)
  BY <1>1, <1>4, <1>5, <1>15, <1>16, ReadMove
<1> QED
  BY <1>17

\* A reader that finds the end of a stream has read all that it carries.
LEMMA EndOf ==
  ASSUME IInv, NEW d, Network(d), NEW s \in Streams, read[s] # -1, AtEnd(s)
  PROVE  d[s] = Len(Value[s])
<1>1. PICK k \in Children : result[k] = 0 /\ s \in Outs(program[k])
  BY DEF IInv, CallsInv
<1>2. IsLink(program[k])
  BY <1>1, CallIs DEF IInv, Shape
<1>3. at[k] # "none"
  BY <1>1, <1>2 DEF IInv, PlaceInv
<1>4. Wired(k) /\ Buffers
  BY <1>3, RunningIs, BuffersIs
<1>5. AtStage(k, d) /\ Flushed(k) /\ Holds(k)
  BY <1>3 DEF Network, Process
<1>6. writers[s] = {} /\ Items(s) = <<>>
  BY DEF AtEnd
<1>7. at[k] = "exit" \/ (at[k] = "close2" /\ s = Out(k, 1))
  BY <1>1, <1>5, <1>6 DEF Holds
<1>8. out[s] = <<>>
  BY <1>1, <1>5, <1>7 DEF Flushed
<1>9. Left(s) = <<>>
  BY <1>4, <1>6, <1>8, LeftIs, ConcatEmptySeq
<1>10. Sent(d, s) = d[s]
  <2>1. Len(Left(s)) = 0 /\ d[s] \in Nat
    BY <1>9 DEF Network
  <2> QED
    BY <2>1 DEF Sent
<1>11. at[k] \notin Working
  BY <1>7 DEF Working
<1>12. /\ SentTo(k, 1, d) = Len(Value[Out(k, 1)])
       /\ Fn(k) = "dup" => SentTo(k, 2, d) = Len(Value[Out(k, 2)])
  BY <1>5, <1>11 DEF AtStage, Stage
<1>13. CASE s = Out(k, 1)
  BY <1>10, <1>12, <1>13 DEF SentTo
<1>14. CASE s # Out(k, 1)
  <2>1. Fn(k) = "dup" /\ s = Out(k, 2)
    BY <1>1, <1>4, <1>14 DEF Wired
  <2> QED
    BY <1>10, <1>12, <2>1 DEF SentTo
<1> QED
  BY <1>13, <1>14

\* A step that reads nothing and leaves what is in the streams.
LEMMA StillFacts ==
  ASSUME IInv, NEW d, Network(d), program' = program, read' = read, NEW p \in Children, Wired(p),
         \A s \in Streams : Left(s)' = Left(s)
  PROVE  /\ \A s \in Streams : Carrying(s, d)' /\ Sent(d, s)' = Sent(d, s)
         /\ SentTo(p, 1, d)' = SentTo(p, 1, d) /\ SentTo(p, 2, d)' = SentTo(p, 2, d)
<1>1. \A s \in Streams : Carrying(s, d)' /\ Sent(d, s)' = Sent(d, s)
  BY CarrySame DEF Network
<1>2. SentTo(p, 1, d)' = SentTo(p, 1, d) /\ SentTo(p, 2, d)' = SentTo(p, 2, d)
  BY <1>1 DEF SentTo, Wired, Out, Fn
<1> QED
  BY <1>1, <1>2

LEMMA ReadEndNet ==
  ASSUME IInv, NEW d, Network(d), NEW p \in Children, ReadEnd(p)
  PROVE  ChildMove(p, d, d)
<1>1. /\ at[p] \in {"in1", "in2"} /\ at[p] # "none" /\ ChildStep(p) /\ program' = program
      /\ UNCHANGED <<read, readers, writers, pipe, out, in, value>>
  BY ReadEndStep DEF ReadEnd, netVars, ChildStep
<1>2. at[p] = "in2" => ReadsTwo(program[p])
  BY DEF IInv, PlaceInv
<1>3. Fn(p) # "source" /\ Wired(p) /\ d \in [Streams -> Nat] /\ p \in Procs
  BY <1>1, RunningIs, CallIs DEF IInv, PlaceInv, ReadsTwo, Fn, Network
<1>4. \A s \in Streams : Left(s)' = Left(s)
  BY <1>1 DEF Left
<1>5. /\ \A s \in Streams : Carrying(s, d)' /\ Sent(d, s)' = Sent(d, s)
      /\ SentTo(p, 1, d)' = SentTo(p, 1, d) /\ SentTo(p, 2, d)' = SentTo(p, 2, d)
  BY <1>1, <1>3, <1>4, StillFacts
<1>6. PICK v, f : v = value[p] /\ f = first[p]
  OBVIOUS
<1>7. PICK m \in Nat, n \in Nat, i \in Nat, j \in Nat :
        m = ReadFrom(p, 1, d) /\ n = ReadFrom(p, 2, d) /\ i = SentTo(p, 1, d) /\ j = SentTo(p, 2, d)
  BY <1>3, ReadFromIs, BuffersIs
<1>8. /\ m = d[In(p, 1)] /\ In(p, 1) \in Streams /\ read[In(p, 1)] # -1
      /\ ReadsTwo(program[p]) => n = d[In(p, 2)] /\ In(p, 2) \in Streams /\ read[In(p, 2)] # -1
  <2>1. /\ In(p, 1) \in Streams /\ In(p, 1) \in Ins(program[p])
        /\ ReadsTwo(program[p]) => In(p, 2) \in Streams /\ In(p, 2) \in Ins(program[p])
    BY <1>3 DEF Wired
  <2>2. \A s \in Ins(program[p]) : read[s] = 1
    BY <1>1, RunningIs
  <2>3. m = d[In(p, 1)] /\ (ReadsTwo(program[p]) => n = d[In(p, 2)])
    BY <1>3, <1>7 DEF ReadFrom
  <2> QED
    BY <2>1, <2>2, <2>3
<1>9. /\ m <= Len(Value[In(p, 1)])
      /\ ReadsTwo(program[p]) => n <= Len(Value[In(p, 2)])
  BY <1>8, ReadBound
<1>10. Stage(p, at[p], v, f, m, n, i, j)
  BY <1>1, <1>6, <1>7 DEF Network, Process, AtStage
<1>11. \E l, g : /\ at'[p] = l /\ first'[p] = g /\ l \in {"close1", "in1"} /\ Stage(p, l, v, g, m, n, i, j)
  <2>1. CASE at[p] = "in1"
    <3>1. AtEnd(In(p, 1)) /\ at'[p] = "close1" /\ first'[p] = f
      BY <1>3, <1>6, <2>1, BuffersIs DEF ReadEnd, Goto
    <3>2. m = Len(Value[In(p, 1)])
      BY <1>8, <3>1, EndOf
    <3>3. Stage(p, "close1", v, f, m, n, i, j)
      BY <1>3, <1>9, <1>10, <2>1, <3>2, StageEndFirst
    <3> QED
      BY <3>1, <3>3
  <2>2. CASE at[p] = "in2"
    <3>1. AtEnd(In(p, 2)) /\ ReadsTwo(program[p])
          /\ (IF Fn(p) = "function" THEN at'[p] = "in1" /\ first'[p] = 1 ELSE at'[p] = "close1" /\ first'[p] = f)
      BY <1>2, <1>3, <1>6, <2>2, BuffersIs DEF ReadEnd, Goto
    <3>2. n = Len(Value[In(p, 2)])
      BY <1>8, <3>1, EndOf
    <3>3. /\ Fn(p) = "function" => Stage(p, "in1", v, 1, m, n, i, j)
          /\ Fn(p) # "function" => Stage(p, "close1", v, f, m, n, i, j)
      BY <1>3, <1>9, <1>10, <2>2, <3>1, <3>2, StageEndSecond
    <3> QED
      BY <3>1, <3>3
  <2> QED
    BY <1>1, <2>1, <2>2
<1>12. AtStage(p, d)' /\ at'[p] \in {"close1", "in1"}
  <2>1. PICK l, g : /\ at'[p] = l /\ first'[p] = g /\ l \in {"close1", "in1"} /\ Stage(p, l, v, g, m, n, i, j)
    BY <1>11
  <2>2. /\ ReadFrom(p, 1, d) = m /\ ReadFrom(p, 2, d) = n /\ SentTo(p, 1, d)' = i /\ SentTo(p, 2, d)' = j
        /\ value'[p] = v
    BY <1>1, <1>5, <1>6, <1>7
  <2>3. AtStage(p, d)'
    BY <1>1, <2>1, <2>2, StageNext
  <2> QED
    BY <2>1, <2>3
<1>13. Process(p, d)
  BY DEF Network
<1>14. Process(p, d)'
  BY <1>1, <1>12, <1>13 DEF Process, Flushed, Holds
<1>15. \A q \in Children : q # p => first'[q] = first[q]
  BY BuffersIs, ProgramIs DEF ReadEnd, IInv
<1> QED
  BY <1>1, <1>3, <1>5, <1>14, <1>15 DEF ChildMove

\* A write of the item that comes next.
LEMMA WriteFacts ==
  ASSUME IInv, NEW d, Network(d), NEW p \in Children, at[p] # "none",
         NEW s \in Outs(program[p]), NEW v \in Int, Fwrite(s, v), program' = program,
         Follows(v, Value[s], Sent(d, s))
  PROVE  /\ \A t \in Streams : Carrying(t, d)'
         /\ Sent(d, s)' = Sent(d, s) + 1
         /\ \A t \in Streams : t # s => Sent(d, t)' = Sent(d, t) /\ out'[t] = out[t]
         /\ UNCHANGED <<read, readers, writers>>
<1>1. s \in Streams /\ read[s] # -1 /\ Buffers
  BY RunningIs, BuffersIs
<1>2. d \in [Streams -> Nat] /\ \A t \in Streams : Carrying(t, d)
  BY DEF Network
<1>3. Value[s] \in Seq(Int)
  BY <1>1, ReadIsMade
<1>4. Carrying(s, d)' /\ Sent(d, s)' = Sent(d, s) + 1
  BY <1>1, <1>2, <1>3, CarryWrite
<1>5. UNCHANGED <<read, readers, writers>> /\ \A t \in Streams : t # s => Left(t)' = Left(t) /\ out'[t] = out[t]
  BY <1>1, FwriteStep
<1>6. ASSUME NEW t \in Streams, t # s PROVE Carrying(t, d)' /\ Sent(d, t)' = Sent(d, t)
  BY <1>2, <1>5, <1>6, CarrySame
<1> QED
  BY <1>4, <1>5, <1>6

LEMMA WriteMove ==
  ASSUME IInv, NEW d, Network(d), NEW p \in Children, ChildStep(p), at[p] \in Working,
         NEW s \in Outs(program[p]), NEW v \in Int, Fwrite(s, v), Follows(v, Value[s], Sent(d, s)),
         first' = first, at'[p] \in Working, AtStage(p, d)'
  PROVE  ChildMove(p, d, d)
<1>1. program' = program /\ at[p] # "none" /\ d \in [Streams -> Nat]
  BY DEF ChildStep, Network
<1>2. /\ \A t \in Streams : Carrying(t, d)'
      /\ \A t \in Streams : t # s => Sent(d, t)' = Sent(d, t) /\ out'[t] = out[t]
      /\ UNCHANGED <<read, readers, writers>>
  BY <1>1, WriteFacts
<1>3. Process(p, d)
  BY DEF Network
<1>4. Flushed(p)' /\ Holds(p)'
  BY <1>1, <1>2, <1>3 DEF Process, Flushed, Holds, Working
<1>5. Process(p, d)'
  BY <1>4 DEF Process, Working
<1> QED
  BY <1>1, <1>2, <1>5 DEF ChildMove

LEMMA WriteValueNet ==
  ASSUME IInv, NEW d, Network(d), NEW p \in Children, WriteValue(p)
  PROVE  ChildMove(p, d, d)
<1>1. /\ at[p] \in {"out1", "out2"} /\ at[p] # "none" /\ ChildStep(p) /\ program' = program
      /\ Fn(p) # "source" /\ first' = first /\ value' = value
  BY WriteValueStep DEF WriteValue, ChildStep
<1>2. Wired(p) /\ Buffers /\ d \in [Streams -> Nat] /\ p \in Procs /\ (at[p] = "out2" => Fn(p) = "dup")
  BY <1>1, RunningIs, BuffersIs, CallIs DEF IInv, PlaceInv, Network
<1>3. PICK v, f : v = value[p] /\ f = first[p] /\ v \in Int
  BY <1>2, BuffersIs
<1>4. PICK m \in Nat, n \in Nat, i \in Nat, j \in Nat :
        m = ReadFrom(p, 1, d) /\ n = ReadFrom(p, 2, d) /\ i = SentTo(p, 1, d) /\ j = SentTo(p, 2, d)
  BY <1>2, ReadFromIs
<1>5. Stage(p, at[p], v, f, m, n, i, j)
  BY <1>1, <1>3, <1>4 DEF Network, Process, AtStage
<1>6. at' = [at EXCEPT ![p] = AfterWrite(p)]
  BY DEF WriteValue, Goto
<1>7. CASE at[p] = "out1"
  <2>1. PICK s \in Outs(program[p]) : s = Out(p, 1)
    BY <1>2 DEF Wired
  <2>2. s \in Streams /\ Fwrite(s, v)
    BY <1>1, <1>3, <1>7, <2>1, RunningIs DEF WriteValue
  <2>3. /\ Follows(v, Value[Out(p, 1)], i)
        /\ Fn(p) = "dup" => Stage(p, "out2", v, f, m, n, i + 1, j)
        /\ Fn(p) = "function" /\ f = 0 => Stage(p, "in2", v, f, m, n, i + 1, j)
        /\ Fn(p) # "dup" /\ ~(Fn(p) = "function" /\ f = 0) => Stage(p, "in1", v, f, m, n, i + 1, j)
    BY <1>1, <1>2, <1>5, <1>7, StageWrite
  <2>4. i = Sent(d, s)
    BY <1>4, <2>1 DEF SentTo
  <2>5. Follows(v, Value[s], Sent(d, s))
    BY <2>1, <2>3, <2>4
  <2>6. Sent(d, s)' = Sent(d, s) + 1 /\ \A t \in Streams : t # s => Sent(d, t)' = Sent(d, t)
    BY <1>1, <1>3, <2>2, <2>5, WriteFacts
  <2>7. SentTo(p, 1, d)' = i + 1
    BY <1>1, <2>1, <2>4, <2>6 DEF SentTo, Fn, Out
  <2>8. SentTo(p, 2, d)' = j
    BY <1>1, <1>2, <1>4, <2>1, <2>6 DEF SentTo, Fn, Out, Wired
  <2>9. PICK l : l = AfterWrite(p)
    OBVIOUS
  <2>10. l \in Working /\ Stage(p, l, v, f, m, n, i + 1, j)
    BY <1>3, <1>7, <2>3, <2>9 DEF AfterWrite, Working
  <2>11. at'[p] = l
    BY <1>2, <1>6, <2>9, BuffersIs
  <2>12. AtStage(p, d)'
    <3>1. PICK k : k = i + 1
      OBVIOUS
    <3>2. Stage(p, l, v, f, m, n, k, j)
      BY <2>10, <3>1
    <3>3. /\ ReadFrom(p, 1, d) = m /\ ReadFrom(p, 2, d) = n /\ SentTo(p, 1, d)' = k /\ SentTo(p, 2, d)' = j
          /\ value'[p] = v /\ first'[p] = f
      BY <1>1, <1>3, <1>4, <2>7, <2>8, <3>1
    <3> QED
      BY <1>1, <2>11, <3>2, <3>3, StageNext
  <2>13. at[p] \in Working /\ at'[p] \in Working
    BY <1>7, <2>10, <2>11 DEF Working
  <2> QED
    BY <1>1, <1>3, <2>2, <2>5, <2>12, <2>13, WriteMove
<1>8. CASE at[p] = "out2"
  <2>1. PICK s \in Outs(program[p]) : s = Out(p, 2)
    BY <1>2, <1>8 DEF Wired
  <2>2. s \in Streams /\ Fwrite(s, v) /\ Fn(p) = "dup" /\ Out(p, 1) # s
    BY <1>1, <1>2, <1>3, <1>8, <2>1, RunningIs DEF WriteValue, Wired
  <2>3. Follows(v, Value[Out(p, 2)], j) /\ Stage(p, "in1", v, f, m, n, i, j + 1)
    BY <1>2, <1>5, <1>8, <2>2, StageWriteSecond
  <2>4. j = Sent(d, s)
    BY <1>4, <2>1, <2>2 DEF SentTo
  <2>5. Follows(v, Value[s], Sent(d, s))
    BY <2>1, <2>3, <2>4
  <2>6. Sent(d, s)' = Sent(d, s) + 1 /\ \A t \in Streams : t # s => Sent(d, t)' = Sent(d, t)
    BY <1>1, <1>3, <2>2, <2>5, WriteFacts
  <2>7. SentTo(p, 2, d)' = j + 1
    BY <1>1, <2>1, <2>2, <2>4, <2>6 DEF SentTo, Fn, Out
  <2>8. SentTo(p, 1, d)' = i
    BY <1>1, <1>2, <1>4, <2>2, <2>6 DEF SentTo, Fn, Out, Wired
  <2>9. at'[p] = "in1"
    BY <1>2, <1>6, <1>8, <2>2, BuffersIs DEF AfterWrite
  <2>10. AtStage(p, d)'
    <3>1. PICK k : k = j + 1
      OBVIOUS
    <3>2. Stage(p, "in1", v, f, m, n, i, k)
      BY <2>3, <3>1
    <3>3. /\ ReadFrom(p, 1, d) = m /\ ReadFrom(p, 2, d) = n /\ SentTo(p, 1, d)' = i /\ SentTo(p, 2, d)' = k
          /\ value'[p] = v /\ first'[p] = f
      BY <1>1, <1>3, <1>4, <2>7, <2>8, <3>1
    <3> QED
      BY <1>1, <2>9, <3>2, <3>3, StageNext
  <2>11. at[p] \in Working /\ at'[p] \in Working
    BY <1>8, <2>9 DEF Working
  <2> QED
    BY <1>1, <1>3, <2>2, <2>5, <2>10, <2>11, WriteMove
<1> QED
  BY <1>1, <1>7, <1>8

LEMMA SourceWriteNet ==
  ASSUME IInv, NEW d, Network(d), NEW p \in Children, SourceWrite(p)
  PROVE  ChildMove(p, d, d)
<1>1. /\ at[p] = "out1" /\ at[p] # "none" /\ ChildStep(p) /\ program' = program
      /\ Fn(p) = "source" /\ first' = first
  BY SourceWriteStep DEF SourceWrite, ChildStep
<1>2. Wired(p) /\ Buffers /\ d \in [Streams -> Nat] /\ p \in Procs /\ Shape(program[p])
  BY <1>1, RunningIs, BuffersIs, CallIs DEF IInv, Network
<1>3. PICK v \in Nat, f \in {first[p]} : v = value[p] /\ f = first[p]
  BY <1>1 DEF IInv, SourceInv
<1>4. PICK m \in Nat, n \in Nat, i \in Nat, j \in Nat :
        m = ReadFrom(p, 1, d) /\ n = ReadFrom(p, 2, d) /\ i = SentTo(p, 1, d) /\ j = SentTo(p, 2, d)
  BY <1>2, ReadFromIs
<1>5. Stage(p, "out1", v, f, m, n, i, j)
  BY <1>1, <1>3, <1>4 DEF Network, Process, AtStage
<1>6. PICK s \in Outs(program[p]) : s = Out(p, 1)
  BY <1>2 DEF Wired
<1>7. s \in Streams /\ read[s] # -1 /\ i = Sent(d, s)
  BY <1>1, <1>4, <1>6, RunningIs DEF SentTo
<1>8. i <= Len(Value[Out(p, 1)])
  BY <1>6, <1>7 DEF Network, Carrying
<1>9. /\ v < Len(program[p].arg) => /\ Follows(program[p].arg[v + 1], Value[Out(p, 1)], i)
                                    /\ Stage(p, "out1", v + 1, f, m, n, i + 1, j)
      /\ ~(v < Len(program[p].arg)) => Stage(p, "close1", v, f, m, n, i, j)
  BY <1>1, <1>2, <1>5, <1>8, StageSource
<1>10. CASE v < Len(program[p].arg)
  <2>1. PICK u : u = program[p].arg[v + 1]
    OBVIOUS
  <2>2. u \in Int
    BY <1>2, <1>10, <2>1 DEF Shape
  <2>3. Fwrite(s, u) /\ value' = [value EXCEPT ![p] = v + 1] /\ at' = at
    BY <1>3, <1>6, <1>10, <2>1 DEF SourceWrite
  <2>4. Follows(u, Value[s], Sent(d, s))
    BY <1>6, <1>7, <1>9, <1>10, <2>1
  <2>5. Sent(d, s)' = Sent(d, s) + 1
    BY <1>1, <2>2, <2>3, <2>4, WriteFacts
  <2>6. SentTo(p, 1, d)' = i + 1
    BY <1>1, <1>6, <1>7, <2>5 DEF SentTo, Fn, Out
  <2>7. SentTo(p, 2, d)' = j
    BY <1>1, <1>4 DEF SentTo, Fn
  <2>8. AtStage(p, d)'
    <3>1. PICK k, w : k = i + 1 /\ w = v + 1
      OBVIOUS
    <3>2. Stage(p, "out1", w, f, m, n, k, j)
      BY <1>9, <1>10, <3>1
    <3>3. /\ ReadFrom(p, 1, d) = m /\ ReadFrom(p, 2, d) = n /\ SentTo(p, 1, d)' = k /\ SentTo(p, 2, d)' = j
          /\ value'[p] = w /\ first'[p] = f /\ at'[p] = "out1"
      BY <1>1, <1>2, <1>3, <1>4, <2>3, <2>6, <2>7, <3>1, BuffersIs
    <3> QED
      BY <1>1, <3>2, <3>3, StageNext
  <2>9. at[p] \in Working /\ at'[p] \in Working
    BY <1>1, <2>3 DEF Working
  <2> QED
    BY <1>1, <2>2, <2>3, <2>4, <2>8, <2>9, WriteMove
<1>11. CASE ~(v < Len(program[p].arg))
  <2>1. UNCHANGED <<read, readers, writers, pipe, out, in, value>> /\ at'[p] = "close1"
    BY <1>2, <1>3, <1>11, BuffersIs DEF SourceWrite, Goto, netVars
  <2>2. \A t \in Streams : Left(t)' = Left(t)
    BY <2>1 DEF Left
  <2>3. /\ \A t \in Streams : Carrying(t, d)' /\ Sent(d, t)' = Sent(d, t)
        /\ SentTo(p, 1, d)' = SentTo(p, 1, d) /\ SentTo(p, 2, d)' = SentTo(p, 2, d)
    BY <1>1, <1>2, <2>1, <2>2, StillFacts
  <2>4. Stage(p, "close1", v, f, m, n, i, j)
    BY <1>9, <1>11
  <2>5. AtStage(p, d)'
    BY <1>1, <1>3, <1>4, <2>1, <2>3, <2>4, StageNext
  <2>6. Process(p, d)
    BY DEF Network
  <2>7. Process(p, d)'
    BY <1>1, <2>1, <2>5, <2>6 DEF Process, Flushed, Holds
  <2> QED
    BY <1>1, <1>2, <2>1, <2>3, <2>7 DEF ChildMove
<1> QED
  BY <1>10, <1>11

LEMMA FlushNet ==
  ASSUME IInv, NEW d, Network(d), NEW p \in Children, at[p] # "none",
         NEW s \in Outs(program[p]), Flush(p, s), UNCHANGED <<program, pc, result, first, value, output>>
  PROVE  ChildMove(p, d, d)
<1>1. s \in Streams /\ read[s] # -1 /\ Wired(p) /\ Buffers
  BY RunningIs, BuffersIs
<1>2. ChildStep(p)
  BY <1>1, FlushChildStep
<1>3. readers[s] # {}
  BY <1>1 DEF Network, Open
<1>4. /\ UNCHANGED <<read, readers, writers, in, at>>
      /\ out'[s] = <<>> /\ \A t \in Streams : t # s => out'[t] = out[t]
      /\ \A t \in Streams : Left(t)' = Left(t)
  BY <1>1, <1>3, FlushStep
<1>5. \A t \in Streams : Carrying(t, d)' /\ Sent(d, t)' = Sent(d, t)
  BY <1>1, <1>4, StillFacts
<1>6. SentTo(p, 1, d)' = SentTo(p, 1, d) /\ SentTo(p, 2, d)' = SentTo(p, 2, d)
  BY <1>1, <1>4, StillFacts
<1>7. AtStage(p, d) /\ Flushed(p) /\ Holds(p) /\ d \in [Streams -> Nat]
  BY DEF Network, Process
<1>8. AtStage(p, d)'
  <2>1. PICK l, v, f, m, n, i, j :
          /\ l = at[p] /\ v = value[p] /\ f = first[p] /\ m = ReadFrom(p, 1, d) /\ n = ReadFrom(p, 2, d)
          /\ i = SentTo(p, 1, d) /\ j = SentTo(p, 2, d)
    OBVIOUS
  <2>2. Stage(p, l, v, f, m, n, i, j)
    BY <1>7, <2>1 DEF AtStage
  <2>3. /\ at'[p] = l /\ value'[p] = v /\ first'[p] = f
        /\ ReadFrom(p, 1, d) = m /\ ReadFrom(p, 2, d) = n /\ SentTo(p, 1, d)' = i /\ SentTo(p, 2, d)' = j
    BY <1>4, <1>6, <2>1
  <2> QED
    BY <2>2, <2>3, StageNext
<1>9. \A t \in Outs(program[p]) : t \in Streams /\ (out[t] = <<>> => out'[t] = <<>>)
  BY <1>4, RunningIs
<1>10. Flushed(p)' /\ Holds(p)'
  BY <1>1, <1>4, <1>7, <1>9 DEF Flushed, Holds, Wired, Out, Fn
<1>11. Process(p, d)'
  BY <1>4, <1>8, <1>10 DEF Process
<1> QED
  BY <1>2, <1>4, <1>5, <1>7, <1>9, <1>11 DEF ChildMove

LEMMA FlushFullNet ==
  ASSUME IInv, NEW d, Network(d), NEW p \in Children, FlushFull(p)
  PROVE  ChildMove(p, d, d)
<1>1. /\ at[p] \in {"out1", "out2"} /\ at[p] # "none" /\ UNCHANGED <<program, pc, result, first, value, output>>
  BY DEF FlushFull
<1>2. Wired(p) /\ (at[p] = "out2" => Fn(p) = "dup")
  BY <1>1, RunningIs DEF IInv, PlaceInv
<1>3. PICK s \in Outs(program[p]) : Flush(p, s)
  BY <1>1, <1>2 DEF FlushFull, Wired
<1> QED
  BY <1>1, <1>3, FlushNet

LEMMA CloseNet ==
  ASSUME IInv, NEW d, Network(d), NEW p \in Children, Close(p)
  PROVE  ChildMove(p, d, d)
<1>1. /\ at[p] \in {"close1", "close2"} /\ at[p] # "none"
      /\ UNCHANGED <<program, pc, result, first, value, output>> /\ ChildStep(p)
  BY CloseStep DEF Close
<1>2. Wired(p) /\ (at[p] = "close2" => Fn(p) = "dup") /\ p \in Procs /\ Buffers
  BY <1>1, RunningIs, BuffersIs, CallIs DEF IInv, PlaceInv
<1>3. AtStage(p, d) /\ Flushed(p) /\ Holds(p) /\ d \in [Streams -> Nat]
  BY <1>1 DEF Network, Process
<1>4. CASE \E s \in Outs(program[p]) : Flush(p, s)
  BY <1>1, <1>4, FlushNet
<1>5. ASSUME UNCHANGED <<read, pipe, out, in>>, at'[p] \in {"close2", "exit"}, Flushed(p)', Holds(p)',
             \A s \in Streams : readers[s] \ {p} \subseteq readers'[s] /\ writers[s] \ {p} \subseteq writers'[s]
      PROVE  ChildMove(p, d, d)
  <2>1. \A s \in Streams : Left(s)' = Left(s)
    BY <1>5 DEF Left
  <2>2. \A s \in Streams : Carrying(s, d)' /\ Sent(d, s)' = Sent(d, s)
    BY <1>1, <1>2, <1>5, <2>1, StillFacts
  <2>3. SentTo(p, 1, d)' = SentTo(p, 1, d) /\ SentTo(p, 2, d)' = SentTo(p, 2, d)
    BY <1>1, <1>2, <1>5, <2>1, StillFacts
  <2>4. PICK l, k, v, f, m, n, i, j :
          /\ l = at[p] /\ v = value[p] /\ f = first[p] /\ m = ReadFrom(p, 1, d) /\ n = ReadFrom(p, 2, d)
          /\ i = SentTo(p, 1, d) /\ j = SentTo(p, 2, d) /\ k = at'[p]
    OBVIOUS
  <2>5. Stage(p, l, v, f, m, n, i, j)
    BY <1>3, <2>4 DEF AtStage
  <2>6. Stage(p, k, v, f, m, n, i, j)
    BY <1>1, <1>5, <2>4, <2>5, StageClose
  <2>7. /\ at'[p] = k /\ value'[p] = v /\ first'[p] = f
        /\ ReadFrom(p, 1, d) = m /\ ReadFrom(p, 2, d) = n /\ SentTo(p, 1, d)' = i /\ SentTo(p, 2, d)' = j
    BY <1>1, <2>3, <2>4
  <2>8. AtStage(p, d)'
    BY <1>1, <2>6, <2>7, StageNext
  <2>9. Process(p, d)'
    BY <1>5, <2>8 DEF Process
  <2> QED
    BY <1>1, <1>3, <1>5, <2>2, <2>9 DEF ChildMove
<1>6. CASE /\ at[p] = "close1" /\ out[Out(p, 1)] = <<>> /\ Fn(p) = "dup"
           /\ writers' = [writers EXCEPT ![Out(p, 1)] = @ \ {p}]
           /\ Goto(p, "close2") /\ UNCHANGED <<read, readers, pipe, out, in>>
  <2>1. at'[p] = "close2"
    BY <1>2, <1>6, BuffersIs DEF Goto
  <2>2. Out(p, 1) \in Streams /\ \A s \in Outs(program[p]) : s \in Streams
    BY <1>1, <1>2, RunningIs DEF Wired
  <2>3. /\ \A s \in Streams : writers[s] \ {p} \subseteq writers'[s]
        /\ \A s \in Streams : s # Out(p, 1) => writers'[s] = writers[s]
    BY <1>6, <2>2, BuffersIs
  <2>4. Flushed(p)'
    BY <1>1, <1>6, <2>1 DEF Flushed, Out
  <2>5. Holds(p)'
    BY <1>1, <1>3, <1>6, <2>1, <2>2, <2>3 DEF Holds, Out
  <2> QED
    BY <1>5, <1>6, <2>1, <2>3, <2>4, <2>5
<1>7. CASE /\ at[p] = (IF Fn(p) = "dup" THEN "close2" ELSE "close1")
           /\ out[Out(p, IF Fn(p) = "dup" THEN 2 ELSE 1)] = <<>>
           /\ Ends(p) /\ UNCHANGED <<read, pipe, out, in>>
  <2>1. at'[p] = "exit" /\ \A s \in Streams : readers[s] \ {p} \subseteq readers'[s] /\ writers[s] \ {p} \subseteq writers'[s]
    BY <1>2, <1>7, BuffersIs DEF Ends, Goto
  <2>2. \A s \in Outs(program[p]) : out[s] = <<>>
    BY <1>2, <1>3, <1>7 DEF Wired, Flushed
  <2>3. Flushed(p)' /\ Holds(p)'
    BY <1>1, <1>7, <2>1, <2>2 DEF Flushed, Holds
  <2> QED
    BY <1>5, <1>7, <2>1, <2>3
<1> QED
  BY <1>2, <1>4, <1>6, <1>7 DEF Close, Wired

LEMMA ChildNetwork ==
  ASSUME IInv, Building, NEW d, Network(d), NEW p \in Children, Child(p)
  PROVE  \E e : Network(e)'
<1>1. PICK e : ChildMove(p, d, e)
  BY ReadFirstNet, ReadSecondNet, ReadEndNet, WriteValueNet, SourceWriteNet, FlushFullNet, CloseNet DEF Child
<1> QED
  BY <1>1, ChildNet

-----------------------------------------------------------------------------
(* The steps of main, with the network it is building.                     *)

\* A child that main's step does not concern.
LEMMA Bystander ==
  ASSUME IInv, NEW d, Network(d), NEW q \in Children, program' = program,
         UNCHANGED <<out, first, value>>, at'[q] = at[q], NEW e,
         \A s \in Streams : Sent(e, s)' = Sent(d, s),
         at[q] # "none" => \A s \in Ins(program[q]) : e[s] = d[s],
         at[q] # "none" => \A s \in Outs(program[q]) : writers'[s] = writers[s]
  PROVE  Process(q, e)'
<1>1. Process(q, d)
  BY DEF Network
<1>2. CASE at[q] = "none"
  BY <1>1, <1>2 DEF Process
<1>3. CASE at[q] # "none"
  <2>1. \A s \in Outs(program[q]) : s \in Streams
    BY <1>3, RunningIs
  <2>2. \A s \in Outs(program[q]) : Sent(e, s)' = Sent(d, s) /\ out'[s] = out[s]
    BY <2>1
  <2>3. \A s \in Outs(program[q]) : q \in writers[s] => q \in writers'[s]
    BY <1>3
  <2>4. \A s \in Ins(program[q]) : e[s] = d[s]
    BY <1>3
  <2>5. at'[q] = at[q] /\ value'[q] = value[q] /\ first'[q] = first[q]
    OBVIOUS
  <2> QED
    BY <1>1, <2>2, <2>3, <2>4, <2>5, ProcessSame
<1> QED
  BY <1>2, <1>3

LEMMA LinkNet ==
  ASSUME IInv, NEW d, Network(d), Link
  PROVE  Network(d)'
<1> DEFINE call == program[pc]
<1>1. /\ pc \in Children /\ IsLink(call) /\ Free(call)
      /\ read' = [s \in Streams |-> IF s \in Outs(call) THEN 0 ELSE IF s \in Ins(call) THEN 1 ELSE read[s]]
      /\ readers' = [s \in Streams |-> IF s \in Outs(call) THEN {Main}
                                       ELSE IF Main \in readers[s] THEN readers[s] \cup {pc} ELSE readers[s]]
      /\ writers' = [s \in Streams |-> IF s \in Outs(call) THEN {pc} ELSE writers[s]]
      /\ at' = [at EXCEPT ![pc] = FirstPlace(Fn(pc))]
      /\ result' = [result EXCEPT ![pc] = 0] /\ pc' = pc + 1
      /\ UNCHANGED <<program, pipe, out, in, first, value, output>>
  BY DEF Link, MainReturns, Goto, Children, Fn
<1>2. /\ Children' = Children /\ Value' = Value /\ d \in [Streams -> Nat] /\ Main \in Procs /\ Main # pc /\ pc \in Procs
      /\ at \in [Procs -> Places] /\ Children \subseteq Procs /\ Shape(call) /\ Buffers
  BY <1>1, SameNetwork, CallIs, ProgramIs, BuffersIs DEF Children, Network, IInv
<1>3. at[Main] = "none" /\ at'[Main] = "none"
  <2>1. at[Main] = "none"
    BY <1>1 DEF IInv, PlaceInv, IsLink, Fn
  <2> QED
    BY <1>1, <1>2, <2>1
<1>4. result[pc] = -1 /\ at[pc] = "none"
  <2>1. result[pc] = -1
    BY <1>1, ProgramIs DEF IInv, CallsInv
  <2> QED
    BY <1>1, <2>1 DEF IInv, PlaceInv
<1>5. \A s \in Outs(call) : s \in Streams /\ read[s] = -1 /\ Left(s) = <<>> /\ d[s] = 0
  <2>1. \A s \in Outs(call) : s \in Streams /\ read[s] = -1
    BY <1>1, <1>2, OutputsAreNew DEF Shape
  <2> QED
    BY <1>3, <2>1 DEF Network, Untouched
<1>6. \A s \in Ins(call) : s \in Streams /\ read[s] = 0 /\ d[s] = 0
  BY <1>1, <1>2, <1>3 DEF Shape, Free, Network, Untouched
<1>7. \A s \in Streams : Left(s)' = Left(s) /\ Sent(d, s)' = Sent(d, s)
  BY <1>1 DEF Left, Sent
<1>8. ASSUME NEW s \in Streams PROVE Carrying(s, d)' /\ Untouched(s, d)' /\ Open(s)'
  <2>1. Carrying(s, d) /\ Untouched(s, d) /\ Open(s)
    BY DEF Network
  <2>2. CASE s \in Outs(call)
    <3>1. s \in Made
      BY <1>1, <2>2 DEF Made, Children
    <3>2. Value[s] \in Seq(Int) /\ Left(s)' = <<>> /\ d[s] = 0 /\ read'[s] = 0 /\ readers'[s] = {Main}
      BY <1>1, <1>5, <1>7, <2>2, <3>1, ValueTyped DEF IInv
    <3>3. Len(Left(s)') = 0 /\ Sent(d, s)' = 0
      BY <3>2 DEF Sent
    <3>4. Carrying(s, d)'
      BY <1>2, <3>2, <3>3 DEF Carrying
    <3> QED
      BY <3>2, <3>4 DEF Untouched, Open
  <2>3. CASE s \notin Outs(call)
    <3>1. /\ (read'[s] = -1) <=> (read[s] = -1)
          /\ read'[s] # 1 => read[s] # 1
          /\ Main \in readers[s] => Main \in readers'[s]
      BY <1>1, <1>6, <2>3
    <3>2. Carrying(s, d)'
      BY <1>2, <1>7, <2>1, <3>1 DEF Carrying
    <3>3. Untouched(s, d)'
      BY <1>3, <1>7, <2>1, <3>1 DEF Untouched
    <3> QED
      BY <2>1, <3>1, <3>2, <3>3 DEF Open
  <2> QED
    BY <2>2, <2>3
<1>9. ASSUME NEW q \in Children, q = pc PROVE Process(q, d)'
  <2>1. Wired(q)
    BY <1>1, <1>9, WiredIs DEF IInv
  <2>2. ReadFrom(q, 1, d) = 0 /\ ReadFrom(q, 2, d) = 0
    BY <1>6, <1>9, <2>1 DEF ReadFrom, Wired
  <2>3. \A s \in Outs(program[q]) : Sent(d, s)' = 0
    <3>1. \A s \in Outs(program[q]) : Len(Left(s)) = 0 /\ Sent(d, s)' = Sent(d, s) /\ d[s] = 0
      BY <1>5, <1>7, <1>9
    <3> QED
      BY <3>1 DEF Sent
  <2>4. SentTo(q, 1, d)' = 0
    BY <1>1, <2>1, <2>3 DEF SentTo, Wired, Fn, Out
  <2>5. SentTo(q, 2, d)' = 0
    BY <1>1, <2>1, <2>3 DEF SentTo, Wired, Fn, Out
  <2>6. value'[q] = 0 /\ first'[q] = 0 /\ at'[q] = FirstPlace(Fn(q))
    BY <1>1, <1>2, <1>4, <1>9 DEF Network, Process
  <2>7. PICK l : l = FirstPlace(Fn(q)) /\ l \in {"out1", "in1", "in2"}
    BY DEF FirstPlace
  <2>8. Stage(q, l, 0, 0, 0, 0, 0, 0)
    BY <2>1, <2>7, StageStart
  <2>9. AtStage(q, d)'
    BY <1>1, <2>2, <2>4, <2>5, <2>6, <2>7, <2>8, StageNext
  <2>10. \A s \in Outs(program[q]) : q \in writers'[s]
    BY <1>1, <1>5, <1>9
  <2> QED
    BY <1>1, <2>6, <2>7, <2>9, <2>10 DEF Process, Flushed, Holds
<1>10. ASSUME NEW q \in Children, q # pc PROVE Process(q, d)'
  <2>1. at'[q] = at[q]
    BY <1>1, <1>2, <1>10
  <2>2. at[q] # "none" => \A s \in Outs(program[q]) : writers'[s] = writers[s]
    <3> SUFFICES ASSUME at[q] # "none", NEW s \in Outs(program[q]) PROVE writers'[s] = writers[s]
      OBVIOUS
    <3>1. s \in Streams /\ read[s] # -1
      BY RunningIs
    <3> QED
      BY <1>1, <1>5, <3>1
  <2>3. program' = program /\ UNCHANGED <<out, first, value>>
    BY <1>1
  <2>4. \A s \in Streams : Sent(d, s)' = Sent(d, s)
    BY <1>7
  <2> HIDE DEF call
  <2> QED
    BY <2>1, <2>2, <2>3, <2>4, Bystander
<1>11. SinkInv(d)'
  <2> SUFFICES ASSUME \A i \in SinkCalls' : result'[i] # 0 PROVE output = <<>>
    BY <1>1, <1>3 DEF SinkInv
  <2>1. ASSUME NEW i \in SinkCalls PROVE result[i] # 0
    <3>1. i \in Children /\ i # pc
      BY <1>1, <2>1 DEF SinkCalls, Children, IsLink, Fn
    <3>2. result'[i] = result[i]
      BY <1>1, <3>1 DEF IInv, TypeOK, Children
    <3>3. i \in SinkCalls'
      BY <1>1, <2>1, <3>2 DEF SinkCalls, Fn
    <3> QED
      BY <3>2, <3>3
  <2> QED
    BY <1>3, <2>1 DEF Network, SinkInv
<1> QED
  BY <1>2, <1>8, <1>9, <1>10, <1>11 DEF Network

\* A step that leaves the streams and the children.
LEMMA QuietNet ==
  ASSUME IInv, NEW d, Network(d), UNCHANGED <<program, readers, writers, pipe, out, in, first, value>>,
         \A q \in Children : at'[q] = at[q],
         \A s \in Streams : read[s] = -1 <=> read'[s] = -1
  PROVE  /\ \A s \in Streams : Carrying(s, d)' /\ Open(s)'
         /\ \A q \in Children : Process(q, d)'
<1>1. Value' = Value
  BY SameNetwork
<1>2. \A s \in Streams : Left(s)' = Left(s) /\ Sent(d, s)' = Sent(d, s)
  BY DEF Left, Sent
<1>3. ASSUME NEW s \in Streams PROVE Carrying(s, d)' /\ Open(s)'
  BY <1>1, <1>2 DEF Network, Carrying, Open
<1>4. ASSUME NEW q \in Children PROVE Process(q, d)'
  BY <1>2, Bystander
<1> QED
  BY <1>3, <1>4

LEMMA RefuseNet ==
  ASSUME IInv, NEW d, Network(d), Refuse
  PROVE  Network(d)'
<1>1. /\ pc \in Children /\ at[Main] = "none" /\ Children' = Children
      /\ result' = [result EXCEPT ![pc] = 1] /\ pc' = pc + 1
      /\ UNCHANGED <<program, read, readers, writers, pipe, out, in, at, first, value, output>>
  BY DEF Refuse, MainReturns, Children, netVars
<1>2. /\ \A s \in Streams : Carrying(s, d)' /\ Open(s)'
      /\ \A q \in Children : Process(q, d)'
  BY <1>1, QuietNet
<1>3. \A s \in Streams : Untouched(s, d)'
  <2>1. \A s \in Streams : Left(s)' = Left(s)
    BY <1>1 DEF Left
  <2> QED
    BY <1>1, <2>1 DEF Network, Untouched
<1>4. SinkInv(d)'
  <2> SUFFICES ASSUME \A i \in SinkCalls' : result'[i] # 0 PROVE output = <<>>
    BY <1>1 DEF SinkInv
  <2>1. ASSUME NEW i \in SinkCalls PROVE result[i] # 0
    <3>1. i \in Children
      BY <2>1 DEF SinkCalls, Children
    <3>2. CASE i = pc
      BY <1>1, <3>2, ProgramIs DEF IInv, CallsInv
    <3>3. CASE i # pc
      <4>1. result'[i] = result[i]
        BY <1>1, <3>1, <3>3 DEF IInv, TypeOK, Children
      <4>2. i \in SinkCalls'
        BY <1>1, <2>1, <4>1 DEF SinkCalls, Fn
      <4> QED
        BY <4>1, <4>2
    <3> QED
      BY <3>2, <3>3
  <2> QED
    BY <1>1, <2>1 DEF Network, SinkInv
<1>5. d \in [Streams -> Nat]
  BY DEF Network
<1> QED
  BY <1>1, <1>2, <1>3, <1>4, <1>5 DEF Network

\* All sinks read one stream; while a sink runs or may start, none has returned 0.
LEMMA SinksAre ==
  ASSUME IInv, pc \in Children, Fn(pc) \in {"sink", "head"}
  PROVE  /\ In(pc, 1) \in Streams
         /\ \A i \in SinkCalls : i \in Children /\ In(i, 1) = In(pc, 1)
         /\ Free(program[pc]) => read[In(pc, 1)] = 0 /\ \A i \in SinkCalls : result[i] # 0
<1>1. In(pc, 1) \in Streams /\ In(pc, 1) \in Ins(program[pc])
  BY CallIs DEF IInv, Shape, In, Fn, ReadsTwo
<1>2. ASSUME NEW i \in SinkCalls PROVE i \in Children /\ In(i, 1) = In(pc, 1)
  <2>1. i \in Children /\ Fn(i) \in {"sink", "head"}
    BY DEF SinkCalls, Children
  <2>2. program[i].in = program[pc].in
    BY <2>1, ProgramIs DEF IInv, ProperProgram, Children, Fn
  <2> QED
    BY <2>1, <2>2 DEF In
<1>3. ASSUME Free(program[pc]), NEW i \in SinkCalls PROVE result[i] # 0
  <2>1. i \in Children /\ Fn(i) \in {"sink", "head"} /\ In(i, 1) \in Ins(program[i])
    BY CallIs DEF SinkCalls, Children, IInv, Shape, In, Fn, ReadsTwo
  <2>2. read[In(pc, 1)] = 0
    BY <1>1, <1>3 DEF Free
  <2> QED
    BY <1>1, <1>2, <2>1, <2>2 DEF IInv, CallsInv
<1>4. Free(program[pc]) => read[In(pc, 1)] = 0
  BY <1>1 DEF Free
<1> QED
  BY <1>1, <1>2, <1>3, <1>4

LEMMA SinkStartNet ==
  ASSUME IInv, NEW d, Network(d), SinkStart
  PROVE  Network(d)'
<1>1. /\ pc \in Children /\ Fn(pc) \in {"sink", "head"} /\ at[Main] = "none" /\ Free(program[pc])
      /\ at' = [at EXCEPT ![Main] = "in1"] /\ Children' = Children
      /\ UNCHANGED <<program, pc, result, read, readers, writers, pipe, out, in, first, value, output>>
  BY DEF SinkStart, Goto, Children, netVars
<1>2. \A q \in Children : at'[q] = at[q]
  BY <1>1, ProgramIs, BuffersIs DEF IInv
<1>3. at'[Main] = "in1"
  BY <1>1, ProgramIs, BuffersIs DEF IInv
<1>4. /\ \A s \in Streams : Carrying(s, d)' /\ Open(s)'
      /\ \A q \in Children : Process(q, d)'
  BY <1>1, <1>2, QuietNet
<1>5. \A s \in Streams : Untouched(s, d)'
  <2>1. \A s \in Streams : Left(s)' = Left(s)
    BY <1>1 DEF Left
  <2> QED
    BY <1>1, <2>1 DEF Network, Untouched
<1>6. SinkInv(d)'
  <2>1. read[In(pc, 1)] = 0 /\ In(pc, 1) \in Streams /\ \A i \in SinkCalls : result[i] # 0
    BY <1>1, SinksAre
  <2>2. output = <<>> /\ d[In(pc, 1)] = 0
    BY <1>1, <2>1 DEF Network, SinkInv, Untouched
  <2>3. /\ In(pc, 1)' = In(pc, 1) /\ output' = <<>> /\ Len(output') = 0
    BY <1>1, <2>2 DEF In
  <2> QED
    BY <1>3, <2>2, <2>3 DEF SinkInv
<1> QED
  BY <1>1, <1>4, <1>5, <1>6 DEF Network

\* What the sink has read is a prefix of what the stream carries.
LEMMA PrefixIs ==
  ASSUME NEW x \in Seq(Int), NEW z \in Seq(Int), Len(x) <= Len(z), \A k \in 1 .. Len(x) : x[k] = z[k]
  PROVE  IsPrefix(x, z) /\ (Len(x) = Len(z) => x = z)
<1>1. Len(x) \in Nat /\ Len(z) \in Nat
  OBVIOUS
<1>2. SubSeq(x, 1, Len(x)) = SubSeq(z, 1, Len(x))
  <2>1. \A k \in 1 .. Len(x) : x[k] \in Int /\ z[k] \in Int
    BY <1>1
  <2>2. /\ SubSeq(x, 1, Len(x)) \in Seq(Int) /\ Len(SubSeq(x, 1, Len(x))) = Len(x)
        /\ \A k \in 1 .. Len(x) : SubSeq(x, 1, Len(x))[k] = x[k]
    BY <1>1, <2>1
  <2>3. /\ SubSeq(z, 1, Len(x)) \in Seq(Int) /\ Len(SubSeq(z, 1, Len(x))) = Len(x)
        /\ \A k \in 1 .. Len(x) : SubSeq(z, 1, Len(x))[k] = z[k]
    BY <1>1, <2>1
  <2> QED
    BY <2>2, <2>3, SeqEqual
<1>3. Len(x) = Len(z) => x = z
  BY SeqEqual
<1> QED
  BY <1>2, <1>3 DEF IsPrefix

LEMMA SinkReadNet ==
  ASSUME IInv, NEW d, Network(d), SinkRead
  PROVE  /\ \E e : Network(e)'
         /\ IsPrefix(output', Value[In(pc, 1)])
<1>1. /\ at[Main] = "in1" /\ Children' = Children /\ Value' = Value
      /\ UNCHANGED <<program, pc, result, first, value>>
  BY SameNetwork DEF SinkRead, Children
<1>2. pc \in Children /\ Fn(pc) \in {"sink", "head"} /\ Free(program[pc])
  BY <1>1 DEF IInv, PlaceInv
<1>3. PICK s \in Streams : s = In(pc, 1) /\ read[s] = 0
  BY <1>2, SinksAre
<1>4. /\ d \in [Streams -> Nat] /\ d[s] \in Nat /\ Value[s] \in Seq(Int) /\ Len(Value[s]) \in Nat
      /\ Buffers /\ output \in Seq(Int) /\ at \in [Procs -> Places]
  BY <1>3, ReadIsMade, BuffersIs DEF Network, IInv, TypeOK
<1>5. PICK x \in Seq(Int) : x = output
  BY <1>4
<1>6. Len(x) = d[s] /\ \A k \in 1 .. Len(x) : x[k] = Value[s][k]
  BY <1>1, <1>3, <1>5 DEF Network, SinkInv
<1>7. \A q \in Children : at'[q] = at[q]
  BY <1>1, <1>4, ProgramIs DEF IInv, SinkRead, Goto
<1>8. CASE /\ Fread(s)
           /\ output' = Append(output, Head(Items(s)))
           /\ IF Fn(pc) = "head" /\ Len(output) + 1 = program[pc].arg[1]
              THEN Goto(Main, "exit") ELSE UNCHANGED at
  <2>1. PICK e : OneMore(s, d, e)
    BY <1>4, OneMoreIs
  <2>2. e \in [Streams -> Nat] /\ e[s] = d[s] + 1 /\ \A t \in Streams : t # s => e[t] = d[t]
    BY <2>1 DEF OneMore
  <2>3. /\ UNCHANGED <<read, readers, writers, out>>
        /\ \A t \in Streams : t # s => Left(t)' = Left(t)
    BY <1>4, <1>8, FreadStep
  <2>4. Carrying(s, d) /\ read[s] # -1 /\ program' = program /\ Fread(s)
    BY <1>1, <1>3, <1>8 DEF Network
  <2>5. e \in [Streams -> Nat] /\ e[s] = d[s] + 1 /\ Buffers /\ Value[s] \in Seq(Int) /\ d \in [Streams -> Nat]
    BY <1>4, <2>2
  <2>6. Carrying(s, e)' /\ Sent(e, s)' = Sent(d, s)
    BY <2>4, <2>5, CarryRead
  <2>7. Head(Items(s)) = Value[s][d[s] + 1] /\ d[s] < Len(Value[s])
    BY <2>4, <2>5, CarryRead
  <2>8. ASSUME NEW t \in Streams, t # s PROVE Carrying(t, e)' /\ Sent(e, t)' = Sent(d, t)
    BY <1>1, <2>2, <2>3, <2>8, CarrySame DEF Network
  <2>9. ASSUME NEW t \in Streams PROVE Carrying(t, e)' /\ Untouched(t, e)' /\ Open(t)'
    <3>1. Carrying(t, e)'
      BY <2>6, <2>8
    <3>2. Open(t)'
      BY <2>3 DEF Network, Open
    <3>3. at'[Main] # "none"
      BY <1>1, <1>4, <1>8, ProgramIs DEF IInv, Goto
    <3>4. read[t] = -1 => Left(t)' = <<>>
      BY <1>3, <2>3 DEF Network, Untouched
    <3>5. t # s /\ read[t] # 1 => e[t] = 0
      BY <1>3, <2>2 DEF Network, Untouched
    <3>6. Untouched(t, e)'
      BY <1>1, <1>3, <2>3, <3>3, <3>4, <3>5 DEF Untouched, In
    <3> QED
      BY <3>1, <3>2, <3>6
  <2>10. ASSUME NEW q \in Children PROVE Process(q, e)'
    <3>1. at[q] # "none" => \A t \in Ins(program[q]) : e[t] = d[t]
      <4> SUFFICES ASSUME at[q] # "none", NEW t \in Ins(program[q]) PROVE e[t] = d[t]
        OBVIOUS
      <4>1. t \in Streams /\ t # s
        BY <1>3, RunningIs
      <4> QED
        BY <2>2, <4>1
    <3>2. \A t \in Streams : Sent(e, t)' = Sent(d, t)
      BY <2>6, <2>8
    <3> QED
      BY <1>1, <1>7, <2>3, <3>1, <3>2, Bystander
  <2>11. PICK y \in Seq(Int) : y = output' /\ Len(y) = e[s] /\ \A k \in 1 .. Len(y) : y[k] = Value[s][k]
    <3>1. PICK u \in Int : u = Head(Items(s))
      BY <1>4, <1>8, FreadStep
    <3>2. u = Value[s][d[s] + 1] /\ output' = Append(x, u)
      BY <1>5, <1>8, <2>7, <3>1
    <3>3. /\ Append(x, u) \in Seq(Int) /\ Len(Append(x, u)) = Len(x) + 1
          /\ \A k \in 1 .. Len(x) : Append(x, u)[k] = x[k]
          /\ Append(x, u)[Len(x) + 1] = u
      OBVIOUS
    <3>4. Len(Append(x, u)) = e[s]
      BY <1>6, <2>2, <3>3
    <3>5. ASSUME NEW k \in 1 .. Len(x) + 1 PROVE Append(x, u)[k] = Value[s][k]
      <4>1. k \in 1 .. Len(x) \/ k = Len(x) + 1
        OBVIOUS
      <4> QED
        BY <1>6, <3>2, <3>3, <4>1
    <3> QED
      BY <3>2, <3>3, <3>4, <3>5
  <2>12. SinkInv(e)'
    <3>1. at'[Main] = "exit" => Fn(pc) # "sink"
      BY <1>1, <1>2, <1>8
    <3>2. at'[Main] # "none"
      BY <1>1, <1>4, <1>8, ProgramIs DEF IInv, Goto
    <3> QED
      BY <1>1, <1>3, <2>11, <3>1, <3>2 DEF SinkInv, In, Fn
  <2>13. Network(e)'
    BY <1>1, <2>2, <2>9, <2>10, <2>12 DEF Network
  <2>14. Len(y) <= Len(Value[s])
    BY <1>4, <2>2, <2>7, <2>11
  <2>15. IsPrefix(y, Value[s])
    BY <1>4, <2>11, <2>14, PrefixIs
  <2> QED
    BY <1>3, <2>11, <2>13, <2>15
<1>9. CASE AtEnd(s) /\ Goto(Main, "exit") /\ UNCHANGED <<netVars, output>>
  <2>1. UNCHANGED <<read, readers, writers, pipe, out, in, output>>
    BY <1>9 DEF netVars
  <2>2. /\ \A t \in Streams : Carrying(t, d)' /\ Open(t)'
        /\ \A q \in Children : Process(q, d)'
    BY <1>1, <1>7, <2>1, QuietNet
  <2>3. at'[Main] = "exit"
    BY <1>4, <1>9, ProgramIs DEF IInv, Goto
  <2>4. \A t \in Streams : Untouched(t, d)'
    <3>1. \A t \in Streams : Left(t)' = Left(t)
      BY <2>1 DEF Left
    <3> QED
      BY <1>1, <2>1, <2>3, <3>1 DEF Network, Untouched, In
  <2>5. d[s] = Len(Value[s])
    BY <1>3, <1>9, EndOf
  <2>6. SinkInv(d)'
    BY <1>1, <1>3, <1>5, <1>6, <2>1, <2>3, <2>5 DEF SinkInv, In, Fn
  <2>7. Network(d)'
    BY <1>1, <1>4, <2>2, <2>4, <2>6 DEF Network
  <2>8. Len(x) <= Len(Value[s]) /\ Value[s] \in Seq(Int) /\ \A k \in 1 .. Len(x) : x[k] = Value[s][k]
    BY <1>4, <1>6, <2>5
  <2>9. IsPrefix(x, Value[s])
    BY <2>8, PrefixIs
  <2> QED
    BY <1>3, <1>5, <2>1, <2>7, <2>9
<1> QED
  BY <1>3, <1>8, <1>9 DEF SinkRead

LEMMA SinkEndNet ==
  ASSUME IInv, NEW d, Network(d), SinkEnd
  PROVE  /\ Network(d)'
         /\ Fn(pc) = "sink" => output = Value[In(pc, 1)]
<1>1. /\ at[Main] = "exit" /\ Children' = Children /\ at' = [at EXCEPT ![Main] = "none"]
      /\ result' = [result EXCEPT ![pc] = 0] /\ pc' = pc + 1
      /\ UNCHANGED <<program, readers, writers, pipe, out, in, first, value, output>>
  BY DEF SinkEnd, MainReturns, Goto, Children
<1>2. pc \in Children /\ Fn(pc) \in {"sink", "head"} /\ Free(program[pc])
  BY <1>1 DEF IInv, PlaceInv
<1>3. PICK s \in Streams : s = In(pc, 1) /\ read[s] = 0
  BY <1>2, SinksAre
<1>4. /\ read' = [read EXCEPT ![s] = 1] /\ read \in [Streams -> {-1, 0, 1}]
      /\ at'[Main] = "none" /\ \A q \in Children : at'[q] = at[q]
  BY <1>1, <1>3, ProgramIs, BuffersIs DEF SinkEnd, IInv, TypeOK
<1>5. \A t \in Streams : read[t] = -1 <=> read'[t] = -1
  BY <1>3, <1>4
<1>6. /\ \A t \in Streams : Carrying(t, d)' /\ Open(t)'
      /\ \A q \in Children : Process(q, d)'
  BY <1>1, <1>4, <1>5, QuietNet
<1>7. ASSUME NEW t \in Streams PROVE Untouched(t, d)'
  <2>1. Left(t)' = Left(t)
    BY <1>1 DEF Left
  <2>2. read'[t] = -1 => Left(t)' = <<>>
    BY <1>5, <2>1 DEF Network, Untouched
  <2>3. read'[t] # 1 => d[t] = 0
    BY <1>3, <1>4 DEF Network, Untouched
  <2> QED
    BY <2>2, <2>3 DEF Untouched
<1>8. SinkInv(d)'
  <2>1. pc \in SinkCalls'
    <3>1. result'[pc] = 0
      BY <1>1, <1>2 DEF IInv, TypeOK, Children
    <3> QED
      BY <1>1, <1>2, <3>1 DEF SinkCalls, Children, Fn
  <2>2. result'[pc] = 0
    BY <1>1, <1>2 DEF IInv, TypeOK, Children
  <2> QED
    BY <1>4, <2>1, <2>2 DEF SinkInv
<1>9. Fn(pc) = "sink" => output = Value[In(pc, 1)]
  <2> SUFFICES ASSUME Fn(pc) = "sink" PROVE output = Value[In(pc, 1)]
    OBVIOUS
  <2>1. Value[s] \in Seq(Int) /\ output \in Seq(Int)
    BY <1>3, ReadIsMade DEF IInv, TypeOK
  <2>2. PICK x \in Seq(Int), z \in Seq(Int) : x = output /\ z = Value[s]
    BY <2>1
  <2>3. Len(x) = Len(z) /\ \A k \in 1 .. Len(x) : x[k] = z[k]
    BY <1>1, <1>3, <2>2 DEF Network, SinkInv
  <2>4. x = z
    BY <2>3, SeqEqual
  <2> QED
    BY <1>3, <2>2, <2>4
<1> QED
  BY <1>1, <1>6, <1>7, <1>8, <1>9 DEF Network

-----------------------------------------------------------------------------
(* OutputIsValue.                                                          *)

KInv == Building => \E d : Network(d)
OInv == IInv /\ KInv /\ OutputIsValue

LEMMA InitNet == Init => OInv
<1> SUFFICES ASSUME Init PROVE OInv
  OBVIOUS
<1>1. IInv
  BY InitInv
<1> DEFINE d == [s \in Streams |-> 0]
<1>2. \A s \in Streams : Left(s) = <<>>
  BY ConcatEmptySeq DEF Init, Left
<1>3. \A s \in Streams : Carrying(s, d) /\ Untouched(s, d) /\ Open(s)
  BY <1>2 DEF Init, Carrying, Untouched, Open
<1>4. \A p \in Children : Process(p, d)
  BY DEF Init, Process, Children, Procs
<1>5. SinkInv(d)
  BY DEF Init, SinkInv, Procs, Main
<1>6. Network(d)
  BY <1>3, <1>4, <1>5 DEF Network
<1>7. OutputIsValue
  <2> SUFFICES ASSUME NEW i \in SinkCalls
               PROVE  IsPrefix(output, Value[In(i, 1)]) /\ result[i] # 0
    BY DEF OutputIsValue
  <2>1. i \in Children /\ Fn(i) \in {"sink", "head"} /\ result[i] = -1 /\ output = <<>>
    BY DEF SinkCalls, Children, Init
  <2>2. In(i, 1) \in Made
    <3>1. In(i, 1) \in Ins(program[i])
      BY <1>1, <2>1, CallIs DEF IInv, Shape, In, Fn, ReadsTwo
    <3>2. PICK k \in 1 .. i - 1 : In(i, 1) \in Outs(program[k])
      BY <1>1, <2>1, <3>1, ProgramIs DEF IInv, ProperProgram, Children
    <3>3. k \in Children
      BY <1>1, <2>1, <3>2, ProgramIs DEF IInv
    <3> QED
      BY <3>2, <3>3 DEF Made, Children
  <2>3. Value[In(i, 1)] \in Seq(Int)
    BY <1>1, <2>2, ValueTyped DEF IInv
  <2>4. output \in Seq(Int) /\ Len(output) = 0
    BY <2>1
  <2>5. PICK x \in Seq(Int), z \in Seq(Int) : x = output /\ z = Value[In(i, 1)] /\ Len(x) = 0
    BY <2>3, <2>4
  <2>6. Len(x) <= Len(z) /\ \A k \in 1 .. Len(x) : x[k] = z[k]
    BY <2>5
  <2>7. IsPrefix(x, z)
    BY <2>6, PrefixIs
  <2> QED
    BY <2>1, <2>5, <2>7
<1> QED
  BY <1>1, <1>6, <1>7 DEF OInv, KInv

\* A step that neither reads for the sink nor ends it.
LEMMA SameOutput ==
  ASSUME OutputIsValue, UNCHANGED <<program, output>>,
         \A i \in SinkCalls' : result'[i] = result[i]
  PROVE  OutputIsValue'
<1>1. Value' = Value
  BY SameNetwork
<1>2. \A i \in SinkCalls' : i \in SinkCalls
  BY DEF SinkCalls, Fn
<1> QED
  BY <1>1, <1>2 DEF OutputIsValue, In, Fn

LEMMA LinkOut == OInv /\ Link => OInv'
<1> SUFFICES ASSUME OInv, Link PROVE OInv'
  OBVIOUS
<1>1. IInv /\ OutputIsValue /\ KInv
  BY DEF OInv
<1>2. IsLink(program[pc]) /\ result' = [result EXCEPT ![pc] = 0] /\ UNCHANGED <<program, output>> /\ pc \in Children
  BY DEF Link, MainReturns, Children
<1>3. Building
  BY <1>2 DEF Building, IsLink, Fn
<1>4. KInv'
  BY <1>1, <1>3, LinkNet DEF KInv
<1>5. OutputIsValue'
  <2>1. \A i \in SinkCalls' : i # pc /\ i \in Children
    BY <1>2 DEF SinkCalls, Fn, IsLink, Children
  <2>2. \A i \in SinkCalls' : result'[i] = result[i]
    BY <1>1, <1>2, <2>1 DEF IInv, TypeOK, Children
  <2> QED
    BY <1>1, <1>2, <2>2, SameOutput
<1> QED
  BY <1>1, <1>4, <1>5, LinkInv DEF OInv

LEMMA RefuseOut == OInv /\ Refuse => OInv'
<1> SUFFICES ASSUME OInv, Refuse PROVE OInv'
  OBVIOUS
<1>1. IInv /\ OutputIsValue /\ KInv
  BY DEF OInv
<1>2. Fn(pc) # "free" /\ result' = [result EXCEPT ![pc] = 1] /\ UNCHANGED <<program, output>> /\ pc \in Children
  BY DEF Refuse, MainReturns, Children
<1>3. Building
  BY <1>2 DEF Building
<1>4. KInv'
  BY <1>1, <1>3, RefuseNet DEF KInv
<1>5. OutputIsValue'
  <2>1. result'[pc] = 1
    BY <1>1, <1>2 DEF IInv, TypeOK, Children
  <2>2. \A i \in SinkCalls' : i # pc /\ i \in Children
    BY <1>2, <2>1 DEF SinkCalls, Fn, Children
  <2>3. \A i \in SinkCalls' : result'[i] = result[i]
    BY <1>1, <1>2, <2>2 DEF IInv, TypeOK, Children
  <2> QED
    BY <1>1, <1>2, <2>3, SameOutput
<1> QED
  BY <1>1, <1>4, <1>5, RefuseInv DEF OInv

LEMMA SinkStartOut == OInv /\ SinkStart => OInv'
<1> SUFFICES ASSUME OInv, SinkStart PROVE OInv'
  OBVIOUS
<1>1. IInv /\ OutputIsValue /\ KInv
  BY DEF OInv
<1>2. UNCHANGED <<program, output, result, pc>> /\ pc \in Children /\ Fn(pc) # "free"
  BY DEF SinkStart, Children
<1>3. KInv'
  BY <1>1, <1>2, SinkStartNet DEF KInv, Building
<1>4. OutputIsValue'
  BY <1>1, <1>2, SameOutput
<1> QED
  BY <1>1, <1>3, <1>4, SinkStartInv DEF OInv

LEMMA SinkReadOut == OInv /\ SinkRead => OInv'
<1> SUFFICES ASSUME OInv, SinkRead PROVE OInv'
  OBVIOUS
<1>1. IInv /\ OutputIsValue /\ KInv
  BY DEF OInv
<1>2. UNCHANGED <<program, result, pc>> /\ pc \in Children /\ Fn(pc) \in {"sink", "head"} /\ Free(program[pc])
  BY <1>1 DEF SinkRead, IInv, PlaceInv
<1>3. PICK d : Network(d)
  BY <1>1, <1>2 DEF KInv, Building
<1>4. IsPrefix(output', Value[In(pc, 1)]) /\ KInv'
  BY <1>1, <1>3, SinkReadNet DEF KInv
<1>5. OutputIsValue'
  <2>1. Value' = Value /\ SinkCalls' = SinkCalls
    BY <1>2, SameNetwork DEF SinkCalls, Fn
  <2>2. \A i \in SinkCalls : In(i, 1) = In(pc, 1) /\ result[i] # 0
    BY <1>1, <1>2, SinksAre
  <2> QED
    BY <1>2, <1>4, <2>1, <2>2 DEF OutputIsValue, In, Fn
<1> QED
  BY <1>1, <1>4, <1>5, SinkReadInv DEF OInv

LEMMA SinkEndOut == OInv /\ SinkEnd => OInv'
<1> SUFFICES ASSUME OInv, SinkEnd PROVE OInv'
  OBVIOUS
<1>1. IInv /\ OutputIsValue /\ KInv
  BY DEF OInv
<1>2. /\ UNCHANGED <<program, output>> /\ result' = [result EXCEPT ![pc] = 0]
      /\ pc \in Children /\ Fn(pc) \in {"sink", "head"}
  BY <1>1 DEF SinkEnd, MainReturns, IInv, PlaceInv
<1>3. PICK d : Network(d)
  BY <1>1, <1>2 DEF KInv, Building
<1>4. KInv' /\ (Fn(pc) = "sink" => output = Value[In(pc, 1)])
  BY <1>1, <1>3, SinkEndNet DEF KInv
<1>5. OutputIsValue'
  <2>1. Value' = Value
    BY <1>2, SameNetwork
  <2>2. ASSUME NEW i \in SinkCalls'
        PROVE  /\ IsPrefix(output, Value[In(i, 1)])
               /\ result'[i] = 0 /\ Fn(i) = "sink" => output = Value[In(i, 1)]
    <3>1. i \in Children /\ (i # pc => result'[i] = result[i])
      BY <1>1, <1>2 DEF SinkCalls, Children, IInv, TypeOK
    <3>2. i \in SinkCalls
      <4>1. result[pc] = -1
        BY <1>1, <1>2, ProgramIs DEF IInv, CallsInv
      <4> QED
        BY <1>2, <3>1, <4>1 DEF SinkCalls, Fn
    <3> QED
      BY <1>1, <1>4, <3>1, <3>2 DEF OutputIsValue
  <2> QED
    BY <1>2, <2>1, <2>2 DEF OutputIsValue, In, Fn
<1> QED
  BY <1>1, <1>4, <1>5, SinkEndInv DEF OInv

\* The streams are freed last.
LEMMA FreeOut == OInv /\ FreeStream => OInv'
<1> SUFFICES ASSUME OInv, FreeStream PROVE OInv'
  OBVIOUS
<1>1. IInv /\ OutputIsValue /\ KInv
  BY DEF OInv
<1>2. /\ UNCHANGED <<program, output>> /\ result' = [result EXCEPT ![pc] = 0] /\ pc' = pc + 1
      /\ pc \in Children /\ Fn(pc) = "free"
  BY DEF FreeStream, MainReturns, Children
<1>3. KInv'
  <2>1. ~Building'
    BY <1>1, <1>2, ProgramIs DEF Building, IInv, ProperProgram, Children, Fn
  <2> QED
    BY <2>1 DEF KInv
<1>4. OutputIsValue'
  <2>1. \A i \in SinkCalls' : i # pc /\ i \in Children
    BY <1>2 DEF SinkCalls, Fn, Children
  <2>2. \A i \in SinkCalls' : result'[i] = result[i]
    BY <1>1, <1>2, <2>1 DEF IInv, TypeOK, Children
  <2> QED
    BY <1>1, <1>2, <2>2, SameOutput
<1> QED
  BY <1>1, <1>3, <1>4, FreeInv DEF OInv

LEMMA MainExitOut == OInv /\ MainExit => OInv'
<1> SUFFICES ASSUME OInv, MainExit PROVE OInv'
  OBVIOUS
<1>1. IInv /\ OutputIsValue /\ KInv
  BY DEF OInv
<1>2. UNCHANGED <<program, output, result, pc>> /\ pc = Len(program) + 1
  BY DEF MainExit
<1>3. KInv'
  <2>1. ~Building'
    BY <1>1, <1>2, ProgramIs DEF Building, IInv, Children
  <2> QED
    BY <2>1 DEF KInv
<1>4. OutputIsValue'
  BY <1>1, <1>2, SameOutput
<1> QED
  BY <1>1, <1>3, <1>4, MainExitInv DEF OInv

LEMMA ChildOut == ASSUME OInv, NEW p \in Children, Child(p) PROVE OInv'
<1>1. IInv /\ OutputIsValue /\ KInv
  BY DEF OInv
<1>2. IInv' /\ UNCHANGED <<program, output, result, pc>>
  BY <1>1, ChildInv DEF ChildStep
<1>3. Building' = Building
  BY <1>2 DEF Building, Fn, Children
<1>4. KInv'
  BY <1>1, <1>3, ChildNetwork DEF KInv
<1>5. OutputIsValue'
  BY <1>1, <1>2, SameOutput
<1> QED
  BY <1>2, <1>4, <1>5 DEF OInv

LEMMA StutterOut == OInv /\ UNCHANGED vars => OInv'
<1> SUFFICES ASSUME OInv, UNCHANGED vars PROVE OInv'
  OBVIOUS
<1>1. IInv /\ OutputIsValue /\ KInv
  BY DEF OInv
<1>2. UNCHANGED <<program, pc, result, read, readers, writers, pipe, out, in, at, first, value, output>>
  BY DEF vars, netVars
<1>3. OutputIsValue'
  BY <1>1, <1>2, SameOutput
<1>4. KInv'
  <2> SUFFICES ASSUME Building, NEW d, Network(d) PROVE Network(d)'
    BY <1>1, <1>2 DEF KInv, Building, Fn, Children
  <2>1. Children' = Children /\ SinkCalls' = SinkCalls /\ Value' = Value
    BY <1>2, SameNetwork DEF Children, SinkCalls, Fn
  <2>2. /\ \A s \in Streams : Carrying(s, d)' /\ Open(s)'
        /\ \A q \in Children : Process(q, d)'
    BY <1>1, <1>2, QuietNet
  <2>3. \A s \in Streams : Untouched(s, d)'
    BY <1>2 DEF Network, Untouched, In, Left
  <2>4. SinkInv(d)'
    BY <1>2, <2>1 DEF Network, SinkInv, In, Fn
  <2> QED
    BY <2>1, <2>2, <2>3, <2>4 DEF Network
<1> QED
  BY <1>1, <1>3, <1>4, StutterInv DEF OInv

\* For every program, every size of the buffers and every schedule: what the sink
\* reads is, in order, what the functions of the network make of the items of its
\* sources, and when link_sink returns it has read all of it.
THEOREM SinkReadsValue == Spec => []OutputIsValue
<1>1. Init => OInv
  BY InitNet
<1>2. OInv /\ [Next]_vars => OInv'
  BY LinkOut, RefuseOut, SinkStartOut, SinkReadOut, SinkEndOut, FreeOut, MainExitOut, ChildOut, StutterOut DEF Next
<1>3. OInv => OutputIsValue
  BY DEF OInv
<1> QED
  BY <1>1, <1>2, <1>3, PTL DEF Spec
=============================================================================
