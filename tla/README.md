# Specifications of the projects' programs

The repository is a collection of small C projects. Most of what is hard in
them is concurrency: threads that share a ring buffer and one condition
variable, server threads that share a user table and the hidden state of
`strtok`, a peer whose answers arrive in pieces from a server that may die,
processes connected by bounded pipes. The rest is sequential code with many
cases at its boundaries: a processor simulator built from gates, with a trace
validator, and a file classifier whose tests share a stream and unchecked
buffers. These modules specify those programs in TLA+, check them with TLC on
small instances, and prove the most important properties of them with TLAPS
for instances of every size.

## 1. The system and its parts

| Part | Source | State it keeps | Operations |
|---|---|---|---|
| job queue | `Parallel_queues/job_queue.c`, `.h` | ring buffer (`buffer`, `first`, `num_used`), `dead`, one mutex, one condition variable | init, push, pop, destroy |
| worker-pool programs | `fibs.c`, `fauxgrep-mt.c`, `fhistogram-mt.c` | the input still to push; where main and each worker are | main: create, push, destroy, join; worker: pop, handle, free |
| shared histogram | `fhistogram-mt.c`, `histogram.h` | global counters, one local histogram per file, `stdout_mutex`, the screen | count a byte, merge, print |
| name server | `Server_client/name_server.c`, `.h` | user table (status, ip, port), the position of `strtok`, one `this_user` per thread | login, logout, lookup, the connection loop |
| hand-off | `name_server.c` main and `thread` | one `t_args` on main's stack, one heap cell per connection | malloc, accept, publish, create; read, free, close |
| peer | `peer.c`, `peer.h` | connected or not, the socket, one buffer for input and answers | login, logout, exit, other commands; read a line, a block |
| csapp wrappers | `csapp.c`, `csapp.h` | read buffers | `Rio_*`, `Open_*`; errors exit the process |
| stream transducers | `transducers.c`, `.h` | a flag per stream; pipes, stdio buffers, open ends per process | link_source, link_1, link_2, dup, link_sink, free_stream |
| divisible, test0 to test5 | same directory | none of their own | networks built with the library |
| x64 subset simulator | `Assembly/` | registers, memory, program counter, flags, the trace reader with its four entries | one cycle: fetch, decode, execute, validate, write back |
| file classifier | `ASCII_text_generator/file.c` | stream position, byte buffers on the stack | measure the paths; the six tests of each file; print |
| fauxgrep, with and without threads | `fauxgrep.c`, `fauxgrep-mt.c` | the walk over the entries, a file and a line number per worker, `stdout_mutex`, what is printed | visit an entry, read a line, print it |
| fhistogram without threads | `fhistogram.c` | its counters | sequential version of `fhistogram-mt.c` |
| `Server_client2/` | | | a second copy of the chat server |

How they interact. In the three threaded programs the main thread is the only
one that pushes and destroys, the workers are the only ones that pop; all meet
in the queue's mutex and condition variable, and the workers of
`fhistogram-mt` and `fauxgrep-mt` meet again in `stdout_mutex`. The chat server's main loop hands
a descriptor to a new detached thread through shared memory; the threads share
the user table without any lock, and a peer talks to its thread over a socket,
one request at a time. A transducer network is a tree of forked processes that
share nothing but pipes, and the read ends they inherit. The simulator and the
classifier are single threads: the validator (`support.c`) is called by the
cycle (`main.c`) before each write-back and ends the process when it objects;
the classifier's tests hand each other one open file.

What makes each correct, and what is hard about it, is listed in
`PROJECT.json` under "hazards", each at its line, with the properties that cover
it. In short:

* queue: no lost wake-up although three kinds of waiter share one variable; no
  access to the buffer after `destroy` has freed it; first in, first out
  through every wrap-round;
* pool: every job handled exactly once, and the program ends;
* histogram: no lost sum, no old picture over a new one;
* name server: nobody stays online without a connection, only the right peer
  is logged in, a lookup tells the truth, a dying peer harms nobody else;
* hand-off: each thread serves its own connection and frees its own cell;
* transducers: the output does not depend on the scheduling, a stream has one
  reader, and everything ends;
* peer: an answer is read to its end and no further, in whatever pieces it
  comes, and the status tells whether there is a connection;
* simulator: the multiplexers and the lookahead adder do what the instruction set
  says; the validator neither forgets a write nor accepts one that was not made;
* classifier: the type printed is that of the file, whatever the buffers and the
  stream position were left at, and the types stand in one column.

## 2. The modules

```
BoundedQueue  <--implements--  JobQueue  <--extends--  WorkerPool (MCWorkerPool)
                                                           |
                                                    WorkerPoolProofs

Grep  <--implements, file by file--  GrepThreads (MCGrep)

Histogram (MCHistogram)       NameServer (MCNameServer)     HandOff (MCHandOff)
   |                             |                             |
HistogramProofs               NameServerProofs              HandOffProofs

Transducers (MCTransducers)   Peer (MCPeer)                 FileType (MCFileType)
   |                             |                             |
TransducersProofs             PeerProofs                    FileTypeProofs

Isa  <--follows, with three departures--  Machine (MCMachine)  --extends-->  Words, Tracer
 |                                           |
 extends Addition                         MachineProofs
```

Each `MC*` module only defines the small sets its configurations use. In every
module an operator that is described as a faulty variant ("A main that would
destroy the queue again", "A merge that leaves from[i] as it was") stands just
before the definition it is a variant of. No specification uses it; it is there
to show which property notices that fault.

### JobQueue and BoundedQueue

`BoundedQueue` is what `job_queue.h` promises: a sequence, a flag that says it
is closed, and operations that take effect in one step between call and
return.

`JobQueue` is `job_queue.c`. A thread inside an operation is asking for the
mutex ("lock"), about to test its loop condition with the mutex held ("crit"),
or asleep ("wait"). `Acquire` is `pthread_mutex_lock` and also the way out of
`pthread_cond_wait`; `CondWait` is one turn of a while loop; `PushStore`,
`PopTake`, `Destroy` and `Refused` (a push or pop that gives up because the queue was
destroyed) are the rest of a critical section up to its broadcast and unlock, which is atomic because all of it is
under the mutex. `SpuriousWake` is the return from `pthread_cond_wait` that
POSIX allows at any time. Freed memory (`live` is false) may hold anything: a
load yields any value and a store may be lost. The buffer and its indices are
kept as they are in the code; `Contents` reads them as a sequence, and with it
`ImplementsBoundedQueue` says that the detailed module implements the abstract
one.

Two clients: `Next` allows what the programs do (`MayCall`: no push after or
during a destroy, one destroy; any number of threads may push and pop);
`OpenNext` allows every call at every time; the theorems `OpenTypeCorrect` and
`OpenWakeups` are about it, the run "pool" about the programs. `Result` keeps of a
return value only whether it is 0: the error of the code is 1, that of the header -1.

### WorkerPool

Extends `JobQueue` with the main thread and the workers, which all three
programs share: `MainPush` for every line or file, `MainDestroy`, `MainJoin`;
`WorkerPop`, `WorkerGot`, `WorkerHandle` (which stands for `fib_line`,
`fauxgrep_file` or `fhistogram`, and the free) and `WorkerQuit`. `KeepsContract` says
that the whole program is a client that `JobQueue!Next` describes, which is
what the properties of the queue assume.

### Histogram

The workers of `fhistogram-mt.c` after they have popped a file. A byte is the
set of its bits that are one. `to[i] += from[i]` is a load and a store
(`MergeLoad`, `MergeAdd`), and `print_histogram` reads all counters before it
draws (`PrintRead`, `PrintShow`), so that a missing lock would show. The code reads the
counters once for their sum and again while it draws (`histogram.h:28` and 39);
`PrintRead` stands for both, which see the same values because the mutex is held. What the screen
shows in the end is compared with what `fhistogram.c`, the program with one thread,
shows (`FhistogramShows`). `BitsConserved` counts tokens: a bit of a byte is a pair of
a file and a position (`Ones`), a bit that a local histogram still holds a pair of a
worker and a number (`Held`), and the sums are the cardinalities of these sets.

### Grep, GrepThreads

`Grep` is `fauxgrep.c`: it visits the entries of the walk one by one (`Skip`, or `Open`
... `Close`) and prints the lines that hold the needle (`Line`). `GrepThreads` is
`fauxgrep-mt.c`: `Walk`, `Destroy` and `Join` are main, the others a worker, with the
lock, the printf and the unlock of each line found as steps of their own. `One(f)` is
the program with one thread on entry f alone, under a refinement mapping that reads
its state from the worker that has f.

### NameServer

One step is one access to shared state: a `strtok` call, a load or store of a
status, a socket call. `saved` is what `strtok(NULL, ...)` has still to
return, for the whole process; copying the NULL that it returns at the end
kills the server (`CrashOn`). The peers follow `peer.h`: one login per
connection, one request at a time, and they may be killed at any time. A
killed peer's socket delivers what was sent, then an end of file (`fin`), or a
reset (`rst`) when it left an answer unread or when the server writes to it
afterwards; reading from a reset connection makes `Rio_readlineb` exit the
process, writing to one raises SIGPIPE. `calm` is a history variable: it is
true as long as the peers have taken turns, a request or a kill happening only
while all threads wait for input. The names that are typed (`Names`) are those of
users and of nobody, since the peer passes on what was typed and the server refuses a name it
does not find; a login whose name is unknown still leaves `this_user` on the first user.

### HandOff

The main loop and the first lines of `thread`, at the grain of single loads and
stores of the shared pointer. `SpacedSpec` adds that an accept returns only
when earlier threads have freed their cells, which holds when logins come more
than a few microseconds apart. That is an assumption about the environment and no line
of the code; `Spec`, which the run "hand_off_shared" checks, does not make it.

### Transducers

A program is the sequence of its calls. `Link` is `pipe`, `fork` and the
closing of unused ends in both processes, for link_source, link_1, link_2 and
dup alike; `Refuse`, `SinkStart`, `SinkEnd` and `FreeStream` are the others.
Each stream is a bounded pipe between two stdio buffers, with the sets of
processes that hold its ends: end of file needs an empty set of writers and
SIGPIPE an empty set of readers, and a child inherits the read ends that main
has open. The functions that the processes run are those of `divisible.c` and
of the tests. `Value` defines, without processes, what each stream should
carry: one recursive function over the streams that some call makes (`Made`), each
step of which is a function of the library on whole sequences (`Carries`). The n-th
item that filter_streams passes is the one beside the n-th nonzero item (`Passing`,
`Rank`). `ProperProgram` says which programs are considered: a stream is used after it
was made, by a call that gives it to no second argument; a call that is repeated is
the same call; divisors are positive, all sinks read one stream, and the streams are
freed last, as `transducers.h:31` has it. `divisible.c` and the tests are of this kind.

### Peer

One peer, one connection, at the grain of `read` and `write`. A line is a
sequence of symbols, each a stretch of bytes that knows the command it belongs
to; `rio_writen` and the server move them in pieces of any size, `rio_read` refills
its buffer with any piece of what has arrived, and `rio_readlineb` takes one symbol
at a time. `input` is the one buffer of `main`: the user's line, then the answer,
and at the end of the stream whatever was there before (`ReadEOF`). `Returned` is
what the caller does with a line: `LoginReply`, `LogoutReply`, `Reply`, `ListLine`.
The server is only what `name_server.h` says it writes (`Answers`; `NameServer`
models it in full); it may die at any point, with an answer half written, and be
started again. A write to a closed connection is accepted once and then brings a
reset; a read or write after that ends the process.

### Words, Tracer, Machine, Isa, Addition

`Words` has the gates, the adder and the ALU. A 64-bit `val` is the set of the
positions of its one bits, so that the model has the real width, `and` is an
intersection and `unzip` and `zip` rename positions; `gen_pg` and `gen_c` are the two
directions of the lookahead tree. `Addition` defines the carry chain of school
addition, the sum, and the sign test for overflow, as the reference for the adder.

`Tracer` is `support.c`: `Fill` reads until four entries are buffered or the file
ends, `validate_magic` looks for the first entry that is stale or matches and
removes it or sets `error`, the message the process exits with.

`Machine` is `main.c` and `memories.c`. Every named `val` of the datapath is an
operator of the decoded instruction `d`, and of `junk`, what an unchecked
`memory_read` outside the memory finds: each of the two reads of a fetch and the read of
the data may find something else. `Cycle` is one turn of the while loop, with
validation before the write-back, and no write-back when it fails. The registers
start with anything (`malloc`).

`Isa` is the instruction set as the programmer sees it: one action per instruction, no
control signals, no multiplexers, ordinary addition. Where the comments and the test
files say something else than the program does, `Isa` follows them: overflow is the sign
test of `arithmetic.c:60`, a load writes its register
(`testfiles/MtoR.x64.trace`), a return moves %rsp (`testfiles/ultimate.x64.trace`).
`FollowsISA` says that every cycle of the machine is a step of `Isa` or one of three named
departures (`LoadIsLost`, `StackIsKept`, `OverflowIsOfCarries`), each of which says what the
program does instead; `ImplementsISA` allows no departure and fails. Where nothing in the
repository says otherwise `Isa` takes the program's own choice: an immediate is not sign-extended,
an instruction that is not arithmetic clears the flags, an unknown condition holds.

### FileType

One step is one `fread`, one decision of `determine_file_type`, or one argument. A
byte is the class the macros put it in. `pos` is the stream position, `buffer` the one
byte a test reads into, which keeps its value when `fread` finds nothing; `due` counts
the continuation bytes of a UTF-8 sequence still expected; `max_length` starts with
garbage. The size, which the empty, ASCII and ISO tests take from `ftell`, is cut to an `int`
(`AsInt`, with `IntLimit` for 2^31), so that a file of 2^32 bytes is empty and the loops do not run
over one of a little more than 2^31; for exactly 2^31 bytes `size - 1` is undefined, and `wraps` says
whether the build wraps around. `Classify` says, without order or buffers, which type a file
has; its UTF-8 texts consist of whole characters. `Verdict` adds to it what the unchecked `fread`
does: a text that is cut short inside its last character (`CutShort`) is called UTF-8.

## 3. What the runs check

| Run | Instance | States (about) | Shows |
|---|---|---|---|
| pool | 3 workers, 4 jobs, capacity 2 | 20,000 | `NoLostWakeup`, `KeepsContract`, `ImplementsBoundedQueue`, `NoUseAfterFree`, `JobsConserved`, `DoneMeansHandled`, `Terminates` |
| histogram | 2 workers, 5 files, 2-bit bytes, merge every 2 bytes | 4,700 | `TypeOK`, `BitsConserved`, `ScreenCurrent`, `EndsWithTotal` |
| grep | 2 workers, 8 entries (two directories or other, one that cannot be opened, an empty one), queue of 2 | 7,800 | `EachLikeFauxgrep`: file by file, the program with threads refines the one without, and it ends |
| name_server | 2 connections, 2 users, logins with their names and an unknown one and all passwords, 1 further request each | 424,000 | `NoGhostOnline`, `DeadPeerNoticed`, `EveryRequestAnswered` always; `TableExact`, `RefusedRightly`, `LookupExact` as long as peers take turns |
| transducers | 5 networks, buffers of 1 item, pipes of 2 | 38,000 | `TypeOK`, `OutputIsValue`, `TakenOnce`, `AllEnd` |
| peer | 5 commands, 2 deaths of the server, a read buffer of 2 symbols, lines of up to 3 | 18,000 | `AnswersInStep`, `StatusTellsConnection`, `CommandReturns` |
| machine | 5 of the repository's test programs with their traces, unchanged and with one line missing, wrong or exchanged; programs of 2 or 3 instructions from a table of 34; 4 register files; up to 6 cycles | 21,000 | `FollowsISA`, `WritesNotForgotten`, `UsedLinesAreTrue` |
| file_type | every file of up to 4 bytes over 10 classes; all pairs and triples of arguments over 6 contents, one of them a missing file; pairs that start with one of 5 files of 7 to 18 bytes, where an int ends at 8; garbage below and above every length | 543,000 | `VerdictRight`, `Aligned`, `EveryFileReported` |

Why these bounds. Capacity 2 with 4 jobs wraps the ring twice and makes main
wait for room and the workers wait for jobs; three threads are needed for a
signal to wake the wrong kind of waiter. The files of the histogram end before,
at and after a multiple of the merge period, one is empty and one cannot be
opened. Two connections are enough for any pair of threads to interleave, two
users for one to be the first of the list and one not. Buffers of one item and
pipes of two make every network block in both directions with inputs of a few
items; the real ones hold 4096 bytes and 64 KiB, and a write of a whole stdio
buffer is atomic in both (PIPE_BUF).

For the peer, the longest line fills its buffer exactly and every answer takes
several reads; two deaths let one connection die and the next one too. A
sequence of four bytes is the longest character, and every defect of a UTF-8 text
shows within one character and its neighbour. With the limit of an int at 8 the sizes of the long
files become -8, -7, 0 and 2, every case that the cut can bring. In the programs of the machine the
second and third instruction see what the first left in registers, memory and
flags; the registers hold values on both sides of the sign bit, and the stack
pointer starts inside and outside the memory.

Four more runs are expected to fail, each on one property that states what a
comment of the code says:

| Run | Property | What happens |
|---|---|---|
| login_genuine | `LoginGenuine` | two logins interleave in `strtok`, and a user is registered with words of somebody else's line |
| hand_off_shared | `ConnectionsServedApart` | two accepts close together: both threads read the second descriptor |
| overflow | `ImplementsISA` | an addition or subtraction near the ends of the signed range gets an overflow flag that is not that of the sign test of `arithmetic.c:60` |
| utf8 | `UTF8Whole` | a file that ends inside a character is called UTF-8, although `file.c:218` says that the next bytes are checked |

`login_genuine` types only the names of the two users, to keep its counterexample short. The
images of `overflow` have an arithmetic instruction and a jump, and no trace, so that its
counterexample is the flag and neither a load nor a return; that these are the only
other departures is what `FollowsISA` says.

Other disagreements that were met while modelling and have no run of their own:

* `job_queue_push` tests `dead` only while the queue is full (`job_queue.c:46`), so a
  push after the destroy stores into freed memory and returns 0, where
  `job_queue.h:28` promises an error. `KeepsContract` shows that no program does it.
* `fauxgrep-mt` without `-n` creates no worker (`num_threads` starts at 0 in line 81),
  and main waits for ever in push or destroy. The run "pool" has workers.
* A connection that dies before its login takes the first user of the list offline
  (`this_user` at `name_server.h:193` and 200); `TableExact` excepts this case.
* A peer that is killed with an answer on its way ends the whole server: the
  read at `name_server.h:197` fails and its wrapper exits before the test for a dead
  connection at line 198.
* `job_queue_pop` on a destroyed queue returns 1; `job_queue.h:36` says -1.
* `login` tests the status (`name_server.h:76`) and sets it (line 80) apart, so
  two logins of one user at the same time both succeed.
* `dup` feeds its two copies in turn, so a network that reads one copy to its
  end first (test4.c, test5.c) stops once the input no longer fits into the
  pipe of the other: with the model's sizes from three items on. The tests'
  inputs are short.
* `transducers_free_stream` does nothing for a stream that was never used. With
  such a stream and a sink that stops early, a dup can wait for room in the
  unused copy for ever, because children that were forked later have inherited
  its read end and themselves wait for that dup; they outlive main.
* The peer reads a block until an empty line (`peer.h:114`). If the server dies
  after a line of it that is not empty, the loop never ends and prints that line
  again and again; `CommandReturns` names this state, `EndlessBlock`, as the only
  one in which a command may stay. Dying after an empty line ends the block.
* The validator looks up the register write of a cycle *or else* its memory write
  (`main.c:221-226`), so the memory line of a push or call is never used. The
  reference traces have that line: of the shipped test programs, push, fulltest, ultimate and
  test_add stop with "missed write for earlier instruction" one cycle later, a
  behaviour the run "machine" reaches with push.x64.
* A load from memory enables no register write, and a return does not change %rsp
  (`main.c:190`), against the reference traces; `FollowsISA` names both.
* Data addresses count cells of 8 bytes, instruction addresses bytes. Every instruction that
  is not arithmetic clears the flags, so a conditional move resets the condition for a jump
  after it.
* The size of a file is an `int` (`file.c:127`, 151 and 177): a file of 2^32 bytes is reported as
  empty, and one between 2^31 and 2^32 bytes as ASCII text, because the loop over it does
  not run. `VerdictRight` is about files whose size fits; `EveryFileReported` about all but the one
  size for which the loop may not end.

### Fairness

`WorkerPool`, `GrepThreads`, `Histogram` and `Transducers` assume weak fairness of the
whole next-state relation only: the operating system does not stop the whole
program while some thread or process can run. That is enough since each
handles finitely many items. In `WorkerPool`, wake-ups that nobody caused are
not counted as progress (`Progress`), and `Terminates` assumes that they do not
go on for ever. `NameServer` assumes weak fairness of each thread and of each
peer's reading of its answer: threads run independently, and no lock is taken.
Nothing is assumed of what people type or when peers are killed. `Peer` assumes
weak fairness of the peer's writes and reads and of the server's reads and
writes while it is up, and nothing of deaths and restarts. `FileType` and `Machine` are one
thread that never waits, and assume weak fairness of their next-state relations (`Machine`
only in `FairSpec`, which the run "overflow" uses).

`CHECK_DEADLOCK FALSE` is set where the program ends, or may be left alone by
its users; `AllEnd`, `Terminates`, `EndsWithTotal` and `EachLikeFauxgrep` say that what should end
does.

## 4. What is proved

Eight modules hold theorems; each proves its own components for every value of
the constants. The hypotheses are the named assumptions of the modules, which TLC
evaluates in every run:

* `CapacityAssumption`, `ThreadsAssumption`, `JobsAssumption`: the capacity is positive; main
  is not a worker and the workers are finitely many; the jobs are a sequence;
* `NoneAssumption` (of `JobQueue` and of `NameServer`): `None` is none of the other values;
* `PeriodAssumption`, `FilesAssumption`, `WorkersAssumption`: a byte has bits and the merges
  come after a positive number of bytes; files are sequences of bytes; there is a
  worker, and there are finitely many;
* `UsersAssumption`, `PasswordAssumption`, `LookupsAssumption`: the user table is not empty, its
  names differ and have passwords; the other lines that peers type are not logins;
* `PeerAssumption`: the buffers of the peer have room for a symbol;
* `ProgramsAssumption`, `StreamsAssumption`, `SizesAssumption` of `Transducers`: the programs are
  proper ones, the streams are numbered, a stdio buffer holds an item and a pipe at
  least as much as a stdio buffer;
* `MachineAssumption`: memories and registers hold 64-bit words, and a trace lists its lines
  in the order of their instructions;
* `FileTypeAssumption`: an argument has a length and a content or none, an int has a limit.

The names that peers type are arbitrary. The theorems about the hand-off have as their
hypothesis `Sizes`: there are as many connections as a number says, with cells and descriptors
enough for them; they hold of `SpacedSpec`, which no run checks. One more theorem has a
hypothesis of its own: `AnswersAreInStep` asks for `MAXLINE >= 4`, so
that the longest line of an answer, of three symbols, fits into the buffer with the 0 at
its end. The code's MAXLINE is 8192, and no answer has a line of that length.

| Theorem | Under | Establishes |
|---|---|---|
| `OpenTypeCorrect`, `OpenWakeups` | `OpenSpec` | `TypeOK`, `NoLostWakeup`, for any calls by any threads |
| `TypeCorrect`, `Wakeups`, `NeverUsedAfterFree`, `Refinement` | `Spec` | the same and `NoUseAfterFree`, and `ImplementsBoundedQueue` |
| `ContractKept` | `PoolSpec` | `KeepsContract`: the programs are clients of that kind |
| `PoolTypeCorrect`, `PoolWakeups`, `PoolNeverUsedAfterFree`, `PoolRefinement` | `PoolSpec` | what follows from it for the programs |
| `EachJobInOnePlace`, `AllHandledAtEnd` | `PoolSpec` | `JobsConserved`, `DoneMeansHandled` |
| `ServesOwn`, `Balanced`, `SpacedTypeCorrect` | `SpacedSpec`, `Sizes` | `OwnConnection`, `CellsBalanced`, `TypeOK` of the hand-off |
| `TypesKept`, `BitsAreConserved`, `ScreenIsCurrent` | `Spec` of `Histogram` | `TypeOK`, `BitsConserved`, `ScreenCurrent` |
| `TotalAtExit` | `Spec` of `Histogram` | when all workers have left, the screen shows what `fhistogram` shows |
| `NoGhosts`, `TypesKept` | `Spec` of `NameServer` | `NoGhostOnline`, `TypeOK` |
| `TableIsExact`, `RefusalsAreRight`, `LookupsAreExact` | `Spec` of `NameServer` | `TableExact`, `RefusedRightly`, `LookupExact`: what holds while peers take turns |
| `CalmLoginsAreGenuine` | `Spec` of `NameServer` | `LoginGenuine` while peers take turns (the run login_genuine shows that it fails otherwise) |
| `NetworkTyped`, `StreamsTakenOnce`, `SinkReadsValue` | `Spec` of `Transducers` | `TypeOK`, `TakenOnce`, `OutputIsValue` |
| `CarriesAreChain`, `AdderAdds`, `ChainRipples` | all words | the lookahead adder computes the carries, and so the sum, of school addition |
| `MachineTyped`, `NothingForgotten`, `LinesAreTrue`, `Follows` | `Spec` of `Machine` | `TypeOK`, `WritesNotForgotten`, `UsedLinesAreTrue`, `FollowsISA` |
| `FileTyped`, `VerdictsRight`, `OneColumn` | `Spec` of `FileType` | `TypeOK`, `VerdictRight`, `Aligned` |
| `PeerTyped`, `StatusTold` | `Spec` of `Peer` | `TypeOK`, `StatusTellsConnection` |
| `AnswersAreInStep` | `Spec` of `Peer`, `MAXLINE >= 4` | `AnswersInStep` |

**WorkerPoolProofs, the queue.** `TypeOK` and `NoLostWakeup` are inductive only with
`HolderInv` (the thread in a critical section is the one that holds the mutex, so a
change of `num_used` meets no second thread between test and sleep),
`OutsideInv` (a thread outside an operation is at no place in one) and `ItemInv`
(a pusher carries a job). This is `OpenInv`, kept by every call of every
client. `NoUseAfterFree` adds `FreedInv` (the buffer is freed where `dead` is set)
and `DrainedInv` (a destroyed queue is empty, and nobody pushes or destroys
any more), which holds only for clients that keep the contract: a destroyed queue
stays empty, so every popper is blocked and gives up before it would touch the
buffer. The refinement is proved from the same invariant; `RingIndex`, `IndexInRange`
and `CellsDiffer` bound the ring's arithmetic, `PushAppends` and `PopTakesHead`
say that the two array accesses append to and take the head of `Contents`, and
`StepRefines` goes through the actions.

**WorkerPoolProofs, the programs.** `RolesInv` says who calls what (workers only pop, main
pushes until it destroys), and gives `ContractKept`: a step of the programs is a
step that `JobQueue!Next` allows. With it the theorems about the queue carry over.
For `JobsConserved`, `CountAppend` and `CountTail` count the copies of a job in a
sequence that grows or shrinks by one, `HandChange` does so for the set of
threads that carry one, and `StepTotal` shows that each step moves at most one
copy from one place to the next. It needs to know where a worker is
(`WorkInv`), so that a job is taken off the count of hands exactly when it is
handled. `EndInv` adds that main destroys only after the last push and leaves
only after the joins; with the sum this gives `DoneMeansHandled`.

**HistogramProofs.** `HInv` joins the properties with `MutexInv` (the mutex is held exactly
from lock to unlock, so what a merge has loaded and what a drawing has read are still
there), `LocalInv` (the counters a merge has passed are zero, and all are zero before
the next file) and `FileInv` (a file that was taken is read to its end or belongs to one
worker, so nobody else moves its position). With the sums as cardinalities no induction
over files or workers is needed: reading a byte adds one token for each of its bits on
both sides, and adding a counter takes the tokens of one worker away as they come to `global`.
`TotalAtExit` follows: with nobody at work nothing is held, every file has been read to its
end, and the screen is current. It is the safety half of `EndsWithTotal`.

**HandOffProofs.** The invariant says which threads exist and have started
(`ThreadsInv`), that the cell main prepares holds the descriptor of the newest
connection (`MainInv`), that a thread that still needs the shared pointer finds
it unmoved and its cell unfreed (`PendingInv`), and who owns each allocated cell
(`CellsInv`). `PendingInv` is where the condition of `SpacedSpec` enters: an
accept finds no thread pending.

**NameServerProofs.** `NoGhostOnline` is not inductive: a thread that is about
to refuse a login also "has" its user, and leaves. The invariant asks for a
`Keeper`, a thread that has registered the user and to which no login is on its
way; that there is none rests on the peer sending its login first and once
(`PeerInv`). Nothing is assumed of what `strtok` returns. For `TypeOK`, `LoopInv` says that
the pass over the user table has counted at most the entries behind it and that `strtok` is
started on a line, never on an empty buffer.

The other theorems need what `strtok` returns, and that is known as long as peers take
turns. `CalmInv` says so: the server is up, at most one connection is not idle
(`OneActive`), a user is online exactly when one connection is registered for them
(`Table`), and for each connection (`Part`) there is at most one request or answer
between peer and thread (`Conversation`), the thread serves the user that logged in
(`Identity`), `saved` is what is left of its own line and what a login has checked still
holds (`LoginStage`), the passes of a lookup have seen what the table holds
(`LookupStage`), and an answer is the table as it is (`Exact`). A step of one connection
changes only its own part and one row of the table, which the idle others do not
read; a request or a kill while somebody is active ends `calm`.

**MachineProofs, the adder.** `Addition` says of a range of bits whether it passes a carry on
and whether it generates one; `PassesSplit`, `GeneratesSplit` and `CarrySplit` join two
neighbouring ranges. `GenPG` shows that each level of the tree holds exactly this for
groups of twice the size, `GenC` that the way down turns the carries into groups
into those into half groups. Six levels each way give `CarriesAreChain`: the carry into
every one of the 64 bits is that of the chain, for all operands. `AdderAdds` follows,
and `ChainRipples` shows that the chain is the recurrence of school addition.

**MachineProofs, the machine.** The refinement has a lemma for each instruction (`HaltStep` to
`PopStep`): decoding a word with that opcode switches every other multiplexer input
off (`Signals`, `OpcodesDiffer`, `GateLaws`), and what is left is the action of `Isa` or its departure. `EachStep` puts
them together, unknown opcodes included, and `CycleIsStep` adds the validator, which may
only end the program. `WritesNotForgotten` is inductive only with the type invariant
and with the order of what is left of the trace (`IInv`): `FillKeeps` shows that a refill
moves lines from the file to the buffer and loses none, `LookUp` that a successful
lookup takes one line of the current instruction and found no older one in the
buffer. Because the trace is in order, no older line can then be left in the file.
`UsedLinesAreTrue` is an action property over the same invariant: `Takes` says that a lookup
that succeeds removes one line from the trace as a whole, buffer and file
(`RemoveFromFront`), `ValidateTakes` that a cycle takes its pc line and at most one more, and
`ReportedRegister` that the register reported is the one written, or %rsp in a pop. It counts
positions and not lines, so that a trace may hold the same line twice.

**FileTypeProofs.** Each test of a file starts with what the tests before it have
found (`FileInv`), of a file whose size fits: the tests so far have failed on the whole content,
the stream is rewound, and in the middle of a test every byte before the stream position has passed. For
the UTF-8 test this is the hard part. `due` counts down within a character, while `IsUTF8`
counts the run of continuation bytes after a lead byte; `RunAtLeast` and `RunIs` say when
a run has at least or exactly n bytes, and `NextCharacter`, `OneMoreByte`, `SameByteAgain`
and `TooShort` join the two for a whole character, one more of its bytes, the end of the
file inside it (where the unchecked `fread` leaves the old byte in the buffer) and
a bad byte. What the test takes is `Accepted`, and this is `IsUTF8` or `CutShort`. `Marks` shows that the bytes of a byte order mark are never garbage: a
file of one byte FE or FF is ISO-8859 text and has been reported before. `OneColumn`
keeps two more conjuncts: while the paths are measured, every path before the
current one is at most `max_length` long (`ArgInv`), and every line printed has
`max_length` for its column (`PrintedInv`).

**PeerProofs.** `StatusTellsConnection` speaks of the prompt only; `SessionInv` says what
holds on the way there. On an open connection without a session either the login is
still on its way, cut anywhere between the peer and the server (`Asking`), or what is left
of the answer, over the line, the buffer, the pipe and the server's rest, begins
with `Error` and is not complete (`Refused`). So the first line that can return is the
refusal, and `LoginReply` closes the connection (`ReturnedInv`). With a session no login is on
its way (`NoLogin`), because `interpret` sends one only when it has just connected.
`StatusInv` ties `status` to the connection, and says that only connected peers wait.

`AnswersInStep` needs more of the same kind (`AnswerInv`). At every moment the answer to
the command under way is cut into what was shown, the line being read, the buffer, the
pipe and what the server has still to send, and their concatenation is known: `WaitInv`
has it before the first line returns, when either the request or the whole answer is on
its way, `BlockInv` within a block, where what is shown and what flows are one of the
finitely many ways to cut one at the end of a line (`Blocks`). `QuietInv` says that at the
prompt of a living connection nothing flows, `ShownInv` that what was shown bears the
number of the command just typed, `LineInv` that a line under way has no end yet, and
`ClosedInv` that without a death only a failed login or a logout closes the connection.
Since reads and writes move any piece, each step is an equation between concatenations.

**TransducersProofs.** `TakenOnce` rests on `IInv`: which calls are done (`CallsInv`), which
children have started (`PlaceInv`), and that a source counts in natural numbers (`SourceInv`).

`OutputIsValue` compares a network of processes with the function `Value`. First, `Value`
is what its recursion says (`ValueIs`). That a recursive definition over numbered streams
has a solution would be an induction; it is proved instead from the least stream at
which a solution would fail (`Least`, from the well-foundedness of the numbers as a
statement about sets). Items that filter_streams passes are counted by `Rank`, whose
lemmas (`RankNext` to `RankFound`) give `FilterIs`. Then `Network(d)`, where `d[s]` is how many items
have been read from stream s:

* `Carrying`: what lies in the writer's buffer, the pipe and the reader's buffer is, in
  this order, the next stretch of `Value[s]`;
* `Process`: each child has written exactly what it owes for what it has read, at each
  place of its function (`Stage`), has flushed what it has closed (`Flushed`) and holds
  the write ends it has not closed (`Holds`);
* `Untouched` and `Open`: streams not yet made are empty and those not yet taken unread, and main
  keeps all read ends while it builds, so that no child dies of SIGPIPE;
* `SinkInv`: the sink has what its stream carried so far.

The counts are a witness in the invariant (`KInv`), since no variable holds them: the
proof names the new `d` for each step. The `Stage` lemmas go through the functions,
`ReadMove` and `WriteMove` through buffers and pipe; `EndOf` shows that an end of file comes only
after the last item, because only a writer that has flushed its last item lets go of
its write end; `ChildNet` shows that a step of one child disturbs no other, because two
processes never read the same stream (`Apart`, which is `TakenOnce` at work). Streams are
freed last, when the sinks have returned, so `KInv` is needed only while main builds and
runs its sinks.

Not proved, and checked by TLC only:

* everything about liveness (`Terminates`, `EndsWithTotal`, `AllEnd`, `DeadPeerNoticed`,
  `EveryRequestAnswered`, `CommandReturns`, `EveryFileReported`), which is out of the prover's
  reach;
* `EachLikeFauxgrep`, the refinement of `Grep` by `GrepThreads`: its liveness part for the same
  reason, its safety part so far.

## 5. What is not modelled

* Of `fhistogram.c` the pictures it draws before the last one, which are those of `Histogram` with
  a single worker. In `GrepThreads`, a failure of `getline` other than the end of the file.
* `Server_client2/`: the same text as `Server_client/`, but for the comment at the head of
  `csapp.c`; `NameServer`, `Peer` and `HandOff` are models of both.
* The wrappers of `csapp.c` that are plain calls with an error exit, and its parts for signals,
  processes and memory mapping, which no program here calls.
* In `HandOff` the failures of `accept`, which end the process.
* In `NameServer`: ip and port, which are written and read without a lock and
  can be torn; a client that sends several requests without waiting (the
  `recv` with `MSG_PEEK` at `name_server.h:199` then overwrites the line just
  read); a `strtok` call is one step, although two concurrent calls race on the
  saved pointer inside the library. The model therefore shows a lower bound of
  what concurrent logins can do, and its positive properties do not rest on
  what `strtok` returns.
* In `Peer`: other peers (see `NameServer`), and lines that are longer than MAXLINE,
  which no answer of the server is.
* In `Histogram`: the overflow of the `int` counters after 2^31 bits, and the
  terminal control.
* In `Transducers`: failures of `pipe`, `fork` and `malloc`, which are asserted
  away; link_2 with the same stream twice, which no program does; a divisor of
  0 in divisible.c, which kills one child silently.
* In `Machine`: `reduce_and`, `reverse_bytes` and `sign_extend`, which nothing calls, the
  progress that is printed, and a file of instructions longer than the memory.
* In `FileType`: read errors other than a file that cannot be opened, paths and widths beyond
  the range of `int`, and the overflow of the loop index in a build that does not stop at a file of
  exactly 2^31 bytes, which the model lets loop for ever.
* Failures of `pthread_create` and `malloc` in the pool programs, which end the
  process.

## 6. Plan

Done in this order: the job queue and its clients, fauxgrep against its sequential
version, the name server and the hand-off, the transducers, the simulator, the
classifier, the peer; then, as theorems, their invariants one after the other. What
would come next: the safety part of the refinement of `Grep` by `GrepThreads`; a composition of
`Peer` and `NameServer` over one byte stream; a network with a divisor of 0.
