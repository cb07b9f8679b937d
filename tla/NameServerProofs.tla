--------------------------- MODULE NameServerProofs ---------------------------
(***************************************************************************)
(* For any number of connections, any user table and any passwords: nobody *)
(* stays online without a thread that serves them, however the threads     *)
(* interleave on the shared strtok position; and as long as peers take     *)
(* turns the table is exact, refusals are right and lookups tell the truth.*)
(***************************************************************************)
EXTENDS NameServer, SequenceTheorems, FiniteSetTheorems, TLAPS

Types ==
  /\ up \in BOOLEAN /\ status \in [Users -> {0, 1}]
  /\ at \in [Conns -> ThreadPlaces]
  /\ this_user \in [Conns -> Users]
  /\ peer \in [Conns -> {"new", "open", "wait", "in", "gone"}]
  /\ buffer \in [Conns -> Lines \cup {<<>>}] /\ inbox \in [Conns -> Lines \cup {<<>>}]
  /\ fin \in [Conns -> BOOLEAN]

IsLogin(line) == line # <<>> /\ line[1] = "/login"

\* A peer sends one login line, and its thread reads it before anything else.
PeerInv ==
  \A c \in Conns :
    /\ peer[c] = "new" => at[c] = "off"
    /\ peer[c] = "open" => at[c] = "read"
    /\ peer[c] \in {"new", "open"} => inbox[c] = <<>>
    /\ fin[c] => peer[c] = "gone"
    /\ IsLogin(inbox[c]) => at[c] = "read"

\* The places of a thread before and after it registers its user.
Before == {"off", "login", "name", "password", "online?", "ip", "port", "register", "refuse", "closed"}
After == ThreadPlaces \ Before

\* The thread of connection c has registered u and will not log in anybody
\* else: no login is on its way to it or in its hands.
Keeper(c, u) ==
  /\ this_user[c] = u /\ at[c] \in After
  /\ peer[c] \notin {"new", "open"} /\ ~IsLogin(inbox[c])
  /\ at[c] = "peek" => fin[c] \/ (buffer[c] # <<>> /\ ~IsLogin(buffer[c]))

\* A user who is marked online has a keeper.  NoGhostOnline alone is not
\* inductive: the thread it speaks of might be about to refuse a login.
KeeperInv == up => \A u \in Users : status[u] = 1 => \E c \in Conns : Keeper(c, u)

GInv == Types /\ PeerInv /\ KeeperInv

-----------------------------------------------------------------------------
\* Only a login line starts with /login.
LEMMA OtherLines ==
  /\ \A line \in Lookups : line \in Lines /\ ~IsLogin(line)
  /\ <<"/logout">> \in Lines /\ ~IsLogin(<<"/logout">>)
<1>1. \A line \in Lookups : line # <<>> /\ line[1] \in {"/lookup", "other"}
  BY LookupsAssumption
<1>2. <<"/logout">>[1] = "/logout"
  OBVIOUS
<1> QED
  BY <1>1, <1>2 DEF Lines, IsLogin

LEMMA InitGInv == Init => GInv
<1> SUFFICES ASSUME Init PROVE GInv
  OBVIOUS
<1>1. UserList[1] \in Users
  BY UsersAssumption DEF Users
<1>2. Types
  BY <1>1 DEF Init, Types, ThreadPlaces
<1>3. PeerInv
  BY DEF Init, PeerInv, IsLogin
<1>4. KeeperInv
  BY DEF Init, KeeperInv
<1> QED
  BY <1>2, <1>3, <1>4 DEF GInv

-----------------------------------------------------------------------------
(* The peers.                                                              *)

LEMMA ConnectGInv == ASSUME NEW c \in Conns, GInv, Connect(c) PROVE GInv'
<1> USE DEF GInv, Connect, tableVars, lookupVars, socketVars
<1>1. Types'
  BY DEF Types, ThreadPlaces
<1>2. PeerInv'
  BY DEF Types, PeerInv
<1>3. KeeperInv'
  BY DEF Types, KeeperInv, Keeper
<1> QED
  BY <1>1, <1>2, <1>3

\* A request that is not a login leaves every keeper in place; a login is
\* sent by a peer whose thread keeps nobody.
LEMMA RequestGInv ==
  ASSUME NEW c \in Conns, NEW line \in Lines, GInv, Request(c, line),
         \/ peer[c] = "open"
         \/ peer[c] = "in" /\ ~IsLogin(line)
  PROVE  GInv'
<1> USE DEF GInv, Request, tableVars, threadVars
<1>1. Types'
  BY DEF Types
<1>2. PeerInv'
  BY DEF Types, PeerInv
<1>3. ASSUME NEW d \in Conns, NEW u \in Users, Keeper(d, u) PROVE Keeper(d, u)'
  BY <1>3 DEF Types, Keeper
<1>4. KeeperInv'
  BY <1>3 DEF KeeperInv
<1> QED
  BY <1>1, <1>2, <1>4

LEMMA AskGInv == ASSUME NEW c \in Conns, GInv, Ask(c) PROVE GInv'
<1>1. CASE Connect(c)
  BY <1>1, ConnectGInv
<1>2. ASSUME NEW n \in Names, NEW p \in Guesses, SendLogin(c, n, p) PROVE GInv'
  <2>1. <<"/login", n, p, "ip", "port">> \in Lines
    BY DEF Lines
  <2> QED
    BY <1>2, <2>1, RequestGInv DEF SendLogin
<1>3. ASSUME NEW line \in Lookups, SendLookup(c, line) PROVE GInv'
  BY <1>3, OtherLines, RequestGInv DEF SendLookup
<1>4. CASE SendLogout(c)
  BY <1>4, OtherLines, RequestGInv DEF SendLogout
<1> QED
  BY <1>1, <1>2, <1>3, <1>4 DEF Ask

LEMMA ReceiveGInv == ASSUME NEW c \in Conns, GInv, Receive(c) \/ Killed(c) PROVE GInv'
<1> USE DEF GInv, Receive, Killed, tableVars, threadVars
<1>1. Types'
  BY DEF Types
<1>2. PeerInv'
  BY DEF Types, PeerInv
<1>3. ASSUME NEW d \in Conns, NEW u \in Users, Keeper(d, u) PROVE Keeper(d, u)'
  BY <1>3 DEF Types, PeerInv, Keeper
<1>4. KeeperInv'
  BY <1>3 DEF KeeperInv
<1> QED
  BY <1>1, <1>2, <1>4

-----------------------------------------------------------------------------
(* The server threads.                                                     *)

\* Most steps of a thread only move it on, to a place on the same side of
\* its registration.
Moves(c, l) ==
  /\ up /\ at[c] \notin {"off", "read", "peek", "closed"} /\ l \in ThreadPlaces \ {"off", "peek"}
  /\ at[c] \in After => l \in After
  /\ at' = [at EXCEPT ![c] = l]
  /\ up' \in BOOLEAN
  /\ UNCHANGED <<status, this_user, peer, buffer, inbox, fin>>

LEMMA MovesGInv == ASSUME NEW c \in Conns, NEW l, GInv, Moves(c, l) PROVE GInv'
<1> USE DEF GInv, Moves
<1>1. Types'
  BY DEF Types
<1>2. PeerInv'
  BY DEF Types, PeerInv
<1>3. ASSUME NEW d \in Conns, NEW u \in Users, Keeper(d, u) PROVE Keeper(d, u)'
  BY <1>3 DEF Types, Keeper
<1>4. KeeperInv'
  BY <1>3 DEF KeeperInv
<1> QED
  BY <1>1, <1>2, <1>4

\* The steps of a login that do not touch the table, and the answers.
LEMMA LoginMoves ==
  ASSUME NEW c \in Conns, GInv,
         \/ LoginStart(c) \/ LoginPassword(c) \/ LoginOnline(c) \/ LoginIp(c) \/ LoginPort(c)
         \/ LoginWelcome(c) \/ LoginRefused(c) \/ LogoutReply(c) \/ Answer(c)
  PROVE  \E l : Moves(c, l)
<1> USE DEF At, Goto, Moves, ThreadPlaces, Before, After, tableVars, lookupVars, peerVars, socketVars
<1>0. up \in BOOLEAN
  BY DEF GInv, Types
<1>1. CASE LoginStart(c)
  BY <1>0, <1>1 DEF LoginStart
<1>2. CASE LoginPassword(c)
  BY <1>0, <1>2 DEF LoginPassword, CrashOn
<1>3. CASE LoginOnline(c)
  BY <1>0, <1>3 DEF LoginOnline
<1>4. CASE LoginIp(c) \/ LoginPort(c)
  BY <1>0, <1>4 DEF LoginIp, LoginPort, CrashOn
<1>5. CASE LoginWelcome(c) \/ LoginRefused(c) \/ LogoutReply(c) \/ Answer(c)
  BY <1>0, <1>5 DEF LoginWelcome, LoginRefused, LogoutReply, Answer, Write
<1> QED
  BY <1>1, <1>2, <1>3, <1>4, <1>5

\* A lookup reads the table and changes nothing in it.
LEMMA LookupMoves ==
  ASSUME NEW c \in Conns, GInv,
         \/ CountStart(c) \/ CountMore(c) \/ CountEnd(c)
         \/ FindStart(c) \/ FindName(c) \/ FindStatus(c) \/ Tally(c) \/ List(c)
  PROVE  \E l : Moves(c, l)
<1> USE DEF At, Goto, Moves, ThreadPlaces, Before, After, tableVars, lookupVars, peerVars, socketVars
<1>0. up \in BOOLEAN /\ at = [at EXCEPT ![c] = at[c]]
  BY DEF GInv, Types
<1>1. CASE CountStart(c)
  BY <1>0, <1>1 DEF CountStart
<1>2. CASE CountMore(c)
  BY <1>0, <1>2 DEF CountMore
<1>3. CASE CountEnd(c)
  BY <1>0, <1>3 DEF CountEnd
<1>4. CASE FindStart(c)
  BY <1>0, <1>4 DEF FindStart
<1>5. CASE FindName(c)
  BY <1>0, <1>5 DEF FindName, CrashOn
<1>6. CASE FindStatus(c)
  BY <1>0, <1>6 DEF FindStatus
<1>7. CASE Tally(c)
  BY <1>0, <1>7 DEF Tally, NextEntry
<1>8. CASE List(c)
  BY <1>0, <1>8 DEF List, NextEntry
<1> QED
  BY <1>1, <1>2, <1>3, <1>4, <1>5, <1>6, <1>7, <1>8

\* get_user changes this_user of a thread that keeps nobody.
LEMMA LoginNameGInv == ASSUME NEW c \in Conns, GInv, LoginName(c) PROVE GInv'
<1> USE DEF GInv, LoginName, At, Goto, lookupVars, peerVars, socketVars
<1>1. Types'
  BY DEF Types, ThreadPlaces, CrashOn
<1>2. PeerInv'
  BY DEF Types, PeerInv
<1>3. ASSUME NEW d \in Conns, NEW u \in Users, Keeper(d, u) PROVE Keeper(d, u)'
  BY <1>3 DEF Types, Keeper, Before, After
<1>4. KeeperInv'
  BY <1>3 DEF KeeperInv
<1> QED
  BY <1>1, <1>2, <1>4

\* The thread that registers a user becomes a keeper.
LEMMA LoginRegisterGInv == ASSUME NEW c \in Conns, GInv, LoginRegister(c) PROVE GInv'
<1> USE DEF GInv, LoginRegister, At, Goto, lookupVars, peerVars, socketVars
<1>1. Types'
  BY DEF Types, ThreadPlaces
<1>2. PeerInv'
  BY DEF Types, PeerInv
<1>3. Keeper(c, this_user[c])'
  BY DEF Types, PeerInv, Keeper, ThreadPlaces, Before, After
<1>4. ASSUME NEW d \in Conns, NEW u \in Users, Keeper(d, u) PROVE Keeper(d, u)'
  BY <1>4 DEF Types, Keeper, Before, After
<1>5. \A u \in Users : status'[u] = 1 => status[u] = 1 \/ u = this_user[c]
  BY DEF Types
<1>6. KeeperInv'
  BY <1>3, <1>4, <1>5 DEF KeeperInv
<1> QED
  BY <1>1, <1>2, <1>6

\* A keeper that leaves takes its user off the table first or with it.
LEMMA LeaveGInv == ASSUME NEW c \in Conns, GInv, Dead(c) \/ LogoutClear(c) PROVE GInv'
<1> USE DEF GInv, Dead, LogoutClear, At, Goto, lookupVars, peerVars, socketVars
<1>1. Types'
  BY DEF Types, ThreadPlaces
<1>2. PeerInv'
  BY DEF Types, PeerInv
<1>3. \A u \in Users : status'[u] = 1 => status[u] = 1 /\ u # this_user[c]
  BY DEF Types
<1>4. ASSUME NEW d \in Conns, NEW u \in Users, Keeper(d, u), u # this_user[c] PROVE Keeper(d, u)'
  BY <1>4 DEF Types, Keeper
<1>5. KeeperInv'
  BY <1>3, <1>4 DEF KeeperInv
<1> QED
  BY <1>1, <1>2, <1>5

\* What a keeper reads is not a login, or it has read the end of the stream.
LEMMA ReadGInv == ASSUME NEW c \in Conns, GInv, Read(c) PROVE GInv'
<1> USE DEF GInv, Read, At, Goto, lookupVars, peerVars
<1>1. Types'
  BY DEF Types, ThreadPlaces
<1>2. PeerInv'
  BY DEF Types, PeerInv, IsLogin
<1>3. ASSUME NEW d \in Conns, NEW u \in Users, Keeper(d, u) PROVE Keeper(d, u)'
  BY <1>3 DEF Types, Keeper, ThreadPlaces, Before, After, IsLogin
<1>4. KeeperInv'
  BY <1>3 DEF KeeperInv
<1> QED
  BY <1>1, <1>2, <1>4

\* So a keeper never goes on to login.
LEMMA DispatchGInv == ASSUME NEW c \in Conns, GInv, Dispatch(c) PROVE GInv'
<1> DEFINE l == at'[c]
<1> USE DEF GInv, Dispatch, At, Goto, tableVars, lookupVars, peerVars, socketVars
<1>1. /\ l \in {"login", "bye", "count", "answer"}
      /\ at' = [at EXCEPT ![c] = l]
      /\ l = "login" => buffer[c][1] = "/login"
  <2>1. PICK x : x = CASE buffer[c][1] = "/login" -> "login"
                       [] buffer[c][1] = "/logout" -> "bye"
                       [] buffer[c][1] = "/lookup" -> "count"
                       [] OTHER -> "answer"
    OBVIOUS
  <2>2. x \in {"login", "bye", "count", "answer"} /\ (x = "login" => buffer[c][1] = "/login")
    BY <2>1
  <2>3. at' = [at EXCEPT ![c] = x]
    BY <2>1
  <2>4. l = x
    BY <2>3 DEF Types
  <2> QED
    BY <2>2, <2>3, <2>4
<1>2. Types'
  BY <1>1 DEF Types, ThreadPlaces
<1>3. PeerInv'
  BY <1>1 DEF Types, PeerInv
<1>4. ASSUME NEW d \in Conns, NEW u \in Users, Keeper(d, u) PROVE Keeper(d, u)'
  BY <1>1, <1>4 DEF Types, Keeper, ThreadPlaces, Before, After, IsLogin
<1>5. KeeperInv'
  BY <1>4 DEF KeeperInv
<1> QED
  BY <1>2, <1>3, <1>5

LEMMA ThreadGInv == ASSUME NEW c \in Conns, GInv, Thread(c) PROVE GInv'
  BY MovesGInv, LoginMoves, LookupMoves, LoginNameGInv, LoginRegisterGInv, LeaveGInv, ReadGInv,
     DispatchGInv DEF Thread

-----------------------------------------------------------------------------
\* Every reachable state satisfies the invariant.
LEMMA SpecGInv == Spec => []GInv
<1>1. ASSUME GInv, [Next]_vars PROVE GInv'
  <2>1. CASE Next
    BY <1>1, <2>1, AskGInv, ReceiveGInv, ThreadGInv DEF Next
  <2>2. CASE UNCHANGED vars
    BY <1>1, <2>2 DEF vars, tableVars, threadVars, lookupVars, peerVars, socketVars,
      GInv, Types, PeerInv, KeeperInv, Keeper
  <2> QED
    BY <1>1, <2>1, <2>2
<1> QED
  BY InitGInv, <1>1, PTL DEF Spec

\* However many threads share the table and the strtok position, a user who
\* is marked online is the user of a thread that still serves its connection:
\* logins, logouts and deaths of connections leave no ghost behind.
THEOREM NoGhosts == Spec => []NoGhostOnline
<1>1. GInv => NoGhostOnline
  BY DEF GInv, KeeperInv, Keeper, NoGhostOnline, Serving, Before, After
<1> QED
  BY <1>1, SpecGInv, PTL

-----------------------------------------------------------------------------
(***************************************************************************)
(* Type correctness.  The words in saved are those of some line, because   *)
(* strtok is started on a line only; a pass over userlist has counted at   *)
(* most the entries behind it.                                             *)
(***************************************************************************)
Rest ==
  /\ saved \in Seq(Words)
  /\ args \in [Conns -> 0 .. 2]
  /\ index \in [Conns -> 1 .. Len(UserList)]
  /\ online \in [Conns -> 0 .. Len(UserList)]
  /\ listed \in [Conns -> SUBSET Users]
  /\ asked \in [Conns -> Commands \cup {None}]
  /\ lookups \in [Conns -> 0 .. MaxLookups]
  /\ reply \in [Conns -> {"welcome", "error", "bye", "info", None}]
  /\ rst \in [Conns -> BOOLEAN] /\ calm \in BOOLEAN

Counting == {"login", "count", "count_rest", "recount", "recount_rest", "find"}

LoopInv ==
  \A c \in Conns :
    /\ at[c] = "peek" => fin[c] \/ buffer[c] # <<>>
    /\ at[c] \in Counting => buffer[c] # <<>>
    /\ at[c] = "tally" => online[c] < index[c]

TInv == GInv /\ Rest /\ LoopInv

LEMMA LinesAreWords ==
  \A line \in Lines : line \in Seq(Words) /\ line # <<>> /\ line[1] \in Commands
<1> SUFFICES ASSUME NEW line \in Lines
             PROVE  line \in Seq(Words) /\ line # <<>> /\ line[1] \in Commands
  OBVIOUS
<1>1. \A i \in DOMAIN line : line[i] \in Words
  BY DEF Words
<1>2. line \in Seq({line[i] : i \in DOMAIN line}) /\ line # <<>> /\ line[1] \in Commands
  <2>1. CASE line \in Lookups
    BY <2>1, LookupsAssumption DEF Commands
  <2>2. CASE line = <<"/logout">>
    BY <2>2 DEF Commands
  <2>3. CASE \E n \in Names, p \in Guesses : line = <<"/login", n, p, "ip", "port">>
    BY <2>3 DEF Commands
  <2> QED
    BY <2>1, <2>2, <2>3 DEF Lines
<1>3. {line[i] : i \in DOMAIN line} \subseteq Words
  BY <1>1
<1> QED
  BY <1>2, <1>3, SeqMonotonic

LEMMA InitTInv == Init => TInv
<1> SUFFICES ASSUME Init PROVE TInv
  OBVIOUS
<1>1. Len(UserList) \in Nat /\ Len(UserList) > 0
  BY UsersAssumption
<1>2. Rest
  BY <1>1, LookupsAssumption DEF Init, Rest
<1>3. LoopInv
  BY DEF Init, LoopInv, Counting
<1> QED
  BY <1>2, <1>3, InitGInv DEF TInv

\* The peers.
LEMMA PeerTInv == ASSUME NEW c \in Conns, TInv, Ask(c) \/ Receive(c) \/ Killed(c) PROVE TInv'
<1>1. GInv'
  BY AskGInv, ReceiveGInv DEF TInv
<1>2. CASE Connect(c)
  <2>1. Rest'
    BY <1>2 DEF TInv, Rest, Connect, TakesTurn, tableVars, lookupVars, socketVars
  <2>2. LoopInv'
    BY <1>2 DEF TInv, GInv, Types, LoopInv, Counting, Connect, tableVars, lookupVars, socketVars
  <2> QED
    BY <1>1, <2>1, <2>2 DEF TInv
<1>3. ASSUME NEW line \in Lines, Request(c, line), lookups' \in [Conns -> 0 .. MaxLookups]
      PROVE  TInv'
  <2>1. line[1] \in Commands
    BY LinesAreWords
  <2>2. Rest'
    BY <1>3, <2>1 DEF TInv, Rest, Request, TakesTurn, tableVars, threadVars, lookupVars
  <2>3. LoopInv'
    BY <1>3 DEF TInv, LoopInv, Request, tableVars, threadVars, lookupVars
  <2> QED
    BY <1>1, <2>2, <2>3 DEF TInv
<1>4. ASSUME NEW n \in Names, NEW p \in Guesses, SendLogin(c, n, p) PROVE TInv'
  <2>1. <<"/login", n, p, "ip", "port">> \in Lines
    BY DEF Lines
  <2> QED
    BY <1>3, <1>4, <2>1 DEF SendLogin, TInv, Rest
<1>5. ASSUME NEW line \in Lookups, SendLookup(c, line) PROVE TInv'
  <2>1. lookups' \in [Conns -> 0 .. MaxLookups]
    BY <1>5, LookupsAssumption DEF SendLookup, TInv, Rest
  <2> QED
    BY <1>3, <1>5, <2>1, OtherLines DEF SendLookup
<1>6. CASE SendLogout(c)
  BY <1>3, <1>6, OtherLines DEF SendLogout, TInv, Rest
<1>7. CASE Receive(c)
  <2>1. Rest'
    BY <1>7 DEF TInv, Rest, Receive, tableVars, threadVars, lookupVars
  <2>2. LoopInv'
    BY <1>7 DEF TInv, GInv, Types, PeerInv, LoopInv, Receive, tableVars, threadVars, lookupVars
  <2> QED
    BY <1>1, <2>1, <2>2 DEF TInv
<1>8. CASE Killed(c)
  <2>1. Rest'
    BY <1>8 DEF TInv, Rest, Killed, tableVars, threadVars, lookupVars
  <2>2. LoopInv'
    BY <1>8 DEF TInv, GInv, Types, LoopInv, Killed, tableVars, threadVars, lookupVars
  <2> QED
    BY <1>1, <2>1, <2>2 DEF TInv
<1> QED
  BY <1>2, <1>4, <1>5, <1>6, <1>7, <1>8 DEF Ask

\* strtok keeps to the words of a line.
LEMMA WordSteps ==
  ASSUME NEW c \in Conns, TInv
  PROVE  /\ at[c] \in Counting /\ FirstWord(c) => saved' \in Seq(Words)
         /\ NextWord => saved' \in Seq(Words)
         /\ <<>> \in Seq(Words)
<1>1. ASSUME at[c] \in Counting, FirstWord(c) PROVE saved' \in Seq(Words)
  <2>1. buffer[c] # <<>> /\ buffer[c] \in Lines
    BY <1>1 DEF TInv, LoopInv, GInv, Types
  <2>2. buffer[c] \in Seq(Words)
    BY <2>1, LinesAreWords
  <2>3. Tail(buffer[c]) \in Seq(Words)
    BY <2>1, <2>2, HeadTailProperties
  <2> QED
    BY <1>1, <2>3 DEF FirstWord
<1>2. ASSUME NextWord PROVE saved' \in Seq(Words)
  <2>1. saved \in Seq(Words)
    BY DEF TInv, Rest
  <2>2. saved # <<>> => Tail(saved) \in Seq(Words)
    BY <2>1, HeadTailProperties
  <2> QED
    BY <1>2, <2>1, <2>2 DEF NextWord
<1> QED
  BY <1>1, <1>2, EmptySeq

\* Steps that leave the passes over userlist alone.
Elsewhere(c, l) ==
  /\ l \in ThreadPlaces \ {"peek", "tally"}
  /\ l \in Counting => at[c] \in Counting \/ buffer[c] # <<>>
  /\ at' = [at EXCEPT ![c] = l]
  /\ UNCHANGED <<buffer, index, online, peerVars, fin>>

LEMMA ElsewhereTInv ==
  ASSUME NEW c \in Conns, NEW l, TInv, GInv', Elsewhere(c, l),
         saved' \in Seq(Words), args' \in [Conns -> 0 .. 2], listed' \in [Conns -> SUBSET Users],
         reply' \in [Conns -> {"welcome", "error", "bye", "info", None}],
         rst' \in [Conns -> BOOLEAN]
  PROVE  TInv'
<1>1. Rest'
  BY DEF TInv, Rest, Elsewhere, peerVars
<1>2. LoopInv'
  BY DEF TInv, GInv, Types, LoopInv, Elsewhere
<1> QED
  BY <1>1, <1>2 DEF TInv

LEMMA TableTInv ==
  ASSUME NEW c \in Conns, TInv,
         \/ LoginOnline(c) \/ LoginRegister(c) \/ LogoutClear(c) \/ Dead(c) \/ FindStatus(c)
  PROVE  TInv'
<1>1. GInv'
  BY ThreadGInv DEF Thread, TInv
<1>2. \E l : Elsewhere(c, l)
  BY DEF Elsewhere, Counting, ThreadPlaces, LoginOnline, LoginRegister, LogoutClear, Dead, FindStatus,
     At, Goto, tableVars, lookupVars, socketVars
<1>3. /\ UNCHANGED <<saved, args, reply, rst>>
      /\ listed' \in [Conns -> SUBSET Users]
  BY DEF TInv, Rest, LoginOnline, LoginRegister, LogoutClear, Dead, FindStatus, tableVars, lookupVars,
     socketVars
<1> QED
  BY <1>1, <1>2, <1>3, ElsewhereTInv DEF TInv, Rest

LEMMA TokenTInv ==
  ASSUME NEW c \in Conns, TInv,
         \/ LoginStart(c) \/ LoginName(c) \/ LoginPassword(c) \/ LoginIp(c) \/ LoginPort(c)
         \/ CountStart(c) \/ FindStart(c) \/ FindName(c)
  PROVE  TInv'
<1>1. GInv'
  BY ThreadGInv DEF Thread, TInv
<1>2. \E l : Elsewhere(c, l)
  BY DEF Elsewhere, Counting, ThreadPlaces, LoginStart, LoginName, LoginPassword, LoginIp, LoginPort,
     CountStart, FindStart, FindName, At, Goto, tableVars, lookupVars, socketVars
<1>3. saved' \in Seq(Words)
  BY WordSteps DEF LoginStart, LoginName, LoginPassword, LoginIp, LoginPort,
     CountStart, FindStart, FindName, At, Counting
<1>4. UNCHANGED <<reply, rst>>
  BY DEF LoginStart, LoginName, LoginPassword, LoginIp, LoginPort, CountStart, FindStart, FindName,
     socketVars
<1>5. listed' \in [Conns -> SUBSET Users] /\ args' \in [Conns -> 0 .. 2]
  <2>1. listed \in [Conns -> SUBSET Users] /\ args \in [Conns -> 0 .. 2]
    BY DEF TInv, Rest
  <2>2. CASE FindName(c)
    BY <2>1, <2>2 DEF FindName
  <2>3. CASE CountStart(c)
    BY <2>1, <2>3 DEF CountStart
  <2>4. CASE ~FindName(c) /\ ~CountStart(c)
    BY <2>1, <2>4 DEF LoginStart, LoginName, LoginPassword, LoginIp, LoginPort, FindStart, lookupVars
  <2> QED
    BY <2>2, <2>3, <2>4
<1> QED
  BY <1>1, <1>2, <1>3, <1>4, <1>5, ElsewhereTInv DEF TInv, Rest

LEMMA WriteTInv ==
  ASSUME NEW c \in Conns, TInv,
         LoginWelcome(c) \/ LoginRefused(c) \/ LogoutReply(c) \/ Answer(c)
  PROVE  TInv'
<1>1. GInv'
  BY ThreadGInv DEF Thread, TInv
<1>2. \E l : Elsewhere(c, l)
  BY DEF Elsewhere, Counting, ThreadPlaces, LoginWelcome, LoginRefused, LogoutReply, Answer, Write,
     At, Goto, tableVars, lookupVars, socketVars
<1>3. PICK r \in {"welcome", "error", "bye", "info"} : Write(c, r)
  BY DEF LoginWelcome, LoginRefused, LogoutReply, Answer
<1>4. reply' \in [Conns -> {"welcome", "error", "bye", "info", None}] /\ rst' \in [Conns -> BOOLEAN]
  BY <1>3 DEF Write, TInv, Rest, GInv, Types
<1>5. UNCHANGED <<saved, args, listed>>
  BY DEF LoginWelcome, LoginRefused, LogoutReply, Answer, lookupVars
<1> QED
  BY <1>1, <1>2, <1>4, <1>5, ElsewhereTInv DEF TInv, Rest

\* The rest: reading a line, counting its words, and the two passes.
LEMMA ReadTInv == ASSUME NEW c \in Conns, TInv, Read(c) PROVE TInv'
<1>1. GInv'
  BY ThreadGInv DEF Thread, TInv
<1>2. Rest'
  BY DEF Read, TInv, Rest, lookupVars, peerVars
<1>3. LoopInv'
  BY DEF Read, TInv, GInv, Types, LoopInv, Counting, At, Goto, lookupVars, peerVars
<1> QED
  BY <1>1, <1>2, <1>3 DEF TInv

LEMMA DispatchTInv == ASSUME NEW c \in Conns, TInv, Dispatch(c) PROVE TInv'
<1>1. GInv'
  BY ThreadGInv DEF Thread, TInv
<1>2. PICK x : /\ x = CASE buffer[c][1] = "/login" -> "login"
                        [] buffer[c][1] = "/logout" -> "bye"
                        [] buffer[c][1] = "/lookup" -> "count"
                        [] OTHER -> "answer"
               /\ at' = [at EXCEPT ![c] = x]
  BY DEF Dispatch, Goto
<1>3. x \in {"login", "bye", "count", "answer"}
  BY <1>2
<1>4. Elsewhere(c, x)
  BY <1>2, <1>3 DEF Elsewhere, ThreadPlaces, Counting, Dispatch, At, TInv, LoopInv, lookupVars, socketVars
<1>5. UNCHANGED <<saved, args, listed, reply, rst>>
  BY DEF Dispatch, tableVars, lookupVars, socketVars
<1> QED
  BY <1>1, <1>4, <1>5, ElsewhereTInv DEF TInv, Rest

LEMMA CountTInv == ASSUME NEW c \in Conns, TInv, CountMore(c) \/ CountEnd(c) PROVE TInv'
<1>1. GInv'
  BY ThreadGInv DEF Thread, TInv
<1>2. Len(UserList) \in Nat /\ Len(UserList) > 0
  BY UsersAssumption
<1>3. CASE CountMore(c)
  <2>1. saved' \in Seq(Words)
    BY <1>3, WordSteps DEF CountMore
  <2>2. args' \in [Conns -> 0 .. 2]
    <3>1. args \in [Conns -> 0 .. 2] /\ args' = [args EXCEPT ![c] = IF @ < 2 THEN @ + 1 ELSE 2]
      BY <1>3 DEF CountMore, TInv, Rest
    <3>2. (IF args[c] < 2 THEN args[c] + 1 ELSE 2) \in 0 .. 2
      BY <3>1
    <3> QED
      BY <3>1, <3>2
  <2>3. UNCHANGED <<index, online, listed, asked, lookups, reply, rst, calm>>
    BY <1>3 DEF CountMore, peerVars, socketVars
  <2>4. Rest'
    BY <2>1, <2>2, <2>3 DEF TInv, Rest
  <2>5. LoopInv'
    BY <1>3 DEF CountMore, TInv, LoopInv, peerVars, socketVars
  <2> QED
    BY <1>1, <2>4, <2>5 DEF TInv
<1>4. CASE CountEnd(c)
  <2>1. Rest'
    BY <1>2, <1>4 DEF CountEnd, TInv, Rest, tableVars, peerVars, socketVars
  <2>2. LoopInv'
    BY <1>4 DEF CountEnd, Goto, TInv, GInv, Types, Rest, LoopInv, Counting, tableVars, peerVars, socketVars
  <2> QED
    BY <1>1, <2>1, <2>2 DEF TInv
<1> QED
  BY <1>3, <1>4

LEMMA PassTInv == ASSUME NEW c \in Conns, TInv, Tally(c) \/ List(c) PROVE TInv'
<1>1. GInv'
  BY ThreadGInv DEF Thread, TInv
<1>2. Len(UserList) \in Nat /\ Len(UserList) > 0
  BY UsersAssumption
<1>3. index[c] \in 1 .. Len(UserList) /\ online[c] \in 0 .. Len(UserList)
  BY DEF TInv, Rest
<1>4. UserList[index[c]] \in Users /\ status[UserList[index[c]]] \in {0, 1}
  BY <1>2, <1>3, UsersAssumption DEF Users, TInv, GInv, Types
<1>5. \/ /\ index[c] < Len(UserList)
         /\ index' = [index EXCEPT ![c] = @ + 1] /\ UNCHANGED at
      \/ /\ ~(index[c] < Len(UserList))
         /\ index' = [index EXCEPT ![c] = 1]
         /\ \E l \in {"list", "answer"} : at' = [at EXCEPT ![c] = l]
  BY DEF Tally, List, NextEntry, Goto
<1>6. /\ index' \in [Conns -> 1 .. Len(UserList)]
      /\ index[c] < Len(UserList) => index' = [index EXCEPT ![c] = @ + 1] /\ UNCHANGED at
      /\ ~(index[c] < Len(UserList)) => \E l \in {"list", "answer"} : at' = [at EXCEPT ![c] = l]
      /\ \A d \in Conns \ {c} : index'[d] = index[d]
  BY <1>2, <1>3, <1>5 DEF TInv, Rest
<1>7. CASE Tally(c)
  <2>1. /\ online' = [online EXCEPT ![c] = @ + status[UserList[index[c]]]]
        /\ UNCHANGED <<tableVars, buffer, args, listed, peerVars, socketVars>>
    BY <1>7 DEF Tally
  <2>2. online[c] < index[c]
    BY <1>7 DEF Tally, At, TInv, LoopInv
  <2>3. online[c] + status[UserList[index[c]]] \in 0 .. index[c]
    BY <1>3, <1>4, <2>2
  <2>4. online' \in [Conns -> 0 .. Len(UserList)]
    BY <1>2, <1>3, <2>1, <2>3 DEF TInv, Rest
  <2>5. Rest'
    BY <1>6, <2>1, <2>4 DEF TInv, Rest, tableVars, peerVars, socketVars
  <2>6. LoopInv'
    <3> SUFFICES ASSUME NEW d \in Conns
                 PROVE  /\ at'[d] = "peek" => fin'[d] \/ buffer'[d] # <<>>
                        /\ at'[d] \in Counting => buffer'[d] # <<>>
                        /\ at'[d] = "tally" => online'[d] < index'[d]
      BY DEF LoopInv
    <3>1. CASE d # c
      BY <1>3, <1>6, <2>1, <3>1 DEF TInv, GInv, Types, Rest, LoopInv, socketVars
    <3>2. CASE d = c /\ index[c] < Len(UserList)
      <4>1. index'[c] = index[c] + 1 /\ at'[c] = "tally"
        BY <1>6, <1>7, <3>2 DEF Tally, At, TInv, Rest
      <4>2. online'[c] \in 0 .. index[c]
        BY <2>1, <2>3 DEF TInv, Rest
      <4> QED
        BY <1>3, <3>2, <4>1, <4>2 DEF Counting
    <3>3. CASE d = c /\ ~(index[c] < Len(UserList))
      BY <1>6, <3>3 DEF Counting, TInv, GInv, Types
    <3> QED
      BY <3>1, <3>2, <3>3
  <2> QED
    BY <1>1, <2>5, <2>6 DEF TInv
<1>8. CASE List(c)
  <2>1. /\ at[c] = "list" /\ listed' \in [Conns -> SUBSET Users]
        /\ UNCHANGED <<tableVars, buffer, args, online, peerVars, socketVars>>
    BY <1>4, <1>8 DEF List, At, TInv, Rest
  <2>2. Rest'
    BY <1>6, <2>1 DEF TInv, Rest, tableVars, peerVars, socketVars
  <2>3. LoopInv'
    <3>1. at'[c] \in {"list", "answer"} /\ \A d \in Conns \ {c} : at'[d] = at[d]
      BY <1>6, <2>1 DEF TInv, GInv, Types
    <3> QED
      BY <1>6, <2>1, <3>1 DEF TInv, LoopInv, Counting, socketVars
  <2> QED
    BY <1>1, <2>2, <2>3 DEF TInv
<1> QED
  BY <1>7, <1>8

\* Whatever the threads do to each other's strtok, every thread stays inside its
\* line, the user table and its places, for any number of connections.
THEOREM TypesKept == Spec => []TypeOK
<1>1. ASSUME TInv, [Next]_vars PROVE TInv'
  <2>1. ASSUME NEW c \in Conns, Thread(c) PROVE TInv'
    BY <1>1, <2>1, TableTInv, TokenTInv, WriteTInv, ReadTInv, DispatchTInv, CountTInv, PassTInv DEF Thread
  <2>2. CASE Next
    BY <1>1, <2>1, <2>2, PeerTInv DEF Next
  <2>3. CASE UNCHANGED vars
    <3>1. GInv'
      BY <1>1, <2>3 DEF vars, tableVars, threadVars, lookupVars, peerVars, socketVars,
        TInv, GInv, Types, PeerInv, KeeperInv, Keeper
    <3>2. Rest' /\ LoopInv'
      BY <1>1, <2>3 DEF vars, tableVars, threadVars, lookupVars, peerVars, socketVars,
        TInv, Rest, LoopInv
    <3> QED
      BY <3>1, <3>2 DEF TInv
  <2> QED
    BY <1>1, <2>2, <2>3
<1>2. TInv => TypeOK
  BY DEF TInv, GInv, Types, Rest, TypeOK
<1> QED
  BY InitTInv, <1>1, <1>2, PTL DEF Spec

-----------------------------------------------------------------------------
(***************************************************************************)
(* As long as peers take turns.  At most one connection is not idle; what  *)
(* strtok has still to return is the rest of the line of that connection.  *)
(***************************************************************************)
LoginLine(c) == <<"/login", typed[c][1], typed[c][2], "ip", "port">>

\* The line is what peer c asked for.
IsAsked(c, line) ==
  /\ line # <<>> /\ asked[c] = line[1]
  /\ asked[c] = "/login" => line = LoginLine(c)

\* The thread works on the command, or has answered it.
Works(c) ==
  \/ at[c] = "peek"
  \/ /\ asked[c] = "/login"
     /\ at[c] \in {"login", "name", "password", "online?", "ip", "port", "register", "welcome", "refuse"}
  \/ asked[c] = "/logout" /\ at[c] = "bye"
  \/ /\ asked[c] = "/lookup"
     /\ at[c] \in {"count", "count_rest", "recount", "recount_rest", "find", "find_name", "find_status",
                  "tally", "list", "answer"}
  \/ asked[c] = "other" /\ at[c] = "answer"

HasAnswered(c) ==
  \/ asked[c] = "/login" /\ at[c] = "read" /\ reply[c] = "welcome"
  \/ asked[c] = "/login" /\ at[c] = "closed" /\ reply[c] = "error"
  \/ asked[c] = "/logout" /\ at[c] \in {"clear", "closed"} /\ reply[c] = "bye"
  \/ asked[c] \in {"/lookup", "other"} /\ at[c] = "read" /\ reply[c] = "info"

\* One connection: nothing in flight, one request, or one answer.
Conversation(c) ==
  \/ peer[c] = "new" /\ at[c] = "off" /\ inbox[c] = <<>> /\ reply[c] = None /\ ~fin[c]
  \/ peer[c] \in {"open", "in"} /\ at[c] = "read" /\ inbox[c] = <<>> /\ reply[c] = None /\ ~fin[c]
  \/ /\ peer[c] = "wait" /\ ~fin[c] /\ reply[c] = None
     /\ \/ at[c] = "read" /\ IsAsked(c, inbox[c])
        \/ Works(c) /\ inbox[c] = <<>> /\ IsAsked(c, buffer[c])
  \/ /\ peer[c] = "wait" /\ ~fin[c] /\ inbox[c] = <<>> /\ HasAnswered(c)
  \/ /\ peer[c] = "gone" /\ fin[c] /\ inbox[c] = <<>> /\ reply[c] = None
     /\ at[c] \in {"read", "peek", "clear", "closed"}

\* The thread of c has marked its user online and not yet offline.
Registered(c) ==
  \/ peer[c] = "in"
  \/ peer[c] = "wait" /\ asked[c] = "/login" /\ (at[c] = "welcome" \/ reply[c] = "welcome")
  \/ peer[c] = "wait" /\ asked[c] # "/login" /\ at[c] # "closed"
  \/ peer[c] = "gone" /\ at[c] # "closed"

RegisteredFor(c, u) == Registered(c) /\ typed[c][1] = u

\* The thread of c knows whom it serves.
Identity(c) ==
  /\ peer[c] \notin {"new", "open"} => typed[c] \in Names \X Guesses
  /\ Registered(c) \/ at[c] \in {"password", "online?", "ip", "port", "register"} =>
       this_user[c] = typed[c][1]

Table ==
  \A u \in Users :
    /\ status[u] = 1 <=> \E c \in Conns : RegisteredFor(c, u)
    /\ \A c, d \in Conns : RegisteredFor(c, u) /\ RegisteredFor(d, u) => c = d

UnknownName(c) == typed[c][1] \notin Users
WrongPassword(c) == typed[c][2] # Password[typed[c][1]]
TakenName(c) == \E d \in Others(c) : RegisteredFor(d, typed[c][1])

\* A login under way: the words it has still to read and what it has checked.
LoginStage(c) ==
  /\ at[c] = "name" => saved = <<typed[c][1], typed[c][2], "ip", "port">>
  /\ at[c] = "password" => saved = <<typed[c][2], "ip", "port">>
  /\ at[c] \in {"online?", "ip"} => saved = <<"ip", "port">>
  /\ at[c] = "port" => saved = <<"port">>
  /\ at[c] \in {"online?", "ip", "port", "register"} => ~WrongPassword(c)
  /\ at[c] \in {"ip", "port", "register"} => ~TakenName(c)
  /\ at[c] = "refuse" \/ reply[c] = "error" => UnknownName(c) \/ WrongPassword(c) \/ TakenName(c)

OnlineUsers == {u \in Users : status[u] = 1}
OnlineBefore(n) == {UserList[i] : i \in 1 .. n - 1} \cap OnlineUsers

\* A lookup under way: what arg_count has counted and what the passes have seen.
LookupStage(c) ==
  /\ at[c] \in {"count_rest", "recount_rest"} =>
       Len(buffer[c]) >= args[c] + 1 /\ (args[c] < 2 => Len(saved) + args[c] + 1 = Len(buffer[c]))
  /\ at[c] \in {"recount", "recount_rest"} => Len(buffer[c]) # 2
  /\ at[c] \in {"find", "find_name", "find_status"} => Len(buffer[c]) = 2
  /\ at[c] = "find_name" => saved = <<buffer[c][2]>>
  /\ at[c] = "find_status" => listed[c] = Users \cap {buffer[c][2]}
  /\ at[c] \in {"tally", "list"} => Len(buffer[c]) = 1
  /\ at[c] = "tally" => listed[c] = {} /\ online[c] = Cardinality(OnlineBefore(index[c]))
  /\ at[c] = "list" => listed[c] = OnlineBefore(index[c]) /\ online[c] = Cardinality(OnlineUsers)

\* The answer is the table as it is.
Exact(c) ==
  at[c] = "answer" /\ buffer[c][1] = "/lookup" /\ Len(buffer[c]) <= 2 =>
    /\ listed[c] = OnlineUsers \cap (IF Len(buffer[c]) = 2 THEN {buffer[c][2]} ELSE Users)
    /\ Len(buffer[c]) = 1 => online[c] = Cardinality(listed[c])

OneActive == \A c, d \in Conns : Idle(c) \/ Idle(d) \/ c = d

Part(c) == ~rst[c] /\ Conversation(c) /\ Identity(c) /\ LoginStage(c) /\ LookupStage(c) /\ Exact(c)

CalmInv == calm => up /\ OneActive /\ Table /\ \A c \in Conns : Part(c)

Typed == typed \in [Conns -> (Names \cup {None}) \X (Guesses \cup {None})]

CInv == TInv /\ Typed /\ CalmInv

-----------------------------------------------------------------------------
(* What a step of one connection leaves alone.                             *)

Same(d) ==
  /\ at'[d] = at[d] /\ buffer'[d] = buffer[d] /\ this_user'[d] = this_user[d]
  /\ args'[d] = args[d] /\ index'[d] = index[d] /\ online'[d] = online[d] /\ listed'[d] = listed[d]
  /\ peer'[d] = peer[d] /\ typed'[d] = typed[d] /\ asked'[d] = asked[d]
  /\ inbox'[d] = inbox[d] /\ reply'[d] = reply[d] /\ fin'[d] = fin[d] /\ rst'[d] = rst[d]

LEMMA PeerSame ==
  ASSUME NEW c \in Conns, TInv, Typed, Ask(c) \/ Receive(c) \/ Killed(c)
  PROVE  Typed' /\ \A d \in Others(c) : Same(d)
<1> USE DEF TInv, GInv, Types, Rest, Typed, Same, Others
<1>1. CASE Connect(c)
  BY <1>1 DEF Connect, tableVars, lookupVars, socketVars
<1>2. ASSUME NEW line, Request(c, line), Typed', \A d \in Others(c) : typed'[d] = typed[d]
      PROVE  \A d \in Others(c) : Same(d)
  BY <1>2 DEF Request, threadVars, lookupVars
<1>4. ASSUME NEW n \in Names, NEW p \in Guesses, SendLogin(c, n, p)
      PROVE  Typed' /\ \A d \in Others(c) : typed'[d] = typed[d]
  BY <1>4 DEF SendLogin
<1>3. CASE Receive(c) \/ Killed(c)
  BY <1>3 DEF Receive, Killed, tableVars, threadVars, lookupVars
<1> QED
  BY <1>1, <1>2, <1>3, <1>4 DEF Ask, SendLogin, SendLookup, SendLogout

LEMMA ThreadSame ==
  ASSUME NEW c \in Conns, TInv, Typed, Thread(c)
  PROVE  Typed' /\ UNCHANGED calm /\ ~Idle(c) /\ \A d \in Others(c) : Same(d)
<1> USE DEF TInv, GInv, Types, Rest, Typed, Same, Others, Idle, At, Goto, tableVars, lookupVars, peerVars, socketVars
<1>1. CASE Read(c) \/ Dead(c) \/ Dispatch(c)
  BY <1>1 DEF Read, Dead, Dispatch
<1>2. CASE LoginStart(c) \/ LoginName(c) \/ LoginPassword(c) \/ LoginOnline(c)
  BY <1>2 DEF LoginStart, LoginName, LoginPassword, LoginOnline
<1>3. CASE LoginIp(c) \/ LoginPort(c) \/ LoginRegister(c) \/ LogoutClear(c)
  BY <1>3 DEF LoginIp, LoginPort, LoginRegister, LogoutClear
<1>4. CASE LoginWelcome(c) \/ LoginRefused(c) \/ LogoutReply(c) \/ Answer(c)
  BY <1>4 DEF LoginWelcome, LoginRefused, LogoutReply, Answer, Write
<1>5. CASE CountStart(c) \/ CountMore(c) \/ CountEnd(c)
  BY <1>5 DEF CountStart, CountMore, CountEnd
<1>6. CASE FindStart(c) \/ FindName(c) \/ FindStatus(c)
  BY <1>6 DEF FindStart, FindName, FindStatus
<1>7. CASE Tally(c) \/ List(c)
  BY <1>7 DEF Tally, List, NextEntry
<1> QED
  BY <1>1, <1>2, <1>3, <1>4, <1>5, <1>6, <1>7 DEF Thread

\* Connection c takes a step from a calm state while nobody else is active.
Turn(c) == CInv /\ calm /\ \A d \in Others(c) : Idle(d) /\ Same(d)

LEMMA StepTurn ==
  ASSUME NEW c \in Conns, CInv, calm', Ask(c) \/ Receive(c) \/ Killed(c) \/ Thread(c)
  PROVE  Turn(c) /\ Typed'
<1>1. Typed' /\ \A d \in Others(c) : Same(d)
  BY PeerSame, ThreadSame DEF CInv
<1>2. CASE Ask(c)
  <2>1. TakesTurn(c)
    BY <1>2 DEF Ask, Connect, SendLogin, SendLookup, SendLogout, Request
  <2> QED
    BY <1>1, <2>1 DEF TakesTurn, Turn
<1>3. CASE Killed(c)
  BY <1>1, <1>3 DEF Killed, Others, Turn
<1>4. CASE Receive(c) \/ Thread(c)
  <2>1. calm /\ ~Idle(c)
    BY <1>4, ThreadSame DEF CInv, Receive, Idle
  <2> QED
    BY <1>1, <2>1 DEF CInv, CalmInv, OneActive, Others, Turn
<1> QED
  BY <1>2, <1>3, <1>4

\* The idle connections do not depend on what the step changes.
LEMMA OthersCalm ==
  ASSUME NEW c \in Conns, Turn(c), NEW d \in Others(c)
  PROVE  Idle(d)' /\ Part(d)' /\ (Registered(d)' <=> Registered(d))
<1>1. d \in Conns /\ Idle(d) /\ Same(d) /\ Part(d)
  BY DEF Turn, Others, CInv, CalmInv
<1>2. Idle(d)' /\ (Registered(d)' <=> Registered(d))
  BY <1>1 DEF Idle, Registered, Same
<1>3. reply[d] = None /\ peer[d] # "wait" /\ at[d] \in {"off", "read", "closed"}
  BY <1>1 DEF Part, Conversation, Idle
<1>4. (~rst[d] /\ Conversation(d) /\ Identity(d))'
  BY <1>1, <1>2, <1>3 DEF Part, Conversation, Identity, Same
<1>5. LoginStage(d)' /\ LookupStage(d)' /\ Exact(d)'
  BY <1>1, <1>3, NoneAssumption DEF LoginStage, LookupStage, Exact, Same
<1> QED
  BY <1>2, <1>4, <1>5 DEF Part

LEMMA TurnCInv ==
  ASSUME NEW c \in Conns, CInv, TInv', Ask(c) \/ Receive(c) \/ Killed(c) \/ Thread(c),
         Turn(c) /\ calm' => (up /\ Table /\ Part(c))'
  PROVE  CInv'
<1>1. Typed'
  BY PeerSame, ThreadSame DEF CInv
<1>2. ASSUME calm' PROVE (up /\ OneActive /\ Table /\ \A d \in Conns : Part(d))'
  <2>1. Turn(c)
    BY <1>2, StepTurn
  <2>2. \A d \in Others(c) : Idle(d)' /\ Part(d)'
    BY <2>1, OthersCalm
  <2> QED
    BY <1>2, <2>1, <2>2 DEF OneActive, Others
<1> QED
  BY <1>1, <1>2 DEF CInv, CalmInv

\* The table stays right when neither it nor who is registered changes.
LEMMA TableKept ==
  ASSUME NEW c \in Conns, Turn(c), UNCHANGED status,
         Registered(c)' <=> Registered(c), Registered(c) => typed'[c] = typed[c]
  PROVE  Table'
<1>1. \A d \in Conns : Registered(d)' <=> Registered(d)
  BY OthersCalm DEF Others
<1>2. \A d \in Conns : Registered(d) => typed'[d] = typed[d]
  BY DEF Turn, Same, Others
<1>3. \A d \in Conns, u \in Users : RegisteredFor(d, u)' <=> RegisteredFor(d, u)
  BY <1>1, <1>2 DEF RegisteredFor
<1> QED
  BY <1>3 DEF Turn, CInv, CalmInv, Table

LEMMA TakenKept ==
  ASSUME NEW c \in Conns, Turn(c), typed'[c] = typed[c]
  PROVE  TakenName(c)' <=> TakenName(c)
<1>1. \A d \in Others(c) : (Registered(d)' <=> Registered(d)) /\ typed'[d] = typed[d]
  BY OthersCalm DEF Turn, Same
<1> QED
  BY <1>1 DEF TakenName, RegisteredFor, Others
-----------------------------------------------------------------------------
(* The peers take their turns.                                             *)

LEMMA ConnectCalm ==
  ASSUME NEW c \in Conns, Turn(c), calm', Connect(c)
  PROVE  (up /\ Table /\ Part(c))'
<1> USE DEF Connect, Turn, tableVars, lookupVars, socketVars
<1>1. Part(c) /\ up /\ peer[c] = "new" /\ peer'[c] = "open" /\ at'[c] = "read"
  BY DEF CInv, CalmInv, TInv, GInv, Types
<1>2. ~Registered(c) /\ ~Registered(c)'
  BY <1>1 DEF Registered
<1>3. Table'
  BY <1>2, TableKept
<1>4. (~rst[c] /\ Conversation(c) /\ Identity(c))'
  BY <1>1, <1>2 DEF Part, Conversation, Identity
<1>5. LoginStage(c)' /\ LookupStage(c)' /\ Exact(c)'
  BY <1>1, <1>4, NoneAssumption DEF LoginStage, LookupStage, Exact, Conversation
<1> QED
  BY <1>1, <1>3, <1>4, <1>5 DEF Part

LEMMA RequestCalm ==
  ASSUME NEW c \in Conns, NEW line, Turn(c), calm', Typed', Request(c, line), line # <<>>,
         \/ peer[c] = "open" /\ line = LoginLine(c)' /\ typed'[c] \in Names \X Guesses
         \/ peer[c] = "in" /\ line[1] # "/login" /\ typed' = typed
  PROVE  (up /\ Table /\ Part(c))'
<1> USE DEF Request, Turn, tableVars, threadVars, lookupVars
<1>1. /\ Part(c) /\ up /\ peer'[c] = "wait" /\ asked'[c] = line[1] /\ inbox'[c] = line
      /\ peer[c] = "open" => LoginLine(c)'[1] = "/login"
  BY DEF CInv, CalmInv, TInv, GInv, Types, Rest, LoginLine
<1>2. at[c] = "read" /\ inbox[c] = <<>> /\ reply[c] = None /\ ~fin[c] /\ UNCHANGED <<at, reply, fin>>
  BY <1>1 DEF Part, Conversation
<1>3. (Registered(c)' <=> Registered(c)) /\ (Registered(c) <=> peer[c] = "in")
  BY <1>1, <1>2, NoneAssumption DEF Registered
<1>4. Table'
  BY <1>3, TableKept
<1>5. (~rst[c] /\ Conversation(c))'
  BY <1>1, <1>2 DEF Part, Conversation, IsAsked
<1>6. Identity(c)'
  BY <1>1, <1>2, <1>3 DEF Part, Identity
<1>7. LoginStage(c)' /\ LookupStage(c)' /\ Exact(c)'
  BY <1>2, NoneAssumption DEF LoginStage, LookupStage, Exact
<1> QED
  BY <1>1, <1>4, <1>5, <1>6, <1>7 DEF Part

LEMMA AskCalm ==
  ASSUME NEW c \in Conns, Turn(c), calm', Typed', Ask(c)
  PROVE  (up /\ Table /\ Part(c))'
<1>1. CASE Connect(c)
  BY <1>1, ConnectCalm
<1>2. ASSUME NEW n \in Names, NEW p \in Guesses, SendLogin(c, n, p)
      PROVE  (up /\ Table /\ Part(c))'
  <2> DEFINE line == <<"/login", n, p, "ip", "port">>
  <2>1. typed'[c] = <<n, p>> /\ Request(c, line) /\ peer[c] = "open"
    BY <1>2 DEF SendLogin, Turn, CInv, Typed
  <2>2. line = LoginLine(c)' /\ typed'[c] \in Names \X Guesses /\ line # <<>>
    BY <2>1 DEF LoginLine
  <2> HIDE DEF line
  <2> QED
    BY <2>1, <2>2, RequestCalm
<1>3. ASSUME NEW line \in Lookups, SendLookup(c, line)
      PROVE  (up /\ Table /\ Part(c))'
  <2>1. line # <<>> /\ line[1] # "/login"
    BY LookupsAssumption
  <2> QED
    BY <1>3, <2>1, RequestCalm DEF SendLookup
<1>4. CASE SendLogout(c)
  <2>1. <<"/logout">> # <<>> /\ <<"/logout">>[1] # "/login"
    OBVIOUS
  <2> QED
    BY <1>4, <2>1, RequestCalm DEF SendLogout
<1> QED
  BY <1>1, <1>2, <1>3, <1>4 DEF Ask

LEMMA ReceiveCalm ==
  ASSUME NEW c \in Conns, Turn(c), calm', Receive(c) \/ Killed(c)
  PROVE  (up /\ Table /\ Part(c))'
<1> USE DEF Receive, Killed, Turn, tableVars, threadVars, lookupVars
<1>1. /\ Part(c) /\ up /\ reply'[c] = None /\ peer'[c] \in {"in", "gone"}
      /\ fin'[c] <=> peer'[c] = "gone"
      /\ ~rst'[c] /\ UNCHANGED <<up, at, inbox, typed, this_user, status>>
  <2>1. CASE Receive(c)
    BY <2>1 DEF CInv, CalmInv, TInv, GInv, Types, Rest, Part
  <2>2. CASE Killed(c)
    BY <2>2 DEF CInv, CalmInv, TInv, GInv, Types, Rest, Part, Conversation, Idle
  <2> QED
    BY <2>1, <2>2
<1>2. \/ /\ peer[c] = "wait" /\ inbox[c] = <<>> /\ HasAnswered(c)
         /\ peer'[c] = "gone" <=> reply[c] = "error" \/ asked[c] = "/logout"
      \/ peer[c] = "in" /\ peer'[c] = "gone" /\ at[c] = "read" /\ inbox[c] = <<>>
  <2>1. CASE Receive(c)
    BY <1>1, <2>1, NoneAssumption DEF CInv, TInv, GInv, Types, Part, Conversation
  <2>2. CASE Killed(c)
    BY <1>1, <2>2 DEF CInv, TInv, GInv, Types, Part, Conversation, Idle
  <2> QED
    BY <2>1, <2>2
<1>3. Registered(c)' <=> Registered(c)
  BY <1>1, <1>2, NoneAssumption DEF Registered, HasAnswered
<1>4. Table'
  BY <1>1, <1>3, TableKept
<1>5. (~rst[c] /\ Conversation(c))'
  BY <1>1, <1>2, NoneAssumption DEF Conversation, HasAnswered
<1>6. Identity(c)'
  BY <1>1, <1>2, <1>3 DEF Part, Identity, HasAnswered
<1>7. LoginStage(c)' /\ LookupStage(c)' /\ Exact(c)'
  BY <1>1, <1>2, NoneAssumption DEF LoginStage, LookupStage, Exact, HasAnswered
<1> QED
  BY <1>1, <1>4, <1>5, <1>6, <1>7 DEF Part
-----------------------------------------------------------------------------
(* The thread works on the line of the one peer that is active.            *)

LEMMA AtWork ==
  ASSUME NEW c \in Conns, Turn(c), at[c] \in ThreadPlaces \ {"off", "read", "peek", "clear", "closed"}
  PROVE  /\ up /\ TInv /\ Typed /\ Table /\ Part(c) /\ Works(c) /\ IsAsked(c, buffer[c])
         /\ peer[c] = "wait" /\ ~fin[c] /\ ~rst[c] /\ reply[c] = None /\ inbox[c] = <<>>
         /\ typed[c] \in Names \X Guesses
<1>1. up /\ TInv /\ Typed /\ Table /\ Part(c)
  BY DEF Turn, CInv, CalmInv
<1>2. /\ Works(c) /\ IsAsked(c, buffer[c])
      /\ peer[c] = "wait" /\ ~fin[c] /\ ~rst[c] /\ reply[c] = None /\ inbox[c] = <<>>
  BY <1>1 DEF Part, Conversation, HasAnswered
<1> QED
  BY <1>1, <1>2 DEF Part, Identity

\* A word that strtok returns is not NULL.
LEMMA WordIs ==
  ASSUME TInv, saved # <<>>
  PROVE  Word = saved[1] /\ Word # None
<1>1. saved[1] \in Words
  BY DEF TInv, Rest
<1> QED
  BY <1>1, NoneAssumption DEF Word, NextWord

LEMMA Tails ==
  ASSUME NEW a, NEW b, NEW x, NEW y, NEW z
  PROVE  /\ Tail(<<a, b, x, y, z>>) = <<b, x, y, z>>
         /\ Tail(<<b, x, y, z>>) = <<x, y, z>>
         /\ Tail(<<x, y, z>>) = <<y, z>>
         /\ Tail(<<y, z>>) = <<z>>
  OBVIOUS

InLogin == {"login", "name", "password", "online?", "ip", "port", "register"}

\* A step of a login before the user is registered.
LEMMA InLoginCalm ==
  ASSUME NEW c \in Conns, Turn(c), at[c] \in InLogin,
         \/ LoginStart(c) \/ LoginName(c) \/ LoginPassword(c)
         \/ LoginOnline(c) \/ LoginIp(c) \/ LoginPort(c)
  PROVE  (up /\ Table /\ Part(c))'
<1> USE DEF At, Goto, tableVars, lookupVars, peerVars, socketVars
<1> DEFINE u == typed[c][1]
           p == typed[c][2]
<1>1. at[c] \in ThreadPlaces \ {"off", "read", "peek", "clear", "closed"}
  BY DEF InLogin, ThreadPlaces
<1>2. /\ up /\ TInv /\ Table /\ Part(c) /\ peer[c] = "wait" /\ ~fin[c] /\ ~rst[c] /\ reply[c] = None
      /\ inbox[c] = <<>> /\ typed[c] \in Names \X Guesses
  BY <1>1, AtWork
<1>3. asked[c] = "/login" /\ buffer[c] = <<"/login", u, p, "ip", "port">>
  BY <1>1, AtWork DEF Works, IsAsked, LoginLine, InLogin
<1>4. /\ UNCHANGED <<status, peer, typed, asked, buffer, inbox, reply, fin, rst>>
      /\ \E l \in InLogin \cup {"refuse"} : at' = [at EXCEPT ![c] = l]
  BY DEF LoginStart, LoginName, LoginPassword, LoginOnline, LoginIp, LoginPort, InLogin
<1>5. at'[c] \in InLogin \cup {"refuse"}
  BY <1>2, <1>4 DEF TInv, GInv, Types
<1>6. ~Registered(c) /\ ~Registered(c)'
  BY <1>2, <1>3, <1>4, <1>5, NoneAssumption DEF Registered, InLogin
<1>7. Table' /\ (TakenName(c)' <=> TakenName(c))
  BY <1>4, <1>6, TableKept, TakenKept
<1>8. (~rst[c] /\ Conversation(c))'
  BY <1>2, <1>3, <1>4, <1>5 DEF Conversation, IsAsked, LoginLine, Works, InLogin
<1>9. LookupStage(c)' /\ Exact(c)'
  BY <1>5 DEF LookupStage, Exact, InLogin
<1>10. up' /\ Identity(c)' /\ LoginStage(c)'
  <2>1. CASE LoginStart(c)
    <3>1. saved' = <<u, p, "ip", "port">> /\ at'[c] = "name"
      BY <1>2, <1>3, <2>1, Tails DEF LoginStart, FirstWord, TInv, GInv, Types
    <3> QED
      BY <1>2, <1>4, <1>6, <2>1, <3>1, NoneAssumption DEF LoginStart, Identity, LoginStage
  <2>2. CASE LoginName(c)
    <3>1. saved = <<u, p, "ip", "port">>
      BY <1>2, <2>2 DEF LoginName, Part, LoginStage
    <3>2. Word = u /\ u # None
      BY <1>2, <3>1, WordIs
    <3>3. saved' = <<p, "ip", "port">>
      BY <2>2, <3>1, Tails DEF LoginName, NextWord
    <3>4. CASE u \in Users
      <4>1. up' /\ at'[c] = "password" /\ this_user'[c] = u
        BY <1>2, <2>2, <3>2, <3>4 DEF LoginName, CrashOn, TInv, GInv, Types
      <4> QED
        BY <1>2, <1>4, <1>6, <3>3, <4>1, NoneAssumption DEF Identity, LoginStage
    <3>5. CASE u \notin Users
      <4>1. up' /\ at'[c] = "refuse" /\ UnknownName(c)'
        BY <1>2, <1>4, <2>2, <3>2, <3>5 DEF LoginName, CrashOn, TInv, GInv, Types, UnknownName
      <4> QED
        BY <1>2, <1>4, <1>6, <4>1, NoneAssumption DEF Identity, LoginStage
    <3> QED
      BY <3>4, <3>5
  <2>3. CASE LoginPassword(c)
    <3>1. saved = <<p, "ip", "port">> /\ this_user[c] = u
      BY <1>2, <2>3 DEF LoginPassword, Part, LoginStage, Identity
    <3>2. Word = p /\ p # None
      BY <1>2, <3>1, WordIs
    <3>3. saved' = <<"ip", "port">>
      BY <2>3, <3>1, Tails DEF LoginPassword, NextWord
    <3>4. /\ up' /\ this_user' = this_user
          /\ at'[c] = IF p = Password[u] THEN "online?" ELSE "refuse"
      BY <1>2, <2>3, <3>1, <3>2 DEF LoginPassword, CrashOn, TInv, GInv, Types
    <3> QED
      BY <1>2, <1>4, <1>6, <3>1, <3>3, <3>4, NoneAssumption DEF Identity, LoginStage, UnknownName, WrongPassword
  <2>4. CASE LoginOnline(c)
    <3>1. /\ saved = <<"ip", "port">> /\ this_user[c] = u /\ ~WrongPassword(c)
          /\ UNCHANGED <<up, saved, this_user>>
      BY <1>2, <2>4 DEF LoginOnline, Part, LoginStage, Identity
    <3>2. u \in Users
      BY <1>2, <3>1 DEF TInv, GInv, Types
    <3>3. status[u] = 1 <=> TakenName(c)
      BY <1>2, <1>6, <3>2 DEF Table, TakenName, RegisteredFor, Others
    <3>4. at'[c] = IF TakenName(c) THEN "refuse" ELSE "ip"
      BY <1>2, <2>4, <3>1, <3>2, <3>3 DEF LoginOnline, TInv, GInv, Types
    <3> QED
      BY <1>2, <1>4, <1>6, <1>7, <3>1, <3>4, NoneAssumption DEF Identity, LoginStage, UnknownName, WrongPassword
  <2>5. CASE LoginIp(c)
    <3>1. saved = <<"ip", "port">> /\ this_user[c] = u /\ ~WrongPassword(c) 
      BY <1>2, <2>5 DEF LoginIp, Part, LoginStage, Identity
    <3>2. ~TakenName(c)
      BY <1>2, <2>5 DEF LoginIp, Part, LoginStage
    <3>3. Word # None /\ saved' = <<"port">>
      BY <1>2, <2>5, <3>1, WordIs, Tails DEF LoginIp, NextWord
    <3>4. up' /\ this_user' = this_user /\ at'[c] = "port"
      BY <1>2, <2>5, <3>3 DEF LoginIp, CrashOn, TInv, GInv, Types
    <3> QED
      BY <1>2, <1>4, <1>6, <1>7, <3>1, <3>2, <3>3, <3>4, NoneAssumption
      DEF Identity, LoginStage, UnknownName, WrongPassword
  <2>6. CASE LoginPort(c)
    <3>1. saved = <<"port">> /\ this_user[c] = u /\ ~WrongPassword(c) /\ ~TakenName(c)
      BY <1>2, <2>6 DEF LoginPort, Part, LoginStage, Identity
    <3>2. Word # None
      BY <1>2, <3>1, WordIs
    <3>3. up' /\ this_user' = this_user /\ at'[c] = "register"
      BY <1>2, <2>6, <3>2 DEF LoginPort, CrashOn, TInv, GInv, Types
    <3> QED
      BY <1>2, <1>4, <1>6, <1>7, <3>1, <3>3, NoneAssumption
      DEF Identity, LoginStage, UnknownName, WrongPassword
  <2> QED
    BY <2>1, <2>2, <2>3, <2>4, <2>5, <2>6
<1> QED
  BY <1>7, <1>8, <1>9, <1>10 DEF Part
\* Registering a user nobody else serves, and dropping the user one serves.
LEMMA TableOn ==
  ASSUME NEW c \in Conns, Turn(c), typed[c][1] \in Users, typed'[c] = typed[c],
         ~Registered(c), Registered(c)', ~TakenName(c),
         status' = [status EXCEPT ![typed[c][1]] = 1]
  PROVE  Table'
<1>1. \A d \in Others(c), v \in Users : RegisteredFor(d, v)' <=> RegisteredFor(d, v)
  BY OthersCalm DEF Turn, Same, RegisteredFor
<1>2. \A v \in Users : ~RegisteredFor(c, v) /\ (RegisteredFor(c, v)' <=> v = typed[c][1])
  BY DEF RegisteredFor
<1>3. \A d \in Others(c) : ~RegisteredFor(d, typed[c][1])
  BY DEF TakenName
<1>4. Table /\ status \in [Users -> {0, 1}]
  BY DEF Turn, CInv, CalmInv, TInv, GInv, Types
<1> QED
  BY <1>1, <1>2, <1>3, <1>4 DEF Table, Others

LEMMA TableOff ==
  ASSUME NEW c \in Conns, Turn(c), typed[c][1] \in Users, typed'[c] = typed[c],
         Registered(c), ~Registered(c)', status' = [status EXCEPT ![typed[c][1]] = 0]
  PROVE  Table'
<1>1. \A d \in Others(c), v \in Users : RegisteredFor(d, v)' <=> RegisteredFor(d, v)
  BY OthersCalm DEF Turn, Same, RegisteredFor
<1>2. \A v \in Users : (RegisteredFor(c, v) <=> v = typed[c][1]) /\ ~RegisteredFor(c, v)'
  BY DEF RegisteredFor
<1>3. Table /\ status \in [Users -> {0, 1}]
  BY DEF Turn, CInv, CalmInv, TInv, GInv, Types
<1> QED
  BY <1>1, <1>2, <1>3 DEF Table, Others

LEMMA RegisterCalm ==
  ASSUME NEW c \in Conns, Turn(c), LoginRegister(c)
  PROVE  (up /\ Table /\ Part(c))'
<1> USE DEF LoginRegister, At, Goto, lookupVars, peerVars, socketVars
<1>1. /\ up /\ TInv /\ Table /\ Part(c) /\ peer[c] = "wait" /\ ~fin[c] /\ ~rst[c] /\ reply[c] = None
      /\ inbox[c] = <<>> /\ typed[c] \in Names \X Guesses /\ Works(c) /\ IsAsked(c, buffer[c])
  BY AtWork DEF ThreadPlaces
<1>2. this_user[c] = typed[c][1] /\ typed[c][1] \in Users /\ ~TakenName(c)
  BY <1>1 DEF Part, Identity, LoginStage, TInv, GInv, Types
<1>3. at'[c] = "welcome" /\ asked[c] = "/login"
  BY <1>1 DEF TInv, GInv, Types, Works
<1>4. ~Registered(c) /\ Registered(c)'
  BY <1>1, <1>3, NoneAssumption DEF Registered
<1>5. Table'
  BY <1>1, <1>2, <1>4, TableOn
<1>6. (~rst[c] /\ Conversation(c) /\ Identity(c))'
  BY <1>1, <1>2, <1>3 DEF Conversation, IsAsked, LoginLine, Works, Identity
<1>7. LoginStage(c)' /\ LookupStage(c)' /\ Exact(c)'
  BY <1>1, <1>3, NoneAssumption DEF LoginStage, LookupStage, Exact
<1> QED
  BY <1>1, <1>5, <1>6, <1>7 DEF Part

\* The four answers.
LEMMA WriteCalm ==
  ASSUME NEW c \in Conns, Turn(c),
         LoginWelcome(c) \/ LoginRefused(c) \/ LogoutReply(c) \/ Answer(c)
  PROVE  (up /\ Table /\ Part(c))'
<1> USE DEF LoginWelcome, LoginRefused, LogoutReply, Answer, Write, At, Goto, lookupVars, peerVars
<1>1. /\ up /\ TInv /\ Table /\ Part(c) /\ peer[c] = "wait" /\ ~fin[c] /\ ~rst[c] /\ reply[c] = None
      /\ inbox[c] = <<>> /\ typed[c] \in Names \X Guesses /\ Works(c)
  BY AtWork DEF ThreadPlaces
<1>2. up' /\ ~rst'[c] /\ UNCHANGED <<status, peer, typed, asked, inbox, fin, this_user>>
  BY <1>1 DEF TInv, GInv, Types, Rest
<1>3. \/ at[c] = "welcome" /\ asked[c] = "/login" /\ at'[c] = "read" /\ reply'[c] = "welcome"
      \/ at[c] = "refuse" /\ asked[c] = "/login" /\ at'[c] = "closed" /\ reply'[c] = "error"
      \/ at[c] = "bye" /\ asked[c] = "/logout" /\ at'[c] = "clear" /\ reply'[c] = "bye"
      \/ at[c] = "answer" /\ asked[c] \in {"/lookup", "other"} /\ at'[c] = "read" /\ reply'[c] = "info"
  BY <1>1 DEF TInv, GInv, Types, Rest, Works
<1>4. Registered(c)' <=> Registered(c)
  BY <1>1, <1>2, <1>3, NoneAssumption DEF Registered
<1>5. Table' /\ (TakenName(c)' <=> TakenName(c))
  BY <1>2, <1>4, TableKept, TakenKept
<1>6. (~rst[c] /\ Conversation(c) /\ Identity(c))'
  BY <1>1, <1>2, <1>3, <1>4 DEF Conversation, HasAnswered, Part, Identity
<1>7. LookupStage(c)' /\ Exact(c)'
  BY <1>3 DEF LookupStage, Exact
<1>8. LoginStage(c)'
  BY <1>1, <1>2, <1>3, <1>5, NoneAssumption DEF Part, LoginStage, UnknownName, WrongPassword
<1> QED
  BY <1>2, <1>5, <1>6, <1>7, <1>8 DEF Part

\* The end of a connection: after a logout, or because the peer is gone.
LEMMA EndCalm ==
  ASSUME NEW c \in Conns, Turn(c), LogoutClear(c) \/ Dead(c)
  PROVE  (up /\ Table /\ Part(c))'
<1> USE DEF LogoutClear, Dead, At, Goto, lookupVars, peerVars, socketVars
<1>1. up /\ TInv /\ Table /\ Part(c) /\ UNCHANGED <<up, inbox, reply, fin, rst, peer, typed, asked>>
  BY DEF Turn, CInv, CalmInv
<1>2. /\ at[c] # "closed" /\ at'[c] = "closed" /\ ~rst[c] /\ inbox[c] = <<>>
      /\ \/ peer[c] = "wait" /\ asked[c] = "/logout" /\ ~fin[c] /\ reply[c] = "bye"
         \/ peer[c] = "gone" /\ fin[c] /\ reply[c] = None
  BY <1>1 DEF Part, Conversation, HasAnswered, Works, TInv, GInv, Types, PeerInv
<1>3. Registered(c) /\ ~Registered(c)'
  BY <1>1, <1>2, NoneAssumption DEF Registered
<1>4. typed[c] \in Names \X Guesses /\ this_user[c] = typed[c][1] /\ typed[c][1] \in Users
  BY <1>1, <1>2, <1>3 DEF Part, Identity, TInv, GInv, Types
<1>5. Table'
  BY <1>1, <1>3, <1>4, TableOff
<1>6. (~rst[c] /\ Conversation(c) /\ Identity(c))'
  BY <1>1, <1>2, <1>3, <1>4 DEF Conversation, HasAnswered, Identity
<1>7. LoginStage(c)' /\ LookupStage(c)' /\ Exact(c)'
  BY <1>1, <1>2, NoneAssumption DEF LoginStage, LookupStage, Exact
<1> QED
  BY <1>1, <1>5, <1>6, <1>7 DEF Part

LEMMA ReadCalm ==
  ASSUME NEW c \in Conns, Turn(c), Read(c)
  PROVE  (up /\ Table /\ Part(c))'
<1> USE DEF Read, At, Goto, lookupVars, peerVars
<1>1. up /\ TInv /\ Table /\ Part(c)
  BY DEF Turn, CInv, CalmInv
<1>2. /\ at'[c] = "peek" /\ up' /\ ~rst[c] /\ inbox'[c] = <<>> /\ reply[c] = None
      /\ UNCHANGED <<status, reply, fin, rst, peer, typed, asked, this_user>>
      /\ buffer'[c] = IF inbox[c] = <<>> THEN buffer[c] ELSE inbox[c]
  BY <1>1 DEF Part, Conversation, HasAnswered, TInv, GInv, Types, PeerInv
<1>3. \/ peer[c] = "wait" /\ ~fin[c] /\ IsAsked(c, inbox[c]) /\ inbox[c] # <<>>
      \/ peer[c] = "gone" /\ fin[c]
  BY <1>1 DEF Part, Conversation, HasAnswered, IsAsked, TInv, GInv, Types, PeerInv
<1>4. Registered(c)' <=> Registered(c)
  BY <1>1, <1>2, <1>3, NoneAssumption DEF Registered
<1>5. Table'
  BY <1>2, <1>4, TableKept
<1>6. (~rst[c] /\ Conversation(c))'
  BY <1>2, <1>3 DEF Conversation, Works, IsAsked, LoginLine
<1>7. Identity(c)'
  BY <1>1, <1>2, <1>3, <1>4 DEF Part, Identity
<1>8. LoginStage(c)' /\ LookupStage(c)' /\ Exact(c)'
  BY <1>2, NoneAssumption DEF LoginStage, LookupStage, Exact
<1> QED
  BY <1>2, <1>5, <1>6, <1>7, <1>8 DEF Part

LEMMA DispatchCalm ==
  ASSUME NEW c \in Conns, Turn(c), Dispatch(c)
  PROVE  (up /\ Table /\ Part(c))'
<1> USE DEF Dispatch, At, Goto, tableVars, lookupVars, peerVars, socketVars
<1>1. /\ up /\ TInv /\ Table /\ Part(c) /\ peer[c] = "wait" /\ ~fin[c] /\ ~rst[c] /\ reply[c] = None
      /\ inbox[c] = <<>> /\ typed[c] \in Names \X Guesses /\ IsAsked(c, buffer[c])
  BY DEF Turn, CInv, CalmInv, Part, Conversation, HasAnswered, Identity
<1>2. asked[c] \in Commands
  BY <1>1, LinesAreWords DEF IsAsked, TInv, GInv, Types
<1>3. PICK x : /\ x = CASE buffer[c][1] = "/login" -> "login"
                        [] buffer[c][1] = "/logout" -> "bye"
                        [] buffer[c][1] = "/lookup" -> "count"
                        [] OTHER -> "answer"
               /\ at' = [at EXCEPT ![c] = x]
  BY DEF Dispatch, Goto
<1>4. \/ asked[c] = "/login" /\ x = "login"
      \/ asked[c] = "/logout" /\ x = "bye"
      \/ asked[c] = "/lookup" /\ x = "count"
      \/ asked[c] = "other" /\ x = "answer"
  BY <1>1, <1>2, <1>3 DEF IsAsked, Commands
<1>5. at'[c] = x
  BY <1>1, <1>3 DEF TInv, GInv, Types
<1>6. Registered(c)' <=> Registered(c)
  BY <1>1, <1>4, <1>5, NoneAssumption DEF Registered
<1>7. Table'
  BY <1>6, TableKept
<1>8. (~rst[c] /\ Conversation(c))'
  BY <1>1, <1>4, <1>5 DEF Conversation, Works, IsAsked, LoginLine
<1>9. Identity(c)'
  BY <1>1, <1>4, <1>5, <1>6 DEF Part, Identity
<1>10. LoginStage(c)' /\ LookupStage(c)' /\ Exact(c)'
  BY <1>1, <1>4, <1>5, NoneAssumption DEF LoginStage, LookupStage, Exact, IsAsked
<1> QED
  BY <1>1, <1>7, <1>8, <1>9, <1>10 DEF Part
-----------------------------------------------------------------------------
(* Lookups.                                                                *)

\* The passes over userlist meet every user once.
LEMMA OnlineSteps ==
  ASSUME status \in [Users -> {0, 1}]
  PROVE  /\ OnlineBefore(1) = {} /\ Cardinality(OnlineBefore(1)) = 0
         /\ OnlineBefore(Len(UserList) + 1) = OnlineUsers
         /\ \A n \in 1 .. Len(UserList) :
              /\ OnlineBefore(n + 1) = IF status[UserList[n]] = 1 THEN OnlineBefore(n) \cup {UserList[n]}
                                       ELSE OnlineBefore(n)
              /\ Cardinality(OnlineBefore(n + 1)) = Cardinality(OnlineBefore(n)) + status[UserList[n]]
              /\ Cardinality(OnlineBefore(n)) \in Nat
<1>1. Len(UserList) \in Nat /\ DOMAIN UserList = 1 .. Len(UserList)
  BY UsersAssumption
<1>2. OnlineBefore(1) = {} /\ Cardinality(OnlineBefore(1)) = 0
  BY FS_EmptySet DEF OnlineBefore
<1>3. OnlineBefore(Len(UserList) + 1) = OnlineUsers
  <2>1. 1 .. (Len(UserList) + 1) - 1 = DOMAIN UserList
    BY <1>1
  <2>2. {UserList[i] : i \in 1 .. (Len(UserList) + 1) - 1} = Users
    BY <2>1 DEF Users
  <2> QED
    BY <2>2 DEF OnlineBefore, OnlineUsers
<1>4. ASSUME NEW n \in 1 .. Len(UserList)
      PROVE  /\ OnlineBefore(n + 1) = IF status[UserList[n]] = 1 THEN OnlineBefore(n) \cup {UserList[n]}
                                      ELSE OnlineBefore(n)
             /\ Cardinality(OnlineBefore(n + 1)) = Cardinality(OnlineBefore(n)) + status[UserList[n]]
             /\ Cardinality(OnlineBefore(n)) \in Nat
  <2> DEFINE u == UserList[n]
             f == [i \in 1 .. n - 1 |-> UserList[i]]
             seen == {UserList[i] : i \in 1 .. n - 1}
  <2>1. n \in Nat /\ n \in DOMAIN UserList /\ u \in Users
    BY <1>1 DEF Users
  <2>2. f \in Surjection(1 .. n - 1, seen)
    BY DEF Surjection
  <2>3. IsFiniteSet(seen)
    BY <2>1, <2>2, FS_Interval, FS_Surjection
  <2>4. IsFiniteSet(OnlineBefore(n))
    BY <2>3, FS_Subset DEF OnlineBefore
  <2>5. u \notin OnlineBefore(n)
    <3>1. \A i \in 1 .. n - 1 : i \in DOMAIN UserList /\ i # n
      BY <1>1, <2>1
    <3> QED
      BY <2>1, <3>1, UsersAssumption DEF OnlineBefore
  <2>6. 1 .. (n + 1) - 1 = (1 .. n - 1) \cup {n}
    BY <2>1
  <2>7. {UserList[i] : i \in 1 .. (n + 1) - 1} = seen \cup {u}
    BY <2>6
  <2>8. u \in OnlineUsers <=> status[u] = 1
    BY <2>1 DEF OnlineUsers
  <2>9. OnlineBefore(n + 1) = IF status[u] = 1 THEN OnlineBefore(n) \cup {u} ELSE OnlineBefore(n)
    BY <2>7, <2>8 DEF OnlineBefore
  <2>10. Cardinality(OnlineBefore(n)) \in Nat
    BY <2>4, FS_CardinalityType
  <2>11. Cardinality(OnlineBefore(n + 1)) = Cardinality(OnlineBefore(n)) + status[u]
    <3>1. status[u] \in {0, 1}
      BY <2>1
    <3>2. CASE status[u] = 1
      BY <2>4, <2>5, <2>9, <3>2, FS_AddElement
    <3>3. CASE status[u] = 0
      BY <2>9, <2>10, <3>3
    <3> QED
      BY <3>1, <3>2, <3>3
  <2> QED
    BY <2>9, <2>10, <2>11
<1> QED
  BY <1>2, <1>3, <1>4

InLookup == {"count", "count_rest", "recount", "recount_rest", "find", "find_name", "find_status",
             "tally", "list"}

\* A step of a lookup leaves all but its own results and strtok alone.
LEMMA LookupFrame ==
  ASSUME NEW c \in Conns, Turn(c), at[c] \in InLookup, at'[c] \in InLookup \cup {"answer"}, up',
         UNCHANGED <<status, this_user, buffer, peer, typed, asked, inbox, reply, fin, rst>>,
         LookupStage(c)' /\ Exact(c)'
  PROVE  (up /\ Table /\ Part(c))'
<1>1. /\ up /\ TInv /\ Table /\ Part(c) /\ peer[c] = "wait" /\ ~fin[c] /\ ~rst[c] /\ reply[c] = None
      /\ inbox[c] = <<>> /\ typed[c] \in Names \X Guesses /\ Works(c) /\ IsAsked(c, buffer[c])
  BY AtWork DEF ThreadPlaces, InLookup
<1>2. asked[c] = "/lookup"
  BY <1>1 DEF Works, InLookup
<1>3. Registered(c) /\ Registered(c)'
  BY <1>1, <1>2 DEF Registered, InLookup
<1>4. Table'
  BY <1>3, TableKept
<1>5. (~rst[c] /\ Conversation(c) /\ Identity(c))'
  BY <1>1, <1>2, <1>3 DEF Conversation, Works, IsAsked, LoginLine, InLookup, Part, Identity
<1>6. LoginStage(c)'
  BY <1>1, NoneAssumption DEF LoginStage, InLookup
<1> QED
  BY <1>4, <1>5, <1>6 DEF Part

LEMMA CountCalm ==
  ASSUME NEW c \in Conns, Turn(c), CountStart(c) \/ CountMore(c) \/ CountEnd(c)
  PROVE  (up /\ Table /\ Part(c))'
<1>1. up /\ TInv /\ Part(c) /\ IsAsked(c, buffer[c]) /\ at[c] \in InLookup
  BY AtWork DEF ThreadPlaces, InLookup, CountStart, CountMore, CountEnd
<1>2. buffer[c] \in Seq(Words) /\ buffer[c] # <<>> /\ Len(buffer[c]) \in Nat /\ Len(buffer[c]) >= 1
  <2>1. buffer[c] # <<>> /\ buffer[c] \in Lines
    BY <1>1 DEF IsAsked, TInv, GInv, Types
  <2> QED
    BY <2>1, LinesAreWords, EmptySeq
<1>3. saved \in Seq(Words) /\ args[c] \in 0 .. 2
  BY <1>1 DEF TInv, Rest
<1>4. /\ at'[c] \in InLookup \cup {"answer"} /\ buffer'[c] = buffer[c]
      /\ UNCHANGED <<up, status, this_user, buffer, peer, typed, asked, inbox, reply, fin, rst>>
  BY <1>1 DEF TInv, GInv, Types, InLookup, CountStart, CountMore, CountEnd, Goto, tableVars, peerVars, socketVars
<1>5. LookupStage(c)' /\ Exact(c)'
  <2>1. CASE CountStart(c)
    <3>1. /\ args'[c] = 0 /\ buffer'[c] = buffer[c]
          /\ at'[c] = IF at[c] = "count" THEN "count_rest" ELSE "recount_rest"
      BY <1>1, <2>1 DEF CountStart, TInv, GInv, Types, Rest, Goto, tableVars, peerVars, socketVars
    <3>2. Len(saved') + 1 = Len(buffer[c])
      BY <1>2, <2>1 DEF CountStart, FirstWord
    <3>3. at[c] = "recount" => Len(buffer[c]) # 2
      BY <1>1 DEF Part, LookupStage
    <3> QED
      BY <1>2, <1>4, <2>1, <3>1, <3>2, <3>3 DEF CountStart, LookupStage, Exact
  <2>2. CASE CountMore(c)
    <3>1. saved # <<>> /\ saved' = Tail(saved)
      BY <2>2 DEF CountMore, Word, NextWord
    <3>2. Len(saved) \in Nat /\ Len(saved) >= 1 /\ Len(saved') = Len(saved) - 1
      BY <1>3, <3>1
    <3>3. args'[c] = IF args[c] < 2 THEN args[c] + 1 ELSE 2
      BY <1>1, <2>2 DEF CountMore, TInv, Rest
    <3>4. /\ Len(buffer[c]) >= args[c] + 1
          /\ args[c] < 2 => Len(saved) + args[c] + 1 = Len(buffer[c])
          /\ at[c] = "recount_rest" => Len(buffer[c]) # 2
      BY <1>1, <2>2 DEF CountMore, Part, LookupStage
    <3>5. /\ Len(buffer[c]) >= args'[c] + 1
          /\ args'[c] < 2 => Len(saved') + args'[c] + 1 = Len(buffer[c])
      BY <1>2, <1>3, <3>2, <3>3, <3>4
    <3> QED
      BY <1>4, <2>2, <3>4, <3>5 DEF CountMore, LookupStage, Exact
  <2>3. CASE CountEnd(c)
    <3>1. saved = <<>>
      BY <1>1, <2>3, WordIs DEF CountEnd
    <3>2. /\ Len(buffer[c]) >= args[c] + 1
          /\ args[c] < 2 => args[c] + 1 = Len(buffer[c])
          /\ at[c] = "recount_rest" => Len(buffer[c]) # 2
      BY <1>1, <1>3, <2>3, <3>1 DEF CountEnd, Part, LookupStage
    <3>3. /\ index'[c] = 1 /\ online'[c] = 0 /\ listed'[c] = {} /\ buffer'[c] = buffer[c]
          /\ at'[c] = IF at[c] = "count_rest" THEN IF args[c] = 1 THEN "find" ELSE "recount"
                      ELSE IF args[c] = 0 THEN "tally" ELSE "answer"
      BY <1>1, <2>3 DEF CountEnd, TInv, GInv, Types, Rest, Goto, tableVars, peerVars, socketVars
    <3>4. Cardinality(OnlineBefore(1)') = 0 /\ OnlineBefore(1)' = {}
      BY FS_EmptySet DEF OnlineBefore
    <3>5. \/ at'[c] = "find" /\ Len(buffer[c]) = 2
          \/ at'[c] = "recount" /\ Len(buffer[c]) # 2
          \/ at'[c] = "tally" /\ Len(buffer[c]) = 1
          \/ at'[c] = "answer" /\ Len(buffer[c]) > 2
      <4>1. PICK n \in Nat : n = Len(buffer[c])
        BY <1>2
      <4>2. args[c] = 0 \/ args[c] = 1 \/ args[c] = 2
        BY <1>3
      <4>3. at[c] = "count_rest" \/ (at[c] = "recount_rest" /\ n # 2)
        BY <2>3, <3>2, <4>1 DEF CountEnd
      <4>4. /\ args[c] = 0 => n = 1
            /\ args[c] = 1 => n = 2
            /\ args[c] = 2 => n >= 3
        <5>1. n >= args[c] + 1 /\ (args[c] < 2 => args[c] + 1 = n)
          BY <3>2, <4>1
        <5> HIDE <4>1
        <5> QED
          BY <1>3, <5>1
      <4>5. \/ at'[c] = "find" /\ n = 2
            \/ at'[c] = "recount" /\ n # 2
            \/ at'[c] = "tally" /\ n = 1
            \/ at'[c] = "answer" /\ n > 2
        BY <3>3, <4>2, <4>3, <4>4
      <4> QED
        BY <4>1, <4>5
    <3>6. Len(buffer[c]) > 2 => ~(Len(buffer[c]) <= 2)
      BY <1>2
    <3> QED
      BY <3>3, <3>4, <3>5, <3>6 DEF LookupStage, Exact
  <2> QED
    BY <2>1, <2>2, <2>3
<1> QED
  BY <1>1, <1>4, <1>5, LookupFrame

LEMMA FindCalm ==
  ASSUME NEW c \in Conns, Turn(c), FindStart(c) \/ FindName(c) \/ FindStatus(c)
  PROVE  (up /\ Table /\ Part(c))'
<1> USE DEF FindStart, FindName, FindStatus, At, Goto, tableVars, lookupVars, peerVars, socketVars
<1>1. up /\ TInv /\ Part(c) /\ IsAsked(c, buffer[c]) /\ at[c] \in InLookup
  BY AtWork DEF ThreadPlaces, InLookup
<1>2. buffer[c] \in Seq(Words) /\ Len(buffer[c]) = 2
  <2>1. buffer[c] # <<>> /\ buffer[c] \in Lines
    BY <1>1 DEF IsAsked, TInv, GInv, Types
  <2> QED
    BY <1>1, <2>1, LinesAreWords DEF Part, LookupStage
<1>3. buffer[c][2] \in Words /\ Tail(buffer[c]) = <<buffer[c][2]>>
  <2> DEFINE s == Tail(buffer[c])
             t == <<buffer[c][2]>>
  <2>1. buffer[c][2] \in Words /\ s \in Seq(Words)
    BY <1>2
  <2>2. Len(s) = 1 /\ s[1] = buffer[c][2]
    BY <1>2
  <2>3. t \in Seq(Words) /\ Len(t) = 1 /\ t[1] = buffer[c][2]
    BY <2>1
  <2>4. s = t
    <3> HIDE DEF s, t
    <3> QED
      BY <2>1, <2>2, <2>3, SeqEqual
  <2> QED
    BY <2>1, <2>4
<1>4. at'[c] \in InLookup \cup {"answer"} /\ buffer'[c] = buffer[c]
  BY <1>1 DEF TInv, GInv, Types, InLookup
<1>5. up' /\ LookupStage(c)' /\ Exact(c)'
  <2>1. CASE FindStart(c)
    <3>1. at'[c] = "find_name" /\ saved' = <<buffer[c][2]>>
      BY <1>1, <1>3, <2>1 DEF TInv, GInv, Types, FirstWord
    <3> QED
      BY <1>1, <1>2, <1>4, <2>1, <3>1 DEF LookupStage, Exact
  <2>2. CASE FindName(c)
    <3>1. saved = <<buffer[c][2]>>
      BY <1>1, <2>2 DEF Part, LookupStage
    <3>2. RestOfLine = buffer[c][2] /\ RestOfLine # None
      BY <1>3, <3>1, NoneAssumption DEF RestOfLine
    <3>3. up' /\ at'[c] = "find_status" /\ listed'[c] = Users \cap {buffer[c][2]}
      BY <1>1, <2>2, <3>2 DEF CrashOn, TInv, GInv, Types, Rest
    <3> QED
      BY <1>2, <1>4, <3>3 DEF LookupStage, Exact
  <2>3. CASE FindStatus(c)
    <3>1. listed[c] = Users \cap {buffer[c][2]}
      BY <1>1, <2>3 DEF Part, LookupStage
    <3>2. at'[c] = "answer" /\ listed'[c] = {u \in listed[c] : status[u] = 1}
      BY <1>1, <2>3 DEF TInv, GInv, Types, Rest
    <3> QED
      BY <1>1, <1>2, <1>4, <2>3, <3>1, <3>2 DEF LookupStage, Exact, OnlineUsers
  <2> QED
    BY <2>1, <2>2, <2>3
<1> QED
  BY <1>1, <1>4, <1>5, LookupFrame

LEMMA PassCalm ==
  ASSUME NEW c \in Conns, Turn(c), Tally(c) \/ List(c)
  PROVE  (up /\ Table /\ Part(c))'
<1> USE DEF At, Goto, tableVars, lookupVars, peerVars, socketVars
<1> DEFINE n == index[c]
           u == UserList[index[c]]
<1>1. up /\ TInv /\ Part(c) /\ at[c] \in InLookup
  BY AtWork DEF ThreadPlaces, InLookup, Tally, List
<1>2. n \in 1 .. Len(UserList) /\ status \in [Users -> {0, 1}] /\ Len(UserList) \in Nat
  BY <1>1, UsersAssumption DEF TInv, Rest, GInv, Types
<1>3. /\ OnlineBefore(1) = {}
      /\ n = Len(UserList) => OnlineBefore(n + 1) = OnlineUsers
      /\ OnlineBefore(n + 1) = IF status[u] = 1 THEN OnlineBefore(n) \cup {u} ELSE OnlineBefore(n)
      /\ Cardinality(OnlineBefore(n + 1)) = Cardinality(OnlineBefore(n)) + status[u]
  BY <1>2, OnlineSteps
<1>4. /\ UNCHANGED <<up, status, this_user, buffer, peer, typed, asked, inbox, reply, fin, rst>>
      /\ OnlineUsers' = OnlineUsers /\ \A m : OnlineBefore(m)' = OnlineBefore(m)
  BY DEF Tally, List, OnlineUsers, OnlineBefore
<1>5. Len(buffer[c]) = 1
  BY <1>1 DEF Part, LookupStage, Tally, List
<1>6. /\ n < Len(UserList) => index'[c] = n + 1 /\ at'[c] = at[c]
      /\ n = Len(UserList) => index'[c] = 1 /\ at'[c] = IF at[c] = "tally" THEN "list" ELSE "answer"
  <2>1. at \in [Conns -> ThreadPlaces] /\ index \in [Conns -> 1 .. Len(UserList)]
    BY <1>1 DEF TInv, GInv, Types, Rest
  <2>2. at[c] \in {"tally", "list"} /\ NextEntry(c, IF at[c] = "tally" THEN "list" ELSE "answer")
    BY DEF Tally, List
  <2> HIDE DEF n
  <2>3. CASE index[c] < Len(UserList)
    BY <1>2, <2>1, <2>2, <2>3 DEF NextEntry, n
  <2>4. CASE ~(index[c] < Len(UserList))
    BY <1>2, <2>1, <2>2, <2>4 DEF NextEntry, n
  <2> QED
    BY <2>3, <2>4
<1>7. at'[c] \in InLookup \cup {"answer"}
  BY <1>1, <1>2, <1>6 DEF InLookup
<1>8. CASE Tally(c)
  <2>1. at[c] = "tally" /\ listed'[c] = {} /\ online'[c] = Cardinality(OnlineBefore(n + 1))
    BY <1>1, <1>3, <1>8 DEF Tally, Part, LookupStage, TInv, Rest
  <2>2. LookupStage(c)' /\ Exact(c)'
    BY <1>2, <1>3, <1>4, <1>5, <1>6, <2>1 DEF LookupStage, Exact
  <2> QED
    BY <1>1, <1>4, <1>7, <2>2, LookupFrame
<1>9. CASE List(c)
  <2>1. at[c] = "list" /\ listed'[c] = OnlineBefore(n + 1) /\ online'[c] = Cardinality(OnlineUsers)
    BY <1>1, <1>3, <1>9 DEF List, Part, LookupStage, TInv, Rest
  <2>2. OnlineUsers \cap Users = OnlineUsers
    BY DEF OnlineUsers
  <2>3. LookupStage(c)' /\ Exact(c)'
    BY <1>2, <1>3, <1>4, <1>5, <1>6, <2>1, <2>2 DEF LookupStage, Exact
  <2> QED
    BY <1>1, <1>4, <1>7, <2>3, LookupFrame
<1> QED
  BY <1>8, <1>9
-----------------------------------------------------------------------------
LEMMA InitCInv == Init => CInv
<1> SUFFICES ASSUME Init PROVE CInv
  OBVIOUS
<1>1. TInv
  BY InitTInv
<1>2. Typed
  BY DEF Init, Typed
<1>3. \A c \in Conns : ~Registered(c) /\ Idle(c)
  BY DEF Init, Registered, Idle
<1>4. Table
  BY <1>3 DEF Init, Table, RegisteredFor
<1>5. ASSUME NEW c \in Conns PROVE Part(c)
  <2>1. ~rst[c] /\ Conversation(c) /\ Identity(c)
    BY <1>3 DEF Init, Conversation, Identity
  <2>2. LoginStage(c) /\ LookupStage(c) /\ Exact(c)
    BY NoneAssumption DEF Init, LoginStage, LookupStage, Exact
  <2> QED
    BY <2>1, <2>2 DEF Part
<1> QED
  BY <1>1, <1>2, <1>3, <1>4, <1>5 DEF Init, CInv, CalmInv, OneActive

\* Every step keeps the invariant of TypesKept; see there.
LEMMA StepTInv ==
  ASSUME NEW c \in Conns, TInv, Ask(c) \/ Receive(c) \/ Killed(c) \/ Thread(c)
  PROVE  TInv'
  BY PeerTInv, TableTInv, TokenTInv, WriteTInv, ReadTInv, DispatchTInv, CountTInv, PassTInv DEF Thread

LEMMA StepCInv ==
  ASSUME NEW c \in Conns, CInv, Ask(c) \/ Receive(c) \/ Killed(c) \/ Thread(c)
  PROVE  CInv'
<1>1. TInv'
  BY StepTInv DEF CInv
<1>2. ASSUME Turn(c), calm' PROVE (up /\ Table /\ Part(c))'
  <2>1. Typed'
    BY PeerSame, ThreadSame DEF CInv
  <2>2. CASE Ask(c)
    BY <1>2, <2>1, <2>2, AskCalm
  <2>3. CASE Receive(c) \/ Killed(c)
    BY <1>2, <2>3, ReceiveCalm
  <2>4. CASE Thread(c)
    <3>1. CASE \/ LoginStart(c) \/ LoginName(c) \/ LoginPassword(c)
               \/ LoginOnline(c) \/ LoginIp(c) \/ LoginPort(c)
      <4>1. at[c] \in InLogin
        BY <3>1 DEF InLogin, At, LoginStart, LoginName, LoginPassword, LoginOnline, LoginIp, LoginPort
      <4> QED
        BY <1>2, <3>1, <4>1, InLoginCalm
    <3>2. CASE LoginRegister(c)
      BY <1>2, <3>2, RegisterCalm
    <3>3. CASE LoginWelcome(c) \/ LoginRefused(c) \/ LogoutReply(c) \/ Answer(c)
      BY <1>2, <3>3, WriteCalm
    <3>4. CASE LogoutClear(c) \/ Dead(c)
      BY <1>2, <3>4, EndCalm
    <3>5. CASE Read(c) \/ Dispatch(c)
      BY <1>2, <3>5, ReadCalm, DispatchCalm
    <3>6. CASE CountStart(c) \/ CountMore(c) \/ CountEnd(c)
      BY <1>2, <3>6, CountCalm
    <3>7. CASE FindStart(c) \/ FindName(c) \/ FindStatus(c)
      BY <1>2, <3>7, FindCalm
    <3>8. CASE Tally(c) \/ List(c)
      BY <1>2, <3>8, PassCalm
    <3> QED
      BY <2>4, <3>1, <3>2, <3>3, <3>4, <3>5, <3>6, <3>7, <3>8 DEF Thread
  <2> QED
    BY <2>2, <2>3, <2>4
<1> QED
  BY <1>1, <1>2, TurnCInv

LEMMA SpecCInv == Spec => []CInv
<1>1. ASSUME CInv, [Next]_vars PROVE CInv'
  <2>1. CASE Next
    BY <1>1, <2>1, StepCInv DEF Next
  <2>2. CASE UNCHANGED vars
    <3>1. TInv' /\ Typed'
      BY <1>1, <2>2 DEF vars, tableVars, threadVars, lookupVars, peerVars, socketVars, CInv, Typed,
        TInv, GInv, Types, PeerInv, KeeperInv, Keeper, Rest, LoopInv
    <3>2. (OneActive /\ Table)' <=> (OneActive /\ Table)
      BY <2>2 DEF vars, tableVars, threadVars, peerVars, socketVars, OneActive, Idle,
        Table, RegisteredFor, Registered
    <3>3. ASSUME NEW c \in Conns PROVE Part(c)' <=> Part(c)
      <4>1. (Conversation(c) /\ Identity(c))' <=> (Conversation(c) /\ Identity(c))
        BY <2>2 DEF vars, threadVars, peerVars, socketVars, Conversation, IsAsked, LoginLine,
          Works, HasAnswered, Identity, Registered
      <4>2. LoginStage(c)' <=> LoginStage(c)
        BY <2>2 DEF vars, tableVars, threadVars, peerVars, socketVars, LoginStage, UnknownName, WrongPassword,
          TakenName, RegisteredFor, Registered
      <4>3. (LookupStage(c) /\ Exact(c))' <=> (LookupStage(c) /\ Exact(c))
        BY <2>2 DEF vars, tableVars, threadVars, lookupVars, LookupStage, Exact, OnlineBefore, OnlineUsers
      <4> QED
        BY <2>2, <4>1, <4>2, <4>3 DEF vars, socketVars, Part
    <3> QED
      BY <1>1, <2>2, <3>1, <3>2, <3>3 DEF CInv, CalmInv, vars, tableVars, peerVars
  <2> QED
    BY <1>1, <2>1, <2>2
<1> QED
  BY InitCInv, <1>1, PTL DEF Spec

\* As long as peers take turns the server stays up, and between requests a user
\* is marked online exactly when one peer, and one only, is logged in under
\* that name, however many peers and users there are.
THEOREM TableIsExact == Spec => []TableExact
<1>1. CInv => TableExact
  <2> SUFFICES ASSUME CInv, calm
               PROVE  /\ up
                      /\ (\A c \in Conns : Idle(c)) =>
                           \A u \in Users :
                             /\ status[u] = 1 <=> \E c \in Conns : LoggedIn(c, u)
                             /\ \A c, d \in Conns : LoggedIn(c, u) /\ LoggedIn(d, u) => c = d
    BY DEF TableExact
  <2>1. up /\ Table /\ \A c \in Conns : Conversation(c)
    BY DEF CInv, CalmInv, Part
  <2>2. ASSUME \A c \in Conns : Idle(c)
        PROVE  \A c \in Conns, u \in Users : RegisteredFor(c, u) <=> LoggedIn(c, u)
    BY <2>1, <2>2 DEF Idle, Conversation, RegisteredFor, Registered, LoggedIn
  <2> QED
    BY <2>1, <2>2 DEF Table
<1> QED
  BY <1>1, SpecCInv, PTL

\* As long as peers take turns, a refused peer typed a name that no user has, a
\* wrong password, or a name under which somebody else is logged in: these are
\* the three error replies of login (name_server.h:84-99), and no peer gets one
\* without its cause.
THEOREM RefusalsAreRight == Spec => []RefusedRightly
<1>1. CInv => RefusedRightly
  <2> SUFFICES ASSUME CInv, calm, NEW c \in Conns, reply[c] = "error"
               PROVE  \/ typed[c][1] \notin Users
                      \/ typed[c][2] # Password[typed[c][1]]
                      \/ \E d \in Others(c) : LoggedIn(d, typed[c][1])
    BY DEF RefusedRightly
  <2>1. Part(c) /\ OneActive
    BY DEF CInv, CalmInv
  <2>2. ~Idle(c)
    BY <2>1, NoneAssumption DEF Part, Conversation, Idle
  <2>3. \A d \in Others(c) : Idle(d) /\ Conversation(d)
    BY <2>1, <2>2 DEF OneActive, Others, CInv, CalmInv, Part
  <2>4. \A d \in Others(c) : Registered(d) => peer[d] = "in"
    BY <2>3 DEF Idle, Conversation, Registered
  <2> QED
    BY <2>1, <2>4 DEF Part, LoginStage, UnknownName, WrongPassword, TakenName, RegisteredFor, LoggedIn
<1> QED
  BY <1>1, SpecCInv, PTL

\* As long as peers take turns, a lookup answers with the table as it is: the
\* status of the user asked for, or all users online and how many they are.
THEOREM LookupsAreExact == Spec => []LookupExact
<1>1. CInv => LookupExact
  BY DEF CInv, CalmInv, Part, Exact, LookupExact, OnlineUsers
<1> QED
  BY <1>1, SpecCInv, PTL

\* As long as peers take turns, a thread registers a user only for a peer that
\* typed this user's name and password, which is what name_server.h promises and
\* LoginGenuine refutes for peers that do not.
THEOREM CalmLoginsAreGenuine == Spec => [](calm => LoginGenuine)
<1>1. CInv => (calm => LoginGenuine)
  <2> SUFFICES ASSUME CInv, calm, NEW c \in Conns, at[c] = "register"
               PROVE  typed[c] = <<this_user[c], Password[this_user[c]]>>
    BY DEF LoginGenuine
  <2>1. Part(c) /\ peer[c] = "wait"
    BY DEF CInv, CalmInv, Part, Conversation, HasAnswered
  <2>2. typed[c] \in Names \X Guesses /\ this_user[c] = typed[c][1] /\ ~WrongPassword(c)
    BY <2>1 DEF Part, Identity, LoginStage
  <2> QED
    BY <2>2 DEF WrongPassword
<1> QED
  BY <1>1, SpecCInv, PTL
=============================================================================
