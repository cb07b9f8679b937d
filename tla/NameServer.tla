----------------------------- MODULE NameServer -----------------------------
(***************************************************************************)
(* Server_client/: the chat name server (name_server.c, name_server.h) and *)
(* the peers that log in to it (peer.c, peer.h), with one connection and   *)
(* one server thread per login.  The threads share the user table and, in  *)
(* login, lookup and arg_count, the hidden position of strtok; nothing is  *)
(* locked.  A step of a thread is one access to shared state: one strtok   *)
(* call, one load or store of a status field, one socket call.             *)
(*                                                                         *)
(* A peer follows peer.h: it logs in first, sends one request at a time,   *)
(* waits for the reply, and logs out before it exits.  It may be killed at *)
(* any time.  How a connection gets its thread is the subject of HandOff.  *)
(***************************************************************************)
EXTENDS Integers, Sequences, FiniteSets

CONSTANTS Conns,        \* the connections; each is one login of one peer
          UserList,     \* the user names, in the order of the array userlist
          Password,     \* Password[u]: the password of user u
          Names,        \* the user names that peers type, of users or of nobody
          Guesses,      \* the passwords that peers type
          Lookups,      \* the other lines that peers type, see interpret()
          MaxLookups,   \* bound: how many of them a peer sends over one connection
          None

Users == {UserList[i] : i \in DOMAIN UserList}

\* main fills the array with different names.
ASSUME UsersAssumption ==
  /\ UserList \in Seq(Users) /\ UserList # <<>>
  /\ \A i, j \in DOMAIN UserList : UserList[i] = UserList[j] => i = j
ASSUME PasswordAssumption == DOMAIN Password = Users
ASSUME LookupsAssumption ==
  /\ MaxLookups \in Nat
  /\ \A line \in Lookups :
       /\ line # <<>> /\ line[1] \in {"/lookup", "other"}
       /\ line \in Seq({line[i] : i \in DOMAIN line})

VARIABLES
  \* the server process
  up,           \* FALSE once it has exited or was killed
  status,       \* status[u]: is user u marked online?
  saved,        \* the words that strtok(NULL, ...) has still to return
  \* one server thread per connection
  at,           \* at[c]: where the thread is
  buffer,       \* buffer[c]: the words of the line it works on
  this_user,    \* this_user[c]: the user it believes to serve
  args,         \* args[c]: the count arg_count has reached; 2 is two or more
  index,        \* index[c]: the loop index over userlist in lookup
  online,       \* online[c]: usersonline, the count lookup announces
  listed,       \* listed[c]: the users lookup reports as online
  \* the peers
  peer,         \* peer[c]: "new", "open", "wait", "in", "gone"
  typed,        \* typed[c]: the name and password typed at the prompt
  asked,        \* asked[c]: the command the peer waits for an answer to
  lookups,      \* lookups[c]: how many of Lookups it has sent
  \* the sockets
  inbox,        \* inbox[c]: the line sent and not yet read by the server
  reply,        \* reply[c]: the answer sent and not yet read by the peer
  fin,          \* fin[c]: has the peer closed its end?
  rst,          \* rst[c]: has the connection been reset?
  \* history
  calm          \* have the peers taken turns so far?

tableVars == <<up, status, saved>>
lookupVars == <<args, index, online, listed>>
threadVars == <<at, buffer, this_user, lookupVars>>
peerVars == <<peer, typed, asked, lookups, calm>>
socketVars == <<inbox, reply, fin, rst>>
vars == <<tableVars, threadVars, peerVars, socketVars>>

Commands == {"/login", "/logout", "/lookup", "other"}

\* The lines that a peer can send.
Lines == Lookups \cup {<<"/logout">>} \cup {<<"/login", n, p, "ip", "port">> : n \in Names, p \in Guesses}

Words == UNION {{line[i] : i \in DOMAIN line} : line \in Lines}

\* NULL is neither a word nor an answer.
ASSUME NoneAssumption == None \notin Words \cup {"welcome", "error", "bye", "info"}

ThreadPlaces ==
  {"off", "read", "peek", "login", "name", "password", "online?", "ip", "port",
   "register", "welcome", "refuse", "bye", "clear", "count", "count_rest", "recount",
   "recount_rest", "find", "find_name", "find_status", "tally", "list", "answer", "closed"}

\* Also that the passes over userlist stay inside it and count nobody twice.
TypeOK ==
  /\ up \in BOOLEAN /\ status \in [Users -> {0, 1}]
  /\ saved \in Seq(Words)
  /\ at \in [Conns -> ThreadPlaces]
  /\ this_user \in [Conns -> Users]
  /\ args \in [Conns -> 0 .. 2]
  /\ index \in [Conns -> 1 .. Len(UserList)]
  /\ online \in [Conns -> 0 .. Len(UserList)]
  /\ listed \in [Conns -> SUBSET Users]
  /\ peer \in [Conns -> {"new", "open", "wait", "in", "gone"}]
  /\ asked \in [Conns -> Commands \cup {None}]
  /\ lookups \in [Conns -> 0 .. MaxLookups]
  /\ buffer \in [Conns -> Lines \cup {<<>>}] /\ inbox \in [Conns -> Lines \cup {<<>>}]
  /\ reply \in [Conns -> {"welcome", "error", "bye", "info", None}]
  /\ fin \in [Conns -> BOOLEAN] /\ rst \in [Conns -> BOOLEAN] /\ calm \in BOOLEAN

Init ==
  /\ up = TRUE
  /\ status = [u \in Users |-> 0]
  /\ saved = <<>>
  /\ at = [c \in Conns |-> "off"]
  /\ buffer = [c \in Conns |-> <<>>]
  /\ this_user = [c \in Conns |-> UserList[1]]
  /\ args = [c \in Conns |-> 0]
  /\ index = [c \in Conns |-> 1]
  /\ online = [c \in Conns |-> 0]
  /\ listed = [c \in Conns |-> {}]
  /\ peer = [c \in Conns |-> "new"]
  /\ typed = [c \in Conns |-> <<None, None>>]
  /\ asked = [c \in Conns |-> None]
  /\ lookups = [c \in Conns |-> 0]
  /\ inbox = [c \in Conns |-> <<>>]
  /\ reply = [c \in Conns |-> None]
  /\ fin = [c \in Conns |-> FALSE]
  /\ rst = [c \in Conns |-> FALSE]
  /\ calm = TRUE

-----------------------------------------------------------------------------
(* The peer: peer.h.                                                       *)

\* Peers take turns as long as a request, or a kill, happens only while every
\* other thread waits for input, and no request is cut short.
Idle(c) ==
  /\ peer[c] \in {"new", "in", "gone"}
  /\ \/ at[c] \in {"off", "closed"}
     \/ at[c] = "read" /\ inbox[c] = <<>> /\ ~fin[c]

Others(c) == Conns \ {c}
TakesTurn(c) == calm' = (calm /\ \A d \in Others(c) : Idle(d))

\* login(): open a connection; the server's main loop starts a thread for it.
Connect(c) ==
  /\ up /\ peer[c] = "new"
  /\ TakesTurn(c)
  /\ peer' = [peer EXCEPT ![c] = "open"]
  /\ at' = [at EXCEPT ![c] = "read"]
  /\ UNCHANGED <<tableVars, buffer, this_user, lookupVars, typed, asked, lookups, socketVars>>

Request(c, line) ==
  /\ TakesTurn(c)
  /\ asked' = [asked EXCEPT ![c] = line[1]]
  /\ inbox' = [inbox EXCEPT ![c] = line]
  /\ peer' = [peer EXCEPT ![c] = "wait"]
  /\ UNCHANGED <<tableVars, threadVars, reply, fin, rst>>

\* login(): pass the line that was typed on to the server.
SendLogin(c, n, p) ==
  /\ up /\ peer[c] = "open"
  /\ typed' = [typed EXCEPT ![c] = <<n, p>>]
  /\ Request(c, <<"/login", n, p, "ip", "port">>)
  /\ UNCHANGED lookups

\* interpret(): every other command goes to the server as it is.
SendLookup(c, line) ==
  /\ up /\ peer[c] = "in" /\ lookups[c] < MaxLookups
  /\ lookups' = [lookups EXCEPT ![c] = @ + 1]
  /\ Request(c, line)
  /\ UNCHANGED typed

SendLogout(c) ==
  /\ up /\ peer[c] = "in"
  /\ Request(c, <<"/logout">>)
  /\ UNCHANGED <<typed, lookups>>

\* The answer arrives.  An error to a login, and any answer to a logout,
\* makes the peer close the connection.
Receive(c) ==
  LET closes == reply[c] = "error" \/ asked[c] = "/logout" IN
  /\ up /\ peer[c] = "wait" /\ reply[c] # None
  /\ reply' = [reply EXCEPT ![c] = None]
  /\ peer' = [peer EXCEPT ![c] = IF closes THEN "gone" ELSE "in"]
  /\ fin' = [fin EXCEPT ![c] = closes]
  /\ asked' = [asked EXCEPT ![c] = None]
  /\ UNCHANGED <<tableVars, threadVars, typed, lookups, inbox, rst, calm>>

\* The peer process is killed.  Its kernel closes the connection, with a
\* reset when an answer is still unread.
Killed(c) ==
  /\ up /\ peer[c] \in {"open", "wait", "in"}
  /\ calm' = (calm /\ peer[c] = "in" /\ \A d \in Conns : Idle(d))
  /\ peer' = [peer EXCEPT ![c] = "gone"]
  /\ fin' = [fin EXCEPT ![c] = TRUE]
  /\ rst' = [rst EXCEPT ![c] = reply[c] # None]
  /\ reply' = [reply EXCEPT ![c] = None]
  /\ UNCHANGED <<tableVars, threadVars, typed, asked, lookups, inbox>>

-----------------------------------------------------------------------------
(* The server thread: helpers.                                             *)

\* The server runs and the thread of connection c is at l; it goes on at l.
At(c, l) == up /\ at[c] = l
Goto(c, l) == at' = [at EXCEPT ![c] = l]

\* Rio_writen to the peer.  A peer that has closed answers with a reset; a
\* write to a connection that is reset raises SIGPIPE, which nobody handles.
Write(c, r) ==
  /\ up' = ~rst[c]
  /\ reply' = [reply EXCEPT ![c] = IF fin[c] THEN None ELSE r]
  /\ rst' = [rst EXCEPT ![c] = fin[c]]
  /\ UNCHANGED <<inbox, fin>>

\* strtok(input, " "): start on the words of c's own line.
FirstWord(c) == saved' = Tail(buffer[c])

\* strtok(NULL, " "): the next word of whatever line was started last, or
\* NULL.  Copying from NULL kills the server.
Word == IF saved = <<>> THEN None ELSE Head(saved)
NextWord == saved' = IF saved = <<>> THEN <<>> ELSE Tail(saved)

\* strtok(NULL, "\n"): all that is left, as one word.
RestOfLine == IF Len(saved) = 1 THEN saved[1] ELSE IF saved = <<>> THEN None ELSE "words"

CrashOn(w) == up' = (w # None)

-----------------------------------------------------------------------------
(* nameserverLoop.                                                         *)

\* A read that does not return when the peer has closed.
ReadLineOnly(c) ==
  /\ At(c, "read") /\ inbox[c] # <<>>
  /\ up' = ~rst[c]
  /\ buffer' = [buffer EXCEPT ![c] = inbox[c]]
  /\ inbox' = [inbox EXCEPT ![c] = <<>>]
  /\ Goto(c, "peek")
  /\ UNCHANGED <<status, saved, this_user, lookupVars, peerVars, reply, fin, rst>>

\* Rio_readlineb: a line, the end of the stream, or an error: unix_error then
\* calls exit for the whole server.
Read(c) ==
  /\ At(c, "read") /\ (inbox[c] # <<>> \/ fin[c])
  /\ up' = ~rst[c]
  /\ buffer' = [buffer EXCEPT ![c] = IF inbox[c] = <<>> THEN @ ELSE inbox[c]]
  /\ inbox' = [inbox EXCEPT ![c] = <<>>]
  /\ Goto(c, "peek")
  /\ UNCHANGED <<status, saved, this_user, lookupVars, peerVars, reply, fin, rst>>

\* A loop that forgets the user when the connection is dead.
DeadForgotten(c) ==
  /\ At(c, "peek") /\ fin[c]
  /\ Goto(c, "closed")
  /\ UNCHANGED <<tableVars, buffer, this_user, lookupVars, peerVars, socketVars>>

\* recv with MSG_PEEK returned 0: the connection is dead.  Before a login
\* this_user points to the first user of the list.
Dead(c) ==
  /\ At(c, "peek") /\ fin[c]
  /\ status' = [status EXCEPT ![this_user[c]] = 0]
  /\ Goto(c, "closed")
  /\ UNCHANGED <<up, saved, buffer, this_user, lookupVars, peerVars, socketVars>>

Dispatch(c) ==
  /\ At(c, "peek") /\ ~fin[c]
  /\ Goto(c, CASE buffer[c][1] = "/login" -> "login"
               [] buffer[c][1] = "/logout" -> "bye"
               [] buffer[c][1] = "/lookup" -> "count"
               [] OTHER -> "answer")
  /\ UNCHANGED <<tableVars, buffer, this_user, lookupVars, peerVars, socketVars>>

-----------------------------------------------------------------------------
(* login.                                                                  *)

LoginStart(c) ==
  /\ At(c, "login")
  /\ FirstWord(c)
  /\ Goto(c, "name")
  /\ UNCHANGED <<up, status, buffer, this_user, lookupVars, peerVars, socketVars>>

\* A get_user that takes any name.
LoginNameUnchecked(c) ==
  /\ At(c, "name")
  /\ NextWord /\ CrashOn(Word)
  /\ this_user' = [this_user EXCEPT ![c] = Word]
  /\ Goto(c, "password")
  /\ UNCHANGED <<status, buffer, lookupVars, peerVars, socketVars>>

\* get_user sets this_user when it finds the name, whatever comes after.
LoginName(c) ==
  /\ At(c, "name")
  /\ NextWord /\ CrashOn(Word)
  /\ this_user' = [this_user EXCEPT ![c] = IF Word \in Users THEN Word ELSE @]
  /\ Goto(c, IF Word \in Users THEN "password" ELSE "refuse")
  /\ UNCHANGED <<status, buffer, lookupVars, peerVars, socketVars>>

\* A login that compares with the password of the first user.
LoginPasswordOfFirst(c) ==
  /\ At(c, "password")
  /\ NextWord /\ CrashOn(Word)
  /\ Goto(c, IF Word = Password[UserList[1]] THEN "online?" ELSE "refuse")
  /\ UNCHANGED <<status, buffer, this_user, lookupVars, peerVars, socketVars>>

LoginPassword(c) ==
  /\ At(c, "password")
  /\ NextWord /\ CrashOn(Word)
  /\ Goto(c, IF Word = Password[this_user[c]] THEN "online?" ELSE "refuse")
  /\ UNCHANGED <<status, buffer, this_user, lookupVars, peerVars, socketVars>>

\* A login that does not look at the status.
LoginOnlineUnchecked(c) ==
  /\ At(c, "online?")
  /\ Goto(c, "ip")
  /\ UNCHANGED <<tableVars, buffer, this_user, lookupVars, peerVars, socketVars>>

LoginOnline(c) ==
  /\ At(c, "online?")
  /\ Goto(c, IF status[this_user[c]] = 0 THEN "ip" ELSE "refuse")
  /\ UNCHANGED <<tableVars, buffer, this_user, lookupVars, peerVars, socketVars>>

LoginIp(c) ==
  /\ At(c, "ip")
  /\ NextWord /\ CrashOn(Word)
  /\ Goto(c, "port")
  /\ UNCHANGED <<status, buffer, this_user, lookupVars, peerVars, socketVars>>

LoginPort(c) ==
  /\ At(c, "port")
  /\ saved' = <<>> /\ CrashOn(Word)
  /\ Goto(c, "register")
  /\ UNCHANGED <<status, buffer, this_user, lookupVars, peerVars, socketVars>>

LoginRegister(c) ==
  /\ At(c, "register")
  /\ status' = [status EXCEPT ![this_user[c]] = 1]
  /\ Goto(c, "welcome")
  /\ UNCHANGED <<up, saved, buffer, this_user, lookupVars, peerVars, socketVars>>

LoginWelcome(c) ==
  /\ At(c, "welcome")
  /\ Write(c, "welcome")
  /\ Goto(c, "read")
  /\ UNCHANGED <<status, saved, buffer, this_user, lookupVars, peerVars>>

\* A refusal without an answer.
LoginRefusedSilently(c) ==
  /\ At(c, "refuse")
  /\ Goto(c, "closed")
  /\ UNCHANGED <<tableVars, buffer, this_user, lookupVars, peerVars, socketVars>>

\* One of the three error replies; logout is set, so the thread closes.
LoginRefused(c) ==
  /\ At(c, "refuse")
  /\ Write(c, "error")
  /\ Goto(c, "closed")
  /\ UNCHANGED <<status, saved, buffer, this_user, lookupVars, peerVars>>

-----------------------------------------------------------------------------
(* logoutCommand: the answer goes out before the status is cleared.        *)

LogoutReply(c) ==
  /\ At(c, "bye")
  /\ Write(c, "bye")
  /\ Goto(c, "clear")
  /\ UNCHANGED <<status, saved, buffer, this_user, lookupVars, peerVars>>

LogoutClear(c) ==
  /\ At(c, "clear")
  /\ status' = [status EXCEPT ![this_user[c]] = 0]
  /\ Goto(c, "closed")
  /\ UNCHANGED <<up, saved, buffer, this_user, lookupVars, peerVars, socketVars>>

-----------------------------------------------------------------------------
(* lookup: arg_count is called once or twice, then one user is looked up   *)
(* or the table is read twice, to count and to list.                       *)

CountStart(c) ==
  /\ up /\ at[c] \in {"count", "recount"}
  /\ FirstWord(c)
  /\ args' = [args EXCEPT ![c] = 0]
  /\ Goto(c, IF at[c] = "count" THEN "count_rest" ELSE "recount_rest")
  /\ UNCHANGED <<up, status, buffer, this_user, index, online, listed, peerVars, socketVars>>

CountMore(c) ==
  /\ up /\ at[c] \in {"count_rest", "recount_rest"} /\ Word # None
  /\ NextWord
  /\ args' = [args EXCEPT ![c] = IF @ < 2 THEN @ + 1 ELSE 2]
  /\ UNCHANGED <<up, status, at, buffer, this_user, index, online, listed, peerVars, socketVars>>

CountEnd(c) ==
  /\ up /\ at[c] \in {"count_rest", "recount_rest"} /\ Word = None
  /\ Goto(c, IF at[c] = "count_rest" THEN IF args[c] = 1 THEN "find" ELSE "recount"
             ELSE IF args[c] = 0 THEN "tally" ELSE "answer")
  /\ index' = [index EXCEPT ![c] = 1]
  /\ online' = [online EXCEPT ![c] = 0]
  /\ listed' = [listed EXCEPT ![c] = {}]
  /\ UNCHANGED <<tableVars, buffer, this_user, args, peerVars, socketVars>>

FindStart(c) ==
  /\ At(c, "find")
  /\ FirstWord(c)
  /\ Goto(c, "find_name")
  /\ UNCHANGED <<up, status, buffer, this_user, lookupVars, peerVars, socketVars>>

FindName(c) ==
  /\ At(c, "find_name")
  /\ saved' = <<>> /\ CrashOn(RestOfLine)
  /\ listed' = [listed EXCEPT ![c] = Users \cap {RestOfLine}]
  /\ Goto(c, "find_status")
  /\ UNCHANGED <<status, buffer, this_user, args, index, online, peerVars, socketVars>>

FindStatus(c) ==
  /\ At(c, "find_status")
  /\ listed' = [listed EXCEPT ![c] = {u \in @ : status[u] = 1}]
  /\ Goto(c, "answer")
  /\ UNCHANGED <<tableVars, buffer, this_user, args, index, online, peerVars, socketVars>>

\* One turn of a pass over userlist, and the end of the pass.
NextEntry(c, after) ==
  IF index[c] < Len(UserList)
  THEN index' = [index EXCEPT ![c] = @ + 1] /\ UNCHANGED at
  ELSE index' = [index EXCEPT ![c] = 1] /\ Goto(c, after)

Tally(c) ==
  /\ At(c, "tally")
  /\ online' = [online EXCEPT ![c] = @ + status[UserList[index[c]]]]
  /\ NextEntry(c, "list")
  /\ UNCHANGED <<tableVars, buffer, this_user, args, listed, peerVars, socketVars>>

\* A list that starts with the second user.
ListFromSecond(c) ==
  /\ At(c, "list")
  /\ listed' = [listed EXCEPT ![c] = IF index[c] > 1 /\ status[UserList[index[c]]] = 1
                                     THEN @ \cup {UserList[index[c]]} ELSE @]
  /\ NextEntry(c, "answer")
  /\ UNCHANGED <<tableVars, buffer, this_user, args, online, peerVars, socketVars>>

List(c) ==
  /\ At(c, "list")
  /\ listed' = [listed EXCEPT ![c] = IF status[UserList[index[c]]] = 1
                                     THEN @ \cup {UserList[index[c]]} ELSE @]
  /\ NextEntry(c, "answer")
  /\ UNCHANGED <<tableVars, buffer, this_user, args, online, peerVars, socketVars>>

\* The answer, or the usage text when arg_count gave something else, or the
\* text of notValidCommand.
Answer(c) ==
  /\ At(c, "answer")
  /\ Write(c, "info")
  /\ Goto(c, "read")
  /\ UNCHANGED <<status, saved, buffer, this_user, lookupVars, peerVars>>

-----------------------------------------------------------------------------
Thread(c) ==
  \/ Read(c) \/ Dead(c) \/ Dispatch(c)
  \/ LoginStart(c) \/ LoginName(c) \/ LoginPassword(c) \/ LoginOnline(c)
  \/ LoginIp(c) \/ LoginPort(c) \/ LoginRegister(c) \/ LoginWelcome(c) \/ LoginRefused(c)
  \/ LogoutReply(c) \/ LogoutClear(c)
  \/ CountStart(c) \/ CountMore(c) \/ CountEnd(c)
  \/ FindStart(c) \/ FindName(c) \/ FindStatus(c)
  \/ Tally(c) \/ List(c) \/ Answer(c)

\* What the person at peer c may start.
Ask(c) ==
  \/ Connect(c)
  \/ \E n \in Names, p \in Guesses : SendLogin(c, n, p)
  \/ \E line \in Lookups : SendLookup(c, line)
  \/ SendLogout(c)

Next == \E c \in Conns : Ask(c) \/ Receive(c) \/ Killed(c) \/ Thread(c)

\* A thread of the running server goes on, and a peer reads its answer.
Fairness == \A c \in Conns : WF_vars(Thread(c)) /\ WF_vars(Receive(c))

Spec == Init /\ [][Next]_vars /\ Fairness

-----------------------------------------------------------------------------
(* Properties of the program as it is.                                     *)

Serving(c) == at[c] \notin {"off", "closed"}

\* Nobody stays online for good: a user marked online is the user of some
\* connection whose thread is still serving it, however logins, logouts,
\* kills and the shared strtok position interleave.
NoGhostOnline ==
  up => \A u \in Users : status[u] = 1 => \E c \in Conns : Serving(c) /\ this_user[c] = u

\* A thread whose peer is gone, logged out or killed, notices it and ends,
\* unless the whole server goes down.  With NoGhostOnline: a user whose peers
\* are all gone is eventually offline.
DeadPeerNoticed == \A c \in Conns : peer[c] = "gone" ~> (~Serving(c) \/ ~up)

\* A peer that waits gets an answer, unless the server goes down.
EveryRequestAnswered == \A c \in Conns : peer[c] = "wait" ~> (peer[c] # "wait" \/ ~up)

-----------------------------------------------------------------------------
(* Properties that hold as long as peers take turns.                       *)

LoggedIn(c, u) == peer[c] = "in" /\ typed[c][1] = u

\* Between requests the table is exact: a user is online if and only if one
\* peer is logged in under that name, and never two.  The server stays up.
TableExact ==
  calm =>
    /\ up
    /\ (\A c \in Conns : Idle(c)) =>
         \A u \in Users :
           /\ status[u] = 1 <=> \E c \in Conns : LoggedIn(c, u)
           /\ \A c, d \in Conns : LoggedIn(c, u) /\ LoggedIn(d, u) => c = d

\* A login is refused only for a name that no user has, for a wrong password
\* or for a user who is logged in elsewhere.
RefusedRightly ==
  calm => \A c \in Conns : reply[c] = "error" =>
    \/ typed[c][1] \notin Users
    \/ typed[c][2] # Password[typed[c][1]]
    \/ \E d \in Others(c) : LoggedIn(d, typed[c][1])

\* A lookup reports who is online: of the user asked for, or of all, and then
\* as many as it announces.
LookupExact ==
  calm => \A c \in Conns : at[c] = "answer" /\ buffer[c][1] = "/lookup" /\ Len(buffer[c]) <= 2 =>
    LET who == {u \in Users : status[u] = 1}
        wanted == IF Len(buffer[c]) = 2 THEN {buffer[c][2]} ELSE Users
    IN
    /\ listed[c] = who \cap wanted
    /\ Len(buffer[c]) = 1 => online[c] = Cardinality(listed[c])

-----------------------------------------------------------------------------
(* What a comment of name_server.h says and the threads can break.         *)

\* name_server.h:73: "If password is correct allow connection".  A thread that
\* registers a user does so for a peer that typed this user's name and
\* password.  Two threads that share strtok can mix their lines up.
LoginGenuine ==
  \A c \in Conns : at[c] = "register" =>
    typed[c] = <<this_user[c], Password[this_user[c]]>>
=============================================================================
