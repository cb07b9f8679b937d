-------------------------------- MODULE Peer --------------------------------
(***************************************************************************)
(* The chat peer (Server_client/peer.c, peer.h) on the buffered line       *)
(* reader and the robust writer of csapp.c.  One prompt, one connection.   *)
(* The bytes of both directions move in pieces of any size, and the server *)
(* may die at any point, in the middle of an answer too, and come back.    *)
(*                                                                         *)
(* The name server is only what name_server.h says it writes (module       *)
(* NameServer models it).  A symbol stands for a stretch of bytes of a     *)
(* line and knows the command it belongs to; NL ends a line.               *)
(***************************************************************************)
EXTENDS Integers, Sequences

CONSTANTS RIO_BUFSIZE, MAXLINE,
          MaxCommands,   \* bound: command lines the user types
          MaxDeaths      \* bound: how often the server dies

ASSUME PeerAssumption ==
  /\ RIO_BUFSIZE \in Nat \ {0}
  /\ MAXLINE \in Nat \ {0, 1}
  /\ MaxCommands \in Nat
  /\ MaxDeaths \in Nat

VARIABLES
  \* the peer process
  at,           \* "prompt", "send", "read", "list" or "exited"
  call,         \* the branch of interpret: "login", "logout" or "other"
  input,        \* the buffer of main, all but what a shorter line left behind
  status,       \* connectionStatus
  command,      \* the serial number of the command line
  shown,        \* what was printed since the prompt
  out,          \* the rest that rio_writen has to write
  \* its rio_t and the call of rio_readlineb under way
  unread,       \* the rio_cnt symbols from rio_bufptr on
  line,         \* usrbuf so far
  \* the connection and the server at its other end
  conn,         \* "none", "open", "closed" by the server, "refused": a write
                \* after that, its reset under way; "reset"
  pipe,         \* arrived for the peer
  wire,         \* arrived for the server
  answer,       \* the server's answer to the last command it read
  pending,      \* the rest of it that the server has to write
  session,      \* has the server accepted the login of this connection?
  server,       \* "up" or "down"
  deaths

userVars == <<call, input, command>>
serverVars == <<wire, answer, pending, session, server, deaths>>
vars == <<at, userVars, status, shown, out, unread, line, conn, pipe, serverVars>>

Symbol(t, n) == [text |-> t, command |-> n]
NL == Symbol("nl", 0)

\* Does the line begin with the word?
partOfArray(l, word) == l[1].text = word

\* Lines the user can type; arg_count counts four arguments in the first one only.
Typed(n) ==
  {<<Symbol("/login", n), Symbol("args", n), NL>>, <<Symbol("/login", n), NL>>}
    \cup {<<Symbol(t, n), NL>> : t \in {"/logout", "/exit", "/lookup", "/other"}}

arg_count(l) == IF Len(l) = 3 THEN 4 ELSE 0

\* What the server writes for a line: single lines, and for /lookup blocks that
\* begin and end with an empty line.
Answers(l) ==
  LET S(t) == Symbol(t, l[1].command)
  IN IF partOfArray(l, "/login") THEN {<<S("welcome"), NL>>, <<S("Error"), S("reason"), NL>>}
     ELSE IF partOfArray(l, "/logout") THEN {<<S("bye"), NL>>}
     ELSE IF partOfArray(l, "/lookup")
       THEN {<<S("offline"), NL>>, <<NL, S("none online"), NL, NL>>,
             <<NL, S("online"), NL, S("ip"), S("port"), NL, NL>>}
     ELSE {<<S("invalid"), NL>>}

Init ==
  /\ at = "prompt" /\ call = "other" /\ input = <<NL>> /\ command = 0
  /\ status = 0 /\ shown = <<>> /\ out = <<>>
  /\ unread = <<>> /\ line = <<>>
  /\ conn = "none" /\ pipe = <<>> /\ wire = <<>>
  /\ answer = <<>> /\ pending = <<>> /\ session = FALSE
  /\ server = "up" /\ deaths = 0

(***************************************************************************)
(* The command loop: main, interpret, login, logout, exitCommand.          *)
(***************************************************************************)
Disconnected == <<status, out, unread, conn, pipe, serverVars>>

\* A message of the peer itself, and back to the prompt.
Message(n) == <<Symbol("message", n)>>
Refuse == at' = "prompt" /\ shown' = Message(command + 1) /\ UNCHANGED Disconnected

Exit == at' = "exited" /\ shown' = <<>> /\ UNCHANGED Disconnected

Send(l) == at' = "send" /\ out' = l /\ shown' = <<>>

\* Open_clientfd, which ends the process when nobody accepts the connection,
\* and rio_readinitb.
Open_clientfd(l) ==
  IF server = "down" THEN Exit
  ELSE /\ conn' = "open" /\ pipe' = <<>> /\ wire' = <<>>
       /\ answer' = <<>> /\ pending' = <<>> /\ session' = FALSE
       /\ unread' = <<>>
       /\ status' = 1
       /\ Send(l)
       /\ UNCHANGED <<server, deaths>>

login(l) == IF status = 0 /\ arg_count(l) = 4 THEN Open_clientfd(l) ELSE Refuse

request(l) ==
  IF status = 1 THEN Send(l) /\ UNCHANGED <<status, unread, conn, pipe, serverVars>> ELSE Refuse

exitCommand == IF status = 0 THEN Exit ELSE Refuse

interpret ==
  /\ at = "prompt"
  /\ command < MaxCommands
  /\ command' = command + 1
  /\ \E l \in Typed(command + 1) :
       /\ input' = l
       /\ \/ partOfArray(l, "/login") /\ call' = "login" /\ login(l)
          \/ partOfArray(l, "/logout") /\ call' = "logout" /\ request(l)
          \/ partOfArray(l, "/exit") /\ call' = "other" /\ exitCommand
          \/ /\ ~\E w \in {"/login", "/logout", "/exit"} : partOfArray(l, w)
             /\ call' = "other"
             /\ request(l)
  /\ UNCHANGED line

\* Fgets returns NULL at the end of standard input.
EndOfInput == at = "prompt" /\ Exit /\ UNCHANGED <<userVars, line>>

(***************************************************************************)
(* rio_writen: pieces of any size.  The first write to a connection the    *)
(* server has closed is accepted; once its reset has come back a write     *)
(* ends the process.                                                       *)
(***************************************************************************)
rio_writen ==
  /\ at = "send"
  /\ IF conn = "reset"
     THEN at' = "exited" /\ UNCHANGED <<out, conn, wire>>
     ELSE \E k \in 1..Len(out) :
            /\ out' = SubSeq(out, k + 1, Len(out))
            /\ at' = IF k = Len(out) THEN "read" ELSE "send"
            /\ IF conn = "open"
               THEN wire' = wire \o SubSeq(out, 1, k) /\ UNCHANGED conn
               ELSE conn' = "refused" /\ UNCHANGED wire
  /\ UNCHANGED <<userVars, status, shown, unread, line, pipe,
                 answer, pending, session, server, deaths>>

ResetArrives ==
  /\ conn = "refused"
  /\ conn' = "reset"
  /\ UNCHANGED <<at, userVars, status, shown, out, unread, line, pipe, serverVars>>

(***************************************************************************)
(* The caller of Rio_readlineb goes on with what is now in input: a line,  *)
(* or what was there before when the call met the end of the stream.       *)
(***************************************************************************)
Close == status' = 0 /\ conn' = "none" /\ pipe' = <<>>
StayConnected == UNCHANGED <<status, conn, pipe>>

\* One line of a block.  The loop prints a line it did not read again and
\* again; only its first printing is kept.
ListLine(l, fresh) ==
  /\ IF l[1] = NL THEN at' = "prompt" /\ UNCHANGED shown
     ELSE UNCHANGED at /\ shown' = IF fresh THEN shown \o l ELSE shown
  /\ StayConnected

\* Mutant: the first line is taken for the whole answer.
ReplyIsOneLine(l) == at' = "prompt" /\ shown' = l /\ StayConnected

Reply(l) ==
  /\ IF l[1] = NL THEN at' = "list" /\ UNCHANGED shown
                  ELSE at' = "prompt" /\ shown' = l
  /\ StayConnected

\* Mutant: a failed login leaves the descriptor open.
FailedLoginStaysOpen(l) ==
  /\ at' = "prompt"
  /\ shown' = l
  /\ IF partOfArray(l, "Error") THEN status' = 0 /\ UNCHANGED <<conn, pipe>> ELSE StayConnected

LoginReply(l) ==
  /\ at' = "prompt"
  /\ shown' = l
  /\ IF partOfArray(l, "Error") THEN Close ELSE StayConnected

LogoutReply(l) ==
  /\ at' = "prompt"
  /\ shown' = IF partOfArray(l, "/logout") THEN Message(command) ELSE l
  /\ Close

Returned(l, fresh) ==
  /\ input' = l
  /\ line' = <<>>
  /\ \/ at = "list" /\ ListLine(l, fresh)
     \/ at = "read" /\ call = "login" /\ LoginReply(l)
     \/ at = "read" /\ call = "logout" /\ LogoutReply(l)
     \/ at = "read" /\ call = "other" /\ Reply(l)

(***************************************************************************)
(* rio_readlineb: one symbol at a time out of the buffer of rio_read,      *)
(* which one read() refills with a piece of what has arrived.              *)
(***************************************************************************)
Reading == at \in {"read", "list"}

\* Mutant: what is read exceeds the buffer.
ReadMoreThanBuffer ==
  /\ Reading
  /\ unread = <<>> /\ pipe /= <<>>
  /\ unread' = pipe
  /\ pipe' = <<>>
  /\ UNCHANGED <<at, userVars, status, shown, out, line, conn, serverVars>>

rio_read ==
  /\ Reading
  /\ unread = <<>>
  /\ \E k \in 1..Len(pipe) :
       /\ k <= RIO_BUFSIZE
       /\ unread' = SubSeq(pipe, 1, k)
       /\ pipe' = SubSeq(pipe, k + 1, Len(pipe))
  /\ UNCHANGED <<at, userVars, status, shown, out, line, conn, serverVars>>

rio_readlineb ==
  /\ Reading
  /\ unread /= <<>>
  /\ unread' = Tail(unread)
  /\ LET l == Append(line, Head(unread))
     IN IF Head(unread) = NL \/ Len(l) = MAXLINE - 1
        THEN Returned(l, TRUE)
        ELSE line' = l /\ UNCHANGED <<at, input, shown, status, conn, pipe>>
  /\ UNCHANGED <<call, command, out, serverVars>>

\* Mutant: rio_read asks again at the end of the stream.
ReadEOFAgain ==
  /\ Reading
  /\ unread = <<>> /\ pipe = <<>> /\ line /= <<>>
  /\ conn \in {"closed", "refused"}
  /\ Returned(line, TRUE)
  /\ UNCHANGED <<call, command, out, unread, serverVars>>

\* End of the stream.  Nothing read: usrbuf is left as it was.
ReadEOF ==
  /\ Reading
  /\ unread = <<>> /\ pipe = <<>>
  /\ conn \in {"closed", "refused"}
  /\ IF line = <<>> THEN Returned(input, FALSE) ELSE Returned(line, TRUE)
  /\ UNCHANGED <<call, command, out, unread, serverVars>>

\* unix_error
ReadError ==
  /\ Reading
  /\ unread = <<>>
  /\ conn = "reset"
  /\ at' = "exited"
  /\ UNCHANGED <<userVars, status, shown, out, unread, line, conn, pipe, serverVars>>

(***************************************************************************)
(* The server's side of the connection.                                    *)
(***************************************************************************)
ServerReads ==
  /\ server = "up" /\ conn = "open"
  /\ wire /= <<>> /\ wire[Len(wire)] = NL
  /\ wire' = <<>>
  /\ answer' \in Answers(wire)
  /\ pending' = answer'
  /\ session' = IF partOfArray(wire, "/login") THEN answer'[1].text = "welcome" ELSE session
  /\ UNCHANGED <<at, userVars, status, shown, out, unread, line, conn, pipe, server, deaths>>

\* It closes the connection after a failed login and after /logout.
ServerWrites ==
  /\ server = "up" /\ conn = "open"
  /\ \E k \in 1..Len(pending) :
       /\ pipe' = pipe \o SubSeq(pending, 1, k)
       /\ pending' = SubSeq(pending, k + 1, Len(pending))
       /\ conn' = IF k = Len(pending) /\ answer[1].text \in {"Error", "bye"}
                  THEN "closed" ELSE "open"
  /\ UNCHANGED <<at, userVars, status, shown, out, unread, line,
                 wire, answer, session, server, deaths>>

\* Its kernel closes the connection: with a reset when input was left unread.
ServerDies ==
  /\ server = "up" /\ deaths < MaxDeaths
  /\ server' = "down" /\ deaths' = deaths + 1
  /\ conn' = IF conn /= "open" THEN conn ELSE IF wire = <<>> THEN "closed" ELSE "reset"
  /\ wire' = <<>> /\ pending' = <<>>
  /\ UNCHANGED <<at, userVars, status, shown, out, unread, line, pipe, answer, session>>

ServerRestarts ==
  /\ server = "down"
  /\ server' = "up"
  /\ UNCHANGED <<at, userVars, status, shown, out, unread, line, conn, pipe,
                 wire, answer, pending, session, deaths>>

ReadStep == rio_read \/ rio_readlineb \/ ReadEOF \/ ReadError

Next ==
  \/ interpret \/ EndOfInput
  \/ rio_writen \/ ReadStep
  \/ ResetArrives
  \/ ServerReads \/ ServerWrites \/ ServerDies \/ ServerRestarts

\* Fairness: the peer's one thread runs until it waits for the user; the server
\* answers what it has read while it is up.  Nothing makes the user type.
Spec ==
  /\ Init /\ [][Next]_vars
  /\ WF_vars(rio_writen) /\ WF_vars(ReadStep)
  /\ WF_vars(ServerReads) /\ WF_vars(ServerWrites)

-----------------------------------------------------------------------------
\* The state of the peer, of its reader and of the connection has its shape;
\* the buffer and the line of the reader keep within their sizes.
Texts == {"/login", "args", "/logout", "/exit", "/lookup", "/other", "welcome", "Error",
          "reason", "bye", "offline", "none online", "online", "ip", "port", "invalid",
          "message", "nl"}
Lines == Seq([text : Texts, command : Nat])

TypeOK ==
  /\ at \in {"prompt", "send", "read", "list", "exited"}
  /\ call \in {"login", "logout", "other"}
  /\ status \in {0, 1}
  /\ command \in 0..MaxCommands
  /\ input \in Lines \ {<<>>} /\ shown \in Lines /\ out \in Lines
  /\ unread \in Lines /\ Len(unread) <= RIO_BUFSIZE
  /\ line \in Lines /\ Len(line) < MAXLINE - 1
  /\ conn \in {"none", "open", "closed", "refused", "reset"}
  /\ pipe \in Lines /\ wire \in Lines
  /\ answer \in Lines /\ pending \in Lines
  /\ session \in BOOLEAN
  /\ server \in {"up", "down"}
  /\ deaths \in 0..MaxDeaths

\* Back at the prompt of a living connection the user has seen exactly the
\* server's answer to the command just typed, all but the two empty lines around
\* a block, and nothing of it is left that the next command would take for its
\* own answer: the loop over a block (peer.h:114) ends where the block ends,
\* whatever pieces it came in.
AnswersInStep ==
  at = "prompt" /\ command > 0 /\ (conn = "open" \/ deaths = 0) =>
    /\ shown = Message(command) \/ answer \in {shown, <<NL>> \o shown \o <<NL>>}
    /\ \A i \in DOMAIN shown : shown[i] \in {NL, Symbol(shown[i].text, command)}
    /\ conn = "open" => unread \o pipe \o wire \o pending \o line = <<>>

\* At the prompt connectionStatus says whether there is a connection, and the
\* server behind an open one has accepted the login: an error answer to /login is
\* recognised however it arrives, and /logout always disconnects (peer.h:54, 80).
StatusTellsConnection ==
  at = "prompt" =>
    /\ status = 1 <=> conn /= "none"
    /\ conn = "open" => session

\* A command returns to the prompt or ends the process even if the server dies,
\* but for one case: the loop over a block never ends if the stream does after a
\* line that is not empty (peer.h:114).
EndlessBlock ==
  at = "list" /\ conn = "closed" /\ unread \o pipe \o line = <<>> /\ input[1] /= NL

CommandReturns == at \in {"send", "read"} ~> (at \in {"prompt", "exited"} \/ EndlessBlock)
=============================================================================
