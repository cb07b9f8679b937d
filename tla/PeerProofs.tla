----------------------------- MODULE PeerProofs -----------------------------
(***************************************************************************)
(* connectionStatus tells whether there is a connection, behind an open    *)
(* one stands a session, and the answers stay in step with the commands,   *)
(* for buffers of every size, any number of commands and any number of     *)
(* deaths of the server.                                                   *)
(***************************************************************************)
EXTENDS Peer, SequenceTheorems, TLAPS

Sym == [text : Texts, command : Nat]

Awaiting == {"send", "read", "list"}

\* A command waits for its answer only on a connection, and no line is half read
\* before that.
StatusInv ==
  /\ status = 1 <=> conn /= "none"
  /\ at \in Awaiting => status = 1
  /\ at \in {"prompt", "send"} => line = <<>>

\* The line that opens a session.
Opening == <<Symbol("/login", command), Symbol("args", command), NL>>

\* It is on its way: the server has it up to some point, the peer the rest.
Asking ==
  /\ unread = <<>> /\ line = <<>> /\ pipe = <<>> /\ pending = <<>>
  /\ Len(wire) + Len(out) = 3
  /\ \A k \in 1..Len(wire) : wire[k] = Opening[k]
  /\ \A k \in 1..Len(out) : out[k] = Opening[Len(wire) + k]

\* What of the answer has been read, arrived, or is still to come begins with
\* the word Error, and not all of it has been written.
Refused ==
  /\ out = <<>> /\ wire = <<>> /\ pending /= <<>>
  /\ answer /= <<>> /\ answer[1].text = "Error"
  /\ line /= <<>> => line[1].text = "Error"
  /\ line = <<>> /\ unread /= <<>> => unread[1].text = "Error"
  /\ line = <<>> /\ unread = <<>> /\ pipe /= <<>> => pipe[1].text = "Error"
  /\ line = <<>> /\ unread = <<>> /\ pipe = <<>> => pending[1].text = "Error"

\* No second login is on its way to the server.
NoLogin(s) == \A k \in 1..Len(s) : s[k].text /= "/login"

SessionInv ==
  conn = "open" =>
    IF session THEN NoLogin(wire) /\ NoLogin(out)
    ELSE /\ at \in {"send", "read"} /\ call = "login"
         /\ Asking \/ Refused

IInv == TypeOK /\ StatusInv /\ SessionInv

-----------------------------------------------------------------------------
(***************************************************************************)
(* Lines and their pieces.                                                 *)
(***************************************************************************)
LEMMA LinesAre == Lines = Seq(Sym)
BY DEF Lines, Sym

LEMMA Symbols ==
  ASSUME NEW t \in Texts, NEW n \in Nat
  PROVE  Symbol(t, n) \in Sym /\ NL \in Sym /\ Symbol(t, n).text = t
                      /\ NL.text = "nl"
BY DEF Symbol, NL, Sym, Texts

LEMMA NotEmpty == ASSUME NEW s \in Lines PROVE Len(s) \in Nat /\ (Len(s) > 0 <=> s /= <<>>)
<1>1. s \in Seq(Sym)
  BY LinesAre
<1>2. Len(s) \in Nat /\ (s = <<>> <=> Len(s) = 0)
  BY <1>1, LenProperties, EmptySeq
<1> QED
  BY <1>2

\* A sequence of symbols cut in two, the first piece not empty.
LEMMA Pieces ==
  ASSUME NEW s \in Lines, NEW k \in 1..Len(s)
  PROVE  /\ SubSeq(s, 1, k) \in Lines /\ SubSeq(s, k + 1, Len(s)) \in Lines
         /\ Len(SubSeq(s, 1, k)) = k /\ Len(SubSeq(s, k + 1, Len(s))) = Len(s) - k
         /\ \A j \in 1..k : SubSeq(s, 1, k)[j] = s[j]
         /\ \A j \in 1..(Len(s) - k) : SubSeq(s, k + 1, Len(s))[j] = s[k + j]
<1>1. s \in Seq(Sym) /\ Len(s) \in Nat /\ \A j \in 1..Len(s) : s[j] \in Sym
  BY LinesAre
<1>2. 1 \in Int /\ k \in Int /\ \A j \in 1..k : s[j] \in Sym
  BY <1>1
<1>3. k + 1 \in Int /\ Len(s) \in Int /\ \A j \in (k + 1)..Len(s) : s[j] \in Sym
  BY <1>1
<1>4. /\ SubSeq(s, 1, k) \in Seq(Sym) /\ Len(SubSeq(s, 1, k)) = k
      /\ \A j \in 1..k : SubSeq(s, 1, k)[j] = s[j]
  BY <1>2, SubSeqProperties
<1>5. /\ SubSeq(s, k + 1, Len(s)) \in Seq(Sym) /\ Len(SubSeq(s, k + 1, Len(s))) = Len(s) - k
      /\ \A j \in 1..(Len(s) - k) : SubSeq(s, k + 1, Len(s))[j] = s[k + j]
  BY <1>1, <1>3, SubSeqProperties
<1> QED
  BY <1>4, <1>5, LinesAre

LEMMA Joined ==
  ASSUME NEW s \in Lines, NEW t \in Lines
  PROVE  /\ s \o t \in Lines /\ Len(s \o t) = Len(s) + Len(t)
         /\ \A j \in 1..Len(s) : (s \o t)[j] = s[j]
         /\ \A j \in 1..Len(t) : (s \o t)[Len(s) + j] = t[j]
         /\ \A j \in 1..(Len(s) + Len(t)) : (s \o t)[j] = IF j <= Len(s) THEN s[j] ELSE t[j - Len(s)]
<1>1. s \in Seq(Sym) /\ t \in Seq(Sym)
  BY LinesAre
<1> QED
  BY <1>1, ConcatProperties, LinesAre

LEMMA Taken ==
  ASSUME NEW s \in Lines, NEW u \in Lines, u /= <<>>
  PROVE  /\ Append(s, Head(u)) \in Lines \ {<<>>} /\ Tail(u) \in Lines
         /\ Len(Tail(u)) = Len(u) - 1 /\ Len(Append(s, Head(u))) = Len(s) + 1
         /\ Append(s, Head(u))[1] = IF s = <<>> THEN u[1] ELSE s[1]
         /\ Len(u) > 0
<1>1. s \in Seq(Sym) /\ u \in Seq(Sym)
  BY LinesAre
<1>2. Head(u) \in Sym /\ Tail(u) \in Seq(Sym) /\ Len(Tail(u)) = Len(u) - 1 /\ Head(u) = u[1] /\ Len(u) > 0
  BY <1>1, HeadTailProperties
<1> QED
  BY <1>1, <1>2, AppendProperties, LinesAre

LEMMA Newline == NL \in Sym /\ NL.text = "nl"
BY DEF NL, Symbol, Sym, Texts

LEMMA Nothing == <<>> \in Lines /\ Len(<<>>) = 0 /\ <<NL>> \in Lines \ {<<>>}
BY Newline, LinesAre

LEMMA Tuples ==
  /\ \A a, b \in Sym : <<a, b>> \in Lines \ {<<>>} /\ Len(<<a, b>>) > 0
  /\ \A a, b, c \in Sym : <<a, b, c>> \in Lines \ {<<>>} /\ Len(<<a, b, c>>) > 0
  /\ \A a, b, c, d \in Sym : <<a, b, c, d>> \in Lines \ {<<>>} /\ Len(<<a, b, c, d>>) > 0
  /\ \A a, b, c, d, e, f, g \in Sym :
       <<a, b, c, d, e, f, g>> \in Lines \ {<<>>} /\ Len(<<a, b, c, d, e, f, g>>) > 0
BY LinesAre

\* What the user types: symbols, a login only with the word for it.
LEMMA TypedLines ==
  ASSUME NEW n \in Nat, NEW l \in Typed(n)
  PROVE  /\ l \in Lines \ {<<>>} /\ Len(l) \in {2, 3}
         /\ Len(l) = 3 => l = <<Symbol("/login", n), Symbol("args", n), NL>>
         /\ ~partOfArray(l, "/login") => NoLogin(l)
<1>1. \A t \in Texts : <<Symbol(t, n), NL>> \in Seq(Sym)
  BY Symbols
<1>2. <<Symbol("/login", n), Symbol("args", n), NL>> \in Seq(Sym)
  <2>1. "/login" \in Texts /\ "args" \in Texts
    BY DEF Texts
  <2>2. Symbol("/login", n) \in Sym /\ Symbol("args", n) \in Sym
    BY <2>1, Symbols
  <2> QED
    BY <2>2, Newline
<1>3. CASE l = <<Symbol("/login", n), Symbol("args", n), NL>>
  BY <1>2, <1>3, LinesAre, Symbols DEF partOfArray, Texts
<1>4. CASE l \in {<<Symbol(t, n), NL>> : t \in {"/login", "/logout", "/exit", "/lookup", "/other"}}
  <2>1. PICK t \in Texts : l = <<Symbol(t, n), NL>>
    BY <1>4 DEF Texts
  <2>2. Len(l) = 2 /\ l[1].text = t /\ l[2].text = "nl" /\ l \in Lines
    BY <1>1, <2>1, Symbols, LinesAre
  <2>3. l /= <<>>
    BY <2>1
  <2> QED
    BY <2>2, <2>3 DEF partOfArray, NoLogin
<1> QED
  BY <1>3, <1>4 DEF Typed

\* What the server answers is not empty; only a login is answered with a
\* welcome or an error.
LEMMA AnswerLines ==
  ASSUME NEW l \in Lines, l /= <<>>, NEW a \in Answers(l)
  PROVE  /\ a \in Lines \ {<<>>} /\ Len(a) > 0
         /\ partOfArray(l, "/login") => a[1].text \in {"welcome", "Error"}
<1>1. l[1].command \in Nat
  <2>1. l[1] \in Sym
    BY LinesAre
  <2> QED
    BY <2>1 DEF Sym
<1> DEFINE S(t) == Symbol(t, l[1].command)
<1>2. \A t \in Texts : S(t) \in Sym /\ S(t).text = t
  BY <1>1, Symbols
<1>3. NL \in Sym
  BY Newline
<1> HIDE DEF S
<1>4. a \in {<<S("welcome"), NL>>, <<S("Error"), S("reason"), NL>>, <<S("bye"), NL>>,
             <<S("offline"), NL>>, <<NL, S("none online"), NL, NL>>,
             <<NL, S("online"), NL, S("ip"), S("port"), NL, NL>>, <<S("invalid"), NL>>}
  BY DEF Answers, S
<1>5. /\ S("welcome") \in Sym /\ S("Error") \in Sym /\ S("reason") \in Sym /\ S("bye") \in Sym
      /\ S("offline") \in Sym /\ S("none online") \in Sym /\ S("online") \in Sym
      /\ S("ip") \in Sym /\ S("port") \in Sym /\ S("invalid") \in Sym
      /\ S("welcome").text = "welcome" /\ S("Error").text = "Error"
  BY <1>2 DEF Texts
<1>6. a \in Lines \ {<<>>} /\ Len(a) > 0
  <2>1. \A t \in {"welcome", "bye", "offline", "invalid"} : S(t) \in Sym
    BY <1>5
  <2>2. CASE \E t \in {"welcome", "bye", "offline", "invalid"} : a = <<S(t), NL>>
    BY <2>1, <2>2, <1>3, Tuples
  <2>3. CASE a = <<S("Error"), S("reason"), NL>>
    BY <1>3, <1>5, <2>3, Tuples
  <2>4. CASE a = <<NL, S("none online"), NL, NL>>
    BY <1>3, <1>5, <2>4, Tuples
  <2>5. CASE a = <<NL, S("online"), NL, S("ip"), S("port"), NL, NL>>
    BY <1>3, <1>5, <2>5, Tuples
  <2> QED
    BY <1>4, <2>2, <2>3, <2>4, <2>5
<1>7. ASSUME partOfArray(l, "/login") PROVE a[1].text \in {"welcome", "Error"}
  <2>1. a = <<S("welcome"), NL>> \/ a = <<S("Error"), S("reason"), NL>>
    BY <1>7 DEF Answers, S
  <2>2. a[1] = S("welcome") \/ a[1] = S("Error")
    BY <2>1
  <2> QED
    BY <2>2, <1>5
<1> QED
  BY <1>6, <1>7

-----------------------------------------------------------------------------
LEMMA Bounds ==
  /\ RIO_BUFSIZE \in Nat /\ RIO_BUFSIZE > 0
  /\ MAXLINE \in Nat /\ MAXLINE - 1 > 0
  /\ 0 \in 0..MaxCommands /\ 0 \in 0..MaxDeaths
BY PeerAssumption

\* In the initial states nothing is connected.
LEMMA InitInv == Init => IInv
<1> SUFFICES ASSUME Init PROVE IInv
  OBVIOUS
<1>1. TypeOK
  <2>1. 0 <= RIO_BUFSIZE /\ 0 < MAXLINE - 1
    BY Bounds
  <2> QED
    BY <2>1, Nothing, Bounds DEF Init, TypeOK
<1> QED
  BY <1>1 DEF Init, IInv, StatusInv, SessionInv, Awaiting

(***************************************************************************)
(* The command loop.                                                       *)
(***************************************************************************)
\* What a refused command and the end of the program leave alone.
LEMMA ToPrompt ==
  ASSUME IInv, at = "prompt", at' \in {"prompt", "exited"}, shown' \in Lines, input' \in Lines \ {<<>>},
         call' \in {"login", "logout", "other"}, command' \in 0..MaxCommands,
         UNCHANGED <<Disconnected, line>>
  PROVE  IInv'
<1>1. TypeOK'
  BY DEF IInv, TypeOK, Disconnected, serverVars
<1>2. StatusInv'
  BY DEF IInv, StatusInv, Awaiting, Disconnected, serverVars
<1>3. SessionInv'
  BY DEF IInv, SessionInv, Disconnected, serverVars, NoLogin
<1> QED
  BY <1>1, <1>2, <1>3 DEF IInv

LEMMA Messages == ASSUME NEW n \in Nat PROVE Message(n) \in Lines
<1>1. "message" \in Texts
  BY DEF Texts
<1>2. Symbol("message", n) \in Sym
  BY <1>1, Symbols
<1> QED
  BY <1>2, LinesAre DEF Message

\* A new connection: the login is all there is on it.
LEMMA Connects ==
  ASSUME IInv, at = "prompt", status = 0, NEW l \in Typed(command + 1), arg_count(l) = 4,
         command' = command + 1, command + 1 \in 0..MaxCommands, input' = l, call' = "login",
         UNCHANGED line, Open_clientfd(l)
  PROVE  IInv'
<1>1. command \in Nat /\ command + 1 \in Nat
  BY PeerAssumption DEF IInv, TypeOK
<1>2. /\ l \in Lines \ {<<>>} /\ Len(l) = 3
      /\ l = <<Symbol("/login", command + 1), Symbol("args", command + 1), NL>>
  BY <1>1, TypedLines DEF arg_count
<1>3. CASE server = "down"
  BY <1>1, <1>2, <1>3, Nothing, ToPrompt DEF Open_clientfd, Exit
<1>4. CASE server /= "down"
  <2>1. /\ conn' = "open" /\ pipe' = <<>> /\ wire' = <<>> /\ answer' = <<>> /\ pending' = <<>>
        /\ session' = FALSE /\ unread' = <<>> /\ status' = 1 /\ at' = "send" /\ out' = l
        /\ shown' = <<>> /\ UNCHANGED <<server, deaths>>
    BY <1>4 DEF Open_clientfd, Send
  <2>2. TypeOK'
    <3>1. l \in Lines \ {<<>>} /\ 0 <= RIO_BUFSIZE
      BY <1>2, Bounds
    <3> QED
      BY <2>1, <3>1, Nothing DEF IInv, TypeOK
  <2>3. StatusInv'
    BY <2>1 DEF IInv, StatusInv
  <2>4. Asking'
    <3>1. l = Opening'
      BY <1>2 DEF Opening
    <3> QED
      BY <1>2, <2>1, <3>1, Nothing DEF Asking, IInv, StatusInv
  <2> QED
    BY <2>1, <2>2, <2>3, <2>4 DEF IInv, SessionInv
<1> QED
  BY <1>3, <1>4

\* A command goes out on an open connection: it is not a login.
LEMMA Requests ==
  ASSUME IInv, at = "prompt", NEW l \in Typed(command + 1), ~partOfArray(l, "/login"),
         command' = command + 1, command + 1 \in 0..MaxCommands, input' = l,
         call' \in {"login", "logout", "other"}, UNCHANGED line, request(l)
  PROVE  IInv'
<1>1. command \in Nat /\ command + 1 \in Nat
  BY DEF IInv, TypeOK
<1>2. l \in Lines \ {<<>>} /\ NoLogin(l)
  BY <1>1, TypedLines
<1>3. CASE status = 1
  <2>1. at' = "send" /\ out' = l /\ shown' = <<>> /\ UNCHANGED <<status, unread, conn, pipe, serverVars>>
    BY <1>3 DEF request, Send
  <2>2. TypeOK'
    BY <1>2, <2>1, Nothing DEF IInv, TypeOK, serverVars
  <2>3. StatusInv'
    BY <1>3, <2>1 DEF IInv, StatusInv, serverVars
  <2>4. SessionInv'
    BY <1>2, <2>1 DEF IInv, SessionInv, serverVars, NoLogin
  <2> QED
    BY <2>2, <2>3, <2>4 DEF IInv
<1>4. CASE status /= 1
  <2>1. at' = "prompt" /\ shown' = Message(command + 1) /\ UNCHANGED Disconnected
    BY <1>4 DEF request, Refuse
  <2> QED
    BY <1>1, <1>2, <2>1, Messages, ToPrompt
<1> QED
  BY <1>3, <1>4

LEMMA InterpretInv == IInv /\ interpret => IInv'
<1> SUFFICES ASSUME IInv, interpret PROVE IInv'
  OBVIOUS
<1>1. at = "prompt" /\ command' = command + 1 /\ UNCHANGED line /\ command < MaxCommands
  BY DEF interpret
<1>2. command \in Nat /\ command + 1 \in Nat /\ command + 1 \in 0..MaxCommands
  BY <1>1, PeerAssumption DEF IInv, TypeOK
<1>3. PICK l \in Typed(command + 1) :
        /\ input' = l
        /\ \/ partOfArray(l, "/login") /\ call' = "login" /\ login(l)
           \/ partOfArray(l, "/logout") /\ call' = "logout" /\ request(l)
           \/ partOfArray(l, "/exit") /\ call' = "other" /\ exitCommand
           \/ /\ ~\E w \in {"/login", "/logout", "/exit"} : partOfArray(l, w)
              /\ call' = "other"
              /\ request(l)
  BY DEF interpret
<1>4. l \in Lines \ {<<>>} /\ Message(command + 1) \in Lines /\ <<>> \in Lines
  BY <1>2, TypedLines, Messages, Nothing
<1>5. CASE partOfArray(l, "/login") /\ call' = "login" /\ login(l)
  <2>1. CASE status = 0 /\ arg_count(l) = 4
    BY <1>1, <1>2, <1>3, <1>5, <2>1, Connects DEF login
  <2>2. CASE ~(status = 0 /\ arg_count(l) = 4)
    <3>1. at' = "prompt" /\ shown' = Message(command + 1) /\ UNCHANGED Disconnected
      BY <1>5, <2>2 DEF login, Refuse
    <3> QED
      BY <1>1, <1>2, <1>3, <1>4, <1>5, <3>1, ToPrompt
  <2> QED
    BY <2>1, <2>2
<1>6. CASE partOfArray(l, "/logout") /\ call' = "logout" /\ request(l)
  <2>1. ~partOfArray(l, "/login")
    BY <1>6 DEF partOfArray
  <2> QED
    BY <1>1, <1>2, <1>3, <1>6, <2>1, Requests
<1>7. CASE partOfArray(l, "/exit") /\ call' = "other" /\ exitCommand
  <2>1. /\ at' \in {"prompt", "exited"} /\ shown' \in {Message(command + 1), <<>>}
        /\ UNCHANGED Disconnected
    BY <1>7 DEF exitCommand, Exit, Refuse
  <2> QED
    BY <1>1, <1>2, <1>3, <1>4, <1>7, <2>1, ToPrompt
<1>8. CASE /\ ~\E w \in {"/login", "/logout", "/exit"} : partOfArray(l, w)
           /\ call' = "other"
           /\ request(l)
  BY <1>1, <1>2, <1>3, <1>8, Requests
<1> QED
  BY <1>3, <1>5, <1>6, <1>7, <1>8

LEMMA EndOfInputInv == IInv /\ EndOfInput => IInv'
<1> SUFFICES ASSUME IInv, EndOfInput PROVE IInv'
  OBVIOUS
<1>1. /\ at = "prompt" /\ at' = "exited" /\ shown' = <<>> /\ UNCHANGED <<Disconnected, line>>
      /\ UNCHANGED <<call, input, command>>
  BY DEF EndOfInput, Exit, userVars
<1>2. /\ input' \in Lines \ {<<>>} /\ call' \in {"login", "logout", "other"}
      /\ command' \in 0..MaxCommands
  BY <1>1 DEF IInv, TypeOK
<1> QED
  BY <1>1, <1>2, Nothing, ToPrompt

-----------------------------------------------------------------------------
(***************************************************************************)
(* The writer.                                                             *)
(***************************************************************************)
LEMMA WriteInv == IInv /\ rio_writen => IInv'
<1> SUFFICES ASSUME IInv, rio_writen PROVE IInv'
  OBVIOUS
<1>1. /\ at = "send"
      /\ UNCHANGED <<call, input, command, status, shown, unread, line, pipe,
                     answer, pending, session, server, deaths>>
  BY DEF rio_writen, userVars
<1>2. conn /= "none" /\ out \in Lines /\ wire \in Lines
  BY <1>1 DEF IInv, StatusInv, Awaiting, TypeOK
<1>3. CASE conn = "reset"
  <2>1. at' = "exited" /\ UNCHANGED <<out, conn, wire>>
    BY <1>3 DEF rio_writen
  <2>2. TypeOK'
    BY <1>1, <2>1 DEF IInv, TypeOK
  <2>3. StatusInv' /\ SessionInv'
    BY <1>1, <1>3, <2>1 DEF IInv, StatusInv, SessionInv, Awaiting
  <2> QED
    BY <2>2, <2>3 DEF IInv
<1>4. CASE conn /= "reset"
  <2>1. PICK k \in 1..Len(out) :
          /\ out' = SubSeq(out, k + 1, Len(out))
          /\ at' = IF k = Len(out) THEN "read" ELSE "send"
          /\ IF conn = "open"
             THEN wire' = wire \o SubSeq(out, 1, k) /\ UNCHANGED conn
             ELSE conn' = "refused" /\ UNCHANGED wire
    BY <1>4 DEF rio_writen
  <2> DEFINE first == SubSeq(out, 1, k)
  <2>2. /\ first \in Lines /\ out' \in Lines /\ Len(first) = k /\ Len(out') = Len(out) - k
        /\ \A j \in 1..k : first[j] = out[j]
        /\ \A j \in 1..(Len(out) - k) : out'[j] = out[k + j]
    BY <1>2, <2>1, Pieces
  <2> HIDE DEF first
  <2>3. CASE conn = "open"
    <3>1. wire' = wire \o first /\ UNCHANGED conn
      BY <2>1, <2>3 DEF first
    <3>2. /\ wire' \in Lines /\ Len(wire') = Len(wire) + k
          /\ \A j \in 1..(Len(wire) + k) :
               wire'[j] = IF j <= Len(wire) THEN wire[j] ELSE out[j - Len(wire)]
      <4>1. /\ wire' \in Lines /\ Len(wire') = Len(wire) + Len(first)
            /\ \A j \in 1..(Len(wire) + Len(first)) :
                 wire'[j] = IF j <= Len(wire) THEN wire[j] ELSE first[j - Len(wire)]
        BY <1>2, <2>2, <3>1, Joined
      <4>2. Len(wire) \in Nat /\ k \in Nat /\ Len(first) = k
        BY <1>2, <2>2, LinesAre
      <4>3. ASSUME NEW j \in 1..(Len(wire) + k), ~(j <= Len(wire))
            PROVE  j - Len(wire) \in 1..k
        BY <4>2, <4>3
      <4> QED
        BY <4>1, <4>2, <4>3, <2>2
    <3>3. TypeOK'
      BY <1>1, <2>1, <2>2, <3>1, <3>2 DEF IInv, TypeOK
    <3>4. StatusInv'
      BY <1>1, <2>1, <3>1 DEF IInv, StatusInv, Awaiting
    <3>5. Len(wire) \in Nat /\ Len(out) \in Nat /\ k \in 1..Len(out)
      BY <1>2, LinesAre
    <3>6. CASE session
      <4>1. NoLogin(wire) /\ NoLogin(out)
        BY <2>3, <3>6 DEF IInv, SessionInv
      <4>2. NoLogin(out')
        BY <2>2, <3>5, <4>1 DEF NoLogin
      <4>3. NoLogin(wire')
        BY <3>2, <3>5, <4>1 DEF NoLogin
      <4> QED
        BY <1>1, <3>6, <3>3, <3>4, <4>2, <4>3 DEF IInv, SessionInv, NoLogin
    <3>7. CASE ~session
      <4>1. Asking /\ call = "login"
        BY <1>2, <2>3, <3>5, <3>7, Nothing DEF IInv, SessionInv, Refused
      <4>2. Opening' = Opening
        BY <1>1 DEF Opening
      <4>3. /\ Len(wire') + Len(out') = 3
            /\ \A j \in 1..Len(wire') : wire'[j] = Opening[j]
            /\ \A j \in 1..Len(out') : out'[j] = Opening[Len(wire') + j]
        BY <2>2, <3>2, <3>5, <4>1 DEF Asking
      <4>4. Asking'
        BY <1>1, <4>1, <4>2, <4>3 DEF Asking
      <4> QED
        BY <1>1, <2>1, <3>3, <3>4, <3>7, <4>1, <4>4 DEF IInv, SessionInv
    <3> QED
      BY <3>6, <3>7
  <2>4. CASE conn /= "open"
    <3>1. TypeOK'
      BY <1>1, <2>1, <2>2, <2>4 DEF IInv, TypeOK
    <3>2. StatusInv' /\ SessionInv'
      BY <1>1, <1>2, <2>1, <2>4 DEF IInv, StatusInv, SessionInv, Awaiting
    <3> QED
      BY <3>1, <3>2 DEF IInv
  <2> QED
    BY <2>3, <2>4
<1> QED
  BY <1>3, <1>4

LEMMA ResetInv == IInv /\ ResetArrives => IInv'
<1> SUFFICES ASSUME IInv, ResetArrives PROVE IInv'
  OBVIOUS
<1>1. TypeOK'
  BY DEF ResetArrives, IInv, TypeOK, userVars, serverVars
<1>2. StatusInv' /\ SessionInv'
  BY DEF ResetArrives, IInv, StatusInv, SessionInv, Awaiting, userVars, serverVars
<1> QED
  BY <1>1, <1>2 DEF IInv

-----------------------------------------------------------------------------
(***************************************************************************)
(* The reader.  A login's line that begins with Error closes the           *)
(* connection; it is the only line a connection without a session carries. *)
(***************************************************************************)
LEMMA ReturnedInv ==
  ASSUME IInv, Reading, NEW l \in Lines \ {<<>>}, NEW fresh \in BOOLEAN, Returned(l, fresh),
         UNCHANGED <<call, command, out, serverVars>>,
         unread' \in Lines, Len(unread') <= RIO_BUFSIZE,
         conn = "open" /\ ~session => l[1].text = "Error"
  PROVE  IInv'
<1>1. /\ input' = l /\ line' = <<>>
      /\ UNCHANGED <<call, command, out, wire, answer, pending, session, server, deaths>>
  BY DEF Returned, serverVars
<1>2. at' \in {"prompt", "list"} /\ (at' = "list" => status' = status /\ status = 1)
  BY DEF Returned, ListLine, LoginReply, LogoutReply, Reply, Close, StayConnected,
         IInv, StatusInv, Awaiting, Reading
<1>3. \/ status' = 0 /\ conn' = "none" /\ pipe' = <<>>
      \/ UNCHANGED <<status, conn, pipe>>
  BY DEF Returned, ListLine, LoginReply, LogoutReply, Reply, Close, StayConnected
<1>4. shown' \in Lines
  <2>1. shown \in Lines /\ shown \o l \in Lines /\ Message(command) \in Lines
    BY Joined, Messages DEF IInv, TypeOK
  <2> QED
    BY <2>1 DEF Returned, ListLine, LoginReply, LogoutReply, Reply
<1>5. TypeOK'
  <2>1. 0 < MAXLINE - 1 /\ Len(<<>>) = 0 /\ <<>> \in Lines
    BY Bounds, Nothing
  <2> QED
    BY <1>1, <1>2, <1>3, <1>4, <2>1 DEF IInv, TypeOK
<1>6. StatusInv'
  <2>1. \/ at' = "prompt"
        \/ at' = "list" /\ UNCHANGED <<status, conn>>
    BY DEF Returned, ListLine, LoginReply, LogoutReply, Reply, StayConnected
  <2> QED
    BY <1>1, <1>2, <1>3, <2>1 DEF IInv, StatusInv, Awaiting
<1>7. CASE conn' = "open"
  <2>1. conn = "open"
    BY <1>3, <1>7
  <2>2. CASE session
    BY <1>1, <1>5, <1>6, <2>1, <2>2 DEF IInv, SessionInv, NoLogin
  <2>3. CASE ~session
    <3>1. at = "read" /\ call = "login"
      BY <2>1, <2>3 DEF IInv, SessionInv, Reading
    <3>2. LoginReply(l)
      BY <3>1 DEF Returned
    <3>3. conn' = "none"
      BY <2>1, <2>3, <3>2 DEF LoginReply, partOfArray, Close
    <3> QED
      BY <1>7, <3>3
  <2> QED
    BY <2>2, <2>3
<1>8. CASE conn' /= "open"
  BY <1>5, <1>6, <1>8 DEF IInv, SessionInv
<1> QED
  BY <1>7, <1>8

LEMMA RefillInv == IInv /\ rio_read => IInv'
<1> SUFFICES ASSUME IInv, rio_read PROVE IInv'
  OBVIOUS
<1>1. /\ unread = <<>> /\ Reading
      /\ UNCHANGED <<at, call, input, command, status, shown, out, line, conn,
                     wire, answer, pending, session, server, deaths>>
  BY DEF rio_read, userVars, serverVars
<1>2. PICK k \in 1..Len(pipe) :
        /\ k <= RIO_BUFSIZE
        /\ unread' = SubSeq(pipe, 1, k)
        /\ pipe' = SubSeq(pipe, k + 1, Len(pipe))
  BY DEF rio_read
<1>3. /\ unread' \in Lines /\ Len(unread') = k /\ pipe' \in Lines
      /\ unread'[1] = pipe[1]
  <2>1. pipe \in Lines /\ 1 \in 1..k
    BY <1>2 DEF IInv, TypeOK
  <2> QED
    BY <1>2, <2>1, Pieces
<1>4. unread' /= <<>> /\ pipe /= <<>>
  <2>1. pipe \in Lines /\ Len(pipe) \in Nat
    BY NotEmpty DEF IInv, TypeOK
  <2>2. k > 0 /\ Len(pipe) > 0
    BY <1>2, <2>1
  <2> QED
    BY <1>3, <2>1, <2>2, NotEmpty
<1>5. TypeOK'
  BY <1>1, <1>2, <1>3 DEF IInv, TypeOK
<1>6. StatusInv'
  BY <1>1 DEF IInv, StatusInv, Awaiting
<1>7. SessionInv'
  <2>1. CASE conn = "open" /\ ~session
    <3>1. Refused
      BY <1>4, <2>1 DEF IInv, SessionInv, Asking
    <3>2. Refused'
      BY <1>1, <1>3, <1>4, <3>1 DEF Refused
    <3> QED
      BY <1>1, <2>1, <3>2 DEF IInv, SessionInv
  <2>2. CASE conn /= "open" \/ session
    BY <1>1, <2>2 DEF IInv, SessionInv, NoLogin, TypeOK
  <2> QED
    BY <2>1, <2>2
<1> QED
  BY <1>5, <1>6, <1>7 DEF IInv

LEMMA ReadLineInv == IInv /\ rio_readlineb => IInv'
<1> SUFFICES ASSUME IInv, rio_readlineb PROVE IInv'
  OBVIOUS
<1> DEFINE l == Append(line, Head(unread))
<1>1. /\ Reading /\ unread /= <<>> /\ unread' = Tail(unread)
      /\ UNCHANGED <<call, command, out, serverVars>>
      /\ IF Head(unread) = NL \/ Len(l) = MAXLINE - 1
         THEN Returned(l, TRUE)
         ELSE line' = l /\ UNCHANGED <<at, input, shown, status, conn, pipe>>
  BY DEF rio_readlineb
<1>2. /\ l \in Lines \ {<<>>} /\ unread' \in Lines
      /\ Len(unread') = Len(unread) - 1 /\ Len(l) = Len(line) + 1
      /\ l[1] = IF line = <<>> THEN unread[1] ELSE line[1]
  BY <1>1, Taken DEF IInv, TypeOK
<1>3. Len(unread') <= RIO_BUFSIZE
  <2>1. Len(unread) \in Nat /\ Len(unread) <= RIO_BUFSIZE /\ RIO_BUFSIZE \in Nat
    BY Bounds, LinesAre DEF IInv, TypeOK
  <2> QED
    BY <1>2, <2>1
<1>4. ASSUME conn = "open", ~session PROVE Refused /\ l[1].text = "Error"
  <2>1. Refused
    BY <1>1, <1>4 DEF IInv, SessionInv, Asking
  <2> QED
    BY <1>1, <1>2, <2>1 DEF Refused
<1> HIDE DEF l
<1>5. CASE Head(unread) = NL \/ Len(l) = MAXLINE - 1
  BY <1>1, <1>2, <1>3, <1>4, <1>5, ReturnedInv
<1>6. CASE ~(Head(unread) = NL \/ Len(l) = MAXLINE - 1)
  <2>1. line' = l /\ UNCHANGED <<at, input, shown, status, conn, pipe>>
    BY <1>1, <1>6
  <2>2. Len(line') < MAXLINE - 1
    <3>1. Len(line) \in Nat /\ Len(line) < MAXLINE - 1 /\ MAXLINE \in Nat
      BY Bounds, LinesAre DEF IInv, TypeOK
    <3> QED
      BY <1>2, <1>6, <2>1, <3>1
  <2>3. TypeOK'
    BY <1>1, <1>2, <1>3, <2>1, <2>2 DEF IInv, TypeOK, serverVars
  <2>4. StatusInv'
    BY <1>1, <2>1 DEF IInv, StatusInv, Awaiting, Reading
  <2>5. CASE conn = "open" /\ ~session
    <3>1. Refused'
      BY <1>1, <1>2, <1>4, <2>1, <2>5 DEF Refused, serverVars
    <3> QED
      BY <1>1, <2>1, <2>3, <2>4, <2>5, <3>1 DEF IInv, SessionInv, serverVars
  <2>6. CASE conn /= "open" \/ session
    BY <1>1, <2>1, <2>3, <2>4, <2>6 DEF IInv, SessionInv, NoLogin, serverVars, TypeOK
  <2> QED
    BY <2>5, <2>6
<1> QED
  BY <1>5, <1>6

LEMMA EofInv == IInv /\ ReadEOF => IInv'
<1> SUFFICES ASSUME IInv, ReadEOF PROVE IInv'
  OBVIOUS
<1>1. /\ Reading /\ unread = <<>> /\ conn \in {"closed", "refused"}
      /\ UNCHANGED <<call, command, out, unread, serverVars>>
      /\ IF line = <<>> THEN Returned(input, FALSE) ELSE Returned(line, TRUE)
  BY DEF ReadEOF
<1>2. /\ input \in Lines \ {<<>>} /\ line \in Lines
      /\ unread' \in Lines /\ Len(unread') <= RIO_BUFSIZE
  BY <1>1 DEF IInv, TypeOK
<1>3. CASE line = <<>>
  BY <1>1, <1>2, <1>3, ReturnedInv
<1>4. CASE line /= <<>>
  BY <1>1, <1>2, <1>4, ReturnedInv
<1> QED
  BY <1>3, <1>4

LEMMA ErrorInv == IInv /\ ReadError => IInv'
<1> SUFFICES ASSUME IInv, ReadError PROVE IInv'
  OBVIOUS
<1>1. TypeOK'
  BY DEF ReadError, IInv, TypeOK, userVars, serverVars
<1>2. StatusInv' /\ SessionInv'
  BY DEF ReadError, IInv, StatusInv, SessionInv, Awaiting, userVars, serverVars
<1> QED
  BY <1>1, <1>2 DEF IInv

-----------------------------------------------------------------------------
(***************************************************************************)
(* The server.                                                             *)
(***************************************************************************)
LEMMA ServerReadsInv == IInv /\ ServerReads => IInv'
<1> SUFFICES ASSUME IInv, ServerReads PROVE IInv'
  OBVIOUS
<1>1. /\ conn = "open" /\ wire /= <<>> /\ wire[Len(wire)] = NL /\ wire' = <<>>
      /\ answer' \in Answers(wire) /\ pending' = answer'
      /\ session' = IF partOfArray(wire, "/login") THEN answer'[1].text = "welcome" ELSE session
      /\ UNCHANGED <<at, call, input, command, status, shown, out, unread, line,
                     conn, pipe, server, deaths>>
  BY DEF ServerReads, userVars
<1>2. /\ answer' \in Lines \ {<<>>}
      /\ partOfArray(wire, "/login") => answer'[1].text \in {"welcome", "Error"}
  BY <1>1, AnswerLines DEF IInv, TypeOK
<1>3. TypeOK'
  BY <1>1, <1>2, Nothing DEF IInv, TypeOK
<1>4. StatusInv'
  BY <1>1 DEF IInv, StatusInv, Awaiting
<1>5. Len(wire) \in Nat /\ Len(wire) > 0 /\ Len(out) \in Nat
  BY <1>1, LinesAre DEF IInv, TypeOK
<1>6. CASE session
  <2>1. ~partOfArray(wire, "/login")
    BY <1>1, <1>5, <1>6 DEF IInv, SessionInv, NoLogin, partOfArray
  <2> QED
    BY <1>1, <1>3, <1>4, <1>6, <2>1, Nothing DEF IInv, SessionInv, NoLogin
<1>7. CASE ~session
  <2>1. Asking /\ at \in {"send", "read"} /\ call = "login"
    BY <1>1, <1>7 DEF IInv, SessionInv, Refused
  <2>2. /\ Opening[1].text = "/login" /\ Opening[1] /= NL /\ Opening[2] /= NL
    BY DEF Opening, Symbol, NL
  <2>3. Len(wire) = 3 /\ Len(out) = 0
    <3>1. wire[Len(wire)] = Opening[Len(wire)] /\ Len(wire) \in {1, 2, 3}
      <4>1. \A j \in 1..Len(wire) : wire[j] = Opening[j]
        BY <2>1 DEF Asking
      <4>2. Len(wire) + Len(out) = 3
        BY <2>1 DEF Asking
      <4>3. Len(wire) \in 1..Len(wire)
        BY <1>5
      <4>4. Len(wire) \in {1, 2, 3}
        <5>1. \A m, n \in Nat : m > 0 /\ m + n = 3 => m \in {1, 2, 3}
          OBVIOUS
        <5> QED
          BY <1>5, <4>2, <5>1
      <4> QED
        BY <4>1, <4>3, <4>4
    <3>2. Len(wire) = 3
      BY <1>1, <2>2, <3>1
    <3> QED
      BY <1>5, <2>1, <3>2 DEF Asking
  <2>4. partOfArray(wire, "/login") /\ out = <<>>
    <3>1. wire[1] = Opening[1]
      BY <2>1, <2>3 DEF Asking
    <3>2. out = <<>>
      BY <2>3, LinesAre, EmptySeq DEF IInv, TypeOK
    <3> QED
      BY <2>2, <3>1, <3>2 DEF partOfArray
  <2>5. CASE session'
    BY <1>1, <1>3, <1>4, <2>4, <2>5, Nothing DEF IInv, SessionInv, NoLogin
  <2>6. CASE ~session'
    <3>1. answer'[1].text = "Error"
      BY <1>1, <1>2, <2>4, <2>6
    <3>2. Refused'
      BY <1>1, <1>2, <2>1, <2>4, <3>1 DEF Refused, Asking
    <3> QED
      BY <1>1, <1>3, <1>4, <2>1, <2>6, <3>2 DEF IInv, SessionInv
  <2> QED
    BY <2>5, <2>6
<1> QED
  BY <1>6, <1>7

LEMMA ServerWritesInv == IInv /\ ServerWrites => IInv'
<1> SUFFICES ASSUME IInv, ServerWrites PROVE IInv'
  OBVIOUS
<1>1. /\ conn = "open"
      /\ UNCHANGED <<at, call, input, command, status, shown, out, unread, line,
                     wire, answer, session, server, deaths>>
  BY DEF ServerWrites, userVars
<1>2. PICK k \in 1..Len(pending) :
        /\ pipe' = pipe \o SubSeq(pending, 1, k)
        /\ pending' = SubSeq(pending, k + 1, Len(pending))
        /\ conn' = IF k = Len(pending) /\ answer[1].text \in {"Error", "bye"}
                   THEN "closed" ELSE "open"
  BY DEF ServerWrites
<1> DEFINE first == SubSeq(pending, 1, k)
<1>3. /\ first \in Lines /\ Len(first) = k /\ first[1] = pending[1]
      /\ pending' \in Lines /\ Len(pending') = Len(pending) - k
  <2>1. pending \in Lines /\ 1 \in 1..k
    BY <1>2 DEF IInv, TypeOK
  <2> QED
    BY <1>2, <2>1, Pieces
<1>4. pipe' = pipe \o first
  BY <1>2
<1> HIDE DEF first
<1>5. /\ pipe' \in Lines /\ pipe' /= <<>>
      /\ pipe'[1] = IF pipe = <<>> THEN pending[1] ELSE pipe[1]
  <2>1. pipe \in Lines /\ Len(pipe) \in Nat /\ (pipe /= <<>> => Len(pipe) > 0)
    BY LinesAre DEF IInv, TypeOK
  <2>2. /\ pipe' \in Lines /\ Len(pipe') = Len(pipe) + k
        /\ pipe'[1] = IF 1 <= Len(pipe) THEN pipe[1] ELSE first[1 - Len(pipe)]
    <3>1. /\ pipe' \in Lines /\ Len(pipe') = Len(pipe) + Len(first)
          /\ \A j \in 1..(Len(pipe) + Len(first)) :
               pipe'[j] = IF j <= Len(pipe) THEN pipe[j] ELSE first[j - Len(pipe)]
      BY <1>3, <1>4, <2>1, Joined
    <3>2. k \in Nat /\ k > 0 /\ Len(first) = k
      BY <1>2, <1>3
    <3>3. 1 \in 1..(Len(pipe) + Len(first))
      BY <2>1, <3>2
    <3> QED
      BY <3>1, <3>2, <3>3
  <2>3. pipe' /= <<>>
    BY <2>1, <2>2, Nothing
  <2> QED
    BY <1>3, <2>1, <2>2, <2>3, Nothing
<1>6. TypeOK'
  BY <1>1, <1>2, <1>3, <1>5 DEF IInv, TypeOK
<1>7. StatusInv'
  BY <1>1, <1>2 DEF IInv, StatusInv, Awaiting
<1>8. CASE session
  BY <1>1, <1>6, <1>7, <1>8 DEF IInv, SessionInv, NoLogin
<1>9. CASE ~session
  <2>1. /\ Refused /\ at \in {"send", "read"} /\ call = "login"
    <3>1. pending /= <<>>
      BY <1>2, Nothing
    <3> QED
      BY <1>1, <1>9, <3>1 DEF IInv, SessionInv, Asking
  <2>2. CASE k = Len(pending)
    BY <1>2, <1>6, <1>7, <2>1, <2>2 DEF IInv, SessionInv, Refused
  <2>3. CASE k /= Len(pending)
    <3>1. pending' /= <<>>
      <4>1. Len(pending) \in Nat /\ Len(pending') > 0
        BY <1>2, <1>3, <2>3, NotEmpty DEF IInv, TypeOK
      <4> QED
        BY <1>3, <4>1, NotEmpty
    <3>2. Refused'
      BY <1>1, <1>5, <2>1, <3>1 DEF Refused
    <3> QED
      BY <1>1, <1>6, <1>7, <1>9, <2>1, <3>2 DEF IInv, SessionInv
  <2> QED
    BY <2>2, <2>3
<1> QED
  BY <1>8, <1>9

LEMMA DeathInv == IInv /\ (ServerDies \/ ServerRestarts) => IInv'
<1> SUFFICES ASSUME IInv, ServerDies \/ ServerRestarts PROVE IInv'
  OBVIOUS
<1>1. CASE ServerDies
  <2>1. /\ server' = "down" /\ deaths' = deaths + 1 /\ wire' = <<>> /\ pending' = <<>>
        /\ conn' = IF conn /= "open" THEN conn ELSE IF wire = <<>> THEN "closed" ELSE "reset"
        /\ UNCHANGED <<at, call, input, command, status, shown, out, unread, line, pipe,
                       answer, session>>
    BY <1>1 DEF ServerDies, userVars
  <2>2. deaths + 1 \in 0..MaxDeaths
    BY <1>1, PeerAssumption DEF ServerDies, IInv, TypeOK
  <2>3. TypeOK'
    BY <2>1, <2>2, Nothing DEF IInv, TypeOK
  <2>4. StatusInv' /\ SessionInv'
    BY <2>1 DEF IInv, StatusInv, SessionInv, Awaiting
  <2> QED
    BY <2>3, <2>4 DEF IInv
<1>2. CASE ServerRestarts
  <2>1. /\ server' = "up"
        /\ UNCHANGED <<at, call, input, command, status, shown, out, unread, line, conn, pipe,
                       wire, answer, pending, session, deaths>>
    BY <1>2 DEF ServerRestarts, userVars
  <2>2. TypeOK'
    BY <2>1 DEF IInv, TypeOK
  <2>3. StatusInv'
    BY <2>1 DEF IInv, StatusInv, Awaiting
  <2>4. SessionInv'
    BY <2>1 DEF IInv, SessionInv, NoLogin, Asking, Refused, Opening
  <2> QED
    BY <2>2, <2>3, <2>4 DEF IInv
<1> QED
  BY <1>1, <1>2

-----------------------------------------------------------------------------
LEMMA StutterInv == IInv /\ UNCHANGED vars => IInv'
<1> SUFFICES ASSUME IInv, UNCHANGED vars PROVE IInv'
  OBVIOUS
<1>1. UNCHANGED <<at, call, input, command, status, shown, out, unread, line, conn, pipe,
                  wire, answer, pending, session, server, deaths>>
  BY DEF vars, userVars, serverVars
<1>2. TypeOK' /\ StatusInv'
  BY <1>1 DEF IInv, TypeOK, StatusInv, Awaiting
<1>3. SessionInv'
  BY <1>1 DEF IInv, SessionInv, NoLogin, Asking, Refused, Opening
<1> QED
  BY <1>2, <1>3 DEF IInv

LEMMA Invariant == Spec => []IInv
<1>1. ASSUME IInv, [Next]_vars PROVE IInv'
  BY <1>1, InterpretInv, EndOfInputInv, WriteInv, ResetInv, RefillInv, ReadLineInv, EofInv,
     ErrorInv, ServerReadsInv, ServerWritesInv, DeathInv, StutterInv DEF Next, ReadStep
<1> QED
  BY InitInv, <1>1, PTL DEF Spec

\* The reader keeps within its buffer and its line, whatever sizes they have and
\* in whatever pieces the bytes come.
THEOREM PeerTyped == Spec => []TypeOK
<1>1. IInv => TypeOK
  BY DEF IInv
<1> QED
  BY <1>1, Invariant, PTL

\* At the prompt connectionStatus is right, and an open connection has a
\* session: a refused login is recognised however its answer is cut into pieces.
THEOREM StatusTold == Spec => []StatusTellsConnection
<1>1. IInv => StatusTellsConnection
  BY DEF IInv, StatusInv, SessionInv, StatusTellsConnection
<1> QED
  BY <1>1, Invariant, PTL
-----------------------------------------------------------------------------
(***************************************************************************)
(* Answers in step.  The bytes of an answer flow from the server through   *)
(* the connection and the buffer into the line that is being read.         *)
(***************************************************************************)
Flow == line \o unread \o pipe \o pending

Quiet == line = <<>> /\ unread = <<>> /\ pipe = <<>> /\ pending = <<>>

\* The state is one that AnswersInStep speaks about.
Live == conn = "open" \/ deaths = 0

\* input is still the line that the user typed.
InputLine ==
  /\ input \in Typed(command)
  /\ call = "login" <=> partOfArray(input, "/login")
  /\ call = "logout" <=> partOfArray(input, "/logout")

\* The command is on its way to the server.
Asked == conn = "open" /\ Quiet /\ wire \o out = input

\* The answer is on its way back.
Answered == at = "read" /\ wire = <<>> /\ out = <<>> /\ answer \in Answers(input) /\ answer = Flow

\* What the loop over a block has printed, and what is still to come.
Blocks(n) ==
  LET S(t) == Symbol(t, n)
  IN {<< <<>>, <<S("none online"), NL, NL>> >>,
      << <<S("none online"), NL>>, <<NL>> >>,
      << <<>>, <<S("online"), NL, S("ip"), S("port"), NL, NL>> >>,
      << <<S("online"), NL>>, <<S("ip"), S("port"), NL, NL>> >>,
      << <<S("online"), NL, S("ip"), S("port"), NL>>, <<NL>> >>}

\* Symbols of command n only.
Of(s, n) == \A i \in DOMAIN s : s[i] \in {NL, Symbol(s[i].text, n)}

LineInv == \A k \in 1..Len(line) : line[k] /= NL

ShownInv ==
  at = "prompt" /\ command > 0 /\ Live =>
    /\ shown = Message(command) \/ answer \in {shown, <<NL>> \o shown \o <<NL>>}
    /\ Of(shown, command)

QuietInv == at \in {"prompt", "exited"} /\ conn = "open" => Quiet /\ wire = <<>>

WaitInv ==
  at \in {"send", "read"} /\ Live =>
    /\ shown = <<>> /\ InputLine /\ (at = "send" => out /= <<>>)
    /\ Asked \/ Answered

BlockInv ==
  at = "list" /\ Live =>
    /\ conn = "open" /\ wire = <<>> /\ out = <<>>
    /\ <<shown, Flow>> \in Blocks(command)
    /\ answer = <<NL>> \o shown \o Flow

\* Without a death only the server's answer to a failed login or to a logout
\* closes a connection, and the peer is then reading it.
ClosedInv ==
  deaths = 0 => \/ conn \in {"none", "open"}
                \/ /\ conn = "closed" /\ at = "read" /\ pending = <<>>
                   /\ answer[1].text \in {"Error", "bye"}

AnswerInv == LineInv /\ ShownInv /\ QuietInv /\ WaitInv /\ BlockInv /\ ClosedInv

-----------------------------------------------------------------------------
(***************************************************************************)
(* Concatenation.                                                          *)
(***************************************************************************)
LEMMA Assoc ==
  ASSUME NEW a \in Lines, NEW b \in Lines, NEW c \in Lines
  PROVE  (a \o b) \o c = a \o (b \o c)
<1>1. a \in Seq(Sym) /\ b \in Seq(Sym) /\ c \in Seq(Sym)
  BY LinesAre
<1> QED
  BY <1>1, ConcatAssociative

LEMMA Unit ==
  ASSUME NEW a \in Lines
  PROVE  a \o <<>> = a /\ <<>> \o a = a
BY ConcatEmptySeq, LinesAre

LEMMA Cancel ==
  ASSUME NEW a \in Lines, NEW b \in Lines, NEW c \in Lines, a \o b = a \o c
  PROVE  b = c
BY ConcatSimplifications, LinesAre

LEMMA BothEmpty ==
  ASSUME NEW a \in Lines, NEW b \in Lines, a \o b = <<>>
  PROVE  a = <<>> /\ b = <<>>
BY ConcatEqualIffEmpty, LinesAre

LEMMA Cut ==
  ASSUME NEW s \in Lines, NEW k \in 1..Len(s)
  PROVE  SubSeq(s, 1, k) \o SubSeq(s, k + 1, Len(s)) = s
<1>1. s \in Seq(Sym) /\ Len(s) \in Nat
  BY LinesAre
<1>2. 1 \in 1..(Len(s) + 1) /\ k \in (1 - 1)..Len(s) /\ Len(s) \in k..Len(s)
  BY <1>1
<1>3. SubSeq(s, 1, k) \o SubSeq(s, k + 1, Len(s)) = SubSeq(s, 1, Len(s))
  BY <1>1, <1>2, ConcatAdjacentSubSeq
<1>4. SubSeq(s, 1, Len(s)) = s
  <2>1. \A i \in 1..Len(s) : s[i] \in Sym
    BY <1>1
  <2>2. /\ SubSeq(s, 1, Len(s)) \in Seq(Sym) /\ Len(SubSeq(s, 1, Len(s))) = Len(s)
        /\ \A i \in 1..Len(s) : SubSeq(s, 1, Len(s))[i] = s[i]
    BY <1>1, <2>1, SubSeqProperties
  <2> QED
    BY <1>1, <2>2, SeqEqual
<1> QED
  BY <1>3, <1>4

LEMMA CutHead ==
  ASSUME NEW s \in Lines, NEW u \in Lines, u /= <<>>
  PROVE  Append(s, Head(u)) \o Tail(u) = s \o u
<1> DEFINE h == <<Head(u)>>
<1>1. s \in Seq(Sym) /\ u \in Seq(Sym) /\ Head(u) \in Sym /\ Tail(u) \in Seq(Sym)
  BY LinesAre, HeadTailProperties
<1>2. h \in Seq(Sym) /\ Len(h) = 1 /\ h[1] = Head(u)
  BY <1>1
<1>3. Append(s, Head(u)) = s \o h
  BY <1>1, AppendIsConcat
<1>4. h \o Tail(u) = u
  <2>1. /\ Len(Tail(u)) = Len(u) - 1 /\ \A i \in 1..Len(Tail(u)) : Tail(u)[i] = u[i + 1]
        /\ Head(u) = u[1] /\ Len(u) \in Nat
    BY <1>1, HeadTailProperties
  <2>2. /\ h \o Tail(u) \in Seq(Sym) /\ Len(h \o Tail(u)) = 1 + Len(Tail(u))
        /\ \A i \in 1..(1 + Len(Tail(u))) :
             (h \o Tail(u))[i] = IF i <= 1 THEN h[1] ELSE Tail(u)[i - 1]
    <3>1. /\ h \o Tail(u) \in Seq(Sym) /\ Len(h \o Tail(u)) = Len(h) + Len(Tail(u))
          /\ \A i \in 1..(Len(h) + Len(Tail(u))) :
               (h \o Tail(u))[i] = IF i <= Len(h) THEN h[i] ELSE Tail(u)[i - Len(h)]
      BY <1>1, <1>2, ConcatProperties
    <3> HIDE DEF h
    <3>2. \A i \in 1..(1 + Len(Tail(u))) : i <= 1 => i = 1
      OBVIOUS
    <3> QED
      BY <1>2, <3>1, <3>2
  <2> HIDE DEF h
  <2>3. \A i \in 1..Len(u) : (h \o Tail(u))[i] = u[i]
    <3> TAKE i \in 1..Len(u)
    <3>1. CASE i = 1
      BY <1>2, <2>1, <2>2, <3>1
    <3>2. CASE i > 1
      <4>1. i - 1 \in 1..Len(Tail(u)) /\ i \in 1..(1 + Len(Tail(u))) /\ ~(i <= 1) /\ (i - 1) + 1 = i
        BY <2>1, <3>2
      <4> QED
        BY <2>1, <2>2, <4>1
    <3>3. i = 1 \/ i > 1
      OBVIOUS
    <3> QED
      BY <3>1, <3>2, <3>3
  <2> QED
    BY <1>1, <2>1, <2>2, <2>3, SeqEqual
<1>5. (s \o h) \o Tail(u) = s \o (h \o Tail(u))
  BY <1>1, <1>2, ConcatAssociative
<1> QED
  BY <1>3, <1>4, <1>5

\* rio_readlineb has taken the line l off the symbols f and left r.
NextLine(l, r, f) ==
  /\ l \in Lines \ {<<>>} /\ r \in Lines /\ f = l \o r
  /\ \A k \in 1..(Len(l) - 1) : l[k] /= NL
  /\ l[Len(l)] = NL \/ Len(l) = MAXLINE - 1

\* One line, not longer than any line of an answer.
OneLine(c) ==
  /\ c \in Lines /\ Len(c) \in 1..3 /\ c[Len(c)] = NL
  /\ \A k \in 1..(Len(c) - 1) : c[k] /= NL

\* It is the first line of them: the buffer of MAXLINE holds any line of an
\* answer.
LEMMA FirstLine ==
  ASSUME MAXLINE >= 4, NEW l, NEW r, NEW c, NEW b \in Lines, NextLine(l, r, c \o b), OneLine(c)
  PROVE  l = c /\ r = b
<1> USE DEF NextLine, OneLine
<1>1. Len(l) \in Nat /\ Len(l) > 0 /\ Len(c) \in Nat /\ MAXLINE \in Nat
  BY NotEmpty, PeerAssumption
<1>2. /\ \A j \in 1..Len(l) : (l \o r)[j] = l[j]
      /\ \A j \in 1..Len(c) : (l \o r)[j] = c[j]
  BY Joined
<1>3. Len(l) = Len(c)
  <2>1. CASE Len(l) < Len(c)
    <3>1. Len(l) \in 1..(Len(c) - 1) /\ Len(l) \in 1..Len(c) /\ Len(l) \in 1..Len(l)
      BY <1>1, <2>1
    <3>2. l[Len(l)] = c[Len(l)] /\ c[Len(l)] /= NL
      BY <1>2, <3>1
    <3>3. Len(l) = MAXLINE - 1
      BY <3>2
    <3> QED
      BY <1>1, <2>1, <3>3
  <2>2. CASE Len(c) < Len(l)
    <3>1. Len(c) \in 1..(Len(l) - 1) /\ Len(c) \in 1..Len(c) /\ Len(c) \in 1..Len(l)
      <4>1. \A m, n \in Nat : m < n /\ m \in 1..3 => m \in 1..(n - 1) /\ m \in 1..m /\ m \in 1..n
        OBVIOUS
      <4> QED
        BY <1>1, <2>2, <4>1
    <3>2. l[Len(c)] = c[Len(c)]
      BY <1>2, <3>1
    <3> QED
      BY <3>1, <3>2
  <2> QED
    BY <1>1, <2>1, <2>2
<1>4. l = c
  <2>1. \A j \in 1..Len(l) : l[j] = c[j]
    BY <1>2, <1>3
  <2> QED
    BY <1>3, <2>1, LinesAre, SeqEqual
<1> QED
  BY <1>4, Cancel

-----------------------------------------------------------------------------
(***************************************************************************)
(* The lines of the answers.                                               *)
(***************************************************************************)
LEMMA ShortLines ==
  /\ OneLine(<<NL>>)
  /\ \A a \in Sym : a /= NL => OneLine(<<a, NL>>)
  /\ \A a, b \in Sym : a /= NL /\ b /= NL => OneLine(<<a, b, NL>>)
<1>1. NL \in Sym
  BY Newline
<1>2. \A a, b \in Sym : <<a, NL>> \in Lines /\ <<a, b, NL>> \in Lines /\ <<NL>> \in Lines
  BY <1>1, LinesAre
<1>3. OneLine(<<NL>>)
  <2> DEFINE c == <<NL>>
  <2>1. c \in Lines /\ Len(c) = 1 /\ c[1] = NL
    BY <1>2, Newline
  <2> HIDE DEF c
  <2>2. OneLine(c)
    BY <2>1 DEF OneLine
  <2> QED
    BY <2>2 DEF c
<1>4. ASSUME NEW a \in Sym, a /= NL PROVE OneLine(<<a, NL>>)
  <2> DEFINE c == <<a, NL>>
  <2>1. c \in Lines /\ Len(c) = 2 /\ c[1] = a /\ c[2] = NL
    BY <1>2
  <2> HIDE DEF c
  <2>2. \A k \in 1..(2 - 1) : k = 1
    OBVIOUS
  <2>3. OneLine(c)
    BY <1>4, <2>1, <2>2 DEF OneLine
  <2> QED
    BY <2>3 DEF c
<1>5. ASSUME NEW a \in Sym, NEW b \in Sym, a /= NL, b /= NL PROVE OneLine(<<a, b, NL>>)
  <2> DEFINE c == <<a, b, NL>>
  <2>1. c \in Lines /\ Len(c) = 3 /\ c[1] = a /\ c[2] = b /\ c[3] = NL
    BY <1>2
  <2> HIDE DEF c
  <2>2. \A k \in 1..(3 - 1) : k = 1 \/ k = 2
    OBVIOUS
  <2>3. OneLine(c)
    BY <1>5, <2>1, <2>2 DEF OneLine
  <2> QED
    BY <2>3 DEF c
<1> QED
  BY <1>3, <1>4, <1>5

\* The words of a server are no newlines.
LEMMA Words ==
  ASSUME NEW n \in Nat, NEW t \in Texts, t /= "nl"
  PROVE  Symbol(t, n) \in Sym /\ Symbol(t, n) /= NL /\ Symbol(t, n).text = t
BY Symbols DEF NL, Symbol

LEMMA OfTuples ==
  ASSUME NEW n \in Nat, NEW a \in Sym, NEW b \in Sym, NEW c \in Sym,
         a = Symbol(a.text, n), b = Symbol(b.text, n), c = Symbol(c.text, n)
  PROVE  /\ Of(<<>>, n) /\ Of(<<a>>, n) /\ Of(<<a, NL>>, n) /\ Of(<<a, b, NL>>, n)
         /\ Of(<<a, NL, b, c, NL>>, n)
BY DEF Of

\* The next line of a block: the empty one ends it, any other is part of it.
LEMMA BlockStep ==
  ASSUME MAXLINE >= 4, NEW n \in Nat, NEW s, NEW f, <<s, f>> \in Blocks(n),
         NEW l, NEW r, NextLine(l, r, f)
  PROVE  \/ l = <<NL>> /\ r = <<>> /\ f = <<NL>>
         \/ l[1] /= NL /\ <<s \o l, r>> \in Blocks(n)
<1> DEFINE x == Symbol("none online", n)  o == Symbol("online", n)
           i == Symbol("ip", n)  p == Symbol("port", n)
<1>1. /\ x \in Sym /\ o \in Sym /\ i \in Sym /\ p \in Sym /\ NL \in Sym
      /\ x /= NL /\ o /= NL /\ i /= NL /\ p /= NL
  BY Words, Newline DEF Texts
<1>2. Blocks(n) = {<< <<>>, <<x, NL, NL>> >>, << <<x, NL>>, <<NL>> >>,
                   << <<>>, <<o, NL, i, p, NL, NL>> >>, << <<o, NL>>, <<i, p, NL, NL>> >>,
                   << <<o, NL, i, p, NL>>, <<NL>> >>}
  BY DEF Blocks
<1> HIDE DEF x, o, i, p
<1>3. \A c, b \in Lines : OneLine(c) /\ f = c \o b => l = c /\ r = b
  BY FirstLine
<1>4. /\ OneLine(<<NL>>) /\ OneLine(<<x, NL>>) /\ OneLine(<<o, NL>>) /\ OneLine(<<i, p, NL>>)
  BY <1>1, ShortLines
<1>5. /\ <<NL>> \in Lines /\ <<x, NL>> \in Lines /\ <<o, NL>> \in Lines /\ <<i, p, NL>> \in Lines
      /\ <<i, p, NL, NL>> \in Lines /\ <<>> \in Lines
  BY <1>1, Tuples, Nothing
<1>6. CASE s = <<>> /\ f = <<x, NL, NL>>
  <2>1. f = <<x, NL>> \o <<NL>>
    BY <1>1, <1>6
  <2>2. l = <<x, NL>> /\ r = <<NL>> /\ s \o l = l
    BY <1>3, <1>4, <1>5, <1>6, <2>1, Unit
  <2> QED
    BY <1>1, <1>2, <2>2
<1>7. CASE f = <<NL>>
  <2>1. f = <<NL>> \o <<>>
    BY <1>5, <1>7, Unit
  <2> QED
    BY <1>3, <1>4, <1>5, <1>7, <2>1
<1>8. CASE s = <<>> /\ f = <<o, NL, i, p, NL, NL>>
  <2>1. f = <<o, NL>> \o <<i, p, NL, NL>>
    BY <1>1, <1>8
  <2>2. l = <<o, NL>> /\ r = <<i, p, NL, NL>> /\ s \o l = l
    BY <1>3, <1>4, <1>5, <1>8, <2>1, Unit
  <2> QED
    BY <1>1, <1>2, <2>2
<1>9. CASE s = <<o, NL>> /\ f = <<i, p, NL, NL>>
  <2>1. f = <<i, p, NL>> \o <<NL>>
    BY <1>1, <1>9
  <2>2. l = <<i, p, NL>> /\ r = <<NL>>
    BY <1>3, <1>4, <1>5, <2>1
  <2>3. s \o l = <<o, NL, i, p, NL>>
    <3>1. <<o, NL, i, p, NL>> = <<o, NL>> \o <<i, p, NL>>
      BY <1>1
    <3> QED
      BY <1>9, <2>2, <3>1
  <2> QED
    BY <1>1, <1>2, <2>2, <2>3
<1> QED
  BY <1>2, <1>6, <1>7, <1>8, <1>9

\* What a block has shown so far is of its command.
LEMMA BlockLines ==
  ASSUME NEW n \in Nat, NEW s, NEW f, <<s, f>> \in Blocks(n)
  PROVE  s \in Lines /\ Of(s, n)
<1> DEFINE x == Symbol("none online", n)  o == Symbol("online", n)
           i == Symbol("ip", n)  p == Symbol("port", n)
<1>1. /\ x \in Sym /\ o \in Sym /\ i \in Sym /\ p \in Sym /\ NL \in Sym
      /\ x = Symbol(x.text, n) /\ o = Symbol(o.text, n)
      /\ i = Symbol(i.text, n) /\ p = Symbol(p.text, n)
  BY Words, Newline DEF Texts
<1>2. s \in {<<>>, <<x, NL>>, <<o, NL>>, <<o, NL, i, p, NL>>}
  BY DEF Blocks
<1> HIDE DEF x, o, i, p
<1>3. Of(<<>>, n) /\ Of(<<x, NL>>, n) /\ Of(<<o, NL>>, n) /\ Of(<<o, NL, i, p, NL>>, n)
  BY <1>1, OfTuples
<1>4. <<o, NL, i, p, NL>> \in Lines
  BY <1>1, LinesAre
<1> QED
  BY <1>1, <1>2, <1>3, <1>4, Nothing, Tuples

\* An answer is one line, or an empty line and a block; only a command that is
\* neither a login nor a logout is answered with a block, and only a login with
\* an error and a logout with a goodbye close the connection.
LEMMA AnswerShape ==
  ASSUME NEW n \in Nat, NEW l \in Typed(n), NEW a \in Answers(l)
  PROVE  /\ a \in Lines \ {<<>>}
         /\ \/ OneLine(a) /\ a[1] /= NL /\ Of(a, n)
            \/ \E f \in Lines : a = <<NL>> \o f /\ << <<>>, f>> \in Blocks(n)
         /\ a[1] = NL => ~partOfArray(l, "/login") /\ ~partOfArray(l, "/logout")
         /\ a[1].text = "Error" => partOfArray(l, "/login")
         /\ a[1].text = "bye" => partOfArray(l, "/logout")
<1> DEFINE S(t) == Symbol(t, n)
<1>1. l[1].command = n
  BY DEF Typed, Symbol
<1>2. a \in {<<S("welcome"), NL>>, <<S("Error"), S("reason"), NL>>, <<S("bye"), NL>>,
             <<S("offline"), NL>>, <<NL, S("none online"), NL, NL>>,
             <<NL, S("online"), NL, S("ip"), S("port"), NL, NL>>, <<S("invalid"), NL>>}
  BY <1>1 DEF Answers
<1>3. /\ partOfArray(l, "/login") => a \in {<<S("welcome"), NL>>, <<S("Error"), S("reason"), NL>>}
      /\ ~partOfArray(l, "/login") /\ partOfArray(l, "/logout") => a = <<S("bye"), NL>>
      /\ ~partOfArray(l, "/login") /\ ~partOfArray(l, "/logout") =>
           a \in {<<S("offline"), NL>>, <<NL, S("none online"), NL, NL>>,
                 <<NL, S("online"), NL, S("ip"), S("port"), NL, NL>>, <<S("invalid"), NL>>}
  BY <1>1 DEF Answers
<1>4. ~(partOfArray(l, "/login") /\ partOfArray(l, "/logout"))
  BY DEF partOfArray
<1>5. \A t \in Texts \ {"nl"} :
        S(t) \in Sym /\ S(t) /= NL /\ S(t).text = t /\ S(t) = Symbol(S(t).text, n)
  BY Words
<1>6. NL \in Sym /\ NL.text = "nl"
  BY Newline
<1> HIDE DEF S
<1>7. ASSUME NEW t \in {"welcome", "bye", "offline", "invalid"}, a = <<S(t), NL>>
      PROVE  /\ a \in Lines \ {<<>>} /\ OneLine(a) /\ a[1] /= NL /\ Of(a, n) /\ a[1].text = t
  <2>1. t \in Texts \ {"nl"}
    BY DEF Texts
  <2> DEFINE s == S(t)
  <2>2. s \in Sym /\ s /= NL /\ s.text = t /\ s = Symbol(s.text, n) /\ a = <<s, NL>>
    BY <1>5, <1>7, <2>1
  <2> HIDE DEF s
  <2>3. a \in Lines \ {<<>>} /\ OneLine(a) /\ Of(a, n) /\ a[1] = s
    BY <1>6, <2>2, ShortLines, OfTuples, Tuples
  <2> QED
    BY <2>2, <2>3
<1>8. ASSUME a = <<S("Error"), S("reason"), NL>>
      PROVE  /\ a \in Lines \ {<<>>} /\ OneLine(a) /\ a[1] /= NL /\ Of(a, n) /\ a[1].text = "Error"
  <2> DEFINE s == S("Error")  t == S("reason")
  <2>1. /\ s \in Sym /\ s /= NL /\ s.text = "Error" /\ s = Symbol(s.text, n)
        /\ t \in Sym /\ t /= NL /\ t = Symbol(t.text, n)
        /\ a = <<s, t, NL>>
    BY <1>5, <1>8 DEF Texts
  <2> HIDE DEF s, t
  <2>2. a \in Lines \ {<<>>} /\ OneLine(a) /\ Of(a, n) /\ a[1] = s
    BY <1>6, <2>1, ShortLines, OfTuples, Tuples
  <2> QED
    BY <2>1, <2>2
<1>9. ASSUME a = <<NL, S("none online"), NL, NL>>
      PROVE  /\ a \in Lines \ {<<>>} /\ a[1] = NL
             /\ \E f \in Lines : a = <<NL>> \o f /\ << <<>>, f>> \in Blocks(n)
  <2> DEFINE s == S("none online")  f == <<s, NL, NL>>
  <2>1. s \in Sym /\ a = <<NL, s, NL, NL>> /\ << <<>>, f>> \in Blocks(n)
    BY <1>5, <1>9 DEF Texts, Blocks, S
  <2>2. a \in Lines \ {<<>>} /\ a[1] = NL /\ a = <<NL>> \o f /\ f \in Lines
    <3> HIDE DEF s
    <3> QED
      BY <1>6, <2>1, LinesAre
  <2> QED
    BY <2>1, <2>2
<1>10. ASSUME a = <<NL, S("online"), NL, S("ip"), S("port"), NL, NL>>
       PROVE  /\ a \in Lines \ {<<>>} /\ a[1] = NL
              /\ \E f \in Lines : a = <<NL>> \o f /\ << <<>>, f>> \in Blocks(n)
  <2> DEFINE s == S("online")  t == S("ip")  u == S("port")  f == <<s, NL, t, u, NL, NL>>
  <2>1. /\ s \in Sym /\ t \in Sym /\ u \in Sym /\ a = <<NL, s, NL, t, u, NL, NL>>
        /\ << <<>>, f>> \in Blocks(n)
    BY <1>5, <1>10 DEF Texts, Blocks, S
  <2>2. a \in Lines \ {<<>>} /\ a[1] = NL /\ a = <<NL>> \o f /\ f \in Lines
    <3> HIDE DEF s, t, u
    <3> QED
      BY <1>6, <2>1, LinesAre
  <2> QED
    BY <2>1, <2>2
<1>11. CASE partOfArray(l, "/login")
  <2>1. /\ a \in Lines \ {<<>>} /\ OneLine(a) /\ a[1] /= NL /\ Of(a, n)
        /\ a[1].text \in {"welcome", "Error"}
    BY <1>3, <1>7, <1>8, <1>11
  <2> QED
    BY <1>11, <2>1
<1>12. CASE partOfArray(l, "/logout")
  <2>1. a \in Lines \ {<<>>} /\ OneLine(a) /\ a[1] /= NL /\ Of(a, n) /\ a[1].text = "bye"
    BY <1>3, <1>4, <1>7, <1>12
  <2> QED
    BY <1>12, <2>1
<1>13. CASE ~partOfArray(l, "/login") /\ ~partOfArray(l, "/logout")
  <2>1. \/ a = <<S("offline"), NL>> \/ a = <<S("invalid"), NL>>
        \/ a = <<NL, S("none online"), NL, NL>>
        \/ a = <<NL, S("online"), NL, S("ip"), S("port"), NL, NL>>
    BY <1>3, <1>13
  <2>2. CASE a = <<S("offline"), NL>> \/ a = <<S("invalid"), NL>>
    <3>1. /\ a \in Lines \ {<<>>} /\ OneLine(a) /\ a[1] /= NL /\ Of(a, n)
          /\ a[1].text \in {"offline", "invalid"}
      BY <1>7, <2>2
    <3> QED
      BY <3>1
  <2>3. CASE \/ a = <<NL, S("none online"), NL, NL>>
             \/ a = <<NL, S("online"), NL, S("ip"), S("port"), NL, NL>>
    <3>1. /\ a \in Lines \ {<<>>} /\ a[1] = NL
          /\ \E f \in Lines : a = <<NL>> \o f /\ << <<>>, f>> \in Blocks(n)
      BY <1>9, <1>10, <2>3
    <3> QED
      BY <1>6, <1>13, <3>1
  <2> QED
    BY <2>1, <2>2, <2>3
<1> QED
  BY <1>11, <1>12, <1>13

LEMMA TypedShape ==
  ASSUME NEW n \in Nat, NEW l \in Typed(n)
  PROVE  OneLine(l) /\ l \in Lines \ {<<>>}
<1>1. /\ \A t \in Texts \ {"nl"} : Symbol(t, n) \in Sym /\ Symbol(t, n) /= NL
      /\ {"/login", "args", "/logout", "/exit", "/lookup", "/other"} \subseteq Texts \ {"nl"}
  BY Words DEF Texts
<1>2. ASSUME l = <<Symbol("/login", n), Symbol("args", n), NL>> PROVE OneLine(l)
  <2> DEFINE s == Symbol("/login", n)  t == Symbol("args", n)
  <2>1. s \in Sym /\ s /= NL /\ t \in Sym /\ t /= NL /\ l = <<s, t, NL>>
    BY <1>1, <1>2
  <2> HIDE DEF s, t
  <2> QED
    BY <2>1, ShortLines
<1>3. ASSUME NEW t \in {"/login", "/logout", "/exit", "/lookup", "/other"}, l = <<Symbol(t, n), NL>>
      PROVE  OneLine(l)
  <2> DEFINE s == Symbol(t, n)
  <2>1. s \in Sym /\ s /= NL /\ l = <<s, NL>>
    BY <1>1, <1>3
  <2> HIDE DEF s
  <2> QED
    BY <2>1, ShortLines
<1>4. OneLine(l)
  BY <1>2, <1>3 DEF Typed
<1> QED
  BY <1>4, TypedLines

LEMMA FlowType == ASSUME TypeOK PROVE Flow \in Lines
BY Joined DEF Flow, TypeOK

\* The first symbol of a block.
LEMMA BlockBegins ==
  ASSUME NEW a \in Lines, NEW b \in Lines
  PROVE  (<<NL>> \o a \o b)[1] = NL
<1> DEFINE c == <<NL>>  d == c \o a
<1>1. c \in Lines /\ Len(c) = 1 /\ c[1] = NL
  BY Nothing
<1>2. d \in Lines /\ Len(d) = 1 + Len(a) /\ d[1] = NL /\ Len(a) \in Nat
  <2> HIDE DEF c
  <2>1. 1 \in 1..Len(c) /\ Len(a) \in Nat
    BY <1>1, NotEmpty
  <2>2. d \in Lines /\ Len(d) = Len(c) + Len(a) /\ d[1] = c[1]
    BY <1>1, <2>1, Joined
  <2> QED
    BY <1>1, <2>1, <2>2
<1> HIDE DEF d
<1>3. 1 \in 1..Len(d)
  BY <1>2
<1>4. (d \o b)[1] = d[1]
  BY <1>2, <1>3, Joined
<1> QED
  BY <1>2, <1>4 DEF d

-----------------------------------------------------------------------------
(***************************************************************************)
(* The steps.                                                              *)
(***************************************************************************)
\* Once the server has died the property speaks of no state before the next
\* login.
LEMMA Excused ==
  ASSUME LineInv', conn' /= "open", deaths' /= 0
  PROVE  AnswerInv'
BY DEF AnswerInv, ShownInv, QuietInv, WaitInv, BlockInv, ClosedInv, Live

LEMMA InitFlow == Init => AnswerInv
BY DEF Init, AnswerInv, LineInv, ShownInv, QuietInv, WaitInv, BlockInv, ClosedInv, Quiet, Live

LEMMA MessageIsOf == ASSUME NEW n \in Nat PROVE Of(Message(n), n)
<1> DEFINE m == Symbol("message", n)
<1>1. m \in Sym /\ m = Symbol(m.text, n)
  BY Words DEF Texts
<1>2. Message(n) = <<m>>
  BY DEF Message
<1> HIDE DEF m
<1> QED
  BY <1>1, <1>2, OfTuples

\* A refused command, or the end of the program.
LEMMA StaysAtPrompt ==
  ASSUME IInv, AnswerInv, at = "prompt", command' \in Nat, UNCHANGED <<Disconnected, line>>,
         at' = "exited" \/ (at' = "prompt" /\ shown' = Message(command'))
  PROVE  AnswerInv'
<1>1. UNCHANGED <<out, unread, line, conn, pipe, wire, answer, pending, deaths>>
  BY DEF Disconnected, serverVars
<1>2. LineInv' /\ QuietInv' /\ ClosedInv'
  BY <1>1 DEF AnswerInv, LineInv, QuietInv, ClosedInv, Quiet
<1>3. ShownInv'
  <2>1. Of(Message(command'), command')
    BY MessageIsOf
  <2>2. at' = "prompt" => shown' = Message(command)' /\ Of(shown, command)'
    BY <2>1 DEF Message, Of
  <2> QED
    BY <2>2 DEF ShownInv
<1>4. WaitInv' /\ BlockInv'
  BY DEF WaitInv, BlockInv
<1> QED
  BY <1>2, <1>3, <1>4 DEF AnswerInv

\* A command goes out on a connection that is quiet, if it is alive.
LEMMA GoesOut ==
  ASSUME command' \in Nat, line' = <<>>, at' = "send", shown' = <<>>, out' = input', InputLine',
         deaths' = 0 => conn' = "open",
         conn' = "open" => Quiet' /\ wire' = <<>>
  PROVE  AnswerInv'
<1>1. input' \in Lines \ {<<>>}
  BY TypedShape DEF InputLine
<1>2. LineInv' /\ ClosedInv'
  BY DEF LineInv, ClosedInv
<1>3. WaitInv'
  <2>1. conn' = "open" => Asked'
    <3>1. <<>> \o input' = input'
      BY <1>1, Unit
    <3> QED
      BY <3>1 DEF Asked
  <2> QED
    BY <1>1, <2>1 DEF WaitInv, Live
<1>4. ShownInv' /\ QuietInv' /\ BlockInv'
  BY DEF ShownInv, QuietInv, BlockInv
<1> QED
  BY <1>2, <1>3, <1>4 DEF AnswerInv

LEMMA InterpretFlow ==
  ASSUME IInv, AnswerInv, interpret
  PROVE  AnswerInv'
<1>1. at = "prompt" /\ command' = command + 1 /\ UNCHANGED line /\ line = <<>>
  BY DEF interpret, IInv, StatusInv
<1>2. command' \in Nat
  BY <1>1 DEF IInv, TypeOK
<1>3. PICK l \in Typed(command') :
        /\ input' = l
        /\ \/ partOfArray(l, "/login") /\ call' = "login" /\ login(l)
           \/ partOfArray(l, "/logout") /\ call' = "logout" /\ request(l)
           \/ partOfArray(l, "/exit") /\ call' = "other" /\ exitCommand
           \/ /\ ~\E w \in {"/login", "/logout", "/exit"} : partOfArray(l, w)
              /\ call' = "other"
              /\ request(l)
  BY DEF interpret
<1>4. InputLine'
  <2>1. /\ call' = "login" <=> partOfArray(l, "/login")
        /\ call' = "logout" <=> partOfArray(l, "/logout")
    BY <1>3 DEF partOfArray
  <2> QED
    BY <1>3, <2>1 DEF InputLine, partOfArray
<1>5. ASSUME at' = "exited" \/ (at' = "prompt" /\ shown' = Message(command')), UNCHANGED Disconnected
      PROVE  AnswerInv'
  BY <1>1, <1>2, <1>5, StaysAtPrompt
<1>6. ASSUME request(l) PROVE AnswerInv'
  <2>1. CASE status = 1
    <3>1. /\ at' = "send" /\ shown' = <<>> /\ out' = input'
          /\ UNCHANGED <<unread, conn, pipe, wire, pending, deaths>>
      BY <1>3, <1>6, <2>1 DEF request, Send, serverVars
    <3>2. conn /= "none" /\ (deaths = 0 => conn = "open")
      BY <1>1, <2>1 DEF IInv, StatusInv, AnswerInv, ClosedInv
    <3>3. conn = "open" => Quiet /\ wire = <<>>
      BY <1>1 DEF AnswerInv, QuietInv
    <3> QED
      BY <1>1, <1>2, <1>4, <3>1, <3>2, <3>3, GoesOut DEF Quiet
  <2>2. CASE status /= 1
    BY <1>1, <1>5, <1>6, <2>2 DEF request, Refuse
  <2> QED
    BY <2>1, <2>2
<1>7. ASSUME login(l) PROVE AnswerInv'
  <2>1. CASE status = 0 /\ arg_count(l) = 4 /\ server /= "down"
    <3>1. /\ at' = "send" /\ shown' = <<>> /\ out' = input' /\ conn' = "open" /\ wire' = <<>>
          /\ pipe' = <<>> /\ pending' = <<>> /\ unread' = <<>>
      BY <1>3, <1>7, <2>1 DEF login, Open_clientfd, Send
    <3> QED
      BY <1>1, <1>2, <1>4, <3>1, GoesOut DEF Quiet
  <2>2. CASE ~(status = 0 /\ arg_count(l) = 4 /\ server /= "down")
    BY <1>1, <1>5, <1>7, <2>2 DEF login, Open_clientfd, Exit, Refuse
  <2> QED
    BY <2>1, <2>2
<1>8. ASSUME exitCommand PROVE AnswerInv'
  BY <1>1, <1>5, <1>8 DEF exitCommand, Exit, Refuse
<1> QED
  BY <1>3, <1>6, <1>7, <1>8

LEMMA EndOfInputFlow == ASSUME IInv, AnswerInv, EndOfInput PROVE AnswerInv'
<1>1. at = "prompt" /\ at' = "exited" /\ UNCHANGED <<Disconnected, line, command>>
  BY DEF EndOfInput, Exit, userVars
<1> QED
  BY <1>1, StaysAtPrompt DEF IInv, TypeOK

LEMMA WriteFlow == ASSUME IInv, AnswerInv, rio_writen PROVE AnswerInv'
<1>1. /\ at = "send"
      /\ UNCHANGED <<call, input, command, status, shown, unread, line, pipe,
                     answer, pending, deaths>>
  BY DEF rio_writen, userVars
<1>2. LineInv'
  BY <1>1 DEF AnswerInv, LineInv
<1>3. CASE conn = "open"
  <2>1. Asked /\ InputLine /\ shown = <<>>
    BY <1>1, <1>3 DEF AnswerInv, WaitInv, Live, Answered
  <2>2. PICK k \in 1..Len(out) :
          /\ out' = SubSeq(out, k + 1, Len(out))
          /\ at' = IF k = Len(out) THEN "read" ELSE "send"
          /\ wire' = wire \o SubSeq(out, 1, k) /\ UNCHANGED conn
    BY <1>3 DEF rio_writen
  <2>3. out \in Lines /\ wire \in Lines
    BY DEF IInv, TypeOK
  <2>4. out' \in Lines /\ SubSeq(out, 1, k) \in Lines /\ Len(out') = Len(out) - k
    BY <2>2, <2>3, Pieces
  <2>5. wire' \o out' = wire \o out
    <3>1. SubSeq(out, 1, k) \o out' = out
      BY <2>2, <2>3, Cut
    <3> DEFINE first == SubSeq(out, 1, k)
    <3>2. wire' = wire \o first /\ first \o out' = out /\ first \in Lines
      BY <2>2, <2>4, <3>1
    <3> HIDE DEF first
    <3>3. (wire \o first) \o out' = wire \o (first \o out')
      BY <2>3, <2>4, <3>2, Assoc
    <3> QED
      BY <3>2, <3>3
  <2>6. at' = "send" => out' /= <<>>
    <3>1. Len(out) \in Nat
      BY <2>3, NotEmpty
    <3>2. k /= Len(out) => Len(out') > 0
      BY <2>4, <3>1
    <3> QED
      BY <2>2, <2>4, <3>2, NotEmpty
  <2>7. WaitInv'
    <3>1. InputLine' /\ Asked'
      BY <1>1, <2>1, <2>2, <2>5 DEF InputLine, Asked, Quiet
    <3> QED
      BY <1>1, <2>1, <2>6, <3>1 DEF WaitInv
  <2>8. ShownInv' /\ QuietInv' /\ BlockInv' /\ ClosedInv'
    BY <1>3, <2>2 DEF ShownInv, QuietInv, BlockInv, ClosedInv
  <2> QED
    BY <1>2, <2>7, <2>8 DEF AnswerInv
<1>4. CASE conn /= "open"
  <2>1. conn /= "none"
    BY <1>1 DEF IInv, StatusInv, Awaiting
  <2>2. deaths /= 0
    BY <1>1, <1>4, <2>1 DEF AnswerInv, ClosedInv
  <2>3. conn' /= "open"
    BY <1>4 DEF rio_writen
  <2> QED
    BY <1>1, <1>2, <2>2, <2>3, Excused
<1> QED
  BY <1>3, <1>4

LEMMA ResetFlow == ASSUME AnswerInv, ResetArrives \/ ReadError PROVE AnswerInv'
<1>1. conn' = "reset" /\ UNCHANGED <<line, deaths>> /\ conn \in {"refused", "reset"}
  BY DEF ResetArrives, ReadError, serverVars
<1>2. deaths /= 0
  BY <1>1 DEF AnswerInv, ClosedInv
<1> QED
  BY <1>1, <1>2, Excused DEF AnswerInv, LineInv

LEMMA EmptyParts ==
  ASSUME NEW s \in Lines, NEW t \in Lines, NEW u \in Lines, NEW v \in Lines
  PROVE  s \o t \o u \o v = <<>> <=> s = <<>> /\ t = <<>> /\ u = <<>> /\ v = <<>>
<1> DEFINE a == s \o t  b == a \o u
<1>1. a \in Lines /\ (a = <<>> <=> s = <<>> /\ t = <<>>)
  BY Joined, BothEmpty, Unit, Nothing
<1> HIDE DEF a
<1>2. b \in Lines /\ (b = <<>> <=> a = <<>> /\ u = <<>>)
  BY <1>1, Joined, BothEmpty, Unit, Nothing
<1> HIDE DEF b
<1>3. b \o v = <<>> <=> b = <<>> /\ v = <<>>
  BY <1>2, BothEmpty, Unit, Nothing
<1> QED
  BY <1>1, <1>2, <1>3 DEF a, b

LEMMA FlowEmpty == ASSUME TypeOK PROVE Flow = <<>> <=> Quiet
BY EmptyParts DEF Flow, Quiet, TypeOK

LEMMA FlowEmptyNext == ASSUME TypeOK' PROVE Flow' = <<>> <=> Quiet'
BY EmptyParts DEF Flow, Quiet, TypeOK

\* A piece moves on: what flows stays the same.
LEMMA Moved ==
  ASSUME IInv, AnswerInv, Live, at \in {"read", "list"}, LineInv', Flow' = Flow,
         UNCHANGED <<at, call, input, command, shown, out, wire, answer, deaths>>,
         Flow /= <<>>,
         \/ UNCHANGED <<conn, pending>>
         \/ conn = "open" /\ conn' = "open"
         \/ /\ conn = "open" /\ conn' = "closed" /\ pending' = <<>>
            /\ answer[1].text \in {"Error", "bye"} /\ answer[1] /= NL
  PROVE  AnswerInv'
<1>1. ShownInv' /\ QuietInv'
  BY DEF ShownInv, QuietInv
<1>2. CASE at = "read"
  <2>1. Answered /\ shown = <<>> /\ InputLine
    <3>1. ~Asked
      BY FlowEmpty DEF IInv, Asked
    <3> QED
      BY <1>2, <3>1 DEF AnswerInv, WaitInv
  <2>2. WaitInv'
    <3>1. Answered' /\ InputLine'
      BY <2>1 DEF Answered, InputLine
    <3> QED
      BY <1>2, <2>1, <3>1 DEF WaitInv
  <2>3. BlockInv' /\ ClosedInv'
    BY <1>2 DEF AnswerInv, BlockInv, ClosedInv
  <2> QED
    BY <1>1, <2>2, <2>3 DEF AnswerInv
<1>3. CASE at = "list"
  <2>1. /\ conn = "open" /\ wire = <<>> /\ out = <<>> /\ <<shown, Flow>> \in Blocks(command)
        /\ answer = <<NL>> \o shown \o Flow
    BY <1>3 DEF AnswerInv, BlockInv
  <2>2. answer[1] = NL
    <3>1. shown \in Lines /\ Flow \in Lines
      BY FlowType DEF IInv, TypeOK
    <3> QED
      BY <2>1, <3>1, BlockBegins
  <2>3. conn' = "open"
    BY <2>1, <2>2
  <2>4. BlockInv'
    BY <2>1, <2>3 DEF BlockInv
  <2>5. WaitInv' /\ ClosedInv'
    BY <1>3, <2>3 DEF WaitInv, ClosedInv
  <2> QED
    BY <1>1, <2>4, <2>5 DEF AnswerInv
<1> QED
  BY <1>2, <1>3

LEMMA RefillFlow == ASSUME IInv, AnswerInv, rio_read PROVE AnswerInv'
<1>1. /\ unread = <<>> /\ at \in {"read", "list"}
      /\ UNCHANGED <<at, call, input, command, status, shown, out, line, conn,
                     wire, answer, pending, deaths>>
  BY DEF rio_read, userVars, serverVars, Reading
<1>2. PICK k \in 1..Len(pipe) :
        unread' = SubSeq(pipe, 1, k) /\ pipe' = SubSeq(pipe, k + 1, Len(pipe))
  BY DEF rio_read
<1>3. TypeOK /\ TypeOK'
  BY RefillInv DEF IInv
<1>4. LineInv'
  BY <1>1 DEF AnswerInv, LineInv
<1>5. unread' \o pipe' = pipe
  BY <1>2, <1>3, Cut DEF TypeOK
<1>6. Flow' = Flow
  <2> DEFINE u == unread'  p == pipe'
  <2>1. /\ line \in Lines /\ pipe \in Lines /\ pending \in Lines /\ u \in Lines /\ p \in Lines
        /\ u \o p = pipe
    BY <1>3, <1>5 DEF TypeOK
  <2>2. Flow' = ((line \o u) \o p) \o pending
    BY <1>1 DEF Flow
  <2>3. Flow = (line \o pipe) \o pending
    <3>1. line \o <<>> = line
      BY <2>1, Unit
    <3> QED
      BY <1>1, <3>1 DEF Flow
  <2> HIDE DEF u, p
  <2>4. (line \o u) \o p = line \o (u \o p)
    BY <2>1, Assoc
  <2> QED
    BY <2>1, <2>2, <2>3, <2>4
<1>7. CASE Live
  <2>1. Flow /= <<>>
    <3>1. pipe /= <<>>
      BY <1>2, <1>3, NotEmpty DEF TypeOK
    <3> QED
      BY <1>3, <3>1, FlowEmpty DEF Quiet
  <2> QED
    BY <1>1, <1>4, <1>6, <1>7, <2>1, Moved
<1>8. CASE ~Live
  BY <1>1, <1>4, <1>8, Excused DEF Live
<1> QED
  BY <1>7, <1>8

LEMMA ServerWritesFlow == ASSUME IInv, AnswerInv, ServerWrites PROVE AnswerInv'
<1>1. /\ conn = "open"
      /\ UNCHANGED <<at, call, input, command, status, shown, out, unread, line,
                     wire, answer, deaths>>
  BY DEF ServerWrites, userVars
<1>2. PICK k \in 1..Len(pending) :
        /\ pipe' = pipe \o SubSeq(pending, 1, k)
        /\ pending' = SubSeq(pending, k + 1, Len(pending))
        /\ conn' = IF k = Len(pending) /\ answer[1].text \in {"Error", "bye"}
                   THEN "closed" ELSE "open"
  BY DEF ServerWrites
<1>3. TypeOK /\ TypeOK'
  BY ServerWritesInv DEF IInv
<1>4. LineInv'
  BY <1>1 DEF AnswerInv, LineInv
<1> DEFINE f == SubSeq(pending, 1, k)
<1>5. f \in Lines /\ f \o pending' = pending /\ Len(pending') = Len(pending) - k
  BY <1>2, <1>3, Cut, Pieces DEF TypeOK
<1>6. Flow' = Flow
  <2> DEFINE s == line \o unread  p == pending'
  <2>1. s \in Lines /\ pipe \in Lines /\ pending \in Lines /\ p \in Lines
    BY <1>3, Joined DEF TypeOK
  <2>2. Flow' = (s \o (pipe \o f)) \o p /\ Flow = (s \o pipe) \o pending
    BY <1>1, <1>2 DEF Flow
  <2>3. f \o p = pending
    BY <1>5
  <2>4. pipe \o f \in Lines
    BY <1>5, <2>1, Joined
  <2> HIDE DEF s, p, f
  <2>5. (s \o pipe) \o (f \o p) = s \o (pipe \o (f \o p))
    <3>1. f \o p \in Lines
      BY <2>1, <2>3
    <3> QED
      BY <2>1, <3>1, Assoc
  <2>6. pipe \o (f \o p) = (pipe \o f) \o p
    BY <1>5, <2>1, Assoc
  <2>7. (s \o (pipe \o f)) \o p = s \o ((pipe \o f) \o p)
    BY <2>1, <2>4, Assoc
  <2> QED
    BY <2>2, <2>3, <2>5, <2>6, <2>7
<1>7. pending /= <<>> /\ (k = Len(pending) => pending' = <<>>)
  <2>1. Len(pending) \in Nat /\ pending' \in Lines /\ pending \in Lines
    BY <1>3, NotEmpty DEF TypeOK
  <2>2. k > 0 /\ Len(pending) > 0 /\ (k = Len(pending) => Len(pending') = 0)
    <3> HIDE DEF f
    <3> QED
      BY <1>2, <1>5, <2>1
  <2> QED
    BY <2>1, <2>2, NotEmpty
<1>8. Flow /= <<>>
  BY <1>3, <1>7, FlowEmpty DEF Quiet
<1>9. at \in {"read", "list"}
  <2>1. at \notin {"prompt", "exited"}
    BY <1>1, <1>7 DEF AnswerInv, QuietInv, Quiet
  <2>2. at /= "send"
    BY <1>1, <1>7 DEF AnswerInv, WaitInv, Live, Asked, Answered, Quiet
  <2> QED
    BY <1>3, <2>1, <2>2 DEF TypeOK
<1>10. answer[1].text \in {"Error", "bye"} => answer[1] /= NL
  BY Newline
<1>11. \/ conn' = "open"
       \/ /\ conn' = "closed" /\ pending' = <<>>
          /\ answer[1].text \in {"Error", "bye"} /\ answer[1] /= NL
  BY <1>2, <1>7, <1>10
<1> QED
  BY <1>1, <1>4, <1>6, <1>8, <1>9, <1>11, Moved DEF Live

\* The server takes the whole command, which ends with its only newline, and
\* answers it.
LEMMA ServerReadsFlow == ASSUME IInv, AnswerInv, ServerReads PROVE AnswerInv'
<1>1. /\ conn = "open" /\ wire /= <<>> /\ wire[Len(wire)] = NL /\ wire' = <<>>
      /\ answer' \in Answers(wire) /\ pending' = answer'
      /\ UNCHANGED <<at, call, input, command, status, shown, out, unread, line,
                     conn, pipe, deaths>>
  BY DEF ServerReads, userVars
<1>2. TypeOK /\ TypeOK'
  BY ServerReadsInv DEF IInv
<1>3. at \in {"send", "read"}
  <2>1. at \notin {"prompt", "exited"}
    BY <1>1 DEF AnswerInv, QuietInv
  <2>2. at /= "list"
    BY <1>1 DEF AnswerInv, BlockInv, Live
  <2> QED
    BY <1>2, <2>1, <2>2 DEF TypeOK
<1>4. Asked /\ InputLine /\ shown = <<>> /\ (at = "send" => out /= <<>>)
  BY <1>1, <1>3 DEF AnswerInv, WaitInv, Live, Answered
<1>5. out = <<>> /\ wire = input
  <2>1. OneLine(input) /\ wire \in Lines /\ out \in Lines
    BY <1>2, <1>4, TypedShape DEF InputLine, TypeOK
  <2>2. /\ Len(wire) \in Nat /\ Len(wire) > 0 /\ Len(out) \in Nat
        /\ Len(input) = Len(wire) + Len(out)
        /\ \A j \in 1..Len(wire) : input[j] = wire[j]
    BY <1>1, <1>4, <2>1, NotEmpty, Joined DEF Asked
  <2>3. ~(Len(wire) < Len(input))
    <3> SUFFICES ASSUME Len(wire) < Len(input) PROVE FALSE
      OBVIOUS
    <3>1. Len(wire) \in 1..Len(wire) /\ Len(wire) \in 1..(Len(input) - 1)
      BY <2>2
    <3>2. input[Len(wire)] = NL /\ input[Len(wire)] /= NL
      BY <1>1, <2>1, <2>2, <3>1 DEF OneLine
    <3> QED
      BY <3>2
  <2>4. Len(out) = 0
    BY <2>2, <2>3
  <2>5. out = <<>>
    BY <2>1, <2>4, NotEmpty
  <2> QED
    BY <1>4, <2>1, <2>5, Unit DEF Asked
<1>6. Answered'
  <2>1. Flow' = answer'
    <3>1. answer' \in Lines
      BY <1>2 DEF TypeOK
    <3>2. line' = <<>> /\ unread' = <<>> /\ pipe' = <<>>
      BY <1>1, <1>4 DEF Asked, Quiet
    <3>3. <<>> \o <<>> = <<>>
      BY Unit, Nothing
    <3>4. Flow' = <<>> \o answer'
      BY <1>1, <3>2, <3>3 DEF Flow
    <3> QED
      BY <3>1, <3>4, Unit
  <2> QED
    BY <1>1, <1>3, <1>4, <1>5, <2>1 DEF Answered
<1>7. WaitInv'
  <2>1. InputLine'
    BY <1>1, <1>4 DEF InputLine
  <2> QED
    BY <1>1, <1>4, <1>6, <2>1 DEF WaitInv
<1>8. LineInv' /\ ShownInv' /\ QuietInv' /\ BlockInv' /\ ClosedInv'
  BY <1>1, <1>3 DEF AnswerInv, LineInv, ShownInv, QuietInv, BlockInv, ClosedInv
<1> QED
  BY <1>7, <1>8 DEF AnswerInv

LEMMA DeathFlow == ASSUME IInv, AnswerInv, ServerDies PROVE AnswerInv'
<1>1. conn' /= "open" /\ deaths' = deaths + 1 /\ UNCHANGED line /\ deaths \in Nat
  BY DEF ServerDies, IInv, TypeOK
<1>2. deaths' /= 0
  BY <1>1
<1> QED
  BY <1>1, <1>2, Excused DEF AnswerInv, LineInv

LEMMA UnchangedFlow ==
  ASSUME AnswerInv, UNCHANGED <<at, call, input, command, shown, out, unread, line, conn, pipe,
                           wire, answer, pending, deaths>>
  PROVE  AnswerInv'
<1>1. Flow' = Flow
  BY DEF Flow
<1>2. LineInv' /\ ShownInv' /\ QuietInv' /\ ClosedInv'
  BY DEF AnswerInv, LineInv, ShownInv, QuietInv, ClosedInv, Quiet, Live, Of
<1>3. WaitInv'
  BY <1>1 DEF AnswerInv, WaitInv, Live, InputLine, Asked, Answered, Quiet
<1>4. BlockInv'
  BY <1>1 DEF AnswerInv, BlockInv, Live
<1> QED
  BY <1>2, <1>3, <1>4 DEF AnswerInv

-----------------------------------------------------------------------------
\* What is left of the flow when a line has been returned.
LEMMA LeftOver ==
  ASSUME TypeOK', line' = <<>>, pipe' = pipe
  PROVE  unread' \o pipe \o pending' = Flow'
<1>1. line' \o unread' = unread'
  BY Unit DEF TypeOK
<1> QED
  BY <1>1 DEF Flow

\* The next line of a block has been read.
LEMMA ListedFlow ==
  ASSUME MAXLINE >= 4, IInv, AnswerInv, Live, at = "list",
         NEW l, NEW r, NextLine(l, r, Flow), r = unread' \o pipe \o pending,
         ListLine(l, TRUE), line' = <<>>, TypeOK',
         UNCHANGED <<command, out, wire, answer, pending, deaths>>
  PROVE  AnswerInv'
<1>1. /\ conn = "open" /\ wire = <<>> /\ out = <<>>
      /\ <<shown, Flow>> \in Blocks(command) /\ answer = <<NL>> \o shown \o Flow
  BY DEF AnswerInv, BlockInv
<1>2. command \in Nat /\ shown \in Lines /\ l \in Lines /\ r \in Lines /\ Flow = l \o r
  BY DEF IInv, TypeOK, NextLine
<1>3. \/ l = <<NL>> /\ r = <<>> /\ Flow = <<NL>>
      \/ l[1] /= NL /\ <<shown \o l, r>> \in Blocks(command)
  BY <1>1, <1>2, BlockStep
<1>4. UNCHANGED <<status, conn, pipe>>
  BY DEF ListLine, StayConnected
<1>5. r = Flow'
  BY <1>4, LeftOver
<1>6. LineInv'
  BY Nothing DEF LineInv
<1>7. ClosedInv' /\ WaitInv'
  <2>1. at' \in {"prompt", "list"}
    BY DEF ListLine
  <2> QED
    BY <1>1, <1>4, <2>1 DEF ClosedInv, WaitInv
<1>8. CASE l = <<NL>> /\ r = <<>> /\ Flow = <<NL>>
  <2>1. at' = "prompt" /\ shown' = shown
    BY <1>8 DEF ListLine
  <2>2. Quiet'
    BY <1>8, <1>5, FlowEmptyNext
  <2>3. Of(shown, command)
    BY <1>1, <1>2, BlockLines
  <2>4. ShownInv'
    BY <1>1, <1>8, <2>1, <2>3 DEF ShownInv, Of
  <2>5. QuietInv' /\ BlockInv'
    BY <1>1, <2>1, <2>2 DEF QuietInv, BlockInv
  <2> QED
    BY <1>6, <1>7, <2>4, <2>5 DEF AnswerInv
<1>9. CASE l[1] /= NL /\ <<shown \o l, r>> \in Blocks(command)
  <2>1. at' = "list" /\ shown' = shown \o l
    BY <1>9 DEF ListLine
  <2>2. answer = <<NL>> \o (shown \o l) \o r
    <3> DEFINE c == <<NL>>  d == c \o shown
    <3>1. c \in Lines /\ d \in Lines
      BY <1>2, Nothing, Joined
    <3>2. answer = d \o (l \o r)
      BY <1>1, <1>2
    <3>3. (c \o shown) \o l = c \o (shown \o l)
      <4> HIDE DEF c
      <4> QED
        BY <1>2, <3>1, Assoc
    <3>4. d \o (l \o r) = (d \o l) \o r
      <4> HIDE DEF d
      <4> QED
        BY <1>2, <3>1, Assoc
    <3> QED
      BY <3>2, <3>3, <3>4
  <2>3. BlockInv'
    BY <1>1, <1>4, <1>9, <1>5, <2>1, <2>2 DEF BlockInv
  <2>4. ShownInv' /\ QuietInv'
    BY <2>1 DEF ShownInv, QuietInv
  <2> QED
    BY <1>6, <1>7, <2>3, <2>4 DEF AnswerInv
<1> QED
  BY <1>3, <1>8, <1>9

\* The first line of an answer has been read: the whole answer to a login or a
\* logout, to another command that or the empty line before a block.
LEMMA RepliedFlow ==
  ASSUME MAXLINE >= 4, IInv, AnswerInv, Live, at = "read",
         NEW l, NEW r, NextLine(l, r, Flow), r = unread' \o pipe \o pending,
         Returned(l, TRUE), TypeOK',
         UNCHANGED <<command, out, wire, answer, pending, deaths>>
  PROVE  AnswerInv'
<1>1. /\ line' = <<>>
      /\ \/ call = "login" /\ LoginReply(l)
         \/ call = "logout" /\ LogoutReply(l)
         \/ call = "other" /\ Reply(l)
  BY DEF Returned
<1>2. Answered /\ InputLine /\ shown = <<>>
  <2>1. Flow /= <<>>
    <3>1. l \in Lines /\ r \in Lines /\ l /= <<>> /\ Flow = l \o r
      BY DEF NextLine
    <3> QED
      BY <3>1, BothEmpty
  <2>2. ~Asked
    BY <2>1, FlowEmpty DEF Asked, IInv
  <2> QED
    BY <2>2 DEF AnswerInv, WaitInv
<1>3. /\ answer = Flow /\ wire = <<>> /\ out = <<>> /\ command \in Nat
      /\ answer \in Answers(input) /\ input \in Typed(command)
  BY <1>2 DEF Answered, InputLine, IInv, TypeOK
<1>4. /\ answer \in Lines \ {<<>>}
      /\ \/ OneLine(answer) /\ answer[1] /= NL /\ Of(answer, command)
         \/ \E f \in Lines : answer = <<NL>> \o f /\ << <<>>, f>> \in Blocks(command)
      /\ answer[1] = NL => call = "other"
      /\ answer[1].text = "Error" => call = "login"
      /\ answer[1].text = "bye" => call = "logout"
  <2>1. call \in {"login", "logout", "other"}
    BY DEF IInv, TypeOK
  <2> QED
    BY <1>2, <1>3, <2>1, AnswerShape DEF InputLine
<1>5. conn \in {"open", "closed"} /\ (conn = "closed" => answer[1].text \in {"Error", "bye"})
  <2>1. conn /= "none"
    BY DEF IInv, StatusInv, Awaiting
  <2> QED
    BY <2>1 DEF AnswerInv, ClosedInv, Live
<1>6. LineInv'
  BY <1>1, Nothing DEF LineInv
<1>7. CASE OneLine(answer) /\ answer[1] /= NL /\ Of(answer, command)
  <2>1. l = answer /\ r = <<>>
    <3>1. NextLine(l, r, answer \o <<>>)
      BY <1>3, <1>4, Unit
    <3> QED
      BY <1>7, <3>1, Nothing, FirstLine
  <2>2. at' = "prompt" /\ shown' \in {answer, Message(command)}
    BY <1>1, <1>7, <2>1 DEF LoginReply, LogoutReply, Reply
  <2>3. conn' \in {conn, "none"} /\ (conn = "closed" => conn' = "none")
    <3>1. CASE call = "login"
      <4>1. LoginReply(l)
        BY <1>1, <3>1
      <4>2. answer[1].text \in {"Error", "bye"} => answer[1].text = "Error"
        BY <1>4, <3>1
      <4> QED
        BY <1>5, <2>1, <4>1, <4>2 DEF LoginReply, partOfArray, Close, StayConnected
    <3>2. CASE call = "logout"
      BY <1>1, <3>2 DEF LogoutReply, Close
    <3>3. CASE call = "other"
      <4>1. conn /= "closed"
        BY <1>4, <1>5, <3>3
      <4> QED
        BY <1>1, <3>3, <4>1 DEF Reply, StayConnected
    <3> QED
      BY <1>1, <3>1, <3>2, <3>3
  <2>4. Quiet'
    <3>1. <<>> = <<>> \o unread' \o pipe \o pending
      <4>1. <<>> \o unread' = unread'
        BY Unit DEF TypeOK
      <4> QED
        BY <2>1, <4>1
    <3>2. unread' = <<>> /\ pipe = <<>> /\ pending = <<>>
      BY <3>1, EmptyParts, Nothing DEF IInv, TypeOK
    <3>3. pipe' \in {pipe, <<>>}
      BY <1>1 DEF LoginReply, LogoutReply, Reply, Close, StayConnected
    <3> QED
      BY <1>1, <3>2, <3>3 DEF Quiet
  <2>5. ShownInv'
    <3>1. Of(Message(command), command)
      BY <1>3, MessageIsOf
    <3>2. Of(shown', command)
      BY <1>7, <2>2, <3>1
    <3>3. Message(command)' = Message(command)
      BY DEF Message
    <3> QED
      BY <2>2, <3>2, <3>3 DEF ShownInv, Of
  <2>6. QuietInv'
    BY <1>3, <2>4 DEF QuietInv
  <2>7. WaitInv' /\ BlockInv' /\ ClosedInv'
    BY <1>5, <2>2, <2>3 DEF WaitInv, BlockInv, ClosedInv
  <2> QED
    BY <1>6, <2>5, <2>6, <2>7 DEF AnswerInv
<1>8. CASE \E f \in Lines : answer = <<NL>> \o f /\ << <<>>, f>> \in Blocks(command)
  <2>1. PICK f \in Lines : answer = <<NL>> \o f /\ << <<>>, f>> \in Blocks(command)
    BY <1>8
  <2>2. l = <<NL>> /\ r = f
    <3>1. NextLine(l, r, <<NL>> \o f)
      BY <1>3, <2>1
    <3> QED
      BY <3>1, ShortLines, FirstLine
  <2>3. answer[1] = NL
    <3>1. <<NL>> \o <<>> = <<NL>>
      BY Nothing, Unit
    <3> QED
      BY <2>1, <3>1, Nothing, BlockBegins
  <2>4. conn = "open" /\ call = "other"
    BY <1>4, <1>5, <2>3, Newline
  <2>5. at' = "list" /\ shown' = <<>> /\ conn' = "open" /\ r = Flow'
    BY <1>1, <1>2, <2>2, <2>4, LeftOver DEF Reply, StayConnected
  <2>6. BlockInv'
    <3>1. <<NL>> \o <<>> = <<NL>>
      BY Nothing, Unit
    <3>2. answer' = <<NL>> \o shown' \o Flow'
      BY <2>1, <2>2, <2>5, <3>1
    <3>3. <<shown', Flow'>> \in Blocks(command')
      BY <2>1, <2>2, <2>5
    <3> QED
      BY <1>3, <2>5, <3>2, <3>3 DEF BlockInv
  <2>7. ShownInv' /\ QuietInv' /\ WaitInv' /\ ClosedInv'
    BY <2>5 DEF ShownInv, QuietInv, WaitInv, ClosedInv
  <2> QED
    BY <1>6, <2>6, <2>7 DEF AnswerInv
<1> QED
  BY <1>4, <1>7, <1>8

LEMMA ReadLineFlow == ASSUME MAXLINE >= 4, IInv, AnswerInv, rio_readlineb PROVE AnswerInv'
<1> DEFINE l == Append(line, Head(unread))
<1>1. /\ at \in {"read", "list"} /\ unread /= <<>> /\ unread' = Tail(unread)
      /\ UNCHANGED <<call, command, out, wire, answer, pending, deaths>>
      /\ IF Head(unread) = NL \/ Len(l) = MAXLINE - 1
         THEN Returned(l, TRUE)
         ELSE line' = l /\ UNCHANGED <<at, input, shown, status, conn, pipe>>
  BY DEF rio_readlineb, Reading, serverVars
<1>2. TypeOK /\ TypeOK'
  BY ReadLineInv DEF IInv
<1>3. /\ l \in Lines \ {<<>>} /\ unread' \in Lines /\ l \o unread' = line \o unread
      /\ Len(l) = Len(line) + 1
  BY <1>1, <1>2, Taken, CutHead DEF TypeOK
<1>4. Len(line) \in Nat /\ l[Len(l)] = Head(unread) /\ \A k \in 1..Len(line) : l[k] = line[k]
  <2>1. line \in Seq(Sym) /\ unread \in Seq(Sym) /\ Head(unread) \in Sym
    BY <1>1, <1>2, LinesAre, HeadTailProperties DEF TypeOK
  <2> QED
    BY <1>3, <2>1, AppendProperties, LenProperties
<1> HIDE DEF l
<1>5. \A k \in 1..(Len(l) - 1) : l[k] /= NL
  <2>1. Len(l) - 1 = Len(line)
    BY <1>3, <1>4
  <2> QED
    BY <1>4, <2>1 DEF AnswerInv, LineInv
<1>6. CASE Head(unread) = NL \/ Len(l) = MAXLINE - 1
  <2>1. Returned(l, TRUE) /\ line' = <<>>
    BY <1>1, <1>6 DEF Returned
  <2>2. CASE Live
    <3> DEFINE r == unread' \o pipe \o pending
    <3>1. pipe \in Lines /\ pending \in Lines /\ r \in Lines
      BY <1>2, <1>3, Joined DEF TypeOK
    <3>2. Flow = l \o r
      <4> DEFINE u == unread'  a == l \o u  b == u \o pipe
      <4>1. u \in Lines /\ a \in Lines /\ b \in Lines /\ l \in Lines
        BY <1>3, <3>1, Joined
      <4>2. Flow = (a \o pipe) \o pending
        BY <1>3 DEF Flow
      <4>3. r = b \o pending
        OBVIOUS
      <4> HIDE DEF u, r
      <4>4. a \o pipe = l \o b
        BY <3>1, <4>1, Assoc
      <4> HIDE DEF a, b
      <4>5. (l \o b) \o pending = l \o (b \o pending)
        BY <3>1, <4>1, Assoc
      <4> QED
        BY <4>2, <4>3, <4>4, <4>5
    <3> HIDE DEF r
    <3>3. NextLine(l, r, Flow)
      BY <1>3, <1>4, <1>5, <1>6, <3>1, <3>2 DEF NextLine
    <3>4. r = unread' \o pipe \o pending
      BY DEF r
    <3>5. CASE at = "read"
      BY <1>1, <1>2, <2>1, <2>2, <3>3, <3>4, <3>5, RepliedFlow
    <3>6. CASE at = "list"
      <4>1. ListLine(l, TRUE)
        BY <2>1, <3>6 DEF Returned
      <4> QED
        BY <1>1, <1>2, <2>1, <2>2, <3>3, <3>4, <3>6, <4>1, ListedFlow
    <3> QED
      BY <1>1, <3>5, <3>6
  <2>3. CASE ~Live
    <3>1. conn' \in {conn, "none"}
      BY <2>1 DEF Returned, ListLine, LoginReply, LogoutReply, Reply, Close, StayConnected
    <3> QED
      BY <1>1, <2>1, <2>3, <3>1, Nothing, Excused DEF Live, LineInv
  <2> QED
    BY <2>2, <2>3
<1>7. CASE ~(Head(unread) = NL \/ Len(l) = MAXLINE - 1)
  <2>1. line' = l /\ UNCHANGED <<at, input, shown, status, conn, pipe>>
    BY <1>1, <1>7
  <2>2. LineInv'
    <3>1. \A k \in 1..Len(l) : k \in 1..(Len(l) - 1) \/ k = Len(l)
      BY <1>3, <1>4
    <3>2. \A k \in 1..Len(l) : l[k] /= NL
      BY <1>4, <1>5, <1>7, <3>1
    <3> QED
      BY <2>1, <3>2 DEF LineInv
  <2>3. Flow' = Flow
    BY <1>1, <1>3, <2>1 DEF Flow
  <2>4. Flow /= <<>>
    BY <1>1, <1>2, FlowEmpty DEF Quiet
  <2>5. CASE Live
    BY <1>1, <2>1, <2>2, <2>3, <2>4, <2>5, Moved
  <2>6. CASE ~Live
    BY <1>1, <2>1, <2>2, <2>6, Excused DEF Live
  <2> QED
    BY <2>5, <2>6
<1> QED
  BY <1>6, <1>7

\* The stream ends under the reader only when the server has died.
LEMMA EofFlow == ASSUME IInv, AnswerInv, ReadEOF PROVE AnswerInv'
<1>1. /\ at \in {"read", "list"} /\ unread = <<>> /\ pipe = <<>>
      /\ conn \in {"closed", "refused"} /\ UNCHANGED deaths /\ line' = <<>>
      /\ conn' \in {conn, "none"}
  BY DEF ReadEOF, Reading, Returned, ListLine, LoginReply, LogoutReply, Reply, Close,
         StayConnected, serverVars
<1>2. deaths /= 0
  <2> SUFFICES ASSUME deaths = 0 PROVE FALSE
    OBVIOUS
  <2>1. at = "read" /\ pending = <<>> /\ answer[1].text \in {"Error", "bye"}
    BY <1>1 DEF AnswerInv, ClosedInv
  <2>2. Answered /\ InputLine
    BY <1>1, <2>1 DEF AnswerInv, WaitInv, Live, Asked
  <2>3. answer = line
    <3>1. line \o <<>> = line
      BY Unit DEF IInv, TypeOK
    <3> QED
      BY <1>1, <2>1, <2>2, <3>1 DEF Answered, Flow
  <2>4. OneLine(line)
    <3>1. OneLine(answer) \/ \E f \in Lines : answer = <<NL>> \o f
      <4>1. command \in Nat /\ input \in Typed(command) /\ answer \in Answers(input)
        BY <2>2 DEF Answered, InputLine, IInv, TypeOK
      <4> QED
        BY <4>1, AnswerShape
    <3>2. ASSUME NEW f \in Lines, answer = <<NL>> \o f PROVE FALSE
      <4>1. <<NL>> \o <<>> = <<NL>>
        BY Nothing, Unit
      <4>2. answer[1] = NL
        BY <3>2, <4>1, Nothing, BlockBegins
      <4> QED
        BY <2>1, <4>2, Newline
    <3> QED
      BY <2>3, <3>1, <3>2
  <2>5. Len(line) \in 1..Len(line)
    BY <2>4 DEF OneLine
  <2> QED
    BY <2>4, <2>5 DEF AnswerInv, LineInv, OneLine
<1> QED
  BY <1>1, <1>2, Excused, Nothing DEF LineInv

-----------------------------------------------------------------------------
LEMMA AnswersInvariant == Spec /\ MAXLINE >= 4 => []AnswerInv
<1> SUFFICES ASSUME MAXLINE >= 4 PROVE Spec => []AnswerInv
  OBVIOUS
<1>1. ASSUME IInv, AnswerInv, [Next]_vars PROVE AnswerInv'
  <2>1. CASE UNCHANGED vars
    BY <1>1, <2>1, UnchangedFlow DEF vars, userVars, serverVars
  <2>2. CASE ServerRestarts
    BY <1>1, <2>2, UnchangedFlow DEF ServerRestarts, userVars
  <2> QED
    BY <1>1, <2>1, <2>2, InterpretFlow, EndOfInputFlow, WriteFlow, ResetFlow, RefillFlow,
       ReadLineFlow, EofFlow, ServerReadsFlow, ServerWritesFlow, DeathFlow DEF Next, ReadStep
<1> QED
  BY InitFlow, <1>1, Invariant, PTL DEF Spec

\* If a line of an answer fits into the buffer of MAXLINE, then back at the prompt
\* of a living connection the user has seen the answer to the command just typed
\* and nothing of it is left, in whatever pieces it came and whatever was typed,
\* refused or lost before.
THEOREM AnswersAreInStep == Spec /\ MAXLINE >= 4 => []AnswersInStep
<1>1. IInv /\ AnswerInv => AnswersInStep
  <2> SUFFICES ASSUME IInv, AnswerInv, at = "prompt", command > 0, conn = "open" \/ deaths = 0
               PROVE  AnswersInStep
    BY DEF AnswersInStep
  <2>1. /\ shown = Message(command) \/ answer \in {shown, <<NL>> \o shown \o <<NL>>}
        /\ \A i \in DOMAIN shown : shown[i] \in {NL, Symbol(shown[i].text, command)}
    BY DEF AnswerInv, ShownInv, Live, Of
  <2>2. conn = "open" => unread \o pipe \o wire \o pending \o line = <<>>
    <3>1. <<>> \o <<>> = <<>>
      BY Unit, Nothing
    <3> QED
      BY <3>1 DEF AnswerInv, QuietInv, Quiet
  <2> QED
    BY <2>1, <2>2 DEF AnswersInStep
<1> QED
  BY <1>1, Invariant, AnswersInvariant, PTL
=============================================================================
