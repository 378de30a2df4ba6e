---- MODULE WebChat ----
(* Chat through HTTP, in one worker: connections (apps/http) whose requests name
   a session (apps/web_chat), sessions that are kept between requests, and the
   chats behind them.  The three are streams (net/streamio.c): for the time of a
   request the session is chained below its connection, a chat stays chained
   below its session.  What a chat sends while no request is there waits in the
   session.

   A stream keeps the number of the descriptor it was created with, and numbers
   are given out again.  The memory of a session, a slot, is used again too.  A
   handler is one action; it is written as a function from one World to the next. *)
EXTENDS Integers, Sequences, FiniteSets, FiniteSetsExt

CONSTANTS Conn,         \* the connections that come to this worker, by their sockets
          Slot,         \* bound: the memory of sessions
          MaxSessions,  \* bound: sessions created, each with a chat of its own
          MaxRequests,  \* bound: requests handled
          MaxNumber,    \* bound: numbers of descriptors
          MaxMsg,       \* NGINZ_MAX_WEBCHAT_MSG_SIZE, in messages
          None

ASSUME WebAssumption ==
    /\ None \notin Conn \cup Slot
    /\ {MaxSessions, MaxRequests, MaxNumber, MaxMsg} \subseteq Nat

VARIABLES desc,     \* number -> the socket it is open for
          reg,      \* number -> the connection registered for it in the event loop
          http,     \* connection -> its object
          ses,      \* slot -> the session in it
          chat,     \* session -> its chat: sessions are numbered as they are created
          created,  \* how many sessions were created
          requests, \* how many requests were handled
          quiting   \* the soft quit was served

vars == <<desc, reg, http, ses, chat, created, requests, quiting>>

Number == 1 .. MaxNumber
NoFd == 0          \* INVALID_FD
Chat == 1 .. MaxSessions
Foreign == MaxSessions + 1     \* the sid of a session of another worker
NoSid == 0         \* no sid, or one without a dash: http_webchat_get_sessionid gives it up
Sids == 0 .. Foreign

\* What is behind the sid, as the chat takes it: a line of text (a name, or words
\* for the room), commands that answer, that do not, that ask for a room or for
\* all rooms, leave it, talk to one user or quit; what has no end of line; nothing.
Lines == {"text", "reply", "silent", "join", "rooms", "leave", "pm", "quit", "cut", "empty"}

\* answers: to the last request; -1 as long as nothing was asked that can be parsed.
NoHttp == [st |-> "none", fd |-> NoFd, down |-> None, is_processed |-> FALSE, answers |-> -1]
NoSession == [st |-> "free", chat |-> 0, fd |-> NoFd, idle |-> FALSE, refs |-> 0, msg |-> <<>>, up |-> None]
\* refs: of the worker and of its session, and those chat_get leaves behind; with the
\* last one it is finalized.  lazy: the worker's is to be given back in the lazy calls.
\* due: messages it sent that no request was answered with.  full: one did not fit.
NoChat == [st |-> "none", up |-> None, fd |-> NoFd, quit |-> FALSE, logged |-> FALSE, cb |-> "none", asks |-> "none",
           refs |-> 0, lazy |-> FALSE, due |-> 0, full |-> FALSE]

Http == [st : {"none", "live", "gone"}, fd : Number \cup {NoFd}, down : Slot \cup {None}, is_processed : BOOLEAN,
         answers : Int]
Session == [st : {"free", "live"}, chat : Chat \cup {0}, fd : Number \cup {NoFd}, idle : BOOLEAN, refs : Int,
            msg : Seq(Chat), up : Conn \cup {None}]
ChatObject == [st : {"none", "live"}, up : Slot \cup {None}, fd : Number \cup {NoFd}, quit : BOOLEAN, logged : BOOLEAN,
               cb : {"none", "login", "room"}, asks : {"none", "login", "join", "rooms"},
               refs : Int, lazy : BOOLEAN, due : Int, full : BOOLEAN]
Worlds == [desc : [Number -> Conn \cup {None}], reg : [Number -> Conn \cup {None}], http : [Conn -> Http],
           ses : [Slot -> Session], chat : [Chat -> ChatObject], created : Chat \cup {0}]

World == [desc |-> desc, reg |-> reg, http |-> http, ses |-> ses, chat |-> chat, created |-> created]
Becomes(w) ==
    /\ desc' = w.desc /\ reg' = w.reg /\ http' = w.http
    /\ ses' = w.ses /\ chat' = w.chat /\ created' = w.created
----
(* Descriptors *)

\* event_loop_unregister_fd and close of numbers, whoever they are open for by now.
\* Fault: the numbers are closed and stay registered.
CloseNumbersOnly(w, N) == [w EXCEPT !.desc = [n \in Number |-> IF n \in N THEN None ELSE w.desc[n]]]
CloseNumbers(w, N) ==
    [w EXCEPT !.desc = [n \in Number |-> IF n \in N THEN None ELSE w.desc[n]],
              !.reg = [n \in Number |-> IF n \in N THEN None ELSE w.reg[n]]]

\* default_transfer_parallel of a number: what is open for it goes to another
\* process, and is closed here if it could be sent.
RawMove(w, n, ok) ==
    IF n = NoFd THEN w ELSE [w EXCEPT !.reg[n] = None, !.desc[n] = IF ok THEN None ELSE @]

\* default_http_close, of the connections in C; nothing is above a connection.
HttpClose(w, C) ==
    [CloseNumbers(w, {w.http[c].fd : c \in C}) EXCEPT
        !.http = [c \in Conn |-> IF c \in C THEN [w.http[c] EXCEPT !.fd = NoFd] ELSE w.http[c]]]

\* The object is given back: the handler of its connection owned it.
Gone == [NoHttp EXCEPT !.st = "gone"]
HttpFree(w, c) == [HttpClose(w, {c}) EXCEPT !.http[c] = Gone]

\* http_tunnel_send_content, default_streamio_send: the answer goes to the socket
\* the connection's number is open for, unless the connection was closed.
HttpSend(w, c) ==
    IF w.http[c].fd # NoFd /\ w.desc[w.http[c].fd] = c THEN [w EXCEPT !.http[c].answers = @ + 1] ELSE w
----
(* Sessions *)

\* web_session_close_wrapper, default_streamio_close, of the sessions in S, one by
\* one: each bubbles up, or closes the number the session was created with.
SessionClose(w, S) ==
    LET alone == {s \in S : w.ses[s].up = None}
        v == CloseNumbers(HttpClose(w, {w.ses[s].up : s \in S \ alone}), {w.ses[s].fd : s \in alone})
    IN  [v EXCEPT !.ses = [s \in Slot |->
            IF s \in alone THEN [w.ses[s] EXCEPT !.idle = TRUE, !.fd = NoFd]
            ELSE IF s \in S THEN [w.ses[s] EXCEPT !.idle = TRUE] ELSE w.ses[s]]]

\* The cache goes out in one answer and is empty then, sent or not.
Flush(w, s) ==
    LET c == w.ses[s].up
        k == w.ses[s].chat
        own == Cardinality({i \in DOMAIN w.ses[s].msg : w.ses[s].msg[i] = k})
        v == HttpSend(w, c)
    IN  [v EXCEPT !.http[c].is_processed = TRUE, !.ses[s].msg = <<>>, !.chat[k].due = IF v = w THEN @ ELSE @ - own]

\* web_session_send_wrapper: what does not fit is lost; what is complete goes out
\* if there is a request to answer.  A freed session takes nothing.  The cache
\* holds, for each message, the chat it is of.
\* Fault: the cache is emptied with no request to answer.
SessionSendDrops(w, s, k, more) ==
    IF w.ses[s].st = "free" THEN w
    ELSE LET v == IF Len(w.ses[s].msg) < MaxMsg THEN [w EXCEPT !.ses[s].msg = Append(@, k)] ELSE [w EXCEPT !.chat[k].full = TRUE]
         IN  IF more THEN v
             ELSE IF v.ses[s].up = None THEN [v EXCEPT !.ses[s].msg = <<>>]
             ELSE Flush(v, s)
SessionSend(w, s, k, more) ==
    IF w.ses[s].st = "free" THEN w
    ELSE LET v == IF Len(w.ses[s].msg) < MaxMsg THEN [w EXCEPT !.ses[s].msg = Append(@, k)] ELSE [w EXCEPT !.chat[k].full = TRUE]
         IN  IF more \/ v.ses[s].up = None THEN v ELSE Flush(v, s)

\* streamio_chain of a connection and a session: takes a reference.  What either
\* was chained to before is closed.
Chain(w, c, s) ==
    LET v == IF w.ses[s].up # None THEN SessionClose(w, {s}) ELSE w
        d == v.http[c].down
        u == IF d = None THEN v ELSE SessionClose([v EXCEPT !.ses[s].up = c], {d})
    IN  [u EXCEPT !.ses[s].up = c, !.http[c].down = s, !.ses[s].refs = @ + 1]

\* streamio_unchain: gives the reference back, OPPUNREF clears the pointer.
\* Fault: the session stays chained to the request that is over.
UnchainUpOnly(w, c, s) ==
    IF w.http[c].down = s THEN [w EXCEPT !.http[c].down = None, !.ses[s].refs = @ - 1] ELSE w
Unchain(w, c, s) ==
    IF w.http[c].down = s THEN [w EXCEPT !.ses[s].up = None, !.http[c].down = None, !.ses[s].refs = @ - 1]
    ELSE [w EXCEPT !.ses[s].up = None]

\* opp_search compares hashes only: a closed session, whose sid was overwritten,
\* is found by the sid it had.
Found(w, sid) == {s \in Slot : w.ses[s].st = "live" /\ w.ses[s].chat = sid}
----
(* Chats *)

\* default_chat_send: a chat that has quit sends nothing.
ChatSend(w, k, more) ==
    IF w.chat[k].quit THEN w
    ELSE SessionSend([w EXCEPT !.chat[k].due = @ + 1], w.chat[k].up, k, more)

InRoom(w) == {k \in Chat : w.chat[k].st = "live" /\ w.chat[k].cb = "room"}
\* broadcast_callback_helper: to all in the room but one, one after the other.
Broadcast(w, but) ==
    LET told[k \in 0 .. MaxSessions] ==
            IF k = 0 THEN w
            ELSE IF k \in InRoom(w) \ {but} THEN ChatSend(told[k - 1], k, FALSE) ELSE told[k - 1]
    IN  told[MaxSessions]

\* broadcast_room_bye, broadcast_room_leave: all are told, the leaving user included.
RoomBye(w) == Broadcast(w, 0)
RoomLeave(w, k) == IF w.chat[k].cb = "room" THEN [RoomBye(w) EXCEPT !.chat[k].cb = "none"] ELSE w

\* broadcast_room_greet, broadcast_room_join: the user is told of the room and its
\* users, the others of the user.  Bound: one room, with a place for all.
RoomGreet(w, k) == Broadcast(ChatSend(w, k, FALSE), k)
RoomJoin(w, k) == RoomGreet([w EXCEPT !.chat[k].cb = "room"], k)

\* default_chat_close, which bubbles up to the session and the connection.
ChatClose(w, k) ==
    LET v == [RoomLeave([w EXCEPT !.chat[k].quit = TRUE], k) EXCEPT !.chat[k].logged = FALSE]
    IN  IF v.ses[v.chat[k].up].st = "free" THEN v ELSE SessionClose(v, {v.chat[k].up})

\* on_response_callback: the name (greeted or not, by what the last login of the
\* worker left in the buffer), words for the room; else the line cannot be handled.
Text(w, k, greets) ==
    CASE w.chat[k].cb = "login" ->
            LET v == [w EXCEPT !.chat[k].asks = IF w.chat[k].quit THEN @ ELSE "login"]
            IN  IF greets THEN ChatSend(v, k, FALSE) ELSE v
      [] w.chat[k].cb = "room" -> Broadcast(w, k)
      [] OTHER -> ChatSend(w, k, FALSE)

\* The commands.  /pm is for somebody in the room, from somebody in it.
ToUser(w, to) == IF w.chat[to].cb = "room" THEN ChatSend(w, to, FALSE) ELSE w
Private(w, k, to) == IF w.chat[k].cb = "room" THEN ToUser(w, to) ELSE w
Join(w, k) == ChatSend([w EXCEPT !.chat[k].asks = "join"], k, TRUE)
Rooms(w, k) == [w EXCEPT !.chat[k].asks = "rooms"]
Leave(w, k) == RoomLeave(w, k)
\* Logs off before it says goodbye, which is not sent then.
Quit(w, k) == [RoomLeave(w, k) EXCEPT !.chat[k].quit = TRUE, !.chat[k].logged = FALSE]

\* command_hook: hidden and unknown commands are passed over in silence.
Command(w, k, line, to) ==
    CASE line = "reply" -> ChatSend(w, k, FALSE)
      [] line = "join" -> Join(w, k)
      [] line = "rooms" -> Rooms(w, k)
      [] line = "leave" -> Leave(w, k)
      [] line = "pm" -> Private(w, k, to)
      [] line = "quit" -> Quit(w, k)
      [] OTHER -> w

\* handle_chat_request
ChatRecv(w, k, in) ==
    LET v == CASE in.line = "cut" -> ChatClose(w, k)
               [] in.line # "cut" /\ in.line # "text" /\ w.chat[k].logged -> Command(w, k, in.line, in.to)
               [] OTHER -> Text(w, k, in.greets)
    IN  IF in.line = "empty" THEN w
        ELSE IF v.chat[k].quit /\ in.line # "cut" THEN ChatClose(v, k) ELSE v

\* on_asyncchat_login_hook, of a chat that is still there
LoggedIn(w, k) == [w EXCEPT !.chat[k].cb = "none", !.chat[k].logged = TRUE]

\* chat_join_transfer, through the session, which is chained to nothing: what moves
\* is what is open under the session's number by now.  lazy_cleanup gives it up later.
ChatMove(w, k, ok) ==
    LET v == RoomLeave(w, k)
        u == IF v.chat[k].fd = NoFd THEN v ELSE [v EXCEPT !.reg[v.chat[k].fd] = None]
    IN  [RawMove(u, u.ses[u.chat[k].up].fd, ok) EXCEPT !.chat[k].quit = TRUE, !.chat[k].lazy = TRUE]

\* OPPUNREF of the chats in K.  Those that are finalized have left their rooms;
\* default_chat_close logs them off.
Unref(w, K) ==
    [w EXCEPT !.chat = [k \in Chat |->
        IF k \in K THEN [w.chat[k] EXCEPT !.refs = @ - 1, !.logged = @ /\ w.chat[k].refs # 1] ELSE w.chat[k]]]
----
(* Requests *)

\* web_session_alloc: the session and its chat take over the number of the connection.
SessionAlloc(w, s, n) ==
    LET k == w.created + 1
    IN  [w EXCEPT !.created = k,
                  !.ses[s] = [NoSession EXCEPT !.st = "live", !.chat = k, !.fd = n, !.refs = 2],
                  !.chat[k] = [NoChat EXCEPT !.st = "live", !.up = s, !.fd = n, !.refs = 2]]

\* chat_welcome_plug
ChatWelcome(w, k) == ChatSend([w EXCEPT !.chat[k].cb = "login"], k, FALSE)

\* http_webchat_create_helper, and the end of the request
Create(w, c, s) ==
    LET v == Chain(SessionAlloc(w, s, w.http[c].fd), c, s)
    IN  Unchain(ChatWelcome(v, v.ses[s].chat), c, s)

\* The session takes the line; if the chat did not answer, the session does, with
\* what it kept or with a space.  The reference of opp_search is not given back.
\* Fault: a session that has nothing to say leaves the request unanswered.
ResumeSilently(w, c, s, in) ==
    LET v == ChatRecv(Chain([w EXCEPT !.ses[s].refs = @ + 1], c, s), w.ses[s].chat, in)
        u == IF v.http[c].is_processed \/ v.ses[s].msg = <<>> THEN v ELSE Flush(v, s)
    IN  Unchain(u, c, s)
Resume(w, c, s, in) ==
    LET v == ChatRecv(Chain([w EXCEPT !.ses[s].refs = @ + 1], c, s), w.ses[s].chat, in)
        u == IF v.http[c].is_processed THEN v ELSE Flush(v, s)
    IN  Unchain(u, c, s)

\* webchat_transfer_parallel: the connection is sent to the worker of the session,
\* and given up here, whether that worked or not.
Transfer(w, c, ok) == [RawMove(w, w.http[c].fd, ok) EXCEPT !.http[c] = Gone]

\* http_webchat_plug, of a sid of this worker
Ask(w, c) == [w EXCEPT !.http[c].is_processed = FALSE, !.http[c].answers = 0]
Webchat(w, c, sid, in) ==
    LET v == Ask(w, c)
    IN  IF Found(v, sid) # {} THEN {Resume(v, c, s, in) : s \in Found(v, sid)}
        ELSE IF v.created = MaxSessions THEN {}     \* bound
        ELSE {Create(v, c, s) : s \in {t \in Slot : v.ses[t].st = "free"}}

\* What a request says to a chat.  Bound: a chat asks one thing at a time.
Inputs(sid) ==
    LET Said(line) == [line |-> line, greets |-> FALSE, to |-> 0]
        known == Found(World, sid)
    IN  IF known = {} THEN {Said("empty")}
        ELSE LET a == chat[sid]
             IN  {Said(line) : line \in {l \in Lines \ {"pm", "text"} : a.logged \/ l \in {"cut", "empty"}}
                                     \ (IF a.asks = "none" THEN {} ELSE {"join", "rooms"})}
                 \cup (IF a.logged THEN {[Said("pm") EXCEPT !.to = k] : k \in Chat} ELSE {})
                 \cup (IF a.cb = "login" /\ a.asks # "none" THEN {}
                       ELSE {[Said("text") EXCEPT !.greets = g] : g \in IF a.cb = "login" THEN BOOLEAN ELSE {FALSE}})
----
Init ==
    /\ desc = [n \in Number |-> None]
    /\ reg = [n \in Number |-> None]
    /\ http = [c \in Conn |-> NoHttp]
    /\ ses = [s \in Slot |-> NoSession]
    /\ chat = [k \in Chat |-> NoChat]
    /\ created = 0
    /\ requests = 0
    /\ quiting = FALSE

Handled == requests < MaxRequests /\ requests' = requests + 1 /\ UNCHANGED quiting
Unasked == UNCHANGED <<requests, quiting>>

\* http_on_connection_bubble: a connection comes, with the lowest free number.
Opened(c) ==
    LET n == Min({m \in Number : desc[m] = None})
    IN  [World EXCEPT !.desc[n] = c, !.reg[n] = c, !.http[c] = [NoHttp EXCEPT !.st = "live", !.fd = n]]
Arrivable(c) == http[c].st = "none" /\ \E n \in Number : desc[n] = None

\* The master passed it on, it said nothing yet.
Welcome(c) == Arrivable(c) /\ Becomes(Opened(c)) /\ Unasked

\* Another worker passed it on, with a request for a session of this worker.
Moved(c) ==
    /\ Arrivable(c) /\ Handled
    /\ \E sid \in Chat : \E in \in Inputs(sid) : \E w \in Webchat(Opened(c), c, sid, in) : Becomes(w)

\* http_on_client_data is called for a connection that is registered.
Readable(c) == http[c].st = "live" /\ http[c].fd # NoFd /\ reg[http[c].fd] = c

\* The client left, or sent too much.
Disconnect(c) == Readable(c) /\ Becomes(HttpFree(World, c)) /\ Unasked

\* http_response_test_and_close: no page was asked for, or a hidden one.
TestPage(c) == Readable(c) /\ Handled /\ Becomes(HttpFree(World, c))

\* http_url_parse gives the request up: its first line is too long, or is not three
\* words (what follows a request in a segment of its own).  It is not answered, and
\* the connection stays.
Malformed(c) == Readable(c) /\ Handled /\ Becomes([World EXCEPT !.http[c].answers = -1])

\* The chat page, or 404: answered, kept open.
Page(c) == Readable(c) /\ Handled /\ Becomes(HttpSend([World EXCEPT !.http[c].answers = 0], c))

\* A request for the chat page's sessions, of this worker and of another one.
Chats(c) ==
    /\ Readable(c) /\ Handled
    /\ \E sid \in Chat \cup {NoSid} : \E in \in Inputs(sid) : \E w \in Webchat(World, c, sid, in) : Becomes(w)
Leaves(c) == Readable(c) /\ Handled /\ \E ok \in BOOLEAN : Becomes(Transfer(World, c, ok))

\* An answer for a chat.  One that was freed ends the process (chat_get follows NULL);
\* one that has quit is not served, and keeps a reference.
Answered(k, asked) == chat[k].asks = asked /\ chat[k].refs > 0
GetFails(w, k) == [w EXCEPT !.chat[k].refs = @ + 1]

\* on_asyncchat_login_hook
LoginAnswer(k, success) ==
    /\ Answered(k, "login")
    /\ LET w == [World EXCEPT !.chat[k].asks = "none"]
       IN  Becomes(CASE chat[k].quit -> GetFails(w, k)
                     [] ~chat[k].quit /\ success -> ChatSend(LoggedIn(w, k), k, FALSE)
                     [] OTHER -> ChatSend(w, k, FALSE))
    /\ Unasked

\* on_asyncchat_room_pid: there is no such room, it is here, it is elsewhere.
JoinAnswer(k, where, ok) ==
    /\ Answered(k, "join")
    /\ LET w == [World EXCEPT !.chat[k].asks = "none"]
       IN  Becomes(CASE chat[k].quit -> GetFails(w, k)
                     [] ~chat[k].quit /\ where = "here" -> RoomJoin(ChatSend(w, k, TRUE), k)
                     [] ~chat[k].quit /\ where = "elsewhere" -> ChatMove(ChatSend(w, k, TRUE), k, ok)
                     [] OTHER -> ChatSend(w, k, FALSE))
    /\ Unasked

\* on_asyncchat_rooms: the list of the rooms, from the master.
RoomsAnswer(k) ==
    /\ Answered(k, "rooms")
    /\ LET w == [World EXCEPT !.chat[k].asks = "none"]
       IN  Becomes(IF chat[k].quit THEN GetFails(w, k) ELSE ChatSend(w, k, FALSE))
    /\ Unasked

\* 120 seconds passed since the session was created: last_activity is set once.
Age(s) ==
    /\ ses[s].st = "live" /\ ~ses[s].idle
    /\ ses' = [ses EXCEPT ![s].idle = TRUE]
    /\ UNCHANGED <<desc, reg, http, chat, created, requests, quiting>>

\* lazy_call_step, of the chats that moved.  A chat that is finalized closes whichever
\* session has the memory of its own by now.
LazyCall ==
    LET queued == {k \in Chat : chat[k].lazy}
        last == {chat[k].up : k \in {j \in queued : chat[j].refs = 1}}
        w == [World EXCEPT !.chat = [k \in Chat |-> [chat[k] EXCEPT !.lazy = FALSE]]]
    IN  /\ queued # {}
        /\ Becomes(SessionClose(Unref(w, queued), {s \in Slot \cap last : ses[s].st = "live"}))
        /\ Unasked

\* web_session_cleanup_fiber, of the sessions in S: closes each and gives a
\* reference back; with the last one it is freed, and gives its reference to its
\* chat back.  The chat goes on, unless it moved.
\* Fault: it is freed one reference too late.
GiveBack(w, S, freed) ==
    LET v == [w EXCEPT !.ses = [s \in Slot |->
                IF s \notin S THEN w.ses[s] ELSE IF s \in freed THEN NoSession ELSE [w.ses[s] EXCEPT !.refs = @ - 1]]]
    IN  Unref(v, {w.ses[s].chat : s \in freed})
SessionEndLate(w, S) == LET v == SessionClose(w, S) IN GiveBack(v, S, {s \in S : v.ses[s].refs = 0})
SessionEnd(w, S) == LET v == SessionClose(w, S) IN GiveBack(v, S, {s \in S : v.ses[s].refs = 1})
Idle == {s \in Slot : ses[s].st = "live" /\ ses[s].idle}
Sweep == Idle # {} /\ Becomes(SessionEnd(World, Idle)) /\ Unasked

\* The chats leave their rooms, hearing of it, and are closed, one after the other.
ChatsQuit(w) ==
    LET quit[k \in 0 .. MaxSessions] ==
            IF k = 0 THEN w
            ELSE IF w.chat[k].st = "live" /\ w.chat[k].refs > 0 THEN ChatClose(RoomLeave(quit[k - 1], k), k) ELSE quit[k - 1]
    IN  quit[MaxSessions]
HttpQuit(w) == HttpClose(w, {c \in Conn : w.http[c].st = "live"})
SessionsQuit(w) == SessionClose(w, {s \in Slot : w.ses[s].st = "live"})

\* What is plugged in under shake/softquitall is called in the order in which it was.
PluginCall(w) == SessionsQuit(HttpQuit(ChatsQuit(w)))

\* A worker is told to quit softly.  It goes on taking connections: nothing sets
\* http_accept_module_is_quiting.
SoftQuit ==
    /\ ~quiting /\ quiting' = TRUE
    /\ Becomes(PluginCall(World))
    /\ UNCHANGED requests

Next ==
    \/ \E c \in Conn : Welcome(c) \/ Moved(c) \/ Disconnect(c) \/ TestPage(c) \/ Malformed(c) \/ Page(c) \/ Chats(c) \/ Leaves(c)
    \/ \E k \in Chat : \E b \in BOOLEAN : LoginAnswer(k, b) \/ JoinAnswer(k, "elsewhere", b)
    \/ \E k \in Chat : JoinAnswer(k, "here", TRUE) \/ JoinAnswer(k, "none", TRUE) \/ RoomsAnswer(k)
    \/ \E s \in Slot : Age(s)
    \/ LazyCall
    \/ Sweep
    \/ SoftQuit

Spec == Init /\ [][Next]_vars
----
(* Properties *)

\* Types; a session that is there has a chat of its own, and references, one more
\* at most for each request.
TypeOK ==
    /\ World \in Worlds /\ requests \in 0 .. MaxRequests /\ quiting \in BOOLEAN
    /\ \A s \in Slot : ses[s].st = "live" =>
            /\ ses[s].refs \in 1 .. requests + 1
            /\ ses[s].chat \in 1 .. created /\ chat[ses[s].chat].up = s

\* Whoever is called for a number is a connection that is there, keeps that number,
\* and has it open (the assertion of http_on_client_data), also after sessions
\* and moving chats closed numbers that were not theirs any more.
OwnRegistration ==
    \A n \in Number : reg[n] # None => http[reg[n]].st = "live" /\ http[reg[n]].fd = n /\ desc[n] = reg[n]

\* No request leaves its connection chained, whatever its chat did meanwhile (the
\* assertion of http_webchat_create_helper): answers that come later find no
\* connection, so a chat that moves never moves one.
Unchained == (\A c \in Conn : http[c].down = None) /\ (\A s \in Slot : ses[s].up = None)

\* What a chat of a session says waits in the session until a request is answered
\* with it, as long as it fits: nothing is lost between two requests, and nothing
\* is told twice.
Mailbox ==
    \A s \in Slot : ses[s].st = "live" /\ ~chat[ses[s].chat].quit /\ ~chat[ses[s].chat].full =>
        chat[ses[s].chat].due = Cardinality({i \in DOMAIN ses[s].msg : ses[s].msg[i] = ses[s].chat})

\* The memory of an expired session is a new session's by now.
UsedAgain == \E j, k \in 1 .. created : j # k /\ chat[j].up = chat[k].up

\* A client that can still be heard got exactly one answer to its last request, and
\* none if that could not be parsed, as long as no chat of an expired session may say
\* something to it as well.
OneAnswer == ~UsedAgain => \A c \in Conn : Readable(c) => http[c].answers \in {-1, 1}

\* A session keeps messages of its own chat only.
OwnMessages == \A s \in Slot : \A i \in DOMAIN ses[s].msg : ses[s].msg[i] = ses[s].chat
====
