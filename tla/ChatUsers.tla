------------------------------ MODULE ChatUsers ------------------------------
(***************************************************************************)
(* The users of the chat server, over the asynchronous database: logging   *)
(* in under a name nobody has, joining a room and with it moving to the    *)
(* worker process that owns the room, leaving, quitting, being cut off     *)
(* (apps/chat/src: chat_accept.c, chat_factory.c, chat_zombie.c, welcome.c,*)
(* user.c, join.c, hiddenjoin.c, leave.c, quit.c, broadcast.c).            *)
(*                                                                         *)
(* A chat_connection object is one stay of a client in one worker, and is  *)
(* its token; a token is not given out twice here.  Every handler runs to  *)
(* its end before its worker does anything else, except that its requests  *)
(* wait in todo until the master's socket takes them.  What clients say to *)
(* each other is left out, and so are sends to a client that fail.         *)
(***************************************************************************)
EXTENDS AsyncDb, FiniteSets, SequencesExt

CONSTANTS Conn,         \* chat_connection objects
          Home,         \* Home[o]: the worker whose factory o is from
          Name,         \* names of users, and the keys that lock them
          NoName,
          Room,
          NoRoom,
          Owner,        \* Owner[r]: the worker that was given room r
          Pid,          \* Pid[w]: the pid of a worker
          PidKey,       \* PidKey[r], UserKey[r]: the keys of a room's worker and count
          UserKey,
          LoginHook,    \* LoginHook[o], RoomHook[o]: a hook with the token of o
          RoomHook,
          MaxUsers,     \* NGINZ_MAX_CHAT_ROOM_USER
          MaxMoves      \* bound: the moves of clients between workers

\* The keys of names, pids and counts have prefixes of their own.
ASSUME ChatAssumption ==
  /\ IsFiniteSet(Conn) /\ Home \in [Conn -> Client] /\ Owner \in [Room -> Client]
  /\ Pid \in [Client -> Value] /\ IsInjective(Pid)
  /\ PidKey \in [Room -> Key] /\ UserKey \in [Room -> Key] /\ Name \subseteq Key
  /\ IsInjective(UserKey)
  /\ \A r, s \in Room : {PidKey[r], UserKey[r]} \cap Name = {} /\ PidKey[r] # UserKey[s]
  /\ LoginHook \in [Conn -> Hook] /\ IsInjective(LoginHook)
  /\ RoomHook \in [Conn -> Hook] /\ IsInjective(RoomHook)
  /\ \A o, p \in Conn : LoginHook[o] # RoomHook[p]
  /\ NoName \notin Name /\ NoRoom \notin Room
  /\ MaxUsers \in Nat \ {0} /\ 0..MaxUsers \subseteq Value /\ MaxMoves \in Nat

VARIABLES
  chat,      \* chat[o]: the object
  raw,       \* raw[w]: the sockets passed to w that it has not received, each with its command
  quiting,   \* the workers with chat_module_is_quiting
  closing,   \* has the master closed its listener on softquitall?
  crashed,   \* the workers that have dereferenced NULL
  moves      \* the moves so far

chatVars == <<chat, raw, quiting, closing, crashed, moves>>
allVars == <<vars, chatVars>>

\* CHAT_IN_ROOM is room # NoRoom.  "moving" waits for lazy_cleanup, "held" has a
\* reference that nobody will give back.
Flag == {"loggedin", "quit", "softquit", "zombie", "moving", "held"}
Chat == [life : {"none", "live", "freed"}, state : SUBSET Flag, name : Name \cup {NoName},
         login : BOOLEAN,  \* on_response_callback is on_asyncchat_login
         open : BOOLEAN,   \* its descriptor is open, and registered with on_client_data
         room : Room \cup {NoRoom}]
Fresh == [life |-> "live", state |-> {}, name |-> NoName, login |-> TRUE, open |-> TRUE,
          room |-> NoRoom]
Unused == [Fresh EXCEPT !.life = "none", !.open = FALSE]

\* "chat/_welcome", or "chat/_hiddenjoin room name".
Command == [room : Room \cup {NoRoom}, name : Name \cup {NoName}]
WelcomeCommand == [room |-> NoRoom, name |-> NoName]

\* The rooms have been given to the workers at the forks (room_master.c).
ChatInit ==
  /\ Starts([k \in Key |-> IF \E r \in Room : PidKey[r] = k
                           THEN Pid[Owner[CHOOSE r \in Room : PidKey[r] = k]] ELSE NoValue])
  /\ chat = [o \in Conn |-> Unused]
  /\ raw = [w \in Client |-> <<>>]
  /\ quiting = {} /\ crashed = {}
  /\ closing = FALSE /\ moves = 0
-----------------------------------------------------------------------------
Users(r) == {o \in Conn : chat[o].room = r}
UnusedAt(w) == {o \in Conn : Home[o] = w /\ chat[o].life = "none"}
Leaving == {"quit", "softquit", "zombie"}
CallRoom(r, count, increment) ==
  Increment(Owner[r], NoHook, UserKey[r], count, increment)

\* broadcast_room_leave, logoff_user: the requests they make.
\* Fault: the count is taken after the user has gone.
LeaveRequestsAfter(o) ==
  IF chat[o].room = NoRoom THEN <<>>
  ELSE CallRoom(chat[o].room, Cardinality(Users(chat[o].room)) - 1, -1)
LeaveRequests(o) ==
  IF chat[o].room = NoRoom THEN <<>>
  ELSE CallRoom(chat[o].room, Cardinality(Users(chat[o].room)), -1)
LogoffRequests(o) ==
  IF chat[o].name = NoName THEN <<>> ELSE DbUnset(Home[o], NoHook, chat[o].name)

\* default_chat_close: leaves the room, gives the name back, closes the descriptor.
CloseRequests(o) ==
  LeaveRequests(o) \o (IF "loggedin" \in chat[o].state THEN LogoffRequests(o) ELSE <<>>)
\* Fault: CHAT_LOGGED_IN is not cleared when the name is given back.
ClosedStillLoggedIn(c) ==
  [c EXCEPT !.state = IF @ \cap {"quit", "softquit"} = {} THEN @ \cup {"quit"} ELSE @,
            !.room = NoRoom, !.open = FALSE]
Closed(c) ==
  [c EXCEPT !.state = (IF @ \cap {"quit", "softquit"} = {} THEN @ \cup {"quit"} ELSE @)
                        \ {"loggedin"},
            !.room = NoRoom, !.open = FALSE]
Zombie(c) == [Closed(c) EXCEPT !.state = @ \cup {"zombie"}]

\* A worker between two handlers.
Ready(w) == w \notin crashed /\ todo[w] = <<>>

\* The master accepts a client and passes it to a worker, while there are objects
\* left to name it.
Accept(w) ==
  /\ ~closing
  /\ Len(raw[w]) < Cardinality(UnusedAt(w))
  /\ raw' = [raw EXCEPT ![w] = Append(@, WelcomeCommand)]
  /\ UNCHANGED <<vars, chat, quiting, closing, crashed, moves>>

\* chat_hiddenjoin_plug: logged in under the name the client comes with.
HiddenJoin(cmd, enters) ==
  [Fresh EXCEPT !.login = FALSE, !.state = {"loggedin"}, !.name = cmd.name,
                !.room = IF enters THEN cmd.room ELSE NoRoom]

\* on_connection_bubble: a worker that is quiting drops the socket and never closes
\* it; else a welcome and the question for the name, or the join the client came for,
\* if the room has a place.
Arrive(w) ==
  /\ Ready(w) /\ raw[w] # <<>>
  /\ raw' = [raw EXCEPT ![w] = Tail(@)]
  /\ LET cmd == Head(raw[w])
         r == cmd.room
         enters == r # NoRoom /\ Cardinality(Users(r)) < MaxUsers
     IN
       \/ w \in quiting /\ UNCHANGED <<vars, chat>>
       \/ /\ w \notin quiting
          /\ chat' = [chat EXCEPT ![CHOOSE o \in UnusedAt(w) : TRUE] =
                        IF cmd = WelcomeCommand THEN Fresh ELSE HiddenJoin(cmd, enters)]
          /\ IF enters THEN Call(w, CallRoom(r, Cardinality(Users(r)), 1)) ELSE UNCHANGED vars
  /\ UNCHANGED <<quiting, closing, crashed, moves>>
-----------------------------------------------------------------------------
\* on_client_data goes on to read a line.
Reads(o) ==
  /\ chat[o].life = "live" /\ chat[o].open /\ chat[o].state \cap Leaving = {}
  /\ Ready(Home[o]) /\ Home[o] \notin quiting

\* on_asyncchat_login, async_try_login: the name is stored under its key (1 stands for
\* it) if nothing is.  A line without a name, or with one that is too long, changes
\* nothing; what greet_on_login holds of the last login is all that either is told.
LoginLine(o, n) ==
  /\ Reads(o) /\ chat[o].login
  /\ Call(Home[o], Compare_and_swap(Home[o], LoginHook[o], n, 1, NoValue))
  /\ UNCHANGED chatVars

\* chat_join_plug: asks for the pid of the room's worker.
JoinLine(o, r) ==
  /\ Reads(o) /\ "loggedin" \in chat[o].state
  /\ Call(Home[o], DbGet(Home[o], RoomHook[o], PidKey[r]))
  /\ UNCHANGED chatVars

\* chat_leave_plug
LeaveLine(o) ==
  /\ Reads(o) /\ "loggedin" \in chat[o].state /\ chat[o].room # NoRoom
  /\ Call(Home[o], LeaveRequests(o))
  /\ chat' = [chat EXCEPT ![o].room = NoRoom]
  /\ UNCHANGED <<raw, quiting, closing, crashed, moves>>

\* chat_quit_plug and what follows it in handle_chat_request and on_client_data.  Its
\* BYE is not sent, since default_chat_send has nothing for a connection in CHAT_QUIT.
QuitLine(o) ==
  /\ Reads(o) /\ "loggedin" \in chat[o].state
  /\ Call(Home[o], LeaveRequests(o) \o LogoffRequests(o))
  /\ chat' = [chat EXCEPT ![o] = Zombie([chat[o] EXCEPT !.state = @ \cup {"quit"}])]
  /\ UNCHANGED <<raw, quiting, closing, crashed, moves>>

\* on_client_data when the client has gone, or sends what is not a line.
Disconnect(o) ==
  /\ Reads(o)
  /\ Call(Home[o], CloseRequests(o))
  /\ chat' = [chat EXCEPT ![o] = Zombie(@)]
  /\ UNCHANGED <<raw, quiting, closing, crashed, moves>>
-----------------------------------------------------------------------------
\* chat_get for an answer with the token of o: a freed object is not found, and
\* NULL is dereferenced; one that is leaving keeps the reference taken on it.
\* Fault: the state is not looked at.
FoundLeaving(o) == chat[o].life = "live"
Found(o) == chat[o].life = "live" /\ chat[o].state \cap Leaving = {}
GetFails(o) ==
  /\ ~Found(o)
  /\ IF chat[o].life = "freed"
     THEN crashed' = crashed \cup {Home[o]} /\ UNCHANGED chat
     ELSE UNCHANGED crashed /\ chat' = [chat EXCEPT ![o].state = @ \cup {"held"}]
  /\ UNCHANGED <<todo, raw, quiting, closing, moves>>

\* on_asyncchat_login_hook
\* Fault: a name that is taken logs in as well.
LoginReplyUnchecked(o, reply) ==
  /\ Found(o)
  /\ chat' = [chat EXCEPT ![o].name = reply.key, ![o].login = FALSE,
                          ![o].state = @ \cup {"loggedin"}]
  /\ UNCHANGED <<todo, raw, quiting, closing, crashed, moves>>
LoginReply(o, reply) ==
  /\ Found(o)
  /\ chat' = IF reply.success
             THEN [chat EXCEPT ![o].name = reply.key, ![o].login = FALSE,
                               ![o].state = @ \cup {"loggedin"}]
             ELSE chat
  /\ UNCHANGED <<todo, raw, quiting, closing, crashed, moves>>

\* Fault: the room is joined though it is full.
JoinRoomUnchecked(o, r) ==
  /\ Owner[r] = Home[o]
  /\ chat' = [chat EXCEPT ![o].room = r]
  /\ todo' = [todo EXCEPT ![Home[o]] = CallRoom(r, Cardinality(Users(r)), 1)]
  /\ UNCHANGED <<raw, moves>>
\* on_asyncchat_room_pid of a room of this worker: broadcast_room_join, which
\* leaves the old room first and counts a user again who is in the room already.
JoinRoom(o, r) ==
  /\ Owner[r] = Home[o]
  /\ IF Cardinality(Users(r)) >= MaxUsers
     THEN UNCHANGED <<todo, chat>>
     ELSE /\ chat' = [chat EXCEPT ![o].room = r]
          /\ todo' = [todo EXCEPT ![Home[o]] =
               IF chat[o].room = r THEN CallRoom(r, Cardinality(Users(r)) - 1, 1)
               ELSE LeaveRequests(o) \o CallRoom(r, Cardinality(Users(r)), 1)]
  /\ UNCHANGED <<raw, moves>>

\* The same for a room of another worker: chat_join_transfer leaves the room and
\* passes the socket on with the name.
Transfer(o, r) ==
  /\ Owner[r] # Home[o]
  /\ moves < MaxMoves /\ Len(raw[Owner[r]]) < Cardinality(UnusedAt(Owner[r]))
  /\ moves' = moves + 1
  /\ raw' = [raw EXCEPT ![Owner[r]] = Append(@, [room |-> r, name |-> chat[o].name])]
  /\ todo' = [todo EXCEPT ![Home[o]] = LeaveRequests(o)]
  /\ chat' = [chat EXCEPT ![o].room = NoRoom, ![o].open = FALSE,
                          ![o].state = @ \cup {"softquit", "moving"}]

RoomReply(o, r) ==
  /\ Found(o)
  /\ JoinRoom(o, r) \/ Transfer(o, r)
  /\ UNCHANGED <<quiting, closing, crashed>>

Reply_at(w) ==
  /\ Ready(w)
  /\ TakeReply(w)
  /\ LET reply == Head(replies[w]) IN
     \E o \in Conn :
       \/ reply.hook = LoginHook[o] /\ (LoginReply(o, reply) \/ GetFails(o))
       \/ /\ reply.hook = RoomHook[o]
          /\ \E r \in Room : PidKey[r] = reply.key /\ (RoomReply(o, r) \/ GetFails(o))
-----------------------------------------------------------------------------
\* lazy_call_step after a transfer, or after chat_lazy_cleanup_fiber took a zombie:
\* the object is finalized, and closed (again).
Finalize(o) ==
  /\ Ready(Home[o])
  /\ chat[o].life = "live" /\ chat[o].state \cap {"moving", "zombie"} # {}
  /\ "held" \notin chat[o].state
  /\ Call(Home[o], CloseRequests(o))
  /\ chat' = [chat EXCEPT ![o] = [Closed(chat[o]) EXCEPT !.life = "freed"]]
  /\ UNCHANGED <<raw, quiting, closing, crashed, moves>>

\* shake/softquitall: the master closes its listener, and each worker frees its
\* zombies and closes every other object of its factory, in the factory's order.
CloseListener ==
  /\ ~closing /\ closing' = TRUE
  /\ UNCHANGED <<vars, chat, raw, quiting, crashed, moves>>

SoftQuit(w) ==
  /\ closing /\ Ready(w) /\ w \notin quiting
  /\ quiting' = quiting \cup {w}
  /\ LET mine == {o \in Conn : Home[o] = w /\ chat[o].life = "live"}
         freed == {o \in mine : "zombie" \in chat[o].state /\ "held" \notin chat[o].state}
     IN /\ chat' = [o \in Conn |->
                      IF o \in freed THEN [chat[o] EXCEPT !.life = "freed"]
                      ELSE IF o \in mine THEN Closed(chat[o]) ELSE chat[o]]
        /\ \E order \in SetToSeqs(mine \ freed) :
             LET LeavesLast(n) ==
                   {m \in n..Len(order) : chat[order[m]].room = chat[order[n]].room}
             IN Call(w, FlattenSeq([n \in DOMAIN order |->
                  LET o == order[n] IN
                  (IF chat[o].room = NoRoom THEN <<>>
                   ELSE CallRoom(chat[o].room, Cardinality(LeavesLast(n)), -1))
                  \o (IF "loggedin" \in chat[o].state THEN LogoffRequests(o) ELSE <<>>)]))
  /\ UNCHANGED <<raw, closing, crashed, moves>>

ChatNext ==
  \/ Transport /\ UNCHANGED chatVars
  \/ CloseListener
  \/ \E w \in Client : Accept(w) \/ Arrive(w) \/ Reply_at(w) \/ SoftQuit(w)
  \/ \E o \in Conn :
       \/ \E n \in Name : LoginLine(o, n)
       \/ \E r \in Room : JoinLine(o, r)
       \/ LeaveLine(o) \/ QuitLine(o) \/ Disconnect(o)
       \/ Finalize(o)

ChatSpec == ChatInit /\ [][ChatNext]_allVars
-----------------------------------------------------------------------------
ChatTypeOK ==
  /\ TypeOK
  /\ chat \in [Conn -> Chat]
  /\ raw \in [Client -> Seq(Command)]
  /\ \A w \in Client : Len(raw[w]) <= Cardinality(UnusedAt(w))
  /\ quiting \cup crashed \subseteq Client
  /\ closing \in BOOLEAN /\ moves \in 0..MaxMoves

\* Those who go by the name n: in a worker, or on their way to one.
Bearers(n) ==
  Cardinality({o \in Conn : chat[o].open /\ "loggedin" \in chat[o].state /\ chat[o].name = n})
  + Cardinality({at \in Client \X (1..Cardinality(Conn)) :
                   at[2] <= Len(raw[at[1]]) /\ raw[at[1]][at[2]].name = n})

\* Two users never have the same name, however their logins, second attempts,
\* disconnections and late answers interleave (the "check availability" of
\* welcome.c:90).
NamesUnique == \A n \in Name : Bearers(n) <= 1

\* It does not hold for those who move (Transfer, then Finalize); while nobody has
\* moved it does.
NamesUniqueUnmoved == moves = 0 => NamesUnique

\* A user who is logged in still has the name locked: no logoff of another
\* connection, before or after, gives it away (logoff_user, async_db_unset_hook).
NameKept ==
  \A o \in Conn :
    moves = 0 /\ chat[o].open /\ "loggedin" \in chat[o].state => db[chat[o].name] # NoValue

\* The count of a room in the database is no further from its users than there are
\* requests under way, whoever joins, moves, quits or is cut off.
RoomCountFollows ==
  \A r \in Room :
    LET shown == IF db[UserKey[r]] = NoValue THEN 0 ELSE db[UserKey[r]]
        about(q) == Cardinality({n \in DOMAIN q : q[n].key = UserKey[r]})
        flying == about(inbox) + about(todo[Owner[r]])
        users == Cardinality(Users(r))
    IN shown - users <= flying /\ users - shown <= flying

\* No room has more users than it may, wherever they come from; and who is in a room
\* is logged in and still served.
RoomHolds ==
  /\ \A r \in Room : Cardinality(Users(r)) <= MaxUsers
  /\ \A o \in Conn : chat[o].room # NoRoom =>
       chat[o].open /\ "loggedin" \in chat[o].state /\ chat[o].state \cap Leaving = {}

\* TASKS.md:6, "soft-quit to logoff and disconnect all the users": no answer that
\* comes later brings a connection back that a soft quit has closed.
SoftQuitIsFinal ==
  \A o \in Conn : Home[o] \in quiting /\ chat[o].life = "live" =>
    ~chat[o].open /\ chat[o].room = NoRoom /\ "loggedin" \notin chat[o].state

\* What welcome.c:38 and join.c:93 log, "could not find the logged in user", is
\* all that an answer to a connection that is gone does.
LateReplyHandled == crashed = {}
=============================================================================
