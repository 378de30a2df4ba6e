--------------------------- MODULE ChatUsersProofs ---------------------------
(***************************************************************************)
(* Proofs about ChatUsers for every set of workers, connections, names and *)
(* rooms: its types, the room's users and their count, the names and what  *)
(* a soft quit leaves.                                                     *)
(*                                                                         *)
(* The argument: every request and answer is of one of four kinds; an      *)
(* object answers for what it has asked until it leaves, which it does     *)
(* once; a name is claimed once, by a user, by an answer that grants it or *)
(* by a request that gives it back; and what is under way for a room leads *)
(* from the count in the database to the length of its list of users.      *)
(***************************************************************************)
EXTENDS ChatUsers, AsyncDbProofs

\* The requests of chat connections, of worker c: for a name, for the worker of a room,
\* about the count of a room, and the one that gives a name back.
LoginRequests(c) ==
  {m \in SentBy(c) : /\ m.op = "sin" /\ m.key \in Name /\ m.newval # NoValue /\ m.oldval = NoValue
                     /\ \E o \in Conn : Home[o] = c /\ m.hook = LoginHook[o]}
RoomRequests(c) ==
  {m \in SentBy(c) : /\ m.op = "get" /\ \E r \in Room : m.key = PidKey[r]
                     /\ \E o \in Conn : Home[o] = c /\ m.hook = RoomHook[o]}
CountRequests(c) ==
  {m \in SentBy(c) : m.hook = NoHook /\ \E r \in Room : Owner[r] = c /\ m.key = UserKey[r]}
LogoffRequestsOf(c) == {m \in SentBy(c) : m.hook = NoHook /\ m.op = "unset" /\ m.key \in Name}
ChatRequests(c) == LoginRequests(c) \cup RoomRequests(c) \cup CountRequests(c) \cup LogoffRequestsOf(c)
AnyRequest == UNION {ChatRequests(c) : c \in Client}

\* The answers to the first two.
ChatReplies(c) ==
  {a \in Reply :
     /\ a.to = c
     /\ \E o \in Conn : /\ Home[o] = c
                        /\ \/ a.hook = LoginHook[o] /\ a.key \in Name
                           \/ a.hook = RoomHook[o] /\ \E r \in Room : a.key = PidKey[r]}
AnyReply == UNION {ChatReplies(c) : c \in Client}

\* What is passed to worker c.
CommandsTo(c) ==
  {WelcomeCommand} \cup {m \in Command : m.room \in Room /\ m.name \in Name /\ Owner[m.room] = c}

Requests ==
  /\ inbox \in Seq(AnyRequest) /\ owed \in Seq(AnyReply)
  /\ \A c \in Client : todo[c] \in Seq(ChatRequests(c)) /\ replies[c] \in Seq(ChatReplies(c))
Commands == \A c \in Client : raw[c] \in Seq(CommandsTo(c))

\* The hooks of what is under way, and when they are an object's to wait for.
HooksOf(q) == {q[n].hook : n \in DOMAIN q}
Underway ==
  HooksOf(inbox) \cup HooksOf(owed) \cup UNION {HooksOf(todo[c]) \cup HooksOf(replies[c]) : c \in Client}
Leaves(x) == x.state \cap Leaving # {}
LoggedIn(x) == "loggedin" \in x.state
Asks(o) ==
  /\ LoginHook[o] \in Underway => chat[o].life # "none"
  /\ RoomHook[o] \in Underway => chat[o].life # "none" /\ (LoggedIn(chat[o]) \/ Leaves(chat[o]))

\* An object of worker w: it is served until it leaves, and what it keeps it has while it
\* is served.  Has anybody moved, and has the worker quit?
Proper(w, x, moved, quits) ==
  /\ x.life = "none" => x = Unused
  /\ x.open <=> x.life = "live" /\ ~Leaves(x)
  /\ x.life = "freed" => Leaves(x)
  /\ x.room # NoRoom => x.open /\ LoggedIn(x) /\ Owner[x.room] = w
  /\ LoggedIn(x) => x.name \in Name
  /\ LoggedIn(x) /\ ~x.open => moved /\ x.life = "live" /\ "zombie" \notin x.state
  /\ quits /\ x.life = "live" => ~x.open /\ ~LoggedIn(x)
Object(o) == Proper(Home[o], chat[o], moves > 0, Home[o] \in quiting)

Rooms == \A r \in Room : Cardinality(Users(r)) <= MaxUsers

\* Does q have one of S, and not more than one?
Has(q, S) == \E n \in DOMAIN q : q[n] \in S
HasOne(q, S) == \A m, n \in DOMAIN q : q[m] \in S /\ q[n] \in S => m = n

\* What claims a name: its user, an answer that grants it, a request that gives it back.
Bears(o, n) == LoggedIn(chat[o]) /\ chat[o].name = n
Unsets(n) == {m \in Message : m.op = "unset" /\ m.key = n}
Grants(n) == {a \in Reply : a.success /\ a.key = n}
BorneBy(n) == \E o \in Conn : Bears(o, n)
GivenBack(n) == \E c \in Client : Has(todo[c], Unsets(n))
Granted(n) == \E c \in Client : Has(replies[c], Grants(n))

\* A name is claimed once.
ClaimedOnce(n) ==
  /\ \A o, p \in Conn : Bears(o, n) /\ Bears(p, n) => o = p
  /\ HasOne(inbox, Unsets(n)) /\ HasOne(owed, Grants(n))
  /\ \A c \in Client : HasOne(todo[c], Unsets(n)) /\ HasOne(replies[c], Grants(n))
  /\ \A c, d \in Client : Has(todo[c], Unsets(n)) /\ Has(todo[d], Unsets(n)) => c = d
  /\ \A c, d \in Client : Has(replies[c], Grants(n)) /\ Has(replies[d], Grants(n)) => c = d
  /\ BorneBy(n) => ~(Has(inbox, Unsets(n)) \/ GivenBack(n) \/ Has(owed, Grants(n)) \/ Granted(n))
  /\ Has(inbox, Unsets(n)) => ~(GivenBack(n) \/ Has(owed, Grants(n)) \/ Granted(n))
  /\ GivenBack(n) => ~(Has(owed, Grants(n)) \/ Granted(n))
  /\ Has(owed, Grants(n)) => ~Granted(n)
Claimed(n) ==
  BorneBy(n) \/ Has(inbox, Unsets(n)) \/ GivenBack(n) \/ Has(owed, Grants(n)) \/ Granted(n)
\* A name that is claimed is locked in the database, while nobody has moved.
Locked(n) == ClaimedOnce(n) /\ (Claimed(n) => db[n] # NoValue)
Names ==
  moves = 0 =>
    /\ \A c \in Client : raw[c] \in Seq({WelcomeCommand})
    /\ \A n \in Name : Locked(n)

\* What is under way for a room leads from the count that is there to its users.
Counts == \A r \in Room : Way(UserKey[r], Owner[r], Full(Cardinality(Users(r))))

\* The inductive invariant of the chat users.
ChatInv ==
  /\ ChatTypeOK /\ Requests /\ Commands /\ Rooms
  /\ \A o \in Conn : Object(o) /\ Asks(o)
  /\ Names /\ Counts
-----------------------------------------------------------------------------
\* The assumptions on the constants, as the provers need them.
LEMMA Constants ==
  /\ IsFiniteSet(Conn) /\ Home \in [Conn -> Client] /\ Owner \in [Room -> Client]
  /\ PidKey \in [Room -> Key] /\ UserKey \in [Room -> Key] /\ Name \subseteq Key
  /\ \A r, s \in Room : UserKey[r] = UserKey[s] => r = s
  /\ \A r \in Room : PidKey[r] \notin Name /\ UserKey[r] \notin Name
  /\ \A r, s \in Room : PidKey[r] # UserKey[s]
  /\ \A o \in Conn : LoginHook[o] \in Hook /\ RoomHook[o] \in Hook
  /\ \A o, p \in Conn : LoginHook[o] = LoginHook[p] \/ RoomHook[o] = RoomHook[p] => o = p
  /\ \A o, p \in Conn : LoginHook[o] # RoomHook[p]
  /\ NoHook \notin Hook /\ NoName \notin Name /\ NoRoom \notin Room
  /\ MaxUsers \in Nat /\ MaxUsers # 0 /\ 0..MaxUsers \subseteq Value /\ 1 \in Value
  /\ NoValue \notin Value /\ NoValue \in Content /\ MaxMoves \in Nat
<1>1. \A r, s \in Room : UserKey[r] = UserKey[s] => r = s
  BY ChatAssumption DEF IsInjective
<1>2. \A o, p \in Conn : LoginHook[o] = LoginHook[p] \/ RoomHook[o] = RoomHook[p] => o = p
  BY ChatAssumption DEF IsInjective
<1>3. \A r, s \in Room : PidKey[r] \notin Name /\ UserKey[r] \notin Name /\ PidKey[r] # UserKey[s]
  BY ChatAssumption
<1>4. 1 \in 0..MaxUsers
  BY ChatAssumption
<1> QED
  BY <1>1, <1>2, <1>3, <1>4, ChatAssumption, AsyncDbAssumption DEF Content

\* Every hook of a request is one of the database.
LEMMA RequestKinds ==
  ASSUME NEW c \in Client
  PROVE  ChatRequests(c) \subseteq SentBy(c) /\ SentBy(c) \subseteq Message
BY DEF ChatRequests, LoginRequests, RoomRequests, CountRequests, LogoffRequestsOf, SentBy

\* What an element more or less means to a queue.
LEMMA HasAppend ==
  ASSUME NEW T, NEW q \in Seq(T), NEW e \in T, NEW S
  PROVE  /\ Has(Append(q, e), S) <=> Has(q, S) \/ e \in S
         /\ HasOne(q, S) /\ ~(Has(q, S) /\ e \in S) => HasOne(Append(q, e), S)
         /\ HooksOf(Append(q, e)) = HooksOf(q) \cup {e.hook}
<1> DEFINE r == Append(q, e)
<1>1. /\ Len(q) \in Nat /\ DOMAIN q = 1..Len(q) /\ DOMAIN r = 1..(Len(q) + 1)
      /\ \A n \in 1..Len(q) : r[n] = q[n]
      /\ r[Len(q) + 1] = e
  BY AppendProperties
<1> HIDE DEF r
<1>2. Has(r, S) <=> Has(q, S) \/ e \in S
  BY <1>1 DEF Has
<1>3. HasOne(q, S) /\ ~(Has(q, S) /\ e \in S) => HasOne(r, S)
  <2> SUFFICES ASSUME HasOne(q, S), ~(Has(q, S) /\ e \in S),
                      NEW m \in 1..(Len(q) + 1), NEW n \in 1..(Len(q) + 1), r[m] \in S, r[n] \in S
               PROVE  m = n
    BY <1>1 DEF HasOne
  <2>1. CASE m \in 1..Len(q) /\ n \in 1..Len(q)
    BY <1>1, <2>1 DEF HasOne
  <2>2. CASE m = Len(q) + 1 /\ n \in 1..Len(q)
    BY <1>1, <2>2 DEF Has
  <2>3. CASE n = Len(q) + 1 /\ m \in 1..Len(q)
    BY <1>1, <2>3 DEF Has
  <2> QED
    BY <1>1, <2>1, <2>2, <2>3
<1>4. HooksOf(r) = HooksOf(q) \cup {e.hook}
  BY <1>1 DEF HooksOf
<1> QED
  BY <1>2, <1>3, <1>4 DEF r

\* What its first element means to a queue.
LEMMA HasTail ==
  ASSUME NEW T, NEW q \in Seq(T), q # <<>>, NEW S
  PROVE  /\ Head(q) \in T /\ Tail(q) \in Seq(T)
         /\ Has(q, S) <=> Has(Tail(q), S) \/ Head(q) \in S
         /\ HasOne(q, S) => HasOne(Tail(q), S) /\ ~(Has(Tail(q), S) /\ Head(q) \in S)
         /\ HooksOf(q) = HooksOf(Tail(q)) \cup {Head(q).hook}
<1> DEFINE t == Tail(q)
<1>1. /\ Len(q) \in Nat /\ Len(q) # 0 /\ DOMAIN q = 1..Len(q) /\ DOMAIN t = 1..(Len(q) - 1)
      /\ \A n \in 1..(Len(q) - 1) : t[n] = q[n + 1]
      /\ Head(q) = q[1] /\ t \in Seq(T) /\ Head(q) \in T
  BY HeadTailProperties
<1> HIDE DEF t
<1>2. ASSUME NEW n \in 1..Len(q), n # 1 PROVE n - 1 \in 1..(Len(q) - 1) /\ q[n] = t[n - 1]
  <2>1. n - 1 \in 1..(Len(q) - 1) /\ (n - 1) + 1 = n
    BY <1>1, <1>2
  <2> QED
    BY <1>1, <2>1
<1>3. ASSUME NEW n \in 1..(Len(q) - 1) PROVE n + 1 \in 1..Len(q) /\ n + 1 # 1 /\ t[n] = q[n + 1]
  BY <1>1
<1>4. Has(q, S) <=> Has(t, S) \/ Head(q) \in S
  <2>1. Has(q, S) => Has(t, S) \/ Head(q) \in S
    BY <1>1, <1>2 DEF Has
  <2>2. Head(q) \in S => Has(q, S)
    <3>1. 1 \in 1..Len(q)
      BY <1>1
    <3> QED
      BY <1>1, <3>1 DEF Has
  <2>3. Has(t, S) => Has(q, S)
    BY <1>1, <1>3 DEF Has
  <2> QED
    BY <2>1, <2>2, <2>3
<1>5. ASSUME HasOne(q, S) PROVE HasOne(t, S) /\ ~(Has(t, S) /\ Head(q) \in S)
  <2>1. HasOne(t, S)
    <3> SUFFICES ASSUME NEW m \in 1..(Len(q) - 1), NEW n \in 1..(Len(q) - 1), t[m] \in S, t[n] \in S
                 PROVE  m = n
      BY <1>1 DEF HasOne
    <3>1. m + 1 = n + 1
      BY <1>1, <1>3, <1>5 DEF HasOne
    <3> QED
      BY <3>1
  <2>2. ~(Has(t, S) /\ Head(q) \in S)
    BY <1>1, <1>3, <1>5 DEF Has, HasOne
  <2> QED
    BY <2>1, <2>2
<1>6. HooksOf(q) = HooksOf(t) \cup {Head(q).hook}
  <2>1. HooksOf(t) \cup {Head(q).hook} \subseteq HooksOf(q)
    <3>1. 1 \in 1..Len(q)
      BY <1>1
    <3>2. Head(q).hook \in HooksOf(q)
      BY <1>1, <3>1 DEF HooksOf
    <3>3. HooksOf(t) \subseteq HooksOf(q)
      BY <1>1, <1>3 DEF HooksOf
    <3> QED
      BY <3>2, <3>3
  <2>2. HooksOf(q) \subseteq HooksOf(t) \cup {Head(q).hook}
    <3> SUFFICES ASSUME NEW n \in 1..Len(q) PROVE q[n].hook \in HooksOf(t) \cup {Head(q).hook}
      BY <1>1 DEF HooksOf
    <3>1. CASE n = 1
      BY <1>1, <3>1
    <3>2. CASE n # 1
      BY <1>1, <1>2, <3>2 DEF HooksOf
    <3> QED
      BY <3>1, <3>2
  <2> QED
    BY <2>1, <2>2
<1> QED
  BY <1>1, <1>4, <1>5, <1>6 DEF t

\* An empty queue has nothing.
LEMMA HasEmpty ==
  ASSUME NEW S
  PROVE  ~Has(<<>>, S) /\ HasOne(<<>>, S) /\ HooksOf(<<>>) = {}
<1> DEFINE none == <<>>
<1>1. DOMAIN none = {}
  OBVIOUS
<1> HIDE DEF none
<1>2. ~Has(none, S) /\ HasOne(none, S) /\ HooksOf(none) = {}
  BY <1>1 DEF Has, HasOne, HooksOf
<1> QED
  BY <1>2 DEF none

\* What one queue after another has.
LEMMA HasConcat ==
  ASSUME NEW T, NEW p \in Seq(T), NEW q \in Seq(T), NEW S
  PROVE  /\ Has(p \o q, S) <=> Has(p, S) \/ Has(q, S)
         /\ HasOne(p, S) /\ HasOne(q, S) /\ ~(Has(p, S) /\ Has(q, S)) => HasOne(p \o q, S)
         /\ HooksOf(p \o q) = HooksOf(p) \cup HooksOf(q)
<1> DEFINE r == p \o q
<1>1. /\ Len(p) \in Nat /\ Len(q) \in Nat /\ DOMAIN p = 1..Len(p) /\ DOMAIN q = 1..Len(q)
      /\ DOMAIN r = 1..(Len(p) + Len(q))
      /\ \A n \in 1..(Len(p) + Len(q)) : r[n] = IF n <= Len(p) THEN p[n] ELSE q[n - Len(p)]
  BY ConcatProperties
<1> HIDE DEF r
<1>2. ASSUME NEW n \in 1..(Len(p) + Len(q))
      PROVE  \/ n \in 1..Len(p) /\ r[n] = p[n]
             \/ n - Len(p) \in 1..Len(q) /\ r[n] = q[n - Len(p)]
  BY <1>1
<1>3. ASSUME NEW n \in 1..Len(p) PROVE n \in 1..(Len(p) + Len(q)) /\ r[n] = p[n]
  BY <1>1
<1>4. ASSUME NEW n \in 1..Len(q)
      PROVE  n + Len(p) \in 1..(Len(p) + Len(q)) /\ r[n + Len(p)] = q[n]
  <2>1. n + Len(p) \in 1..(Len(p) + Len(q)) /\ ~(n + Len(p) <= Len(p)) /\ (n + Len(p)) - Len(p) = n
    BY <1>1
  <2> QED
    BY <1>1, <2>1
<1>5. Has(r, S) <=> Has(p, S) \/ Has(q, S)
  BY <1>1, <1>2, <1>3, <1>4 DEF Has
<1>6. ASSUME HasOne(p, S), HasOne(q, S), ~(Has(p, S) /\ Has(q, S)) PROVE HasOne(r, S)
  <2> SUFFICES ASSUME NEW m \in 1..(Len(p) + Len(q)), NEW n \in 1..(Len(p) + Len(q)),
                      r[m] \in S, r[n] \in S
               PROVE  m = n
    BY <1>1 DEF HasOne
  <2>1. CASE m \in 1..Len(p) /\ n \in 1..Len(p)
    BY <1>1, <1>3, <1>6, <2>1 DEF HasOne
  <2>2. CASE m - Len(p) \in 1..Len(q) /\ n - Len(p) \in 1..Len(q) /\ r[m] = q[m - Len(p)]
             /\ r[n] = q[n - Len(p)]
    <3>1. m - Len(p) = n - Len(p)
      BY <1>1, <1>6, <2>2 DEF HasOne
    <3> QED
      BY <1>1, <3>1
  <2>3. ASSUME Has(p, S), Has(q, S) PROVE FALSE
    BY <1>6, <2>3
  <2> QED
    BY <1>1, <1>2, <2>1, <2>2, <2>3 DEF Has
<1>7. HooksOf(r) = HooksOf(p) \cup HooksOf(q)
  <2>1. HooksOf(r) \subseteq HooksOf(p) \cup HooksOf(q)
    BY <1>1, <1>2 DEF HooksOf
  <2>2. HooksOf(p) \subseteq HooksOf(r)
    BY <1>1, <1>3 DEF HooksOf
  <2>3. HooksOf(q) \subseteq HooksOf(r)
    BY <1>1, <1>4 DEF HooksOf
  <2> QED
    BY <2>1, <2>2, <2>3
<1> QED
  BY <1>5, <1>6, <1>7 DEF r
-----------------------------------------------------------------------------
\* The master answers a request that waits for one with an answer of the same connection.
LEMMA ServeForms ==
  ASSUME IInv, Requests, Serve
  PROVE  /\ Requests' /\ Underway' \subseteq Underway
         /\ \E c \in Client : /\ Head(inbox) \in ChatRequests(c)
                              /\ owed' \in {<<>>, <<Reply_to(Head(inbox))>>}
<1> DEFINE m == Head(inbox)
<1>1. /\ inbox \in Seq(AnyRequest) /\ inbox # <<>> /\ inbox' = Tail(inbox)
      /\ owed = <<>> /\ owed' = Answers(Head(inbox)) /\ UNCHANGED <<replies, todo>>
  BY DEF Requests, Serve
<1>2. m \in AnyRequest /\ inbox' \in Seq(AnyRequest) /\ HooksOf(inbox) = HooksOf(inbox') \cup {m.hook}
  BY <1>1, HasTail
<1> HIDE DEF m
<1>3. PICK c \in Client : m \in ChatRequests(c)
  BY <1>2 DEF AnyRequest
<1>4. m \in Message /\ m.src = c
  BY <1>3, RequestKinds DEF SentBy
<1> DEFINE a == Reply_to(m)
<1>5. a.to = c /\ a.key = m.key /\ a.hook = m.hook
  BY <1>4 DEF Reply_to
<1>6. ASSUME m.hook # NoHook PROVE a \in ChatReplies(c)
  <2>1. m \in LoginRequests(c) \cup RoomRequests(c)
    BY <1>3, <1>6 DEF ChatRequests, CountRequests, LogoffRequestsOf
  <2>2. a \in Reply
    <3>1. Answers(m) \in Seq(Reply) /\ Answers(m) = <<a>>
      BY <1>4, <1>6, ReplyType DEF IInv, Answers
    <3> HIDE DEF a
    <3>2. Len(<<a>>) = 1 /\ <<a>>[1] = a
      OBVIOUS
    <3> QED
      BY <3>1, <3>2
  <2> HIDE DEF a
  <2> QED
    BY <1>5, <2>1, <2>2 DEF ChatReplies, LoginRequests, RoomRequests
<1>7. owed' = IF m.hook = NoHook THEN <<>> ELSE <<a>>
  BY <1>1 DEF m, Answers
<1> HIDE DEF a
<1>8. owed' \in Seq(AnyReply) /\ HooksOf(owed') \subseteq {m.hook}
  <2>1. CASE m.hook = NoHook
    BY <1>7, <2>1, HasEmpty
  <2>2. CASE m.hook # NoHook
    <3>1. a \in AnyReply
      BY <1>6, <2>2 DEF AnyReply
    <3>2. HooksOf(<<a>>) = {a.hook}
      BY DEF HooksOf
    <3> QED
      BY <1>5, <1>7, <2>2, <3>1, <3>2
  <2> QED
    BY <2>1, <2>2
<1>9. Requests'
  BY <1>1, <1>2, <1>8 DEF Requests
<1>10. Underway' \subseteq Underway
  BY <1>1, <1>2, <1>8 DEF Underway
<1> QED
  BY <1>3, <1>7, <1>9, <1>10 DEF m, a

\* A worker's request goes to the master's socket.
LEMMA SendForms ==
  ASSUME IInv, Requests, NEW c \in Client, Send(c)
  PROVE  /\ Requests' /\ Underway' \subseteq Underway
<1> DEFINE m == Head(todo[c])
<1>1. /\ inbox \in Seq(AnyRequest) /\ todo[c] \in Seq(ChatRequests(c)) /\ todo[c] # <<>>
      /\ inbox' = Append(inbox, m) /\ todo' = [todo EXCEPT ![c] = Tail(todo[c])]
      /\ UNCHANGED <<replies, owed>>
  BY DEF Requests, Send
<1>2. m \in ChatRequests(c) /\ Tail(todo[c]) \in Seq(ChatRequests(c))
      /\ HooksOf(todo[c]) = HooksOf(Tail(todo[c])) \cup {m.hook}
  BY <1>1, HasTail
<1> HIDE DEF m
<1>3. m \in AnyRequest
  BY <1>2 DEF AnyRequest
<1>4. inbox' \in Seq(AnyRequest) /\ HooksOf(inbox') = HooksOf(inbox) \cup {m.hook}
  <2>1. HooksOf(Append(inbox, m)) = HooksOf(inbox) \cup {m.hook}
    BY <1>1, <1>3, HasAppend
  <2> QED
    BY <1>1, <1>3, <2>1
<1>5. \A d \in Client : todo'[d] = IF d = c THEN Tail(todo[c]) ELSE todo[d]
  BY <1>1 DEF IInv, TypeOK
<1>6. Requests'
  BY <1>1, <1>2, <1>4, <1>5 DEF Requests
<1>7. \A d \in Client : HooksOf(todo'[d]) \subseteq HooksOf(todo[d])
  BY <1>2, <1>5
<1>8. m.hook \in HooksOf(todo[c])
  BY <1>2
<1>9. Underway' \subseteq Underway
  <2>1. HooksOf(todo[c]) \subseteq Underway
    BY DEF Underway
  <2>2. HooksOf(inbox') \subseteq Underway
    BY <1>4, <1>8, <2>1 DEF Underway
  <2>3. ASSUME NEW d \in Client PROVE HooksOf(todo'[d]) \cup HooksOf(replies'[d]) \subseteq Underway
    <3>1. HooksOf(todo[d]) \cup HooksOf(replies[d]) \subseteq Underway
      BY DEF Underway
    <3> QED
      BY <1>1, <1>7, <3>1
  <2>4. HooksOf(owed') \subseteq Underway
    BY <1>1 DEF Underway
  <2> QED
    BY <2>2, <2>3, <2>4 DEF Underway
<1> QED
  BY <1>6, <1>9

\* The master's answer goes to the worker's socket.
LEMMA SendReplyForms ==
  ASSUME IInv, Requests, SendReply
  PROVE  /\ Requests' /\ Underway' \subseteq Underway
         /\ \E c \in Client : /\ owed = <<owed[1]>> /\ owed[1] \in Reply /\ owed' = <<>>
                              /\ replies' = [replies EXCEPT ![c] = Append(replies[c], owed[1])]
<1> DEFINE a == owed[1]
           c == a.to
<1>1. /\ owed \in Seq(AnyReply) /\ owed # <<>> /\ Len(owed) <= 1 /\ owed' = <<>>
      /\ replies' = [replies EXCEPT ![a.to] = Append(replies[a.to], a)]
      /\ UNCHANGED <<inbox, todo>>
  BY DEF IInv, TypeOK, Requests, SendReply
<1>2. a \in AnyReply /\ owed = <<a>>
  <2> DEFINE n == Len(owed)
  <2>1. n \in Nat \ {0} /\ n <= 1
    BY <1>1, EmptySeq
  <2> HIDE DEF n
  <2>2. n = 1
    BY <2>1
  <2>3. a \in AnyReply /\ Len(owed) = 1 /\ owed[1] = a
    BY <1>1, <2>2 DEF n
  <2> HIDE DEF a
  <2>4. <<a>> \in Seq(AnyReply) /\ Len(<<a>>) = 1 /\ <<a>>[1] = a
    BY <2>3
  <2> QED
    BY <1>1, <2>3, <2>4, SeqEqual
<1>3. a.to \in Client /\ a \in ChatReplies(a.to) /\ a \in Reply
  BY <1>2 DEF AnyReply, ChatReplies
<1>4. HooksOf(owed) = {a.hook}
  <2>1. DOMAIN owed = {1}
    BY <1>2
  <2> QED
    BY <2>1 DEF HooksOf
<1> HIDE DEF a
<1>5. /\ replies[c] \in Seq(ChatReplies(c))
      /\ \A d \in Client : replies'[d] = IF d = c THEN Append(replies[c], a) ELSE replies[d]
  BY <1>1, <1>3 DEF IInv, TypeOK, Requests
<1>6. HooksOf(replies'[c]) = HooksOf(replies[c]) \cup {a.hook}
  <2>1. HooksOf(Append(replies[c], a)) = HooksOf(replies[c]) \cup {a.hook}
    BY <1>3, <1>5, HasAppend
  <2> QED
    BY <1>3, <1>5, <2>1
<1>7. Requests'
  BY <1>1, <1>3, <1>5 DEF Requests
<1>8. HooksOf(owed') = {}
  BY <1>1, HasEmpty
<1>9. \A d \in Client : HooksOf(replies'[d]) \subseteq HooksOf(replies[d]) \cup HooksOf(owed)
  BY <1>4, <1>5, <1>6
<1>10. Underway' \subseteq Underway
  BY <1>1, <1>8, <1>9 DEF Underway
<1> QED
  BY <1>1, <1>2, <1>3, <1>7, <1>10 DEF a
-----------------------------------------------------------------------------
\* What a queue of one element has.
LEMMA HasSingle ==
  ASSUME NEW e, NEW S
  PROVE  (Has(<<e>>, S) <=> e \in S) /\ HasOne(<<e>>, S) /\ HooksOf(<<e>>) = {e.hook}
<1> DEFINE q == <<e>>
<1>1. DOMAIN q = {1} /\ q[1] = e
  OBVIOUS
<1> HIDE DEF q
<1>2. (Has(q, S) <=> e \in S) /\ HasOne(q, S) /\ HooksOf(q) = {e.hook}
  BY <1>1 DEF Has, HasOne, HooksOf
<1> QED
  BY <1>2 DEF q

\* The database locks a name that nobody claims, and frees one that is given back.
LEMMA ServeLocks ==
  ASSUME IInv, Requests, Serve, UNCHANGED chat, NEW n \in Name, Locked(n)
  PROVE  Locked(n)'
<1> DEFINE m == Head(inbox)
           a == Reply_to(m)
           U == Unsets(n)
           G == Grants(n)
<1>1. PICK c \in Client : m \in ChatRequests(c) /\ owed' \in {<<>>, <<a>>}
  BY ServeForms
<1>2. /\ inbox \in Seq(AnyRequest) /\ inbox # <<>> /\ inbox' = Tail(inbox) /\ owed = <<>>
      /\ owed' = Answers(m) /\ UNCHANGED <<replies, todo>> /\ db \in [Key -> Content]
      /\ db' = IF Stored(m) THEN [db EXCEPT ![m.key] = m.newval] ELSE db
  BY DEF Requests, Serve, IInv, TypeOK
<1>3. /\ Has(inbox, U) <=> Has(inbox', U) \/ m \in U
      /\ HasOne(inbox, U) => HasOne(inbox', U) /\ ~(Has(inbox', U) /\ m \in U)
  BY <1>2, HasTail
<1> HIDE DEF m
<1>4. m \in Message /\ m.key \in Key /\ n \in Key
  BY <1>1, RequestKinds, Constants DEF Message
<1>5. a.key = m.key /\ (a.success <=> m.op = "get" \/ Stored(m))
  BY DEF Reply_to
<1> HIDE DEF a
<1>6. ~Has(owed, G)
  BY <1>2, HasEmpty
<1>7. (Has(owed', G) => owed' = <<a>> /\ a \in G) /\ HasOne(owed', G)
  BY <1>1, HasEmpty, HasSingle
<1>8. /\ \A o \in Conn : Bears(o, n)' <=> Bears(o, n)
      /\ BorneBy(n)' <=> BorneBy(n)
      /\ GivenBack(n)' <=> GivenBack(n)
      /\ Granted(n)' <=> Granted(n)
  BY <1>2 DEF Bears, BorneBy, GivenBack, Granted
<1>9. CASE m \in U
  <2>1. m.op = "unset" /\ m.key = n /\ m.hook = NoHook
    BY <1>1, <1>9 DEF U, Unsets, ChatRequests, LoginRequests, RoomRequests, CountRequests,
                      LogoffRequestsOf
  <2>2. owed' = <<>>
    BY <1>2, <2>1 DEF Answers
  <2>3. ~Has(owed', G)
    BY <2>2, HasEmpty
  <2>4. Has(inbox, U) /\ ~Has(inbox', U)
    BY <1>3, <1>9 DEF Locked, ClaimedOnce
  <2>5. ~Claimed(n)' /\ ClaimedOnce(n)'
    BY <1>2, <1>3, <1>7, <1>8, <2>3, <2>4 DEF Locked, ClaimedOnce, Claimed
  <2> QED
    BY <2>5 DEF Locked
<1>10. CASE m.key # n
  <2>1. m \notin U /\ a \notin G
    BY <1>5, <1>10 DEF U, Unsets, G, Grants
  <2>2. db'[n] = db[n]
    BY <1>2, <1>4, <1>10
  <2>3. ClaimedOnce(n)' /\ (Claimed(n)' => Claimed(n))
    BY <1>2, <1>3, <1>6, <1>7, <1>8, <2>1 DEF Locked, ClaimedOnce, Claimed
  <2> QED
    BY <2>2, <2>3 DEF Locked
<1>11. CASE m.key = n /\ m \notin U
  <2>1. m \in LoginRequests(c)
    BY <1>1, <1>4, <1>11, Constants DEF U, Unsets, ChatRequests, RoomRequests, CountRequests,
                                   LogoffRequestsOf
  <2>2. m.op = "sin" /\ m.newval # NoValue /\ m.oldval = NoValue
    BY <2>1 DEF LoginRequests
  <2>3. Stored(m) <=> db[n] = NoValue
    BY <1>11, <2>2 DEF Stored, Matches
  <2>4. CASE db[n] = NoValue
    <3>1. ~Claimed(n)
      BY <2>4 DEF Locked
    <3>2. db'[n] # NoValue
      BY <1>2, <1>4, <1>11, <2>2, <2>3, <2>4
    <3>3. ClaimedOnce(n)'
      BY <1>2, <1>3, <1>7, <1>8, <3>1 DEF Locked, ClaimedOnce, Claimed
    <3> QED
      BY <3>2, <3>3 DEF Locked
  <2>5. CASE db[n] # NoValue
    <3>1. ~a.success /\ db' = db
      BY <1>2, <1>5, <2>2, <2>3, <2>5
    <3>2. a \notin G
      BY <3>1 DEF G, Grants
    <3>3. ClaimedOnce(n)' /\ (Claimed(n)' => Claimed(n))
      BY <1>2, <1>3, <1>6, <1>7, <1>8, <1>11, <3>2 DEF Locked, ClaimedOnce, Claimed
    <3> QED
      BY <3>1, <3>3 DEF Locked
  <2> QED
    BY <2>4, <2>5
<1> QED
  BY <1>9, <1>10, <1>11

\* A request that gives a name back is sent on.
LEMMA SendLocks ==
  ASSUME IInv, Requests, NEW c \in Client, Send(c), UNCHANGED chat, NEW n \in Name, Locked(n)
  PROVE  Locked(n)'
<1> DEFINE m == Head(todo[c])
           U == Unsets(n)
           G == Grants(n)
<1>1. /\ inbox \in Seq(AnyRequest) /\ todo[c] \in Seq(ChatRequests(c)) /\ todo[c] # <<>>
      /\ inbox' = Append(inbox, m) /\ todo' = [todo EXCEPT ![c] = Tail(todo[c])]
      /\ UNCHANGED <<db, replies, owed>>
      /\ \A d \in Client : todo'[d] = IF d = c THEN Tail(todo[c]) ELSE todo[d]
  BY DEF Requests, Send, IInv, TypeOK
<1>2. /\ m \in ChatRequests(c)
      /\ Has(todo[c], U) <=> Has(Tail(todo[c]), U) \/ m \in U
      /\ HasOne(todo[c], U) => HasOne(Tail(todo[c]), U) /\ ~(Has(Tail(todo[c]), U) /\ m \in U)
  BY <1>1, HasTail
<1> HIDE DEF m
<1>3. m \in AnyRequest
  BY <1>2 DEF AnyRequest
<1>4. /\ Has(Append(inbox, m), U) <=> Has(inbox, U) \/ m \in U
      /\ HasOne(inbox, U) /\ ~(Has(inbox, U) /\ m \in U) => HasOne(Append(inbox, m), U)
  BY <1>1, <1>3, HasAppend
<1>5. /\ Has(inbox', U) <=> Has(inbox, U) \/ m \in U
      /\ HasOne(inbox, U) /\ ~(Has(inbox, U) /\ m \in U) => HasOne(inbox', U)
  BY <1>1, <1>4
<1>6. /\ Has(todo'[c], U) <=> Has(Tail(todo[c]), U)
      /\ HasOne(todo'[c], U) <=> HasOne(Tail(todo[c]), U)
      /\ \A d \in Client \ {c} : todo'[d] = todo[d]
  BY <1>1
<1>7. /\ \A o \in Conn : Bears(o, n)' <=> Bears(o, n)
      /\ BorneBy(n)' <=> BorneBy(n)
      /\ Granted(n)' <=> Granted(n)
  BY <1>1 DEF Bears, BorneBy, Granted
<1>8. CASE m \in U
  <2>1. Has(todo[c], U) /\ ~Has(inbox, U) /\ ~Has(todo'[c], U) /\ HasOne(todo'[c], U)
        /\ GivenBack(n)
    BY <1>2, <1>6, <1>8 DEF Locked, ClaimedOnce, GivenBack
  <2>2. \A d \in Client : ~Has(todo'[d], U) /\ HasOne(todo'[d], U)
    BY <1>6, <2>1 DEF Locked, ClaimedOnce
  <2>3. Has(inbox', U) /\ HasOne(inbox', U) /\ ~GivenBack(n)' /\ ~BorneBy(n)
        /\ ~Has(owed, G) /\ ~Granted(n)
    BY <1>5, <1>8, <2>1, <2>2 DEF Locked, ClaimedOnce, GivenBack
  <2>4. ClaimedOnce(n)'
    BY <1>1, <1>7, <2>2, <2>3 DEF Locked, ClaimedOnce
  <2>5. Claimed(n)
    BY <2>1 DEF Claimed
  <2> QED
    BY <1>1, <2>4, <2>5 DEF Locked
<1>9. CASE m \notin U
  <2>1. /\ Has(inbox', U) <=> Has(inbox, U)
        /\ HasOne(inbox', U)
        /\ \A d \in Client : (Has(todo'[d], U) <=> Has(todo[d], U)) /\ HasOne(todo'[d], U)
    BY <1>2, <1>5, <1>6, <1>9 DEF Locked, ClaimedOnce
  <2>2. GivenBack(n)' <=> GivenBack(n)
    BY <2>1 DEF GivenBack
  <2>3. ClaimedOnce(n)' /\ (Claimed(n)' => Claimed(n))
    BY <1>1, <1>7, <2>1, <2>2 DEF Locked, ClaimedOnce, Claimed
  <2> QED
    BY <1>1, <2>3 DEF Locked
<1> QED
  BY <1>8, <1>9

\* An answer that grants a name is sent on.
LEMMA SendReplyLocks ==
  ASSUME IInv, Requests, SendReply, UNCHANGED chat, NEW n \in Name, Locked(n)
  PROVE  Locked(n)'
<1> DEFINE a == owed[1]
           U == Unsets(n)
           G == Grants(n)
<1>1. PICK c \in Client : /\ owed = <<a>> /\ a \in Reply /\ owed' = <<>>
                          /\ replies' = [replies EXCEPT ![c] = Append(replies[c], a)]
  BY SendReplyForms
<1>2. /\ UNCHANGED <<db, inbox, todo>> /\ replies[c] \in Seq(Reply)
      /\ \A d \in Client : replies'[d] = IF d = c THEN Append(replies[c], a) ELSE replies[d]
  BY <1>1 DEF SendReply, IInv, TypeOK
<1> HIDE DEF a
<1>3. (Has(owed, G) <=> a \in G) /\ ~Has(owed', G) /\ HasOne(owed', G)
  BY <1>1, HasSingle, HasEmpty
<1>4. /\ Has(Append(replies[c], a), G) <=> Has(replies[c], G) \/ a \in G
      /\ HasOne(replies[c], G) /\ ~(Has(replies[c], G) /\ a \in G) => HasOne(Append(replies[c], a), G)
  BY <1>1, <1>2, HasAppend
<1>5. /\ Has(replies'[c], G) <=> Has(replies[c], G) \/ a \in G
      /\ HasOne(replies[c], G) /\ ~(Has(replies[c], G) /\ a \in G) => HasOne(replies'[c], G)
      /\ \A d \in Client \ {c} : replies'[d] = replies[d]
  BY <1>2, <1>4
<1>6. /\ \A o \in Conn : Bears(o, n)' <=> Bears(o, n)
      /\ BorneBy(n)' <=> BorneBy(n)
      /\ GivenBack(n)' <=> GivenBack(n)
  BY <1>2 DEF Bears, BorneBy, GivenBack
<1>7. CASE a \in G
  <2>1. Has(owed, G) /\ \A d \in Client : ~Has(replies[d], G) /\ HasOne(replies[d], G)
    BY <1>3, <1>7 DEF Locked, ClaimedOnce, Granted
  <2>2. /\ Has(replies'[c], G) /\ \A d \in Client \ {c} : ~Has(replies'[d], G)
        /\ \A d \in Client : HasOne(replies'[d], G)
    BY <1>5, <1>7, <2>1
  <2>3. ~BorneBy(n) /\ ~Has(inbox, U) /\ ~GivenBack(n) /\ Claimed(n)
    BY <2>1 DEF Locked, ClaimedOnce, Claimed
  <2>4. ClaimedOnce(n)'
    BY <1>2, <1>3, <1>6, <2>2, <2>3 DEF Locked, ClaimedOnce
  <2> QED
    BY <1>2, <2>3, <2>4 DEF Locked
<1>8. CASE a \notin G
  <2>1. \A d \in Client : (Has(replies'[d], G) <=> Has(replies[d], G)) /\ HasOne(replies'[d], G)
    BY <1>5, <1>8 DEF Locked, ClaimedOnce
  <2>2. Granted(n)' <=> Granted(n)
    BY <2>1 DEF Granted
  <2>3. ClaimedOnce(n)' /\ (Claimed(n)' => Claimed(n))
    BY <1>2, <1>3, <1>6, <2>1, <2>2 DEF Locked, ClaimedOnce, Claimed
  <2> QED
    BY <1>2, <2>3 DEF Locked
<1> QED
  BY <1>7, <1>8
-----------------------------------------------------------------------------
\* A handler of worker w: it asks for q, and may be the callback of an answer.
Does(w, q) ==
  /\ todo[w] = <<>> /\ todo' = [todo EXCEPT ![w] = q] /\ UNCHANGED <<db, inbox, owed>>
  /\ \/ replies' = replies
     \/ replies[w] # <<>> /\ replies' = [replies EXCEPT ![w] = Tail(replies[w])]

\* It is the callback of an answer that grants name n.
Hears(w, n) ==
  /\ replies[w] # <<>> /\ replies' = [replies EXCEPT ![w] = Tail(replies[w])]
  /\ Head(replies[w]) \in Grants(n)

\* It takes name n for one user, from such an answer, and asks once to give it back if
\* it is then nobody's.
Hands(w, q, n) ==
  /\ HasOne(q, Unsets(n)) /\ (Has(q, Unsets(n)) => BorneBy(n) /\ ~BorneBy(n)')
  /\ \A o \in Conn : Bears(o, n)' => Bears(o, n) \/ Hears(w, n)
  /\ \A o, p \in Conn : Bears(o, n)' /\ Bears(p, n)' /\ ~Bears(o, n) /\ ~Bears(p, n) => o = p

\* What a handler leaves is of the kinds there are.
LEMMA DoesForms ==
  ASSUME IInv, Requests, NEW w \in Client, NEW q \in Seq(ChatRequests(w)), Does(w, q)
  PROVE  IInv' /\ Requests' /\ Underway' \subseteq Underway \cup HooksOf(q)
<1>1. /\ \A c \in Client : todo'[c] = IF c = w THEN q ELSE todo[c]
      /\ todo' \in [Client -> Seq(Message)]
      /\ UNCHANGED <<db, inbox, owed>>
      /\ q \in Seq(SentBy(w))
  <2>1. q \in Seq(SentBy(w)) /\ q \in Seq(Message)
    <3>1. ChatRequests(w) \subseteq SentBy(w) /\ ChatRequests(w) \subseteq Message
      BY RequestKinds
    <3> QED
      BY <3>1, SeqMonotonic
  <2> QED
    BY <2>1 DEF Does, IInv, TypeOK
<1>2. ASSUME NEW c \in Client
      PROVE  /\ replies'[c] \in Seq(ChatReplies(c)) /\ replies'[c] \in Seq(Reply)
             /\ Len(replies'[c]) <= Capacity /\ HooksOf(replies'[c]) \subseteq HooksOf(replies[c])
  <2>1. replies[c] \in Seq(ChatReplies(c)) /\ replies[c] \in Seq(Reply) /\ Len(replies[c]) <= Capacity
    BY DEF IInv, TypeOK, Requests
  <2>2. CASE replies'[c] = replies[c]
    BY <2>1, <2>2
  <2>3. CASE replies[c] # <<>> /\ replies'[c] = Tail(replies[c])
    <3> DEFINE t == Tail(replies[c])
    <3>1. /\ t \in Seq(ChatReplies(c)) /\ t \in Seq(Reply) /\ Len(t) = Len(replies[c]) - 1
          /\ Len(replies[c]) \in Nat /\ Len(replies[c]) # 0
      BY <2>1, <2>3
    <3>2. HooksOf(replies[c]) = HooksOf(t) \cup {Head(replies[c]).hook}
      BY <2>1, <2>3, HasTail
    <3>3. replies'[c] = t
      BY <2>3
    <3> HIDE DEF t
    <3>4. Len(t) <= Capacity
      BY <2>1, <3>1, AsyncDbAssumption
    <3> QED
      BY <3>1, <3>2, <3>3, <3>4
  <2>4. replies \in [Client -> Seq(Reply)]
    BY DEF IInv, TypeOK
  <2> QED
    BY <2>2, <2>3, <2>4 DEF Does
<1>3. replies' \in [Client -> Seq(Reply)]
  <2>1. DOMAIN replies' = Client /\ replies' = [c \in Client |-> replies'[c]]
    BY DEF IInv, TypeOK, Does
  <2> QED
    BY <1>2, <2>1
<1>4. IInv'
  <2>1. OwnRequests'
    BY <1>1 DEF IInv, OwnRequests, SentBy
  <2> QED
    BY <1>1, <1>2, <1>3, <2>1 DEF IInv, TypeOK
<1>5. Requests'
  BY <1>1, <1>2 DEF Requests
<1>6. Underway' \subseteq Underway \cup HooksOf(q)
  <2>1. ASSUME NEW c \in Client
        PROVE  HooksOf(todo'[c]) \cup HooksOf(replies'[c]) \subseteq Underway \cup HooksOf(q)
    <3>1. HooksOf(todo[c]) \cup HooksOf(replies[c]) \subseteq Underway
      BY DEF Underway
    <3> QED
      BY <1>1, <1>2, <3>1
  <2>2. HooksOf(inbox') \cup HooksOf(owed') \subseteq Underway
    BY <1>1 DEF Underway
  <2> QED
    BY <2>1, <2>2 DEF Underway
<1> QED
  BY <1>4, <1>5, <1>6

\* A handler takes a name for one user from the answer that grants it, and asks to give
\* back a name that is nobody's afterwards.
LEMMA DoesLocks ==
  ASSUME IInv, Requests, NEW w \in Client, NEW q \in Seq(ChatRequests(w)), Does(w, q),
         NEW n \in Name, Locked(n), Hands(w, q, n)
  PROVE  Locked(n)'
<1> DEFINE U == Unsets(n)
           G == Grants(n)
<1>0. /\ HasOne(q, U) /\ (Has(q, U) => BorneBy(n) /\ ~BorneBy(n)')
      /\ \A o \in Conn : Bears(o, n)' => Bears(o, n) \/ Hears(w, n)
      /\ \A o, p \in Conn : Bears(o, n)' /\ Bears(p, n)' /\ ~Bears(o, n) /\ ~Bears(p, n) => o = p
  BY DEF Hands
<1>1. /\ todo[w] = <<>> /\ \A c \in Client : todo'[c] = IF c = w THEN q ELSE todo[c]
      /\ UNCHANGED <<db, inbox, owed>>
  BY DEF Does, IInv, TypeOK
<1>2. ~Has(todo[w], U)
  BY <1>1, HasEmpty
<1>3. /\ \A c \in Client : HasOne(todo'[c], U)
      /\ \A c \in Client : Has(todo'[c], U) <=> IF c = w THEN Has(q, U) ELSE Has(todo[c], U)
      /\ GivenBack(n)' <=> GivenBack(n) \/ Has(q, U)
  <2>1. /\ \A c \in Client : HasOne(todo'[c], U)
        /\ \A c \in Client : Has(todo'[c], U) <=> IF c = w THEN Has(q, U) ELSE Has(todo[c], U)
    BY <1>0, <1>1 DEF Locked, ClaimedOnce
  <2> QED
    BY <1>2, <2>1 DEF GivenBack
<1>4. Has(q, U) => ~GivenBack(n) /\ ~Has(inbox, U) /\ ~Has(owed, G) /\ ~Granted(n) /\ ~BorneBy(n)'
  BY <1>0 DEF Locked, ClaimedOnce
<1>5. CASE Hears(w, n)
  <2>1. /\ replies[w] \in Seq(Reply) /\ replies[w] # <<>> /\ Head(replies[w]) \in G
        /\ \A c \in Client : replies'[c] = IF c = w THEN Tail(replies[w]) ELSE replies[c]
    BY <1>5 DEF Hears, IInv, TypeOK
  <2>2. /\ Has(replies[w], G) <=> Has(Tail(replies[w]), G) \/ Head(replies[w]) \in G
        /\ HasOne(replies[w], G) =>
             HasOne(Tail(replies[w]), G) /\ ~(Has(Tail(replies[w]), G) /\ Head(replies[w]) \in G)
    BY <2>1, HasTail
  <2>3. ~Has(replies'[w], G) /\ HasOne(replies'[w], G) /\ Granted(n)
    <3>1. HasOne(replies[w], G)
      BY DEF Locked, ClaimedOnce
    <3>2. Granted(n)
      BY <2>1, <2>2 DEF Granted
    <3> QED
      BY <2>1, <2>2, <3>1, <3>2
  <2>4. ASSUME NEW c \in Client PROVE ~Has(replies'[c], G) /\ HasOne(replies'[c], G)
    <3>1. CASE c = w
      BY <2>3, <3>1
    <3>2. CASE c # w
      <4>1. HasOne(replies[c], G) /\ ~Has(replies[c], G) /\ replies'[c] = replies[c]
        BY <2>1, <2>2, <3>2 DEF Locked, ClaimedOnce
      <4> QED
        BY <4>1
    <3> QED
      BY <3>1, <3>2
  <2>5. ~Granted(n)' /\ ~BorneBy(n) /\ ~Has(inbox, U) /\ ~GivenBack(n) /\ ~Has(owed, G) /\ ~Has(q, U)
    BY <1>4, <2>3, <2>4 DEF Locked, ClaimedOnce, Granted
  <2>6. \A o, p \in Conn : Bears(o, n)' /\ Bears(p, n)' => o = p
    BY <1>0, <2>5 DEF BorneBy
  <2>7. ClaimedOnce(n)'
    BY <1>1, <1>3, <2>4, <2>5, <2>6 DEF Locked, ClaimedOnce
  <2>8. db[n] # NoValue
    BY <2>3 DEF Locked, Claimed
  <2> QED
    BY <1>1, <2>7, <2>8 DEF Locked
<1>6. CASE ~Hears(w, n)
  <2>1. ASSUME NEW c \in Client
        PROVE  (Has(replies'[c], G) <=> Has(replies[c], G)) /\ HasOne(replies'[c], G)
    <3>1. HasOne(replies[c], G) /\ replies \in [Client -> Seq(Reply)]
      BY DEF Locked, ClaimedOnce, IInv, TypeOK
    <3>2. CASE replies'[c] = replies[c]
      BY <3>1, <3>2
    <3>3. CASE c = w /\ replies[w] # <<>> /\ replies' = [replies EXCEPT ![w] = Tail(replies[w])]
      <4>1. replies'[w] = Tail(replies[w]) /\ Head(replies[w]) \notin G
        BY <1>6, <3>1, <3>3 DEF Hears
      <4>2. /\ Has(replies[w], G) <=> Has(Tail(replies[w]), G) \/ Head(replies[w]) \in G
            /\ HasOne(replies[w], G) => HasOne(Tail(replies[w]), G)
        BY <3>1, <3>3, HasTail
      <4> QED
        BY <3>1, <3>3, <4>1, <4>2
    <3> QED
      BY <3>1, <3>2, <3>3 DEF Does
  <2>2. Granted(n)' <=> Granted(n)
    BY <2>1 DEF Granted
  <2>3. (BorneBy(n)' => BorneBy(n)) /\ \A o \in Conn : Bears(o, n)' => Bears(o, n)
    BY <1>0, <1>6 DEF BorneBy
  <2>4. ClaimedOnce(n)'
    <3>1. ASSUME NEW c \in Client, NEW d \in Client, Has(todo'[c], U), Has(todo'[d], U) PROVE c = d
      BY <1>2, <1>3, <1>4, <3>1 DEF Locked, ClaimedOnce, GivenBack
    <3>2. \A o, p \in Conn : Bears(o, n)' /\ Bears(p, n)' => o = p
      BY <2>3 DEF Locked, ClaimedOnce
    <3>3. BorneBy(n)' => BorneBy(n) /\ ~Has(q, U)
      BY <1>0, <2>3
    <3> QED
      BY <1>1, <1>3, <1>4, <2>1, <2>2, <3>1, <3>2, <3>3 DEF Locked, ClaimedOnce
  <2>5. Claimed(n)' => Claimed(n)
    BY <1>0, <1>1, <1>3, <2>2, <2>3 DEF Claimed
  <2> QED
    BY <1>1, <2>4, <2>5 DEF Locked
<1> QED
  BY <1>5, <1>6
-----------------------------------------------------------------------------
\* A request about the count of a room is its owner's.
LEMMA CountRequestOwned ==
  ASSUME NEW c \in Client, NEW m \in ChatRequests(c), NEW r \in Room, m.key = UserKey[r]
  PROVE  Owner[r] = c /\ m.hook = NoHook
<1>1. m \in CountRequests(c)
  BY Constants DEF ChatRequests, LoginRequests, RoomRequests, LogoffRequestsOf
<1> QED
  BY <1>1, Constants DEF CountRequests

\* The messages move on, or the master serves one, and the chats are as they were.
LEMMA TransportKeeps ==
  ASSUME ChatInv, Transport, UNCHANGED chatVars
  PROVE  ChatInv'
<1>0. UNCHANGED <<chat, raw, quiting, closing, crashed, moves>>
  BY DEF chatVars
<1>1. IInv
  <2>1. \A c \in Client : todo[c] \in Seq(SentBy(c))
    BY RequestKinds, SeqMonotonic DEF ChatInv, Requests
  <2> QED
    BY <2>1 DEF ChatInv, ChatTypeOK, IInv, OwnRequests
<1>2. IInv' /\ TypeOK'
  BY <1>1, TransportType DEF IInv
<1>3. Requests' /\ Underway' \subseteq Underway
  BY <1>1, ServeForms, SendForms, SendReplyForms DEF ChatInv, Transport
<1>4. ChatTypeOK' /\ Commands' /\ Rooms'
  BY <1>0, <1>2 DEF ChatInv, ChatTypeOK, UnusedAt, Commands, Rooms, Users
<1>5. ASSUME NEW o \in Conn PROVE Object(o)' /\ Asks(o)'
  <2>1. Object(o)'
    BY <1>0 DEF ChatInv, Object
  <2>2. Asks(o)'
    BY <1>0, <1>3 DEF ChatInv, Asks
  <2> QED
    BY <2>1, <2>2
<1>6. ASSUME NEW n \in Name, Locked(n) PROVE Locked(n)'
  BY <1>0, <1>1, <1>6, ServeLocks, SendLocks, SendReplyLocks DEF ChatInv, Transport
<1>7. Names'
  BY <1>0, <1>6 DEF ChatInv, Names
<1>8. ASSUME NEW r \in Room
      PROVE  Way(UserKey[r], Owner[r], Full(Cardinality(Users(r))))'
  <2>1. PICK w : w = Full(Cardinality(Users(r))) /\ w = Full(Cardinality(Users(r)'))
    BY <1>0 DEF Users
  <2>2. Way(UserKey[r], Owner[r], w) /\ UserKey[r] \in Key /\ Owner[r] \in Client
    BY <2>1, Constants DEF ChatInv, Counts
  <2>3. CASE Serve
    BY <1>1, <2>1, <2>2, <2>3, ServeWay
  <2>4. CASE SendReply
    BY <2>1, <2>2, <2>4 DEF SendReply, Way
  <2>5. ASSUME NEW d \in Client, Send(d) PROVE Way(UserKey[r], Owner[r], w)'
    <3>1. todo[d] \in Seq(ChatRequests(d)) /\ todo[d] # <<>>
      BY <2>5 DEF ChatInv, Requests, Send
    <3>2. Head(todo[d]) \in ChatRequests(d)
      BY <3>1
    <3>3. d # Owner[r] => Head(todo[d]).key # UserKey[r]
      BY <3>2, CountRequestOwned
    <3> QED
      BY <1>1, <2>2, <2>5, <3>3, SendWay
  <2> QED
    BY <2>1, <2>3, <2>4, <2>5 DEF Transport
<1> QED
  BY <1>3, <1>4, <1>5, <1>7, <1>8 DEF ChatInv, Counts

\* What a handler leaves of the sockets that are passed on.
Passes ==
  /\ raw' \in [Client -> Seq(Command)] /\ Commands'
  /\ \A c \in Client : Len(raw'[c]) <= Cardinality(UnusedAt(c)')
  /\ moves' \in 0..MaxMoves
  /\ moves' = 0 => moves = 0 /\ \A c \in Client : raw'[c] \in Seq({WelcomeCommand})

\* What it leaves of object o, and of the rooms, when it asks for q.
Stays(o, q) ==
  /\ Object(o)'
  /\ chat[o].life # "none" => chat'[o].life # "none"
  /\ LoggedIn(chat[o]) \/ Leaves(chat[o]) => LoggedIn(chat'[o]) \/ Leaves(chat'[o])
  /\ LoginHook[o] \in HooksOf(q) => chat'[o].life # "none"
  /\ RoomHook[o] \in HooksOf(q) => chat'[o].life # "none" /\ (LoggedIn(chat'[o]) \/ Leaves(chat'[o]))
Counted(w, q) ==
  \A r \in Room :
    /\ Cardinality(Users(r)') <= MaxUsers
    /\ IF Owner[r] = w
       THEN Leads(q, UserKey[r], Full(Cardinality(Users(r))), Full(Cardinality(Users(r)')))
       ELSE Users(r)' = Users(r)

\* What a handler must do: leave every object proper, and those who ask able to hear;
\* ask for the change of the counts that it makes, and give back only the names that
\* nobody bears any more.
LEMMA HandlerKeeps ==
  ASSUME ChatInv, NEW w \in Client, NEW q \in Seq(ChatRequests(w)), Does(w, q),
         chat' \in [Conn -> Chat], quiting' \cup crashed' \subseteq Client, closing' \in BOOLEAN,
         Passes, \A o \in Conn : Stays(o, q), Counted(w, q),
         moves' = 0 => \A n \in Name : Hands(w, q, n)
  PROVE  ChatInv'
<1>1. IInv
  <2>1. \A c \in Client : todo[c] \in Seq(SentBy(c))
    BY RequestKinds, SeqMonotonic DEF ChatInv, Requests
  <2> QED
    BY <2>1 DEF ChatInv, ChatTypeOK, IInv, OwnRequests
<1>2. IInv' /\ TypeOK' /\ Requests' /\ Underway' \subseteq Underway \cup HooksOf(q)
  BY <1>1, DoesForms DEF ChatInv, IInv
<1>3. ChatTypeOK' /\ Commands'
  BY <1>2 DEF ChatTypeOK, Passes
<1>4. ASSUME NEW o \in Conn PROVE Asks(o)'
  <2>1. Asks(o) /\ Stays(o, q)
    BY DEF ChatInv
  <2> QED
    BY <1>2, <2>1 DEF Asks, Stays
<1>5. ASSUME NEW n \in Name, moves' = 0 PROVE Locked(n)'
  <2>1. Locked(n)
    BY <1>5 DEF ChatInv, Names, Passes
  <2>2. Hands(w, q, n)
    BY <1>5
  <2>3. Requests
    BY DEF ChatInv
  <2> QED
    BY <1>1, <2>1, <2>2, <2>3, DoesLocks
<1>6. Names'
  BY <1>5 DEF Names, Passes
<1>7. ASSUME NEW r \in Room
      PROVE  Way(UserKey[r], Owner[r], Full(Cardinality(Users(r))))'
  <2>1. PICK v, x : v = Full(Cardinality(Users(r))) /\ x = Full(Cardinality(Users(r)'))
    OBVIOUS
  <2>2. Way(UserKey[r], Owner[r], v) /\ UserKey[r] \in Key /\ Owner[r] \in Client
    BY <2>1, Constants DEF ChatInv, Counts
  <2>3. IF w = Owner[r] THEN Leads(q, UserKey[r], v, x) ELSE x = v
    BY <2>1 DEF Counted
  <2>4. /\ todo[w] = <<>> /\ todo' = [todo EXCEPT ![w] = q] /\ UNCHANGED <<db, inbox>>
        /\ q \in Seq(Message)
    <3>1. ChatRequests(w) \subseteq Message
      BY RequestKinds
    <3> QED
      BY <3>1, SeqMonotonic DEF Does
  <2>5. Way(UserKey[r], Owner[r], x)'
    BY <1>1, <2>2, <2>3, <2>4, AskWay
  <2> QED
    BY <2>1, <2>5
<1>8. Rooms'
  BY DEF Rooms, Counted
<1>9. \A o \in Conn : Object(o)'
  BY DEF Stays
<1> QED
  BY <1>9, <1>2, <1>3, <1>4, <1>6, <1>7, <1>8 DEF ChatInv, Counts
-----------------------------------------------------------------------------
\* The requests under way are among those the database knows.
LEMMA ChatIInv ==
  ASSUME ChatInv
  PROVE  IInv
<1>1. \A c \in Client : todo[c] \in Seq(SentBy(c))
  BY RequestKinds, SeqMonotonic DEF ChatInv, Requests
<1> QED
  BY <1>1 DEF ChatInv, ChatTypeOK, IInv, OwnRequests

\* A room's users, when one object changes.
LEMMA UsersChange ==
  ASSUME NEW o \in Conn, NEW x, chat \in [Conn -> Chat], chat' = [chat EXCEPT ![o] = x],
         NEW r \in Room
  PROVE  /\ Users(r)' = IF x.room = r THEN Users(r) \cup {o} ELSE Users(r) \ {o}
         /\ o \in Users(r) <=> chat[o].room = r
BY DEF Users

\* The number of a room's users, with one more and one less.
LEMMA UsersCount ==
  ASSUME NEW o \in Conn, NEW r \in Room
  PROVE  /\ Cardinality(Users(r)) \in Nat
         /\ Cardinality(Users(r) \cup {o})
              = IF o \in Users(r) THEN Cardinality(Users(r)) ELSE Cardinality(Users(r)) + 1
         /\ Cardinality(Users(r) \ {o})
              = IF o \in Users(r) THEN Cardinality(Users(r)) - 1 ELSE Cardinality(Users(r))
         /\ o \in Users(r) => Cardinality(Users(r)) >= 1
<1> DEFINE U == Users(r)
<1>1. IsFiniteSet(U)
  <2>1. U \subseteq Conn
    BY DEF Users
  <2> QED
    BY <2>1, Constants, FS_Subset
<1> HIDE DEF U
<1>2. Cardinality(U) \in Nat
  BY <1>1, FS_CardinalityType
<1>3. Cardinality(U \cup {o}) = IF o \in U THEN Cardinality(U) ELSE Cardinality(U) + 1
  BY <1>1, FS_AddElement
<1>4. Cardinality(U \ {o}) = IF o \in U THEN Cardinality(U) - 1 ELSE Cardinality(U)
  BY <1>1, FS_RemoveElement
<1>5. o \in U => Cardinality(U) # 0
  BY <1>1, FS_EmptySet
<1> QED
  BY <1>2, <1>3, <1>4, <1>5 DEF U

\* The count requests of a worker say nothing of a name, and wait for no answer.
LEMMA CountRequestsQuiet ==
  ASSUME NEW c \in Client, NEW q \in Seq(CountRequests(c))
  PROVE  /\ q \in Seq(ChatRequests(c)) /\ HooksOf(q) \subseteq {NoHook}
         /\ \A n \in Name : ~Has(q, Unsets(n)) /\ HasOne(q, Unsets(n))
<1>1. CountRequests(c) \subseteq ChatRequests(c)
  BY DEF ChatRequests
<1>2. q \in Seq(ChatRequests(c))
  BY <1>1, SeqMonotonic
<1>3. \A k \in DOMAIN q : q[k] \in CountRequests(c)
  OBVIOUS
<1>4. HooksOf(q) \subseteq {NoHook}
  BY <1>3 DEF HooksOf, CountRequests
<1>5. ASSUME NEW n \in Name, NEW k \in DOMAIN q PROVE q[k] \notin Unsets(n)
  <2>1. q[k].key \notin Name
    BY <1>3, Constants DEF CountRequests
  <2> QED
    BY <2>1 DEF Unsets
<1> QED
  BY <1>2, <1>4, <1>5 DEF Has, HasOne

\* Requests about a room change the count of no other room.
LEMMA LeadsElsewhere ==
  ASSUME NEW c \in Client, NEW k \in Key, NEW q \in Seq(About(c, k)), NEW j, j # k, NEW v \in Content
  PROVE  Leads(q, j, v, v)
<1>1. \A n \in 1..Len(q) : q[n].key # j
  BY DEF About
<1> QED
  BY <1>1, LeadsOther

\* What is asked about the count of a room.
LEMMA CallRoomKinds ==
  ASSUME NEW r \in Room, NEW n \in Value, NEW d \in Int, n + d \in Value
  PROVE  CallRoom(r, n, d) \in Seq(CountRequests(Owner[r]))
<1> DEFINE c == Owner[r]
           k == UserKey[r]
           M(v, w) == Message_of(c, NoHook, k, v, w)
<1>1. n + d \in Content /\ n \in Content /\ NoValue \in Content /\ n \in Int
      /\ c \in Client /\ k \in Key
  BY Constants, AsyncDbAssumption DEF Content
<1>2. ASSUME NEW v \in Content, NEW w \in Content
      PROVE  <<M(v, w)>> \in Seq(CountRequests(c))
  <2>1. M(v, w) \in About(c, k) /\ M(v, w).hook = NoHook
    BY <1>1, RequestType DEF Message_of
  <2> HIDE DEF M
  <2>2. M(v, w) \in CountRequests(c)
    BY <2>1 DEF About, CountRequests, SentBy
  <2> QED
    BY <2>2
<1>3. CASE n + d = 0
  <2>1. CallRoom(r, n, d) = <<M(NoValue, NoValue)>>
    BY <1>3 DEF CallRoom, Increment, DbUnset, Compare_and_swap
  <2> HIDE DEF M
  <2> QED
    BY <1>1, <1>2, <2>1
<1>4. CASE n + d # 0 /\ n # 0
  <2> DEFINE none == <<>>
  <2>1. CallRoom(r, n, d) = none \o <<M(n + d, n)>>
    BY <1>4 DEF CallRoom, Increment, Compare_and_swap
  <2>2. none \in Seq(CountRequests(c))
    OBVIOUS
  <2> HIDE DEF M, none
  <2> QED
    BY <1>1, <1>2, <2>1, <2>2, ConcatProperties
<1>5. CASE n + d # 0 /\ n = 0
  <2>1. CallRoom(r, n, d) = <<M(d, NoValue)>> \o <<M(n + d, n)>> /\ d \in Content
    BY <1>1, <1>5 DEF CallRoom, Increment, Set_if_null, Compare_and_swap
  <2> HIDE DEF M
  <2> QED
    BY <1>1, <1>2, <2>1, ConcatProperties
<1> QED
  BY <1>3, <1>4, <1>5

\* The call that changes the count of a room, or repeats the last change.
LEMMA RoomCalls ==
  ASSUME NEW r \in Room, NEW n \in 0..MaxUsers, NEW d \in {1, -1}, n + d \in 0..MaxUsers
  PROVE  /\ CallRoom(r, n, d) \in Seq(CountRequests(Owner[r]))
         /\ Leads(CallRoom(r, n, d), UserKey[r], Full(n), Full(n + d))
         /\ d = 1 => Leads(CallRoom(r, n, d), UserKey[r], Full(n + 1), Full(n + 1))
         /\ \A s \in Room \ {r} : \A v \in Content : Leads(CallRoom(r, n, d), UserKey[s], v, v)
<1>1. /\ Owner[r] \in Client /\ UserKey[r] \in Key /\ MaxUsers \in Nat /\ 0..MaxUsers \subseteq Value
      /\ \A s \in Room \ {r} : UserKey[s] # UserKey[r]
  BY Constants
<1>2. n \in Value /\ d \in Int /\ n + d \in Value
  BY <1>1
<1> DEFINE q == CallRoom(r, n, d)
           k == UserKey[r]
           c == Owner[r]
<1>3. q \in Seq(About(c, k))
  BY <1>1, <1>2, IncrementType DEF CallRoom
<1>4. Leads(q, k, Full(n), Full(n + d))
  BY <1>1, IncrementLeads DEF CallRoom
<1>5. ASSUME d = 1 PROVE Leads(q, k, Full(n + 1), Full(n + 1))
  <2>1. n + 1 \in 1..MaxUsers /\ (n + 1) - 1 = n
    BY <1>1, <1>5
  <2>2. Leads(Increment(c, NoHook, k, (n + 1) - 1, 1), k, Full(n + 1), Full(n + 1))
    BY <1>1, <2>1, IncrementAgain
  <2> QED
    BY <1>5, <2>1, <2>2 DEF CallRoom
<1> HIDE DEF q
<1>6. ASSUME NEW s \in Room \ {r}, NEW v \in Content PROVE Leads(q, UserKey[s], v, v)
  BY <1>1, <1>3, LeadsElsewhere
<1>7. q \in Seq(CountRequests(c))
  BY <1>2, CallRoomKinds DEF q
<1> QED
  BY <1>4, <1>5, <1>6, <1>7 DEF q
-----------------------------------------------------------------------------
\* An object's numbers of users are counts the database can hold.
LEMMA UsersHeld ==
  ASSUME ChatInv, NEW r \in Room, NEW o \in Conn
  PROVE  /\ Cardinality(Users(r)) \in 0..MaxUsers /\ Cardinality(Users(r) \ {o}) \in 0..MaxUsers
         /\ Full(Cardinality(Users(r))) \in Content /\ Full(Cardinality(Users(r) \ {o})) \in Content
<1>1. Cardinality(Users(r)) <= MaxUsers /\ MaxUsers \in Nat /\ 0..MaxUsers \subseteq Value
  BY Constants DEF ChatInv, Rooms
<1>2. /\ Cardinality(Users(r)) \in Nat
      /\ Cardinality(Users(r) \ {o}) \in {Cardinality(Users(r)), Cardinality(Users(r)) - 1}
      /\ Cardinality(Users(r) \ {o}) # Cardinality(Users(r)) => Cardinality(Users(r)) >= 1
  BY UsersCount
<1>3. Cardinality(Users(r)) \in 0..MaxUsers /\ Cardinality(Users(r) \ {o}) \in 0..MaxUsers
  BY <1>1, <1>2
<1> QED
  BY <1>1, <1>3, FullContent

\* broadcast_room_leave counts the user out of the room, and out of no other.
LEMMA LeaveAsks ==
  ASSUME ChatInv, NEW o \in Conn
  PROVE  /\ LeaveRequests(o) \in Seq(CountRequests(Home[o]))
         /\ \A r \in Room : Leads(LeaveRequests(o), UserKey[r], Full(Cardinality(Users(r))),
                                  Full(Cardinality(Users(r) \ {o})))
<1> DEFINE none == <<>>
           q == LeaveRequests(o)
           a == chat[o].room
<1>1. a \in Room \cup {NoRoom} /\ NoRoom \notin Room /\ (a # NoRoom => Owner[a] = Home[o])
      /\ chat \in [Conn -> Chat]
  <2>1. Object(o) /\ chat \in [Conn -> Chat]
    BY DEF ChatInv, ChatTypeOK
  <2> QED
    BY <2>1, Constants DEF Object, Proper, Chat
<1>2. CASE a = NoRoom
  <2>1. q = none
    BY <1>2 DEF LeaveRequests
  <2>2. none \in Seq(CountRequests(Home[o]))
    OBVIOUS
  <2>3. ASSUME NEW r \in Room
        PROVE  Leads(none, UserKey[r], Full(Cardinality(Users(r))), Full(Cardinality(Users(r) \ {o})))
    <3>1. Users(r) \ {o} = Users(r)
      BY <1>1, <1>2 DEF Users
    <3>2. Full(Cardinality(Users(r))) \in Content
      BY UsersHeld
    <3> QED
      BY <3>1, <3>2, LeadsEmpty
  <2> QED
    BY <2>1, <2>2, <2>3
<1>3. CASE a # NoRoom
  <2> DEFINE n == Cardinality(Users(a))
  <2>1. a \in Room /\ Owner[a] = Home[o] /\ q = CallRoom(a, n, -1) /\ o \in Users(a)
    BY <1>1, <1>3 DEF LeaveRequests, Users
  <2>2. n \in 0..MaxUsers /\ n >= 1 /\ Cardinality(Users(a) \ {o}) = n - 1 /\ MaxUsers \in Nat
    BY <2>1, UsersHeld, UsersCount, Constants
  <2> HIDE DEF n
  <2>3. n + -1 \in 0..MaxUsers /\ n + -1 = n - 1
    BY <2>2
  <2>4. /\ q \in Seq(CountRequests(Home[o]))
        /\ Leads(q, UserKey[a], Full(n), Full(n + -1))
        /\ \A s \in Room \ {a} : \A v \in Content : Leads(q, UserKey[s], v, v)
    BY <2>1, <2>2, <2>3, RoomCalls
  <2>5. ASSUME NEW r \in Room
        PROVE  Leads(q, UserKey[r], Full(Cardinality(Users(r))), Full(Cardinality(Users(r) \ {o})))
    <3>1. CASE r = a
      BY <2>2, <2>3, <2>4, <3>1 DEF n
    <3>2. CASE r # a
      <4>1. Users(r) \ {o} = Users(r)
        BY <1>1, <3>2 DEF Users
      <4>2. Full(Cardinality(Users(r))) \in Content
        BY UsersHeld
      <4> QED
        BY <2>4, <3>2, <4>1, <4>2
    <3> QED
      BY <3>1, <3>2
  <2> QED
    BY <2>4, <2>5
<1> QED
  BY <1>2, <1>3

\* logoff_user gives the name back, and says nothing of a room.
LEMMA LogoffAsks ==
  ASSUME NEW o \in Conn, chat[o].name \in Name
  PROVE  /\ LogoffRequests(o) \in Seq(ChatRequests(Home[o]))
         /\ HooksOf(LogoffRequests(o)) \subseteq {NoHook}
         /\ \A r \in Room : \A v \in Content : Leads(LogoffRequests(o), UserKey[r], v, v)
         /\ \A n \in Name : /\ HasOne(LogoffRequests(o), Unsets(n))
                            /\ Has(LogoffRequests(o), Unsets(n)) <=> chat[o].name = n
<1> DEFINE c == Home[o]
           k == chat[o].name
           m == Message_of(c, NoHook, k, NoValue, NoValue)
<1>1. c \in Client /\ k \in Key /\ k \in Name /\ NoValue \in Content /\ k # NoName
      /\ \A r \in Room : UserKey[r] # k
  BY Constants
<1>2. LogoffRequests(o) = <<m>>
  BY <1>1 DEF LogoffRequests, DbUnset, Compare_and_swap
<1>3. m \in About(c, k) /\ m.hook = NoHook /\ m.op = "unset" /\ m.key = k
  BY <1>1, RequestType DEF Message_of
<1> HIDE DEF m
<1>4. m \in ChatRequests(c) /\ m \in Message
  BY <1>1, <1>3 DEF ChatRequests, LogoffRequestsOf, About, SentBy
<1>5. HooksOf(<<m>>) \subseteq {NoHook}
  BY <1>3, HasSingle
<1>6. ASSUME NEW n \in Name
      PROVE  HasOne(<<m>>, Unsets(n)) /\ (Has(<<m>>, Unsets(n)) <=> k = n)
  BY <1>3, <1>4, HasSingle DEF Unsets
<1>7. ASSUME NEW r \in Room, NEW v \in Content PROVE Leads(<<m>>, UserKey[r], v, v)
  <2>1. <<m>> \in Seq(About(c, k)) /\ UserKey[r] # k
    BY <1>1, <1>3
  <2> QED
    BY <1>1, <2>1, LeadsElsewhere
<1> QED
  BY <1>2, <1>4, <1>5, <1>6, <1>7

\* What an object that goes asks for: the change of its room's count, and to give its
\* name back if it logs off.
LEMMA OffAsks ==
  ASSUME NEW o \in Conn, NEW off \in BOOLEAN, off => chat[o].name \in Name,
         NEW a \in Seq(CountRequests(Home[o])),
         NEW q, q = a \o (IF off THEN LogoffRequests(o) ELSE <<>>)
  PROVE  /\ q \in Seq(ChatRequests(Home[o])) /\ HooksOf(q) \subseteq {NoHook}
         /\ \A r \in Room : \A u, v : Leads(a, UserKey[r], u, v) => Leads(q, UserKey[r], u, v)
         /\ \A n \in Name : /\ HasOne(q, Unsets(n))
                            /\ Has(q, Unsets(n)) <=> off /\ chat[o].name = n
<1> DEFINE none == <<>>
           b == LogoffRequests(o)
           T == ChatRequests(Home[o])
<1>1. Home[o] \in Client
  BY Constants
<1>2. /\ a \in Seq(T) /\ HooksOf(a) \subseteq {NoHook}
      /\ \A n \in Name : ~Has(a, Unsets(n)) /\ HasOne(a, Unsets(n))
  BY <1>1, CountRequestsQuiet
<1>3. CASE ~off
  <2>1. q = a \o none
    BY <1>3
  <2>2. a \o none = a
    BY <1>2, ConcatEmptySeq
  <2> HIDE DEF none
  <2>3. q = a
    BY <2>1, <2>2
  <2> QED
    BY <1>1, <1>2, <1>3, <2>3
<1>4. CASE off
  <2>1. /\ b \in Seq(T) /\ HooksOf(b) \subseteq {NoHook}
        /\ \A r \in Room : \A v \in Content : Leads(b, UserKey[r], v, v)
        /\ \A n \in Name : HasOne(b, Unsets(n)) /\ (Has(b, Unsets(n)) <=> chat[o].name = n)
    BY <1>4, LogoffAsks
  <2>2. q = a \o b
    BY <1>4
  <2> HIDE DEF b
  <2>3. q \in Seq(T) /\ HooksOf(q) = HooksOf(a) \cup HooksOf(b)
    <3>1. a \o b \in Seq(T)
      BY <1>2, <2>1, ConcatProperties
    <3>2. HooksOf(a \o b) = HooksOf(a) \cup HooksOf(b)
      BY <1>2, <2>1, HasConcat
    <3> QED
      BY <2>2, <3>1, <3>2
  <2>4. ASSUME NEW n \in Name
        PROVE  HasOne(q, Unsets(n)) /\ (Has(q, Unsets(n)) <=> chat[o].name = n)
    <3>1. /\ Has(a \o b, Unsets(n)) <=> Has(a, Unsets(n)) \/ Has(b, Unsets(n))
          /\ HasOne(a, Unsets(n)) /\ HasOne(b, Unsets(n)) /\ ~(Has(a, Unsets(n)) /\ Has(b, Unsets(n)))
               => HasOne(a \o b, Unsets(n))
      BY <1>2, <2>1, HasConcat
    <3> QED
      BY <1>2, <2>1, <2>2, <3>1
  <2>5. ASSUME NEW r \in Room, NEW u, NEW v, Leads(a, UserKey[r], u, v)
        PROVE  Leads(q, UserKey[r], u, v)
    <3>1. v \in Content
      BY <1>2, <2>5, LeadsContent
    <3>2. Leads(b, UserKey[r], v, v)
      BY <2>1, <3>1
    <3>3. Leads(a \o b, UserKey[r], u, v)
      BY <1>2, <2>1, <2>5, <3>2, LeadsConcat
    <3> QED
      BY <2>2, <3>3
  <2> QED
    BY <1>2, <1>4, <2>1, <2>3, <2>4, <2>5
<1> QED
  BY <1>3, <1>4
-----------------------------------------------------------------------------
\* When nothing is passed on and no object is taken, all that was passed finds its object.
LEMMA PassesNothing ==
  ASSUME ChatInv, UNCHANGED <<raw, moves>>,
         \A p \in Conn : chat'[p].life = "none" <=> chat[p].life = "none"
  PROVE  Passes
<1>1. \A c \in Client : UnusedAt(c)' = UnusedAt(c)
  BY DEF UnusedAt
<1>2. /\ raw \in [Client -> Seq(Command)] /\ Commands /\ moves \in 0..MaxMoves
      /\ \A c \in Client : Len(raw[c]) <= Cardinality(UnusedAt(c))
      /\ moves = 0 => \A c \in Client : raw[c] \in Seq({WelcomeCommand})
  BY DEF ChatInv, ChatTypeOK, Names
<1>3. Commands'
  BY <1>2 DEF Commands
<1> QED
  BY <1>1, <1>2, <1>3 DEF Passes

\* When object o becomes x: it takes a name from the answer that grants it only, and the
\* name that is given back is its own.
Renames(o, x, q) ==
  \A n \in Name : /\ HasOne(q, Unsets(n)) /\ (Has(q, Unsets(n)) => Bears(o, n) /\ ~LoggedIn(x))
                  /\ LoggedIn(x) /\ x.name = n => Bears(o, n) \/ Hears(Home[o], n)
\* It stays one that an answer may find, and asks for itself.
Stands(o, x, q) ==
  /\ x.life # "none" /\ Proper(Home[o], x, moves' > 0, Home[o] \in quiting)
  /\ LoggedIn(chat[o]) \/ Leaves(chat[o]) => LoggedIn(x) \/ Leaves(x)
  /\ HooksOf(q) \subseteq {NoHook, LoginHook[o], RoomHook[o]}
  /\ RoomHook[o] \in HooksOf(q) => LoggedIn(x) \/ Leaves(x)

\* A handler that changes one object.
LEMMA OneKeeps ==
  ASSUME ChatInv, NEW o \in Conn, NEW x \in Chat, NEW q \in Seq(ChatRequests(Home[o])),
         Does(Home[o], q), chat' = [chat EXCEPT ![o] = x], UNCHANGED <<quiting, closing>>,
         crashed' \subseteq Client, Passes, Counted(Home[o], q), Stands(o, x, q),
         moves' = 0 => Renames(o, x, q)
  PROVE  ChatInv'
<1>1. /\ chat \in [Conn -> Chat] /\ chat' \in [Conn -> Chat] /\ chat'[o] = x
      /\ \A p \in Conn \ {o} : chat'[p] = chat[p]
      /\ quiting \subseteq Client /\ closing \in BOOLEAN /\ moves \in Nat
  BY DEF ChatInv, ChatTypeOK
<1>2. Home[o] \in Client
  BY Constants
<1>3. ASSUME NEW p \in Conn PROVE Stays(p, q)
  <2>1. CASE p = o
    <3>1. Object(p)'
      BY <1>1, <2>1 DEF Stands, Object
    <3> QED
      BY <1>1, <2>1, <3>1 DEF Stands, Stays
  <2>2. CASE p # o
    <3>1. chat'[p] = chat[p] /\ Object(p)
      BY <1>1, <2>2 DEF ChatInv
    <3>2. moves > 0 => moves' > 0
      <4>1. moves' \in 0..MaxMoves /\ (moves' = 0 => moves = 0) /\ MaxMoves \in Nat
        BY Constants DEF Passes
      <4> QED
        BY <1>1, <4>1
    <3>3. Object(p)'
      BY <3>1, <3>2 DEF Object, Proper
    <3>4. LoginHook[p] \notin HooksOf(q) /\ RoomHook[p] \notin HooksOf(q)
      <4>1. LoginHook[p] \notin {NoHook, LoginHook[o], RoomHook[o]}
            /\ RoomHook[p] \notin {NoHook, LoginHook[o], RoomHook[o]}
        BY <2>2, Constants
      <4> QED
        BY <4>1 DEF Stands
    <3> QED
      BY <3>1, <3>3, <3>4 DEF Stays
  <2> QED
    BY <2>1, <2>2
<1>4. ASSUME NEW n \in Name, moves' = 0 PROVE Hands(Home[o], q, n)
  <2>1. /\ HasOne(q, Unsets(n)) /\ (Has(q, Unsets(n)) => Bears(o, n) /\ ~LoggedIn(x))
        /\ LoggedIn(x) /\ x.name = n => Bears(o, n) \/ Hears(Home[o], n)
    BY <1>4 DEF Renames
  <2>2. \A p \in Conn : IF p = o THEN Bears(p, n)' <=> LoggedIn(x) /\ x.name = n
                                 ELSE Bears(p, n)' <=> Bears(p, n)
    BY <1>1 DEF Bears
  <2>3. \A p \in Conn : Bears(o, n) /\ Bears(p, n) => o = p
    BY <1>4 DEF Passes, ChatInv, Names, Locked, ClaimedOnce
  <2>4. Has(q, Unsets(n)) => BorneBy(n) /\ ~BorneBy(n)'
    BY <2>1, <2>2, <2>3 DEF BorneBy
  <2> QED
    BY <2>1, <2>2, <2>4 DEF Hands
<1> QED
  BY <1>1, <1>2, <1>3, <1>4, HandlerKeeps

\* One that leaves its room, if it is in one, and may log off.
LEMMA GoKeeps ==
  ASSUME ChatInv, NEW o \in Conn, NEW x \in Chat, NEW off \in BOOLEAN, NEW q,
         q = LeaveRequests(o) \o (IF off THEN LogoffRequests(o) ELSE <<>>),
         Does(Home[o], q), chat' = [chat EXCEPT ![o] = x], UNCHANGED <<quiting, closing>>,
         crashed' \subseteq Client, Passes,
         x.life # "none", x.room = NoRoom, Proper(Home[o], x, moves' > 0, Home[o] \in quiting),
         LoggedIn(chat[o]) \/ Leaves(chat[o]) => LoggedIn(x) \/ Leaves(x),
         off => LoggedIn(chat[o]),
         LoggedIn(x) => ~off /\ LoggedIn(chat[o]) /\ x.name = chat[o].name
  PROVE  ChatInv'
<1>1. chat \in [Conn -> Chat] /\ Object(o)
  BY DEF ChatInv, ChatTypeOK
<1>2. off => chat[o].name \in Name
  BY <1>1 DEF Object, Proper
<1>3. /\ q \in Seq(ChatRequests(Home[o])) /\ HooksOf(q) \subseteq {NoHook}
      /\ \A r \in Room : Leads(q, UserKey[r], Full(Cardinality(Users(r))),
                               Full(Cardinality(Users(r) \ {o})))
      /\ \A n \in Name : HasOne(q, Unsets(n)) /\ (Has(q, Unsets(n)) <=> off /\ chat[o].name = n)
  <2> DEFINE a == LeaveRequests(o)
  <2>1. /\ a \in Seq(CountRequests(Home[o]))
        /\ \A r \in Room : Leads(a, UserKey[r], Full(Cardinality(Users(r))),
                                 Full(Cardinality(Users(r) \ {o})))
    BY LeaveAsks
  <2>2. q = a \o (IF off THEN LogoffRequests(o) ELSE <<>>)
    OBVIOUS
  <2> HIDE DEF a
  <2>3. /\ q \in Seq(ChatRequests(Home[o])) /\ HooksOf(q) \subseteq {NoHook}
        /\ \A r \in Room : \A u, v : Leads(a, UserKey[r], u, v) => Leads(q, UserKey[r], u, v)
        /\ \A n \in Name : HasOne(q, Unsets(n)) /\ (Has(q, Unsets(n)) <=> off /\ chat[o].name = n)
    BY <1>2, <2>1, <2>2, OffAsks
  <2> QED
    BY <2>1, <2>3
<1>4. Stands(o, x, q)
  <2>1. RoomHook[o] \notin HooksOf(q)
    BY <1>3, Constants
  <2> QED
    BY <1>3, <2>1 DEF Stands
<1>5. ASSUME NEW r \in Room
      PROVE  /\ Users(r)' = Users(r) \ {o}
             /\ Owner[r] # Home[o] => Users(r) \ {o} = Users(r)
             /\ Cardinality(Users(r) \ {o}) <= MaxUsers
  <2>1. Users(r)' = Users(r) \ {o}
    BY <1>1, Constants, UsersChange
  <2>2. ASSUME o \in Users(r) PROVE Owner[r] = Home[o]
    BY <1>1, <2>2, Constants DEF Users, Object, Proper
  <2>3. Cardinality(Users(r) \ {o}) \in 0..MaxUsers /\ MaxUsers \in Nat
    BY UsersHeld, Constants
  <2> QED
    BY <2>1, <2>2, <2>3
<1>6. Counted(Home[o], q)
  BY <1>3, <1>5 DEF Counted
<1>7. Renames(o, x, q)
  BY <1>3 DEF Renames, Bears
<1> QED
  BY <1>3, <1>4, <1>6, <1>7, OneKeeps
-----------------------------------------------------------------------------
\* A step that passes something on, or takes it, and no more.
LEMMA RawKeeps ==
  ASSUME ChatInv, UNCHANGED <<vars, chat, quiting, crashed, moves>>, closing' \in BOOLEAN, Passes
  PROVE  ChatInv'
<1>1. UNCHANGED <<db, inbox, replies, todo, owed>>
  BY DEF vars
<1>2. TypeOK' /\ Requests' /\ Rooms'
  BY <1>1 DEF ChatInv, ChatTypeOK, TypeOK, Requests, Rooms, Users
<1>3. ChatTypeOK' /\ Commands'
  BY <1>2 DEF ChatInv, ChatTypeOK, Passes
<1>4. Underway' = Underway
  BY <1>1 DEF Underway
<1>5. \A o \in Conn : Object(o)' /\ Asks(o)'
  BY <1>4 DEF ChatInv, Object, Asks
<1>6. \A n \in Name : Locked(n)' <=> Locked(n)
  BY <1>1 DEF Locked, ClaimedOnce, Claimed, BorneBy, Bears, GivenBack, Granted
<1>7. Names'
  BY <1>6 DEF ChatInv, Names, Passes
<1>8. Counts'
  BY <1>1 DEF ChatInv, Counts, Way, Users
<1> QED
  BY <1>2, <1>3, <1>5, <1>7, <1>8 DEF ChatInv

\* A call is what a handler does.
LEMMA CallDoes ==
  ASSUME NEW w \in Client, NEW q, Call(w, q)
  PROVE  Does(w, q)
BY DEF Call, Does

\* So is no call.
LEMMA SilentDoes ==
  ASSUME IInv, NEW w \in Client, todo[w] = <<>>, UNCHANGED <<db, inbox, owed, todo>>,
         \/ replies' = replies
         \/ replies[w] # <<>> /\ replies' = [replies EXCEPT ![w] = Tail(replies[w])]
  PROVE  Does(w, <<>>)
<1>1. todo = [todo EXCEPT ![w] = <<>>]
  BY DEF IInv, TypeOK
<1> QED
  BY <1>1 DEF Does

\* A handler that asks for nothing, and leaves one object where it is.
LEMMA SilentKeeps ==
  ASSUME ChatInv, NEW o \in Conn, NEW x \in Chat, Does(Home[o], <<>>),
         chat' = [chat EXCEPT ![o] = x], UNCHANGED <<quiting, closing>>, crashed' \subseteq Client,
         Passes, x.life # "none", x.room = chat[o].room,
         Proper(Home[o], x, moves' > 0, Home[o] \in quiting),
         LoggedIn(chat[o]) \/ Leaves(chat[o]) => LoggedIn(x) \/ Leaves(x),
         moves' = 0 /\ LoggedIn(x) =>
           \/ LoggedIn(chat[o]) /\ x.name = chat[o].name
           \/ \A n \in Name : x.name = n => Hears(Home[o], n)
  PROVE  ChatInv'
<1> DEFINE q == <<>>
<1>1. /\ q \in Seq(ChatRequests(Home[o])) /\ HooksOf(q) = {}
      /\ \A n \in Name : HasOne(q, Unsets(n)) /\ ~Has(q, Unsets(n))
      /\ Does(Home[o], q)
  BY HasEmpty
<1>2. ASSUME NEW r \in Room
      PROVE  /\ Users(r)' = Users(r) /\ Cardinality(Users(r)) <= MaxUsers
             /\ Leads(q, UserKey[r], Full(Cardinality(Users(r))), Full(Cardinality(Users(r))))
  <2>1. chat \in [Conn -> Chat]
    BY DEF ChatInv, ChatTypeOK
  <2>2. Users(r)' = Users(r)
    BY <2>1 DEF Users
  <2>3. Full(Cardinality(Users(r))) \in Content /\ Cardinality(Users(r)) <= MaxUsers
    BY UsersHeld DEF ChatInv, Rooms
  <2> QED
    BY <2>2, <2>3, LeadsEmpty
<1> HIDE DEF q
<1>3. Counted(Home[o], q)
  BY <1>2 DEF Counted
<1>4. Stands(o, x, q)
  BY <1>1 DEF Stands
<1>5. moves' = 0 => Renames(o, x, q)
  BY <1>1 DEF Renames, Bears
<1> QED
  BY <1>1, <1>3, <1>4, <1>5, OneKeeps

\* A handler that asks something for an object, and changes nothing itself.
LEMMA AskKeeps ==
  ASSUME ChatInv, NEW o \in Conn, chat[o].life = "live", NEW k \in Key,
         \A r \in Room : UserKey[r] # k, NEW q \in Seq(About(Home[o], k)),
         q \in Seq(ChatRequests(Home[o])), \A n \in Name : ~Has(q, Unsets(n)),
         HooksOf(q) \subseteq {LoginHook[o], RoomHook[o]},
         RoomHook[o] \in HooksOf(q) => LoggedIn(chat[o]),
         Call(Home[o], q), UNCHANGED chatVars
  PROVE  ChatInv'
<1>1. /\ chat \in [Conn -> Chat] /\ crashed \subseteq Client /\ moves \in Nat /\ Object(o)
      /\ UNCHANGED <<chat, raw, quiting, closing, crashed, moves>>
  BY Constants DEF ChatInv, ChatTypeOK, chatVars
<1>2. chat[o] \in Chat /\ chat' = [chat EXCEPT ![o] = chat[o]]
  BY <1>1
<1>3. Passes
  BY <1>1, PassesNothing
<1>4. ASSUME NEW r \in Room
      PROVE  /\ Users(r)' = Users(r) /\ Cardinality(Users(r)) <= MaxUsers
             /\ Leads(q, UserKey[r], Full(Cardinality(Users(r))), Full(Cardinality(Users(r))))
  <2>1. Users(r)' = Users(r)
    BY <1>1 DEF Users
  <2>2. Full(Cardinality(Users(r))) \in Content /\ Cardinality(Users(r)) <= MaxUsers
    BY UsersHeld DEF ChatInv, Rooms
  <2> QED
    BY <2>1, <2>2, Constants, LeadsElsewhere
<1>5. Counted(Home[o], q)
  BY <1>4 DEF Counted
<1>6. Proper(Home[o], chat[o], moves' > 0, Home[o] \in quiting)
  BY <1>1 DEF Object
<1>7. Stands(o, chat[o], q)
  BY <1>6 DEF Stands
<1>8. Renames(o, chat[o], q)
  <2>1. \A n \in Name : HasOne(q, Unsets(n))
    BY DEF Has, HasOne
  <2> QED
    BY <2>1 DEF Renames, Bears
<1>9. Does(Home[o], q)
  BY Constants, CallDoes
<1> QED
  BY <1>1, <1>2, <1>3, <1>5, <1>7, <1>8, <1>9, OneKeeps
-----------------------------------------------------------------------------
\* What default_chat_close leaves of an object, and of one that becomes a zombie.
LEMMA ClosedForms ==
  ASSUME NEW x \in Chat
  PROVE  /\ Closed(x) \in Chat /\ Closed(x).life = x.life /\ Closed(x).room = NoRoom
         /\ ~Closed(x).open /\ ~LoggedIn(Closed(x)) /\ Leaves(Closed(x))
         /\ Zombie(x) \in Chat /\ Zombie(x).life = x.life /\ Zombie(x).room = NoRoom
         /\ ~Zombie(x).open /\ ~LoggedIn(Zombie(x)) /\ Leaves(Zombie(x))
<1> DEFINE s == (IF x.state \cap {"quit", "softquit"} = {} THEN x.state \cup {"quit"} ELSE x.state)
                  \ {"loggedin"}
           c == Closed(x)
<1>1. x.state \in SUBSET Flag
  BY DEF Chat
<1>2. s \in SUBSET Flag /\ "loggedin" \notin s /\ s \cap Leaving # {}
  <2>1. s \in SUBSET Flag /\ "loggedin" \notin s
    BY <1>1 DEF Flag
  <2>2. CASE x.state \cap {"quit", "softquit"} = {}
    <3>1. s = (x.state \cup {"quit"}) \ {"loggedin"}
      BY <2>2
    <3> HIDE DEF s
    <3>2. "quit" \in s /\ "quit" \in Leaving
      BY <3>1 DEF Leaving
    <3> QED
      BY <2>1, <3>2
  <2>3. CASE x.state \cap {"quit", "softquit"} # {}
    <3>1. PICK f \in x.state : f \in {"quit", "softquit"}
      BY <2>3
    <3>2. s = x.state \ {"loggedin"}
      BY <2>3
    <3> HIDE DEF s
    <3>3. f \in s /\ f \in Leaving
      BY <3>1, <3>2 DEF Leaving
    <3> QED
      BY <2>1, <3>3
  <2> QED
    BY <2>1, <2>2, <2>3
<1> HIDE DEF s
<1>3. c = [x EXCEPT !.state = s, !.room = NoRoom, !.open = FALSE]
  BY DEF Closed, s
<1>4. c \in Chat /\ c.state = s /\ c.life = x.life /\ c.room = NoRoom /\ ~c.open
  BY <1>2, <1>3 DEF Chat
<1>5. ~LoggedIn(c) /\ Leaves(c)
  BY <1>2, <1>4 DEF LoggedIn, Leaves
<1> DEFINE z == Zombie(x)
<1>6. z = [c EXCEPT !.state = c.state \cup {"zombie"}]
  BY DEF Zombie
<1> HIDE DEF c, z
<1>7. c.state \cup {"zombie"} \in SUBSET Flag
  BY <1>2, <1>4 DEF Flag
<1>8. z \in Chat /\ z.state = c.state \cup {"zombie"} /\ z.life = x.life /\ z.room = NoRoom /\ ~z.open
  BY <1>4, <1>6, <1>7 DEF Chat
<1>9. ~LoggedIn(z) /\ Leaves(z)
  BY <1>5, <1>8 DEF LoggedIn, Leaves
<1> QED
  BY <1>4, <1>5, <1>8, <1>9 DEF c, z

\* One that is gone is proper.
LEMMA GoneProper ==
  ASSUME NEW w, NEW x, x.life \in {"live", "freed"}, x.room = NoRoom, ~x.open, ~LoggedIn(x), Leaves(x),
         NEW moved, NEW quits
  PROVE  Proper(w, x, moved, quits)
BY DEF Proper

\* One that a handler reads from is live and registered, and its worker has not quit.
LEMMA ReadsLive ==
  ASSUME ChatInv, NEW o \in Conn, Reads(o)
  PROVE  /\ chat[o] \in Chat /\ chat[o].life = "live" /\ chat[o].open /\ ~Leaves(chat[o])
         /\ Home[o] \in Client /\ Home[o] \notin quiting /\ Object(o)
BY Constants DEF ChatInv, ChatTypeOK, Reads, Leaves

\* on_asyncchat_login asks for the name.
LEMMA LoginLineKeeps ==
  ASSUME ChatInv, NEW o \in Conn, NEW n \in Name, LoginLine(o, n)
  PROVE  ChatInv'
<1> DEFINE c == Home[o]
           h == LoginHook[o]
           m == Message_of(c, h, n, 1, NoValue)
           q == Compare_and_swap(c, h, n, 1, NoValue)
<1>1. /\ chat[o].life = "live" /\ c \in Client /\ h \in Hook /\ n \in Key /\ 1 \in Content
      /\ NoValue \in Content /\ 1 # NoValue /\ h # NoHook /\ h # RoomHook[o]
      /\ \A r \in Room : UserKey[r] # n
  BY Constants, ReadsLive DEF LoginLine, Content
<1>2. q = <<m>> /\ m \in About(c, n)
  BY <1>1, RequestType DEF Compare_and_swap
<1>3. m.hook = h /\ m.op = "sin" /\ m.key = n /\ m.newval = 1 /\ m.oldval = NoValue
  BY <1>1 DEF Message_of
<1>4. Call(c, q) /\ UNCHANGED chatVars
  BY DEF LoginLine
<1> HIDE DEF m, q
<1>5. m \in ChatRequests(c)
  <2>1. m \in LoginRequests(c)
    BY <1>1, <1>2, <1>3 DEF About, SentBy, LoginRequests
  <2> QED
    BY <2>1 DEF ChatRequests
<1>6. /\ q \in Seq(About(c, n)) /\ q \in Seq(ChatRequests(c)) /\ HooksOf(q) = {h}
      /\ \A k \in Name : ~Has(q, Unsets(k))
  <2>1. \A k \in Name : m \notin Unsets(k)
    BY <1>3 DEF Unsets
  <2> QED
    BY <1>2, <1>3, <1>5, <2>1, HasSingle
<1> QED
  BY <1>1, <1>4, <1>6, AskKeeps

\* chat_join_plug asks for the worker of the room.
LEMMA JoinLineKeeps ==
  ASSUME ChatInv, NEW o \in Conn, NEW r \in Room, JoinLine(o, r)
  PROVE  ChatInv'
<1> DEFINE c == Home[o]
           h == RoomHook[o]
           k == PidKey[r]
           q == DbGet(c, h, k)
           m == [src |-> c, op |-> "get", key |-> k, newval |-> NoValue, oldval |-> NoValue, hook |-> h]
<1>1. /\ chat[o].life = "live" /\ c \in Client /\ h \in Hook /\ k \in Key /\ NoValue \in Content
      /\ \A s \in Room : UserKey[s] # k
      /\ LoggedIn(chat[o])
  BY Constants, ReadsLive DEF JoinLine, LoggedIn
<1>2. q = <<m>>
  BY DEF DbGet
<1>3. m \in About(c, k) /\ m.hook = h /\ m.op = "get" /\ m.key = k
  BY <1>1 DEF About, Message
<1>4. Call(c, q) /\ UNCHANGED chatVars
  BY DEF JoinLine
<1> HIDE DEF m, q
<1>5. m \in ChatRequests(c)
  <2>1. m \in RoomRequests(c)
    BY <1>1, <1>3 DEF About, SentBy, RoomRequests
  <2> QED
    BY <2>1 DEF ChatRequests
<1>6. /\ q \in Seq(About(c, k)) /\ q \in Seq(ChatRequests(c)) /\ HooksOf(q) = {h}
      /\ \A n \in Name : ~Has(q, Unsets(n))
  <2>1. \A n \in Name : m \notin Unsets(n)
    BY <1>3 DEF Unsets
  <2> QED
    BY <1>2, <1>3, <1>5, <2>1, HasSingle
<1> QED
  BY <1>1, <1>4, <1>6, AskKeeps

\* chat_leave_plug leaves the room.
LEMMA LeaveLineKeeps ==
  ASSUME ChatInv, NEW o \in Conn, LeaveLine(o)
  PROVE  ChatInv'
<1> DEFINE x == [chat[o] EXCEPT !.room = NoRoom]
           q == LeaveRequests(o)
<1>1. /\ chat[o] \in Chat /\ chat[o].life = "live" /\ chat[o].open /\ ~Leaves(chat[o])
      /\ Home[o] \in Client /\ Home[o] \notin quiting /\ Object(o) /\ LoggedIn(chat[o])
  BY ReadsLive DEF LeaveLine, LoggedIn
<1>2. /\ chat \in [Conn -> Chat] /\ chat' = [chat EXCEPT ![o] = x] /\ crashed \subseteq Client
      /\ Call(Home[o], q) /\ UNCHANGED <<raw, quiting, closing, crashed, moves>>
  BY DEF LeaveLine, ChatInv, ChatTypeOK
<1>3. /\ x \in Chat /\ x.life = "live" /\ x.room = NoRoom /\ x.open /\ x.state = chat[o].state
      /\ x.name = chat[o].name
  BY <1>1 DEF Chat
<1> HIDE DEF x
<1>4. ~Leaves(x) /\ LoggedIn(x)
  BY <1>1, <1>3 DEF Leaves, LoggedIn
<1>5. Proper(Home[o], x, moves' > 0, Home[o] \in quiting)
  BY <1>1, <1>3, <1>4 DEF Object, Proper
<1>6. Passes
  BY <1>1, <1>2, <1>3, PassesNothing
<1>7. q = LeaveRequests(o) \o (IF FALSE THEN LogoffRequests(o) ELSE <<>>)
  BY LeaveAsks, ConcatEmptySeq
<1> QED
  BY <1>1, <1>2, <1>3, <1>4, <1>5, <1>6, <1>7, CallDoes, GoKeeps

\* One that is closed, and may have become a zombie.
LEMMA CloseKeeps ==
  ASSUME ChatInv, NEW o \in Conn, chat[o].life = "live", NEW x \in Chat, NEW off \in BOOLEAN, NEW q,
         q = LeaveRequests(o) \o (IF off THEN LogoffRequests(o) ELSE <<>>),
         off => LoggedIn(chat[o]),
         Call(Home[o], q), chat' = [chat EXCEPT ![o] = x],
         UNCHANGED <<raw, quiting, closing, crashed, moves>>,
         x.life \in {"live", "freed"}, x.room = NoRoom, ~x.open, ~LoggedIn(x), Leaves(x)
  PROVE  ChatInv'
<1>1. chat \in [Conn -> Chat] /\ crashed \subseteq Client /\ Home[o] \in Client
  BY Constants DEF ChatInv, ChatTypeOK
<1>2. Passes
  BY <1>1, PassesNothing
<1>3. Proper(Home[o], x, moves' > 0, Home[o] \in quiting)
  BY GoneProper
<1>4. Does(Home[o], q)
  BY <1>1, CallDoes
<1> QED
  BY <1>1, <1>2, <1>3, <1>4, GoKeeps

\* chat_quit_plug: leaves and logs off, and the object becomes a zombie.
LEMMA QuitLineKeeps ==
  ASSUME ChatInv, NEW o \in Conn, QuitLine(o)
  PROVE  ChatInv'
<1> DEFINE y == [chat[o] EXCEPT !.state = chat[o].state \cup {"quit"}]
           x == Zombie(y)
           q == LeaveRequests(o) \o LogoffRequests(o)
<1>1. chat[o] \in Chat /\ chat[o].life = "live" /\ LoggedIn(chat[o])
  BY ReadsLive DEF QuitLine, LoggedIn
<1>2. /\ chat' = [chat EXCEPT ![o] = x] /\ Call(Home[o], q)
      /\ UNCHANGED <<raw, quiting, closing, crashed, moves>>
  BY DEF QuitLine
<1>3. y \in Chat /\ y.life = "live"
  <2>1. chat[o].state \cup {"quit"} \in SUBSET Flag
    BY <1>1 DEF Chat, Flag
  <2> QED
    BY <1>1, <2>1 DEF Chat
<1> HIDE DEF y
<1>4. x \in Chat /\ x.life = "live" /\ x.room = NoRoom /\ ~x.open /\ ~LoggedIn(x) /\ Leaves(x)
  BY <1>3, ClosedForms
<1>5. q = LeaveRequests(o) \o (IF TRUE THEN LogoffRequests(o) ELSE <<>>)
  OBVIOUS
<1> HIDE DEF x, q
<1> QED
  BY <1>1, <1>2, <1>4, <1>5, CloseKeeps

\* on_client_data, when the client has gone.
LEMMA DisconnectKeeps ==
  ASSUME ChatInv, NEW o \in Conn, Disconnect(o)
  PROVE  ChatInv'
<1> DEFINE x == Zombie(chat[o])
           q == CloseRequests(o)
           off == LoggedIn(chat[o])
<1>1. chat[o] \in Chat /\ chat[o].life = "live"
  BY ReadsLive DEF Disconnect
<1>2. /\ chat' = [chat EXCEPT ![o] = x] /\ Call(Home[o], q)
      /\ UNCHANGED <<raw, quiting, closing, crashed, moves>>
  BY DEF Disconnect
<1>3. x \in Chat /\ x.life = "live" /\ x.room = NoRoom /\ ~x.open /\ ~LoggedIn(x) /\ Leaves(x)
  BY <1>1, ClosedForms
<1>4. q = LeaveRequests(o) \o (IF off THEN LogoffRequests(o) ELSE <<>>) /\ off \in BOOLEAN
  BY DEF CloseRequests, LoggedIn
<1> HIDE DEF x, q
<1> QED
  BY <1>1, <1>2, <1>3, <1>4, CloseKeeps

\* The object is finalized, which closes it again.
LEMMA FinalizeKeeps ==
  ASSUME ChatInv, NEW o \in Conn, Finalize(o)
  PROVE  ChatInv'
<1> DEFINE y == Closed(chat[o])
           x == [y EXCEPT !.life = "freed"]
           q == CloseRequests(o)
           off == LoggedIn(chat[o])
<1>1. chat[o] \in Chat /\ chat[o].life = "live"
  BY DEF Finalize, ChatInv, ChatTypeOK
<1>2. /\ chat' = [chat EXCEPT ![o] = x] /\ Call(Home[o], q)
      /\ UNCHANGED <<raw, quiting, closing, crashed, moves>>
  BY DEF Finalize
<1>3. y \in Chat /\ y.room = NoRoom /\ ~y.open /\ ~LoggedIn(y) /\ Leaves(y)
  BY <1>1, ClosedForms
<1> HIDE DEF y
<1>4. /\ x \in Chat /\ x.life = "freed" /\ x.room = NoRoom /\ ~x.open /\ x.state = y.state
  BY <1>3 DEF Chat
<1> HIDE DEF x
<1>5. ~LoggedIn(x) /\ Leaves(x)
  BY <1>3, <1>4 DEF LoggedIn, Leaves
<1>6. q = LeaveRequests(o) \o (IF off THEN LogoffRequests(o) ELSE <<>>) /\ off \in BOOLEAN
  BY DEF CloseRequests, LoggedIn
<1> HIDE DEF q
<1> QED
  BY <1>1, <1>2, <1>4, <1>5, <1>6, CloseKeeps
-----------------------------------------------------------------------------
\* An answer finds the object that asked, which is of its worker, and of one kind.
LEMMA ReplyFinds ==
  ASSUME ChatInv, NEW w \in Client, TakeReply(w), NEW o \in Conn,
         Head(replies[w]).hook \in {LoginHook[o], RoomHook[o]}
  PROVE  /\ Home[o] = w /\ Head(replies[w]) \in Reply /\ chat[o] \in Chat
         /\ chat[o].life # "none" /\ Object(o)
         /\ Head(replies[w]).hook = LoginHook[o] => Head(replies[w]).key \in Name
         /\ Head(replies[w]).hook = RoomHook[o] => LoggedIn(chat[o]) \/ Leaves(chat[o])
<1> DEFINE a == Head(replies[w])
<1>1. replies[w] \in Seq(ChatReplies(w)) /\ replies[w] # <<>>
  BY DEF ChatInv, Requests, TakeReply
<1>2. a \in ChatReplies(w) /\ HooksOf(replies[w]) = HooksOf(Tail(replies[w])) \cup {a.hook}
  BY <1>1, HasTail
<1> HIDE DEF a
<1>3. a.hook \in Underway
  BY <1>2 DEF Underway
<1>4. Asks(o) /\ Object(o) /\ chat \in [Conn -> Chat] /\ a.hook \in {LoginHook[o], RoomHook[o]}
  BY DEF ChatInv, ChatTypeOK, a
<1>5. PICK p \in Conn : /\ Home[p] = w
                        /\ \/ a.hook = LoginHook[p] /\ a.key \in Name
                           \/ a.hook = RoomHook[p] /\ \E r \in Room : a.key = PidKey[r]
  BY <1>2 DEF ChatReplies
<1>6. p = o /\ LoginHook[o] # RoomHook[o]
  BY <1>4, <1>5, Constants
<1>7. chat[o].life # "none" /\ (a.hook = RoomHook[o] => LoggedIn(chat[o]) \/ Leaves(chat[o]))
  BY <1>3, <1>4 DEF Asks
<1> QED
  BY <1>2, <1>4, <1>5, <1>6, <1>7 DEF a, ChatReplies

\* What a callback does that asks for q.
LEMMA CallbackDoes ==
  ASSUME ChatInv, NEW w \in Client, TakeReply(w), NEW q, todo' = [todo EXCEPT ![w] = q]
  PROVE  Does(w, q)
BY DEF TakeReply, Does

\* A callback that asks for nothing.
LEMMA CallbackSilent ==
  ASSUME ChatInv, NEW w \in Client, TakeReply(w), UNCHANGED todo
  PROVE  Does(w, <<>>)
BY ChatIInv, SilentDoes DEF TakeReply

\* An object that is found is served, and its worker has not quit.
LEMMA FoundOpen ==
  ASSUME ChatInv, NEW o \in Conn, Found(o)
  PROVE  /\ chat[o].life = "live" /\ chat[o].open /\ ~Leaves(chat[o]) /\ Home[o] \notin quiting
BY DEF ChatInv, Object, Proper, Found, Leaves

\* An answer to one that is leaving leaves a reference, one to a freed object crashes.
LEMMA GetFailsKeeps ==
  ASSUME ChatInv, NEW w \in Client, TakeReply(w), NEW o \in Conn,
         Head(replies[w]).hook \in {LoginHook[o], RoomHook[o]}, GetFails(o)
  PROVE  ChatInv'
<1> DEFINE y == [chat[o] EXCEPT !.state = chat[o].state \cup {"held"}]
           x == IF chat[o].life = "freed" THEN chat[o] ELSE y
<1>1. /\ Home[o] = w /\ chat[o] \in Chat /\ chat[o].life # "none" /\ Object(o)
  BY ReplyFinds
<1>2. chat \in [Conn -> Chat] /\ crashed \subseteq Client
  BY DEF ChatInv, ChatTypeOK
<1>3. y \in Chat /\ y.life = chat[o].life /\ y.room = chat[o].room /\ y.open = chat[o].open
      /\ y.name = chat[o].name /\ y.state = chat[o].state \cup {"held"}
  <2>1. chat[o].state \cup {"held"} \in SUBSET Flag
    BY <1>1 DEF Chat, Flag
  <2> QED
    BY <1>1, <2>1 DEF Chat
<1> HIDE DEF y
<1>4. (LoggedIn(y) <=> LoggedIn(chat[o])) /\ (Leaves(y) <=> Leaves(chat[o]))
      /\ ("zombie" \in y.state <=> "zombie" \in chat[o].state)
  <2>1. "held" \notin Leaving
    BY DEF Leaving
  <2> QED
    BY <1>3, <2>1 DEF LoggedIn, Leaves
<1>5. /\ x \in Chat /\ x.life = chat[o].life /\ x.room = chat[o].room /\ x.open = chat[o].open
      /\ x.name = chat[o].name /\ (LoggedIn(x) <=> LoggedIn(chat[o])) /\ (Leaves(x) <=> Leaves(chat[o]))
      /\ ("zombie" \in x.state <=> "zombie" \in chat[o].state)
  BY <1>1, <1>3, <1>4
<1>6. /\ chat' = [chat EXCEPT ![o] = x] /\ crashed' \subseteq Client
      /\ UNCHANGED <<todo, raw, quiting, closing, moves>>
  <2>1. UNCHANGED <<todo, raw, quiting, closing, moves>> /\ Home[o] \in Client
    BY Constants DEF GetFails
  <2>2. CASE chat[o].life = "freed"
    BY <1>2, <2>1, <2>2 DEF GetFails
  <2>3. CASE chat[o].life # "freed"
    BY <1>2, <2>1, <2>3 DEF GetFails, y
  <2> QED
    BY <2>1, <2>2, <2>3
<1> HIDE DEF x
<1>7. Passes
  <2>1. \A p \in Conn : chat'[p].life = chat[p].life
    BY <1>2, <1>5, <1>6
  <2> QED
    BY <1>6, <2>1, PassesNothing
<1>8. Proper(Home[o], x, moves' > 0, Home[o] \in quiting)
  BY <1>1, <1>5, <1>6 DEF Object, Proper
<1>9. Does(Home[o], <<>>)
  BY <1>1, <1>6, CallbackSilent
<1> QED
  BY <1>1, <1>5, <1>6, <1>7, <1>8, <1>9, SilentKeeps

\* on_asyncchat_login_hook
LEMMA LoginReplyKeeps ==
  ASSUME ChatInv, NEW w \in Client, TakeReply(w), NEW o \in Conn,
         Head(replies[w]).hook = LoginHook[o], LoginReply(o, Head(replies[w]))
  PROVE  ChatInv'
<1> DEFINE a == Head(replies[w])
           y == [chat[o] EXCEPT !.name = a.key, !.login = FALSE,
                                !.state = chat[o].state \cup {"loggedin"}]
           x == IF a.success THEN y ELSE chat[o]
<1>1. /\ Home[o] = w /\ chat[o] \in Chat /\ Object(o) /\ a \in Reply /\ a.key \in Name
  BY ReplyFinds
<1>2. chat[o].life = "live" /\ chat[o].open /\ ~Leaves(chat[o]) /\ Home[o] \notin quiting
  BY FoundOpen DEF LoginReply
<1>3. /\ chat \in [Conn -> Chat] /\ crashed \subseteq Client
      /\ UNCHANGED <<todo, raw, quiting, closing, crashed, moves>> /\ replies[w] # <<>>
      /\ replies' = [replies EXCEPT ![w] = Tail(replies[w])]
  BY DEF ChatInv, ChatTypeOK, LoginReply, TakeReply
<1>4. chat' = [chat EXCEPT ![o] = x]
  BY <1>3 DEF LoginReply
<1> HIDE DEF a
<1>5. y \in Chat /\ y.life = chat[o].life /\ y.room = chat[o].room /\ y.open = chat[o].open
      /\ y.name = a.key /\ y.state = chat[o].state \cup {"loggedin"}
  <2>1. chat[o].state \cup {"loggedin"} \in SUBSET Flag
    BY <1>1 DEF Chat, Flag
  <2> QED
    BY <1>1, <2>1 DEF Chat
<1> HIDE DEF y
<1>6. LoggedIn(y) /\ ~Leaves(y)
  <2>1. "loggedin" \notin Leaving
    BY DEF Leaving
  <2> QED
    BY <1>2, <1>5, <2>1 DEF LoggedIn, Leaves
<1>7. /\ x \in Chat /\ x.life = chat[o].life /\ x.room = chat[o].room /\ x.open /\ ~Leaves(x)
      /\ LoggedIn(chat[o]) => LoggedIn(x)
  BY <1>1, <1>2, <1>5, <1>6
<1>8. LoggedIn(x) => \/ a.success /\ x.name = a.key
                     \/ LoggedIn(chat[o]) /\ x.name = chat[o].name
  BY <1>5
<1> HIDE DEF x
<1>9. Passes
  <2>1. \A p \in Conn : chat'[p].life = chat[p].life
    BY <1>3, <1>4, <1>7
  <2> QED
    BY <1>3, <2>1, PassesNothing
<1>10. Proper(Home[o], x, moves' > 0, Home[o] \in quiting)
  BY <1>1, <1>2, <1>7, <1>8 DEF Object, Proper
<1>11. LoggedIn(x) => \/ LoggedIn(chat[o]) /\ x.name = chat[o].name
                      \/ \A n \in Name : x.name = n => Hears(Home[o], n)
  BY <1>1, <1>3, <1>8 DEF Hears, Grants, a
<1>12. Does(Home[o], <<>>)
  BY <1>1, <1>3, CallbackSilent
<1> QED
  BY <1>1, <1>2, <1>3, <1>4, <1>7, <1>9, <1>10, <1>11, <1>12, SilentKeeps
-----------------------------------------------------------------------------
\* Where a user who joins is counted in.
LEMMA EnterCounted ==
  ASSUME ChatInv, NEW o \in Conn, NEW x, chat' = [chat EXCEPT ![o] = x], NEW r \in Room,
         x.room = r, Owner[r] = Home[o], chat[o].room # r, Cardinality(Users(r)) < MaxUsers,
         NEW q, q = LeaveRequests(o) \o CallRoom(r, Cardinality(Users(r)), 1)
  PROVE  /\ q \in Seq(CountRequests(Home[o])) /\ Counted(Home[o], q)
<1> DEFINE a == LeaveRequests(o)
           n == Cardinality(Users(r))
           b == CallRoom(r, n, 1)
<1>1. /\ chat \in [Conn -> Chat] /\ Object(o) /\ MaxUsers \in Nat /\ NoRoom \notin Room
  BY Constants DEF ChatInv, ChatTypeOK
<1>2. n \in 0..MaxUsers /\ n < MaxUsers
  BY UsersHeld
<1>3. /\ a \in Seq(CountRequests(Home[o]))
      /\ \A s \in Room : Leads(a, UserKey[s], Full(Cardinality(Users(s))),
                                  Full(Cardinality(Users(s) \ {o})))
  BY LeaveAsks
<1>4. n + 1 \in 0..MaxUsers /\ 1 \in {1, -1}
  BY <1>1, <1>2
<1>5. /\ b \in Seq(CountRequests(Home[o])) /\ Leads(b, UserKey[r], Full(n), Full(n + 1))
      /\ \A s \in Room \ {r} : \A v \in Content : Leads(b, UserKey[s], v, v)
  BY <1>2, <1>4, RoomCalls
<1>6. q = a \o b
  OBVIOUS
<1> HIDE DEF a, b
<1>7. q \in Seq(CountRequests(Home[o]))
  BY <1>3, <1>5, <1>6, ConcatProperties
<1>8. ASSUME NEW s \in Room
      PROVE  /\ Cardinality(Users(s)') <= MaxUsers
             /\ IF Owner[s] = Home[o]
                THEN Leads(q, UserKey[s], Full(Cardinality(Users(s))), Full(Cardinality(Users(s)')))
                ELSE Users(s)' = Users(s)
  <2>1. /\ Users(s)' = IF x.room = s THEN Users(s) \cup {o} ELSE Users(s) \ {o}
        /\ o \in Users(s) <=> chat[o].room = s
    BY <1>1, UsersChange
  <2>2. CASE s = r
    <3>1. o \notin Users(r) /\ Users(r) \ {o} = Users(r) /\ Users(r)' = Users(r) \cup {o}
      BY <2>1, <2>2
    <3>2. Cardinality(Users(r)') = n + 1
      BY <3>1, UsersCount
    <3>3. Leads(a, UserKey[r], Full(n), Full(n))
      BY <1>3, <3>1
    <3>4. Leads(q, UserKey[r], Full(n), Full(n + 1))
      BY <1>3, <1>5, <1>6, <3>3, LeadsConcat
    <3> HIDE DEF n
    <3>5. n + 1 <= MaxUsers
      BY <1>1, <1>2
    <3> QED
      BY <2>2, <3>2, <3>4, <3>5 DEF n
  <2>3. CASE s # r
    <3>1. Users(s)' = Users(s) \ {o} /\ Cardinality(Users(s) \ {o}) \in 0..MaxUsers
      BY <2>1, <2>3, UsersHeld
    <3>2. PICK u, v : u = Full(Cardinality(Users(s))) /\ v = Full(Cardinality(Users(s) \ {o}))
      OBVIOUS
    <3>3. Leads(a, UserKey[s], u, v) /\ Leads(b, UserKey[s], v, v)
      BY <1>3, <1>5, <2>3, <3>2, UsersHeld
    <3>4. Leads(q, UserKey[s], u, v)
      BY <1>3, <1>5, <1>6, <3>3, LeadsConcat
    <3>5. Owner[s] # Home[o] => Users(s)' = Users(s)
      BY <1>1, <2>1, <3>1 DEF Object, Proper
    <3> QED
      BY <1>1, <3>1, <3>2, <3>4, <3>5
  <2> QED
    BY <2>2, <2>3
<1> QED
  BY <1>7, <1>8 DEF Counted

\* broadcast_room_join
LEMMA JoinRoomKeeps ==
  ASSUME ChatInv, NEW w \in Client, TakeReply(w), NEW o \in Conn, Head(replies[w]).hook = RoomHook[o],
         NEW r \in Room, Found(o), JoinRoom(o, r), UNCHANGED <<quiting, closing, crashed>>
  PROVE  ChatInv'
<1> DEFINE x == [chat[o] EXCEPT !.room = r]
           n == Cardinality(Users(r))
           again == CallRoom(r, n - 1, 1)
<1>1. /\ Home[o] = w /\ chat[o] \in Chat /\ Object(o) /\ (LoggedIn(chat[o]) \/ Leaves(chat[o]))
      /\ chat[o].life = "live" /\ chat[o].open /\ ~Leaves(chat[o]) /\ Home[o] \notin quiting
  BY ReplyFinds, FoundOpen
<1>2. /\ chat \in [Conn -> Chat] /\ crashed \subseteq Client /\ Owner[r] = Home[o]
      /\ UNCHANGED <<raw, moves>> /\ NoRoom \notin Room /\ MaxUsers \in Nat
  BY Constants DEF ChatInv, ChatTypeOK, JoinRoom
<1>3. LoggedIn(chat[o])
  BY <1>1
<1>4. n \in 0..MaxUsers
  BY UsersHeld
<1>5. /\ x \in Chat /\ x.life = "live" /\ x.open /\ x.room = r /\ x.state = chat[o].state
      /\ x.name = chat[o].name
  BY <1>1 DEF Chat
<1>6. CASE n >= MaxUsers
  <2>1. UNCHANGED <<todo, chat>>
    BY <1>6 DEF JoinRoom
  <2>2. chat' = [chat EXCEPT ![o] = chat[o]]
    BY <1>2, <2>1
  <2>3. Passes
    BY <1>2, <2>1, PassesNothing
  <2>4. Proper(Home[o], chat[o], moves' > 0, Home[o] \in quiting)
    BY <1>1, <1>2 DEF Object
  <2>5. Does(Home[o], <<>>)
    BY <1>1, <2>1, CallbackSilent
  <2> QED
    BY <1>1, <1>2, <1>3, <2>2, <2>3, <2>4, <2>5, SilentKeeps
<1>7. CASE ~(n >= MaxUsers)
  <2>1. chat' = [chat EXCEPT ![o] = x]
    BY <1>2, <1>7 DEF JoinRoom
  <2>2. /\ chat[o].room = r => todo' = [todo EXCEPT ![w] = again]
        /\ chat[o].room # r => todo' = [todo EXCEPT ![w] = LeaveRequests(o) \o CallRoom(r, n, 1)]
    BY <1>1, <1>7 DEF JoinRoom
  <2> HIDE DEF x
  <2>3. (LoggedIn(x) <=> LoggedIn(chat[o])) /\ ~Leaves(x)
    BY <1>1, <1>5 DEF LoggedIn, Leaves
  <2>4. Proper(Home[o], x, moves' > 0, Home[o] \in quiting)
    BY <1>1, <1>2, <1>3, <1>5, <2>3 DEF Object, Proper
  <2>5. Passes
    <3>1. \A p \in Conn : chat'[p].life = chat[p].life
      BY <1>1, <1>2, <1>5, <2>1
    <3> QED
      BY <1>2, <3>1, PassesNothing
  <2>6. ASSUME NEW q \in Seq(CountRequests(Home[o])), Counted(Home[o], q),
               todo' = [todo EXCEPT ![w] = q]
        PROVE  ChatInv'
    <3>1. Home[o] \in Client
      BY <1>1
    <3>2. /\ q \in Seq(ChatRequests(Home[o])) /\ HooksOf(q) \subseteq {NoHook}
          /\ \A k \in Name : ~Has(q, Unsets(k)) /\ HasOne(q, Unsets(k))
      BY <2>6, <3>1, CountRequestsQuiet
    <3>3. Stands(o, x, q)
      BY <1>3, <1>5, <2>3, <2>4, <3>2 DEF Stands
    <3>4. Renames(o, x, q)
      BY <1>3, <1>5, <2>3, <3>2 DEF Renames, Bears
    <3>5. Does(Home[o], q)
      BY <1>1, <2>6, CallbackDoes
    <3> QED
      BY <1>2, <1>5, <2>1, <2>5, <2>6, <3>2, <3>3, <3>4, <3>5, OneKeeps
  <2>7. CASE chat[o].room # r
    <3> DEFINE q == LeaveRequests(o) \o CallRoom(r, n, 1)
    <3>0. /\ Cardinality(Users(r)) < MaxUsers
          /\ q = LeaveRequests(o) \o CallRoom(r, Cardinality(Users(r)), 1)
      BY <1>2, <1>4, <1>7
    <3> HIDE DEF q, n
    <3>1. q \in Seq(CountRequests(Home[o])) /\ Counted(Home[o], q)
      BY <1>2, <1>5, <2>1, <2>7, <3>0, EnterCounted
    <3>2. todo' = [todo EXCEPT ![w] = q]
      BY <2>2, <2>7 DEF q
    <3> QED
      BY <2>6, <3>1, <3>2
  <2>8. CASE chat[o].room = r
    <3>1. o \in Users(r) /\ n >= 1
      BY <2>8, UsersCount DEF Users
    <3> HIDE DEF n
    <3>2. n - 1 \in 0..MaxUsers /\ (n - 1) + 1 = n /\ (n - 1) + 1 \in 0..MaxUsers /\ 1 \in {1, -1}
      BY <1>2, <1>4, <3>1
    <3>3. /\ again \in Seq(CountRequests(Home[o])) /\ Leads(again, UserKey[r], Full(n), Full(n))
          /\ \A s \in Room \ {r} : \A v \in Content : Leads(again, UserKey[s], v, v)
      <4>1. /\ again \in Seq(CountRequests(Owner[r]))
            /\ Leads(again, UserKey[r], Full((n - 1) + 1), Full((n - 1) + 1))
            /\ \A s \in Room \ {r} : \A v \in Content : Leads(again, UserKey[s], v, v)
        BY <3>2, RoomCalls
      <4> QED
        BY <1>2, <3>2, <4>1
    <3> HIDE DEF again
    <3>4. ASSUME NEW s \in Room
          PROVE  /\ Users(s)' = Users(s) /\ Cardinality(Users(s)) <= MaxUsers
                 /\ Leads(again, UserKey[s], Full(Cardinality(Users(s))), Full(Cardinality(Users(s))))
      <4>1. Users(s)' = Users(s)
        BY <1>2, <1>5, <2>1, <2>8 DEF Users
      <4>2. Full(Cardinality(Users(s))) \in Content /\ Cardinality(Users(s)) <= MaxUsers
        BY UsersHeld DEF ChatInv, Rooms
      <4> QED
        BY <3>3, <4>1, <4>2 DEF n
    <3>5. Counted(Home[o], again)
      BY <3>4 DEF Counted
    <3> QED
      BY <2>2, <2>6, <2>8, <3>3, <3>5
  <2> QED
    BY <2>7, <2>8
<1> QED
  BY <1>6, <1>7

\* A socket passed on to a worker that has an object left for it.
LEMMA PassesOn ==
  ASSUME ChatInv, NEW d \in Client, NEW e \in CommandsTo(d), Len(raw[d]) < Cardinality(UnusedAt(d)),
         raw' = [raw EXCEPT ![d] = Append(raw[d], e)],
         \A c \in Client : UnusedAt(c)' = UnusedAt(c),
         moves' \in 0..MaxMoves, moves' = 0 => moves = 0 /\ e = WelcomeCommand
  PROVE  Passes
<1>0. e \in Command
  <2>1. WelcomeCommand \in Command
    BY DEF Command, WelcomeCommand
  <2> QED
    BY <2>1 DEF CommandsTo
<1>1. /\ raw \in [Client -> Seq(Command)] /\ Commands /\ e \in Command
      /\ \A c \in Client : Len(raw[c]) <= Cardinality(UnusedAt(c))
      /\ moves = 0 => \A c \in Client : raw[c] \in Seq({WelcomeCommand})
  BY <1>0 DEF ChatInv, ChatTypeOK, Names
<1>2. ASSUME NEW c \in Client
      PROVE  /\ raw'[c] \in Seq(CommandsTo(c)) /\ Len(raw'[c]) <= Cardinality(UnusedAt(c)')
             /\ moves' = 0 => raw'[c] \in Seq({WelcomeCommand})
  <2>1. raw[c] \in Seq(CommandsTo(c)) /\ Len(raw[c]) <= Cardinality(UnusedAt(c))
    BY <1>1 DEF Commands
  <2>2. CASE c # d
    <3>1. raw'[c] = raw[c]
      BY <1>1, <2>2
    <3> QED
      BY <1>1, <2>1, <3>1
  <2>3. CASE c = d
    <3>1. raw'[d] = Append(raw[d], e)
      BY <1>1
    <3>2. raw'[d] \in Seq(CommandsTo(d)) /\ Len(raw'[d]) = Len(raw[d]) + 1 /\ Len(raw[d]) \in Nat
      BY <2>1, <2>3, <3>1, AppendProperties
    <3>3. Cardinality(UnusedAt(d)) \in Nat
      <4>1. UnusedAt(d) \subseteq Conn
        BY DEF UnusedAt
      <4> QED
        BY <4>1, Constants, FS_Subset, FS_CardinalityType
    <3>4. Len(raw'[d]) <= Cardinality(UnusedAt(d))
      BY <3>2, <3>3
    <3>5. moves' = 0 => raw'[d] \in Seq({WelcomeCommand})
      BY <1>1, <3>1, AppendProperties
    <3> QED
      BY <2>3, <3>2, <3>4, <3>5
  <2> QED
    BY <2>2, <2>3
<1>3. Commands'
  BY <1>2 DEF Commands
<1>4. raw' \in [Client -> Seq(Command)]
  BY <1>1
<1> QED
  BY <1>2, <1>3, <1>4 DEF Passes

\* chat_join_transfer: the object keeps its name, which goes with the socket.
LEMMA TransferKeeps ==
  ASSUME ChatInv, NEW w \in Client, TakeReply(w), NEW o \in Conn, Head(replies[w]).hook = RoomHook[o],
         NEW r \in Room, Found(o), Transfer(o, r), UNCHANGED <<quiting, closing, crashed>>
  PROVE  ChatInv'
<1> DEFINE x == [chat[o] EXCEPT !.room = NoRoom, !.open = FALSE,
                                !.state = chat[o].state \cup {"softquit", "moving"}]
           q == LeaveRequests(o)
           e == [room |-> r, name |-> chat[o].name]
           d == Owner[r]
<1>1. /\ Home[o] = w /\ chat[o] \in Chat /\ Object(o) /\ (LoggedIn(chat[o]) \/ Leaves(chat[o]))
      /\ chat[o].life = "live" /\ chat[o].open /\ ~Leaves(chat[o]) /\ Home[o] \notin quiting
  BY ReplyFinds, FoundOpen
<1>2. /\ chat \in [Conn -> Chat] /\ crashed \subseteq Client /\ d \in Client
      /\ raw \in [Client -> Seq(Command)] /\ Commands /\ moves \in 0..MaxMoves /\ MaxMoves \in Nat
      /\ \A c \in Client : Len(raw[c]) <= Cardinality(UnusedAt(c))
  BY Constants DEF ChatInv, ChatTypeOK
<1>3. /\ moves < MaxMoves /\ moves' = moves + 1 /\ Len(raw[d]) < Cardinality(UnusedAt(d))
      /\ raw' = [raw EXCEPT ![d] = Append(raw[d], e)] /\ todo' = [todo EXCEPT ![w] = q]
      /\ chat' = [chat EXCEPT ![o] = x]
  BY <1>1 DEF Transfer
<1>4. LoggedIn(chat[o]) /\ chat[o].name \in Name
  BY <1>1 DEF Object, Proper
<1>5. /\ x \in Chat /\ x.life = "live" /\ ~x.open /\ x.room = NoRoom /\ x.name = chat[o].name
      /\ x.state = chat[o].state \cup {"softquit", "moving"}
  <2>1. chat[o].state \cup {"softquit", "moving"} \in SUBSET Flag
    BY <1>1 DEF Chat, Flag
  <2> QED
    BY <1>1, <2>1 DEF Chat
<1> HIDE DEF x
<1>6. LoggedIn(x) /\ Leaves(x) /\ "zombie" \notin x.state
  <2>1. "softquit" \in x.state /\ "softquit" \in Leaving
    BY <1>5 DEF Leaving
  <2>2. "zombie" \notin chat[o].state
    BY <1>1 DEF Leaves, Leaving
  <2> QED
    BY <1>4, <1>5, <2>1, <2>2 DEF LoggedIn, Leaves
<1>7. moves' > 0 /\ moves' \in 0..MaxMoves /\ moves' # 0
  BY <1>2, <1>3
<1>8. Proper(Home[o], x, moves' > 0, Home[o] \in quiting)
  BY <1>1, <1>4, <1>5, <1>6, <1>7 DEF Proper
<1>9. Passes
  <2>1. e \in CommandsTo(d)
    BY <1>2, <1>4 DEF CommandsTo, Command
  <2> HIDE DEF e
  <2>2. \A c \in Client : UnusedAt(c)' = UnusedAt(c)
    BY <1>1, <1>2, <1>3, <1>5 DEF UnusedAt
  <2> QED
    BY <1>2, <1>3, <1>7, <2>1, <2>2, PassesOn
<1>10. q = LeaveRequests(o) \o (IF FALSE THEN LogoffRequests(o) ELSE <<>>)
  BY LeaveAsks, ConcatEmptySeq
<1>11. Does(Home[o], q)
  BY <1>1, <1>3, CallbackDoes
<1> HIDE DEF q
<1> QED
  BY <1>2, <1>3, <1>4, <1>5, <1>6, <1>8, <1>9, <1>10, <1>11, GoKeeps

\* on_bubbles of a worker.
LEMMA ReplyKeeps ==
  ASSUME ChatInv, NEW w \in Client, Reply_at(w)
  PROVE  ChatInv'
<1>1. TakeReply(w)
  BY DEF Reply_at
<1> DEFINE a == Head(replies[w])
<1>2. PICK o \in Conn :
        \/ a.hook = LoginHook[o] /\ (LoginReply(o, a) \/ GetFails(o))
        \/ a.hook = RoomHook[o] /\ \E r \in Room : RoomReply(o, r) \/ GetFails(o)
  BY DEF Reply_at
<1>3. CASE a.hook = LoginHook[o] /\ LoginReply(o, a)
  BY <1>1, <1>3, LoginReplyKeeps
<1>4. CASE a.hook \in {LoginHook[o], RoomHook[o]} /\ GetFails(o)
  BY <1>1, <1>4, GetFailsKeeps
<1>5. ASSUME NEW r \in Room, a.hook = RoomHook[o], RoomReply(o, r) PROVE ChatInv'
  BY <1>1, <1>5, JoinRoomKeeps, TransferKeeps DEF RoomReply
<1> QED
  BY <1>2, <1>3, <1>4, <1>5
-----------------------------------------------------------------------------
\* The master accepts a client.
LEMMA AcceptKeeps ==
  ASSUME ChatInv, NEW w \in Client, Accept(w)
  PROVE  ChatInv'
<1>1. /\ UNCHANGED <<vars, chat, quiting, closing, crashed, moves>>
      /\ raw' = [raw EXCEPT ![w] = Append(raw[w], WelcomeCommand)]
      /\ Len(raw[w]) < Cardinality(UnusedAt(w)) /\ moves \in 0..MaxMoves /\ closing \in BOOLEAN
  BY DEF Accept, ChatInv, ChatTypeOK
<1>2. WelcomeCommand \in CommandsTo(w)
  BY DEF CommandsTo
<1>3. \A c \in Client : UnusedAt(c)' = UnusedAt(c)
  BY <1>1 DEF UnusedAt
<1>4. Passes
  BY <1>1, <1>2, <1>3, PassesOn
<1> QED
  BY <1>1, <1>4, RawKeeps

\* The master closes its listener.
LEMMA CloseListenerKeeps ==
  ASSUME ChatInv, CloseListener
  PROVE  ChatInv'
<1>1. UNCHANGED <<vars, chat, raw, quiting, crashed, moves>> /\ closing' \in BOOLEAN
  BY DEF CloseListener
<1>2. Passes
  BY <1>1, PassesNothing
<1> QED
  BY <1>1, <1>2, RawKeeps

\* A worker receives a socket, for which there is an object.
LEMMA ArriveTakes ==
  ASSUME ChatInv, NEW w \in Client, raw[w] # <<>>
  PROVE  /\ UnusedAt(w) # {} /\ Head(raw[w]) \in CommandsTo(w)
         /\ moves = 0 => Head(raw[w]) = WelcomeCommand
         /\ Tail(raw[w]) \in Seq(CommandsTo(w)) /\ Tail(raw[w]) \in Seq(Command)
         /\ moves = 0 => Tail(raw[w]) \in Seq({WelcomeCommand})
         /\ Len(Tail(raw[w])) <= Cardinality(UnusedAt(w))
         /\ \A p \in UnusedAt(w) : Len(Tail(raw[w])) <= Cardinality(UnusedAt(w) \ {p})
<1>1. /\ raw[w] \in Seq(Command) /\ raw[w] \in Seq(CommandsTo(w))
      /\ Len(raw[w]) <= Cardinality(UnusedAt(w)) /\ (moves = 0 => raw[w] \in Seq({WelcomeCommand}))
  BY DEF ChatInv, ChatTypeOK, Commands, Names
<1>2. IsFiniteSet(UnusedAt(w)) /\ Cardinality(UnusedAt(w)) \in Nat
  <2>1. UnusedAt(w) \subseteq Conn
    BY DEF UnusedAt
  <2> QED
    BY <2>1, Constants, FS_Subset, FS_CardinalityType
<1>3. /\ Head(raw[w]) \in CommandsTo(w) /\ Tail(raw[w]) \in Seq(CommandsTo(w))
      /\ Tail(raw[w]) \in Seq(Command)
      /\ Len(Tail(raw[w])) = Len(raw[w]) - 1 /\ Len(raw[w]) \in Nat /\ Len(raw[w]) # 0
  BY <1>1, HeadTailProperties, EmptySeq
<1>4. moves = 0 => Head(raw[w]) = WelcomeCommand /\ Tail(raw[w]) \in Seq({WelcomeCommand})
  BY <1>1, HeadTailProperties
<1>5. UnusedAt(w) # {}
  BY <1>1, <1>2, <1>3, FS_EmptySet
<1>6. ASSUME NEW p \in UnusedAt(w) PROVE Len(Tail(raw[w])) <= Cardinality(UnusedAt(w) \ {p})
  <2>1. Cardinality(UnusedAt(w) \ {p}) = Cardinality(UnusedAt(w)) - 1
    BY <1>2, FS_RemoveElement
  <2> QED
    BY <1>1, <1>2, <1>3, <2>1
<1>7. Len(Tail(raw[w])) <= Cardinality(UnusedAt(w))
  BY <1>1, <1>2, <1>3
<1> QED
  BY <1>3, <1>4, <1>5, <1>6, <1>7

\* What is left to receive, when the socket has gone to object p, or has been dropped.
LEMMA PassesReceived ==
  ASSUME ChatInv, NEW w \in Client, raw[w] # <<>>, raw' = [raw EXCEPT ![w] = Tail(raw[w])],
         moves' = moves, \A c \in Client \ {w} : UnusedAt(c)' = UnusedAt(c),
         UnusedAt(w)' = UnusedAt(w) \/ \E p \in UnusedAt(w) : UnusedAt(w)' = UnusedAt(w) \ {p}
  PROVE  Passes
<1>1. /\ raw \in [Client -> Seq(Command)] /\ Commands /\ moves \in 0..MaxMoves
      /\ \A c \in Client : Len(raw[c]) <= Cardinality(UnusedAt(c))
      /\ moves = 0 => \A c \in Client : raw[c] \in Seq({WelcomeCommand})
  BY DEF ChatInv, ChatTypeOK, Names
<1>2. ASSUME NEW c \in Client
      PROVE  /\ raw'[c] \in Seq(CommandsTo(c)) /\ Len(raw'[c]) <= Cardinality(UnusedAt(c)')
             /\ moves' = 0 => raw'[c] \in Seq({WelcomeCommand})
  <2>1. CASE c # w
    <3>1. raw'[c] = raw[c] /\ UnusedAt(c)' = UnusedAt(c)
      BY <1>1, <2>1
    <3> QED
      BY <1>1, <3>1 DEF Commands
  <2>2. CASE c = w
    <3>1. raw'[w] = Tail(raw[w])
      BY <1>1
    <3> QED
      BY <2>2, <3>1, ArriveTakes
  <2> QED
    BY <2>1, <2>2
<1>3. Commands'
  BY <1>2 DEF Commands
<1>4. raw' \in [Client -> Seq(Command)]
  BY <1>1, ArriveTakes
<1> QED
  BY <1>1, <1>2, <1>3, <1>4 DEF Passes

\* on_connection_bubble
LEMMA ArriveKeeps ==
  ASSUME ChatInv, NEW w \in Client, Arrive(w)
  PROVE  ChatInv'
<1> DEFINE cmd == Head(raw[w])
           r == cmd.room
           enters == r # NoRoom /\ Cardinality(Users(r)) < MaxUsers
           p == CHOOSE o \in UnusedAt(w) : TRUE
           x == IF cmd = WelcomeCommand THEN Fresh ELSE HiddenJoin(cmd, enters)
<1>1. /\ raw[w] # <<>> /\ raw' = [raw EXCEPT ![w] = Tail(raw[w])] /\ todo[w] = <<>>
      /\ UNCHANGED <<quiting, closing, crashed, moves>>
      /\ chat \in [Conn -> Chat] /\ crashed \subseteq Client /\ closing \in BOOLEAN /\ moves \in Nat
  BY Constants DEF Arrive, Ready, ChatInv, ChatTypeOK
<1>2. CASE UNCHANGED <<vars, chat>>
  <2>1. \A c \in Client : UnusedAt(c)' = UnusedAt(c)
    BY <1>2 DEF UnusedAt
  <2>2. Passes
    BY <1>1, <2>1, PassesReceived
  <2> QED
    BY <1>1, <1>2, <2>2, RawKeeps
<1>3. CASE /\ w \notin quiting /\ chat' = [chat EXCEPT ![p] = x]
           /\ IF enters THEN Call(w, CallRoom(r, Cardinality(Users(r)), 1)) ELSE UNCHANGED vars
  <2>1. p \in UnusedAt(w) /\ cmd \in CommandsTo(w) /\ (moves = 0 => cmd = WelcomeCommand)
    BY <1>1, ArriveTakes
  <2> HIDE DEF p, cmd
  <2>2. p \in Conn /\ Home[p] = w /\ chat[p].life = "none" /\ chat[p] = Unused
    BY <2>1 DEF UnusedAt, ChatInv, Object, Proper
  <2>3. /\ Fresh \in Chat /\ Fresh.life = "live" /\ Fresh.open /\ Fresh.state = {}
        /\ Fresh.room = NoRoom
    BY DEF Fresh, Chat
  <2>4. ~LoggedIn(chat[p]) /\ ~Leaves(chat[p]) /\ chat[p].room = NoRoom
    <3>1. Unused.state = {} /\ Unused.room = NoRoom
      BY DEF Unused, Fresh
    <3> QED
      BY <2>2, <3>1 DEF LoggedIn, Leaves
  <2>5. /\ x \in Chat /\ x.life = "live" /\ x.open /\ ~Leaves(x)
        /\ x.room # NoRoom <=> enters
        /\ enters => x.room = r /\ r \in Room /\ Owner[r] = w /\ moves > 0
        /\ x.room # NoRoom => LoggedIn(x)
        /\ LoggedIn(x) => x.name \in Name /\ moves > 0
    <3>1. CASE cmd = WelcomeCommand
      <4>1. x = Fresh /\ r = NoRoom
        BY <3>1 DEF WelcomeCommand
      <4>2. ~LoggedIn(x) /\ ~Leaves(x)
        BY <2>3, <4>1 DEF LoggedIn, Leaves
      <4> HIDE DEF x, r
      <4> QED
        BY <2>3, <4>1, <4>2
    <3>2. CASE cmd # WelcomeCommand
      <4>1. /\ cmd.room \in Room /\ cmd.name \in Name /\ Owner[r] = w /\ moves > 0 /\ NoRoom \notin Room
        BY <1>1, <2>1, <3>2, Constants DEF CommandsTo
      <4>2. x = [Fresh EXCEPT !.login = FALSE, !.state = {"loggedin"}, !.name = cmd.name,
                              !.room = IF enters THEN r ELSE NoRoom]
        BY <3>2 DEF HiddenJoin
      <4> HIDE DEF x
      <4>3. /\ x \in Chat /\ x.life = "live" /\ x.open /\ x.state = {"loggedin"} /\ x.name = cmd.name
            /\ x.room = IF enters THEN r ELSE NoRoom
        BY <4>1, <4>2 DEF Fresh, Chat, Flag
      <4>4. LoggedIn(x) /\ ~Leaves(x)
        BY <4>3 DEF LoggedIn, Leaves, Leaving
      <4> QED
        BY <4>1, <4>3, <4>4
    <3> QED
      BY <3>1, <3>2
  <2> HIDE DEF x
  <2>6. Passes
    <3>1. ASSUME NEW c \in Client
          PROVE  UnusedAt(c)' = IF c = w THEN UnusedAt(w) \ {p} ELSE UnusedAt(c)
      BY <1>1, <1>3, <2>2, <2>5 DEF UnusedAt
    <3> QED
      BY <1>1, <2>1, <3>1, PassesReceived
  <2>7. Proper(Home[p], x, moves' > 0, Home[p] \in quiting)
    BY <1>1, <1>3, <2>2, <2>5 DEF Proper
  <2>8. CASE ~enters
    <3>1. UNCHANGED <<db, inbox, replies, todo, owed>>
      BY <1>3, <2>8 DEF vars
    <3>2. Does(Home[p], <<>>)
      BY <1>1, <2>2, <3>1, ChatIInv, SilentDoes
    <3>3. /\ x.life # "none" /\ x.room = chat[p].room /\ (moves' = 0 => ~LoggedIn(x))
          /\ ~(LoggedIn(chat[p]) \/ Leaves(chat[p]))
      BY <1>1, <2>4, <2>5, <2>8
    <3>4. chat' = [chat EXCEPT ![p] = x] /\ x \in Chat /\ p \in Conn
      BY <1>3, <2>2, <2>5
    <3> QED
      BY <1>1, <2>6, <2>7, <3>2, <3>3, <3>4, SilentKeeps
  <2>9. CASE enters
    <3> DEFINE b == CallRoom(r, Cardinality(Users(r)), 1)
               q == LeaveRequests(p) \o b
    <3>1. x.room = r /\ r \in Room /\ Owner[r] = w /\ moves > 0 /\ Cardinality(Users(r)) < MaxUsers
          /\ chat[p].room # r
      BY <2>4, <2>5, <2>9, Constants
    <3>2. q \in Seq(CountRequests(Home[p])) /\ Counted(Home[p], q)
      <4>1. chat' = [chat EXCEPT ![p] = x] /\ Owner[r] = Home[p] /\ p \in Conn
            /\ q = LeaveRequests(p) \o CallRoom(r, Cardinality(Users(r)), 1)
        BY <1>3, <2>2, <3>1
      <4> HIDE DEF q, r
      <4> QED
        BY <3>1, <4>1, EnterCounted
    <3>3. q = b
      <4>1. LeaveRequests(p) = <<>>
        BY <2>4 DEF LeaveRequests
      <4>2. b \in Seq(CountRequests(w))
        <5>1. Cardinality(Users(r)) \in 0..MaxUsers /\ Cardinality(Users(r)) + 1 \in 0..MaxUsers
              /\ 1 \in {1, -1}
          <6>1. Cardinality(Users(r)) \in 0..MaxUsers /\ MaxUsers \in Nat
            BY <2>2, <3>1, UsersHeld, Constants
          <6> QED
            BY <3>1, <6>1
        <5> QED
          BY <3>1, <5>1, RoomCalls
      <4> HIDE DEF b
      <4>3. <<>> \o b = b
        BY <4>2, ConcatEmptySeq
      <4> QED
        BY <4>1, <4>3
    <3>4. Call(w, b)
      BY <1>3, <2>9
    <3> HIDE DEF q
    <3>5. Does(Home[p], q)
      BY <2>2, <3>3, <3>4, CallDoes
    <3>6. /\ q \in Seq(ChatRequests(Home[p])) /\ HooksOf(q) \subseteq {NoHook}
      BY <2>2, <3>2, CountRequestsQuiet
    <3>7. Stands(p, x, q)
      <4>1. RoomHook[p] # NoHook
        BY <2>2, Constants
      <4> QED
        BY <2>4, <2>5, <2>7, <3>6, <4>1 DEF Stands
    <3>8. moves' # 0
      BY <1>1, <3>1
    <3> QED
      BY <1>1, <1>3, <2>2, <2>5, <2>6, <3>2, <3>5, <3>6, <3>7, <3>8, OneKeeps
  <2> QED
    BY <2>8, <2>9
<1>4. \/ UNCHANGED <<vars, chat>>
      \/ /\ w \notin quiting /\ chat' = [chat EXCEPT ![p] = x]
         /\ IF enters THEN Call(w, CallRoom(r, Cardinality(Users(r)), 1)) ELSE UNCHANGED vars
  BY DEF Arrive
<1> QED
  BY <1>2, <1>3, <1>4
-----------------------------------------------------------------------------
\* The function that FlattenSeq puts n sequences together with.
Flattens(s, n, f) == f = [i \in 1..n |-> IF i = 1 THEN s[i] ELSE f[i - 1] \o s[i]]

\* There is one, for any number of them.
LEMMA FlattensExists ==
  ASSUME NEW s, NEW n \in Nat
  PROVE  \E f : Flattens(s, n, f)
<1> DEFINE Bad == {m \in Nat : ~\E f : Flattens(s, m, f)}
<1>1. SUFFICES ASSUME Bad # {} PROVE FALSE
  OBVIOUS
<1>2. PICK m \in Bad : \A k \in Bad : m <= k
  BY <1>1, LeastNatural
<1>3. CASE m = 0
  <2> DEFINE f == [k \in 1..0 |-> s]
  <2>1. Flattens(s, 0, f)
    BY DEF Flattens
  <2> QED
    BY <1>3, <2>1
<1>4. CASE m # 0
  <2>1. m - 1 \in Nat /\ m - 1 \notin Bad
    BY <1>2, <1>4
  <2>2. PICK f : Flattens(s, m - 1, f)
    BY <2>1
  <2> DEFINE g == [k \in 1..m |-> IF k = m THEN (IF m = 1 THEN s[m] ELSE f[m - 1] \o s[m]) ELSE f[k]]
  <2>3. ASSUME NEW k \in 1..m
        PROVE  g[k] = IF k = 1 THEN s[k] ELSE g[k - 1] \o s[k]
    <3>1. k = m /\ k # 1 => g[k - 1] = f[m - 1]
      BY <1>4, <2>1
    <3>2. k # m => k \in 1..(m - 1) /\ g[k] = f[k] /\ (k # 1 => g[k - 1] = f[k - 1])
      BY <1>4, <2>1
    <3>3. CASE k = m
      <4>1. g[k] = IF m = 1 THEN s[m] ELSE f[m - 1] \o s[m]
        BY <3>3
      <4> HIDE DEF g
      <4> QED
        BY <3>1, <3>3, <4>1
    <3>4. CASE k # m
      <4> HIDE DEF g
      <4>1. f[k] = IF k = 1 THEN s[k] ELSE f[k - 1] \o s[k]
        BY <2>2, <3>2, <3>4 DEF Flattens
      <4> QED
        BY <3>2, <3>4, <4>1
    <3> QED
      BY <3>3, <3>4
  <2>4. g = [k \in 1..m |-> g[k]]
    OBVIOUS
  <2> HIDE DEF g
  <2>5. Flattens(s, m, g)
    BY <2>3, <2>4 DEF Flattens
  <2> QED
    BY <1>2, <2>5
<1> QED
  BY <1>3, <1>4

\* FlattenSeq puts one sequence after the other.
LEMMA FlattenSteps ==
  ASSUME NEW T, NEW s \in Seq(Seq(T))
  PROVE  \E g : /\ g[0] = <<>> /\ FlattenSeq(s) = g[Len(s)]
                /\ \A n \in 1..Len(s) : g[n] = g[n - 1] \o s[n]
<1> DEFINE L == Len(s)
           f == CHOOSE h : Flattens(s, L, h)
           none == <<>>
           g == [n \in 0..L |-> IF n = 0 THEN none ELSE f[n]]
<1>1. L \in Nat /\ \A n \in 1..L : s[n] \in Seq(T)
  OBVIOUS
<1>2. Flattens(s, L, f)
  BY <1>1, FlattensExists
<1>3. FlattenSeq(s) = IF L = 0 THEN s ELSE f[L]
  BY DEF FlattenSeq, Flattens
<1> HIDE DEF f
<1>4. L = 0 => s = none
  BY EmptySeq
<1> HIDE DEF L, none
<1>5. g[0] = none /\ \A n \in 1..L : g[n] = f[n]
  BY <1>1
<1>6. FlattenSeq(s) = g[L]
  BY <1>1, <1>3, <1>4, <1>5
<1>7. ASSUME NEW n \in 1..L PROVE g[n] = g[n - 1] \o s[n]
  <2>1. f[n] = IF n = 1 THEN s[n] ELSE f[n - 1] \o s[n]
    BY <1>2 DEF Flattens
  <2>2. CASE n = 1
    <3>1. none \o s[1] = s[1]
      BY <1>1, <2>2, ConcatEmptySeq DEF none
    <3>2. g[n] = s[1] /\ g[n - 1] = none
      BY <1>5, <2>1, <2>2
    <3> HIDE DEF g
    <3> QED
      BY <2>2, <3>1, <3>2
  <2>3. CASE n # 1
    <3>1. n - 1 \in 1..L
      BY <1>1, <2>3
    <3>2. g[n] = f[n] /\ g[n - 1] = f[n - 1]
      BY <1>5, <3>1
    <3> HIDE DEF g
    <3> QED
      BY <2>1, <2>3, <3>2
  <2> QED
    BY <2>2, <2>3
<1> HIDE DEF g
<1> QED
  BY <1>5, <1>6, <1>7 DEF L, none

\* The order in which a soft quit closes: every object once.
LEMMA OrderAll ==
  ASSUME NEW S, IsFiniteSet(S), NEW order \in SetToSeqs(S)
  PROVE  /\ order \in Seq(S) /\ DOMAIN order = 1..Len(order)
         /\ \A i, j \in 1..Len(order) : order[i] = order[j] => i = j
         /\ \A o \in S : \E i \in 1..Len(order) : order[i] = o
<1> DEFINE n == Cardinality(S)
<1>1. n \in Nat
  BY FS_CardinalityType
<1>2. order \in [1..n -> S] /\ \A i, j \in 1..n : order[i] = order[j] => i = j
  BY DEF SetToSeqs
<1>3. IsFiniteSet(1..n) /\ Cardinality(1..n) = n
  BY <1>1, FS_Interval
<1>4. order \in Injection(1..n, S)
  BY <1>2 DEF Injection, IsInjective
<1>5. order \in Surjection(1..n, S)
  BY <1>3, <1>4, FS_Injection
<1>6. \A o \in S : \E i \in 1..n : order[i] = o
  BY <1>5 DEF Surjection
<1> HIDE DEF n
<1>7. order \in Seq(S) /\ Len(order) = n
  BY <1>1, <1>2
<1> QED
  BY <1>2, <1>6, <1>7

\* Who is in room r, of those that come n-th or later; and what the n-th asks for.
Rest(order, r, n) == {m \in n..Len(order) : chat[order[m]].room = r}
AsksNth(order, n) ==
  (IF chat[order[n]].room = NoRoom THEN <<>>
   ELSE CallRoom(chat[order[n]].room, Cardinality(Rest(order, chat[order[n]].room, n)), -1))
  \o (IF LoggedIn(chat[order[n]]) THEN LogoffRequests(order[n]) ELSE <<>>)

\* There is one less in the room of the n-th after it.
LEMMA RestCount ==
  ASSUME NEW order \in Seq(Conn), NEW r, NEW n \in 1..Len(order)
  PROVE  /\ Cardinality(Rest(order, r, n)) \in Nat
         /\ Cardinality(Rest(order, r, n)) <= Cardinality(Rest(order, r, 1))
         /\ Cardinality(Rest(order, r, n + 1))
              = IF chat[order[n]].room = r THEN Cardinality(Rest(order, r, n)) - 1
                ELSE Cardinality(Rest(order, r, n))
         /\ chat[order[n]].room = r => Cardinality(Rest(order, r, n)) >= 1
<1> DEFINE A == Rest(order, r, 1)
           B == Rest(order, r, n)
           C == Rest(order, r, n + 1)
<1>1. Len(order) \in Nat
  OBVIOUS
<1>2. /\ B \subseteq A /\ C = B \ {n} /\ A \subseteq 1..Len(order)
      /\ n \in B <=> chat[order[n]].room = r
  BY <1>1 DEF Rest
<1> HIDE DEF A, B, C
<1>3. IsFiniteSet(A)
  <2>1. IsFiniteSet(1..Len(order))
    BY <1>1, FS_Interval
  <2> QED
    BY <1>2, <2>1, FS_Subset
<1>4. IsFiniteSet(B) /\ Cardinality(B) <= Cardinality(A)
  BY <1>2, <1>3, FS_Subset
<1>5. Cardinality(B) \in Nat
  BY <1>4, FS_CardinalityType
<1>6. Cardinality(C) = IF n \in B THEN Cardinality(B) - 1 ELSE Cardinality(B)
  BY <1>2, <1>4, FS_RemoveElement
<1>7. n \in B => Cardinality(B) # 0
  BY <1>4, FS_EmptySet
<1>8. n \in B => Cardinality(B) >= 1
  BY <1>5, <1>7
<1> QED
  BY <1>2, <1>4, <1>5, <1>6, <1>8 DEF A, B, C

\* What the n-th asks for counts it out of its room, and gives its name back.
LEMMA NthAsks ==
  ASSUME ChatInv, NEW w \in Client, NEW order \in Seq(Conn), NEW n \in 1..Len(order),
         Home[order[n]] = w, \A r \in Room : Cardinality(Rest(order, r, 1)) <= MaxUsers
  PROVE  /\ AsksNth(order, n) \in Seq(ChatRequests(w)) /\ HooksOf(AsksNth(order, n)) \subseteq {NoHook}
         /\ \A r \in Room : Leads(AsksNth(order, n), UserKey[r], Full(Cardinality(Rest(order, r, n))),
                                  Full(Cardinality(Rest(order, r, n + 1))))
         /\ \A k \in Name : /\ HasOne(AsksNth(order, n), Unsets(k))
                            /\ Has(AsksNth(order, n), Unsets(k)) <=> Bears(order[n], k)
<1> DEFINE o == order[n]
           s == chat[o].room
           l == Cardinality(Rest(order, s, n))
           none == <<>>
           a == IF s = NoRoom THEN none ELSE CallRoom(s, l, -1)
           off == LoggedIn(chat[o])
           q == AsksNth(order, n)
<1>1. o \in Conn /\ Home[o] = w
  OBVIOUS
<1>2. q = a \o (IF off THEN LogoffRequests(o) ELSE <<>>) /\ off \in BOOLEAN
  BY DEF AsksNth, LoggedIn
<1>3. /\ s \in Room \cup {NoRoom} /\ NoRoom \notin Room /\ (s # NoRoom => Owner[s] = w)
      /\ off => chat[o].name \in Name
  <2>1. Object(o) /\ chat \in [Conn -> Chat]
    BY <1>1 DEF ChatInv, ChatTypeOK
  <2> QED
    BY <1>1, <2>1, Constants DEF Object, Proper, Chat
<1>4. ASSUME NEW r \in Room
      PROVE  /\ Cardinality(Rest(order, r, n)) \in 0..MaxUsers
             /\ Full(Cardinality(Rest(order, r, n))) \in Content
  <2>1. Cardinality(Rest(order, r, n)) \in Nat
        /\ Cardinality(Rest(order, r, n)) <= Cardinality(Rest(order, r, 1))
        /\ Cardinality(Rest(order, r, 1)) \in Nat /\ Cardinality(Rest(order, r, 1)) <= MaxUsers
        /\ MaxUsers \in Nat /\ 0..MaxUsers \subseteq Value
    <3>1. 1 \in 1..Len(order)
      OBVIOUS
    <3> QED
      BY <3>1, RestCount, Constants
  <2>2. Cardinality(Rest(order, r, n)) \in 0..MaxUsers
    BY <2>1
  <2> QED
    BY <2>1, <2>2, FullContent
<1> HIDE DEF o, q
<1>5. /\ a \in Seq(CountRequests(w))
      /\ \A r \in Room : Leads(a, UserKey[r], Full(Cardinality(Rest(order, r, n))),
                               Full(Cardinality(Rest(order, r, n + 1))))
  <2>1. CASE s = NoRoom
    <3>1. a = none /\ none \in Seq(CountRequests(w))
      BY <2>1
    <3>2. ASSUME NEW r \in Room
          PROVE  Leads(none, UserKey[r], Full(Cardinality(Rest(order, r, n))),
                       Full(Cardinality(Rest(order, r, n + 1))))
      <4>1. Cardinality(Rest(order, r, n + 1)) = Cardinality(Rest(order, r, n))
        BY <1>3, <2>1, RestCount DEF o
      <4> QED
        BY <1>4, <4>1, LeadsEmpty
    <3> HIDE DEF none, a
    <3> QED
      BY <3>1, <3>2
  <2>2. CASE s # NoRoom
    <3>1. s \in Room /\ a = CallRoom(s, l, -1) /\ Owner[s] = w
      BY <1>3, <2>2
    <3>2. l \in 0..MaxUsers /\ l >= 1 /\ Cardinality(Rest(order, s, n + 1)) = l - 1 /\ MaxUsers \in Nat
      BY <1>4, <3>1, RestCount, Constants DEF o
    <3> HIDE DEF l
    <3>3. l + -1 \in 0..MaxUsers /\ l + -1 = l - 1
      BY <3>2
    <3> HIDE DEF a
    <3>4. /\ a \in Seq(CountRequests(w))
          /\ Leads(a, UserKey[s], Full(l), Full(l + -1))
          /\ \A r \in Room \ {s} : \A v \in Content : Leads(a, UserKey[r], v, v)
      BY <3>1, <3>2, <3>3, RoomCalls
    <3>5. ASSUME NEW r \in Room
          PROVE  Leads(a, UserKey[r], Full(Cardinality(Rest(order, r, n))),
                       Full(Cardinality(Rest(order, r, n + 1))))
      <4>1. CASE r = s
        BY <3>2, <3>3, <3>4, <4>1 DEF l
      <4>2. CASE r # s
        <5>1. Cardinality(Rest(order, r, n + 1)) = Cardinality(Rest(order, r, n))
          BY <4>2, RestCount DEF o
        <5> QED
          BY <1>4, <3>4, <4>2, <5>1
      <4> QED
        BY <4>1, <4>2
    <3> QED
      BY <3>4, <3>5
  <2> QED
    BY <2>1, <2>2
<1> HIDE DEF a
<1>6. /\ q \in Seq(ChatRequests(w)) /\ HooksOf(q) \subseteq {NoHook}
      /\ \A r \in Room : \A u, v : Leads(a, UserKey[r], u, v) => Leads(q, UserKey[r], u, v)
      /\ \A k \in Name : /\ HasOne(q, Unsets(k))
                         /\ Has(q, Unsets(k)) <=> off /\ chat[o].name = k
  <2>1. a \in Seq(CountRequests(Home[o])) /\ o \in Conn /\ (off => chat[o].name \in Name)
    BY <1>1, <1>3, <1>5
  <2> HIDE DEF off
  <2>2. /\ q \in Seq(ChatRequests(Home[o])) /\ HooksOf(q) \subseteq {NoHook}
        /\ \A r \in Room : \A u, v : Leads(a, UserKey[r], u, v) => Leads(q, UserKey[r], u, v)
        /\ \A k \in Name : /\ HasOne(q, Unsets(k))
                           /\ Has(q, Unsets(k)) <=> off /\ chat[o].name = k
    BY <1>2, <2>1, OffAsks
  <2> QED
    BY <1>1, <2>2
<1>7. \A k \in Name : Has(q, Unsets(k)) <=> Bears(o, k)
  BY <1>6 DEF Bears
<1> QED
  BY <1>5, <1>6, <1>7 DEF o, q
-----------------------------------------------------------------------------
\* What the first n ask for, one after the other: they count themselves out, and give back
\* the names they bear, each once if nobody bears it twice.
AskedBy(w, order, n, q) ==
  /\ q \in Seq(ChatRequests(w)) /\ HooksOf(q) \subseteq {NoHook}
  /\ \A r \in Room : Leads(q, UserKey[r], Full(Cardinality(Rest(order, r, 1))),
                           Full(Cardinality(Rest(order, r, n + 1))))
  /\ \A k \in Name :
       /\ Has(q, Unsets(k)) => \E m \in 1..n : Bears(order[m], k)
       /\ (\A o, p \in Conn : Bears(o, k) /\ Bears(p, k) => o = p) => HasOne(q, Unsets(k))

\* The requests of one more.
LEMMA AskedMoreBy ==
  ASSUME ChatInv, NEW w \in Client, NEW order \in Seq(Conn), NEW n \in 1..Len(order),
         \A i \in 1..Len(order) : Home[order[i]] = w,
         \A i, j \in 1..Len(order) : order[i] = order[j] => i = j,
         \A r \in Room : Cardinality(Rest(order, r, 1)) <= MaxUsers,
         NEW p, AskedBy(w, order, n - 1, p)
  PROVE  AskedBy(w, order, n, p \o AsksNth(order, n))
<1> DEFINE b == AsksNth(order, n)
           q == p \o b
           T == ChatRequests(w)
<1>1. /\ b \in Seq(T) /\ HooksOf(b) \subseteq {NoHook}
      /\ \A r \in Room : Leads(b, UserKey[r], Full(Cardinality(Rest(order, r, n))),
                               Full(Cardinality(Rest(order, r, n + 1))))
      /\ \A k \in Name : HasOne(b, Unsets(k)) /\ (Has(b, Unsets(k)) <=> Bears(order[n], k))
  BY NthAsks
<1>2. /\ p \in Seq(T) /\ HooksOf(p) \subseteq {NoHook} /\ (n - 1) + 1 = n
      /\ \A r \in Room : Leads(p, UserKey[r], Full(Cardinality(Rest(order, r, 1))),
                               Full(Cardinality(Rest(order, r, (n - 1) + 1))))
      /\ \A k \in Name :
           /\ Has(p, Unsets(k)) => \E m \in 1..(n - 1) : Bears(order[m], k)
           /\ (\A o, c \in Conn : Bears(o, k) /\ Bears(c, k) => o = c) => HasOne(p, Unsets(k))
  BY DEF AskedBy
<1> HIDE DEF b
<1>3. q \in Seq(T) /\ HooksOf(q) \subseteq {NoHook}
  <2>1. HooksOf(q) = HooksOf(p) \cup HooksOf(b)
    BY <1>1, <1>2, HasConcat
  <2>2. q \in Seq(T)
    BY <1>1, <1>2, ConcatProperties
  <2> QED
    BY <1>1, <1>2, <2>1, <2>2
<1>4. ASSUME NEW r \in Room
      PROVE  Leads(q, UserKey[r], Full(Cardinality(Rest(order, r, 1))),
                   Full(Cardinality(Rest(order, r, n + 1))))
  <2>1. Leads(p, UserKey[r], Full(Cardinality(Rest(order, r, 1))), Full(Cardinality(Rest(order, r, n))))
    BY <1>2
  <2> QED
    BY <1>1, <1>2, <2>1, LeadsConcat
<1>5. ASSUME NEW k \in Name
      PROVE  /\ Has(q, Unsets(k)) => \E m \in 1..n : Bears(order[m], k)
             /\ (\A o, c \in Conn : Bears(o, k) /\ Bears(c, k) => o = c) => HasOne(q, Unsets(k))
  <2>1. /\ Has(q, Unsets(k)) <=> Has(p, Unsets(k)) \/ Has(b, Unsets(k))
        /\ HasOne(p, Unsets(k)) /\ HasOne(b, Unsets(k)) /\ ~(Has(p, Unsets(k)) /\ Has(b, Unsets(k)))
             => HasOne(q, Unsets(k))
    BY <1>1, <1>2, HasConcat
  <2>2. Has(q, Unsets(k)) => \E m \in 1..n : Bears(order[m], k)
    <3>1. n \in 1..n /\ 1..(n - 1) \subseteq 1..n
      OBVIOUS
    <3> QED
      BY <1>1, <1>2, <2>1, <3>1
  <2>3. ASSUME \A o, c \in Conn : Bears(o, k) /\ Bears(c, k) => o = c PROVE HasOne(q, Unsets(k))
    <3>1. ASSUME Has(p, Unsets(k)), Has(b, Unsets(k)) PROVE FALSE
      <4>1. PICK m \in 1..(n - 1) : Bears(order[m], k)
        BY <1>2, <3>1
      <4>2. Bears(order[n], k)
        BY <1>1, <3>1
      <4>3. m \in 1..Len(order) /\ m # n /\ order[m] \in Conn /\ order[n] \in Conn
        OBVIOUS
      <4> QED
        BY <2>3, <4>1, <4>2, <4>3
    <3> QED
      BY <1>1, <1>2, <2>1, <2>3, <3>1
  <2> QED
    BY <2>2, <2>3
<1> HIDE DEF q
<1>6. AskedBy(w, order, n, q)
  BY <1>3, <1>4, <1>5 DEF AskedBy
<1> QED
  BY <1>6 DEF q, b

\* They are finitely many.
LEMMA RestFinite ==
  ASSUME NEW order \in Seq(Conn), NEW r
  PROVE  Cardinality(Rest(order, r, 1)) \in Nat
<1> DEFINE L == Len(order)
<1>1. L \in Nat /\ Rest(order, r, 1) \subseteq 1..L
  BY DEF Rest
<1> HIDE DEF L
<1>2. IsFiniteSet(1..L)
  BY <1>1, FS_Interval
<1> QED
  BY <1>1, <1>2, FS_Subset, FS_CardinalityType

\* The requests of all.
LEMMA AllAsk ==
  ASSUME ChatInv, NEW w \in Client, NEW order \in Seq(Conn),
         \A i \in 1..Len(order) : Home[order[i]] = w,
         \A i, j \in 1..Len(order) : order[i] = order[j] => i = j,
         \A r \in Room : Cardinality(Rest(order, r, 1)) <= MaxUsers
  PROVE  AskedBy(w, order, Len(order), FlattenSeq([n \in 1..Len(order) |-> AsksNth(order, n)]))
<1> DEFINE L == Len(order)
           s == [n \in 1..L |-> AsksNth(order, n)]
           none == <<>>
<1>1. L \in Nat
  OBVIOUS
<1>2. s \in Seq(Seq(ChatRequests(w))) /\ Len(s) = L /\ \A n \in 1..L : s[n] = AsksNth(order, n)
  <2>1. \A n \in 1..L : AsksNth(order, n) \in Seq(ChatRequests(w))
    BY NthAsks
  <2> QED
    BY <1>1, <2>1
<1> HIDE DEF s
<1>3. PICK g : /\ g[0] = none /\ FlattenSeq(s) = g[L]
               /\ \A n \in 1..L : g[n] = g[n - 1] \o s[n]
  <2> HIDE DEF none
  <2>1. s \in Seq(Seq(ChatRequests(w))) /\ Len(s) = L
    BY <1>2
  <2>2. PICK g : /\ g[0] = <<>> /\ FlattenSeq(s) = g[Len(s)]
                 /\ \A n \in 1..Len(s) : g[n] = g[n - 1] \o s[n]
    BY <2>1, FlattenSteps
  <2>3. g[0] = none /\ FlattenSeq(s) = g[L] /\ \A n \in 1..L : g[n] = g[n - 1] \o s[n]
    BY <2>1, <2>2 DEF none
  <2> QED
    BY <2>3
<1> DEFINE Bad == {n \in 0..L : ~AskedBy(w, order, n, g[n])}
<1>4. ASSUME Bad # {} PROVE FALSE
  <2>1. PICK n \in Bad : \A i \in Bad : n <= i
    BY <1>1, <1>4, LeastNatural, Bad \in SUBSET Nat
  <2>2. CASE n = 0
    <3>1. none \in Seq(ChatRequests(w))
      OBVIOUS
    <3>2. HooksOf(none) = {} /\ \A k \in Name : ~Has(none, Unsets(k)) /\ HasOne(none, Unsets(k))
      BY HasEmpty
    <3>3. ASSUME NEW r \in Room
          PROVE  Leads(none, UserKey[r], Full(Cardinality(Rest(order, r, 1))),
                       Full(Cardinality(Rest(order, r, 0 + 1))))
      <4>1. Cardinality(Rest(order, r, 1)) \in 0..MaxUsers
        BY RestFinite, Constants
      <4>2. Full(Cardinality(Rest(order, r, 1))) \in Content
        BY <4>1, Constants, FullContent
      <4>3. 0 + 1 = 1
        OBVIOUS
      <4> QED
        BY <4>2, <4>3, LeadsEmpty
    <3> HIDE DEF none
    <3>4. AskedBy(w, order, 0, none)
      BY <3>1, <3>2, <3>3 DEF AskedBy
    <3> QED
      BY <1>3, <2>1, <2>2, <3>4
  <2>3. CASE n # 0
    <3>1. n \in 1..L /\ n - 1 \in 0..L /\ ~(n <= n - 1)
      BY <1>1, <2>1, <2>3
    <3>2. AskedBy(w, order, n - 1, g[n - 1])
      BY <2>1, <3>1
    <3>3. AskedBy(w, order, n, g[n - 1] \o AsksNth(order, n))
      BY <3>1, <3>2, AskedMoreBy
    <3> QED
      BY <1>2, <1>3, <2>1, <3>1, <3>3
  <2> QED
    BY <2>2, <2>3
<1>5. AskedBy(w, order, L, g[L])
  BY <1>1, <1>4
<1> QED
  BY <1>3, <1>5 DEF s
-----------------------------------------------------------------------------
\* What a soft quit of worker w closes, and in what order.
ClosedBy(w, order) ==
  /\ order \in Seq(Conn)
  /\ \A i \in 1..Len(order) : Home[order[i]] = w
  /\ \A i, j \in 1..Len(order) : order[i] = order[j] => i = j
  /\ \A o \in Conn : Home[o] = w /\ chat[o].open => \E i \in 1..Len(order) : order[i] = o

\* The users of a room of this worker are among them.
LEMMA ClosedUsers ==
  ASSUME ChatInv, NEW w \in Client, NEW order, ClosedBy(w, order), NEW r \in Room
  PROVE  Cardinality(Rest(order, r, 1)) = IF Owner[r] = w THEN Cardinality(Users(r)) ELSE 0
<1> DEFINE R == Rest(order, r, 1)
           U == Users(r)
           f == [m \in R |-> order[m]]
<1>1. /\ order \in Seq(Conn) /\ Len(order) \in Nat
      /\ R \subseteq 1..Len(order) /\ \A m \in R : order[m] \in Conn /\ chat[order[m]].room = r
      /\ \A m \in 1..Len(order) : chat[order[m]].room = r => m \in R
  BY DEF ClosedBy, Rest
<1>2. NoRoom \notin Room
  BY Constants
<1>3. \A o \in Conn : chat[o].room = r => chat[o].open /\ Owner[r] = Home[o]
  BY <1>2 DEF ChatInv, Object, Proper
<1> HIDE DEF R
<1>4. IsFiniteSet(R)
  <2>1. IsFiniteSet(1..Len(order))
    BY <1>1, FS_Interval
  <2> QED
    BY <1>1, <2>1, FS_Subset
<1>5. CASE Owner[r] = w
  <2>1. U \subseteq Conn /\ \A o \in U : \E m \in R : order[m] = o
    BY <1>1, <1>3, <1>5 DEF Users, ClosedBy
  <2>2. \A m \in R : order[m] \in U
    BY <1>1 DEF Users
  <2> HIDE DEF U
  <2>3. f \in Injection(R, U)
    BY <1>1, <2>2 DEF Injection, IsInjective, ClosedBy
  <2>4. f \in Surjection(R, U)
    BY <2>1, <2>2 DEF Surjection
  <2>5. ExistsBijection(R, U)
    BY <2>3, <2>4 DEF ExistsBijection, Bijection
  <2>6. Cardinality(U) = Cardinality(R)
    BY <1>4, <2>5, FS_Bijection
  <2> QED
    BY <1>5, <2>6 DEF R, U
<1>6. CASE Owner[r] # w
  <2>1. R = {}
    BY <1>1, <1>3, <1>6 DEF ClosedBy
  <2>2. Cardinality(R) = 0
    BY <2>1, FS_EmptySet
  <2> QED
    BY <1>6, <2>2 DEF R
<1> QED
  BY <1>5, <1>6

\* Worker w asks for all of them, one after the other.
LEMMA SoftQuitAsks ==
  ASSUME ChatInv, NEW w \in Client, SoftQuit(w)
  PROVE  \E order, q : ClosedBy(w, order) /\ Call(w, q) /\ AskedBy(w, order, Len(order), q)
<1> DEFINE mine == {o \in Conn : Home[o] = w /\ chat[o].life = "live"}
           freed == {o \in mine : "zombie" \in chat[o].state /\ "held" \notin chat[o].state}
           S == mine \ freed
<1>1. PICK order \in SetToSeqs(S) :
        Call(w, FlattenSeq([n \in DOMAIN order |-> AsksNth(order, n)]))
  BY DEF SoftQuit, AsksNth, Rest, LoggedIn
<1>2. /\ S \subseteq Conn /\ \A o \in S : Home[o] = w
      /\ \A o \in Conn : Home[o] = w /\ chat[o].life = "live" /\ "zombie" \notin chat[o].state => o \in S
  OBVIOUS
<1> HIDE DEF S
<1>3. IsFiniteSet(S)
  BY <1>2, Constants, FS_Subset
<1>4. /\ order \in Seq(S) /\ DOMAIN order = 1..Len(order)
      /\ \A i, j \in 1..Len(order) : order[i] = order[j] => i = j
      /\ \A o \in S : \E i \in 1..Len(order) : order[i] = o
  BY <1>1, <1>3, OrderAll
<1>5. order \in Seq(Conn)
  BY <1>2, <1>4, SeqMonotonic
<1>6. \A i \in 1..Len(order) : Home[order[i]] = w
  BY <1>2, <1>4
<1>7. ASSUME NEW o \in Conn, Home[o] = w, chat[o].open PROVE \E i \in 1..Len(order) : order[i] = o
  <2>1. chat[o].life = "live" /\ ~Leaves(chat[o])
    BY <1>7 DEF ChatInv, Object, Proper
  <2>2. "zombie" \notin chat[o].state
    BY <2>1 DEF Leaves, Leaving
  <2> QED
    BY <1>2, <1>4, <1>7, <2>1, <2>2
<1>8. ClosedBy(w, order)
  BY <1>4, <1>5, <1>6, <1>7 DEF ClosedBy
<1>9. ASSUME NEW r \in Room PROVE Cardinality(Rest(order, r, 1)) <= MaxUsers
  <2>1. Cardinality(Users(r)) <= MaxUsers /\ MaxUsers \in Nat
    BY Constants DEF ChatInv, Rooms
  <2> QED
    BY <1>8, <2>1, ClosedUsers
<1> DEFINE q == FlattenSeq([n \in 1..Len(order) |-> AsksNth(order, n)])
<1>10. AskedBy(w, order, Len(order), q)
  BY <1>4, <1>5, <1>6, <1>9, AllAsk
<1>11. Call(w, q)
  BY <1>1, <1>4
<1> HIDE DEF q
<1> QED
  BY <1>8, <1>10, <1>11

\* Every live object of the worker is closed or freed, and no other one changes.
LEMMA SoftQuitCloses ==
  ASSUME ChatInv, NEW w \in Client, SoftQuit(w), NEW o \in Conn
  PROVE  IF Home[o] = w /\ chat[o].life = "live"
         THEN /\ chat'[o] \in Chat /\ chat'[o].life \in {"live", "freed"} /\ chat'[o].room = NoRoom
              /\ ~chat'[o].open /\ ~LoggedIn(chat'[o]) /\ Leaves(chat'[o])
         ELSE chat'[o] = chat[o]
<1>1. chat[o] \in Chat /\ Object(o)
  BY DEF ChatInv, ChatTypeOK
<1>2. chat'[o] = IF Home[o] = w /\ chat[o].life = "live"
                 THEN IF "zombie" \in chat[o].state /\ "held" \notin chat[o].state
                      THEN [chat[o] EXCEPT !.life = "freed"] ELSE Closed(chat[o])
                 ELSE chat[o]
  BY DEF SoftQuit
<1>3. CASE chat[o].life = "live" /\ "zombie" \in chat[o].state
           /\ chat'[o] = [chat[o] EXCEPT !.life = "freed"]
  <2>1. /\ chat'[o] \in Chat /\ chat'[o].life = "freed" /\ chat'[o].room = chat[o].room
        /\ chat'[o].open = chat[o].open /\ chat'[o].state = chat[o].state
    BY <1>1, <1>3 DEF Chat
  <2>2. Leaves(chat[o])
    BY <1>3 DEF Leaves, Leaving
  <2>3. ~chat[o].open /\ ~LoggedIn(chat[o]) /\ chat[o].room = NoRoom
    BY <1>1, <1>3, <2>2 DEF Object, Proper
  <2>4. Leaves(chat'[o]) /\ ~LoggedIn(chat'[o])
    BY <2>1, <2>2, <2>3 DEF Leaves, LoggedIn
  <2> QED
    BY <1>2, <1>3, <2>1, <2>3, <2>4
<1>4. CASE chat[o].life = "live" /\ chat'[o] = Closed(chat[o])
  BY <1>1, <1>2, <1>4, ClosedForms
<1> QED
  BY <1>2, <1>3, <1>4

\* A soft quit of a worker.
LEMMA SoftQuitKeeps ==
  ASSUME ChatInv, NEW w \in Client, SoftQuit(w)
  PROVE  ChatInv'
<1>1. PICK order, q : ClosedBy(w, order) /\ Call(w, q) /\ AskedBy(w, order, Len(order), q)
  BY SoftQuitAsks
<1>2. /\ quiting' = quiting \cup {w} /\ UNCHANGED <<raw, closing, crashed, moves>>
      /\ chat \in [Conn -> Chat] /\ quiting \cup crashed \subseteq Client /\ closing \in BOOLEAN
  BY DEF SoftQuit, ChatInv, ChatTypeOK
<1>3. DOMAIN chat' = Conn /\ chat' = [o \in Conn |-> chat'[o]]
  BY DEF SoftQuit
<1>4. \A o \in Conn : IF Home[o] = w /\ chat[o].life = "live"
                      THEN /\ chat'[o] \in Chat /\ chat'[o].life \in {"live", "freed"}
                           /\ chat'[o].room = NoRoom /\ ~chat'[o].open /\ ~LoggedIn(chat'[o])
                           /\ Leaves(chat'[o])
                      ELSE chat'[o] = chat[o]
  BY SoftQuitCloses
<1>5. chat' \in [Conn -> Chat]
  BY <1>2, <1>3, <1>4
<1>6. Passes
  <2>1. \A o \in Conn : chat'[o].life = "none" <=> chat[o].life = "none"
    BY <1>4
  <2> QED
    BY <1>2, <2>1, PassesNothing
<1>7. q \in Seq(ChatRequests(w)) /\ HooksOf(q) \subseteq {NoHook}
  BY <1>1 DEF AskedBy
<1>8. ASSUME NEW o \in Conn PROVE Stays(o, q)
  <2>1. LoginHook[o] \notin HooksOf(q) /\ RoomHook[o] \notin HooksOf(q)
    BY <1>7, Constants
  <2>2. CASE Home[o] = w /\ chat[o].life = "live"
    <3>1. Object(o)'
      BY <1>4, <2>2, GoneProper DEF Object
    <3> QED
      BY <1>4, <2>1, <2>2, <3>1 DEF Stays
  <2>3. CASE ~(Home[o] = w /\ chat[o].life = "live")
    <3>1. chat'[o] = chat[o] /\ Object(o)
      BY <1>4, <2>3 DEF ChatInv
    <3>2. Object(o)'
      BY <1>2, <2>3, <3>1 DEF Object, Proper
    <3> QED
      BY <2>1, <3>1, <3>2 DEF Stays
  <2> QED
    BY <2>2, <2>3
<1>9. ASSUME NEW r \in Room
      PROVE  /\ Cardinality(Users(r)') <= MaxUsers
             /\ IF Owner[r] = w
                THEN Leads(q, UserKey[r], Full(Cardinality(Users(r))), Full(Cardinality(Users(r)')))
                ELSE Users(r)' = Users(r)
  <2>1. /\ \A o \in Conn : chat[o].room = r =>
              chat[o].life = "live" /\ Owner[r] = Home[o]
        /\ NoRoom \notin Room /\ MaxUsers \in Nat /\ Cardinality(Users(r)) <= MaxUsers
    BY Constants DEF ChatInv, Object, Proper, Rooms
  <2>2. CASE Owner[r] = w
    <3>1. Users(r)' = {}
      BY <1>4, <2>1, <2>2 DEF Users
    <3>2. Cardinality(Users(r)') = 0
      BY <3>1, FS_EmptySet
    <3>3. Cardinality(Rest(order, r, 1)) = Cardinality(Users(r))
      BY <1>1, <2>2, ClosedUsers
    <3>4. Cardinality(Rest(order, r, Len(order) + 1)) = 0
      <4>1. Rest(order, r, Len(order) + 1) = {}
        BY <1>1 DEF Rest, ClosedBy
      <4> QED
        BY <4>1, FS_EmptySet
    <3>5. Leads(q, UserKey[r], Full(Cardinality(Rest(order, r, 1))),
                   Full(Cardinality(Rest(order, r, Len(order) + 1))))
      BY <1>1 DEF AskedBy
    <3> QED
      BY <2>1, <2>2, <3>2, <3>3, <3>4, <3>5
  <2>3. CASE Owner[r] # w
    <3>1. Users(r)' = Users(r)
      BY <1>4, <2>1, <2>3 DEF Users
    <3> QED
      BY <2>1, <2>3, <3>1
  <2> QED
    BY <2>2, <2>3
<1>10. Counted(w, q)
  BY <1>9 DEF Counted
<1>11. ASSUME moves' = 0, NEW n \in Name PROVE Hands(w, q, n)
  <2>1. \A o, p \in Conn : Bears(o, n) /\ Bears(p, n) => o = p
    BY <1>2, <1>11 DEF ChatInv, Names, Locked, ClaimedOnce
  <2>2. HasOne(q, Unsets(n)) /\ (Has(q, Unsets(n)) => \E m \in 1..Len(order) : Bears(order[m], n))
    BY <1>1, <2>1 DEF AskedBy
  <2>3. \A o \in Conn : Bears(o, n)' => Bears(o, n) /\ ~(Home[o] = w /\ chat[o].life = "live")
    BY <1>4 DEF Bears
  <2>4. ASSUME Has(q, Unsets(n)) PROVE BorneBy(n) /\ ~BorneBy(n)'
    <3>1. PICK m \in 1..Len(order) : Bears(order[m], n)
      BY <2>2, <2>4
    <3>2. order[m] \in Conn /\ Home[order[m]] = w
      BY <1>1 DEF ClosedBy
    <3>3. chat[order[m]].life = "live"
      <4>1. Object(order[m]) /\ LoggedIn(chat[order[m]]) /\ moves = 0
        BY <1>2, <1>11, <3>1, <3>2 DEF ChatInv, Bears
      <4> QED
        BY <4>1 DEF Object, Proper
    <3>4. \A o \in Conn : ~Bears(o, n)'
      BY <2>1, <2>3, <3>1, <3>2, <3>3
    <3> QED
      BY <3>1, <3>2, <3>4 DEF BorneBy
  <2> QED
    BY <2>2, <2>3, <2>4 DEF Hands
<1>12. Does(w, q)
  BY <1>1, CallDoes
<1> QED
  BY <1>2, <1>5, <1>6, <1>7, <1>8, <1>10, <1>11, <1>12, HandlerKeeps
-----------------------------------------------------------------------------
\* At the start nothing is under way and no object is in use.
LEMMA ChatStart ==
  ASSUME ChatInit
  PROVE  ChatInv
<1> DEFINE none == <<>>
<1>1. /\ db = [k \in Key |-> IF \E r \in Room : PidKey[r] = k
                            THEN Pid[Owner[CHOOSE r \in Room : PidKey[r] = k]] ELSE NoValue]
      /\ inbox = none /\ owed = none
      /\ \A c \in Client : todo[c] = none /\ replies[c] = none /\ raw[c] = none
      /\ DOMAIN todo = Client /\ DOMAIN replies = Client /\ DOMAIN raw = Client
      /\ todo = [c \in Client |-> none] /\ replies = [c \in Client |-> none]
      /\ raw = [c \in Client |-> none]
      /\ chat = [o \in Conn |-> Unused] /\ quiting = {} /\ crashed = {} /\ closing = FALSE /\ moves = 0
  BY DEF ChatInit, Starts
<1>2. /\ \A S : none \in Seq(S)
      /\ Len(none) = 0 /\ HooksOf(none) = {}
      /\ \A S : ~Has(none, S) /\ HasOne(none, S)
      /\ \A k \in Key, v \in Content : Leads(none, k, v, v)
  BY HasEmpty, LeadsEmpty
<1> HIDE DEF none
<1>3. db \in [Key -> Content] /\ \A r \in Room : db[UserKey[r]] = NoValue
  <2>1. Pid \in [Client -> Value] /\ Value \subseteq Content /\ NoValue \in Content
    BY ChatAssumption DEF Content
  <2>2. ASSUME NEW k \in Key PROVE db[k] \in Content
    <3>1. CASE \E r \in Room : PidKey[r] = k
      <4>1. (CHOOSE r \in Room : PidKey[r] = k) \in Room
        BY <3>1
      <4> QED
        BY <1>1, <2>1, <3>1, <4>1, Constants
    <3>2. CASE ~\E r \in Room : PidKey[r] = k
      BY <1>1, <2>1, <3>2
    <3> QED
      BY <3>1, <3>2
  <2>3. db = [k \in Key |-> db[k]]
    BY <1>1
  <2>4. \A r \in Room : UserKey[r] \in Key /\ ~\E s \in Room : PidKey[s] = UserKey[r]
    BY Constants
  <2> QED
    BY <1>1, <2>2, <2>3, <2>4
<1>4. /\ Unused \in Chat /\ Unused.life = "none" /\ Unused.room = NoRoom /\ ~Unused.open
      /\ ~LoggedIn(Unused) /\ ~Leaves(Unused)
  BY DEF Unused, Fresh, Chat, Flag, LoggedIn, Leaves
<1>5. ChatTypeOK
  <2>1. TypeOK
    <3>1. none \in Seq(Message) /\ none \in Seq(Reply) /\ 0 <= Capacity /\ 0 <= 1
      BY <1>2, AsyncDbAssumption
    <3>2. replies \in [Client -> Seq(Reply)] /\ todo \in [Client -> Seq(Message)]
      BY <1>1, <3>1
    <3> QED
      BY <1>1, <1>2, <1>3, <3>1, <3>2 DEF TypeOK
  <2>2. \A c \in Client : Cardinality(UnusedAt(c)) \in Nat
    <3>1. \A c \in Client : UnusedAt(c) \subseteq Conn
      BY DEF UnusedAt
    <3> QED
      BY <3>1, Constants, FS_Subset, FS_CardinalityType
  <2>3. ASSUME NEW c \in Client PROVE Len(raw[c]) <= Cardinality(UnusedAt(c))
    <3> DEFINE k == Cardinality(UnusedAt(c))
    <3>1. Len(raw[c]) = 0 /\ k \in Nat
      BY <1>1, <1>2, <2>2
    <3> HIDE DEF k
    <3>2. Len(raw[c]) <= k
      BY <3>1
    <3> QED
      BY <3>2 DEF k
  <2>4. 0 \in 0..MaxMoves
    BY Constants
  <2> QED
    BY <1>1, <1>2, <1>4, <2>1, <2>3, <2>4 DEF ChatTypeOK
<1>6. Requests /\ Commands
  BY <1>1, <1>2 DEF Requests, Commands
<1>7. Underway = {}
  BY <1>1, <1>2 DEF Underway
<1>8. ASSUME NEW o \in Conn PROVE Object(o) /\ Asks(o)
  <2>1. chat[o] = Unused
    BY <1>1
  <2>2. Object(o)
    BY <1>4, <2>1 DEF Object, Proper
  <2>3. Asks(o)
    BY <1>7 DEF Asks
  <2> QED
    BY <2>2, <2>3
<1>9. ASSUME NEW r \in Room PROVE Users(r) = {} /\ Cardinality(Users(r)) = 0
  <2>1. Users(r) = {}
    BY <1>1, <1>4, Constants DEF Users
  <2> QED
    BY <2>1, FS_EmptySet
<1>10. Rooms
  BY <1>9, Constants DEF Rooms
<1>11. Names
  <2>1. ASSUME NEW n \in Name PROVE Locked(n)
    <3>1. \A o \in Conn : ~Bears(o, n)
      BY <1>1, <1>4 DEF Bears
    <3>2. ~Claimed(n)
      BY <1>1, <1>2, <3>1 DEF Claimed, BorneBy, GivenBack, Granted
    <3>3. ClaimedOnce(n)
      BY <1>1, <1>2, <3>1, <3>2 DEF ClaimedOnce, Claimed
    <3> QED
      BY <3>2, <3>3 DEF Locked
  <2> QED
    BY <1>1, <1>2, <2>1 DEF Names
<1>12. Counts
  <2>1. ASSUME NEW r \in Room PROVE Way(UserKey[r], Owner[r], Full(Cardinality(Users(r))))
    <3>1. Full(Cardinality(Users(r))) = NoValue /\ db[UserKey[r]] = NoValue /\ NoValue \in Content
      BY <1>3, <1>9, Constants DEF Full
    <3>2. UserKey[r] \in Key /\ Owner[r] \in Client
      BY Constants
    <3>3. /\ Leads(inbox, UserKey[r], NoValue, NoValue)
          /\ Leads(todo[Owner[r]], UserKey[r], NoValue, NoValue)
      BY <1>1, <1>2, <3>1, <3>2
    <3> QED
      BY <3>1, <3>3 DEF Way
  <2> QED
    BY <2>1 DEF Counts
<1> QED
  BY <1>5, <1>6, <1>8, <1>10, <1>11, <1>12 DEF ChatInv

\* Nothing happens.
LEMMA StutterKeeps ==
  ASSUME ChatInv, UNCHANGED allVars
  PROVE  ChatInv'
<1>1. UNCHANGED <<vars, chat, raw, quiting, closing, crashed, moves>>
  BY DEF allVars, chatVars
<1>2. closing' \in BOOLEAN
  BY <1>1 DEF ChatInv, ChatTypeOK
<1>3. Passes
  BY <1>1, PassesNothing
<1> QED
  BY <1>1, <1>2, <1>3, RawKeeps

\* The inductive invariant holds at every step.
LEMMA ChatInvariance == ChatSpec => []ChatInv
<1>1. ChatInit => ChatInv
  BY ChatStart
<1>2. ChatInv /\ [ChatNext]_allVars => ChatInv'
  <2> SUFFICES ASSUME ChatInv, [ChatNext]_allVars PROVE ChatInv'
    OBVIOUS
  <2>1. CASE Transport /\ UNCHANGED chatVars
    BY <2>1, TransportKeeps
  <2>2. CASE CloseListener
    BY <2>2, CloseListenerKeeps
  <2>3. ASSUME NEW w \in Client, Accept(w) PROVE ChatInv'
    BY <2>3, AcceptKeeps
  <2>4. ASSUME NEW w \in Client, Arrive(w) PROVE ChatInv'
    BY <2>4, ArriveKeeps
  <2>5. ASSUME NEW w \in Client, Reply_at(w) PROVE ChatInv'
    BY <2>5, ReplyKeeps
  <2>6. ASSUME NEW w \in Client, SoftQuit(w) PROVE ChatInv'
    BY <2>6, SoftQuitKeeps
  <2>7. ASSUME NEW o \in Conn, NEW n \in Name, LoginLine(o, n) PROVE ChatInv'
    BY <2>7, LoginLineKeeps
  <2>8. ASSUME NEW o \in Conn, NEW r \in Room, JoinLine(o, r) PROVE ChatInv'
    BY <2>8, JoinLineKeeps
  <2>9. ASSUME NEW o \in Conn, LeaveLine(o) PROVE ChatInv'
    BY <2>9, LeaveLineKeeps
  <2>10. ASSUME NEW o \in Conn, QuitLine(o) PROVE ChatInv'
    BY <2>10, QuitLineKeeps
  <2>11. ASSUME NEW o \in Conn, Disconnect(o) PROVE ChatInv'
    BY <2>11, DisconnectKeeps
  <2>12. ASSUME NEW o \in Conn, Finalize(o) PROVE ChatInv'
    BY <2>12, FinalizeKeeps
  <2>13. CASE UNCHANGED allVars
    BY <2>13, StutterKeeps
  <2> QED
    BY <2>1, <2>2, <2>3, <2>4, <2>5, <2>6, <2>7, <2>8, <2>9, <2>10, <2>11, <2>12, <2>13 DEF ChatNext
<1> QED
  BY <1>1, <1>2, PTL DEF ChatSpec
-----------------------------------------------------------------------------
\* The types of the state; a socket that is passed on always finds an object.
THEOREM ChatTypesCorrect == ChatSpec => []ChatTypeOK
<1>1. ChatInv => ChatTypeOK
  BY DEF ChatInv
<1> QED
  BY <1>1, ChatInvariance, PTL

\* No room is ever over its limit, whether its users come by /join or from another worker
\* (the two checks of NGINZ_MAX_CHAT_ROOM_USER), and its users are logged in and served.
THEOREM RoomsHold == ChatSpec => []RoomHolds
<1>1. ChatInv => RoomHolds
  <2> SUFFICES ASSUME ChatInv PROVE RoomHolds
    OBVIOUS
  <2>1. ASSUME NEW o \in Conn, chat[o].room # NoRoom
        PROVE  chat[o].open /\ "loggedin" \in chat[o].state /\ chat[o].state \cap Leaving = {}
    BY <2>1 DEF ChatInv, Object, Proper, LoggedIn, Leaves
  <2> QED
    BY <2>1 DEF ChatInv, Rooms, RoomHolds
<1> QED
  BY <1>1, ChatInvariance, PTL

\* A worker that has quit keeps every connection closed, whatever answer or command still
\* comes (handle_chat_request, chat_get and on_connection_bubble).
THEOREM SoftQuitStays == ChatSpec => []SoftQuitIsFinal
<1>1. ChatInv => SoftQuitIsFinal
  <2> SUFFICES ASSUME ChatInv, NEW o \in Conn, Home[o] \in quiting, chat[o].life = "live"
               PROVE  ~chat[o].open /\ chat[o].room = NoRoom /\ "loggedin" \notin chat[o].state
    BY DEF SoftQuitIsFinal
  <2> QED
    BY DEF ChatInv, Object, Proper, LoggedIn
<1> QED
  BY <1>1, ChatInvariance, PTL

\* While nobody has moved, who is logged in has the name locked in the database: only the
\* request of the one who bears it gives it back.
THEOREM NamesKept == ChatSpec => []NameKept
<1>1. ChatInv => NameKept
  <2> SUFFICES ASSUME ChatInv, NEW o \in Conn, moves = 0, chat[o].open, "loggedin" \in chat[o].state
               PROVE  db[chat[o].name] # NoValue
    BY DEF NameKept
  <2>1. chat[o].name \in Name /\ LoggedIn(chat[o])
    BY DEF ChatInv, Object, Proper, LoggedIn
  <2>2. Claimed(chat[o].name)
    BY <2>1 DEF Claimed, BorneBy, Bears
  <2> QED
    BY <2>1, <2>2 DEF ChatInv, Names, Locked
<1> QED
  BY <1>1, ChatInvariance, PTL

\* While nobody has moved, two users never have the same name: a name is granted only if
\* it is not set, and set until its one user gives it back.
THEOREM NamesNeverShared == ChatSpec => []NamesUniqueUnmoved
<1>1. ChatInv => NamesUniqueUnmoved
  <2> SUFFICES ASSUME ChatInv, moves = 0, NEW n \in Name PROVE Bearers(n) <= 1
    BY DEF NamesUniqueUnmoved, NamesUnique
  <2> DEFINE A == {o \in Conn : chat[o].open /\ "loggedin" \in chat[o].state /\ chat[o].name = n}
             B == {at \in Client \X (1..Cardinality(Conn)) :
                     at[2] <= Len(raw[at[1]]) /\ raw[at[1]][at[2]].name = n}
  <2>1. \A o, p \in A : o = p
    BY DEF ChatInv, Names, Locked, ClaimedOnce, Bears, LoggedIn
  <2>2. B = {}
    <3> SUFFICES ASSUME NEW c \in Client, NEW i \in 1..Cardinality(Conn), i <= Len(raw[c])
                 PROVE  raw[c][i].name # n
      OBVIOUS
    <3>1. raw[c] \in Seq({WelcomeCommand})
      BY DEF ChatInv, Names
    <3>2. Cardinality(Conn) \in Nat
      BY Constants, FS_CardinalityType
    <3>3. raw[c][i] = WelcomeCommand
      BY <3>1, <3>2
    <3> QED
      BY <3>3, Constants DEF WelcomeCommand
  <2>3. Bearers(n) = Cardinality(A) + Cardinality(B)
    BY DEF Bearers
  <2> HIDE DEF A, B
  <2>4. Cardinality(A) \in {0, 1}
    <3>1. CASE A = {}
      BY <3>1, FS_EmptySet
    <3>2. CASE A # {}
      <4>1. PICK o \in A : A = {o}
        BY <2>1, <3>2
      <4> QED
        BY <4>1, FS_Singleton
    <3> QED
      BY <3>1, <3>2
  <2>5. Cardinality(B) = 0
    BY <2>2, FS_EmptySet
  <2> QED
    BY <2>3, <2>4, <2>5
<1> QED
  BY <1>1, ChatInvariance, PTL

\* The count of a room in the database is no further from its users than there are
\* requests about it under way, whoever joins, moves, quits or is cut off.
THEOREM RoomCountsFollow == ChatSpec => []RoomCountFollows
<1>1. ChatInv => RoomCountFollows
  <2> SUFFICES ASSUME ChatInv PROVE RoomCountFollows
    OBVIOUS
  <2> DEFINE about(q, r) == Cardinality({n \in DOMAIN q : q[n].key = UserKey[r]})
  <2>1. ASSUME NEW r \in Room
        PROVE  /\ Number(db[UserKey[r]]) - Cardinality(Users(r))
                    <= about(inbox, r) + about(todo[Owner[r]], r)
               /\ Cardinality(Users(r)) - Number(db[UserKey[r]])
                    <= about(inbox, r) + about(todo[Owner[r]], r)
    <3>1. PICK v : /\ Leads(inbox, UserKey[r], db[UserKey[r]], v)
                   /\ Leads(todo[Owner[r]], UserKey[r], v, Full(Cardinality(Users(r))))
      BY DEF ChatInv, Counts, Way
    <3>2. inbox \in Seq(Message) /\ todo[Owner[r]] \in Seq(Message)
      BY Constants DEF ChatInv, ChatTypeOK, TypeOK
    <3> DEFINE i == about(inbox, r)
               j == about(todo[Owner[r]], r)
               x == Number(db[UserKey[r]])
               y == Number(v)
               u == Cardinality(Users(r))
    <3>3. u \in Nat /\ Number(Full(u)) = u
      <4>1. Users(r) \subseteq Conn
        BY DEF Users
      <4>2. u \in Nat
        BY <4>1, Constants, FS_Subset, FS_CardinalityType
      <4>3. u # NoValue
        <5>1. u \in 0..MaxUsers
          BY <4>2, Constants DEF ChatInv, Rooms
        <5> QED
          BY <5>1, Constants
      <4> HIDE DEF u
      <4> QED
        BY <4>2, <4>3 DEF Number, Full
    <3>4. i \in Nat /\ x \in Int /\ y \in Int /\ x <= y + i /\ y <= x + i
      BY <3>1, <3>2, LeadsNear
    <3>5. j \in Nat /\ y <= Number(Full(u)) + j /\ Number(Full(u)) <= y + j
      BY <3>1, <3>2, LeadsNear
    <3> HIDE DEF i, j, x, y, u
    <3>6. x - u <= i + j /\ u - x <= i + j
      BY <3>3, <3>4, <3>5
    <3> QED
      BY <3>6 DEF i, j, x, u
  <2> QED
    BY <2>1 DEF RoomCountFollows, Number
<1> QED
  BY <1>1, ChatInvariance, PTL
=============================================================================
