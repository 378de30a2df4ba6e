--------------------------- MODULE RoomCountProofs ---------------------------
(***************************************************************************)
(* Proofs about RoomCount for every set of rooms and workers, every        *)
(* assignment of rooms to workers and every capacity of the sockets: the   *)
(* count in the database follows the list of users of the room.            *)
(*                                                                         *)
(* The argument: what is under way for a room leads from the content of    *)
(* its key to the count its owner keeps, one step of at most 1 for each    *)
(* request.                                                                *)
(***************************************************************************)
EXTENDS RoomCount, AsyncDbProofs

\* A worker has requests about its own rooms only.
OwnedBy(c) == {m \in SentBy(c) : Owner[m.key] = c}
OwnRooms == \A c \in Client : todo[c] \in Seq(OwnedBy(c))

\* What is under way for a room leads from the count that is there to its own.
CountsLead == \A r \in Key : Way(r, Owner[r], Full(users[r]))

RoomIInv == /\ IInv /\ OwnRooms
            /\ users \in [Key -> 0..MaxUsers]
            /\ CountsLead

\* At the start the rooms and the table are empty.
LEMMA RoomStart == ASSUME RoomInit PROVE RoomIInv
<1>1. IInv
  <2>1. db \in [Key -> Content] /\ replies \in [Client -> Seq(Reply)]
        /\ todo \in [Client -> Seq(Message)]
    BY DEF RoomInit, Init, Starts, Content
  <2>2. \A c \in Client : todo[c] = <<>>
    BY DEF RoomInit, Init, Starts
  <2>3. OwnRequests
    BY <2>2, EmptySeq DEF OwnRequests
  <2> QED
    BY <2>1, <2>3, AsyncDbAssumption DEF RoomInit, Init, Starts, IInv, TypeOK
<1>2. \A c \in Client : todo[c] = <<>>
  BY DEF RoomInit, Init, Starts
<1>3. OwnRooms
  BY <1>2, EmptySeq DEF OwnRooms
<1>4. users \in [Key -> 0..MaxUsers]
  BY RoomAssumption DEF RoomInit
<1>5. ASSUME NEW r \in Key
      PROVE  Leads(inbox, r, db[r], NoValue) /\ Leads(todo[Owner[r]], r, NoValue, Full(users[r]))
  <2>1. inbox = <<>> /\ db[r] = NoValue /\ todo[Owner[r]] = <<>> /\ Full(users[r]) = NoValue
    BY <1>2, RoomAssumption DEF RoomInit, Init, Starts, Full
  <2>2. NoValue \in Content
    BY DEF Content
  <2> QED
    BY <2>1, <2>2, LeadsEmpty
<1> QED
  BY <1>1, <1>3, <1>4, <1>5 DEF RoomIInv, CountsLead, Way

\* A call of the owner of the rooms it is about, which leads from each room's count to
\* what the handler has made of it.
LEMMA CallLeads ==
  ASSUME RoomIInv, NEW c \in Client, NEW requests \in Seq(OwnedBy(c)), Call(c, requests),
         users' \in [Key -> 0..MaxUsers],
         \A r \in Key : IF Owner[r] = c THEN Leads(requests, r, Full(users[r]), Full(users'[r]))
                        ELSE users'[r] = users[r]
  PROVE  RoomIInv'
<1>1. IInv'
  <2>1. OwnedBy(c) \subseteq SentBy(c)
    BY DEF OwnedBy
  <2>2. requests \in Seq(SentBy(c))
    BY <2>1, SeqMonotonic
  <2> QED
    BY <2>2, CallType DEF RoomIInv
<1>2. /\ todo[c] = <<>> /\ todo' = [todo EXCEPT ![c] = requests]
      /\ inbox' = inbox /\ db' = db /\ todo \in [Client -> Seq(Message)]
  BY DEF Call, RoomIInv, IInv, TypeOK
<1>3. OwnRooms'
  BY <1>2 DEF RoomIInv, OwnRooms, OwnedBy, SentBy
<1>4. ASSUME NEW r \in Key PROVE Way(r, Owner[r], Full(users[r]))'
  <2>1. PICK w, x : w = Full(users[r]) /\ x = Full(users'[r])
    OBVIOUS
  <2>2. Way(r, Owner[r], w) /\ Owner[r] \in Client
    BY <2>1, RoomAssumption DEF RoomIInv, CountsLead, Way
  <2>3. requests \in Seq(Message)
    <3>1. OwnedBy(c) \subseteq Message
      BY DEF OwnedBy, SentBy
    <3> QED
      BY <3>1, SeqMonotonic
  <2>4. IF c = Owner[r] THEN Leads(requests, r, w, x) ELSE x = w
    BY <2>1
  <2>5. Way(r, Owner[r], x)'
    BY <1>2, <2>2, <2>3, <2>4, AskWay DEF RoomIInv
  <2> QED
    BY <2>1, <2>5
<1> QED
  BY <1>1, <1>3, <1>4 DEF RoomIInv, CountsLead, Way

\* The master executes the first of the requests under way.
LEMMA ServeLeads ==
  ASSUME RoomIInv, Serve, UNCHANGED users
  PROVE  RoomIInv'
<1>1. IInv'
  BY TransportType DEF RoomIInv, Transport
<1>2. todo' = todo
  BY DEF Serve
<1>3. OwnRooms'
  BY <1>2 DEF RoomIInv, OwnRooms, OwnedBy, SentBy
<1>4. ASSUME NEW r \in Key PROVE Way(r, Owner[r], Full(users[r]))'
  <2>1. PICK w : w = Full(users[r]) /\ w = Full(users'[r])
    OBVIOUS
  <2>2. Way(r, Owner[r], w)'
    BY <2>1, ServeWay DEF RoomIInv, CountsLead, Way
  <2> QED
    BY <2>1, <2>2
<1> QED
  BY <1>1, <1>3, <1>4 DEF RoomIInv, CountsLead, Way

\* A request that is sent is the next of those the master has, for its own room; for the
\* rooms of the other workers nothing has changed.
LEMMA SendLeads ==
  ASSUME RoomIInv, NEW c \in Client, Send(c), UNCHANGED users
  PROVE  RoomIInv'
<1>1. IInv'
  BY TransportType DEF RoomIInv, Transport
<1>2. /\ todo \in [Client -> Seq(Message)] /\ todo[c] \in Seq(OwnedBy(c)) /\ todo[c] # <<>>
      /\ todo' = [todo EXCEPT ![c] = Tail(todo[c])]
  BY DEF Send, RoomIInv, IInv, TypeOK, OwnRooms
<1>3. Head(todo[c]) \in OwnedBy(c) /\ Tail(todo[c]) \in Seq(OwnedBy(c))
  BY <1>2
<1>4. OwnRooms'
  BY <1>2, <1>3 DEF RoomIInv, OwnRooms, OwnedBy, SentBy
<1>5. ASSUME NEW r \in Key PROVE Way(r, Owner[r], Full(users[r]))'
  <2>1. PICK w : w = Full(users[r]) /\ w = Full(users'[r])
    OBVIOUS
  <2>2. Way(r, Owner[r], w) /\ Owner[r] \in Client
    BY <2>1, RoomAssumption DEF RoomIInv, CountsLead, Way
  <2>3. c # Owner[r] => Head(todo[c]).key # r
    BY <1>3 DEF OwnedBy
  <2>4. Way(r, Owner[r], w)'
    BY <2>2, <2>3, SendWay DEF RoomIInv
  <2> QED
    BY <2>1, <2>4
<1> QED
  BY <1>1, <1>4, <1>5 DEF RoomIInv, CountsLead, Way

\* What Set_user_count asks is about its room, of its owner.
LEMMA SetCountOwned ==
  ASSUME NEW r \in Key, NEW n \in 0..MaxUsers, NEW d \in {1, -1}, n + d \in 0..MaxUsers
  PROVE  /\ Owner[r] \in Client
         /\ Set_user_count(r, n, d) \in Seq(OwnedBy(Owner[r]))
         /\ \A s \in Key \ {r} : \A v \in Content : Leads(Set_user_count(r, n, d), s, v, v)
<1>1. Owner[r] \in Client
  BY RoomAssumption
<1>2. n \in Value /\ n + d \in Value /\ d \in Int /\ NoHook \in Hook \cup {NoHook}
  BY RoomAssumption, FullContent
<1> DEFINE asked == Set_user_count(r, n, d)
<1>3. asked \in Seq(About(Owner[r], r))
  BY <1>1, <1>2, IncrementType DEF Set_user_count
<1> HIDE DEF asked
<1>4. asked \in Seq(OwnedBy(Owner[r]))
  <2>1. About(Owner[r], r) \subseteq OwnedBy(Owner[r])
    BY DEF About, OwnedBy, SentBy
  <2> QED
    BY <1>3, <2>1, SeqMonotonic
<1>5. ASSUME NEW s \in Key \ {r}, NEW v \in Content PROVE Leads(asked, s, v, v)
  <2>1. \A n_1 \in 1..Len(asked) : asked[n_1].key # s
    <3>1. \A n_1 \in 1..Len(asked) : asked[n_1] \in About(Owner[r], r)
      BY <1>3
    <3> QED
      BY <3>1 DEF About
  <2> QED
    BY <1>3, <2>1, LeadsOther
<1> QED
  BY <1>1, <1>4, <1>5 DEF asked

\* Someone comes, comes again or goes.
LEMMA OneRoom ==
  ASSUME RoomIInv, NEW r \in Key, Join(r) \/ JoinAgain(r) \/ Leave(r)
  PROVE  RoomIInv'
<1>1. users \in [Key -> 0..MaxUsers] /\ users[r] \in 0..MaxUsers /\ MaxUsers \in Nat
  BY RoomAssumption DEF RoomIInv
<1>2. PICK n \in 0..MaxUsers, d \in {1, -1}, k \in 0..MaxUsers :
        /\ n + d \in 0..MaxUsers
        /\ users' = [users EXCEPT ![r] = k]
        /\ Call(Owner[r], Set_user_count(r, n, d))
        /\ Leads(Set_user_count(r, n, d), r, Full(users[r]), Full(k))
  <2>0. Owner[r] \in Client
    BY RoomAssumption
  <2>1. CASE Join(r)
    <3>1. users[r] + 1 \in 0..MaxUsers /\ users' = [users EXCEPT ![r] = users[r] + 1]
          /\ Call(Owner[r], Set_user_count(r, users[r], 1))
      BY <1>1, <2>1 DEF Join
    <3>2. Leads(Set_user_count(r, users[r], 1), r, Full(users[r]), Full(users[r] + 1))
      BY <1>1, <2>0, <3>1, RoomAssumption, IncrementLeads DEF Set_user_count
    <3> QED
      BY <1>1, <3>1, <3>2
  <2>2. CASE JoinAgain(r)
    <3>1. /\ users[r] \in 1..MaxUsers /\ users[r] - 1 \in 0..MaxUsers
          /\ (users[r] - 1) + 1 \in 0..MaxUsers /\ users' = users
          /\ Call(Owner[r], Set_user_count(r, users[r] - 1, 1))
      BY <1>1, <2>2 DEF JoinAgain
    <3>2. Leads(Set_user_count(r, users[r] - 1, 1), r, Full(users[r]), Full(users[r]))
      BY <2>0, <3>1, RoomAssumption, IncrementAgain DEF Set_user_count
    <3>3. users' = [users EXCEPT ![r] = users[r]]
      BY <1>1, <3>1
    <3> QED
      BY <1>1, <3>1, <3>2, <3>3
  <2>3. CASE Leave(r)
    <3>1. users[r] + -1 \in 0..MaxUsers /\ users' = [users EXCEPT ![r] = users[r] + -1]
          /\ Call(Owner[r], Set_user_count(r, users[r], -1))
      <4>1. users[r] > 0 /\ users' = [users EXCEPT ![r] = users[r] - 1]
            /\ Call(Owner[r], Set_user_count(r, users[r], -1))
        BY <2>3, Zenon DEF Leave
      <4>2. users[r] + -1 = users[r] - 1
        BY <1>1
      <4>3. users[r] + -1 \in 0..MaxUsers
        BY <1>1, <4>1
      <4> QED
        BY <4>1, <4>2, <4>3, Zenon
    <3>2. Leads(Set_user_count(r, users[r], -1), r, Full(users[r]), Full(users[r] + -1))
      BY <1>1, <2>0, <3>1, RoomAssumption, IncrementLeads DEF Set_user_count
    <3> QED
      BY <1>1, <3>1, <3>2
  <2> QED
    BY <2>1, <2>2, <2>3
<1> DEFINE asked == Set_user_count(r, n, d)
<1>3. /\ Owner[r] \in Client /\ asked \in Seq(OwnedBy(Owner[r]))
      /\ \A s \in Key \ {r} : \A v \in Content : Leads(asked, s, v, v)
  BY <1>2, SetCountOwned
<1>4. Call(Owner[r], asked) /\ Leads(asked, r, Full(users[r]), Full(k))
  BY <1>2
<1> HIDE DEF asked
<1>5. users' \in [Key -> 0..MaxUsers]
  BY <1>1, <1>2
<1>6. ASSUME NEW s \in Key
      PROVE  IF Owner[s] = Owner[r] THEN Leads(asked, s, Full(users[s]), Full(users'[s]))
             ELSE users'[s] = users[s]
  <2>1. CASE s = r
    BY <1>1, <1>2, <1>4, <2>1
  <2>2. CASE s # r
    <3>1. users'[s] = users[s] /\ users[s] \in 0..MaxUsers
      BY <1>1, <1>2, <2>2
    <3>2. Full(users[s]) \in Content
      BY <3>1, RoomAssumption, FullContent
    <3>3. Leads(asked, s, Full(users[s]), Full(users[s]))
      BY <1>3, <2>2, <3>2
    <3> QED
      BY <3>1, <3>3
  <2> QED
    BY <2>1, <2>2
<1> QED
  BY <1>3, <1>4, <1>5, <1>6, CallLeads

\* Someone goes from one room of a worker to another: both counts are in the same call.
LEMMA TwoRooms ==
  ASSUME RoomIInv, NEW r \in Key, NEW s \in Key, Move(s, r)
  PROVE  RoomIInv'
<1>1. users \in [Key -> 0..MaxUsers] /\ users[r] \in 0..MaxUsers /\ users[s] \in 0..MaxUsers
      /\ MaxUsers \in Nat /\ Owner[r] \in Client
  BY RoomAssumption DEF RoomIInv
<1>2. /\ s # r /\ Owner[s] = Owner[r]
      /\ users[s] + -1 \in 0..MaxUsers /\ users[r] + 1 \in 0..MaxUsers
      /\ users' = [users EXCEPT ![s] = users[s] + -1, ![r] = users[r] + 1]
      /\ Call(Owner[r], Set_user_count(s, users[s], -1) \o Set_user_count(r, users[r], 1))
  <2>1. users[s] - 1 = users[s] + -1
    BY <1>1
  <2>2. s # r /\ users[s] > 0 /\ users[r] < MaxUsers /\ Owner[s] = Owner[r]
        /\ users' = [users EXCEPT ![s] = users[s] - 1, ![r] = users[r] + 1]
        /\ Call(Owner[r], Set_user_count(s, users[s], -1) \o Set_user_count(r, users[r], 1))
    BY Zenon DEF Move
  <2>3. users[s] + -1 \in 0..MaxUsers /\ users[r] + 1 \in 0..MaxUsers
    BY <1>1, <2>2
  <2> QED
    BY <2>1, <2>2, <2>3, Zenon
<1> DEFINE off == Set_user_count(s, users[s], -1)
           on == Set_user_count(r, users[r], 1)
           asked == off \o on
<1>3. /\ off \in Seq(OwnedBy(Owner[r]))
      /\ \A t \in Key \ {s} : \A v \in Content : Leads(off, t, v, v)
  BY <1>1, <1>2, SetCountOwned
<1>4. /\ on \in Seq(OwnedBy(Owner[r]))
      /\ \A t \in Key \ {r} : \A v \in Content : Leads(on, t, v, v)
  BY <1>1, <1>2, SetCountOwned
<1>5. Leads(off, s, Full(users[s]), Full(users[s] + -1))
      /\ Leads(on, r, Full(users[r]), Full(users[r] + 1))
  BY <1>1, <1>2, RoomAssumption, IncrementLeads DEF Set_user_count
<1>6. Call(Owner[r], asked)
  BY <1>2
<1> HIDE DEF off, on
<1>7. asked \in Seq(OwnedBy(Owner[r]))
  BY <1>3, <1>4, ConcatProperties
<1>8. users' \in [Key -> 0..MaxUsers] /\ users'[s] = users[s] + -1 /\ users'[r] = users[r] + 1
      /\ \A t \in Key \ {s, r} : users'[t] = users[t]
  BY <1>1, <1>2
<1>9. ASSUME NEW t \in Key
      PROVE  IF Owner[t] = Owner[r] THEN Leads(asked, t, Full(users[t]), Full(users'[t]))
             ELSE users'[t] = users[t]
  <2>1. Full(users[t]) \in Content /\ Full(users'[t]) \in Content
    <3>1. users[t] \in 0..MaxUsers /\ users'[t] \in 0..MaxUsers
      BY <1>1, <1>8
    <3> QED
      BY <3>1, RoomAssumption, FullContent
  <2> SUFFICES /\ t \in {s, r} \/ users'[t] = users[t]
               /\ Leads(asked, t, Full(users[t]), Full(users'[t]))
    BY <1>2
  <2>2. CASE t = s
    <3>1. Leads(off, t, Full(users[t]), Full(users'[t]))
      BY <1>5, <1>8, <2>2
    <3>2. Leads(on, t, Full(users'[t]), Full(users'[t]))
      BY <1>2, <1>4, <2>1, <2>2
    <3> QED
      BY <1>3, <1>4, <2>2, <3>1, <3>2, LeadsConcat
  <2>3. CASE t = r
    <3>1. Leads(on, t, Full(users[t]), Full(users'[t]))
      BY <1>5, <1>8, <2>3
    <3>2. Leads(off, t, Full(users[t]), Full(users[t]))
      BY <1>2, <1>3, <2>1, <2>3
    <3> QED
      BY <1>3, <1>4, <2>3, <3>1, <3>2, LeadsConcat
  <2>4. CASE t \notin {s, r}
    <3>1. users'[t] = users[t]
      BY <1>8, <2>4
    <3>2. Leads(off, t, Full(users[t]), Full(users[t])) /\ Leads(on, t, Full(users[t]), Full(users[t]))
      BY <1>3, <1>4, <2>1, <2>4
    <3>3. Leads(asked, t, Full(users[t]), Full(users[t]))
      BY <1>3, <1>4, <3>2, LeadsConcat
    <3> QED
      BY <3>1, <3>3
  <2> QED
    BY <2>2, <2>3, <2>4
<1> HIDE DEF asked
<1> QED
  BY <1>1, <1>6, <1>7, <1>8, <1>9, CallLeads

\* The counts under way lead to the users of the rooms, at every step.
LEMMA RoomInvariance == RoomSpec => []RoomIInv
<1>1. RoomInit => RoomIInv
  BY RoomStart
<1>2. RoomIInv /\ [RoomNext]_roomVars => RoomIInv'
  <2> SUFFICES ASSUME RoomIInv, [RoomNext]_roomVars PROVE RoomIInv'
    OBVIOUS
  <2>1. CASE Serve /\ UNCHANGED users
    BY <2>1, ServeLeads
  <2>2. CASE SendReply /\ UNCHANGED users
    <3>1. IInv'
      BY <2>2, TransportType DEF RoomIInv, Transport
    <3>2. inbox' = inbox /\ todo' = todo /\ db' = db /\ users' = users
      BY <2>2 DEF SendReply
    <3> QED
      BY <3>1, <3>2 DEF RoomIInv, OwnRooms, OwnedBy, SentBy, CountsLead, Way
  <2>3. ASSUME NEW c \in Client, Send(c), UNCHANGED users PROVE RoomIInv'
    BY <2>3, SendLeads
  <2>4. ASSUME NEW r \in Key, Join(r) \/ JoinAgain(r) \/ Leave(r) PROVE RoomIInv'
    BY <2>4, OneRoom
  <2>5. ASSUME NEW r \in Key, NEW s \in Key, Move(s, r) PROVE RoomIInv'
    BY <2>5, TwoRooms
  <2>6. CASE UNCHANGED roomVars
    <3>1. /\ inbox' = inbox /\ todo' = todo /\ db' = db /\ users' = users
          /\ replies' = replies /\ owed' = owed
      BY <2>6 DEF roomVars, vars
    <3> QED
      BY <3>1 DEF RoomIInv, IInv, TypeOK, OwnRequests, SentBy, OwnRooms, OwnedBy, CountsLead, Way
  <2> QED
    BY <2>1, <2>2, <2>3, <2>4, <2>5, <2>6 DEF RoomNext, Transport
<1> QED
  BY <1>1, <1>2, PTL DEF RoomSpec

\* What /rooms shows of a room is never further from its users than there are requests
\* about it under way, so no increment of async_db_increment is refused because of one
\* that is still on its way.
THEOREM CountsFollow == RoomSpec => []CountFollows
<1>1. RoomIInv => CountFollows
  <2> SUFFICES ASSUME RoomIInv, NEW r \in Key
               PROVE  Shown(r) - users[r] <= InFlight(r) /\ users[r] - Shown(r) <= InFlight(r)
    BY DEF CountFollows
  <2>1. PICK v : Leads(inbox, r, db[r], v) /\ Leads(todo[Owner[r]], r, v, Full(users[r]))
    BY DEF RoomIInv, CountsLead, Way
  <2>2. inbox \in Seq(Message) /\ todo[Owner[r]] \in Seq(Message) /\ users[r] \in 0..MaxUsers
    BY RoomAssumption DEF RoomIInv, IInv, TypeOK
  <2> DEFINE i == Cardinality({n \in DOMAIN inbox : inbox[n].key = r})
             j == Cardinality({n \in DOMAIN todo[Owner[r]] : todo[Owner[r]][n].key = r})
             x == Number(db[r])
             y == Number(v)
  <2>3. i \in Nat /\ x \in Int /\ y \in Int /\ x <= y + i /\ y <= x + i
    BY <2>1, <2>2, LeadsNear
  <2>4. j \in Nat /\ y <= Number(Full(users[r])) + j /\ Number(Full(users[r])) <= y + j
    BY <2>1, <2>2, LeadsNear
  <2>5. Number(Full(users[r])) = users[r]
    BY <2>2, RoomAssumption, FullContent
  <2>6. Shown(r) = x /\ InFlight(r) = i + j
    BY DEF Shown, Number, InFlight
  <2> HIDE DEF i, j, x, y
  <2> QED
    BY <2>2, <2>3, <2>4, <2>5, <2>6, RoomAssumption
<1> QED
  BY <1>1, RoomInvariance, PTL

\* When nothing is under way for an empty room its count is unset, as the next increment
\* of async_db_increment expects it to be.
THEOREM EmptyUnset == RoomSpec => []EmptyHasNone
<1>1. RoomIInv => EmptyHasNone
  <2> SUFFICES ASSUME RoomIInv, NEW r \in Key, InFlight(r) = 0, users[r] = 0
               PROVE  db[r] = NoValue
    BY DEF EmptyHasNone
  <2>1. PICK v : Leads(inbox, r, db[r], v) /\ Leads(todo[Owner[r]], r, v, Full(users[r]))
    BY DEF RoomIInv, CountsLead, Way
  <2>2. inbox \in Seq(Message) /\ todo[Owner[r]] \in Seq(Message)
    BY RoomAssumption DEF RoomIInv, IInv, TypeOK
  <2>3. ASSUME NEW q \in Seq(Message), Cardinality({n \in DOMAIN q : q[n].key = r}) = 0
        PROVE  \A n \in 1..Len(q) : q[n].key # r
    <3>1. DOMAIN q = 1..Len(q) /\ Len(q) \in Nat
      OBVIOUS
    <3>2. IsFiniteSet({n \in 1..Len(q) : q[n].key = r})
      <4>1. IsFiniteSet(1..Len(q))
        BY <3>1, FS_Interval
      <4> QED
        BY <4>1, FS_Subset
    <3>3. {n \in 1..Len(q) : q[n].key = r} = {}
      BY <2>3, <3>1, <3>2, FS_EmptySet
    <3> QED
      BY <3>3
  <2> DEFINE i == Cardinality({n \in DOMAIN inbox : inbox[n].key = r})
             j == Cardinality({n \in DOMAIN todo[Owner[r]] : todo[Owner[r]][n].key = r})
  <2>4. i = 0 /\ j = 0
    <3>1. i \in Nat /\ j \in Nat
      BY <2>1, <2>2, LeadsNear
    <3>2. i + j = 0
      BY DEF InFlight
    <3> HIDE DEF i, j
    <3> QED
      BY <3>1, <3>2
  <2>5. db[r] = v
    BY <2>1, <2>2, <2>3, <2>4, LeadsNowhere
  <2>6. v = Full(users[r])
    BY <2>1, <2>2, <2>3, <2>4, LeadsNowhere
  <2> QED
    BY <2>5, <2>6 DEF Full
<1> QED
  BY <1>1, RoomInvariance, PTL
=============================================================================
