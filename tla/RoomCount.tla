------------------------------ MODULE RoomCount ------------------------------
(***************************************************************************)
(* The number of users of a chat room, which /rooms shows: the worker that *)
(* owns the room has its list of users (apps/chat/src/broadcast.c) and     *)
(* keeps a count of them in the master's database, by increments that name *)
(* the count it believes to be there (apps/chat/src/room.c) and that       *)
(* nobody answers.  A key of the database is a room here.                  *)
(***************************************************************************)
EXTENDS AsyncDb, FiniteSets

CONSTANTS Owner,      \* Owner[r]: the worker process that was given room r
          MaxUsers    \* NGINZ_MAX_CHAT_ROOM_USER

ASSUME RoomAssumption ==
  /\ Owner \in [Key -> Client]
  /\ MaxUsers \in Nat /\ 0..MaxUsers \subseteq Value

VARIABLE users    \* users[r]: the length of the room's user_list

roomVars == <<vars, users>>

RoomInit == Init /\ users = [r \in Key |-> 0]

\* chat_room_set_user_count: without a hook, so without an answer.
Set_user_count(r, count, increment) == Increment(Owner[r], NoHook, r, count, increment)

\* broadcast_room_join: a full room refuses; the count before the newcomer is given.
Join(r) ==
  /\ users[r] < MaxUsers
  /\ users' = [users EXCEPT ![r] = @ + 1]
  /\ Call(Owner[r], Set_user_count(r, users[r], 1))

\* The same by someone who is in room s of the same worker, and leaves it first.
Move(s, r) ==
  /\ s # r /\ Owner[s] = Owner[r]
  /\ users[s] > 0 /\ users[r] < MaxUsers
  /\ users' = [users EXCEPT ![s] = @ - 1, ![r] = @ + 1]
  /\ Call(Owner[r], Set_user_count(s, users[s], -1) \o Set_user_count(r, users[r], 1))

\* The same by someone who is in the room already: greeted again, and counted
\* again, from a count that is one too low.
\* Fault: from the count as it is.
JoinAgainCounts(r) ==
  /\ users[r] > 0 /\ users[r] < MaxUsers
  /\ UNCHANGED users
  /\ Call(Owner[r], Set_user_count(r, users[r], 1))
JoinAgain(r) ==
  /\ users[r] > 0 /\ users[r] < MaxUsers
  /\ UNCHANGED users
  /\ Call(Owner[r], Set_user_count(r, users[r] - 1, 1))

\* broadcast_room_leave
Leave(r) ==
  /\ users[r] > 0
  /\ users' = [users EXCEPT ![r] = @ - 1]
  /\ Call(Owner[r], Set_user_count(r, users[r], -1))

RoomNext ==
  \/ Transport /\ UNCHANGED users
  \/ \E r \in Key : Join(r) \/ JoinAgain(r) \/ Leave(r) \/ \E s \in Key : Move(s, r)

RoomSpec == RoomInit /\ [][RoomNext]_roomVars
-----------------------------------------------------------------------------
Shown(r) == IF db[r] = NoValue THEN 0 ELSE db[r]
InFlight(r) ==
  LET about(q) == Cardinality({n \in DOMAIN q : q[n].key = r})
  IN  about(inbox) + about(todo[Owner[r]])

\* The count in the database is never further from the room's own than there are
\* requests under way, so it is right when they are done: no increment is refused
\* because an earlier one is still on its way (async_db_increment names the count
\* it expects and nobody looks at whether it was found).
CountFollows ==
  \A r \in Key :
    /\ Shown(r) - users[r] <= InFlight(r)
    /\ users[r] - Shown(r) <= InFlight(r)

\* An empty room has no count: what async_db_increment must unset and create
\* again for the next increment to find what it expects.
EmptyHasNone == \A r \in Key : InFlight(r) = 0 /\ users[r] = 0 => db[r] = NoValue
=============================================================================
