------------------------------- MODULE AsyncDb -------------------------------
(***************************************************************************)
(* The asynchronous database: the workers' side (db/src/async_db.c), the   *)
(* master's side (db/src/async_db_master.c) and the messages between them  *)
(* (base/src/parallel/async_request.c), over the datagram sockets of the   *)
(* pipeline: every worker sends to the master's one socket and the master  *)
(* answers to the worker's own; a send blocks its process while the socket *)
(* is full.                                                                *)
(*                                                                         *)
(* A request carries the hook of the callback for its answer and a token,  *)
(* which come back as they went: the two are one Hook here, and NoHook is  *)
(* the null hook.                                                          *)
(***************************************************************************)
EXTENDS Integers, Sequences

CONSTANTS Client,      \* the worker processes
          Key,         \* the keys in use
          Value,       \* the values in use, numbers in decimal for the counters
          NoValue,     \* what the table has for a key that is not set
          Hook,        \* the hooks, each with a token, that requests name
          NoHook,      \* the null hook: nobody waits for the answer
          Capacity,    \* the datagrams a socket holds before a sender blocks
          MaxPending   \* MaxPending[c], a bound: the requests and answers of c under way

ASSUME AsyncDbAssumption ==
  /\ Value \subseteq Int /\ NoValue \notin Value /\ NoHook \notin Hook
  /\ Capacity \in Nat \ {0} /\ MaxPending \in [Client -> Nat]

VARIABLES
  db,        \* global_db of the master
  inbox,     \* the master's socket
  replies,   \* replies[c]: the socket of worker c
  todo,      \* todo[c]: what the running handler of c has still to send
  owed       \* what the running handler of the master has still to send

vars == <<db, inbox, replies, todo, owed>>

Content == Value \cup {NoValue}
Message == [src : Client, op : {"cas", "sin", "unset", "get"}, key : Key,
            newval : Content, oldval : Content, hook : Hook \cup {NoHook}]
Reply == [to : Client, key : Key, val : Content, success : BOOLEAN, hook : Hook]

Starts(contents) ==
  /\ db = contents
  /\ inbox = <<>>
  /\ replies = [c \in Client |-> <<>>]
  /\ todo = [c \in Client |-> <<>>]
  /\ owed = <<>>
Init == Starts([k \in Key |-> NoValue])
-----------------------------------------------------------------------------
\* async_db_compare_and_swap: the absent arguments say which request it is.
Message_of(c, hook, k, newval, oldval) ==
  [src |-> c, key |-> k, newval |-> newval, oldval |-> oldval, hook |-> hook,
   op |-> IF oldval # NoValue THEN "cas" ELSE IF newval # NoValue THEN "sin" ELSE "unset"]

Compare_and_swap(c, hook, k, newval, oldval) == <<Message_of(c, hook, k, newval, oldval)>>
DbUnset(c, hook, k) == Compare_and_swap(c, hook, k, NoValue, NoValue)
Set_if_null(c, hook, k, intval) == Compare_and_swap(c, hook, k, intval, NoValue)
DbGet(c, hook, k) ==
  <<[src |-> c, op |-> "get", key |-> k, newval |-> NoValue, oldval |-> NoValue,
     hook |-> hook]>>

\* async_db_increment: a count that comes to 0 is unset, and one that starts at
\* 0 is first created; both of these go without the caller's hook.
\* Fault: a count that starts at 0 is not created.
IncrementNoCreate(c, hook, k, intval, increment) ==
  IF intval + increment = 0 THEN DbUnset(c, NoHook, k)
  ELSE Compare_and_swap(c, hook, k, intval + increment, intval)
\* Fault: a count that comes to 0 is stored as 0.
IncrementKeepsZero(c, hook, k, intval, increment) ==
  (IF intval = 0 THEN Set_if_null(c, NoHook, k, increment) ELSE <<>>)
    \o Compare_and_swap(c, hook, k, intval + increment, intval)
Increment(c, hook, k, intval, increment) ==
  IF intval + increment = 0 THEN DbUnset(c, NoHook, k)
  ELSE (IF intval = 0 THEN Set_if_null(c, NoHook, k, increment) ELSE <<>>)
       \o Compare_and_swap(c, hook, k, intval + increment, intval)

\* The messages of q that c sent, in their order.
Of(c, q) ==
  LET upTo[n \in 0..Len(q)] ==
        IF n = 0 THEN <<>>
        ELSE IF q[n].src = c THEN Append(upTo[n - 1], q[n]) ELSE upTo[n - 1]
  IN  upTo[Len(q)]
OwedTo(c) == IF owed # <<>> /\ owed[1].to = c THEN owed ELSE <<>>
Pending(c) == Len(todo[c]) + Len(Of(c, inbox)) + Len(OwedTo(c)) + Len(replies[c])

\* A handler of c makes one call of the interface.
Call(c, requests) ==
  /\ todo[c] = <<>>
  /\ Pending(c) + Len(requests) <= MaxPending[c]
  /\ todo' = [todo EXCEPT ![c] = requests]
  /\ UNCHANGED <<db, inbox, replies, owed>>

\* async_pm_call_master, pp_send: one datagram to the master.
Send(c) ==
  /\ todo[c] # <<>>
  /\ Len(inbox) < Capacity
  /\ inbox' = Append(inbox, Head(todo[c]))
  /\ todo' = [todo EXCEPT ![c] = Tail(@)]
  /\ UNCHANGED <<db, replies, owed>>

\* on_bubbles of a worker: the callback of the hook runs, and may make a call.
TakeReply(c) ==
  /\ todo[c] = <<>>
  /\ replies[c] # <<>>
  /\ replies' = [replies EXCEPT ![c] = Tail(@)]
  /\ UNCHANGED <<db, inbox, owed>>
Callback(c) == TakeReply(c) /\ UNCHANGED todo
-----------------------------------------------------------------------------
\* async_db_op_helper: nothing and nothing, or the same value.
\* Fault: an expected value is taken to be met by a key that is not set.
MatchesUnset(m) == db[m.key] \in {m.oldval, NoValue}
Matches(m) == db[m.key] = m.oldval

Stored(m) ==
  \/ m.op = "unset"
  \/ m.op \in {"cas", "sin"} /\ Matches(m)

Reply_to(m) ==
  [to |-> m.src, key |-> m.key, hook |-> m.hook,
   val |-> IF m.op = "get" THEN db[m.key] ELSE m.newval,
   success |-> m.op = "get" \/ Stored(m)]

\* async_db_op_reply: a null hook gets no answer.
\* Fault: a request that fails is answered on both paths.
AnswersTwice(m) ==
  IF m.hook = NoHook THEN <<>>
  ELSE IF Reply_to(m).success THEN <<Reply_to(m)>> ELSE <<Reply_to(m), Reply_to(m)>>
Answers(m) == IF m.hook = NoHook THEN <<>> ELSE <<Reply_to(m)>>

\* The master's four hooks: one request is executed and answered.
\* Fault: the request stays in the socket, and is executed again.
ServePeeks ==
  /\ owed = <<>>
  /\ inbox # <<>>
  /\ LET m == Head(inbox) IN
       /\ db' = IF Stored(m) THEN [db EXCEPT ![m.key] = m.newval] ELSE db
       /\ owed' = Answers(m)
  /\ UNCHANGED <<inbox, replies, todo>>
Serve ==
  /\ owed = <<>>
  /\ inbox # <<>>
  /\ inbox' = Tail(inbox)
  /\ LET m == Head(inbox) IN
       /\ db' = IF Stored(m) THEN [db EXCEPT ![m.key] = m.newval] ELSE db
       /\ owed' = Answers(m)
  /\ UNCHANGED <<replies, todo>>

\* async_pm_reply_worker, pp_send: one datagram to the worker that asked.
\* Fault: it is sent again and again.
SendReplyAgain ==
  /\ owed # <<>>
  /\ LET c == owed[1].to IN
       /\ Len(replies[c]) < Capacity
       /\ replies' = [replies EXCEPT ![c] = Append(@, owed[1])]
  /\ UNCHANGED <<db, inbox, todo, owed>>
SendReply ==
  /\ owed # <<>>
  /\ LET c == owed[1].to IN
       /\ Len(replies[c]) < Capacity
       /\ replies' = [replies EXCEPT ![c] = Append(@, owed[1])]
  /\ owed' = <<>>
  /\ UNCHANGED <<db, inbox, todo>>

\* The steps of the database itself, whatever the workers call it for.
Transport == Serve \/ SendReply \/ \E c \in Client : Send(c)

Calls(c) ==
  \E k \in Key, hook \in Hook \cup {NoHook} :
    \/ Call(c, DbUnset(c, hook, k))
    \/ Call(c, DbGet(c, hook, k))
    \/ \E v \in Value : Call(c, Set_if_null(c, hook, k, v))
    \/ \E v, w \in Value : Call(c, Compare_and_swap(c, hook, k, v, w))
    \/ \E n, d \in Value : n + d \in Value /\ Call(c, Increment(c, hook, k, n, d))

Next == Transport \/ \E c \in Client : Callback(c) \/ Calls(c)

\* The master's loop runs, and the kernel lets every sender in that waits for
\* room, whoever else sends.
TransportFairness == WF_vars(Serve) /\ WF_vars(SendReply) /\ \A c \in Client : SF_vars(Send(c))

\* So does the loop of a worker, which reads what waits for it.
Fairness == TransportFairness /\ \A c \in Client : WF_vars(Callback(c))

Spec == Init /\ [][Next]_vars /\ Fairness
-----------------------------------------------------------------------------
TypeOK ==
  /\ db \in [Key -> Content]
  /\ inbox \in Seq(Message) /\ Len(inbox) <= Capacity
  /\ replies \in [Client -> Seq(Reply)]
  /\ \A c \in Client : Len(replies[c]) <= Capacity
  /\ todo \in [Client -> Seq(Message)]
  /\ owed \in Seq(Reply) /\ Len(owed) <= 1

\* A message as the store sees it: what it does, without who sent it and how.
RequestOf(m) ==
  [op |-> IF m.op \in {"cas", "sin"} THEN "put" ELSE m.op, key |-> m.key,
   new |-> m.newval, exp |-> m.oldval, hook |-> m.hook]
AnswerOf(r) == [key |-> r.key, val |-> r.val, success |-> r.success, hook |-> r.hook]
MapSeq(q, Op(_)) == [n \in DOMAIN q |-> Op(q[n])]

Store == INSTANCE AtomicStore WITH
  calls <- [c \in Client |-> MapSeq(Of(c, inbox) \o todo[c], RequestOf)],
  answers <- [c \in Client |-> MapSeq(replies[c] \o OwedTo(c), AnswerOf)]

\* Each request takes effect once, atomically and in its client's order, and its
\* answer says what it found then: nothing is lost, doubled or mixed up between
\* the workers' sends, the master's hooks and its replies.
ImplementsStore == Store!Spec

\* The master waits for room in the socket of a worker that waits for room in the
\* master's: pp_send blocks both, and neither reads any more.
MutualBlock ==
  /\ owed # <<>> /\ Len(inbox) = Capacity
  /\ LET c == owed[1].to IN todo[c] # <<>> /\ Len(replies[c]) = Capacity

\* Nobody waits for ever for a full socket but in a mutual block: neither a worker for
\* the master nor the master for a worker (pp_simple_sendmsg, pipeline.c:99).
NobodyStuck == \A c \in Client : []<>(todo[c] = <<>> \/ MutualBlock)
MasterServes == []<>(owed = <<>> \/ MutualBlock)

\* It takes a worker with more under way than its socket, the master's and the two
\* processes hold: one answer owed, a socket full of answers, and a request to send.
BlockTakesMore == MutualBlock => MaxPending[owed[1].to] >= Capacity + 2
=============================================================================
