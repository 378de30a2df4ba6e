---------------------------- MODULE AsyncDbProofs ----------------------------
(***************************************************************************)
(* Proofs about AsyncDb for every set of workers, keys, values and hooks   *)
(* and every capacity of the sockets: its types, and that it implements    *)
(* AtomicStore.                                                            *)
(***************************************************************************)
EXTENDS AsyncDb, FiniteSetTheorems, SequenceTheorems, WellFoundedInduction, NaturalsInduction,
        TLAPS

\* A set of naturals that is not empty has a least element: induction over a length, as
\* a search for the least counterexample.
LEMMA LeastNatural ==
  ASSUME NEW S \in SUBSET Nat, S # {}
  PROVE  \E m \in S : \A k \in S : m <= k
<1> DEFINE R == OpToRel(<, Nat)
<1>1. IsWellFoundedOn(R, Nat)
  BY NatLessThanWellFounded
<1>2. \A x, y \in Nat : <<y, x>> \in R <=> y < x
  BY DEF OpToRel
<1> HIDE DEF R
<1>3. PICK m \in S : \A k \in S : <<k, m>> \notin R
  BY <1>1, WFMin
<1>4. \A k \in S : ~(k < m)
  BY <1>2, <1>3
<1>5. m \in Nat /\ \A k \in S : k \in Nat
  OBVIOUS
<1> QED
  BY <1>4, <1>5
-----------------------------------------------------------------------------
\* What Of has kept of q when it has seen n messages.
Keeps(c, q, n, f) ==
  f = [k \in 0..n |-> IF k = 0 THEN <<>>
                      ELSE IF q[k].src = c THEN Append(f[k - 1], q[k]) ELSE f[k - 1]]

\* There is one such function for each length, so the recursive one exists.
LEMMA KeepsExists ==
  ASSUME NEW c, NEW q, NEW n \in Nat
  PROVE  \E f : Keeps(c, q, n, f)
<1> DEFINE Bad == {m \in Nat : ~\E f : Keeps(c, q, m, f)}
<1>1. SUFFICES ASSUME Bad # {} PROVE FALSE
  OBVIOUS
<1>2. PICK m \in Bad : \A k \in Bad : m <= k
  BY <1>1, LeastNatural
<1>3. CASE m = 0
  <2> DEFINE f == [k \in 0..0 |-> <<>>]
  <2>1. Keeps(c, q, 0, f)
    BY DEF Keeps
  <2> QED
    BY <1>3, <2>1
<1>4. CASE m # 0
  <2>1. m - 1 \in Nat /\ m - 1 \notin Bad
    BY <1>2, <1>4
  <2>2. PICK f : Keeps(c, q, m - 1, f)
    BY <2>1
  <2> DEFINE g == [k \in 0..m |-> IF k = m
                      THEN IF q[m].src = c THEN Append(f[m - 1], q[m]) ELSE f[m - 1]
                      ELSE f[k]]
  <2>3. ASSUME NEW k \in 0..m
        PROVE  g[k] = IF k = 0 THEN <<>>
                      ELSE IF q[k].src = c THEN Append(g[k - 1], q[k]) ELSE g[k - 1]
    <3>1. k = m => g[k - 1] = f[m - 1]
      BY <1>4, <2>1
    <3>2. k # m => k \in 0..(m - 1) /\ g[k] = f[k] /\ (k # 0 => g[k - 1] = f[k - 1])
      BY <1>4, <2>1
    <3> HIDE DEF g
    <3>3. CASE k = m
      BY <1>4, <3>1, <3>3 DEF g
    <3>4. CASE k # m
      BY <2>2, <3>2, <3>4 DEF Keeps
    <3> QED
      BY <3>3, <3>4
  <2>4. g = [k \in 0..m |-> g[k]]
    OBVIOUS
  <2> HIDE DEF g
  <2>5. Keeps(c, q, m, g)
    BY <2>3, <2>4 DEF Keeps
  <2> QED
    BY <1>2, <2>5
<1> QED
  BY <1>3, <1>4

\* Of is the last value of a function that keeps.
LEMMA OfKeeps ==
  ASSUME NEW c, NEW q, Len(q) \in Nat
  PROVE  \E f : Keeps(c, q, Len(q), f) /\ Of(c, q) = f[Len(q)]
<1> DEFINE f == CHOOSE h : Keeps(c, q, Len(q), h)
<1>1. Keeps(c, q, Len(q), f)
  BY KeepsExists
<1>2. Of(c, q) = f[Len(q)]
  BY DEF Of, Keeps
<1> HIDE DEF f
<1> QED
  BY <1>1, <1>2

\* An element appended to the second of two sequences is appended to both together.
LastOfBoth(a, b, e) == Append(a \o b, e) = a \o Append(b, e)
LEMMA AppendsLast ==
  ASSUME NEW S, NEW a \in Seq(S), NEW b \in Seq(S), NEW e \in S
  PROVE  LastOfBoth(a, b, e)
BY DEF LastOfBoth

\* What is kept of two sequences is the same as far as they agree.
LEMMA KeepsAgree ==
  ASSUME NEW c, NEW q, NEW p, NEW f, NEW g, NEW n \in Nat, NEW m \in Nat,
         Keeps(c, q, n, f), Keeps(c, p, m, g), m <= n, \A k \in 1..m : q[k] = p[k]
  PROVE  f[m] = g[m]
<1> DEFINE Bad == {k \in 0..m : f[k] # g[k]}
<1>1. SUFFICES ASSUME Bad # {} PROVE FALSE
  OBVIOUS
<1>2. PICK k \in Bad : \A h \in Bad : k <= h
  <2>1. Bad \in SUBSET Nat
    OBVIOUS
  <2> QED
    BY <1>1, <2>1, LeastNatural
<1>3. k \in 0..m /\ k \in 0..n /\ f[k] # g[k]
  OBVIOUS
<1>4. CASE k = 0
  BY <1>3, <1>4 DEF Keeps
<1>5. CASE k # 0
  <2>1. k - 1 \in 0..m /\ k \in 1..m
    BY <1>3, <1>5
  <2>2. f[k - 1] = g[k - 1]
    BY <1>2, <2>1
  <2>3. f[k] = IF q[k].src = c THEN Append(f[k - 1], q[k]) ELSE f[k - 1]
    BY <1>3, <1>5 DEF Keeps
  <2>4. g[k] = IF p[k].src = c THEN Append(g[k - 1], p[k]) ELSE g[k - 1]
    BY <1>3, <1>5 DEF Keeps
  <2>5. q[k] = p[k]
    BY <2>1
  <2> QED
    BY <1>3, <2>2, <2>3, <2>4, <2>5
<1> QED
  BY <1>4, <1>5

\* What is kept is made of the same elements.
LEMMA KeepsType ==
  ASSUME NEW S, NEW q \in Seq(S), NEW c, NEW f, Keeps(c, q, Len(q), f)
  PROVE  \A k \in 0..Len(q) : f[k] \in Seq(S)
<1> DEFINE Bad == {k \in 0..Len(q) : f[k] \notin Seq(S)}
<1>1. SUFFICES ASSUME Bad # {} PROVE FALSE
  OBVIOUS
<1>2. PICK k \in Bad : \A h \in Bad : k <= h
  <2>1. Bad \in SUBSET Nat
    OBVIOUS
  <2> QED
    BY <1>1, <2>1, LeastNatural
<1>3. k \in 0..Len(q) /\ f[k] \notin Seq(S) /\ Len(q) \in Nat
  OBVIOUS
<1>4. CASE k = 0
  BY <1>3, <1>4 DEF Keeps
<1>5. CASE k # 0
  <2>1. k - 1 \in 0..Len(q) /\ q[k] \in S
    BY <1>3, <1>5
  <2>2. f[k - 1] \in Seq(S)
    BY <1>2, <1>3, <2>1
  <2>3. f[k] = IF q[k].src = c THEN Append(f[k - 1], q[k]) ELSE f[k - 1]
    BY <1>3, <1>5 DEF Keeps
  <2> QED
    BY <1>3, <2>1, <2>2, <2>3
<1> QED
  BY <1>4, <1>5

\* The messages of one worker among others: none among none, itself a sequence of
\* messages, longer by a message of its own that is appended and by no other.
LEMMA OfEmpty == ASSUME NEW c PROVE Of(c, <<>>) = <<>>
<1>1. PICK f : Keeps(c, <<>>, 0, f) /\ Of(c, <<>>) = f[0]
  BY OfKeeps
<1> QED
  BY <1>1 DEF Keeps

\* Of keeps messages of the sequence it is given.
LEMMA OfType == ASSUME NEW S, NEW q \in Seq(S), NEW c PROVE Of(c, q) \in Seq(S)
<1>1. Len(q) \in Nat
  OBVIOUS
<1>2. PICK f : Keeps(c, q, Len(q), f) /\ Of(c, q) = f[Len(q)]
  BY <1>1, OfKeeps
<1> QED
  BY <1>1, <1>2, KeepsType

\* A message sent is the last of its sender's, and none of the others'.
LEMMA OfAppend ==
  ASSUME NEW S, NEW q \in Seq(S), NEW m \in S, NEW c
  PROVE  Of(c, Append(q, m)) = IF m.src = c THEN Append(Of(c, q), m) ELSE Of(c, q)
<1> DEFINE p == Append(q, m)
<1>1. Len(q) \in Nat /\ Len(p) = Len(q) + 1 /\ p[Len(p)] = m
      /\ \A k \in 1..Len(q) : p[k] = q[k]
  OBVIOUS
<1> HIDE DEF p
<1>2. PICK f : Keeps(c, q, Len(q), f) /\ Of(c, q) = f[Len(q)]
  BY <1>1, OfKeeps
<1>3. PICK g : Keeps(c, p, Len(p), g) /\ Of(c, p) = g[Len(p)]
  BY <1>1, OfKeeps
<1>4. g[Len(q)] = f[Len(q)]
  <2>1. Len(p) \in Nat /\ Len(q) \in Nat /\ Len(q) <= Len(p) /\ \A k \in 1..Len(q) : p[k] = q[k]
    BY <1>1
  <2>2. Keeps(c, p, Len(p), g) /\ Keeps(c, q, Len(q), f)
    BY <1>2, <1>3
  <2> QED
    BY <2>1, <2>2, KeepsAgree
<1>5. g[Len(p)] = IF m.src = c THEN Append(g[Len(q)], m) ELSE g[Len(q)]
  <2>1. Len(p) \in 0..Len(p) /\ Len(p) # 0 /\ Len(p) - 1 = Len(q)
    BY <1>1
  <2>2. g[Len(p)] = IF p[Len(p)].src = c THEN Append(g[Len(p) - 1], p[Len(p)]) ELSE g[Len(p) - 1]
    BY <1>3, <2>1 DEF Keeps
  <2> QED
    BY <1>1, <2>1, <2>2
<1> QED
  BY <1>2, <1>3, <1>4, <1>5 DEF p

\* The first message is the first of its sender's, and none of the others'.
LEMMA OfHead ==
  ASSUME NEW S, NEW q \in Seq(S), q # <<>>, NEW c
  PROVE  Of(c, q) = IF Head(q).src = c THEN <<Head(q)>> \o Of(c, Tail(q)) ELSE Of(c, Tail(q))
<1> DEFINE t == Tail(q)
           first == IF Head(q).src = c THEN <<Head(q)>> ELSE <<>>
<1>1. /\ t \in Seq(S) /\ Len(t) \in Nat /\ Len(q) = Len(t) + 1 /\ Head(q) = q[1] /\ q[1] \in S
      /\ \A k \in 1..Len(t) : t[k] = q[k + 1]
  OBVIOUS
<1>f. first = IF q[1].src = c THEN <<q[1]>> ELSE <<>>
  BY <1>1
<1> HIDE DEF t, first
<1>2. first \in Seq(S)
  BY <1>1, <1>f
<1>3. PICK f : Keeps(c, q, Len(q), f) /\ Of(c, q) = f[Len(q)]
  BY <1>1, OfKeeps
<1>4. PICK g : Keeps(c, t, Len(t), g) /\ Of(c, t) = g[Len(t)]
  BY <1>1, OfKeeps
<1> DEFINE Bad == {h \in 0..Len(t) : f[h + 1] # first \o g[h]}
<1>5. ASSUME NEW k \in Bad, \A h \in Bad : k <= h PROVE FALSE
  <2>3. k \in 0..Len(t) /\ f[k + 1] # first \o g[k]
    OBVIOUS
  <2>4. f[k + 1] = IF q[k + 1].src = c THEN Append(f[k], q[k + 1]) ELSE f[k]
    <3>1. k + 1 \in 0..Len(q) /\ k + 1 # 0 /\ (k + 1) - 1 = k
      BY <1>1, <2>3
    <3>2. f[k + 1] = IF q[k + 1].src = c THEN Append(f[(k + 1) - 1], q[k + 1]) ELSE f[(k + 1) - 1]
      BY <1>3, <3>1 DEF Keeps
    <3> QED
      BY <3>1, <3>2
  <2>5. CASE k = 0
    <3>1. f[0] = <<>> /\ g[0] = <<>>
      BY <1>1, <1>3, <1>4 DEF Keeps
    <3>2. f[1] = first
      BY <1>1, <1>f, <2>4, <2>5, <3>1
    <3> QED
      BY <1>2, <2>3, <2>5, <3>1, <3>2
  <2>6. CASE k # 0
    <3>1. k - 1 \in 0..Len(t) /\ k \in 1..Len(t) /\ (k - 1) + 1 = k /\ ~(k <= k - 1)
      BY <1>1, <2>3, <2>6
    <3>2. f[k] = first \o g[k - 1]
      BY <1>5, <3>1
    <3>3. g[k] = IF t[k].src = c THEN Append(g[k - 1], t[k]) ELSE g[k - 1]
      BY <1>4, <2>3, <2>6 DEF Keeps
    <3>4. t[k] = q[k + 1] /\ t[k] \in S
      BY <1>1, <3>1
    <3>5. g[k - 1] \in Seq(S)
      BY <1>1, <1>4, <3>1, KeepsType
    <3>6. Append(first \o g[k - 1], t[k]) = first \o Append(g[k - 1], t[k])
      <4>1. LastOfBoth(first, g[k - 1], t[k])
        BY <1>2, <3>4, <3>5, AppendsLast
      <4> QED
        BY <4>1 DEF LastOfBoth
    <3> QED
      BY <2>3, <2>4, <3>2, <3>3, <3>4, <3>6
  <2> QED
    BY <2>5, <2>6
<1>6. Of(c, q) = first \o Of(c, t)
  <2>1. Bad = {}
    <3>1. Bad \in SUBSET Nat
      BY <1>1
    <3> QED
      BY <1>5, <3>1, LeastNatural
  <2>2. f[Len(t) + 1] = first \o g[Len(t)]
    BY <1>1, <2>1
  <2> QED
    BY <1>1, <1>3, <1>4, <2>2
<1>7. Of(c, t) \in Seq(S)
  BY <1>1, OfType
<1> QED
  BY <1>6, <1>7 DEF t, first
-----------------------------------------------------------------------------
\* A handler of a worker sends under its own name only, and a call of it is about one key.
SentBy(c) == {m \in Message : m.src = c}
About(c, k) == {m \in Message : m.src = c /\ m.key = k}
OwnRequests == \A c \in Client : todo[c] \in Seq(SentBy(c))

IInv == TypeOK /\ OwnRequests

\* Every call of the interface makes a request of the right type.
LEMMA RequestType ==
  ASSUME NEW c \in Client, NEW hook \in Hook \cup {NoHook}, NEW k \in Key,
         NEW v \in Content, NEW w \in Content
  PROVE  /\ Message_of(c, hook, k, v, w) \in About(c, k)
         /\ Compare_and_swap(c, hook, k, v, w) \in Seq(About(c, k))
         /\ Compare_and_swap(c, hook, k, v, w) # <<>>
<1>1. Message_of(c, hook, k, v, w) \in About(c, k)
  BY DEF Message_of, About, Message
<1> QED
  BY <1>1 DEF Compare_and_swap

\* A question asks for a key only.
LEMMA GetType ==
  ASSUME NEW c \in Client, NEW hook \in Hook \cup {NoHook}, NEW k \in Key
  PROVE  DbGet(c, hook, k) \in Seq(About(c, k)) /\ DbGet(c, hook, k) # <<>>
BY DEF DbGet, About, Message, Content

\* async_db_increment makes one request at least.
LEMMA IncrementType ==
  ASSUME NEW c \in Client, NEW hook \in Hook \cup {NoHook}, NEW k \in Key,
         NEW n \in Value, NEW d \in Int, n + d \in Value
  PROVE  /\ Increment(c, hook, k, n, d) \in Seq(About(c, k))
         /\ Increment(c, hook, k, n, d) # <<>>
<1>1. n + d \in Content /\ n \in Content /\ NoValue \in Content /\ n \in Int
      /\ NoHook \in Hook \cup {NoHook}
  BY AsyncDbAssumption DEF Content
<1> DEFINE swap == Compare_and_swap(c, hook, k, n + d, n)
           create == IF n = 0 THEN Set_if_null(c, NoHook, k, d) ELSE <<>>
<1>2. swap \in Seq(About(c, k)) /\ swap # <<>>
  BY <1>1, RequestType
<1>3. create \in Seq(About(c, k))
  <2>1. CASE n = 0
    <3>1. d \in Content
      BY <1>1, <2>1
    <3> QED
      BY <1>1, <2>1, <3>1, RequestType DEF Set_if_null
  <2>2. CASE n # 0
    BY <2>2
  <2> QED
    BY <2>1, <2>2
<1>4. DbUnset(c, NoHook, k) \in Seq(About(c, k)) /\ DbUnset(c, NoHook, k) # <<>>
  BY <1>1, RequestType DEF DbUnset
<1>5. Increment(c, hook, k, n, d) = IF n + d = 0 THEN DbUnset(c, NoHook, k) ELSE create \o swap
  BY DEF Increment
<1> HIDE DEF swap, create
<1>6. create \o swap \in Seq(About(c, k)) /\ create \o swap # <<>>
  BY <1>2, <1>3, ConcatEqualIffEmpty, ConcatProperties
<1> QED
  BY <1>4, <1>5, <1>6

\* Whatever requests a handler makes, it only queues them.
LEMMA CallType ==
  ASSUME IInv, NEW c \in Client, NEW requests \in Seq(SentBy(c)), Call(c, requests)
  PROVE  IInv'
<1>1. requests \in Seq(Message)
  BY SeqMonotonic DEF SentBy
<1>2. todo' \in [Client -> Seq(Message)]
  BY <1>1 DEF Call, IInv, TypeOK
<1>3. TypeOK'
  BY <1>2 DEF Call, IInv, TypeOK
<1>4. OwnRequests'
  BY DEF Call, IInv, TypeOK, OwnRequests
<1> QED
  BY <1>3, <1>4 DEF IInv

\* The master answers what it was asked.
LEMMA ReplyType ==
  ASSUME TypeOK, NEW m \in Message
  PROVE  Answers(m) \in Seq(Reply) /\ Len(Answers(m)) <= 1
<1>1. CASE m.hook = NoHook
  BY <1>1 DEF Answers
<1>2. CASE m.hook # NoHook
  <2>1. /\ m.src \in Client /\ m.key \in Key /\ m.hook \in Hook /\ m.newval \in Content
        /\ db[m.key] \in Content
    BY <1>2 DEF Message, TypeOK
  <2> DEFINE ok == m.op = "get" \/ Stored(m)
             val == IF m.op = "get" THEN db[m.key] ELSE m.newval
  <2>2. ok \in BOOLEAN /\ val \in Content
    BY <2>1
  <2>3. Reply_to(m) = [to |-> m.src, key |-> m.key, hook |-> m.hook, val |-> val, success |-> ok]
    BY DEF Reply_to
  <2> HIDE DEF ok, val
  <2>4. Reply_to(m) \in Reply
    BY <2>1, <2>2, <2>3 DEF Reply
  <2> QED
    BY <1>2, <2>4 DEF Answers
<1> QED
  BY <1>1, <1>2

\* Messages and answers move between the sockets unchanged.
LEMMA TransportType ==
  ASSUME IInv, Transport
  PROVE  IInv'
<1>0. TypeOK /\ OwnRequests
  BY DEF IInv
<1>1. CASE Serve
  <2>1. PICK m \in Message : /\ inbox # <<>> /\ m = Head(inbox) /\ inbox' = Tail(inbox)
                             /\ owed' = Answers(m)
                             /\ db' = IF Stored(m) THEN [db EXCEPT ![m.key] = m.newval] ELSE db
    <3>1. Head(inbox) \in Message
      BY <1>0, <1>1 DEF Serve, TypeOK
    <3> QED
      BY <1>1, <3>1 DEF Serve
  <2>2. m.key \in Key /\ m.newval \in Content
    BY DEF Message
  <2>3. db' \in [Key -> Content]
    BY <1>0, <2>1, <2>2 DEF TypeOK
  <2>4. owed' \in Seq(Reply) /\ Len(owed') <= 1
    BY <1>0, <2>1, ReplyType
  <2>5. inbox' \in Seq(Message) /\ Len(inbox') <= Capacity
    BY <1>0, <2>1, AsyncDbAssumption DEF TypeOK
  <2> QED
    BY <1>0, <1>1, <2>3, <2>4, <2>5 DEF Serve, IInv, TypeOK, OwnRequests
<1>2. CASE SendReply
  <2> DEFINE c == owed[1].to
  <2>1. owed[1] \in Reply /\ c \in Client
    <3>1. owed[1] \in Reply
      BY <1>0, <1>2 DEF SendReply, TypeOK
    <3> QED
      BY <3>1 DEF Reply
  <2>2. replies' = [replies EXCEPT ![c] = Append(replies[c], owed[1])] /\ Len(replies[c]) < Capacity
    BY <1>2 DEF SendReply
  <2> HIDE DEF c
  <2>3. replies[c] \in Seq(Reply)
    BY <1>0, <2>1 DEF TypeOK
  <2>4. Append(replies[c], owed[1]) \in Seq(Reply)
        /\ Len(Append(replies[c], owed[1])) <= Capacity
    BY <2>1, <2>2, <2>3, AsyncDbAssumption
  <2>5. replies' \in [Client -> Seq(Reply)] /\ \A b \in Client : Len(replies'[b]) <= Capacity
    BY <1>0, <2>1, <2>2, <2>4 DEF TypeOK
  <2> QED
    BY <1>0, <1>2, <2>5 DEF SendReply, IInv, TypeOK, OwnRequests
<1>3. ASSUME NEW c \in Client, Send(c) PROVE IInv'
  <2>1. todo[c] \in Seq(Message) /\ todo[c] # <<>> /\ Len(inbox) < Capacity
        /\ inbox' = Append(inbox, Head(todo[c])) /\ todo' = [todo EXCEPT ![c] = Tail(todo[c])]
    BY <1>0, <1>3 DEF Send, TypeOK
  <2>2. Head(todo[c]) \in Message /\ Tail(todo[c]) \in Seq(Message)
    BY <2>1
  <2>3. inbox' \in Seq(Message) /\ Len(inbox') <= Capacity
    BY <1>0, <2>1, <2>2, AsyncDbAssumption DEF TypeOK
  <2>4. todo' \in [Client -> Seq(Message)]
    BY <1>0, <2>1, <2>2 DEF TypeOK
  <2> QED
    <3>1. TypeOK'
      BY <1>0, <1>3, <2>3, <2>4 DEF Send, TypeOK
    <3>2. Tail(todo[c]) \in Seq(SentBy(c))
      BY <1>0, <2>1 DEF OwnRequests
    <3>3. OwnRequests'
      BY <1>0, <2>1, <3>2 DEF OwnRequests, TypeOK
    <3> QED
      BY <3>1, <3>3 DEF IInv
<1> QED
  BY <1>1, <1>2, <1>3 DEF Transport

\* A worker takes its answers from its own socket.
LEMMA TakeReplyType ==
  ASSUME TypeOK, NEW c \in Client, TakeReply(c), todo' \in [Client -> Seq(Message)]
  PROVE  TypeOK'
<1>1. replies[c] \in Seq(Reply) /\ replies[c] # <<>> /\ replies' = [replies EXCEPT ![c] = Tail(replies[c])]
  BY DEF TakeReply, TypeOK
<1>2. Tail(replies[c]) \in Seq(Reply) /\ Len(Tail(replies[c])) <= Len(replies[c])
  BY <1>1
<1>3. replies' \in [Client -> Seq(Reply)] /\ \A b \in Client : Len(replies'[b]) <= Capacity
  BY <1>1, <1>2, AsyncDbAssumption DEF TypeOK
<1> QED
  BY <1>3 DEF TakeReply, TypeOK

\* What a step of a worker's handler is: one call, with a request at least.
LEMMA CallsCall ==
  ASSUME NEW c \in Client, Calls(c)
  PROVE  \E requests \in Seq(SentBy(c)) : requests # <<>> /\ Call(c, requests)
<1>3. \A k : Seq(About(c, k)) \subseteq Seq(SentBy(c))
  <2> TAKE k
  <2>1. About(c, k) \subseteq SentBy(c)
    BY DEF About, SentBy
  <2> QED
    BY <2>1, SeqMonotonic
<1>1. PICK k \in Key, hook \in Hook \cup {NoHook} :
        \/ Call(c, DbUnset(c, hook, k))
        \/ Call(c, DbGet(c, hook, k))
        \/ \E v \in Value : Call(c, Set_if_null(c, hook, k, v))
        \/ \E v, w \in Value : Call(c, Compare_and_swap(c, hook, k, v, w))
        \/ \E n, d \in Value : n + d \in Value /\ Call(c, Increment(c, hook, k, n, d))
  BY DEF Calls
<1>2. NoValue \in Content /\ Value \subseteq Content /\ Value \subseteq Int
  BY AsyncDbAssumption DEF Content
<1>4. CASE Call(c, DbUnset(c, hook, k))
  <2>1. DbUnset(c, hook, k) \in Seq(SentBy(c)) /\ DbUnset(c, hook, k) # <<>>
    BY <1>2, <1>3, RequestType DEF DbUnset
  <2> QED
    BY <1>4, <2>1
<1>5. CASE Call(c, DbGet(c, hook, k))
  <2>1. DbGet(c, hook, k) \in Seq(SentBy(c)) /\ DbGet(c, hook, k) # <<>>
    BY <1>3, GetType
  <2> QED
    BY <1>5, <2>1
<1>6. CASE \E v \in Value : Call(c, Set_if_null(c, hook, k, v))
  <2>1. PICK v \in Value : Call(c, Set_if_null(c, hook, k, v))
    BY <1>6
  <2>2. Set_if_null(c, hook, k, v) \in Seq(SentBy(c)) /\ Set_if_null(c, hook, k, v) # <<>>
    BY <1>2, <1>3, RequestType DEF Set_if_null
  <2> QED
    BY <2>1, <2>2
<1>7. CASE \E v, w \in Value : Call(c, Compare_and_swap(c, hook, k, v, w))
  <2>1. PICK v \in Value, w \in Value : Call(c, Compare_and_swap(c, hook, k, v, w))
    BY <1>7
  <2>2. /\ Compare_and_swap(c, hook, k, v, w) \in Seq(SentBy(c))
        /\ Compare_and_swap(c, hook, k, v, w) # <<>>
    BY <1>2, <1>3, RequestType
  <2> QED
    BY <2>1, <2>2
<1>8. CASE \E n, d \in Value : n + d \in Value /\ Call(c, Increment(c, hook, k, n, d))
  <2>1. PICK n \in Value, d \in Value : n + d \in Value /\ Call(c, Increment(c, hook, k, n, d))
    BY <1>8
  <2>2. n \in Value /\ d \in Int
    BY <1>2
  <2>3. /\ Increment(c, hook, k, n, d) \in Seq(SentBy(c))
        /\ Increment(c, hook, k, n, d) # <<>>
    BY <1>3, <2>1, <2>2, IncrementType
  <2> QED
    BY <2>1, <2>3
<1> QED
  BY <1>1, <1>4, <1>5, <1>6, <1>7, <1>8

\* The types, and whose the requests are, at every step.
LEMMA Invariance == Spec => []IInv
<1>1. Init => IInv
  <2> SUFFICES ASSUME Init PROVE IInv
    OBVIOUS
  <2>1. db \in [Key -> Content] /\ replies \in [Client -> Seq(Reply)]
        /\ todo \in [Client -> Seq(Message)]
    BY DEF Init, Starts, Content
  <2>2. \A c \in Client : todo[c] = <<>>
    BY DEF Init, Starts
  <2>3. OwnRequests
    BY <2>2, EmptySeq DEF OwnRequests
  <2> QED
    BY <2>1, <2>3, AsyncDbAssumption DEF Init, Starts, IInv, TypeOK
<1>2. IInv /\ [Next]_vars => IInv'
  <2> SUFFICES ASSUME IInv, [Next]_vars PROVE IInv'
    OBVIOUS
  <2>0. TypeOK /\ OwnRequests
    BY DEF IInv
  <2>1. CASE Transport
    BY <2>1, TransportType
  <2>2. ASSUME NEW c \in Client, Callback(c) PROVE IInv'
    <3>1. todo' = todo
      BY <2>2 DEF Callback
    <3>2. TypeOK'
      BY <2>0, <2>2, <3>1, TakeReplyType DEF Callback, TypeOK
    <3> QED
      BY <2>0, <3>1, <3>2 DEF IInv, OwnRequests
  <2>3. ASSUME NEW c \in Client, Calls(c) PROVE IInv'
    BY <2>3, CallsCall, CallType
  <2>4. CASE UNCHANGED vars
    BY <2>0, <2>4 DEF vars, IInv, TypeOK, OwnRequests
  <2> QED
    BY <2>1, <2>2, <2>3, <2>4 DEF Next
<1> QED
  BY <1>1, <1>2, PTL DEF Spec

\* The sockets of the pipeline never hold more than they can, and a request, its answer
\* and the table have the fields and the values they were made with (async_db.c,
\* async_db_master.c).
THEOREM TypeCorrect == Spec => []TypeOK
BY Invariance, PTL DEF IInv
-----------------------------------------------------------------------------
\* The mapping: what the store has as calls and answers.
Asked(q) == MapSeq(q, RequestOf)
Told(q) == MapSeq(q, AnswerOf)
CallsNow == [c \in Client |-> Asked(Of(c, inbox) \o todo[c])]
AnswersNow == [c \in Client |-> Told(replies[c] \o OwedTo(c))]

\* Messages and requests correspond one to one, in their order.
LEMMA AskedSeq ==
  ASSUME NEW q \in Seq(Message)
  PROVE  /\ Asked(q) \in Seq(Store!Request) /\ Len(Asked(q)) = Len(q)
         /\ \A n \in 1..Len(q) : Asked(q)[n] = RequestOf(q[n])
<1>1. \A m \in Message : RequestOf(m) \in Store!Request
  BY DEF Message, Content, RequestOf, Store!Request, Store!Content
<1>2. Len(q) \in Nat /\ DOMAIN q = 1..Len(q) /\ \A n \in 1..Len(q) : q[n] \in Message
  OBVIOUS
<1>3. Asked(q) = [n \in 1..Len(q) |-> RequestOf(q[n])]
  BY <1>2 DEF Asked, MapSeq
<1>4. Asked(q) \in [1..Len(q) -> Store!Request]
  BY <1>1, <1>2, <1>3
<1>5. Asked(q) \in Seq(Store!Request)
  BY <1>2, <1>4, SeqDef
<1> QED
  BY <1>2, <1>3, <1>5

\* So do the master's replies and the answers.
LEMMA ToldSeq ==
  ASSUME NEW q \in Seq(Reply)
  PROVE  /\ Told(q) \in Seq(Store!Answer) /\ Len(Told(q)) = Len(q)
         /\ \A n \in 1..Len(q) : Told(q)[n] = AnswerOf(q[n])
<1>1. \A r \in Reply : AnswerOf(r) \in Store!Answer
  BY DEF Reply, Content, AnswerOf, Store!Answer, Store!Content
<1>2. Len(q) \in Nat /\ DOMAIN q = 1..Len(q) /\ \A n \in 1..Len(q) : q[n] \in Reply
  OBVIOUS
<1>3. Told(q) = [n \in 1..Len(q) |-> AnswerOf(q[n])]
  BY <1>2 DEF Told, MapSeq
<1>4. Told(q) \in [1..Len(q) -> Store!Answer]
  BY <1>1, <1>2, <1>3
<1>5. Told(q) \in Seq(Store!Answer)
  BY <1>2, <1>4, SeqDef
<1> QED
  BY <1>2, <1>3, <1>5

\* Taking the first message takes the first request.
LEMMA AskedHead ==
  ASSUME NEW q \in Seq(Message), q # <<>>
  PROVE  /\ Asked(q) # <<>> /\ Head(Asked(q)) = RequestOf(Head(q))
         /\ Tail(Asked(q)) = Asked(Tail(q))
<1> DEFINE p == Asked(q)
           t == Tail(q)
           r == Asked(t)
<1>1. Len(q) \in Nat \ {0} /\ Head(q) = q[1] /\ t \in Seq(Message) /\ Len(t) = Len(q) - 1
      /\ \A n \in 1..(Len(q) - 1) : t[n] = q[n + 1]
  OBVIOUS
<1> HIDE DEF t
<1>2. p \in Seq(Store!Request) /\ Len(p) = Len(q) /\ \A n \in 1..Len(q) : p[n] = RequestOf(q[n])
  BY AskedSeq
<1>3. r \in Seq(Store!Request) /\ Len(r) = Len(t) /\ \A n \in 1..Len(t) : r[n] = RequestOf(t[n])
  BY <1>1, AskedSeq
<1> HIDE DEF p, r
<1>4. p # <<>> /\ Head(p) = RequestOf(q[1])
  BY <1>1, <1>2
<1>5. Tail(p) \in Seq(Store!Request) /\ Len(Tail(p)) = Len(r)
      /\ \A n \in 1..Len(r) : Tail(p)[n] = p[n + 1]
  <2>1. Len(r) = Len(p) - 1
    BY <1>1, <1>2, <1>3
  <2>2. Tail(p) \in Seq(Store!Request) /\ Len(Tail(p)) = Len(p) - 1
        /\ \A n \in 1..(Len(p) - 1) : Tail(p)[n] = p[n + 1]
    BY <1>2, <1>4, HeadTailProperties
  <2> QED
    BY <2>1, <2>2
<1>6. ASSUME NEW n \in 1..Len(r) PROVE Tail(p)[n] = r[n]
  <2>1. n \in 1..Len(t) /\ n \in 1..(Len(q) - 1) /\ n + 1 \in 1..Len(q)
    BY <1>1, <1>3
  <2>2. r[n] = RequestOf(q[n + 1]) /\ p[n + 1] = RequestOf(q[n + 1])
    BY <1>1, <1>2, <1>3, <2>1
  <2> QED
    BY <1>5, <2>2
<1>7. Tail(p) = r
  BY <1>3, <1>5, <1>6, SeqEqual
<1> QED
  BY <1>1, <1>4, <1>7 DEF p, r, t

\* A new call comes after those under way.
LEMMA AskedMore ==
  ASSUME NEW q \in Seq(Message), NEW p \in Seq(Message), p # <<>>
  PROVE  Store!IsStrictPrefix(Asked(q \o <<>>), Asked(q \o p))
<1> DEFINE a == Asked(q \o <<>>)
           z == q \o p
           b == Asked(z)
<1>1. /\ z \in Seq(Message) /\ Len(z) = Len(q) + Len(p) /\ Len(p) \in Nat \ {0} /\ Len(q) \in Nat
      /\ \A n \in 1..Len(q) : z[n] = q[n]
  OBVIOUS
<1> HIDE DEF z
<1>2. q \o <<>> = q
  OBVIOUS
<1>3. a \in Seq(Store!Request) /\ Len(a) = Len(q) /\ \A n \in 1..Len(q) : a[n] = RequestOf(q[n])
  BY <1>2, AskedSeq
<1>4. b \in Seq(Store!Request) /\ Len(b) = Len(z) /\ \A n \in 1..Len(z) : b[n] = RequestOf(z[n])
  BY <1>1, AskedSeq
<1> HIDE DEF a, b
<1>5. Len(a) <= Len(b) /\ a # b /\ \A n \in 1..Len(a) : a[n] = b[n]
  BY <1>1, <1>3, <1>4
<1>6. SubSeq(a, 1, Len(a)) = SubSeq(b, 1, Len(a))
  <2>1. \A n \in 1..Len(a) : a[n] \in Store!Request /\ b[n] \in Store!Request
    BY <1>1, <1>3, <1>4
  <2>2. /\ SubSeq(a, 1, Len(a)) \in Seq(Store!Request) /\ Len(SubSeq(a, 1, Len(a))) = Len(a)
        /\ \A n \in 1..Len(a) : SubSeq(a, 1, Len(a))[n] = a[n]
    BY <1>1, <1>3, <2>1, SubSeqProperties
  <2>3. /\ SubSeq(b, 1, Len(a)) \in Seq(Store!Request) /\ Len(SubSeq(b, 1, Len(a))) = Len(a)
        /\ \A n \in 1..Len(a) : SubSeq(b, 1, Len(a))[n] = b[n]
    BY <1>1, <1>3, <2>1, SubSeqProperties
  <2> QED
    BY <1>5, <2>2, <2>3, SeqEqual
<1> QED
  BY <1>5, <1>6 DEF Store!IsStrictPrefix, Store!IsPrefix, a, b, z

\* Hearing the first answer takes the master's first reply.
LEMMA ToldHead ==
  ASSUME NEW q \in Seq(Reply), q # <<>>
  PROVE  Told(q) # <<>> /\ Tail(Told(q)) = Told(Tail(q))
<1> DEFINE p == Told(q)
           t == Tail(q)
           r == Told(t)
<1>1. Len(q) \in Nat \ {0} /\ t \in Seq(Reply) /\ Len(t) = Len(q) - 1
      /\ \A n \in 1..(Len(q) - 1) : t[n] = q[n + 1]
  OBVIOUS
<1> HIDE DEF t
<1>2. p \in Seq(Store!Answer) /\ Len(p) = Len(q) /\ \A n \in 1..Len(q) : p[n] = AnswerOf(q[n])
  BY ToldSeq
<1>3. r \in Seq(Store!Answer) /\ Len(r) = Len(t) /\ \A n \in 1..Len(t) : r[n] = AnswerOf(t[n])
  BY <1>1, ToldSeq
<1> HIDE DEF p, r
<1>4. p # <<>>
  BY <1>1, <1>2
<1>5. Tail(p) \in Seq(Store!Answer) /\ Len(Tail(p)) = Len(r)
      /\ \A n \in 1..Len(r) : Tail(p)[n] = p[n + 1]
  <2>1. Len(r) = Len(p) - 1
    BY <1>1, <1>2, <1>3
  <2>2. Tail(p) \in Seq(Store!Answer) /\ Len(Tail(p)) = Len(p) - 1
        /\ \A n \in 1..(Len(p) - 1) : Tail(p)[n] = p[n + 1]
    BY <1>2, <1>4, HeadTailProperties
  <2> QED
    BY <2>1, <2>2
<1>6. ASSUME NEW n \in 1..Len(r) PROVE Tail(p)[n] = r[n]
  <2>1. n \in 1..Len(t) /\ n \in 1..(Len(q) - 1) /\ n + 1 \in 1..Len(q)
    BY <1>1, <1>3
  <2>2. r[n] = AnswerOf(q[n + 1]) /\ p[n + 1] = AnswerOf(q[n + 1])
    BY <1>1, <1>2, <1>3, <2>1
  <2> QED
    BY <1>5, <2>2
<1>7. Tail(p) = r
  BY <1>3, <1>5, <1>6, SeqEqual
<1> QED
  BY <1>4, <1>7 DEF p, r, t

\* A reply of the master comes after those a worker has yet to hear.
LEMMA ToldMore ==
  ASSUME NEW q \in Seq(Reply), NEW e \in Reply
  PROVE  Told(q \o <<e>>) = Append(Told(q), AnswerOf(e))
<1> DEFINE a == Told(q)
           z == q \o <<e>>
           b == Told(z)
           x == AnswerOf(e)
           y == Append(a, x)
<1>1. /\ z \in Seq(Reply) /\ Len(z) = Len(q) + 1 /\ z[Len(q) + 1] = e /\ Len(q) \in Nat
      /\ \A n \in 1..Len(q) : z[n] = q[n]
  OBVIOUS
<1>2. x \in Store!Answer
  BY DEF Reply, Content, AnswerOf, Store!Answer, Store!Content
<1>3. a \in Seq(Store!Answer) /\ Len(a) = Len(q) /\ \A n \in 1..Len(q) : a[n] = AnswerOf(q[n])
  BY ToldSeq
<1> HIDE DEF z
<1>4. b \in Seq(Store!Answer) /\ Len(b) = Len(z) /\ \A n \in 1..Len(z) : b[n] = AnswerOf(z[n])
  BY <1>1, ToldSeq
<1>5. x = AnswerOf(e)
  OBVIOUS
<1> HIDE DEF a, b, x
<1>6. y \in Seq(Store!Answer) /\ Len(y) = Len(a) + 1 /\ y[Len(a) + 1] = x
      /\ \A n \in 1..Len(a) : y[n] = a[n]
  BY <1>2, <1>3
<1> HIDE DEF y
<1>7. Len(b) = Len(y)
  BY <1>1, <1>3, <1>4, <1>6
<1>8. \A n \in 1..Len(y) : b[n] = y[n]
  <2> TAKE n \in 1..Len(y)
  <2>1. CASE n = Len(q) + 1
    <3>1. b[n] = AnswerOf(z[n])
      BY <1>1, <1>4, <2>1
    <3> QED
      BY <1>1, <1>3, <1>5, <1>6, <2>1, <3>1
  <2>2. CASE n # Len(q) + 1
    <3>1. n \in 1..Len(q)
      BY <1>1, <1>3, <1>6, <2>2
    <3>2. b[n] = AnswerOf(q[n]) /\ y[n] = AnswerOf(q[n])
      BY <1>1, <1>3, <1>4, <1>6, <3>1
    <3> QED
      BY <3>2
  <2> QED
    BY <2>1, <2>2
<1>9. b = y
  BY <1>4, <1>6, <1>7, <1>8, SeqEqual
<1> QED
  BY <1>9 DEF y, b, a, x, z

\* Serve: the first message of the socket is its sender's first call, executed and
\* answered.
LEMMA ServeExecutes ==
  ASSUME IInv, Serve
  PROVE  \E c \in Client : Store!Execute(c)
<1> DEFINE m == Head(inbox)
           c == m.src
           rest == Tail(inbox)
<1>0. TypeOK
  BY DEF IInv
<1>1. /\ inbox \in Seq(Message) /\ inbox # <<>> /\ owed = <<>> /\ inbox' = rest
      /\ db' = IF Stored(m) THEN [db EXCEPT ![m.key] = m.newval] ELSE db
      /\ owed' = Answers(m)
      /\ UNCHANGED <<replies, todo>>
  BY <1>0 DEF Serve, TypeOK
<1>2. m \in Message /\ rest \in Seq(Message)
  BY <1>1
<1>3. c \in Client /\ m.key \in Key
  BY <1>2 DEF Message
<1>4. \A b \in Client : todo[b] \in Seq(Message) /\ replies[b] \in Seq(Reply)
  BY <1>0 DEF TypeOK
<1>5. \A b \in Client : Of(b, inbox) = IF c = b THEN <<m>> \o Of(b, rest) ELSE Of(b, rest)
  BY <1>1, OfHead
<1>6. \A b \in Client : Of(b, rest) \in Seq(Message)
  BY <1>2, OfType
<1> HIDE DEF m, c, rest
<1>7. CallsNow[c] # <<>> /\ Head(CallsNow[c]) = RequestOf(m)
      /\ CallsNow' = [CallsNow EXCEPT ![c] = Tail(CallsNow[c])]
  <2> DEFINE x == Of(c, rest)
             q == (<<m>> \o x) \o todo[c]
  <2>1. x \in Seq(Message) /\ todo[c] \in Seq(Message)
    BY <1>3, <1>4, <1>6
  <2>2. CallsNow[c] = Asked(q)
    BY <1>3, <1>5 DEF CallsNow
  <2>3. q \in Seq(Message) /\ q # <<>> /\ Head(q) = m /\ Tail(q) = x \o todo[c]
    <3> DEFINE p == <<m>> \o x
               y == todo[c]
    <3>1. y \in Seq(Message) /\ x \in Seq(Message)
      BY <2>1
    <3> HIDE DEF x, y
    <3>2. p \in Seq(Message) /\ p # <<>> /\ Head(p) = m /\ Tail(p) = x
      BY <1>2, <3>1
    <3> HIDE DEF p
    <3>3. p \o y \in Seq(Message) /\ p \o y # <<>> /\ Head(p \o y) = Head(p)
          /\ Tail(p \o y) = Tail(p) \o y
      BY <3>1, <3>2
    <3> QED
      BY <3>2, <3>3 DEF p, y
  <2> HIDE DEF x, q
  <2>4. Asked(q) # <<>> /\ Head(Asked(q)) = RequestOf(m) /\ Tail(Asked(q)) = Asked(x \o todo[c])
    BY <2>3, AskedHead
  <2>5. CallsNow' = [b \in Client |-> Asked(Of(b, rest) \o todo[b])]
    BY <1>1 DEF CallsNow, Asked, MapSeq
  <2>6. \A b \in Client : CallsNow'[b] = IF b = c THEN Tail(CallsNow[c]) ELSE CallsNow[b]
    <3>1. CallsNow'[c] = Tail(CallsNow[c])
      BY <1>3, <2>2, <2>4, <2>5 DEF x
    <3>2. \A b \in Client : b # c => CallsNow'[b] = CallsNow[b]
      BY <1>5, <2>5 DEF CallsNow
    <3> QED
      BY <3>1, <3>2
  <2> QED
    BY <2>2, <2>4, <2>5, <2>6 DEF CallsNow
<1>8. db' = Store!Effect(RequestOf(m), db)
  BY <1>0, <1>1, <1>2 DEF Stored, Matches, Store!Effect, Store!Succeeds, RequestOf, Message
<1>9. m.hook # NoHook => AnswerOf(Reply_to(m)) = Store!AnswerTo(RequestOf(m), db)
  BY <1>0, <1>2 DEF Stored, Matches, Store!AnswerTo, Store!Succeeds, RequestOf, Message,
     AnswerOf, Reply_to
<1>10. AnswersNow' = IF RequestOf(m).hook = NoHook THEN AnswersNow
                     ELSE [AnswersNow EXCEPT ![c] = Append(AnswersNow[c],
                             Store!AnswerTo(RequestOf(m), db))]
  <2>1. RequestOf(m).hook = m.hook
    BY DEF RequestOf
  <2>6. ASSUME NEW b \in Client PROVE replies[b] \o <<>> = replies[b]
    <3> DEFINE y == replies[b]
    <3>1. y \in Seq(Reply)
      BY <1>4
    <3> HIDE DEF y
    <3>2. y \o <<>> = y
      BY <3>1
    <3> QED
      BY <3>2 DEF y
  <2>2. \A b \in Client : AnswersNow[b] = Told(replies[b])
    <3>1. \A b \in Client : OwedTo(b) = <<>>
      BY <1>1 DEF OwedTo
    <3> QED
      BY <2>6, <3>1 DEF AnswersNow
  <2>3. AnswersNow' = [b \in Client |-> Told(replies[b] \o OwedTo(b)')]
    BY <1>1 DEF AnswersNow, Told, MapSeq
  <2>4. CASE m.hook = NoHook
    <3>1. \A b \in Client : OwedTo(b)' = <<>>
      BY <1>1, <2>4 DEF OwedTo, Answers
    <3>2. \A b \in Client : AnswersNow'[b] = AnswersNow[b]
      BY <2>2, <2>3, <2>6, <3>1
    <3> QED
      BY <2>1, <2>3, <2>4, <3>2 DEF AnswersNow
  <2>5. CASE m.hook # NoHook
    <3> DEFINE r == Reply_to(m)
    <3>1. owed' = <<r>> /\ r.to = c
      BY <1>1, <2>5 DEF Answers, Reply_to, c
    <3>2. r \in Reply
      <4>1. Answers(m) \in Seq(Reply)
        BY <1>0, <1>2, ReplyType
      <4>2. <<r>> \in Seq(Reply) /\ <<r>>[1] = r
        BY <2>5, <4>1 DEF Answers
      <4> QED
        BY <4>2
    <3>3. \A b \in Client : OwedTo(b)' = IF b = c THEN <<r>> ELSE <<>>
      BY <3>1 DEF OwedTo
    <3> HIDE DEF r
    <3>5. Told(replies[c] \o <<r>>) = Append(Told(replies[c]), AnswerOf(r))
      BY <1>3, <1>4, <3>2, ToldMore
    <3>6. AnswersNow'[c] = Append(AnswersNow[c], Store!AnswerTo(RequestOf(m), db))
      BY <1>3, <1>9, <2>2, <2>3, <2>5, <3>3, <3>5 DEF r
    <3>7. \A b \in Client : b # c => AnswersNow'[b] = AnswersNow[b]
      BY <2>2, <2>3, <2>6, <3>3
    <3> QED
      BY <2>1, <2>3, <2>5, <3>6, <3>7 DEF AnswersNow
  <2> QED
    BY <2>4, <2>5
<1> QED
  BY <1>3, <1>7, <1>8, <1>10 DEF Store!Execute, CallsNow, AnswersNow, Asked, Told

\* Send moves a request from the handler to the socket: no call is lost or overtaken.
LEMMA SendStutters ==
  ASSUME IInv, NEW c \in Client, Send(c)
  PROVE  UNCHANGED <<db, CallsNow, AnswersNow>>
<1> DEFINE m == Head(todo[c])
           t == todo[c]
<1>1. /\ t \in Seq(SentBy(c)) /\ t # <<>> /\ inbox' = Append(inbox, m)
      /\ todo' = [todo EXCEPT ![c] = Tail(t)] /\ UNCHANGED <<db, replies, owed>>
      /\ todo \in [Client -> Seq(Message)] /\ inbox \in Seq(Message)
  BY DEF Send, IInv, OwnRequests, TypeOK
<1>2. m \in Message /\ m.src = c
  <2>1. m \in SentBy(c)
    BY <1>1
  <2> QED
    BY <2>1 DEF SentBy
<1>3. ASSUME NEW b \in Client
      PROVE  Of(b, inbox)' \o todo'[b] = Of(b, inbox) \o todo[b]
  <2>1. Of(b, inbox)' = IF m.src = b THEN Append(Of(b, inbox), m) ELSE Of(b, inbox)
    BY <1>1, <1>2, OfAppend
  <2>2. CASE b # c
    BY <1>1, <1>2, <2>1, <2>2
  <2>3. CASE b = c
    <3> DEFINE x == Of(b, inbox)
    <3>1. x \in Seq(Message) /\ t \in Seq(Message)
      BY <1>1, OfType
    <3>2. m = Head(t)
      OBVIOUS
    <3>3. Of(b, inbox)' = Append(x, m) /\ todo'[b] = Tail(t)
      BY <1>1, <1>2, <2>1, <2>3
    <3> HIDE DEF x, m, t
    <3>4. Append(x, m) \o Tail(t) = x \o t
      <4>1. Append(x, m) \o Tail(t) \in Seq(Message) /\ x \o t \in Seq(Message)
        BY <1>1, <1>2, <3>1
      <4>2. Len(Append(x, m) \o Tail(t)) = Len(x \o t)
        BY <1>1, <1>2, <3>1
      <4>3. \A n \in 1..Len(x \o t) : (Append(x, m) \o Tail(t))[n] = (x \o t)[n]
        BY <1>1, <1>2, <3>1, <3>2
      <4> QED
        BY <4>1, <4>2, <4>3, SeqEqual
    <3> QED
      BY <2>3, <3>3, <3>4 DEF x, t
  <2> QED
    BY <2>2, <2>3
<1>4. CallsNow' = CallsNow
  BY <1>3 DEF CallsNow, Asked, MapSeq
<1>5. AnswersNow' = AnswersNow
  BY <1>1 DEF AnswersNow, OwedTo, Told, MapSeq
<1> QED
  BY <1>1, <1>4, <1>5

\* So does SendReply on the way back.
LEMMA SendReplyStutters ==
  ASSUME IInv, SendReply
  PROVE  UNCHANGED <<db, CallsNow, AnswersNow>>
<1> DEFINE r == owed[1]
           c == r.to
<1>1. /\ owed \in Seq(Reply) /\ owed # <<>> /\ Len(owed) <= 1 /\ owed' = <<>>
      /\ replies \in [Client -> Seq(Reply)]
      /\ replies' = [replies EXCEPT ![c] = Append(replies[c], r)]
      /\ UNCHANGED <<db, inbox, todo>>
  BY DEF SendReply, IInv, TypeOK
<1>2. r \in Reply /\ owed = <<r>>
  <2>0. Len(owed) = 1
    <3> DEFINE n == Len(owed)
    <3>1. n \in Nat \ {0} /\ n <= 1
      BY <1>1, EmptySeq
    <3> HIDE DEF n
    <3>2. n = 1
      BY <3>1
    <3> QED
      BY <3>2 DEF n
  <2>1. r \in Reply /\ Len(owed) = 1 /\ owed[1] = r
    BY <1>1, <2>0
  <2> HIDE DEF r
  <2>2. <<r>> \in Seq(Reply) /\ Len(<<r>>) = 1 /\ <<r>>[1] = r
    BY <2>1
  <2> QED
    BY <1>1, <2>1, <2>2, SeqEqual
<1>3. c \in Client
  BY <1>2 DEF Reply
<1>4. \A b \in Client : OwedTo(b) = (IF b = c THEN <<r>> ELSE <<>>) /\ OwedTo(b)' = <<>>
  BY <1>1, <1>2 DEF OwedTo
<1> HIDE DEF r, c
<1>5. ASSUME NEW b \in Client
      PROVE  replies'[b] \o OwedTo(b)' = replies[b] \o OwedTo(b)
  <2> DEFINE y == replies[b]
  <2>1. y \in Seq(Reply)
    BY <1>1
  <2>2. replies'[b] = IF b = c THEN Append(y, r) ELSE y
    BY <1>1
  <2> HIDE DEF y
  <2>3. Append(y, r) \o <<>> = y \o <<r>>
    BY <1>2, <2>1
  <2> QED
    BY <1>4, <2>2, <2>3 DEF y
<1>6. AnswersNow' = AnswersNow
  BY <1>5 DEF AnswersNow, Told, MapSeq
<1>7. CallsNow' = CallsNow
  BY <1>1 DEF CallsNow, Asked, MapSeq
<1> QED
  BY <1>1, <1>6, <1>7

\* A handler's call adds its requests after the worker's others.
LEMMA CallCalls ==
  ASSUME IInv, NEW c \in Client, NEW requests \in Seq(SentBy(c)), requests # <<>>,
         Call(c, requests)
  PROVE  Store!Call(c)
<1>1. /\ todo[c] = <<>> /\ todo' = [todo EXCEPT ![c] = requests]
      /\ UNCHANGED <<db, inbox, replies, owed>>
      /\ todo \in [Client -> Seq(Message)] /\ inbox \in Seq(Message)
  BY DEF Call, IInv, TypeOK
<1>2. requests \in Seq(Message)
  BY SeqMonotonic DEF SentBy
<1>3. \A b \in Client : Of(b, inbox) \in Seq(Message)
  BY <1>1, OfType
<1>4. CallsNow' = [b \in Client |-> Asked(Of(b, inbox) \o todo'[b])]
  BY <1>1 DEF CallsNow, Asked, MapSeq
<1>5. Store!IsStrictPrefix(CallsNow[c], CallsNow'[c])
  <2> DEFINE q == Of(c, inbox)
  <2>1. q \in Seq(Message)
    BY <1>3
  <2>2. CallsNow[c] = Asked(q \o <<>>) /\ CallsNow'[c] = Asked(q \o requests)
    BY <1>1, <1>4 DEF CallsNow
  <2> HIDE DEF q
  <2>3. Store!IsStrictPrefix(Asked(q \o <<>>), Asked(q \o requests))
    BY <1>2, <2>1, AskedMore
  <2> QED
    BY <2>2, <2>3
<1>6. \A b \in Client \ {c} : CallsNow'[b] = CallsNow[b]
  BY <1>1, <1>4 DEF CallsNow
<1>7. CallsNow' \in [Client -> Seq(Store!Request)]
  <2>1. ASSUME NEW b \in Client PROVE Asked(Of(b, inbox) \o todo'[b]) \in Seq(Store!Request)
    <3>1. todo'[b] \in Seq(Message)
      BY <1>1, <1>2
    <3>2. Of(b, inbox) \o todo'[b] \in Seq(Message)
      BY <1>3, <3>1, ConcatProperties
    <3> QED
      BY <3>2, AskedSeq
  <2> QED
    BY <1>4, <2>1
<1>8. AnswersNow' = AnswersNow
  BY <1>1 DEF AnswersNow, OwedTo, Told, MapSeq
<1> QED
  BY <1>1, <1>5, <1>6, <1>7, <1>8 DEF Store!Call, CallsNow, AnswersNow, Asked, Told

\* A callback hears the first of the worker's answers.
LEMMA CallbackHears ==
  ASSUME IInv, NEW c \in Client, Callback(c)
  PROVE  Store!Hear(c)
<1>1. /\ replies[c] # <<>> /\ replies' = [replies EXCEPT ![c] = Tail(replies[c])]
      /\ UNCHANGED <<db, inbox, owed, todo>>
      /\ replies \in [Client -> Seq(Reply)] /\ owed \in Seq(Reply)
  BY DEF Callback, TakeReply, IInv, TypeOK
<1>2. \A b \in Client : OwedTo(b)' = OwedTo(b) /\ OwedTo(b) \in Seq(Reply)
  BY <1>1 DEF OwedTo
<1>3. AnswersNow' = [b \in Client |-> Told(replies'[b] \o OwedTo(b))]
  BY <1>1, <1>2 DEF AnswersNow, Told, MapSeq
<1> DEFINE x == replies[c]
           y == OwedTo(c)
           q == x \o y
<1>4. x \in Seq(Reply) /\ x # <<>> /\ y \in Seq(Reply)
  BY <1>1, <1>2
<1>5. AnswersNow[c] = Told(q) /\ AnswersNow'[c] = Told(Tail(x) \o y)
  BY <1>1, <1>3 DEF AnswersNow
<1> HIDE DEF x, y
<1>6. q \in Seq(Reply) /\ q # <<>> /\ Tail(q) = Tail(x) \o y
  BY <1>4
<1> HIDE DEF q
<1>7. Told(q) # <<>> /\ Tail(Told(q)) = Told(Tail(x) \o y)
  BY <1>6, ToldHead
<1>8. \A b \in Client : b # c => AnswersNow'[b] = AnswersNow[b]
  BY <1>1, <1>3 DEF AnswersNow
<1>9. AnswersNow' = [AnswersNow EXCEPT ![c] = Tail(AnswersNow[c])]
  BY <1>3, <1>5, <1>7, <1>8 DEF AnswersNow
<1>10. CallsNow' = CallsNow
  BY <1>1 DEF CallsNow, Asked, MapSeq
<1> QED
  BY <1>1, <1>5, <1>7, <1>9, <1>10 DEF Store!Hear, CallsNow, AnswersNow, Asked, Told

\* For every number of workers, keys and hooks and every capacity of the sockets: each
\* request takes effect once, atomically and in its worker's order, and its answer says
\* what it found then, however the workers' sends, the master's hooks and its replies
\* interleave.
THEOREM Refinement == Spec => ImplementsStore
<1>1. Init => Store!Init
  <2> SUFFICES ASSUME Init PROVE Store!Init
    OBVIOUS
  <2>1. \A c \in Client : Of(c, inbox) \o todo[c] = <<>> /\ replies[c] \o OwedTo(c) = <<>>
    <3> TAKE c \in Client
    <3>1. Of(c, inbox) = <<>> /\ todo[c] = <<>> /\ replies[c] = <<>> /\ OwedTo(c) = <<>>
      BY OfEmpty DEF Init, Starts, OwedTo
    <3>2. <<>> \o <<>> = <<>>
      OBVIOUS
    <3> QED
      BY <3>1, <3>2
  <2>2. MapSeq(<<>>, RequestOf) = <<>> /\ MapSeq(<<>>, AnswerOf) = <<>>
    BY DEF MapSeq
  <2> QED
    BY <2>1, <2>2 DEF Init, Starts, Store!Init
<1>2. ASSUME IInv, [Next]_vars PROVE [Store!Next]_(Store!vars)
  <2>1. UNCHANGED <<db, CallsNow, AnswersNow>> => UNCHANGED Store!vars
    BY DEF Store!vars, CallsNow, AnswersNow, Asked, Told
  <2>2. CASE Serve
    BY <1>2, <2>2, ServeExecutes DEF Store!Next
  <2>3. CASE SendReply
    BY <1>2, <2>1, <2>3, SendReplyStutters
  <2>4. ASSUME NEW c \in Client, Send(c) PROVE UNCHANGED Store!vars
    BY <1>2, <2>1, <2>4, SendStutters
  <2>5. ASSUME NEW c \in Client, Callback(c) PROVE Store!Next
    BY <1>2, <2>5, CallbackHears DEF Store!Next
  <2>6. ASSUME NEW c \in Client, Calls(c) PROVE Store!Next
    BY <1>2, <2>6, CallsCall, CallCalls DEF Store!Next
  <2>7. CASE UNCHANGED vars
    <3>1. UNCHANGED <<db, CallsNow, AnswersNow>>
      BY <2>7 DEF vars, CallsNow, AnswersNow, Asked, Told, MapSeq, OwedTo
    <3> QED
      BY <2>1, <3>1
  <2> QED
    BY <1>2, <2>2, <2>3, <2>4, <2>5, <2>6, <2>7 DEF Next, Transport
<1> QED
  BY <1>1, <1>2, Invariance, PTL DEF Spec, ImplementsStore, Store!Spec
-----------------------------------------------------------------------------
\* The requests and answers of a worker under way are no more than it may have.
Bounded == \A c \in Client : Pending(c) <= MaxPending[c]

LEMMA SumType == \A t, n, o, r \in Nat : t + n + o + r \in Nat
OBVIOUS

\* What leaves one place and comes to another is not more.
LEMMA SumMoves ==
  \A t, n, o, r, t1, n1, o1, r1 \in Nat :
    /\ t1 + n1 <= t + n /\ o1 + r1 <= o + r => t1 + n1 + o1 + r1 <= t + n + o + r
    /\ t1 = t /\ r1 = r /\ n1 + o1 <= n + o => t1 + n1 + o1 + r1 <= t + n + o + r
OBVIOUS

\* What is counted of a worker, before a step and after it.
LEMMA PendingType ==
  ASSUME TypeOK, TypeOK', NEW c \in Client
  PROVE  /\ Len(todo[c]) \in Nat /\ Len(Of(c, inbox)) \in Nat
         /\ Len(OwedTo(c)) \in Nat /\ Len(replies[c]) \in Nat
         /\ Len(todo'[c]) \in Nat /\ Len(Of(c, inbox')) \in Nat
         /\ Len(OwedTo(c)') \in Nat /\ Len(replies'[c]) \in Nat
<1>1. /\ todo[c] \in Seq(Message) /\ replies[c] \in Seq(Reply) /\ inbox \in Seq(Message)
      /\ todo'[c] \in Seq(Message) /\ replies'[c] \in Seq(Reply) /\ inbox' \in Seq(Message)
      /\ owed \in Seq(Reply) /\ owed' \in Seq(Reply)
  BY DEF TypeOK
<1>2. Of(c, inbox) \in Seq(Message) /\ Of(c, inbox') \in Seq(Message)
  BY <1>1, OfType
<1>3. Len(owed) \in Nat /\ Len(owed') \in Nat /\ Len(<<>>) = 0
  BY <1>1
<1>4. Len(OwedTo(c)) \in Nat /\ Len(OwedTo(c)') \in Nat
  BY <1>3, Zenon DEF OwedTo
<1>5. \A S, q : q \in Seq(S) => Len(q) \in Nat
  OBVIOUS
<1> QED
  BY <1>1, <1>2, <1>4, <1>5, Zenon

\* A request taken from the socket becomes one answer at most.
LEMMA ServeBounded ==
  ASSUME IInv, TypeOK', Serve, NEW c \in Client
  PROVE  Pending(c)' <= Pending(c)
<1>1. /\ inbox \in Seq(Message) /\ inbox # <<>> /\ owed = <<>> /\ inbox' = Tail(inbox)
      /\ UNCHANGED <<replies, todo>> /\ owed' = Answers(Head(inbox))
  BY DEF Serve, TypeOK, IInv
<1>2. Head(inbox) \in Message /\ Tail(inbox) \in Seq(Message)
  BY <1>1
<1>3. Of(c, inbox) = IF Head(inbox).src = c THEN <<Head(inbox)>> \o Of(c, Tail(inbox))
                                            ELSE Of(c, Tail(inbox))
  BY <1>1, OfHead
<1>4. Of(c, Tail(inbox)) \in Seq(Message)
  BY <1>2, OfType
<1>5. Len(OwedTo(c)) = 0
  BY <1>1 DEF OwedTo
<1>6. Len(Of(c, inbox')) + Len(OwedTo(c)') <= Len(Of(c, inbox)) + Len(OwedTo(c))
  <2>1. CASE Head(inbox).src = c
    <3>1. Len(Of(c, inbox)) = 1 + Len(Of(c, inbox')) /\ Len(Of(c, inbox')) \in Nat
      BY <1>1, <1>2, <1>3, <1>4, <2>1
    <3>2. Len(OwedTo(c)') = 0 \/ Len(OwedTo(c)') = 1
      BY <1>1 DEF OwedTo, Answers
    <3>3. \A p, q, a, z \in Nat : z = 0 /\ p = 1 + q /\ (a = 0 \/ a = 1) => q + a <= p + z
      OBVIOUS
    <3>4. TypeOK
      BY DEF IInv
    <3> QED
      BY <1>5, <3>1, <3>2, <3>3, <3>4, PendingType, Zenon
  <2>2. CASE Head(inbox).src # c
    <3>1. Len(Of(c, inbox)) = Len(Of(c, inbox')) /\ Len(Of(c, inbox')) \in Nat
      BY <1>1, <1>3, <1>4, <2>2
    <3>2. Len(OwedTo(c)') = 0
      BY <1>1, <2>2 DEF OwedTo, Answers, Reply_to
    <3> QED
      BY <1>5, <3>1, <3>2
  <2> QED
    BY <2>1, <2>2
<1>7. TypeOK /\ todo'[c] = todo[c] /\ replies'[c] = replies[c]
  BY <1>1 DEF IInv
<1> QED
  BY <1>6, <1>7, PendingType, SumMoves, Zenon DEF Pending

\* What is sent is only elsewhere then.
LEMMA SendBounded ==
  ASSUME IInv, TypeOK', NEW b \in Client, Send(b), NEW c \in Client
  PROVE  Pending(c)' <= Pending(c)
<1>1. /\ todo[b] \in Seq(Message) /\ todo[b] # <<>> /\ inbox' = Append(inbox, Head(todo[b]))
      /\ todo' = [todo EXCEPT ![b] = Tail(todo[b])] /\ UNCHANGED <<replies, owed>>
      /\ inbox \in Seq(Message) /\ todo \in [Client -> Seq(Message)] /\ TypeOK
  BY DEF Send, TypeOK, IInv
<1>2. Head(todo[b]) \in Message
  BY <1>1
<1>3. Of(c, inbox') = IF Head(todo[b]).src = c THEN Append(Of(c, inbox), Head(todo[b]))
                                              ELSE Of(c, inbox)
  BY <1>1, <1>2, OfAppend
<1>4. Of(c, inbox) \in Seq(Message)
  BY <1>1, OfType
<1>5. OwedTo(c)' = OwedTo(c) /\ replies'[c] = replies[c]
  BY <1>1 DEF OwedTo
<1>6. Head(todo[b]).src = b
  <2>1. todo[b] \in Seq(SentBy(b))
    BY DEF IInv, OwnRequests
  <2>2. Head(todo[b]) \in SentBy(b)
    BY <1>1, <2>1
  <2> QED
    BY <2>2 DEF SentBy
<1>7. Len(todo'[c]) + Len(Of(c, inbox')) <= Len(todo[c]) + Len(Of(c, inbox))
  <2>1. CASE c = b
    <3>1. Len(Of(c, inbox')) = Len(Of(c, inbox)) + 1 /\ Len(Of(c, inbox)) \in Nat
      BY <1>2, <1>3, <1>4, <1>6, <2>1
    <3>2. Len(todo'[c]) = Len(todo[c]) - 1 /\ Len(todo[c]) \in Nat
      BY <1>1, <2>1
    <3>3. \A n, n1, m, m1 \in Nat : n1 = n + 1 /\ m1 = m - 1 => m1 + n1 <= m + n
      OBVIOUS
    <3> QED
      BY <1>1, <3>1, <3>2, <3>3, PendingType, Zenon
  <2>2. CASE c # b
    <3>1. Of(c, inbox') = Of(c, inbox) /\ todo'[c] = todo[c]
      BY <1>1, <1>3, <1>6, <2>2
    <3>2. Len(todo[c]) \in Nat /\ Len(Of(c, inbox)) \in Nat
      BY <1>1, PendingType
    <3> QED
      BY <3>1, <3>2
  <2> QED
    BY <2>1, <2>2
<1>8. Len(OwedTo(c)') + Len(replies'[c]) <= Len(OwedTo(c)) + Len(replies[c])
  <2>1. Len(OwedTo(c)) \in Nat /\ Len(replies[c]) \in Nat
    BY <1>1, PendingType
  <2> QED
    BY <1>5, <2>1
<1> QED
  BY <1>1, <1>7, <1>8, PendingType, SumMoves, Zenon DEF Pending

LEMMA SendReplyBounded ==
  ASSUME IInv, TypeOK', SendReply, NEW c \in Client
  PROVE  Pending(c)' <= Pending(c)
<1> DEFINE b == owed[1].to
<1>1. /\ owed # <<>> /\ owed \in Seq(Reply) /\ Len(owed) <= 1 /\ owed' = <<>>
      /\ replies' = [replies EXCEPT ![b] = Append(replies[b], owed[1])]
      /\ UNCHANGED <<inbox, todo>> /\ replies \in [Client -> Seq(Reply)] /\ TypeOK
  BY DEF SendReply, TypeOK, IInv
<1>2. Len(owed) = 1
  <2>1. Len(owed) \in Nat /\ Len(owed) # 0
    BY <1>1
  <2>2. \A n \in Nat : n <= 1 /\ n # 0 => n = 1
    OBVIOUS
  <2> QED
    BY <1>1, <2>1, <2>2, Zenon
<1>3. owed[1] \in Reply /\ replies[c] \in Seq(Reply)
  BY <1>1, <1>2
<1>4. Len(OwedTo(c)') = 0
  BY <1>1 DEF OwedTo
<1>5. Len(OwedTo(c)') + Len(replies'[c]) <= Len(OwedTo(c)) + Len(replies[c])
  <2>1. CASE b = c
    <3>1. Len(OwedTo(c)) = 1
      BY <1>1, <1>2, <2>1 DEF OwedTo
    <3>2. Len(replies'[c]) = Len(replies[c]) + 1 /\ Len(replies[c]) \in Nat
      BY <1>1, <1>3, <2>1
    <3> QED
      BY <1>4, <3>1, <3>2
  <2>2. CASE b # c
    <3>1. replies'[c] = replies[c]
      BY <1>1, <2>2
    <3>2. Len(OwedTo(c)) \in Nat /\ Len(replies[c]) \in Nat
      BY <1>1, PendingType
    <3> QED
      BY <1>4, <3>1, <3>2
  <2> QED
    BY <2>1, <2>2
<1>6. Len(todo'[c]) + Len(Of(c, inbox')) <= Len(todo[c]) + Len(Of(c, inbox))
  <2>1. Len(todo[c]) \in Nat /\ Len(Of(c, inbox)) \in Nat
    BY <1>1, PendingType
  <2> QED
    BY <1>1, <2>1
<1> HIDE DEF b
<1> QED
  BY <1>1, <1>5, <1>6, PendingType, SumMoves, Zenon DEF Pending

LEMMA CallbackBounded ==
  ASSUME IInv, TypeOK', NEW b \in Client, Callback(b), NEW c \in Client
  PROVE  Pending(c)' <= Pending(c)
<1>1. /\ replies[b] \in Seq(Reply) /\ replies[b] # <<>>
      /\ replies' = [replies EXCEPT ![b] = Tail(replies[b])]
      /\ UNCHANGED <<inbox, owed, todo>> /\ replies \in [Client -> Seq(Reply)] /\ TypeOK
  BY DEF Callback, TakeReply, TypeOK, IInv
<1>2. Len(replies'[c]) <= Len(replies[c])
  BY <1>1
<1>3. /\ Len(todo[c]) \in Nat /\ Len(Of(c, inbox)) \in Nat /\ Len(OwedTo(c)) \in Nat
      /\ Len(replies[c]) \in Nat /\ Len(replies'[c]) \in Nat
  BY <1>1, PendingType
<1>4. OwedTo(c)' = OwedTo(c)
  BY <1>1 DEF OwedTo
<1>5. /\ Len(OwedTo(c)') + Len(replies'[c]) <= Len(OwedTo(c)) + Len(replies[c])
      /\ Len(todo'[c]) + Len(Of(c, inbox')) <= Len(todo[c]) + Len(Of(c, inbox))
  BY <1>1, <1>2, <1>3, <1>4
<1> QED
  BY <1>1, <1>5, PendingType, SumMoves, Zenon DEF Pending

\* A call is not made if it would be too much.
LEMMA CallBounded ==
  ASSUME IInv, TypeOK', Bounded, NEW b \in Client, NEW requests \in Seq(SentBy(b)),
         Call(b, requests), NEW c \in Client
  PROVE  Pending(c)' <= MaxPending[c]
<1>1. /\ todo[b] = <<>> /\ Pending(b) + Len(requests) <= MaxPending[b]
      /\ todo' = [todo EXCEPT ![b] = requests] /\ UNCHANGED <<inbox, replies, owed>>
      /\ todo \in [Client -> Seq(Message)] /\ TypeOK
  BY DEF Call, TypeOK, IInv
<1>2. OwedTo(c)' = OwedTo(c) /\ Pending(c) <= MaxPending[c] /\ MaxPending[c] \in Nat
  BY <1>1, AsyncDbAssumption DEF OwedTo, Bounded
<1>3. CASE c = b
  <2>1. todo'[c] = requests /\ Len(requests) \in Nat /\ Len(todo[c]) = 0
    BY <1>1, <1>3
  <2>2. /\ Len(todo[c]) \in Nat /\ Len(Of(c, inbox)) \in Nat
        /\ Len(OwedTo(c)) \in Nat /\ Len(replies[c]) \in Nat
    BY <1>1, PendingType
  <2>3. Len(todo[c]) + Len(Of(c, inbox)) + Len(OwedTo(c)) + Len(replies[c]) + Len(requests)
          <= MaxPending[c]
    BY <1>1, <1>3 DEF Pending
  <2>4. Len(requests) + Len(Of(c, inbox)) + Len(OwedTo(c)) + Len(replies[c]) <= MaxPending[c]
    <3> DEFINE k == Len(requests)
               n == Len(Of(c, inbox))
               o == Len(OwedTo(c))
               r == Len(replies[c])
               x == Len(todo[c])
               max == MaxPending[c]
    <3>1. k \in Nat /\ n \in Nat /\ o \in Nat /\ r \in Nat /\ max \in Nat /\ x = 0
      BY <1>2, <2>1, <2>2
    <3>2. x + n + o + r + k <= max
      BY <2>3
    <3> HIDE DEF k, n, o, r, x, max
    <3>3. k + n + o + r <= max
      BY <3>1, <3>2
    <3> QED
      BY <3>3 DEF k, n, o, r, max
  <2> QED
    BY <1>1, <1>2, <2>1, <2>4, Zenon DEF Pending
<1>4. CASE c # b
  <2>1. todo'[c] = todo[c]
    BY <1>1, <1>4
  <2>2. Pending(c)' = Pending(c)
    BY <1>1, <1>2, <2>1 DEF Pending
  <2> QED
    BY <1>2, <2>2
<1> QED
  BY <1>3, <1>4

\* When pp_send can block the master and a worker on each other (pipeline.c:99): only a
\* worker that may have two more under way than its socket holds answers ever does it,
\* with any number of workers, and with fewer under way the wait never comes.
THEOREM MutualBlockNeedsMore == Spec => []BlockTakesMore
<1>1. Init => Bounded
  <2> SUFFICES ASSUME Init, NEW c \in Client PROVE Pending(c) <= MaxPending[c]
    BY DEF Bounded
  <2>1. todo[c] = <<>> /\ Of(c, inbox) = <<>> /\ replies[c] = <<>> /\ OwedTo(c) = <<>>
    BY OfEmpty DEF Init, Starts, OwedTo
  <2>2. MaxPending[c] \in Nat
    BY AsyncDbAssumption
  <2> QED
    BY <2>1, <2>2 DEF Pending
<1>2. IInv /\ IInv' /\ Bounded /\ [Next]_vars => Bounded'
  <2> SUFFICES ASSUME IInv, TypeOK', Bounded, [Next]_vars, NEW c \in Client
               PROVE  Pending(c)' <= MaxPending[c]
    BY DEF Bounded, IInv
  <2>1. ASSUME Pending(c)' <= Pending(c) PROVE Pending(c)' <= MaxPending[c]
    <3>1. TypeOK /\ Pending(c) <= MaxPending[c] /\ MaxPending[c] \in Nat
      BY AsyncDbAssumption DEF Bounded, IInv
    <3>2. Pending(c) \in Nat /\ Pending(c)' \in Nat
      BY <3>1, PendingType, SumType, Zenon DEF Pending
    <3> QED
      BY <2>1, <3>1, <3>2
  <2>2. CASE Serve
    BY <2>1, <2>2, ServeBounded
  <2>3. CASE SendReply
    BY <2>1, <2>3, SendReplyBounded
  <2>4. ASSUME NEW b \in Client, Send(b) PROVE Pending(c)' <= MaxPending[c]
    BY <2>1, <2>4, SendBounded
  <2>5. ASSUME NEW b \in Client, Callback(b) PROVE Pending(c)' <= MaxPending[c]
    BY <2>1, <2>5, CallbackBounded
  <2>6. ASSUME NEW b \in Client, Calls(b) PROVE Pending(c)' <= MaxPending[c]
    BY <2>6, CallsCall, CallBounded
  <2>7. CASE UNCHANGED vars
    BY <2>7 DEF vars, Bounded, Pending, OwedTo
  <2> QED
    BY <2>2, <2>3, <2>4, <2>5, <2>6, <2>7 DEF Next, Transport
<1>3. IInv /\ Bounded => BlockTakesMore
  <2> SUFFICES ASSUME IInv, Bounded, MutualBlock PROVE MaxPending[owed[1].to] >= Capacity + 2
    BY DEF BlockTakesMore
  <2> DEFINE c == owed[1].to
  <2>1. /\ owed \in Seq(Reply) /\ owed # <<>> /\ TypeOK /\ todo[c] # <<>>
        /\ Len(replies[c]) = Capacity /\ inbox \in Seq(Message)
        /\ todo \in [Client -> Seq(Message)]
    BY DEF MutualBlock, IInv, TypeOK
  <2>2. owed[1] \in Reply
    BY <2>1
  <2>3. c \in Client
    BY <2>2 DEF Reply
  <2>4. Len(OwedTo(c)) >= 1 /\ Len(OwedTo(c)) \in Nat
    BY <2>1 DEF OwedTo
  <2>5. Len(todo[c]) >= 1 /\ Len(todo[c]) \in Nat
    <3>1. todo[c] \in Seq(Message) /\ todo[c] # <<>>
      BY <2>1, <2>3
    <3> QED
      BY <3>1
  <2>6. Len(Of(c, inbox)) \in Nat
    <3>1. Of(c, inbox) \in Seq(Message)
      BY <2>1, OfType
    <3> QED
      BY <3>1
  <2>7. Len(todo[c]) + Len(Of(c, inbox)) + Len(OwedTo(c)) + Capacity <= MaxPending[c]
    BY <2>1, <2>3 DEF Bounded, Pending
  <2>8. \A t, n, o, k, max \in Nat : t >= 1 /\ o >= 1 /\ t + n + o + k <= max => max >= k + 2
    OBVIOUS
  <2>9. Capacity \in Nat /\ MaxPending[c] \in Nat
    BY <2>3, AsyncDbAssumption
  <2> HIDE DEF c
  <2>10. MaxPending[c] >= Capacity + 2
    BY <2>4, <2>5, <2>6, <2>7, <2>8, <2>9, Zenon
  <2> QED
    BY <2>10 DEF c
<1> QED
  BY <1>1, <1>2, <1>3, Invariance, PTL DEF Spec
-----------------------------------------------------------------------------
\* What a request makes of the content v of its key.
After(m, v) ==
  IF m.op = "unset" \/ (m.op \in {"cas", "sin"} /\ v = m.oldval) THEN m.newval ELSE v

\* A content as a number of users, and the content that a number of users has.
Number(v) == IF v = NoValue THEN 0 ELSE v
Full(n) == IF n = 0 THEN NoValue ELSE n

\* Request m takes the count of key r from content v to content w, by 1 at most.
Step(m, r, v, w) ==
  /\ w = IF m.key = r THEN After(m, v) ELSE v
  /\ m.key = r => Number(w) <= Number(v) + 1 /\ Number(v) <= Number(w) + 1

\* The requests q, executed one after the other, take the content of r from v to w.
Path(d, q, r) ==
  /\ d \in [0..Len(q) -> Content]
  /\ \A n \in 1..Len(q) : Step(q[n], r, d[n - 1], d[n])
Leads(q, r, v, w) == \E d : Path(d, q, r) /\ d[0] = v /\ d[Len(q)] = w
-----------------------------------------------------------------------------
\* No request changes nothing.
LEMMA LeadsEmpty ==
  ASSUME NEW r, NEW v \in Content
  PROVE  Leads(<<>>, r, v, v)
<1> DEFINE d == [n \in 0..0 |-> v]
<1>1. Path(d, <<>>, r) /\ d[0] = v /\ d[Len(<<>>)] = v
  BY DEF Path
<1> QED
  BY <1>1 DEF Leads

\* One request is one step.
LEMMA LeadsStep ==
  ASSUME NEW m \in Message, NEW r, NEW v \in Content, NEW w \in Content, Step(m, r, v, w)
  PROVE  Leads(<<m>>, r, v, w)
<1> DEFINE d == [n \in 0..1 |-> IF n = 0 THEN v ELSE w]
<1>1. d \in [0..1 -> Content] /\ d[0] = v /\ d[1] = w
  OBVIOUS
<1> HIDE DEF d
<1>2. \A n \in 1..1 : Step(<<m>>[n], r, d[n - 1], d[n])
  <2> SUFFICES Step(<<m>>[1], r, d[1 - 1], d[1])
    OBVIOUS
  <2>1. <<m>>[1] = m /\ 1 - 1 = 0
    OBVIOUS
  <2> QED
    BY <1>1, <2>1
<1>3. Len(<<m>>) = 1
  OBVIOUS
<1>4. Path(d, <<m>>, r)
  BY <1>1, <1>2, <1>3 DEF Path
<1> QED
  BY <1>1, <1>3, <1>4 DEF Leads

\* Requests follow each other.
LEMMA LeadsConcat ==
  ASSUME NEW S, NEW p \in Seq(S), NEW q \in Seq(S), NEW r, NEW u, NEW v, NEW w,
         Leads(p, r, u, v), Leads(q, r, v, w)
  PROVE  Leads(p \o q, r, u, w)
<1>1. PICK f : Path(f, p, r) /\ f[0] = u /\ f[Len(p)] = v
  BY DEF Leads
<1>2. PICK g : Path(g, q, r) /\ g[0] = v /\ g[Len(q)] = w
  BY DEF Leads
<1> DEFINE a == Len(p)
           b == Len(q)
           s == p \o q
           d == [n \in 0..(a + b) |-> IF n <= a THEN f[n] ELSE g[n - a]]
<1>3. a \in Nat /\ b \in Nat /\ Len(s) = a + b
      /\ \A i \in 1..(a + b) : s[i] = IF i <= a THEN p[i] ELSE q[i - a]
  BY ConcatProperties
<1>4. f \in [0..a -> Content] /\ g \in [0..b -> Content]
      /\ (\A n \in 1..a : Step(p[n], r, f[n - 1], f[n]))
      /\ (\A n \in 1..b : Step(q[n], r, g[n - 1], g[n]))
  BY <1>1, <1>2 DEF Path
<1>5. f[0] = u /\ f[a] = v /\ g[0] = v /\ g[b] = w
  BY <1>1, <1>2
<1> HIDE DEF a, b, s
<1>6. d \in [0..(a + b) -> Content]
  BY <1>3, <1>4
<1>7. d[0] = u /\ d[a + b] = w
  <2>1. CASE b = 0
    BY <1>3, <1>5, <2>1
  <2>2. CASE b # 0
    <3>1. ~(a + b <= a) /\ (a + b) - a = b
      BY <1>3, <2>2
    <3> QED
      BY <1>3, <1>5, <3>1
  <2> QED
    BY <2>1, <2>2
<1>8. ASSUME NEW n \in 1..(a + b)
      PROVE  Step(s[n], r, d[n - 1], d[n])
  <2>1. CASE n <= a
    <3>1. n \in 1..a /\ d[n] = f[n] /\ d[n - 1] = f[n - 1] /\ s[n] = p[n]
      BY <1>3, <2>1
    <3> QED
      BY <1>4, <3>1
  <2>2. CASE ~(n <= a)
    <3>1. n - a \in 1..b /\ d[n] = g[n - a] /\ s[n] = q[n - a]
      BY <1>3, <2>2
    <3>2. d[n - 1] = g[(n - a) - 1]
      <4>1. CASE n - 1 = a
        <5>1. (n - a) - 1 = 0 /\ d[n - 1] = f[a]
          BY <1>3, <4>1
        <5> QED
          BY <1>5, <5>1
      <4>2. CASE n - 1 # a
        <5>1. n - 1 \in 0..(a + b) /\ ~(n - 1 <= a) /\ (n - 1) - a = (n - a) - 1
          BY <1>3, <2>2, <4>2
        <5> QED
          BY <5>1
      <4> QED
        BY <4>1, <4>2
    <3> QED
      BY <1>4, <3>1, <3>2
  <2> QED
    BY <2>1, <2>2
<1> HIDE DEF d
<1>9. Path(d, s, r)
  BY <1>3, <1>6, <1>8 DEF Path
<1>10. Leads(s, r, u, w)
  BY <1>3, <1>7, <1>9 DEF Leads
<1> QED
  BY <1>10 DEF s

\* The first request is executed before the others.
LEMMA LeadsHead ==
  ASSUME NEW S, NEW q \in Seq(S), q # <<>>, NEW r, NEW v, NEW w, Leads(q, r, v, w)
  PROVE  \E u \in Content : Step(Head(q), r, v, u) /\ Leads(Tail(q), r, u, w)
<1>1. PICK d : Path(d, q, r) /\ d[0] = v /\ d[Len(q)] = w
  BY DEF Leads
<1> DEFINE t == Tail(q)
           e == [n \in 0..Len(t) |-> d[n + 1]]
<1>2. t \in Seq(S) /\ Len(t) \in Nat /\ Len(q) = Len(t) + 1 /\ Head(q) = q[1]
      /\ \A n \in 1..Len(t) : t[n] = q[n + 1]
  OBVIOUS
<1> HIDE DEF t
<1>3. d \in [0..Len(q) -> Content] /\ \A n \in 1..Len(q) : Step(q[n], r, d[n - 1], d[n])
  BY <1>1 DEF Path
<1>4. Step(Head(q), r, v, d[1]) /\ d[1] \in Content
  <2>1. 1 \in 1..Len(q) /\ 1 \in 0..Len(q) /\ 1 - 1 = 0
    BY <1>2
  <2> QED
    BY <1>1, <1>2, <1>3, <2>1
<1>5. Leads(t, r, d[1], w)
  <2>1. e \in [0..Len(t) -> Content] /\ e[0] = d[1] /\ e[Len(t)] = w
    BY <1>1, <1>2, <1>3
  <2>2. ASSUME NEW n \in 1..Len(t) PROVE Step(t[n], r, e[n - 1], e[n])
    <3>1. n + 1 \in 1..Len(q) /\ (n + 1) - 1 = n /\ n - 1 \in 0..Len(t) /\ (n - 1) + 1 = n
          /\ n \in 0..Len(t)
      BY <1>2
    <3>2. e[n] = d[n + 1] /\ e[n - 1] = d[(n + 1) - 1]
      BY <3>1
    <3> HIDE DEF e
    <3> QED
      BY <1>2, <1>3, <3>1, <3>2
  <2> HIDE DEF e
  <2>3. Path(e, t, r)
    BY <2>1, <2>2 DEF Path
  <2> QED
    BY <2>1, <2>3 DEF Leads
<1> QED
  BY <1>4, <1>5 DEF t

\* Requests about other rooms change nothing.
LEMMA LeadsOther ==
  ASSUME NEW S, NEW q \in Seq(S), NEW r, NEW v \in Content, \A n \in 1..Len(q) : q[n].key # r
  PROVE  Leads(q, r, v, v)
<1> DEFINE d == [n \in 0..Len(q) |-> v]
<1>1. Len(q) \in Nat /\ d \in [0..Len(q) -> Content] /\ d[0] = v /\ d[Len(q)] = v
  OBVIOUS
<1>2. ASSUME NEW n \in 1..Len(q) PROVE Step(q[n], r, d[n - 1], d[n])
  <2>1. d[n - 1] = v /\ d[n] = v
    BY <1>1
  <2> HIDE DEF d
  <2> QED
    BY <2>1 DEF Step
<1> HIDE DEF d
<1> QED
  BY <1>1, <1>2 DEF Path, Leads

\* Without a request about the room its content is what it should be.
LEMMA LeadsNowhere ==
  ASSUME NEW S, NEW q \in Seq(S), NEW r, NEW v, NEW w, Leads(q, r, v, w),
         \A n \in 1..Len(q) : q[n].key # r
  PROVE  v = w
<1>1. PICK d : Path(d, q, r) /\ d[0] = v /\ d[Len(q)] = w
  BY DEF Leads
<1> DEFINE Bad == {k \in 0..Len(q) : d[k] # v}
<1>2. Len(q) \in Nat /\ Bad \in SUBSET Nat
  OBVIOUS
<1>3. SUFFICES ASSUME Bad # {} PROVE FALSE
  BY <1>1, <1>2
<1>4. PICK k \in Bad : \A h \in Bad : k <= h
  BY <1>2, <1>3, LeastNatural
<1>5. k \in 1..Len(q) /\ k - 1 \in 0..Len(q) /\ ~(k <= k - 1)
  BY <1>1, <1>2, <1>4
<1>6. d[k - 1] = v
  BY <1>4, <1>5
<1>7. d[k] = d[k - 1]
  BY <1>1, <1>5 DEF Path, Step
<1> QED
  BY <1>4, <1>6, <1>7

\* A count is as far from what it will be as there are requests about the room at most.
LEMMA LeadsNear ==
  ASSUME NEW S, NEW q \in Seq(S), NEW r, NEW v, NEW w, Leads(q, r, v, w)
  PROVE  /\ Cardinality({n \in DOMAIN q : q[n].key = r}) \in Nat
         /\ Number(v) \in Int /\ Number(w) \in Int
         /\ Number(v) <= Number(w) + Cardinality({n \in DOMAIN q : q[n].key = r})
         /\ Number(w) <= Number(v) + Cardinality({n \in DOMAIN q : q[n].key = r})
<1>1. PICK d : Path(d, q, r) /\ d[0] = v /\ d[Len(q)] = w
  BY DEF Leads
<1>2. Len(q) \in Nat /\ DOMAIN q = 1..Len(q) /\ d \in [0..Len(q) -> Content]
  BY <1>1 DEF Path
<1>3. \A c \in Content : Number(c) \in Int
  BY AsyncDbAssumption DEF Content, Number
<1> DEFINE until(k) == {n \in 1..k : q[n].key = r}
           Close(k) == /\ Number(v) <= Number(d[k]) + Cardinality(until(k))
                       /\ Number(d[k]) <= Number(v) + Cardinality(until(k))
           Bad == {k \in 0..Len(q) : ~Close(k)}
<1>4. ASSUME NEW k \in 0..Len(q)
      PROVE  IsFiniteSet(until(k)) /\ Cardinality(until(k)) \in Nat
  <2>1. IsFiniteSet(1..k)
    BY <1>2, FS_Interval
  <2>2. IsFiniteSet(until(k))
    BY <2>1, FS_Subset
  <2> QED
    BY <2>2, FS_CardinalityType
<1>5. Bad = {}
  <2>1. SUFFICES ASSUME Bad # {} PROVE FALSE
    OBVIOUS
  <2>2. Bad \in SUBSET Nat
    BY <1>2
  <2> HIDE DEF Close
  <2>3. PICK k \in Bad : \A h \in Bad : k <= h
    BY <2>1, <2>2, LeastNatural
  <2>4. k \in 0..Len(q) /\ ~Close(k)
    BY <2>3
  <2>5. d[k] \in Content /\ Number(d[k]) \in Int /\ v \in Content /\ Number(v) \in Int
    BY <1>1, <1>2, <1>3, <2>4
  <2>6. k # 0
    <3>1. SUFFICES ASSUME k = 0 PROVE Close(k)
      BY <2>4
    <3>2. d[k] = v
      BY <1>1, <3>1
    <3>3. Cardinality(until(k)) \in Nat
      BY <1>4, <2>4
    <3> HIDE DEF until
    <3> QED
      BY <2>5, <3>2, <3>3 DEF Close
  <2>7. k - 1 \in 0..Len(q) /\ k \in 1..Len(q) /\ ~(k <= k - 1)
    BY <1>2, <2>4, <2>6
  <2>8. Close(k - 1)
    BY <2>3, <2>7
  <2>9. Step(q[k], r, d[k - 1], d[k])
    BY <1>1, <2>7 DEF Path
  <2>10. IsFiniteSet(until(k - 1)) /\ Cardinality(until(k - 1)) \in Nat
    BY <1>4, <2>7
  <2>11. d[k - 1] \in Content /\ Number(d[k - 1]) \in Int
    BY <1>2, <1>3, <2>7
  <2>12. CASE q[k].key = r
    <3>1. until(k) = until(k - 1) \cup {k} /\ k \notin until(k - 1)
      BY <2>7, <2>12
    <3>2. Cardinality(until(k)) = Cardinality(until(k - 1)) + 1
      BY <2>10, <3>1, FS_AddElement
    <3>3. Number(d[k]) <= Number(d[k - 1]) + 1 /\ Number(d[k - 1]) <= Number(d[k]) + 1
      BY <2>9, <2>12 DEF Step
    <3> DEFINE x == Number(d[k])
               y == Number(d[k - 1])
               z == Number(v)
               i == Cardinality(until(k))
               j == Cardinality(until(k - 1))
    <3>4. z <= y + j /\ y <= z + j
      BY <2>8 DEF Close
    <3>5. x \in Int /\ y \in Int /\ z \in Int /\ j \in Nat /\ i = j + 1 /\ x <= y + 1 /\ y <= x + 1
      BY <2>5, <2>10, <2>11, <3>2, <3>3
    <3> HIDE DEF x, y, z, i, j
    <3>6. z <= x + i /\ x <= z + i
      BY <3>4, <3>5
    <3>7. Close(k)
      BY <3>6 DEF Close, x, z, i
    <3> QED
      BY <2>4, <3>7
  <2>13. CASE q[k].key # r
    <3>1. until(k) = until(k - 1)
      BY <2>7, <2>13
    <3>2. d[k] = d[k - 1]
      BY <2>9, <2>13 DEF Step
    <3> QED
      BY <2>4, <2>8, <3>1, <3>2 DEF Close
  <2> QED
    BY <2>12, <2>13
<1>6. Close(Len(q))
  BY <1>2, <1>5
<1>7. Number(v) \in Int /\ Number(w) \in Int
  BY <1>1, <1>2, <1>3
<1>8. until(Len(q)) = {n \in DOMAIN q : q[n].key = r} /\ Cardinality(until(Len(q))) \in Nat
  BY <1>2, <1>4
<1> QED
  BY <1>1, <1>6, <1>7, <1>8
-----------------------------------------------------------------------------
\* What a request of async_db_compare_and_swap makes of a content: with neither a new
\* nor an expected value it unsets the key, else it needs to find what it expects.
LEMMA AfterMessage ==
  ASSUME NEW c, NEW k, NEW x, NEW y, NEW v
  PROVE  After(Message_of(c, NoHook, k, x, y), v)
           = IF x = NoValue /\ y = NoValue THEN NoValue ELSE IF v = y THEN x ELSE v
BY DEF After, Message_of

\* A request that takes a count to another, or leaves it.
LEMMA MessageLeads ==
  ASSUME NEW c \in Client, NEW k \in Key, NEW x \in Content, NEW y \in Content,
         NEW v \in Content, NEW w \in Content,
         After(Message_of(c, NoHook, k, x, y), v) = w,
         Number(w) <= Number(v) + 1, Number(v) <= Number(w) + 1
  PROVE  Leads(Compare_and_swap(c, NoHook, k, x, y), k, v, w)
<1> DEFINE m == Message_of(c, NoHook, k, x, y)
<1>1. m \in Message /\ m.key = k
  <2>1. NoHook \in Hook \cup {NoHook}
    OBVIOUS
  <2>2. m \in About(c, k)
    BY <2>1, RequestType
  <2> HIDE DEF m
  <2> QED
    BY <2>2 DEF About
<1>2. Compare_and_swap(c, NoHook, k, x, y) = <<m>>
  BY DEF Compare_and_swap
<1>3. w = After(m, v)
  OBVIOUS
<1> HIDE DEF m
<1>4. Step(m, k, v, w)
  BY <1>1, <1>3 DEF Step
<1> QED
  BY <1>1, <1>2, <1>4, LeadsStep

\* The contents of a number of users.
LEMMA FullContent ==
  ASSUME NEW most \in Nat, 0..most \subseteq Value, NEW n \in 0..most
  PROVE  /\ Full(n) \in Content /\ Number(Full(n)) = n /\ n # NoValue /\ n \in Content
         /\ n \in Value
BY AsyncDbAssumption DEF Full, Number, Content

\* async_db_increment from the count that is there leads to the next: what
\* broadcast_room_join and broadcast_room_leave ask for.
LEMMA IncrementLeads ==
  ASSUME NEW most \in Nat, 0..most \subseteq Value,
         NEW c \in Client, NEW k \in Key, NEW n \in 0..most, NEW d \in {1, -1},
         n + d \in 0..most
  PROVE  Leads(Increment(c, NoHook, k, n, d), k, Full(n), Full(n + d))
<1>1. n + d # NoValue /\ n # NoValue /\ NoValue \in Content
  BY FullContent DEF Content
<1>2. /\ n \in Content /\ n + d \in Content /\ Full(n) \in Content /\ Full(n + d) \in Content
      /\ Number(Full(n)) = n /\ Number(Full(n + d)) = n + d
  BY FullContent
<1>3. Number(Full(n + d)) <= Number(Full(n)) + 1 /\ Number(Full(n)) <= Number(Full(n + d)) + 1
  BY <1>2
<1>4. CASE n + d = 0
  <2>1. Increment(c, NoHook, k, n, d) = Compare_and_swap(c, NoHook, k, NoValue, NoValue)
    BY <1>4 DEF Increment, DbUnset
  <2>2. After(Message_of(c, NoHook, k, NoValue, NoValue), Full(n)) = Full(n + d)
    BY <1>4, AfterMessage DEF Full
  <2> QED
    BY <1>1, <1>2, <1>3, <2>1, <2>2, MessageLeads
<1>5. CASE n + d # 0 /\ n # 0
  <2> DEFINE swap == Compare_and_swap(c, NoHook, k, n + d, n)
  <2>1. Increment(c, NoHook, k, n, d) = <<>> \o swap
    BY <1>5 DEF Increment
  <2>2. After(Message_of(c, NoHook, k, n + d, n), Full(n)) = Full(n + d)
    BY <1>1, <1>5, AfterMessage DEF Full
  <2>3. Leads(swap, k, Full(n), Full(n + d))
    BY <1>2, <1>3, <2>2, MessageLeads
  <2>4. swap \in Seq(About(c, k))
    BY <1>2, RequestType
  <2> HIDE DEF swap
  <2>5. <<>> \o swap = swap
    BY <2>4
  <2> QED
    BY <2>1, <2>3, <2>5
<1>6. CASE n = 0
  <2>1. d = 1 /\ n + d = 1 /\ 1 # NoValue /\ 1 \in Content /\ 0 \in Content /\ 0 # NoValue
        /\ 1 \in 0..most
    BY <1>1, <1>2, <1>6
  <2> DEFINE create == Compare_and_swap(c, NoHook, k, 1, NoValue)
             swap == Compare_and_swap(c, NoHook, k, 1, 0)
  <2>2. Increment(c, NoHook, k, n, d) = create \o swap
    BY <1>6, <2>1 DEF Increment, Set_if_null
  <2>3. Full(n) = NoValue /\ Full(n + d) = 1 /\ Number(1) = 1 /\ Number(NoValue) = 0
    BY <1>6, <2>1 DEF Full, Number
  <2>4. Leads(create, k, NoValue, 1)
    <3>1. After(Message_of(c, NoHook, k, 1, NoValue), NoValue) = 1
      BY <2>1, AfterMessage
    <3> QED
      BY <1>1, <2>1, <2>3, <3>1, MessageLeads
  <2>5. Leads(swap, k, 1, 1)
    <3>1. After(Message_of(c, NoHook, k, 1, 0), 1) = 1
      BY <2>1, AfterMessage
    <3> QED
      BY <2>1, <2>3, <3>1, MessageLeads
  <2>6. create \in Seq(About(c, k)) /\ swap \in Seq(About(c, k))
    BY <1>1, <2>1, RequestType
  <2> HIDE DEF create, swap
  <2> QED
    BY <2>2, <2>3, <2>4, <2>5, <2>6, LeadsConcat
<1> QED
  BY <1>4, <1>5, <1>6

\* An increment from a count that is one too low changes nothing: what someone who
\* joins the room again asks for.
LEMMA IncrementAgain ==
  ASSUME NEW most \in Nat, 0..most \subseteq Value,
         NEW c \in Client, NEW k \in Key, NEW n \in 1..most
  PROVE  Leads(Increment(c, NoHook, k, n - 1, 1), k, Full(n), Full(n))
<1>1. n \in 0..most /\ n - 1 \in 0..most /\ (n - 1) + 1 = n /\ n # 0 /\ Full(n) = n
      /\ n # n - 1
  BY DEF Full
<1>2. n # NoValue /\ n - 1 # NoValue /\ n \in Content /\ n - 1 \in Content /\ Number(n) = n
      /\ NoValue \in Content
  BY <1>1, FullContent DEF Content
<1> DEFINE swap == Compare_and_swap(c, NoHook, k, n, n - 1)
           create == Compare_and_swap(c, NoHook, k, 1, NoValue)
<1>3. Leads(swap, k, n, n)
  <2>1. After(Message_of(c, NoHook, k, n, n - 1), n) = n
    BY <1>1, <1>2, AfterMessage
  <2> QED
    BY <1>1, <1>2, <2>1, MessageLeads
<1>4. swap \in Seq(About(c, k))
  BY <1>2, RequestType
<1>5. CASE n - 1 = 0
  <2>1. n = 1
    BY <1>5
  <2>2. Increment(c, NoHook, k, n - 1, 1) = create \o swap
    BY <1>1, <1>5 DEF Increment, Set_if_null
  <2>3. Leads(create, k, n, n)
    <3>1. After(Message_of(c, NoHook, k, 1, NoValue), n) = n
      BY <1>2, <2>1, AfterMessage
    <3> QED
      BY <1>1, <1>2, <2>1, <3>1, MessageLeads
  <2>4. create \in Seq(About(c, k))
    BY <1>2, <2>1, RequestType
  <2> HIDE DEF create, swap
  <2> QED
    BY <1>1, <1>3, <1>4, <2>2, <2>3, <2>4, LeadsConcat
<1>6. CASE n - 1 # 0
  <2>1. Increment(c, NoHook, k, n - 1, 1) = <<>> \o swap
    BY <1>1, <1>6 DEF Increment
  <2> HIDE DEF swap
  <2>2. <<>> \o swap = swap
    BY <1>4
  <2> QED
    BY <1>1, <1>3, <2>1, <2>2
<1> QED
  BY <1>5, <1>6
-----------------------------------------------------------------------------
\* A path goes from a content to a content.
LEMMA LeadsContent ==
  ASSUME NEW S, NEW q \in Seq(S), NEW r, NEW v, NEW w, Leads(q, r, v, w)
  PROVE  v \in Content /\ w \in Content
<1>1. Len(q) \in Nat
  OBVIOUS
<1> QED
  BY <1>1 DEF Leads, Path

\* With what is under way, sent and not yet sent by worker c, key k comes to content w.
Way(k, c, w) == \E v : Leads(inbox, k, db[k], v) /\ Leads(todo[c], k, v, w)

\* The master executes the first of the requests under way.
LEMMA ServeWay ==
  ASSUME IInv, Serve, NEW k \in Key, NEW c, NEW w, Way(k, c, w)
  PROVE  Way(k, c, w)'
<1>1. /\ inbox \in Seq(Message) /\ inbox # <<>> /\ inbox' = Tail(inbox)
      /\ todo' = todo /\ db \in [Key -> Content]
      /\ db' = IF Stored(Head(inbox)) THEN [db EXCEPT ![Head(inbox).key] = Head(inbox).newval] ELSE db
  BY DEF Serve, IInv, TypeOK
<1>2. PICK v : Leads(inbox, k, db[k], v) /\ Leads(todo[c], k, v, w)
  BY DEF Way
<1>3. PICK u \in Content : Step(Head(inbox), k, db[k], u) /\ Leads(Tail(inbox), k, u, v)
  BY <1>1, <1>2, LeadsHead
<1>4. db'[k] = u
  <2> DEFINE m == Head(inbox)
  <2>1. m \in Message /\ db' = IF Stored(m) THEN [db EXCEPT ![m.key] = m.newval] ELSE db
    BY <1>1
  <2>2. u = IF m.key = k THEN After(m, db[k]) ELSE db[k]
    BY <1>3 DEF Step
  <2> HIDE DEF m
  <2>3. Stored(m) <=> (m.op = "unset" \/ (m.op \in {"cas", "sin"} /\ db[m.key] = m.oldval))
    BY DEF Stored, Matches
  <2> QED
    BY <1>1, <2>1, <2>2, <2>3 DEF After
<1> QED
  BY <1>1, <1>2, <1>3, <1>4 DEF Way

\* A request that is sent is the next of those the master has; the other workers' are
\* about other keys.
LEMMA SendWay ==
  ASSUME IInv, NEW d \in Client, Send(d), NEW k \in Key, NEW c \in Client, NEW w,
         Way(k, c, w), d # c => Head(todo[d]).key # k
  PROVE  Way(k, c, w)'
<1> DEFINE m == Head(todo[d])
<1>1. /\ inbox \in Seq(Message) /\ todo \in [Client -> Seq(Message)] /\ todo[d] # <<>>
      /\ inbox' = Append(inbox, m) /\ todo' = [todo EXCEPT ![d] = Tail(todo[d])] /\ db' = db
  BY DEF Send, IInv, TypeOK
<1>2. m \in Message
  BY <1>1
<1>3. inbox' = inbox \o <<m>>
  BY <1>1, <1>2
<1>4. PICK v : Leads(inbox, k, db[k], v) /\ Leads(todo[c], k, v, w)
  BY DEF Way
<1>5. v \in Content
  BY <1>1, <1>4, LeadsContent
<1> HIDE DEF m
<1>6. <<m>> \in Seq(Message)
  BY <1>2
<1>7. CASE d = c
  <2>1. PICK u \in Content : Step(m, k, v, u) /\ Leads(Tail(todo[c]), k, u, w)
    BY <1>1, <1>4, <1>7, LeadsHead DEF m
  <2>2. Leads(<<m>>, k, v, u)
    BY <1>2, <1>5, <2>1, LeadsStep
  <2>3. Leads(inbox', k, db[k], u)
    BY <1>1, <1>3, <1>4, <1>6, <2>2, LeadsConcat
  <2>4. todo'[c] = Tail(todo[c])
    BY <1>1, <1>7
  <2> QED
    BY <1>1, <2>1, <2>3, <2>4 DEF Way
<1>8. CASE d # c
  <2>1. Leads(<<m>>, k, v, v)
    <3>1. \A n \in 1..Len(<<m>>) : <<m>>[n].key # k
      BY <1>8 DEF m
    <3> QED
      BY <1>5, <1>6, <3>1, LeadsOther
  <2>2. Leads(inbox', k, db[k], v)
    BY <1>1, <1>3, <1>4, <1>6, <2>1, LeadsConcat
  <2>3. todo'[c] = todo[c]
    BY <1>1, <1>8
  <2> QED
    BY <1>1, <1>4, <2>2, <2>3 DEF Way
<1> QED
  BY <1>7, <1>8

\* A worker that has sent all it had to asks for more.
LEMMA AskWay ==
  ASSUME IInv, NEW d \in Client, NEW q \in Seq(Message),
         todo[d] = <<>>, todo' = [todo EXCEPT ![d] = q], UNCHANGED <<db, inbox>>,
         NEW k \in Key, NEW c \in Client, NEW w, NEW x, Way(k, c, w),
         IF d = c THEN Leads(q, k, w, x) ELSE x = w
  PROVE  Way(k, c, x)'
<1>1. todo \in [Client -> Seq(Message)]
  BY DEF IInv, TypeOK
<1>2. PICK v : Leads(inbox, k, db[k], v) /\ Leads(todo[c], k, v, w)
  BY DEF Way
<1>3. CASE d = c
  <2>1. v = w
    <3> DEFINE none == <<>>
    <3>1. none \in Seq(Message) /\ \A n \in 1..Len(none) : none[n].key # k
      OBVIOUS
    <3>2. Leads(none, k, v, w)
      BY <1>2, <1>3
    <3> HIDE DEF none
    <3> QED
      BY <3>1, <3>2, LeadsNowhere
  <2>2. todo'[c] = q
    BY <1>1, <1>3
  <2> QED
    BY <1>2, <1>3, <2>1, <2>2 DEF Way
<1>4. CASE d # c
  <2>1. todo'[c] = todo[c]
    BY <1>1, <1>4
  <2> QED
    BY <1>2, <1>4, <2>1 DEF Way
<1> QED
  BY <1>3, <1>4
=============================================================================
