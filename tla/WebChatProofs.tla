--------------------------- MODULE WebChatProofs ---------------------------
(* The invariants of WebChat, for any number of connections, sessions, requests
   and descriptors.

   The handlers of WebChat are functions of worlds, so are these proofs.  Good is
   what holds of every world a handler passes through, also while a request is
   chained; each function is shown to keep it, from the descriptors up to the
   chats, along with what it may change (Kept) and how often it may answer a
   connection (MayAnswer).  Step is what a whole action may do between two
   requests, Inv what is left between them, and WebInv the inductive invariant. *)
EXTENDS WebChat, FiniteSetTheorems, NaturalsInduction, TLAPS

\* A set of naturals has a least element: for induction without an operator.
LEMMA LeastOfNaturals ==
  ASSUME NEW S \in SUBSET Nat, S # {}
  PROVE  \E m \in S : \A k \in S : m <= k
<1> DEFINE R == OpToRel(<, Nat)
<1>1. IsWellFoundedOn(R, Nat)
  BY NatLessThanWellFounded
<1>2. \A x, y \in Nat : <<y, x>> \in R <=> y < x
  BY DEF OpToRel
<1> HIDE DEF R
<1>3. PICK m \in S : \A k \in S : <<k, m>> \notin R
  BY <1>1, WFMin
<1>4. \A k \in S : ~(k < m)
  BY <1>2, <1>3
<1>5. m \in Nat /\ \A k \in S : k \in Nat
  OBVIOUS
<1> QED
  BY <1>4, <1>5

-----------------------------------------------------------------------------
\* How many messages of q are of chat k.
Count(q, k) == Cardinality({i \in DOMAIN q : q[i] = k})

LEMMA CountEmpty == ASSUME NEW k PROVE Count(<<>>, k) = 0
<1>1. {i \in DOMAIN <<>> : <<>>[i] = k} = {}
  OBVIOUS
<1> QED
  BY <1>1, FS_EmptySet DEF Count

LEMMA CountNat ==
  ASSUME NEW q \in Seq(Chat), NEW k
  PROVE  IsFiniteSet({i \in DOMAIN q : q[i] = k}) /\ Count(q, k) \in Nat
<1>1. DOMAIN q = 1 .. Len(q) /\ Len(q) \in Nat
  OBVIOUS
<1>2. IsFiniteSet(DOMAIN q)
  BY <1>1, FS_Interval
<1>3. IsFiniteSet({i \in DOMAIN q : q[i] = k})
  BY <1>2, FS_Subset
<1> QED
  BY <1>3, FS_CardinalityType DEF Count

\* Appending a message of chat j counts for j only.
LEMMA CountAppend ==
  ASSUME NEW q \in Seq(Chat), NEW j \in Chat, NEW k
  PROVE  Count(Append(q, j), k) = IF j = k THEN Count(q, k) + 1 ELSE Count(q, k)
<1> DEFINE r == Append(q, j)
           n == Len(q) + 1
           Old == {i \in DOMAIN q : q[i] = k}
<1>1. DOMAIN q = 1 .. Len(q) /\ Len(q) \in Nat /\ r \in Seq(Chat) /\ DOMAIN r = 1 .. n
      /\ r[n] = j /\ \A i \in DOMAIN q : r[i] = q[i]
  OBVIOUS
<1>2. \A i \in DOMAIN r : i = n \/ i \in DOMAIN q
  BY <1>1
<1>3. n \in DOMAIN r /\ n \notin DOMAIN q /\ DOMAIN q \subseteq DOMAIN r
  BY <1>1
<1>4. {i \in DOMAIN r : r[i] = k} = IF j = k THEN Old \cup {n} ELSE Old
  BY <1>1, <1>2, <1>3
<1>5. IsFiniteSet(Old) /\ n \notin Old
  BY <1>3, CountNat
<1> HIDE DEF r, n
<1>6. Cardinality(Old \cup {n}) = Cardinality(Old) + 1
  BY <1>5, FS_AddElement
<1> QED
  BY <1>4, <1>6 DEF Count, r

-----------------------------------------------------------------------------
\* The connection has its number open.
Open(w, c) == w.http[c].fd # NoFd /\ w.desc[w.http[c].fd] = c

\* OwnRegistration, Mailbox and what a session and its chat know of each other, of a world.
Owned(w) ==
  \A n \in Number : w.reg[n] # None =>
    w.http[w.reg[n]].st = "live" /\ w.http[w.reg[n]].fd = n /\ w.desc[n] = w.reg[n]
Linked(w) ==
  /\ \A s \in Slot : w.ses[s].st = "live" => w.ses[s].chat \in 1 .. w.created /\ w.chat[w.ses[s].chat].up = s
  /\ \A k \in Chat : w.chat[k].st = "live" <=> k <= w.created
  /\ \A k \in Chat : w.chat[k].st = "live" => w.chat[k].up \in Slot
  /\ \A k \in Chat : w.chat[k].st # "live" => w.chat[k].cb = "none" /\ w.chat[k].asks = "none"
Waits(w) ==
  \A s \in Slot : w.ses[s].st = "live" /\ ~w.chat[w.ses[s].chat].quit /\ ~w.chat[w.ses[s].chat].full =>
    w.chat[w.ses[s].chat].due = Count(w.ses[s].msg, w.ses[s].chat)

\* A session that is chained is there, and if its chat may talk the connection is open.
Chained(w) ==
  \A s \in Slot : w.ses[s].up # None =>
    w.ses[s].st = "live" /\ (Open(w, w.ses[s].up) \/ w.chat[w.ses[s].chat].quit)

Good(w) == w \in Worlds /\ Owned(w) /\ Linked(w) /\ Waits(w) /\ Chained(w)

\* What no step of a chat or a session changes, and what it may only take away.
Kept(w, v) ==
  /\ v.created = w.created
  /\ \A n \in Number : v.reg[n] \in {w.reg[n], None}
  /\ \A c \in Conn : v.http[c].st = w.http[c].st /\ v.http[c].down = w.http[c].down
                     /\ v.http[c].fd \in {w.http[c].fd, NoFd}
  /\ \A s \in Slot : v.ses[s].st = w.ses[s].st /\ v.ses[s].chat = w.ses[s].chat
                     /\ v.ses[s].up = w.ses[s].up /\ v.ses[s].refs = w.ses[s].refs
  /\ \A k \in Chat : v.chat[k].st = w.chat[k].st /\ v.chat[k].up = w.chat[k].up
                     /\ v.chat[k].fd = w.chat[k].fd /\ (w.chat[k].quit => v.chat[k].quit)
  \* A connection no session is chained to is left alone.
  /\ \A c \in Conn : (\A s \in Slot : w.ses[s].up # c) => v.http[c] = w.http[c]

LEMMA KeptSelf == ASSUME NEW w PROVE Kept(w, w)
BY DEF Kept

LEMMA KeptTwice ==
  ASSUME NEW u, NEW v, NEW w, Kept(u, v), Kept(v, w)
  PROVE  Kept(u, w)
<1>1. w.created = u.created /\ \A n \in Number : w.reg[n] \in {u.reg[n], None}
  BY DEF Kept
<1>2. \A c \in Conn : w.http[c].st = u.http[c].st /\ w.http[c].down = u.http[c].down
                      /\ w.http[c].fd \in {u.http[c].fd, NoFd}
  BY DEF Kept
<1>3. \A s \in Slot : w.ses[s].st = u.ses[s].st /\ w.ses[s].chat = u.ses[s].chat
                      /\ w.ses[s].up = u.ses[s].up /\ w.ses[s].refs = u.ses[s].refs
  BY DEF Kept
<1>4. \A k \in Chat : w.chat[k].st = u.chat[k].st /\ w.chat[k].up = u.chat[k].up
                      /\ w.chat[k].fd = u.chat[k].fd /\ (u.chat[k].quit => w.chat[k].quit)
  BY DEF Kept
<1>5. \A c \in Conn : (\A s \in Slot : u.ses[s].up # c) => w.http[c] = u.http[c]
  BY DEF Kept
<1> QED
  BY <1>1, <1>2, <1>3, <1>4, <1>5 DEF Kept

-----------------------------------------------------------------------------
\* What each function of the descriptors and of the sessions makes of a world.
Closed(f, N) == [n \in Number |-> IF n \in N THEN None ELSE f[n]]

LEMMA CloseNumbersIs ==
  ASSUME NEW w \in Worlds, NEW N
  PROVE  /\ CloseNumbers(w, N) \in Worlds
         /\ CloseNumbers(w, N) = [w EXCEPT !.desc = Closed(w.desc, N), !.reg = Closed(w.reg, N)]
<1>1. Closed(w.desc, N) \in [Number -> Conn \cup {None}] /\ Closed(w.reg, N) \in [Number -> Conn \cup {None}]
  BY DEF Worlds, Closed
<1> QED
  BY <1>1 DEF CloseNumbers, Worlds, Closed

\* The numbers of connections, the sessions that are not chained, what is above
\* the others, the numbers of those; connections and sessions that were closed.
HttpFds(w, C) == {w.http[c].fd : c \in C}
Alone(w, S) == {s \in S : w.ses[s].up = None}
Above(w, S) == {w.ses[s].up : s \in S \ Alone(w, S)}
AloneFds(w, S) == {w.ses[s].fd : s \in Alone(w, S)}
HttpClosed(w, C) == [c \in Conn |-> IF c \in C THEN [w.http[c] EXCEPT !.fd = NoFd] ELSE w.http[c]]
SesClosed(w, S) ==
  [s \in Slot |-> IF s \in Alone(w, S) THEN [w.ses[s] EXCEPT !.idle = TRUE, !.fd = NoFd]
                  ELSE IF s \in S THEN [w.ses[s] EXCEPT !.idle = TRUE] ELSE w.ses[s]]

LEMMA HttpCloseIs ==
  ASSUME NEW w \in Worlds, NEW C \in SUBSET Conn
  PROVE  /\ HttpClose(w, C) \in Worlds
         /\ HttpClose(w, C) = [desc |-> Closed(w.desc, HttpFds(w, C)), reg |-> Closed(w.reg, HttpFds(w, C)),
                               http |-> HttpClosed(w, C), ses |-> w.ses, chat |-> w.chat, created |-> w.created]
<1> DEFINE u == CloseNumbers(w, HttpFds(w, C))
<1>1. u \in Worlds /\ u = [w EXCEPT !.desc = Closed(w.desc, HttpFds(w, C)), !.reg = Closed(w.reg, HttpFds(w, C))]
  BY CloseNumbersIs
<1>2. HttpClosed(w, C) \in [Conn -> Http]
  BY DEF Worlds, Http, HttpClosed
<1>3. HttpClose(w, C) = [u EXCEPT !.http = HttpClosed(w, C)]
  BY DEF HttpClose, HttpClosed, HttpFds
<1> HIDE DEF u
<1> QED
  BY <1>1, <1>2, <1>3 DEF Worlds

LEMMA SessionCloseIs ==
  ASSUME NEW w \in Worlds, NEW S \in SUBSET Slot
  PROVE  LET N == HttpFds(w, Above(w, S)) \cup AloneFds(w, S)
         IN  /\ SessionClose(w, S) \in Worlds
             /\ Above(w, S) \in SUBSET Conn
             /\ SessionClose(w, S) = [desc |-> Closed(w.desc, N), reg |-> Closed(w.reg, N),
                                      http |-> HttpClosed(w, Above(w, S)), ses |-> SesClosed(w, S),
                                      chat |-> w.chat, created |-> w.created]
<1> DEFINE C == Above(w, S)
           M == HttpFds(w, C)
           N == AloneFds(w, S)
           x == HttpClose(w, C)
           u == CloseNumbers(x, N)
<1>1. Above(w, S) \in SUBSET Conn
  BY DEF Worlds, Session, Above, Alone
<1>2. /\ x \in Worlds
      /\ x = [desc |-> Closed(w.desc, M), reg |-> Closed(w.reg, M),
              http |-> HttpClosed(w, C), ses |-> w.ses, chat |-> w.chat, created |-> w.created]
  BY <1>1, HttpCloseIs
<1>3. SesClosed(w, S) \in [Slot -> Session]
  <2>1. ASSUME NEW e \in Session
        PROVE  [e EXCEPT !.idle = TRUE, !.fd = NoFd] \in Session /\ [e EXCEPT !.idle = TRUE] \in Session
    BY DEF Session
  <2>2. \A s \in Slot : w.ses[s] \in Session
    BY DEF Worlds
  <2> QED
    BY <2>1, <2>2 DEF SesClosed
<1>4. SessionClose(w, S) = [u EXCEPT !.ses = SesClosed(w, S)]
  BY DEF SessionClose, SesClosed, AloneFds, Above, Alone
<1> HIDE DEF C, M, N, x
<1>5. u \in Worlds /\ u = [x EXCEPT !.desc = Closed(x.desc, N), !.reg = Closed(x.reg, N)]
  BY <1>2, CloseNumbersIs
<1>6. Closed(Closed(w.desc, M), N) = Closed(w.desc, M \cup N)
      /\ Closed(Closed(w.reg, M), N) = Closed(w.reg, M \cup N)
  BY DEF Closed
<1> HIDE DEF u
<1>7. SessionClose(w, S) \in Worlds
      /\ SessionClose(w, S) = [desc |-> Closed(w.desc, M \cup N), reg |-> Closed(w.reg, M \cup N),
                               http |-> HttpClosed(w, C), ses |-> SesClosed(w, S),
                               chat |-> w.chat, created |-> w.created]
  BY <1>2, <1>3, <1>4, <1>5, <1>6 DEF Worlds
<1> QED
  BY <1>1, <1>7 DEF C, M, N

-----------------------------------------------------------------------------
\* Whoever is chained is the session of a chat that has quit: it may lose its connection.
AllQuit(w) == \A s \in Slot : w.ses[s].up # None => w.chat[w.ses[s].chat].quit

\* A number that is closed is registered for nobody; its owner had no other.
LEMMA ClosedOwned ==
  ASSUME NEW w \in Worlds, NEW v \in Worlds, NEW C \in SUBSET Conn, NEW N, Owned(w), HttpFds(w, C) \subseteq N,
         v.desc = Closed(w.desc, N), v.reg = Closed(w.reg, N), v.http = HttpClosed(w, C)
  PROVE  Owned(v) /\ \A n \in Number : v.reg[n] \in {w.reg[n], None}
<1>1. \A n \in Number : v.reg[n] = (IF n \in N THEN None ELSE w.reg[n]) /\ v.desc[n] = (IF n \in N THEN None ELSE w.desc[n])
  BY DEF Closed
<1>2. SUFFICES ASSUME NEW n \in Number, v.reg[n] # None
               PROVE  v.http[v.reg[n]].st = "live" /\ v.http[v.reg[n]].fd = n /\ v.desc[n] = v.reg[n]
  BY <1>1 DEF Owned
<1>3. n \notin N /\ v.reg[n] = w.reg[n] /\ v.desc[n] = w.desc[n]
  BY <1>1, <1>2
<1>4. w.reg[n] \in Conn /\ w.http[w.reg[n]].st = "live" /\ w.http[w.reg[n]].fd = n /\ w.desc[n] = w.reg[n]
  BY <1>2, <1>3 DEF Owned, Worlds
<1>5. w.reg[n] \notin C
  BY <1>3, <1>4 DEF HttpFds
<1>6. v.http[w.reg[n]] = w.http[w.reg[n]]
  BY <1>4, <1>5 DEF HttpClosed
<1> QED
  BY <1>3, <1>4, <1>6

LEMMA HttpClosedKeeps ==
  ASSUME NEW w \in Worlds, NEW C \in SUBSET Conn, NEW c \in Conn
  PROVE  LET h == HttpClosed(w, C)[c] IN
         /\ h.st = w.http[c].st /\ h.down = w.http[c].down /\ h.answers = w.http[c].answers
         /\ h.is_processed = w.http[c].is_processed
         /\ h.fd = IF c \in C THEN NoFd ELSE w.http[c].fd
         /\ c \notin C => h = w.http[c]
<1>1. w.http[c] \in Http
  BY DEF Worlds
<1>2. HttpClosed(w, C)[c] = IF c \in C THEN [w.http[c] EXCEPT !.fd = NoFd] ELSE w.http[c]
  BY DEF HttpClosed
<1> QED
  BY <1>1, <1>2 DEF Http

LEMMA SesClosedKeeps ==
  ASSUME NEW w \in Worlds, NEW S \in SUBSET Slot, NEW s \in Slot
  PROVE  LET e == SesClosed(w, S)[s] IN
         /\ e.st = w.ses[s].st /\ e.chat = w.ses[s].chat /\ e.up = w.ses[s].up /\ e.refs = w.ses[s].refs
         /\ e.msg = w.ses[s].msg
<1>1. w.ses[s] \in Session
  BY DEF Worlds
<1>2. \/ SesClosed(w, S)[s] = [w.ses[s] EXCEPT !.idle = TRUE, !.fd = NoFd]
      \/ SesClosed(w, S)[s] = [w.ses[s] EXCEPT !.idle = TRUE]
      \/ SesClosed(w, S)[s] = w.ses[s]
  BY DEF SesClosed
<1> QED
  BY <1>1, <1>2 DEF Session

LEMMA HttpCloseGood ==
  ASSUME NEW w, Good(w), AllQuit(w), NEW C \in SUBSET Conn
  PROVE  LET v == HttpClose(w, C) IN
         /\ Good(v) /\ v.ses = w.ses /\ v.chat = w.chat /\ v.created = w.created
         /\ \A n \in Number : v.reg[n] \in {w.reg[n], None}
         /\ v.http = HttpClosed(w, C)
<1> DEFINE v == HttpClose(w, C)
<1>1. w \in Worlds
  BY DEF Good
<1>2. v \in Worlds /\ v.desc = Closed(w.desc, HttpFds(w, C)) /\ v.reg = Closed(w.reg, HttpFds(w, C))
      /\ v.http = HttpClosed(w, C) /\ v.ses = w.ses /\ v.chat = w.chat /\ v.created = w.created
  BY <1>1, HttpCloseIs
<1> HIDE DEF v
<1>3. Owned(v) /\ \A n \in Number : v.reg[n] \in {w.reg[n], None}
  BY <1>1, <1>2, ClosedOwned DEF Good
<1>4. Linked(v) /\ Waits(v)
  BY <1>2 DEF Good, Linked, Waits
<1>5. Chained(v)
  BY <1>2 DEF Good, Chained, AllQuit
<1> QED
  BY <1>2, <1>3, <1>4, <1>5 DEF Good, v

LEMMA SessionCloseGood ==
  ASSUME NEW w, Good(w), AllQuit(w), NEW S \in SUBSET Slot
  PROVE  LET v == SessionClose(w, S) IN
         /\ Good(v) /\ Kept(w, v) /\ v.chat = w.chat /\ v.ses = SesClosed(w, S)
         /\ v.http = HttpClosed(w, Above(w, S))
<1> DEFINE v == SessionClose(w, S)
           C == Above(w, S)
           N == HttpFds(w, C) \cup AloneFds(w, S)
<1>1. w \in Worlds
  BY DEF Good
<1>2. v \in Worlds /\ v.desc = Closed(w.desc, N) /\ v.reg = Closed(w.reg, N) /\ C \in SUBSET Conn
      /\ v.http = HttpClosed(w, C) /\ v.ses = SesClosed(w, S) /\ v.chat = w.chat /\ v.created = w.created
  <2>1. v \in Worlds /\ C \in SUBSET Conn
    BY <1>1, SessionCloseIs
  <2>2. v = [desc |-> Closed(w.desc, N), reg |-> Closed(w.reg, N), http |-> HttpClosed(w, C),
             ses |-> SesClosed(w, S), chat |-> w.chat, created |-> w.created]
    BY <1>1, SessionCloseIs
  <2> HIDE DEF v, C, N
  <2> QED
    BY <2>1, <2>2
<1>3. HttpFds(w, C) \subseteq N
  OBVIOUS
<1>4. \A c \in Conn : (\A s \in Slot : w.ses[s].up # c) => c \notin C
  BY DEF Above, Alone
<1> HIDE DEF v, C, N
<1>5. Owned(v) /\ \A n \in Number : v.reg[n] \in {w.reg[n], None}
  BY <1>1, <1>2, <1>3, ClosedOwned DEF Good
<1>6. \A s \in Slot : v.ses[s].st = w.ses[s].st /\ v.ses[s].chat = w.ses[s].chat /\ v.ses[s].up = w.ses[s].up
                      /\ v.ses[s].refs = w.ses[s].refs /\ v.ses[s].msg = w.ses[s].msg
  BY <1>1, <1>2, SesClosedKeeps
<1>7. \A c \in Conn : v.http[c].st = w.http[c].st /\ v.http[c].down = w.http[c].down
                      /\ v.http[c].fd \in {w.http[c].fd, NoFd} /\ (c \notin C => v.http[c] = w.http[c])
  BY <1>1, <1>2, HttpClosedKeeps
<1>8. Linked(v) /\ Waits(v)
  BY <1>2, <1>6 DEF Good, Linked, Waits
<1>9. Chained(v)
  BY <1>2, <1>6 DEF Good, Chained, AllQuit
<1>10. Kept(w, v)
  BY <1>2, <1>4, <1>5, <1>6, <1>7 DEF Kept
<1> QED
  BY <1>2, <1>5, <1>8, <1>9, <1>10 DEF Good, v, C

-----------------------------------------------------------------------------
\* One object of a world replaced.
SetHttp(w, c, h) == [w EXCEPT !.http[c] = h]
SetSes(w, s, e) == [w EXCEPT !.ses[s] = e]
SetChat(w, k, a) == [w EXCEPT !.chat[k] = a]

LEMMA SetHttpIs ==
  ASSUME NEW w \in Worlds, NEW c \in Conn, NEW h \in Http
  PROVE  LET v == SetHttp(w, c, h) IN
         /\ v \in Worlds /\ v.desc = w.desc /\ v.reg = w.reg /\ v.ses = w.ses /\ v.chat = w.chat /\ v.created = w.created
         /\ v.http[c] = h /\ \A d \in Conn : d # c => v.http[d] = w.http[d]
BY DEF SetHttp, Worlds

LEMMA SetSesIs ==
  ASSUME NEW w \in Worlds, NEW s \in Slot, NEW e \in Session
  PROVE  LET v == SetSes(w, s, e) IN
         /\ v \in Worlds /\ v.desc = w.desc /\ v.reg = w.reg /\ v.http = w.http /\ v.chat = w.chat /\ v.created = w.created
         /\ v.ses[s] = e /\ \A t \in Slot : t # s => v.ses[t] = w.ses[t]
BY DEF SetSes, Worlds

LEMMA SetChatIs ==
  ASSUME NEW w \in Worlds, NEW k \in Chat, NEW a \in ChatObject
  PROVE  LET v == SetChat(w, k, a) IN
         /\ v \in Worlds /\ v.desc = w.desc /\ v.reg = w.reg /\ v.http = w.http /\ v.ses = w.ses /\ v.created = w.created
         /\ v.chat[k] = a /\ \A j \in Chat : j # k => v.chat[j] = w.chat[j]
BY DEF SetChat, Worlds

\* One field of an object replaced.
WithAnswers(h, n) == [h EXCEPT !.answers = n]
WithProcessed(h, b) == [h EXCEPT !.is_processed = b]
WithMsg(e, q) == [e EXCEPT !.msg = q]
WithDue(a, n) == [a EXCEPT !.due = n]

LEMMA AnswersField ==
  ASSUME NEW h \in Http, NEW n \in Int
  PROVE  LET g == WithAnswers(h, n) IN
         /\ g \in Http /\ g.st = h.st /\ g.fd = h.fd /\ g.down = h.down /\ g.is_processed = h.is_processed /\ g.answers = n
BY DEF Http, WithAnswers

LEMMA ProcessedField ==
  ASSUME NEW h \in Http, NEW b \in BOOLEAN
  PROVE  LET g == WithProcessed(h, b) IN
         /\ g \in Http /\ g.st = h.st /\ g.fd = h.fd /\ g.down = h.down /\ g.answers = h.answers /\ g.is_processed = b
BY DEF Http, WithProcessed

LEMMA MsgField ==
  ASSUME NEW e \in Session, NEW q \in Seq(Chat)
  PROVE  LET f == WithMsg(e, q) IN
         /\ f \in Session /\ f.st = e.st /\ f.chat = e.chat /\ f.fd = e.fd /\ f.refs = e.refs /\ f.up = e.up /\ f.msg = q
         /\ f.idle = e.idle
BY DEF Session, WithMsg

LEMMA DueField ==
  ASSUME NEW a \in ChatObject, NEW n \in Int
  PROVE  LET b == WithDue(a, n) IN
         /\ b \in ChatObject /\ b.st = a.st /\ b.up = a.up /\ b.fd = a.fd /\ b.quit = a.quit /\ b.logged = a.logged
         /\ b.cb = a.cb /\ b.asks = a.asks /\ b.full = a.full /\ b.due = n
BY DEF ChatObject, WithDue

LEMMA HttpSendIs ==
  ASSUME NEW w \in Worlds, NEW c \in Conn
  PROVE  LET v == HttpSend(w, c) IN
         /\ v \in Worlds /\ v.desc = w.desc /\ v.reg = w.reg /\ v.ses = w.ses /\ v.chat = w.chat /\ v.created = w.created
         /\ \A d \in Conn : d # c => v.http[d] = w.http[d]
         /\ v.http[c].st = w.http[c].st /\ v.http[c].fd = w.http[c].fd /\ v.http[c].down = w.http[c].down
         /\ v.http[c].is_processed = w.http[c].is_processed
         /\ v.http[c].answers = IF Open(w, c) THEN w.http[c].answers + 1 ELSE w.http[c].answers
         /\ v = w <=> ~Open(w, c)
<1> DEFINE h == WithAnswers(w.http[c], w.http[c].answers + 1)
           v == HttpSend(w, c)
<1>1. w.http[c] \in Http
  BY DEF Worlds
<1>2. w.http[c].answers \in Int
  BY <1>1 DEF Http
<1>3. w.http[c].answers + 1 \in Int /\ w.http[c].answers + 1 # w.http[c].answers
  BY <1>2
<1>4. CASE ~Open(w, c)
  BY <1>4 DEF HttpSend, Open
<1>5. CASE Open(w, c)
  <2>1. v = SetHttp(w, c, h)
    BY <1>5 DEF HttpSend, Open, SetHttp, WithAnswers
  <2>2. h \in Http /\ h.st = w.http[c].st /\ h.fd = w.http[c].fd /\ h.down = w.http[c].down
        /\ h.is_processed = w.http[c].is_processed /\ h.answers = w.http[c].answers + 1
    BY <1>1, <1>3, AnswersField
  <2> HIDE DEF h, v
  <2>3. /\ v \in Worlds /\ v.desc = w.desc /\ v.reg = w.reg /\ v.ses = w.ses /\ v.chat = w.chat /\ v.created = w.created
        /\ v.http[c] = h /\ \A d \in Conn : d # c => v.http[d] = w.http[d]
    BY <2>1, <2>2, SetHttpIs
  <2>4. v # w
    BY <1>3, <2>2, <2>3
  <2> QED
    BY <1>5, <2>2, <2>3, <2>4 DEF v
<1> QED
  BY <1>4, <1>5

\* What a session kept goes out.
Flushed(w, v, s, c, k) ==
  /\ v \in Worlds /\ v.desc = w.desc /\ v.reg = w.reg /\ v.created = w.created
  /\ \A d \in Conn : d # c => v.http[d] = w.http[d]
  /\ v.http[c].st = w.http[c].st /\ v.http[c].fd = w.http[c].fd /\ v.http[c].down = w.http[c].down
  /\ v.http[c].is_processed = TRUE
  /\ v.http[c].answers = IF Open(w, c) THEN w.http[c].answers + 1 ELSE w.http[c].answers
  /\ v.ses[s] = WithMsg(w.ses[s], <<>>) /\ \A t \in Slot : t # s => v.ses[t] = w.ses[t]
  /\ v.chat[k] = WithDue(w.chat[k], IF Open(w, c) THEN w.chat[k].due - Count(w.ses[s].msg, k) ELSE w.chat[k].due)
  /\ \A j \in Chat : j # k => v.chat[j] = w.chat[j]

LEMMA FlushIs ==
  ASSUME NEW w \in Worlds, NEW s \in Slot, NEW c \in Conn, NEW k \in Chat, w.ses[s].up = c, w.ses[s].chat = k
  PROVE  Flushed(w, Flush(w, s), s, c, k)
<1> DEFINE n == Count(w.ses[s].msg, k)
           u == HttpSend(w, c)
           h == WithProcessed(u.http[c], TRUE)
           e == WithMsg(u.ses[s], <<>>)
           a == WithDue(u.chat[k], IF u = w THEN u.chat[k].due ELSE u.chat[k].due - n)
           x == SetHttp(u, c, h)
           y == SetSes(x, s, e)
           z == SetChat(y, k, a)
<1>1. /\ u \in Worlds /\ u.desc = w.desc /\ u.reg = w.reg /\ u.ses = w.ses /\ u.chat = w.chat /\ u.created = w.created
      /\ \A d \in Conn : d # c => u.http[d] = w.http[d]
      /\ u.http[c].st = w.http[c].st /\ u.http[c].fd = w.http[c].fd /\ u.http[c].down = w.http[c].down
      /\ u.http[c].answers = (IF Open(w, c) THEN w.http[c].answers + 1 ELSE w.http[c].answers)
      /\ (u = w <=> ~Open(w, c))
  BY HttpSendIs
<1>2. Flush(w, s) = z
  <2>1. Flush(w, s) = [u EXCEPT !.http[c].is_processed = TRUE, !.ses[s].msg = <<>>,
                                !.chat[k].due = IF u = w THEN @ ELSE @ - n]
    BY DEF Flush, Count
  <2> HIDE DEF u, n
  <2>2. z = [u EXCEPT !.http[c] = h, !.ses[s] = e, !.chat[k] = a]
    <3> HIDE DEF h, e, a
    <3> QED
      BY <1>1 DEF Worlds, SetHttp, SetSes, SetChat
  <2> QED
    BY <2>1, <2>2 DEF WithProcessed, WithMsg, WithDue
<1>3. w.ses[s] \in Session /\ w.chat[k] \in ChatObject /\ w.chat[k].due \in Int
  BY DEF Worlds, ChatObject
<1>4. n \in Int
  <2>1. w.ses[s].msg \in Seq(Chat)
    BY <1>3 DEF Session
  <2>2. n \in Nat
    BY <2>1, CountNat
  <2> QED
    BY <2>2
<1> HIDE DEF n, u
<1>5. h \in Http /\ h.st = u.http[c].st /\ h.fd = u.http[c].fd /\ h.down = u.http[c].down
      /\ h.answers = u.http[c].answers /\ h.is_processed = TRUE
  <2>1. u.http[c] \in Http
    BY <1>1 DEF Worlds
  <2> QED
    BY <2>1, ProcessedField
<1>6. e \in Session /\ e = WithMsg(w.ses[s], <<>>)
  <2>1. <<>> \in Seq(Chat) /\ u.ses[s] = w.ses[s]
    BY <1>1
  <2> QED
    BY <1>3, <2>1, MsgField
<1>7. a \in ChatObject /\ a = WithDue(w.chat[k], IF Open(w, c) THEN w.chat[k].due - n ELSE w.chat[k].due)
  BY <1>1, <1>3, <1>4, DueField
<1> HIDE DEF h, e, a
<1>8. /\ x \in Worlds /\ x.desc = u.desc /\ x.reg = u.reg /\ x.ses = u.ses /\ x.chat = u.chat /\ x.created = u.created
      /\ x.http[c] = h /\ \A d \in Conn : d # c => x.http[d] = u.http[d]
  BY <1>1, <1>5, SetHttpIs
<1> HIDE DEF x
<1>9. /\ y \in Worlds /\ y.desc = x.desc /\ y.reg = x.reg /\ y.http = x.http /\ y.chat = x.chat /\ y.created = x.created
      /\ y.ses[s] = e /\ \A t \in Slot : t # s => y.ses[t] = x.ses[t]
  BY <1>6, <1>8, SetSesIs
<1> HIDE DEF y
<1>10. /\ z \in Worlds /\ z.desc = y.desc /\ z.reg = y.reg /\ z.http = y.http /\ z.ses = y.ses /\ z.created = y.created
       /\ z.chat[k] = a /\ \A j \in Chat : j # k => z.chat[j] = y.chat[j]
  BY <1>7, <1>9, SetChatIs
<1> HIDE DEF z
<1> QED
  BY <1>1, <1>2, <1>5, <1>6, <1>7, <1>8, <1>9, <1>10 DEF n, Flushed

\* What sending changes: caches, answers and what is due.
Sent(w, v) ==
  /\ Kept(w, v) /\ v.desc = w.desc
  /\ \A c \in Conn : v.http[c].fd = w.http[c].fd
  /\ \A k \in Chat : v.chat[k].quit = w.chat[k].quit /\ v.chat[k].logged = w.chat[k].logged
                     /\ v.chat[k].cb = w.chat[k].cb /\ v.chat[k].asks = w.chat[k].asks

LEMMA SentSelf == ASSUME NEW w PROVE Sent(w, w)
BY KeptSelf DEF Sent

LEMMA SentTwice ==
  ASSUME NEW u, NEW v, NEW w, Sent(u, v), Sent(v, w)
  PROVE  Sent(u, w)
<1>1. Kept(u, w)
  BY KeptTwice DEF Sent
<1> QED
  BY <1>1 DEF Sent

\* A session that is there has a chat, and the chat has it.
LEMMA LinkedChat ==
  ASSUME NEW w, Good(w)
  PROVE  \A t \in Slot : w.ses[t].st = "live" =>
           w.ses[t].chat \in Chat /\ w.chat[w.ses[t].chat].up = t /\ w.chat[w.ses[t].chat].st = "live"
<1>1. w.created \in Chat \cup {0}
  BY DEF Good, Worlds
<1>2. MaxSessions \in Nat
  BY WebAssumption
<1>3. \A k \in 1 .. w.created : k \in Chat /\ k <= w.created
  BY <1>1, <1>2 DEF Chat
<1> QED
  BY <1>3 DEF Good, Linked

\* An answer to the request of connection c, if it is open.
AnswerOnce(w, v, c) ==
  v.http[c].is_processed = TRUE
  /\ v.http[c].answers = IF Open(w, c) THEN w.http[c].answers + 1 ELSE w.http[c].answers

\* What went out is no longer due: that of the session's chat, if a client could hear it.
LEMMA FlushGood ==
  ASSUME NEW w, Good(w), NEW s \in Slot, w.ses[s].up # None
  PROVE  LET v == Flush(w, s) IN
         /\ Good(v) /\ Sent(w, v) /\ w.ses[s].up \in Conn
         /\ AnswerOnce(w, v, w.ses[s].up)
         /\ \A d \in Conn : d # w.ses[s].up => v.http[d] = w.http[d]
<1>1. PICK c \in Conn : w.ses[s].up = c /\ w \in Worlds /\ w.ses[s] \in Session /\ w.ses[s].st = "live"
  BY DEF Good, Worlds, Session, Chained
<1>2. PICK k \in Chat : w.ses[s].chat = k /\ w.chat[k].up = s /\ w.chat[k] \in ChatObject
  BY <1>1, LinkedChat DEF Worlds
<1> DEFINE v == Flush(w, s)
           n == Count(w.ses[s].msg, k)
<1>3. /\ v \in Worlds /\ v.desc = w.desc /\ v.reg = w.reg /\ v.created = w.created
      /\ \A d \in Conn : d # c => v.http[d] = w.http[d]
      /\ v.http[c].st = w.http[c].st /\ v.http[c].fd = w.http[c].fd /\ v.http[c].down = w.http[c].down
      /\ v.http[c].is_processed = TRUE
      /\ v.http[c].answers = (IF Open(w, c) THEN w.http[c].answers + 1 ELSE w.http[c].answers)
      /\ v.ses[s] = WithMsg(w.ses[s], <<>>) /\ (\A t \in Slot : t # s => v.ses[t] = w.ses[t])
      /\ v.chat[k] = WithDue(w.chat[k], IF Open(w, c) THEN w.chat[k].due - n ELSE w.chat[k].due)
      /\ (\A j \in Chat : j # k => v.chat[j] = w.chat[j])
  <2>1. Flushed(w, v, s, c, k)
    BY <1>1, <1>2, FlushIs
  <2> HIDE DEF v
  <2> QED
    BY <2>1 DEF Flushed
<1>4. w.chat[k].due \in Int /\ n \in Int
  <2>1. w.ses[s].msg \in Seq(Chat)
    BY <1>1 DEF Session
  <2>2. n \in Nat
    BY <2>1, CountNat
  <2> QED
    BY <1>2, <2>2 DEF ChatObject
<1> HIDE DEF n
<1>5. /\ v.ses[s].st = w.ses[s].st /\ v.ses[s].chat = k /\ v.ses[s].refs = w.ses[s].refs /\ v.ses[s].up = c
      /\ v.ses[s].msg = <<>>
  <2>1. <<>> \in Seq(Chat)
    OBVIOUS
  <2> DEFINE e == WithMsg(w.ses[s], <<>>)
  <2>2. e.st = w.ses[s].st /\ e.chat = w.ses[s].chat /\ e.refs = w.ses[s].refs /\ e.up = w.ses[s].up /\ e.msg = <<>>
    BY <1>1, <2>1, MsgField
  <2>3. v.ses[s] = e
    BY <1>3
  <2> HIDE DEF e, v
  <2> QED
    BY <1>1, <1>2, <2>2, <2>3
<1>6. /\ v.chat[k].st = w.chat[k].st /\ v.chat[k].up = w.chat[k].up /\ v.chat[k].fd = w.chat[k].fd
      /\ v.chat[k].quit = w.chat[k].quit /\ v.chat[k].logged = w.chat[k].logged /\ v.chat[k].cb = w.chat[k].cb
      /\ v.chat[k].asks = w.chat[k].asks /\ v.chat[k].full = w.chat[k].full
      /\ v.chat[k].due = (IF Open(w, c) THEN w.chat[k].due - n ELSE w.chat[k].due)
  <2>1. (IF Open(w, c) THEN w.chat[k].due - n ELSE w.chat[k].due) \in Int
    BY <1>4
  <2> QED
    BY <1>2, <1>3, <2>1, DueField
<1> HIDE DEF v
<1>7. \A d \in Conn : v.http[d].st = w.http[d].st /\ v.http[d].fd = w.http[d].fd /\ v.http[d].down = w.http[d].down
  BY <1>3
<1>8. \A t \in Slot : v.ses[t].st = w.ses[t].st /\ v.ses[t].chat = w.ses[t].chat /\ v.ses[t].up = w.ses[t].up
                      /\ v.ses[t].refs = w.ses[t].refs /\ (t # s => v.ses[t].msg = w.ses[t].msg)
  BY <1>1, <1>2, <1>3, <1>5
<1>9. \A j \in Chat : /\ v.chat[j].st = w.chat[j].st /\ v.chat[j].up = w.chat[j].up /\ v.chat[j].fd = w.chat[j].fd
                      /\ v.chat[j].quit = w.chat[j].quit /\ v.chat[j].logged = w.chat[j].logged
                      /\ v.chat[j].cb = w.chat[j].cb /\ v.chat[j].asks = w.chat[j].asks
                      /\ v.chat[j].full = w.chat[j].full /\ (j # k => v.chat[j].due = w.chat[j].due)
  BY <1>3, <1>6
<1>10. Kept(w, v)
  <2>1. \A d \in Conn : (\A t \in Slot : w.ses[t].up # d) => v.http[d] = w.http[d]
    BY <1>1, <1>3
  <2> QED
    BY <1>3, <1>7, <1>8, <1>9, <2>1 DEF Kept
<1>11. Sent(w, v)
  BY <1>3, <1>7, <1>9, <1>10 DEF Sent
<1>12. Owned(v)
  <2>1. w.reg \in [Number -> Conn \cup {None}]
    BY <1>1 DEF Worlds
  <2> QED
    BY <1>3, <1>7, <2>1 DEF Good, Owned
<1>13. \A t \in Slot : w.ses[t].st = "live" => w.ses[t].chat \in Chat /\ w.chat[w.ses[t].chat].up = t
  BY LinkedChat
<1>14. Linked(v)
  BY <1>3, <1>8, <1>9, <1>13 DEF Good, Linked
<1>15. Chained(v)
  <2>1. \A d \in Conn : Open(v, d) <=> Open(w, d)
    BY <1>3, <1>7 DEF Open
  <2>2. \A t \in Slot : w.ses[t].up \in Conn \cup {None}
    BY <1>1 DEF Worlds, Session
  <2> QED
    BY <1>8, <1>9, <1>13, <2>1, <2>2 DEF Good, Chained
<1>16. Waits(v)
  <2>1. SUFFICES ASSUME NEW t \in Slot, v.ses[t].st = "live", ~v.chat[v.ses[t].chat].quit, ~v.chat[v.ses[t].chat].full
                 PROVE  v.chat[v.ses[t].chat].due = Count(v.ses[t].msg, v.ses[t].chat)
    BY DEF Waits
  <2> DEFINE j == w.ses[t].chat
  <2>2. v.ses[t].chat = j /\ j \in Chat /\ w.chat[j].up = t /\ ~w.chat[j].quit /\ ~w.chat[j].full
        /\ w.chat[j].due = Count(w.ses[t].msg, j)
    BY <1>8, <1>9, <1>13, <2>1 DEF Good, Waits
  <2>3. CASE t = s
    <3>1. j = k /\ Open(w, c)
      BY <1>1, <1>2, <2>2, <2>3 DEF Good, Chained
    <3>2. v.chat[k].due = 0
      BY <1>4, <1>6, <2>2, <2>3, <3>1 DEF n
    <3> QED
      BY <1>5, <2>3, <3>2, CountEmpty
  <2>4. CASE t # s
    <3>1. j # k
      BY <1>2, <2>2, <2>4
    <3> QED
      BY <1>8, <1>9, <2>2, <2>4, <3>1
  <2> QED
    BY <2>3, <2>4
<1> QED
  BY <1>1, <1>3, <1>11, <1>12, <1>14, <1>15, <1>16 DEF Good, AnswerOnce, v

\* Only caches and what is due changed.
LEMMA QuietGood ==
  ASSUME NEW w, Good(w), NEW x \in Worlds, Waits(x),
         x.desc = w.desc, x.reg = w.reg, x.http = w.http, x.created = w.created,
         \A t \in Slot : x.ses[t].st = w.ses[t].st /\ x.ses[t].chat = w.ses[t].chat /\ x.ses[t].up = w.ses[t].up
                         /\ x.ses[t].refs = w.ses[t].refs,
         \A j \in Chat : x.chat[j].st = w.chat[j].st /\ x.chat[j].up = w.chat[j].up /\ x.chat[j].fd = w.chat[j].fd
                         /\ x.chat[j].quit = w.chat[j].quit /\ x.chat[j].logged = w.chat[j].logged
                         /\ x.chat[j].cb = w.chat[j].cb /\ x.chat[j].asks = w.chat[j].asks
  PROVE  Good(x) /\ Sent(w, x)
<1>1. Sent(w, x)
  BY DEF Sent, Kept
<1>2. Owned(x)
  BY DEF Good, Owned
<1>3. Linked(x)
  BY LinkedChat DEF Good, Linked
<1>4. Chained(x)
  BY LinkedChat DEF Good, Chained, Open
<1> QED
  BY <1>1, <1>2, <1>3, <1>4 DEF Good

\* A message put into the cache, or lost when that is full.
WithFull(a) == [a EXCEPT !.full = TRUE]
Due(w, k) == SetChat(w, k, WithDue(w.chat[k], w.chat[k].due + 1))
Cached(u, s, k) ==
  IF Len(u.ses[s].msg) < MaxMsg THEN SetSes(u, s, WithMsg(u.ses[s], Append(u.ses[s].msg, k)))
  ELSE SetChat(u, k, WithFull(u.chat[k]))

LEMMA FullField ==
  ASSUME NEW a \in ChatObject
  PROVE  LET b == WithFull(a) IN
         /\ b \in ChatObject /\ b.st = a.st /\ b.up = a.up /\ b.fd = a.fd /\ b.quit = a.quit /\ b.logged = a.logged
         /\ b.cb = a.cb /\ b.asks = a.asks /\ b.full = TRUE
BY DEF ChatObject, WithFull

LEMMA DueIs ==
  ASSUME NEW w \in Worlds, NEW k \in Chat
  PROVE  LET u == Due(w, k) IN
         /\ u \in Worlds /\ u.desc = w.desc /\ u.reg = w.reg /\ u.http = w.http /\ u.ses = w.ses /\ u.created = w.created
         /\ u.chat[k].st = w.chat[k].st /\ u.chat[k].up = w.chat[k].up /\ u.chat[k].fd = w.chat[k].fd
         /\ u.chat[k].quit = w.chat[k].quit /\ u.chat[k].logged = w.chat[k].logged
         /\ u.chat[k].cb = w.chat[k].cb /\ u.chat[k].asks = w.chat[k].asks /\ u.chat[k].full = w.chat[k].full
         /\ u.chat[k].due = w.chat[k].due + 1
         /\ \A j \in Chat : j # k => u.chat[j] = w.chat[j]
<1> DEFINE b == WithDue(w.chat[k], w.chat[k].due + 1)
<1>1. w.chat[k] \in ChatObject
  BY DEF Worlds
<1>2. w.chat[k].due + 1 \in Int
  BY <1>1 DEF ChatObject
<1>3. /\ b \in ChatObject /\ b.st = w.chat[k].st /\ b.up = w.chat[k].up /\ b.fd = w.chat[k].fd
      /\ b.quit = w.chat[k].quit /\ b.logged = w.chat[k].logged
      /\ b.cb = w.chat[k].cb /\ b.asks = w.chat[k].asks /\ b.full = w.chat[k].full /\ b.due = w.chat[k].due + 1
  BY <1>1, <1>2, DueField
<1> HIDE DEF b
<1>4. Due(w, k) = SetChat(w, k, b)
  BY DEF Due, b
<1>5. LET v == SetChat(w, k, b) IN
      /\ v \in Worlds /\ v.desc = w.desc /\ v.reg = w.reg /\ v.http = w.http /\ v.ses = w.ses /\ v.created = w.created
      /\ v.chat[k] = b /\ \A j \in Chat : j # k => v.chat[j] = w.chat[j]
  BY <1>3, SetChatIs
<1> QED
  BY <1>3, <1>4, <1>5

LEMMA DueGood ==
  ASSUME NEW w, Good(w), NEW k \in Chat, NEW s \in Slot, w.chat[k].up = s, w.ses[s].st = "free"
  PROVE  Good(Due(w, k)) /\ Sent(w, Due(w, k)) /\ Due(w, k).http = w.http
<1> DEFINE u == Due(w, k)
<1>1. w \in Worlds
  BY DEF Good
<1>2. /\ u \in Worlds /\ u.desc = w.desc /\ u.reg = w.reg /\ u.http = w.http /\ u.ses = w.ses /\ u.created = w.created
      /\ u.chat[k].st = w.chat[k].st /\ u.chat[k].up = w.chat[k].up /\ u.chat[k].fd = w.chat[k].fd
      /\ u.chat[k].quit = w.chat[k].quit /\ u.chat[k].logged = w.chat[k].logged
      /\ u.chat[k].cb = w.chat[k].cb /\ u.chat[k].asks = w.chat[k].asks
      /\ \A j \in Chat : j # k => u.chat[j] = w.chat[j]
  BY <1>1, DueIs
<1> HIDE DEF u
<1>3. \A t \in Slot : w.ses[t].st = "live" => w.ses[t].chat \in Chat /\ w.ses[t].chat # k
  <2>1. "live" # "free"
    OBVIOUS
  <2> QED
    BY <2>1, LinkedChat
<1>4. Waits(u)
  BY <1>2, <1>3 DEF Good, Waits
<1>5. \A j \in Chat : /\ u.chat[j].st = w.chat[j].st /\ u.chat[j].up = w.chat[j].up /\ u.chat[j].fd = w.chat[j].fd
                      /\ u.chat[j].quit = w.chat[j].quit /\ u.chat[j].logged = w.chat[j].logged
                      /\ u.chat[j].cb = w.chat[j].cb /\ u.chat[j].asks = w.chat[j].asks
  BY <1>2
<1>6. \A t \in Slot : u.ses[t].st = w.ses[t].st /\ u.ses[t].chat = w.ses[t].chat /\ u.ses[t].up = w.ses[t].up
                      /\ u.ses[t].refs = w.ses[t].refs
  BY <1>2
<1>7. Good(u) /\ Sent(w, u)
  BY <1>2, <1>4, <1>5, <1>6, QuietGood
<1> QED
  BY <1>2, <1>7 DEF u

LEMMA CachedGood ==
  ASSUME NEW w, Good(w), NEW k \in Chat, NEW s \in Slot, w.chat[k].up = s
  PROVE  LET x == Cached(Due(w, k), s, k) IN Good(x) /\ Sent(w, x) /\ x.http = w.http
<1> DEFINE u == Due(w, k)
           x == Cached(u, s, k)
           q == u.ses[s].msg
           e == WithMsg(u.ses[s], Append(q, k))
           a == WithFull(u.chat[k])
<1>1. w \in Worlds /\ w.ses[s] \in Session /\ w.chat[k].due \in Int
  BY DEF Good, Worlds, ChatObject
<1>2. /\ u \in Worlds /\ u.desc = w.desc /\ u.reg = w.reg /\ u.http = w.http /\ u.ses = w.ses /\ u.created = w.created
      /\ u.chat[k].st = w.chat[k].st /\ u.chat[k].up = w.chat[k].up /\ u.chat[k].fd = w.chat[k].fd
      /\ u.chat[k].quit = w.chat[k].quit /\ u.chat[k].logged = w.chat[k].logged
      /\ u.chat[k].cb = w.chat[k].cb /\ u.chat[k].asks = w.chat[k].asks /\ u.chat[k].full = w.chat[k].full
      /\ u.chat[k].due = w.chat[k].due + 1
      /\ \A j \in Chat : j # k => u.chat[j] = w.chat[j]
  BY <1>1, DueIs
<1> HIDE DEF u
<1>3. q \in Seq(Chat) /\ q = w.ses[s].msg
  BY <1>1, <1>2 DEF Session
<1>4. x = IF Len(q) < MaxMsg THEN SetSes(u, s, e) ELSE SetChat(u, k, a)
  BY DEF Cached
<1> HIDE DEF x
<1>5. \A t \in Slot : w.ses[t].st = "live" => w.ses[t].chat \in Chat /\ w.chat[w.ses[t].chat].up = t
  BY LinkedChat
<1>6. CASE Len(q) < MaxMsg
  <2>1. x = SetSes(u, s, e)
    BY <1>4, <1>6
  <2>2. /\ e \in Session /\ e.st = w.ses[s].st /\ e.chat = w.ses[s].chat /\ e.refs = w.ses[s].refs /\ e.up = w.ses[s].up
        /\ e.msg = Append(q, k)
    <3>1. u.ses[s] \in Session /\ Append(q, k) \in Seq(Chat) /\ u.ses[s] = w.ses[s]
      BY <1>1, <1>2, <1>3
    <3> DEFINE p == Append(q, k)
               f == u.ses[s]
    <3> HIDE DEF p, f
    <3>2. LET g == WithMsg(f, p) IN
          /\ g \in Session /\ g.st = f.st /\ g.chat = f.chat /\ g.fd = f.fd /\ g.refs = f.refs /\ g.up = f.up /\ g.msg = p
      BY <3>1, MsgField DEF p, f
    <3> QED
      BY <3>1, <3>2 DEF p, f
  <2> HIDE DEF e
  <2>3. /\ x \in Worlds /\ x.desc = w.desc /\ x.reg = w.reg /\ x.http = w.http /\ x.chat = u.chat /\ x.created = w.created
        /\ x.ses[s] = e /\ \A t \in Slot : t # s => x.ses[t] = w.ses[t]
    <3>1. LET v == SetSes(u, s, e) IN
          /\ v \in Worlds /\ v.desc = u.desc /\ v.reg = u.reg /\ v.http = u.http /\ v.chat = u.chat /\ v.created = u.created
          /\ v.ses[s] = e /\ \A t \in Slot : t # s => v.ses[t] = u.ses[t]
      BY <1>2, <2>2, SetSesIs
    <3> QED
      BY <1>2, <2>1, <3>1
  <2>4. Waits(x)
    <3>1. SUFFICES ASSUME NEW t \in Slot, x.ses[t].st = "live", ~x.chat[x.ses[t].chat].quit, ~x.chat[x.ses[t].chat].full
                   PROVE  x.chat[x.ses[t].chat].due = Count(x.ses[t].msg, x.ses[t].chat)
      BY DEF Waits
    <3>2. PICK j \in Chat : x.ses[t].chat = j /\ w.ses[t].chat = j /\ w.chat[j].up = t /\ w.ses[t].st = "live"
      BY <1>5, <2>2, <2>3, <3>1
    <3>3. ~w.chat[j].quit /\ ~w.chat[j].full
      BY <1>2, <2>3, <3>1, <3>2
    <3>4. w.chat[j].due = Count(w.ses[t].msg, j)
      BY <3>2, <3>3 DEF Good, Waits
    <3>5. CASE t # s
      <4>1. j # k
        BY <3>2, <3>5
      <4> QED
        BY <1>2, <2>3, <3>2, <3>4, <3>5, <4>1
    <3>6. CASE t = s
      <4>1. Count(Append(q, k), j) = IF k = j THEN Count(q, j) + 1 ELSE Count(q, j)
        BY <1>3, CountAppend
      <4>2. x.chat[j].due = IF k = j THEN w.chat[j].due + 1 ELSE w.chat[j].due
        BY <1>2, <2>3
      <4>3. x.ses[t].msg = Append(q, k) /\ w.ses[t].msg = q
        BY <1>3, <2>2, <2>3, <3>6
      <4> HIDE DEF q
      <4> QED
        BY <3>2, <3>4, <4>1, <4>2, <4>3
    <3> QED
      BY <3>5, <3>6
  <2>5. \A t \in Slot : x.ses[t].st = w.ses[t].st /\ x.ses[t].chat = w.ses[t].chat /\ x.ses[t].up = w.ses[t].up
                        /\ x.ses[t].refs = w.ses[t].refs
    BY <2>2, <2>3
  <2>6. \A j \in Chat : /\ x.chat[j].st = w.chat[j].st /\ x.chat[j].up = w.chat[j].up /\ x.chat[j].fd = w.chat[j].fd
                        /\ x.chat[j].quit = w.chat[j].quit /\ x.chat[j].logged = w.chat[j].logged
                        /\ x.chat[j].cb = w.chat[j].cb /\ x.chat[j].asks = w.chat[j].asks
    BY <1>2, <2>3
  <2>7. Good(x) /\ Sent(w, x)
    BY <2>3, <2>4, <2>5, <2>6, QuietGood
  <2> QED
    BY <2>3, <2>7 DEF x, u
<1>7. CASE ~(Len(q) < MaxMsg)
  <2>1. x = SetChat(u, k, a)
    BY <1>4, <1>7
  <2>2. /\ a \in ChatObject /\ a.st = w.chat[k].st /\ a.up = w.chat[k].up /\ a.fd = w.chat[k].fd
        /\ a.quit = w.chat[k].quit /\ a.logged = w.chat[k].logged
        /\ a.cb = w.chat[k].cb /\ a.asks = w.chat[k].asks /\ a.full = TRUE
    <3>1. u.chat[k] \in ChatObject
      BY <1>2 DEF Worlds
    <3>2. /\ a \in ChatObject /\ a.st = u.chat[k].st /\ a.up = u.chat[k].up /\ a.fd = u.chat[k].fd
          /\ a.quit = u.chat[k].quit /\ a.logged = u.chat[k].logged
          /\ a.cb = u.chat[k].cb /\ a.asks = u.chat[k].asks /\ a.full = TRUE
      BY <3>1, FullField
    <3> HIDE DEF a
    <3> QED
      BY <1>2, <3>2
  <2> HIDE DEF a
  <2>3. /\ x \in Worlds /\ x.desc = w.desc /\ x.reg = w.reg /\ x.http = w.http /\ x.ses = w.ses /\ x.created = w.created
        /\ x.chat[k] = a /\ \A j \in Chat : j # k => x.chat[j] = w.chat[j]
    <3>1. LET v == SetChat(u, k, a) IN
          /\ v \in Worlds /\ v.desc = u.desc /\ v.reg = u.reg /\ v.http = u.http /\ v.ses = u.ses /\ v.created = u.created
          /\ v.chat[k] = a /\ \A j \in Chat : j # k => v.chat[j] = u.chat[j]
      BY <1>2, <2>2, SetChatIs
    <3> QED
      BY <1>2, <2>1, <3>1
  <2>4. Waits(x)
    <3>1. SUFFICES ASSUME NEW t \in Slot, x.ses[t].st = "live", ~x.chat[x.ses[t].chat].quit, ~x.chat[x.ses[t].chat].full
                   PROVE  x.chat[x.ses[t].chat].due = Count(x.ses[t].msg, x.ses[t].chat)
      BY DEF Waits
    <3>2. PICK j \in Chat : x.ses[t].chat = j /\ w.ses[t].chat = j /\ w.ses[t].st = "live"
      BY <1>5, <2>3, <3>1
    <3>3. j # k
      BY <2>2, <2>3, <3>1, <3>2
    <3> QED
      BY <2>3, <3>1, <3>2, <3>3 DEF Good, Waits
  <2>5. \A t \in Slot : x.ses[t].st = w.ses[t].st /\ x.ses[t].chat = w.ses[t].chat /\ x.ses[t].up = w.ses[t].up
                        /\ x.ses[t].refs = w.ses[t].refs
    BY <2>3
  <2>6. \A j \in Chat : /\ x.chat[j].st = w.chat[j].st /\ x.chat[j].up = w.chat[j].up /\ x.chat[j].fd = w.chat[j].fd
                        /\ x.chat[j].quit = w.chat[j].quit /\ x.chat[j].logged = w.chat[j].logged
                        /\ x.chat[j].cb = w.chat[j].cb /\ x.chat[j].asks = w.chat[j].asks
    BY <2>2, <2>3
  <2>7. Good(x) /\ Sent(w, x)
    BY <2>3, <2>4, <2>5, <2>6, QuietGood
  <2> QED
    BY <2>3, <2>7 DEF x, u
<1> QED
  BY <1>6, <1>7

\* A chat sends: it is told nothing but through its session; a request of that is answered.
LEMMA ChatSendGood ==
  ASSUME NEW w, Good(w), NEW k \in Chat, w.chat[k].st = "live", NEW more \in BOOLEAN
  PROVE  LET v == ChatSend(w, k, more)
             c == w.ses[w.chat[k].up].up
         IN  /\ Good(v) /\ Sent(w, v)
             /\ \A d \in Conn : d # c \/ more \/ w.chat[k].quit => v.http[d] = w.http[d]
             /\ c # None /\ ~more /\ ~w.chat[k].quit => c \in Conn /\ AnswerOnce(w, v, c)
<1> DEFINE v == ChatSend(w, k, more)
           u == Due(w, k)
<1>1. PICK s \in Slot : w.chat[k].up = s
  BY DEF Good, Linked
<1> DEFINE x == Cached(u, s, k)
<1>2. w \in Worlds /\ w.ses[s].st \in {"free", "live"}
  BY DEF Good, Worlds, Session
<1>3. u.ses = w.ses /\ u.chat[k].up = s
  BY <1>1, <1>2, DueIs
<1>4. ChatSend(w, k, more) = IF w.chat[k].quit THEN w ELSE SessionSend(u, s, k, more)
  BY <1>1 DEF ChatSend, Due, SetChat, WithDue
<1>5. SessionSend(u, s, k, more) = IF u.ses[s].st = "free" THEN u
                                   ELSE IF more \/ x.ses[s].up = None THEN x ELSE Flush(x, s)
  BY DEF SessionSend, Cached, SetSes, SetChat, WithMsg, WithFull
<1>6. CASE w.chat[k].quit
  BY <1>4, <1>6, SentSelf
<1>7. CASE ~w.chat[k].quit /\ w.ses[s].st = "free"
  <2>1. v = u
    BY <1>3, <1>4, <1>5, <1>7
  <2>2. Good(u) /\ Sent(w, u) /\ u.http = w.http
    BY <1>1, <1>7, DueGood
  <2>3. w.ses[s].up = None
    BY <1>7 DEF Good, Chained
  <2> HIDE DEF u, v
  <2> QED
    BY <1>1, <2>1, <2>2, <2>3 DEF v
<1>8. CASE ~w.chat[k].quit /\ w.ses[s].st # "free"
  <2>1. v = IF more \/ x.ses[s].up = None THEN x ELSE Flush(x, s)
    BY <1>3, <1>4, <1>5, <1>8
  <2>2. Good(x) /\ Sent(w, x) /\ x.http = w.http
    BY <1>1, CachedGood
  <2> HIDE DEF x, v
  <2>3. x.ses[s].up = w.ses[s].up /\ x.desc = w.desc
    BY <2>2 DEF Sent, Kept
  <2>4. CASE more \/ x.ses[s].up = None
    <3>1. v = x
      BY <2>1, <2>4
    <3> QED
      BY <1>1, <2>2, <2>3, <2>4, <3>1 DEF v
  <2>5. CASE ~(more \/ x.ses[s].up = None)
    <3>1. v = Flush(x, s)
      BY <2>1, <2>5
    <3> DEFINE c == x.ses[s].up
    <3>2. Good(v) /\ Sent(x, v) /\ c \in Conn /\ AnswerOnce(x, v, c) /\ \A d \in Conn : d # c => v.http[d] = x.http[d]
      BY <2>2, <2>5, <3>1, FlushGood
    <3>3. Sent(w, v)
      BY <2>2, <3>2, SentTwice
    <3>4. AnswerOnce(w, v, c)
      BY <2>2, <2>3, <3>2 DEF AnswerOnce, Open
    <3> QED
      BY <1>1, <1>8, <2>2, <2>3, <2>5, <3>2, <3>3, <3>4 DEF v
  <2> QED
    BY <2>4, <2>5
<1> QED
  BY <1>6, <1>7, <1>8

-----------------------------------------------------------------------------
\* What the first n chats in the room make of the world, when all but one are told.
Tells(w, but, n, f) ==
  f = [k \in 0 .. n |-> IF k = 0 THEN w
                        ELSE IF k \in InRoom(w) \ {but} THEN ChatSend(f[k - 1], k, FALSE) ELSE f[k - 1]]

\* There is one such function for each number of chats, so the recursive one exists.
LEMMA TellsExists ==
  ASSUME NEW w, NEW but, NEW n \in Nat
  PROVE  \E f : Tells(w, but, n, f)
<1> DEFINE Bad == {i \in Nat : ~\E f : Tells(w, but, i, f)}
<1>1. SUFFICES ASSUME Bad # {} PROVE FALSE
  OBVIOUS
<1>2. PICK m \in Bad : \A i \in Bad : m <= i
  BY <1>1, LeastOfNaturals
<1>3. CASE m = 0
  <2> DEFINE f == [k \in 0 .. 0 |-> w]
  <2>1. Tells(w, but, 0, f)
    BY DEF Tells
  <2> QED
    BY <1>3, <2>1
<1>4. CASE m # 0
  <2>1. m - 1 \in Nat /\ m - 1 \notin Bad
    BY <1>2, <1>4
  <2>2. PICK f : Tells(w, but, m - 1, f)
    BY <2>1
  <2> DEFINE last == IF m \in InRoom(w) \ {but} THEN ChatSend(f[m - 1], m, FALSE) ELSE f[m - 1]
             g == [k \in 0 .. m |-> IF k = m THEN last ELSE f[k]]
  <2>6. m \in Nat /\ m - 1 # m
    BY <1>2
  <2> HIDE DEF last, Bad
  <2>3. ASSUME NEW k \in 0 .. m
        PROVE  g[k] = IF k = 0 THEN w
                      ELSE IF k \in InRoom(w) \ {but} THEN ChatSend(g[k - 1], k, FALSE) ELSE g[k - 1]
    <3>1. k = m => g[k - 1] = f[m - 1]
      <4>1. m - 1 \in 0 .. m
        BY <2>1, <2>6
      <4> QED
        BY <2>6, <4>1
    <3>2. k # m => k \in 0 .. (m - 1) /\ g[k] = f[k] /\ (k # 0 => g[k - 1] = f[k - 1])
      <4>1. k # m => k \in 0 .. (m - 1) /\ k - 1 # m /\ (k # 0 => k - 1 \in 0 .. m)
        BY <2>1, <2>6
      <4> QED
        BY <4>1
    <3>3. g[m] = IF m \in InRoom(w) \ {but} THEN ChatSend(f[m - 1], m, FALSE) ELSE f[m - 1]
      BY <2>6 DEF last
    <3> HIDE DEF g
    <3>4. CASE k = m
      BY <1>4, <3>1, <3>3, <3>4
    <3>5. CASE k # m
      <4>1. f[k] = IF k = 0 THEN w
                   ELSE IF k \in InRoom(w) \ {but} THEN ChatSend(f[k - 1], k, FALSE) ELSE f[k - 1]
        BY <2>2, <3>2, <3>5 DEF Tells
      <4> QED
        BY <3>2, <3>5, <4>1
    <3> QED
      BY <3>4, <3>5
  <2>4. g = [k \in 0 .. m |-> g[k]]
    OBVIOUS
  <2> HIDE DEF g
  <2>5. Tells(w, but, m, g)
    BY <2>3, <2>4 DEF Tells
  <2> QED
    BY <1>2, <2>5 DEF Bad
<1> QED
  BY <1>3, <1>4

LEMMA BroadcastTells ==
  ASSUME NEW w, NEW but
  PROVE  \E f : Tells(w, but, MaxSessions, f) /\ Broadcast(w, but) = f[MaxSessions]
<1> DEFINE f == CHOOSE h : Tells(w, but, MaxSessions, h)
<1>1. Tells(w, but, MaxSessions, f)
  BY TellsExists, WebAssumption
<1>2. Broadcast(w, but) = f[MaxSessions]
  BY DEF Broadcast, Tells
<1> HIDE DEF f
<1> QED
  BY <1>1, <1>2

\* No chat but k has a session that is chained to c.
Hears(w, c, j) == w.chat[j].st = "live" /\ w.ses[w.chat[j].up].up = c
OnlyTalker(w, c, k) == \A j \in Chat : Hears(w, c, j) => j = k

\* One answer at most.
MayAnswer(w, v, c) == v.http[c] = w.http[c] \/ AnswerOnce(w, v, c)

LEMMA HearsSent ==
  ASSUME NEW w, NEW v, Good(w), Kept(w, v)
  PROVE  \A c \in Conn : \A j \in Chat : Hears(v, c, j) <=> Hears(w, c, j)
<1>1. \A j \in Chat : w.chat[j].st = "live" => w.chat[j].up \in Slot
  BY DEF Good, Linked
<1> QED
  BY <1>1 DEF Kept, Hears

\* All are told; a connection whose chats are not told has no answer, and one with a single chat
\* has one at most.
LEMMA BroadcastGood ==
  ASSUME NEW w, Good(w), NEW but
  PROVE  LET v == Broadcast(w, but) IN
         /\ Good(v) /\ Sent(w, v)
         /\ \A c \in Conn : (\A j \in Chat : Hears(w, c, j) => j = but) => v.http[c] = w.http[c]
         /\ \A c \in Conn : \A k \in Chat : OnlyTalker(w, c, k) => MayAnswer(w, v, c)
<1>1. PICK f : Tells(w, but, MaxSessions, f) /\ Broadcast(w, but) = f[MaxSessions]
  BY BroadcastTells
<1>2. MaxSessions \in Nat
  BY WebAssumption
<1> DEFINE Unheard(n, c) == \A j \in Chat : j <= n /\ Hears(w, c, j) => j = but
           P(n) == /\ Good(f[n]) /\ Sent(w, f[n])
                   /\ \A c \in Conn : Unheard(n, c) => f[n].http[c] = w.http[c]
                   /\ \A c \in Conn : \A k \in Chat : OnlyTalker(w, c, k) => MayAnswer(w, f[n], c)
           Bad == {n \in 0 .. MaxSessions : ~P(n)}
<1>3. Bad = {}
  <2>1. SUFFICES ASSUME Bad # {} PROVE FALSE
    OBVIOUS
  <2>2. Bad \in SUBSET Nat
    BY <1>2
  <2>3. PICK n \in Bad : \A i \in Bad : n <= i
    <3> HIDE DEF Bad
    <3> QED
      BY <2>1, <2>2, LeastOfNaturals
  <2>4. n \in 0 .. MaxSessions /\ n \in Nat /\ ~P(n)
    BY <1>2, <2>3
  <2>5. CASE n = 0
    <3>1. f[0] = w
      BY <1>1, <1>2 DEF Tells
    <3>2. P(0)
      BY <3>1, SentSelf DEF MayAnswer
    <3> QED
      BY <2>4, <2>5, <3>2
  <2>6. CASE n # 0
    <3>1. n - 1 \in 0 .. MaxSessions /\ n - 1 \notin Bad /\ n \in Chat
      <4>1. n - 1 \in 0 .. MaxSessions /\ ~(n <= n - 1) /\ n \in Chat
        BY <1>2, <2>4, <2>6 DEF Chat
      <4> HIDE DEF Bad
      <4> QED
        BY <2>3, <4>1
    <3> DEFINE u == f[n - 1]
               v == f[n]
    <3>2. P(n - 1)
      BY <3>1
    <3>3. v = IF n \in InRoom(w) \ {but} THEN ChatSend(u, n, FALSE) ELSE u
      BY <1>1, <2>4, <2>6 DEF Tells
    <3> HIDE DEF P
    <3>4. /\ Good(u) /\ Sent(w, u)
          /\ \A c \in Conn : Unheard(n - 1, c) => u.http[c] = w.http[c]
          /\ \A c \in Conn : \A k \in Chat : OnlyTalker(w, c, k) => MayAnswer(w, u, c)
      BY <3>2 DEF P
    <3> HIDE DEF u, v, Bad
    <3>5. \A c \in Conn : Unheard(n, c) => Unheard(n - 1, c)
      <4>1. \A j \in Chat : j <= n - 1 => j <= n
        BY <1>2, <2>4 DEF Chat
      <4> QED
        BY <4>1
    <3>6. CASE n \notin InRoom(w) \ {but}
      <4>1. v = u
        BY <3>3, <3>6
      <4> HIDE DEF Unheard
      <4>2. P(n)
        BY <3>4, <3>5, <4>1 DEF P, v
      <4> QED
        BY <2>4, <4>2
    <3>7. CASE n \in InRoom(w) \ {but}
      <4>1. v = ChatSend(u, n, FALSE) /\ n # but
        BY <3>3, <3>7
      <4>2. w.chat[n].st = "live"
        BY <3>7 DEF InRoom
      <4>3. u.chat[n].st = "live" /\ u.desc = w.desc
        BY <3>1, <3>4, <4>2 DEF Sent, Kept
      <4> DEFINE d == u.ses[u.chat[n].up].up
      <4>4. /\ Good(v) /\ Sent(u, v)
            /\ \A c \in Conn : c # d => v.http[c] = u.http[c]
            /\ d \in Conn => v.http[d] = u.http[d] \/ AnswerOnce(u, v, d)
        <5>1. /\ Good(v) /\ Sent(u, v)
              /\ \A c \in Conn : c # d \/ FALSE \/ u.chat[n].quit => v.http[c] = u.http[c]
              /\ d # None /\ ~FALSE /\ ~u.chat[n].quit => d \in Conn /\ AnswerOnce(u, v, d)
          BY <3>1, <3>4, <4>1, <4>3, ChatSendGood
        <5>2. d \in Conn => d # None
          BY WebAssumption
        <5> HIDE DEF d
        <5> QED
          BY <5>1, <5>2
      <4>5. Sent(w, v)
        BY <3>4, <4>4, SentTwice
      <4>6. \A c \in Conn : Hears(w, c, n) <=> c = d
        <5>1. \A c \in Conn : Hears(u, c, n) <=> Hears(w, c, n)
          BY <3>1, <3>4, HearsSent DEF Sent
        <5> QED
          BY <4>3, <5>1 DEF Hears
      <4> HIDE DEF d
      <4>7. \A c \in Conn : Unheard(n, c) => v.http[c] = w.http[c]
        <5>1. \A c \in Conn : Unheard(n, c) => ~Hears(w, c, n)
          BY <2>4, <3>1, <4>1
        <5> HIDE DEF Unheard
        <5> QED
          BY <3>4, <3>5, <4>4, <4>6, <5>1
      <4>8. ASSUME NEW c \in Conn, NEW k \in Chat, OnlyTalker(w, c, k)
            PROVE  MayAnswer(w, v, c)
        <5>1. CASE c # d
          <6>1. MayAnswer(w, u, c) /\ v.http[c] = u.http[c]
            BY <3>4, <4>4, <4>8, <5>1
          <6> QED
            BY <6>1 DEF MayAnswer, AnswerOnce
        <5>2. CASE c = d
          <6>1. n = k
            BY <3>1, <4>6, <4>8, <5>2 DEF OnlyTalker
          <6>2. Unheard(n - 1, c)
            <7>1. \A j \in Chat : j <= n - 1 => j # n
              BY <2>4, <3>1 DEF Chat
            <7> QED
              BY <4>8, <6>1, <7>1 DEF OnlyTalker
          <6>3. u.http[c] = w.http[c]
            BY <3>4, <6>2
          <6> QED
            BY <4>3, <4>4, <5>2, <6>3 DEF MayAnswer, AnswerOnce, Open
        <5> QED
          BY <5>1, <5>2
      <4> HIDE DEF Unheard
      <4>9. P(n)
        BY <4>4, <4>5, <4>7, <4>8 DEF P, v
      <4> QED
        BY <2>4, <4>9
    <3> QED
      BY <3>6, <3>7
  <2> QED
    BY <2>5, <2>6
<1>4. P(MaxSessions)
  BY <1>2, <1>3
<1>5. \A c \in Conn : (\A j \in Chat : Hears(w, c, j) => j = but) => Unheard(MaxSessions, c)
  OBVIOUS
<1> DEFINE v == f[MaxSessions]
<1>6. /\ Good(v) /\ Sent(w, v)
      /\ \A c \in Conn : Unheard(MaxSessions, c) => v.http[c] = w.http[c]
      /\ \A c \in Conn : \A k \in Chat : OnlyTalker(w, c, k) => MayAnswer(w, v, c)
  BY <1>4
<1> HIDE DEF Unheard, v, P, Bad
<1> QED
  BY <1>1, <1>5, <1>6 DEF v

-----------------------------------------------------------------------------
\* What a chat does that nobody hears; what it does with one answer at most to a connection
\* whose only chat it is.
Quiet(w, v) == Good(v) /\ Kept(w, v) /\ v.desc = w.desc /\ v.http = w.http
Talk(w, v, k) ==
  /\ Good(v) /\ Kept(w, v) /\ v.desc = w.desc
  /\ \A c \in Conn : v.http[c].fd = w.http[c].fd
  /\ \A c \in Conn : OnlyTalker(w, c, k) => MayAnswer(w, v, c)

LEMMA QuietSelf == ASSUME NEW w, Good(w) PROVE Quiet(w, w)
BY KeptSelf DEF Quiet

LEMMA QuietTwice == ASSUME NEW u, NEW v, NEW w, Quiet(u, v), Quiet(v, w) PROVE Quiet(u, w)
BY KeptTwice DEF Quiet

LEMMA QuietTalk == ASSUME NEW w, NEW v, NEW k, Quiet(w, v) PROVE Talk(w, v, k)
BY DEF Quiet, Talk, MayAnswer

LEMMA QuietThenTalk ==
  ASSUME NEW u, Good(u), NEW v, NEW w, NEW k \in Chat, Quiet(u, v), Talk(v, w, k)
  PROVE  Talk(u, w, k)
<1>1. Kept(u, w)
  BY KeptTwice DEF Quiet, Talk
<1>2. ASSUME NEW c \in Conn, OnlyTalker(u, c, k)
      PROVE  MayAnswer(u, w, c)
  <2>1. OnlyTalker(v, c, k)
    BY <1>2, HearsSent DEF Quiet, OnlyTalker
  <2>2. MayAnswer(v, w, c)
    BY <2>1 DEF Talk
  <2> QED
    BY <2>2 DEF Quiet, MayAnswer, AnswerOnce, Open
<1> QED
  BY <1>1, <1>2 DEF Quiet, Talk

LEMMA TalkThenQuiet ==
  ASSUME NEW u, NEW v, NEW w, NEW k, Talk(u, v, k), Quiet(v, w)
  PROVE  Talk(u, w, k)
<1>1. Kept(u, w)
  BY KeptTwice DEF Quiet, Talk
<1> QED
  BY <1>1 DEF Quiet, Talk, MayAnswer, AnswerOnce

LEMMA SendTalk ==
  ASSUME NEW w, Good(w), NEW j \in Chat, w.chat[j].st = "live", NEW more \in BOOLEAN, NEW k \in Chat
  PROVE  Talk(w, ChatSend(w, j, more), k) /\ Sent(w, ChatSend(w, j, more))
<1> DEFINE v == ChatSend(w, j, more)
           c == w.ses[w.chat[j].up].up
<1>1. /\ Good(v) /\ Sent(w, v)
      /\ \A d \in Conn : d # c \/ more \/ w.chat[j].quit => v.http[d] = w.http[d]
      /\ c # None /\ ~more /\ ~w.chat[j].quit => c \in Conn /\ AnswerOnce(w, v, c)
  BY ChatSendGood
<1>2. \A d \in Conn : d # None
  BY WebAssumption
<1> HIDE DEF v, c
<1>3. \A d \in Conn : MayAnswer(w, v, d)
  BY <1>1, <1>2 DEF MayAnswer
<1> QED
  BY <1>1, <1>3 DEF Talk, Sent, v

LEMMA BroadcastTalk ==
  ASSUME NEW w, Good(w), NEW but, NEW k \in Chat
  PROVE  Talk(w, Broadcast(w, but), k) /\ Sent(w, Broadcast(w, but))
<1> DEFINE v == Broadcast(w, but)
<1>1. /\ Good(v) /\ Sent(w, v)
      /\ \A c \in Conn : \A j \in Chat : OnlyTalker(w, c, j) => MayAnswer(w, v, c)
  BY BroadcastGood
<1> HIDE DEF v
<1> QED
  BY <1>1 DEF Talk, Sent, v

-----------------------------------------------------------------------------
\* A chat's flags.
LEMMA FlagGood ==
  ASSUME NEW w, Good(w), NEW k \in Chat, w.chat[k].st = "live", NEW a \in ChatObject,
         a.st = w.chat[k].st, a.up = w.chat[k].up, a.fd = w.chat[k].fd, a.due = w.chat[k].due,
         a.full = w.chat[k].full, w.chat[k].quit => a.quit
  PROVE  LET v == SetChat(w, k, a) IN
         /\ Quiet(w, v) /\ v.ses = w.ses /\ v.chat[k] = a /\ \A j \in Chat : j # k => v.chat[j] = w.chat[j]
<1> DEFINE v == SetChat(w, k, a)
<1>1. w \in Worlds
  BY DEF Good
<1>2. /\ v \in Worlds /\ v.desc = w.desc /\ v.reg = w.reg /\ v.http = w.http /\ v.ses = w.ses /\ v.created = w.created
      /\ v.chat[k] = a /\ \A j \in Chat : j # k => v.chat[j] = w.chat[j]
  BY <1>1, SetChatIs
<1> HIDE DEF v
<1>3. \A j \in Chat : /\ v.chat[j].st = w.chat[j].st /\ v.chat[j].up = w.chat[j].up /\ v.chat[j].fd = w.chat[j].fd
                      /\ v.chat[j].due = w.chat[j].due /\ v.chat[j].full = w.chat[j].full
                      /\ (w.chat[j].quit => v.chat[j].quit)
  BY <1>2
<1>4. \A t \in Slot : w.ses[t].st = "live" => w.ses[t].chat \in Chat /\ w.chat[w.ses[t].chat].up = t
  BY LinkedChat
<1>5. Kept(w, v)
  BY <1>2, <1>3 DEF Kept
<1>6. Owned(v)
  BY <1>2 DEF Good, Owned
<1>7. Linked(v)
  <2>1. \A j \in Chat : v.chat[j].st # "live" => v.chat[j] = w.chat[j]
    BY <1>2
  <2> QED
    BY <1>2, <1>3, <1>4, <2>1 DEF Good, Linked
<1>8. Waits(v)
  BY <1>2, <1>3, <1>4 DEF Good, Waits
<1>9. Chained(v)
  BY <1>2, <1>3, <1>4 DEF Good, Chained, Open
<1> QED
  BY <1>2, <1>5, <1>6, <1>7, <1>8, <1>9 DEF Good, Quiet, v

WithQuit(a) == [a EXCEPT !.quit = TRUE]
WithLogged(a, b) == [a EXCEPT !.logged = b]
WithCb(a, x) == [a EXCEPT !.cb = x]
WithAsks(a, x) == [a EXCEPT !.asks = x]
WithLazy(a, b) == [a EXCEPT !.lazy = b]
Referring(a, n) == [a EXCEPT !.refs = n]

\* Nothing of a chat but its flags.
Flags(a, b) ==
  b \in ChatObject /\ b.st = a.st /\ b.up = a.up /\ b.fd = a.fd /\ b.due = a.due /\ b.full = a.full /\ (a.quit => b.quit)

LEMMA FlagFields ==
  ASSUME NEW a \in ChatObject
  PROVE  /\ Flags(a, WithQuit(a)) /\ WithQuit(a).quit = TRUE /\ WithQuit(a).cb = a.cb
         /\ \A b \in BOOLEAN : Flags(a, WithLogged(a, b)) /\ WithLogged(a, b).quit = a.quit /\ WithLogged(a, b).cb = a.cb
         /\ \A x \in {"none", "login", "room"} : Flags(a, WithCb(a, x)) /\ WithCb(a, x).quit = a.quit
         /\ \A x \in {"none", "login", "join", "rooms"} :
              Flags(a, WithAsks(a, x)) /\ WithAsks(a, x).quit = a.quit /\ WithAsks(a, x).cb = a.cb
<1>1. Flags(a, WithQuit(a)) /\ WithQuit(a).quit = TRUE /\ WithQuit(a).cb = a.cb
  BY DEF Flags, WithQuit, ChatObject
<1>2. \A b \in BOOLEAN : Flags(a, WithLogged(a, b)) /\ WithLogged(a, b).quit = a.quit /\ WithLogged(a, b).cb = a.cb
  BY DEF Flags, WithLogged, ChatObject
<1>3. \A x \in {"none", "login", "room"} : Flags(a, WithCb(a, x)) /\ WithCb(a, x).quit = a.quit
  BY DEF Flags, WithCb, ChatObject
<1>4. \A x \in {"none", "login", "join", "rooms"} :
              Flags(a, WithAsks(a, x)) /\ WithAsks(a, x).quit = a.quit /\ WithAsks(a, x).cb = a.cb
  BY DEF Flags, WithAsks, ChatObject
<1> QED
  BY <1>1, <1>2, <1>3, <1>4

\* References are flags, too.
LEMMA LazyFields ==
  ASSUME NEW a \in ChatObject
  PROVE  /\ \A b \in BOOLEAN : Flags(a, WithLazy(a, b)) /\ WithLazy(a, b).cb = a.cb /\ WithLazy(a, b).asks = a.asks
         /\ \A n \in Int : Flags(a, Referring(a, n)) /\ Referring(a, n).cb = a.cb /\ Referring(a, n).asks = a.asks
         /\ \A b \in BOOLEAN : WithLogged(a, b).asks = a.asks
<1>1. \A b \in BOOLEAN : Flags(a, WithLazy(a, b)) /\ WithLazy(a, b).cb = a.cb /\ WithLazy(a, b).asks = a.asks
  BY DEF Flags, WithLazy, ChatObject
<1>2. \A n \in Int : Flags(a, Referring(a, n)) /\ Referring(a, n).cb = a.cb /\ Referring(a, n).asks = a.asks
  BY DEF Flags, Referring, ChatObject
<1>3. \A b \in BOOLEAN : WithLogged(a, b).asks = a.asks
  BY DEF WithLogged, ChatObject
<1> QED
  BY <1>1, <1>2, <1>3

LEMMA FlagQuiet ==
  ASSUME NEW w, Good(w), NEW k \in Chat, w.chat[k].st = "live", NEW a, Flags(w.chat[k], a)
  PROVE  LET v == SetChat(w, k, a) IN
         /\ Quiet(w, v) /\ v.ses = w.ses /\ v.chat[k] = a /\ \A j \in Chat : j # k => v.chat[j] = w.chat[j]
BY FlagGood DEF Flags

-----------------------------------------------------------------------------
\* What a chat does: with a line of its user, and with answers of the database.
LEMMA FlagsTwice == ASSUME NEW a, NEW b, NEW c, Flags(a, b), Flags(b, c) PROVE Flags(a, c)
BY DEF Flags

LEMMA ChatIn == ASSUME NEW w, Good(w), NEW k \in Chat PROVE w.chat[k] \in ChatObject
BY DEF Good, Worlds

LEMMA RoomLeaveTalk ==
  ASSUME NEW w, Good(w), NEW k \in Chat, w.chat[k].st = "live"
  PROVE  LET v == RoomLeave(w, k) IN Talk(w, v, k) /\ \A j \in Chat : v.chat[j].quit = w.chat[j].quit
<1> DEFINE v == RoomLeave(w, k)
<1>1. CASE w.chat[k].cb # "room"
  <2>1. v = w
    BY <1>1 DEF RoomLeave
  <2> QED
    BY <2>1, QuietSelf, QuietTalk
<1>2. CASE w.chat[k].cb = "room"
  <2> DEFINE b == Broadcast(w, 0)
             a == WithCb(b.chat[k], "none")
  <2>1. v = SetChat(b, k, a)
    BY <1>2 DEF RoomLeave, RoomBye, SetChat, WithCb
  <2>2. Talk(w, b, k) /\ Sent(w, b)
    BY BroadcastTalk
  <2> HIDE DEF b, v
  <2>3. Good(b) /\ b.chat[k].st = "live"
    BY <2>2 DEF Talk, Kept
  <2>4. Flags(b.chat[k], a) /\ a.quit = b.chat[k].quit
    BY <2>3, ChatIn, FlagFields
  <2> HIDE DEF a
  <2>5. Quiet(b, v) /\ v.chat[k] = a /\ \A j \in Chat : j # k => v.chat[j] = b.chat[j]
    BY <2>1, <2>3, <2>4, FlagQuiet
  <2>6. Talk(w, v, k)
    BY <2>2, <2>5, TalkThenQuiet
  <2>7. \A j \in Chat : v.chat[j].quit = w.chat[j].quit
    BY <2>2, <2>4, <2>5 DEF Sent
  <2> QED
    BY <2>6, <2>7 DEF v
<1> QED
  BY <1>1, <1>2

\* A flag is set, then something is sent.
LEMMA FlagSend ==
  ASSUME NEW w, Good(w), NEW k \in Chat, w.chat[k].st = "live", NEW a, Flags(w.chat[k], a), NEW more \in BOOLEAN
  PROVE  Talk(w, ChatSend(SetChat(w, k, a), k, more), k)
<1> DEFINE u == SetChat(w, k, a)
<1>1. Quiet(w, u)
  BY FlagQuiet
<1> HIDE DEF u
<1>2. Good(u) /\ u.chat[k].st = "live"
  BY <1>1 DEF Quiet, Kept
<1>3. Talk(u, ChatSend(u, k, more), k)
  BY <1>2, SendTalk
<1> QED
  BY <1>1, <1>3, QuietThenTalk DEF u

LEMMA TextTalk ==
  ASSUME NEW w, Good(w), NEW k \in Chat, w.chat[k].st = "live", NEW greets \in BOOLEAN
  PROVE  Talk(w, Text(w, k, greets), k)
<1>1. CASE w.chat[k].cb = "login"
  <2> DEFINE x == IF w.chat[k].quit THEN w.chat[k].asks ELSE "login"
             a == WithAsks(w.chat[k], x)
  <2>1. Text(w, k, greets) = IF greets THEN ChatSend(SetChat(w, k, a), k, FALSE) ELSE SetChat(w, k, a)
    BY <1>1 DEF Text, SetChat, WithAsks
  <2>2. w.chat[k] \in ChatObject
    BY ChatIn
  <2>3. x \in {"none", "login", "join", "rooms"}
    BY <2>2 DEF ChatObject
  <2> HIDE DEF x
  <2>4. Flags(w.chat[k], a)
    BY <2>2, <2>3, FlagFields
  <2> HIDE DEF a
  <2>5. Talk(w, SetChat(w, k, a), k)
    BY <2>4, FlagQuiet, QuietTalk
  <2>6. Talk(w, ChatSend(SetChat(w, k, a), k, FALSE), k)
    BY <2>4, FlagSend
  <2> QED
    BY <2>1, <2>5, <2>6
<1>2. CASE w.chat[k].cb = "room"
  <2>1. Text(w, k, greets) = Broadcast(w, k)
    BY <1>2 DEF Text
  <2> QED
    BY <2>1, BroadcastTalk
<1>3. CASE w.chat[k].cb # "login" /\ w.chat[k].cb # "room"
  <2>1. Text(w, k, greets) = ChatSend(w, k, FALSE)
    BY <1>3 DEF Text
  <2> QED
    BY <2>1, SendTalk
<1> QED
  BY <1>1, <1>2, <1>3

LEMMA QuitTalk ==
  ASSUME NEW w, Good(w), NEW k \in Chat, w.chat[k].st = "live"
  PROVE  Talk(w, Quit(w, k), k)
<1> DEFINE b == RoomLeave(w, k)
           a == WithLogged(WithQuit(b.chat[k]), FALSE)
<1>1. Talk(w, b, k)
  BY RoomLeaveTalk
<1>2. Quit(w, k) = SetChat(b, k, a)
  BY DEF Quit, SetChat, WithLogged, WithQuit
<1> HIDE DEF b
<1>3. Good(b) /\ b.chat[k].st = "live"
  BY <1>1 DEF Talk, Kept
<1>4. Flags(b.chat[k], a)
  <2> DEFINE x == WithQuit(b.chat[k])
  <2>1. Flags(b.chat[k], x)
    BY <1>3, ChatIn, FlagFields
  <2> HIDE DEF x
  <2>2. x \in ChatObject
    BY <2>1 DEF Flags
  <2>3. Flags(x, WithLogged(x, FALSE))
    BY <2>2, FlagFields
  <2> QED
    BY <2>1, <2>3, FlagsTwice DEF x
<1> HIDE DEF a
<1>5. Quiet(b, SetChat(b, k, a))
  BY <1>3, <1>4, FlagQuiet
<1> QED
  BY <1>1, <1>2, <1>5, TalkThenQuiet

LEMMA CommandTalk ==
  ASSUME NEW w, Good(w), NEW k \in Chat, w.chat[k].st = "live", NEW line, NEW to, line = "pm" => to \in Chat
  PROVE  Talk(w, Command(w, k, line, to), k)
<1> DEFINE v == Command(w, k, line, to)
<1>1. CASE line = "reply"
  <2>1. v = ChatSend(w, k, FALSE)
    BY <1>1 DEF Command
  <2> QED
    BY <2>1, SendTalk
<1>2. CASE line = "join"
  <2> DEFINE a == WithAsks(w.chat[k], "join")
  <2>1. v = ChatSend(SetChat(w, k, a), k, TRUE)
    BY <1>2 DEF Command, Join, SetChat, WithAsks
  <2>2. Flags(w.chat[k], a)
    BY ChatIn, FlagFields
  <2> HIDE DEF a, v
  <2>3. Talk(w, v, k)
    BY <2>1, <2>2, FlagSend
  <2> QED
    BY <2>3 DEF v
<1>3. CASE line = "rooms"
  <2> DEFINE a == WithAsks(w.chat[k], "rooms")
  <2>1. v = SetChat(w, k, a)
    BY <1>3 DEF Command, Rooms, SetChat, WithAsks
  <2>2. Flags(w.chat[k], a)
    BY ChatIn, FlagFields
  <2> HIDE DEF a, v
  <2>3. Talk(w, v, k)
    BY <2>1, <2>2, FlagQuiet, QuietTalk
  <2> QED
    BY <2>3 DEF v
<1>4. CASE line = "leave"
  <2>1. v = RoomLeave(w, k)
    BY <1>4 DEF Command, Leave
  <2> QED
    BY <2>1, RoomLeaveTalk
<1>5. CASE line = "pm"
  <2>1. to \in Chat /\ v = IF w.chat[k].cb = "room" /\ w.chat[to].cb = "room" THEN ChatSend(w, to, FALSE) ELSE w
    BY <1>5 DEF Command, Private, ToUser
  <2>2. w.chat[to].cb = "room" => w.chat[to].st = "live"
    BY <2>1 DEF Good, Linked
  <2> HIDE DEF v
  <2>3. Talk(w, v, k)
    BY <2>1, <2>2, SendTalk, QuietSelf, QuietTalk
  <2> QED
    BY <2>3 DEF v
<1>6. CASE line = "quit"
  <2>1. v = Quit(w, k)
    BY <1>6 DEF Command
  <2> QED
    BY <2>1, QuitTalk
<1>7. CASE line \notin {"reply", "join", "rooms", "leave", "pm", "quit"}
  <2>1. v = w
    BY <1>7 DEF Command
  <2> QED
    BY <2>1, QuietSelf, QuietTalk
<1> QED
  BY <1>1, <1>2, <1>3, <1>4, <1>5, <1>6, <1>7

-----------------------------------------------------------------------------
\* Whoever is chained is the session of k, or of a chat that has quit.
Mine(w, k) == \A s \in Slot : w.ses[s].up # None => w.ses[s].chat = k \/ w.chat[w.ses[s].chat].quit

LEMMA MineKept ==
  ASSUME NEW w, Good(w), NEW v, Kept(w, v), NEW k, Mine(w, k)
  PROVE  Mine(v, k)
<1>1. \A s \in Slot : w.ses[s].up # None => w.ses[s].chat \in Chat
  BY LinkedChat DEF Good, Chained
<1> QED
  BY <1>1 DEF Mine, Kept

\* A chat that is closed closes the connection its session is chained to.
LEMMA ChatCloseGood ==
  ASSUME NEW w, Good(w), NEW k \in Chat, w.chat[k].st = "live", Mine(w, k)
  PROVE  LET x == ChatClose(w, k) IN
         /\ Good(x) /\ Kept(w, x) /\ x.chat[k].quit
         /\ \A c \in Conn : Hears(w, c, k) => x.http[c].fd = NoFd
<1> DEFINE q == SetChat(w, k, WithQuit(w.chat[k]))
           b == RoomLeave(q, k)
           a == WithLogged(b.chat[k], FALSE)
           v == SetChat(b, k, a)
           s == v.chat[k].up
           x == ChatClose(w, k)
<1>1. x = IF v.ses[s].st = "free" THEN v ELSE SessionClose(v, {s})
  BY DEF ChatClose, SetChat, WithQuit, WithLogged
<1>2. Quiet(w, q) /\ q.chat[k].quit
  <2> DEFINE y == WithQuit(w.chat[k])
  <2>1. Flags(w.chat[k], y) /\ y.quit
    BY ChatIn, FlagFields
  <2> HIDE DEF y
  <2>2. Quiet(w, SetChat(w, k, y)) /\ SetChat(w, k, y).chat[k] = y
    BY <2>1, FlagQuiet
  <2> QED
    BY <2>1, <2>2 DEF y
<1> HIDE DEF q, x
<1>3. Good(q) /\ Kept(w, q) /\ q.chat[k].st = "live"
  BY <1>2 DEF Quiet, Kept
<1>4. Talk(q, b, k) /\ b.chat[k].quit
  BY <1>2, <1>3, RoomLeaveTalk
<1> HIDE DEF b
<1>5. Good(b) /\ Kept(q, b) /\ b.chat[k].st = "live"
  BY <1>3, <1>4 DEF Talk, Kept
<1>6. Flags(b.chat[k], a)
  BY <1>5, ChatIn, FlagFields
<1> HIDE DEF a
<1>7. Quiet(b, v)
  BY <1>5, <1>6, FlagQuiet
<1> HIDE DEF v
<1>8. Good(v) /\ Kept(b, v)
  BY <1>7 DEF Quiet
<1>9. Kept(w, v)
  BY <1>3, <1>5, <1>8, KeptTwice
<1>10. v.chat[k].quit /\ v.chat[k].st = "live" /\ s \in Slot
  <2>1. v.chat[k].quit /\ v.chat[k].st = "live"
    BY <1>4, <1>5, <1>8 DEF Kept
  <2> QED
    BY <1>8, <2>1 DEF Good, Linked
<1>11. AllQuit(v)
  BY <1>9, <1>10, MineKept DEF Mine, AllQuit
<1>12. \A c \in Conn : Hears(w, c, k) => v.ses[s].up = c /\ c # None
  <2>1. \A c \in Conn : c # None
    BY WebAssumption
  <2> QED
    BY <1>9, <2>1, HearsSent DEF Hears
<1> HIDE DEF s
<1>13. CASE v.ses[s].st = "free"
  <2>1. v.ses[s].up = None
    BY <1>8, <1>10, <1>13 DEF Good, Chained
  <2> QED
    BY <1>1, <1>8, <1>9, <1>10, <1>12, <1>13, <2>1 DEF x
<1>14. CASE v.ses[s].st # "free"
  <2>1. x = SessionClose(v, {s})
    BY <1>1, <1>14
  <2>2. {s} \in SUBSET Slot
    BY <1>10
  <2>3. Good(x) /\ Kept(v, x) /\ x.http = HttpClosed(v, Above(v, {s}))
    BY <1>8, <1>11, <2>1, <2>2, SessionCloseGood
  <2>4. Kept(w, x) /\ x.chat[k].quit
    <3>1. Kept(w, x)
      BY <1>9, <2>3, KeptTwice
    <3> QED
      BY <1>10, <2>3, <3>1 DEF Kept
  <2>5. ASSUME NEW c \in Conn, Hears(w, c, k)
        PROVE  x.http[c].fd = NoFd
    <3>1. c \in Above(v, {s})
      BY <1>12, <2>5 DEF Above, Alone
    <3>2. v \in Worlds /\ Above(v, {s}) \in SUBSET Conn
      BY <1>8, <2>2, SessionCloseIs DEF Good
    <3> DEFINE C == Above(v, {s})
               h == HttpClosed(v, C)[c]
    <3>3. h.fd = IF c \in C THEN NoFd ELSE v.http[c].fd
      <4>1. v \in Worlds /\ C \in SUBSET Conn
        BY <3>2
      <4> HIDE DEF C
      <4> QED
        BY <4>1, HttpClosedKeeps
    <3> QED
      BY <2>3, <3>1, <3>3
  <2> QED
    BY <2>3, <2>4, <2>5 DEF x
<1> QED
  BY <1>13, <1>14

\* What the request of connection c is told by a chat: it is closed, or answered once at most.
Replied(w, v, c) ==
  v.http[c].fd = NoFd \/ (v.desc = w.desc /\ v.http[c].fd = w.http[c].fd /\ MayAnswer(w, v, c))

LEMMA ChatRecvGood ==
  ASSUME NEW w, Good(w), NEW k \in Chat, w.chat[k].st = "live", Mine(w, k),
         NEW in, in.line = "pm" => in.to \in Chat, in.greets \in BOOLEAN
  PROVE  LET x == ChatRecv(w, k, in) IN
         /\ Good(x) /\ Kept(w, x)
         /\ \A c \in Conn : Hears(w, c, k) /\ OnlyTalker(w, c, k) => Replied(w, x, c)
<1> DEFINE x == ChatRecv(w, k, in)
           v == IF w.chat[k].logged /\ in.line # "text" THEN Command(w, k, in.line, in.to) ELSE Text(w, k, in.greets)
<1>1. CASE in.line = "empty"
  <2>1. x = w
    BY <1>1 DEF ChatRecv
  <2> QED
    BY <2>1, KeptSelf DEF Replied, MayAnswer
<1>2. CASE in.line = "cut"
  <2>1. x = ChatClose(w, k)
    BY <1>2 DEF ChatRecv
  <2> HIDE DEF x
  <2>2. /\ Good(x) /\ Kept(w, x)
        /\ \A c \in Conn : Hears(w, c, k) => x.http[c].fd = NoFd
    BY <2>1, ChatCloseGood
  <2> QED
    BY <2>2 DEF Replied, x
<1>3. CASE in.line # "empty" /\ in.line # "cut"
  <2>1. x = IF v.chat[k].quit THEN ChatClose(v, k) ELSE v
    BY <1>3 DEF ChatRecv
  <2>2. Talk(w, v, k)
    BY CommandTalk, TextTalk
  <2> HIDE DEF v, x
  <2>3. Good(v) /\ Kept(w, v) /\ v.chat[k].st = "live"
    BY <2>2 DEF Talk, Kept
  <2>4. CASE ~v.chat[k].quit
    <3>1. x = v
      BY <2>1, <2>4
    <3> QED
      BY <2>2, <2>3, <3>1 DEF Talk, Replied, x
  <2>5. CASE v.chat[k].quit
    <3>1. x = ChatClose(v, k)
      BY <2>1, <2>5
    <3>2. Mine(v, k)
      BY <2>3, MineKept
    <3>3. /\ Good(x) /\ Kept(v, x)
          /\ \A c \in Conn : Hears(v, c, k) => x.http[c].fd = NoFd
      BY <2>3, <3>1, <3>2, ChatCloseGood
    <3>4. Kept(w, x)
      BY <2>3, <3>3, KeptTwice
    <3>5. \A c \in Conn : Hears(w, c, k) => Hears(v, c, k)
      BY <2>3, HearsSent
    <3> QED
      BY <3>3, <3>4, <3>5 DEF Replied, x
  <2> QED
    BY <2>4, <2>5
<1> QED
  BY <1>1, <1>2, <1>3

-----------------------------------------------------------------------------
\* Between two requests nothing is chained.
Loose(w) == (\A c \in Conn : w.http[c].down = None) /\ (\A s \in Slot : w.ses[s].up = None)

WithUp(e, c) == [e EXCEPT !.up = c]
WithRefs(e, n) == [e EXCEPT !.refs = n]
WithDown(h, s) == [h EXCEPT !.down = s]

LEMMA UpField ==
  ASSUME NEW e \in Session, NEW c \in Conn \cup {None}, NEW n \in Int
  PROVE  LET f == WithRefs(WithUp(e, c), n) IN
         f \in Session /\ f.st = e.st /\ f.chat = e.chat /\ f.fd = e.fd /\ f.msg = e.msg /\ f.up = c /\ f.refs = n
BY DEF Session, WithUp, WithRefs

LEMMA RefsField ==
  ASSUME NEW e \in Session, NEW n \in Int
  PROVE  LET f == WithRefs(e, n) IN
         f \in Session /\ f.st = e.st /\ f.chat = e.chat /\ f.fd = e.fd /\ f.msg = e.msg /\ f.up = e.up /\ f.refs = n
BY DEF Session, WithRefs

LEMMA DownField ==
  ASSUME NEW h \in Http, NEW s \in Slot \cup {None}
  PROVE  LET g == WithDown(h, s) IN
         /\ g \in Http /\ g.st = h.st /\ g.fd = h.fd /\ g.is_processed = h.is_processed /\ g.answers = h.answers
         /\ g.down = s
BY DEF Http, WithDown

\* Only who is chained to whom, references and what is known of requests changed.
LEMMA ShapeGood ==
  ASSUME NEW w, Good(w), NEW v \in Worlds, Chained(v), v.desc = w.desc, v.reg = w.reg, v.created = w.created, v.chat = w.chat,
         \A c \in Conn : v.http[c].st = w.http[c].st /\ v.http[c].fd = w.http[c].fd,
         \A s \in Slot : v.ses[s].st = w.ses[s].st /\ v.ses[s].chat = w.ses[s].chat /\ v.ses[s].msg = w.ses[s].msg
  PROVE  Good(v)
<1>1. Owned(v)
  <2>1. w.reg \in [Number -> Conn \cup {None}]
    BY DEF Good, Worlds
  <2> QED
    BY <2>1 DEF Good, Owned
<1>2. Linked(v) /\ Waits(v)
  BY LinkedChat DEF Good, Linked, Waits
<1> QED
  BY <1>1, <1>2 DEF Good

\* A connection and a session, chained with a reference, or not any more.
Joined(w, v, c, s, up, down, n) ==
  /\ v \in Worlds /\ v.desc = w.desc /\ v.reg = w.reg /\ v.chat = w.chat /\ v.created = w.created
  /\ v.http[c].st = w.http[c].st /\ v.http[c].fd = w.http[c].fd /\ v.http[c].is_processed = w.http[c].is_processed
  /\ v.http[c].answers = w.http[c].answers /\ v.http[c].down = down
  /\ \A d \in Conn : d # c => v.http[d] = w.http[d]
  /\ v.ses[s].st = w.ses[s].st /\ v.ses[s].chat = w.ses[s].chat /\ v.ses[s].msg = w.ses[s].msg
  /\ v.ses[s].up = up /\ v.ses[s].refs = n
  /\ \A t \in Slot : t # s => v.ses[t] = w.ses[t]

LEMMA JoinedIs ==
  ASSUME NEW w \in Worlds, NEW c \in Conn, NEW s \in Slot, NEW up \in Conn \cup {None}, NEW down \in Slot \cup {None},
         NEW n \in Int
  PROVE  LET v == [w EXCEPT !.ses[s].up = up, !.http[c].down = down, !.ses[s].refs = n]
         IN  Joined(w, v, c, s, up, down, n)
<1> DEFINE e == WithRefs(WithUp(w.ses[s], up), n)
           h == WithDown(w.http[c], down)
           u == SetSes(w, s, e)
           v == SetHttp(u, c, h)
<1>1. v = [w EXCEPT !.ses[s].up = up, !.http[c].down = down, !.ses[s].refs = n]
  BY DEF Worlds, SetHttp, SetSes, WithUp, WithRefs, WithDown
<1>2. w.ses[s] \in Session /\ w.http[c] \in Http
  BY DEF Worlds
<1>3. e \in Session /\ e.st = w.ses[s].st /\ e.chat = w.ses[s].chat /\ e.msg = w.ses[s].msg /\ e.up = up /\ e.refs = n
  BY <1>2, UpField
<1>4. /\ h \in Http /\ h.st = w.http[c].st /\ h.fd = w.http[c].fd /\ h.is_processed = w.http[c].is_processed
      /\ h.answers = w.http[c].answers /\ h.down = down
  BY <1>2, DownField
<1> HIDE DEF e, h
<1>5. /\ u \in Worlds /\ u.desc = w.desc /\ u.reg = w.reg /\ u.http = w.http /\ u.chat = w.chat /\ u.created = w.created
      /\ u.ses[s] = e /\ \A t \in Slot : t # s => u.ses[t] = w.ses[t]
  BY <1>3, SetSesIs
<1> HIDE DEF u
<1>6. /\ v \in Worlds /\ v.desc = u.desc /\ v.reg = u.reg /\ v.ses = u.ses /\ v.chat = u.chat /\ v.created = u.created
      /\ v.http[c] = h /\ \A d \in Conn : d # c => v.http[d] = u.http[d]
  BY <1>4, <1>5, SetHttpIs
<1> HIDE DEF v
<1>7. Joined(w, v, c, s, up, down, n)
  BY <1>3, <1>4, <1>5, <1>6 DEF Joined
<1> QED
  BY <1>1, <1>7

LEMMA ChainIs ==
  ASSUME NEW w \in Worlds, Loose(w), NEW c \in Conn, NEW s \in Slot
  PROVE  Joined(w, Chain(w, c, s), c, s, c, s, w.ses[s].refs + 1)
<1> DEFINE n == w.ses[s].refs + 1
<1>1. n \in Int
  BY DEF Worlds, Session
<1>2. Chain(w, c, s) = [w EXCEPT !.ses[s].up = c, !.http[c].down = s, !.ses[s].refs = @ + 1]
  BY DEF Chain, Loose
<1>3. [w EXCEPT !.ses[s].up = c, !.http[c].down = s, !.ses[s].refs = @ + 1]
      = [w EXCEPT !.ses[s].up = c, !.http[c].down = s, !.ses[s].refs = n]
  BY DEF Worlds, Session
<1> HIDE DEF n
<1>4. Joined(w, [w EXCEPT !.ses[s].up = c, !.http[c].down = s, !.ses[s].refs = n], c, s, c, s, n)
  BY <1>1, JoinedIs
<1> QED
  BY <1>2, <1>3, <1>4 DEF n

LEMMA UnchainIs ==
  ASSUME NEW w \in Worlds, NEW c \in Conn, NEW s \in Slot, w.http[c].down = s
  PROVE  Joined(w, Unchain(w, c, s), c, s, None, None, w.ses[s].refs - 1)
<1> DEFINE n == w.ses[s].refs - 1
<1>1. n \in Int
  BY DEF Worlds, Session
<1>2. Unchain(w, c, s) = [w EXCEPT !.ses[s].up = None, !.http[c].down = None, !.ses[s].refs = @ - 1]
  BY DEF Unchain
<1>3. [w EXCEPT !.ses[s].up = None, !.http[c].down = None, !.ses[s].refs = @ - 1]
      = [w EXCEPT !.ses[s].up = None, !.http[c].down = None, !.ses[s].refs = n]
  BY DEF Worlds, Session
<1> HIDE DEF n
<1>4. Joined(w, [w EXCEPT !.ses[s].up = None, !.http[c].down = None, !.ses[s].refs = n], c, s, None, None, n)
  BY <1>1, JoinedIs
<1> QED
  BY <1>2, <1>3, <1>4 DEF n

-----------------------------------------------------------------------------
\* Two sessions had the same memory, as UsedAgain, of a world.
Shared(w) == \E j, k \in 1 .. w.created : j # k /\ w.chat[j].up = w.chat[k].up

\* The world while a request of connection c is handled by session s.
LEMMA ChainGood ==
  ASSUME NEW w, Good(w), Loose(w), NEW c \in Conn, NEW s \in Slot, w.ses[s].st = "live", Open(w, c)
  PROVE  LET u == Chain(w, c, s)
             k == w.ses[s].chat
         IN  /\ Good(u) /\ Mine(u, k) /\ k \in Chat /\ u.chat[k].st = "live" /\ Hears(u, c, k)
             /\ u.ses[s].up = c /\ \A t \in Slot : t # s => u.ses[t].up = None
             /\ u.desc = w.desc
             /\ ~Shared(w) => OnlyTalker(u, c, k)
<1> DEFINE u == Chain(w, c, s)
           n == w.ses[s].refs + 1
<1>1. w \in Worlds
  BY DEF Good
<1>2. Joined(w, u, c, s, c, s, n)
  BY <1>1, ChainIs
<1>3. PICK k \in Chat : w.ses[s].chat = k /\ w.chat[k].up = s /\ w.chat[k].st = "live"
  BY LinkedChat
<1> HIDE DEF u, n
<1>4. /\ u \in Worlds /\ u.desc = w.desc /\ u.reg = w.reg /\ u.chat = w.chat /\ u.created = w.created
      /\ \A d \in Conn : u.http[d].st = w.http[d].st /\ u.http[d].fd = w.http[d].fd
      /\ \A t \in Slot : u.ses[t].st = w.ses[t].st /\ u.ses[t].chat = w.ses[t].chat /\ u.ses[t].msg = w.ses[t].msg
      /\ u.ses[s].up = c
  BY <1>2 DEF Joined
<1>5. \A t \in Slot : t # s => u.ses[t].up = None
  BY <1>2 DEF Joined, Loose
<1>6. c # None
  BY WebAssumption
<1>7. Chained(u)
  BY <1>4, <1>5 DEF Chained, Open
<1>8. Good(u)
  BY <1>4, <1>7, ShapeGood
<1>9. Mine(u, k)
  BY <1>3, <1>4, <1>5 DEF Mine
<1>10. u.chat[k].st = "live" /\ Hears(u, c, k)
  BY <1>3, <1>4 DEF Hears
<1>11. ASSUME ~Shared(w), NEW j \in Chat, Hears(u, c, j)
       PROVE  j = k
  <2>1. w.chat[j].st = "live" /\ w.chat[j].up \in Slot
    BY <1>4, <1>11 DEF Hears, Good, Linked
  <2>2. w.chat[j].up = s
    BY <1>4, <1>5, <1>6, <1>11, <2>1 DEF Hears
  <2>3. j <= w.created /\ k <= w.created
    BY <1>3, <2>1 DEF Good, Linked
  <2>4. w.created \in Int
    BY <1>1, WebAssumption DEF Worlds, Chat
  <2>5. j \in 1 .. w.created /\ k \in 1 .. w.created
    BY <2>3, <2>4 DEF Chat
  <2> QED
    BY <1>3, <1>11, <2>2, <2>5 DEF Shared
<1>12. ~Shared(w) => OnlyTalker(u, c, k)
  BY <1>11 DEF OnlyTalker
<1> QED
  BY <1>3, <1>4, <1>5, <1>8, <1>9, <1>10, <1>12 DEF u

\* The world after it, x, by what it was before, w, and when the handler was done, v.
Through(w, v, x, c) ==
  /\ Good(x) /\ Loose(x) /\ x.desc = v.desc
  /\ \A n \in Number : x.reg[n] \in {w.reg[n], None}
  /\ \A d \in Conn : d # c => x.http[d] = w.http[d]
  /\ x.http[c].st = w.http[c].st /\ x.http[c].fd = v.http[c].fd /\ v.http[c].fd \in {w.http[c].fd, NoFd}
  /\ x.http[c].answers = v.http[c].answers
  /\ x.created = w.created /\ \A k \in Chat : x.chat[k].up = w.chat[k].up
  /\ \A t \in Slot : x.ses[t].st = w.ses[t].st /\ x.ses[t].refs = w.ses[t].refs

LEMMA RequestThrough ==
  ASSUME NEW w, Good(w), Loose(w), NEW c \in Conn, NEW s \in Slot, w.ses[s].st = "live", Open(w, c),
         NEW v, Good(v), Kept(Chain(w, c, s), v)
  PROVE  Through(w, v, Unchain(v, c, s), c)
<1> DEFINE u == Chain(w, c, s)
           x == Unchain(v, c, s)
<1>1. w \in Worlds /\ v \in Worlds /\ w.ses[s].refs \in Int
  BY DEF Good, Worlds, Session
<1>2. Joined(w, u, c, s, c, s, w.ses[s].refs + 1)
  BY <1>1, ChainIs
<1>3. Kept(u, v)
  OBVIOUS
<1>4. \A t \in Slot : t # s => u.ses[t].up = None
  BY <1>2 DEF Joined, Loose
<1>5. \A d \in Conn : d # None
  BY WebAssumption
<1> HIDE DEF u, x
<1>6. v.http[c].down = s /\ v.ses[s].refs = w.ses[s].refs + 1
  BY <1>2, <1>3 DEF Joined, Kept
<1>7. Joined(v, x, c, s, None, None, v.ses[s].refs - 1)
  BY <1>1, <1>6, UnchainIs DEF x
<1>8. \A d \in Conn : d # c => v.http[d] = w.http[d]
  <2>1. \A d \in Conn : d # c => \A t \in Slot : u.ses[t].up # d
    BY <1>2, <1>4, <1>5 DEF Joined
  <2> QED
    BY <1>2, <1>3, <2>1 DEF Joined, Kept
<1>9. \A t \in Slot : t # s => v.ses[t].up = None
  BY <1>3, <1>4 DEF Kept
<1>10. Loose(x)
  BY <1>7, <1>8, <1>9 DEF Joined, Loose
<1>11. Good(x)
  <2>1. Chained(x)
    BY <1>10 DEF Chained, Loose
  <2>2. /\ x \in Worlds /\ x.desc = v.desc /\ x.reg = v.reg /\ x.chat = v.chat /\ x.created = v.created
        /\ \A d \in Conn : x.http[d].st = v.http[d].st /\ x.http[d].fd = v.http[d].fd
        /\ \A t \in Slot : x.ses[t].st = v.ses[t].st /\ x.ses[t].chat = v.ses[t].chat /\ x.ses[t].msg = v.ses[t].msg
    BY <1>7 DEF Joined
  <2> QED
    BY <2>1, <2>2, ShapeGood
<1>12. \A n \in Number : x.reg[n] \in {w.reg[n], None}
  BY <1>2, <1>3, <1>7 DEF Joined, Kept
<1>13. \A d \in Conn : d # c => x.http[d] = w.http[d]
  BY <1>7, <1>8 DEF Joined
<1>14. /\ x.http[c].st = w.http[c].st /\ x.http[c].fd = v.http[c].fd /\ v.http[c].fd \in {w.http[c].fd, NoFd}
       /\ x.http[c].answers = v.http[c].answers
  BY <1>2, <1>3, <1>7 DEF Joined, Kept
<1>15. x.created = w.created /\ \A k \in Chat : x.chat[k].up = w.chat[k].up
  BY <1>2, <1>3, <1>7 DEF Joined, Kept
<1>16. \A t \in Slot : x.ses[t].st = w.ses[t].st /\ (t # s => x.ses[t].refs = w.ses[t].refs)
  BY <1>2, <1>3, <1>7 DEF Joined, Kept
<1>17. x.ses[s].refs = w.ses[s].refs
  BY <1>1, <1>6, <1>7 DEF Joined
<1>18. x.desc = v.desc
  BY <1>7 DEF Joined
<1> QED
  BY <1>10, <1>11, <1>12, <1>13, <1>14, <1>15, <1>16, <1>17, <1>18 DEF Through, x

\* What a request makes of the world; w is the world with the request asked, and not answered.
Served(w, v, c) ==
  /\ Good(v) /\ Loose(v)
  /\ \A n \in Number : v.reg[n] \in {w.reg[n], None}
  /\ \A d \in Conn : d # c => v.http[d] = w.http[d]
  /\ v.http[c].st = w.http[c].st /\ v.http[c].fd \in {w.http[c].fd, NoFd}
  /\ w.created <= v.created /\ \A k \in Chat : k <= w.created => v.chat[k].up = w.chat[k].up
  /\ \A s \in Slot : v.ses[s].st = "live" =>
       IF w.ses[s].st = "live" THEN v.ses[s].refs \in {w.ses[s].refs, w.ses[s].refs + 1} ELSE v.ses[s].refs = 2
  /\ ~Shared(v) /\ Open(v, c) => v.http[c].answers = 1

Asked(w, c) == Open(w, c) /\ w.http[c].is_processed = FALSE /\ w.http[c].answers = 0

\* The session answers if the chat did not.
LEMMA ReplyOnce ==
  ASSUME NEW u, Good(u), NEW c \in Conn, NEW s \in Slot, u.ses[s].up = c, Asked(u, c),
         NEW v, Good(v), Kept(u, v)
  PROVE  LET x == IF v.http[c].is_processed THEN v ELSE Flush(v, s) IN
         /\ Good(x) /\ Kept(u, x)
         /\ Replied(u, v, c) /\ Open(x, c) => x.http[c].answers = 1
<1> DEFINE x == IF v.http[c].is_processed THEN v ELSE Flush(v, s)
<1>1. v.ses[s].up = c /\ c # None
  BY WebAssumption DEF Kept
<1>2. CASE v.http[c].is_processed
  <2>1. x = v
    BY <1>2
  <2>2. Replied(u, v, c) /\ Open(v, c) => v.http[c].answers = 1
    BY <1>2 DEF Replied, MayAnswer, AnswerOnce, Asked, Open
  <2> HIDE DEF x
  <2> QED
    BY <2>1, <2>2 DEF x
<1>3. CASE ~v.http[c].is_processed
  <2>1. x = Flush(v, s)
    BY <1>3
  <2> HIDE DEF x
  <2>2. Good(x) /\ Sent(v, x) /\ AnswerOnce(v, x, c)
    BY <1>1, <2>1, FlushGood
  <2>3. Kept(u, x)
    BY <2>2, KeptTwice DEF Sent
  <2>4. ASSUME Replied(u, v, c), Open(x, c)
        PROVE  x.http[c].answers = 1
    <3>1. Open(v, c)
      BY <2>2, <2>4 DEF Sent, Open
    <3>2. v.http[c] = u.http[c]
      BY <1>3, <2>4, <3>1 DEF Replied, MayAnswer, AnswerOnce, Open
    <3> QED
      BY <2>2, <3>1, <3>2 DEF AnswerOnce, Asked
  <2> QED
    BY <2>2, <2>3, <2>4 DEF x
<1> QED
  BY <1>2, <1>3

LEMMA SharedSame ==
  ASSUME NEW w, NEW v, v.created = w.created, w.created \in Chat \cup {0}, \A k \in Chat : v.chat[k].up = w.chat[k].up
  PROVE  Shared(v) <=> Shared(w)
<1>1. \A k \in 1 .. w.created : k \in Chat
  BY WebAssumption DEF Chat
<1> QED
  BY <1>1 DEF Shared

LEMMA ResumeServed ==
  ASSUME NEW w, Good(w), Loose(w), NEW c \in Conn, NEW s \in Slot, w.ses[s].st = "live", Asked(w, c),
         NEW in, in.line = "pm" => in.to \in Chat, in.greets \in BOOLEAN
  PROVE  Served(w, Resume(w, c, s, in), c)
<1> DEFINE e == WithRefs(w.ses[s], w.ses[s].refs + 1)
           r == SetSes(w, s, e)
           u == Chain(r, c, s)
           k == w.ses[s].chat
           v == ChatRecv(u, k, in)
           y == IF v.http[c].is_processed THEN v ELSE Flush(v, s)
           x == Unchain(y, c, s)
<1>1. Resume(w, c, s, in) = x
  BY DEF Resume, SetSes, WithRefs
<1>2. w \in Worlds /\ w.ses[s] \in Session /\ w.ses[s].refs + 1 \in Int /\ w.created \in Chat \cup {0}
  BY DEF Good, Worlds, Session
<1>3. /\ e \in Session /\ e.st = w.ses[s].st /\ e.chat = w.ses[s].chat /\ e.msg = w.ses[s].msg /\ e.up = w.ses[s].up
      /\ e.refs = w.ses[s].refs + 1
  BY <1>2, RefsField
<1> HIDE DEF e, x
<1>4. /\ r \in Worlds /\ r.desc = w.desc /\ r.reg = w.reg /\ r.http = w.http /\ r.chat = w.chat /\ r.created = w.created
      /\ r.ses[s] = e /\ \A t \in Slot : t # s => r.ses[t] = w.ses[t]
  BY <1>2, <1>3, SetSesIs
<1> HIDE DEF r
<1>5. Loose(r)
  BY <1>3, <1>4 DEF Loose
<1>6. Good(r)
  <2>1. Chained(r)
    BY <1>5 DEF Chained, Loose
  <2>2. \A t \in Slot : r.ses[t].st = w.ses[t].st /\ r.ses[t].chat = w.ses[t].chat /\ r.ses[t].msg = w.ses[t].msg
    BY <1>3, <1>4
  <2> QED
    BY <1>4, <2>1, <2>2, ShapeGood
<1>7. Asked(r, c) /\ Open(r, c) /\ r.ses[s].st = "live" /\ r.ses[s].chat = k
  BY <1>3, <1>4 DEF Asked, Open
<1> HIDE DEF k
<1>8. /\ Good(u) /\ Mine(u, k) /\ k \in Chat /\ u.chat[k].st = "live" /\ Hears(u, c, k)
      /\ u.ses[s].up = c /\ u.desc = r.desc
      /\ ~Shared(r) => OnlyTalker(u, c, k)
  BY <1>5, <1>6, <1>7, ChainGood
<1>9. Asked(u, c)
  <2>1. Joined(r, u, c, s, c, s, r.ses[s].refs + 1)
    BY <1>4, <1>5, ChainIs
  <2> HIDE DEF u
  <2> QED
    BY <1>7, <2>1 DEF Joined, Asked, Open
<1> HIDE DEF u
<1>10. /\ Good(v) /\ Kept(u, v)
       /\ ~Shared(r) => Replied(u, v, c)
  BY <1>8, ChatRecvGood
<1> HIDE DEF v
<1>11. /\ Good(y) /\ Kept(u, y)
       /\ Replied(u, v, c) /\ Open(y, c) => y.http[c].answers = 1
  BY <1>8, <1>9, <1>10, ReplyOnce
<1> HIDE DEF y
<1>12. Through(r, y, x, c)
  BY <1>5, <1>6, <1>7, <1>11, RequestThrough DEF u, x
<1>13. Shared(x) <=> Shared(r)
  BY <1>2, <1>4, <1>12, SharedSame DEF Through
<1>14. ~Shared(x) /\ Open(x, c) => x.http[c].answers = 1
  BY <1>10, <1>11, <1>12, <1>13 DEF Through, Open
<1>15. \A t \in Slot : x.ses[t].st = "live" =>
         IF w.ses[t].st = "live" THEN x.ses[t].refs \in {w.ses[t].refs, w.ses[t].refs + 1} ELSE x.ses[t].refs = 2
  <2>1. \A t \in Slot : x.ses[t].st = r.ses[t].st /\ x.ses[t].refs = r.ses[t].refs
    BY <1>12 DEF Through
  <2> QED
    BY <1>3, <1>4, <2>1
<1>16. w.created <= x.created /\ \A j \in Chat : j <= w.created => x.chat[j].up = w.chat[j].up
  <2>1. w.created \in Int
    BY <1>2, WebAssumption DEF Chat
  <2> QED
    BY <1>4, <1>12, <2>1 DEF Through
<1>17. /\ Good(x) /\ Loose(x) /\ \A n \in Number : x.reg[n] \in {w.reg[n], None}
       /\ \A d \in Conn : d # c => x.http[d] = w.http[d]
       /\ x.http[c].st = w.http[c].st /\ x.http[c].fd \in {w.http[c].fd, NoFd}
  BY <1>4, <1>12 DEF Through
<1> QED
  BY <1>1, <1>14, <1>15, <1>16, <1>17 DEF Served

-----------------------------------------------------------------------------
\* A session that was allocated, and its chat.
NewSession(k, n) == [NoSession EXCEPT !.st = "live", !.chat = k, !.fd = n, !.refs = 2]
NewChat(s, n) == [NoChat EXCEPT !.st = "live", !.up = s, !.fd = n, !.refs = 2]

LEMMA NewSessionIs ==
  ASSUME NEW k \in Chat, NEW n \in Number \cup {NoFd}
  PROVE  LET e == NewSession(k, n) IN
         e \in Session /\ e.st = "live" /\ e.chat = k /\ e.refs = 2 /\ e.msg = <<>> /\ e.up = None
<1> DEFINE a == [NoSession EXCEPT !.st = "live", !.chat = k]
           b == [a EXCEPT !.fd = n]
           e == WithRefs(b, 2)
<1>1. NoSession \in Session /\ NoSession.msg = <<>> /\ NoSession.up = None
  <2>1. <<>> \in Seq(Chat)
    OBVIOUS
  <2> QED
    BY <2>1 DEF NoSession, Session
<1>2. NewSession(k, n) = e
  BY DEF NewSession, WithRefs
<1>3. a \in Session /\ a.st = "live" /\ a.chat = k /\ a.msg = <<>> /\ a.up = None
  <2>1. ASSUME NEW x \in Session
        PROVE  LET f == [x EXCEPT !.st = "live", !.chat = k] IN
               f \in Session /\ f.st = "live" /\ f.chat = k /\ f.msg = x.msg /\ f.up = x.up
    BY DEF Session
  <2> QED
    BY <1>1, <2>1
<1> HIDE DEF a
<1>4. b \in Session /\ b.st = "live" /\ b.chat = k /\ b.msg = <<>> /\ b.up = None
  BY <1>3 DEF Session
<1> HIDE DEF b, e
<1>5. e \in Session /\ e.st = b.st /\ e.chat = b.chat /\ e.msg = b.msg /\ e.up = b.up /\ e.refs = 2
  BY <1>4, RefsField DEF e
<1> QED
  BY <1>2, <1>4, <1>5

LEMMA NewChatIs ==
  ASSUME NEW s \in Slot, NEW n \in Number \cup {NoFd}
  PROVE  LET a == NewChat(s, n) IN
         a \in ChatObject /\ a.st = "live" /\ a.up = s /\ a.quit = FALSE /\ a.due = 0 /\ a.cb = "none"
<1>1. NoChat \in ChatObject /\ NoChat.quit = FALSE /\ NoChat.due = 0 /\ NoChat.cb = "none"
  BY DEF NoChat, ChatObject
<1>2. ASSUME NEW a \in ChatObject
      PROVE  LET b == [a EXCEPT !.st = "live", !.up = s, !.fd = n] IN
             b \in ChatObject /\ b.st = "live" /\ b.up = s /\ b.quit = a.quit /\ b.due = a.due /\ b.cb = a.cb
  BY DEF ChatObject
<1>3. ASSUME NEW a \in ChatObject
      PROVE  LET b == [a EXCEPT !.refs = 2] IN
             b \in ChatObject /\ b.st = a.st /\ b.up = a.up /\ b.quit = a.quit /\ b.due = a.due /\ b.cb = a.cb
  BY DEF ChatObject
<1> DEFINE a == [NoChat EXCEPT !.st = "live", !.up = s, !.fd = n]
<1>4. a \in ChatObject /\ a.st = "live" /\ a.up = s /\ a.quit = FALSE /\ a.due = 0 /\ a.cb = "none"
  BY <1>1, <1>2
<1>5. NewChat(s, n) = [a EXCEPT !.refs = 2]
  BY DEF NewChat
<1> HIDE DEF a
<1> QED
  BY <1>3, <1>4, <1>5

LEMMA AllocGood ==
  ASSUME NEW w, Good(w), Loose(w), NEW s \in Slot, w.ses[s].st = "free", w.created # MaxSessions,
         NEW n \in Number \cup {NoFd}
  PROVE  LET r == SessionAlloc(w, s, n)
             k == w.created + 1
         IN  /\ Good(r) /\ Loose(r) /\ k \in Chat
             /\ r.desc = w.desc /\ r.reg = w.reg /\ r.http = w.http /\ r.created = k
             /\ r.ses[s].st = "live" /\ r.ses[s].refs = 2 /\ r.ses[s].chat = k /\ ~r.chat[k].quit
             /\ \A t \in Slot : t # s => r.ses[t] = w.ses[t]
             /\ \A j \in Chat : j # k => r.chat[j] = w.chat[j]
<1> DEFINE k == w.created + 1
           e == NewSession(k, n)
           a == NewChat(s, n)
           x == [w EXCEPT !.created = k]
           y == SetSes(x, s, e)
           r == SetChat(y, k, a)
<1>1. SessionAlloc(w, s, n) = r
  BY DEF SessionAlloc, SetSes, SetChat, NewSession, NewChat, Good, Worlds
<1>2. w \in Worlds
  BY DEF Good
<1>3. k \in Chat /\ w.created \in Int
  <2>1. w.created \in Chat \cup {0}
    BY <1>2 DEF Worlds
  <2> QED
    BY <2>1, WebAssumption DEF Chat
<1>4. /\ e \in Session /\ e.st = "live" /\ e.chat = k /\ e.refs = 2 /\ e.msg = <<>> /\ e.up = None
      /\ a \in ChatObject /\ a.st = "live" /\ a.up = s /\ a.quit = FALSE /\ a.due = 0 /\ a.cb = "none"
  <2> HIDE DEF k
  <2> QED
    BY <1>3, NewSessionIs, NewChatIs
<1>5. /\ x \in Worlds /\ x.desc = w.desc /\ x.reg = w.reg /\ x.http = w.http /\ x.ses = w.ses /\ x.chat = w.chat
      /\ x.created = k
  BY <1>2, <1>3 DEF Worlds
<1> HIDE DEF x, e, a
<1>6. /\ y \in Worlds /\ y.desc = x.desc /\ y.reg = x.reg /\ y.http = x.http /\ y.chat = x.chat /\ y.created = x.created
      /\ y.ses[s] = e /\ \A t \in Slot : t # s => y.ses[t] = x.ses[t]
  BY <1>4, <1>5, SetSesIs
<1> HIDE DEF y
<1>7. /\ r \in Worlds /\ r.desc = y.desc /\ r.reg = y.reg /\ r.http = y.http /\ r.ses = y.ses /\ r.created = y.created
      /\ r.chat[k] = a /\ \A j \in Chat : j # k => r.chat[j] = y.chat[j]
  BY <1>3, <1>4, <1>6, SetChatIs
<1> HIDE DEF r, k
<1>8. /\ r.desc = w.desc /\ r.reg = w.reg /\ r.http = w.http /\ r.created = k
      /\ r.ses[s] = e /\ \A t \in Slot : t # s => r.ses[t] = w.ses[t]
      /\ r.chat[k] = a /\ \A j \in Chat : j # k => r.chat[j] = w.chat[j]
  BY <1>5, <1>6, <1>7
<1>9. Loose(r)
  BY <1>4, <1>8 DEF Loose
<1>10. Chained(r)
  BY <1>9 DEF Chained, Loose
<1>11. \A t \in Slot : w.ses[t].st = "live" =>
         w.ses[t].chat \in Chat /\ w.chat[w.ses[t].chat].up = t /\ w.ses[t].chat # k /\ w.ses[t].chat <= w.created
  <2>1. \A t \in Slot : w.ses[t].st = "live" =>
          w.ses[t].chat \in Chat /\ w.chat[w.ses[t].chat].up = t /\ w.chat[w.ses[t].chat].st = "live"
    BY LinkedChat
  <2>2. \A j \in Chat : w.chat[j].st = "live" => j <= w.created /\ j # k
    BY <1>3 DEF Good, Linked, Chat, k
  <2> QED
    BY <2>1, <2>2
<1>12. Linked(r)
  <2>1. \A j \in Chat : j <= k <=> (j <= w.created \/ j = k)
    BY <1>3 DEF Chat, k
  <2>2. \A t \in Slot : r.ses[t].st = "live" => r.ses[t].chat \in 1 .. k /\ r.chat[r.ses[t].chat].up = t
    <3>1. k \in 1 .. k
      BY <1>3 DEF Chat
    <3>2. \A t \in Slot : w.ses[t].st = "live" => w.ses[t].chat \in 1 .. k
      BY <1>3, <1>11, <2>1 DEF Chat
    <3> QED
      BY <1>4, <1>8, <1>11, <3>1, <3>2
  <2>3. \A j \in Chat : r.chat[j].st = "live" <=> j <= k
    BY <1>4, <1>8, <1>3, <2>1 DEF Good, Linked
  <2>4. \A j \in Chat : r.chat[j].st = "live" => r.chat[j].up \in Slot
    BY <1>4, <1>8 DEF Good, Linked
  <2>5. \A j \in Chat : r.chat[j].st # "live" => r.chat[j].cb = "none" /\ r.chat[j].asks = "none"
    BY <1>4, <1>8 DEF Good, Linked
  <2> QED
    BY <1>8, <2>2, <2>3, <2>4, <2>5 DEF Linked
<1>13. Waits(r)
  <2>1. Count(<<>>, k) = 0
    BY CountEmpty
  <2> QED
    BY <1>4, <1>8, <1>11, <2>1 DEF Good, Waits
<1>14. Owned(r)
  BY <1>8 DEF Good, Owned
<1>15. Good(r)
  BY <1>7, <1>10, <1>12, <1>13, <1>14 DEF Good
<1> QED
  BY <1>1, <1>3, <1>4, <1>8, <1>9, <1>15 DEF k

\* The welcome is the answer to the request that made the session.
LEMMA WelcomeAnswers ==
  ASSUME NEW u, Good(u), NEW c \in Conn, NEW k \in Chat, Hears(u, c, k), ~u.chat[k].quit
  PROVE  LET v == ChatWelcome(u, k) IN
         Good(v) /\ Kept(u, v) /\ AnswerOnce(u, v, c) /\ v.desc = u.desc /\ v.http[c].fd = u.http[c].fd
<1> DEFINE a == WithCb(u.chat[k], "login")
           q == SetChat(u, k, a)
           v == ChatSend(q, k, FALSE)
<1>1. ChatWelcome(u, k) = v
  BY DEF ChatWelcome, SetChat, WithCb
<1>2. u.chat[k].st = "live" /\ u.ses[u.chat[k].up].up = c /\ c # None
  BY WebAssumption DEF Hears
<1>3. Flags(u.chat[k], a) /\ a.quit = u.chat[k].quit
  BY ChatIn, FlagFields
<1> HIDE DEF a
<1>4. Quiet(u, q) /\ q.ses = u.ses /\ q.chat[k] = a
  BY <1>2, <1>3, FlagQuiet
<1> HIDE DEF q
<1>5. Good(q) /\ q.chat[k].st = "live" /\ ~q.chat[k].quit /\ q.ses[q.chat[k].up].up = c
  BY <1>2, <1>3, <1>4 DEF Quiet, Flags
<1>6. Good(v) /\ Sent(q, v) /\ AnswerOnce(q, v, c)
  BY <1>2, <1>5, ChatSendGood
<1> HIDE DEF v
<1>7. Kept(u, v)
  BY <1>4, <1>6, KeptTwice DEF Quiet, Sent
<1> QED
  BY <1>1, <1>4, <1>6, <1>7 DEF Quiet, Sent, AnswerOnce, Open

LEMMA CreateServed ==
  ASSUME NEW w, Good(w), Loose(w), NEW c \in Conn, NEW s \in Slot, w.ses[s].st = "free", w.created # MaxSessions,
         Asked(w, c)
  PROVE  Served(w, Create(w, c, s), c)
<1> DEFINE n == w.http[c].fd
           k == w.created + 1
           r == SessionAlloc(w, s, n)
           u == Chain(r, c, s)
           v == ChatWelcome(u, k)
           x == Unchain(v, c, s)
<1>1. n \in Number \cup {NoFd} /\ w.created \in Chat \cup {0}
  BY DEF Good, Worlds, Http
<1> HIDE DEF n
<1>2. /\ Good(r) /\ Loose(r) /\ k \in Chat
      /\ r.desc = w.desc /\ r.reg = w.reg /\ r.http = w.http /\ r.created = k
      /\ r.ses[s].st = "live" /\ r.ses[s].refs = 2 /\ r.ses[s].chat = k /\ ~r.chat[k].quit
      /\ \A t \in Slot : t # s => r.ses[t] = w.ses[t]
      /\ \A j \in Chat : j # k => r.chat[j] = w.chat[j]
  BY <1>1, AllocGood
<1>3. k > w.created /\ w.created \in Int
  BY <1>1, WebAssumption DEF Chat
<1> HIDE DEF r, k, x
<1>4. Asked(r, c) /\ Open(r, c)
  BY <1>2 DEF Asked, Open
<1>5. Good(u) /\ Hears(u, c, k) /\ u.desc = r.desc
  BY <1>2, <1>4, ChainGood
<1>6. Joined(r, u, c, s, c, s, r.ses[s].refs + 1)
  BY <1>2, ChainIs DEF Good
<1> HIDE DEF u
<1>7. Asked(u, c) /\ ~u.chat[k].quit /\ u.ses[s].chat = k
  BY <1>2, <1>4, <1>6 DEF Joined, Asked, Open
<1>8. Create(w, c, s) = x
  BY <1>7 DEF Create, u, r, n, x
<1>9. Good(v) /\ Kept(u, v) /\ AnswerOnce(u, v, c)
  BY <1>2, <1>5, <1>7, WelcomeAnswers
<1> HIDE DEF v
<1>10. Through(r, v, x, c)
  BY <1>2, <1>4, <1>9, RequestThrough DEF u, x
<1>11. x.http[c].answers = 1
  BY <1>7, <1>9, <1>10 DEF Through, AnswerOnce, Asked
<1>12. \A t \in Slot : x.ses[t].st = "live" =>
         IF w.ses[t].st = "live" THEN x.ses[t].refs \in {w.ses[t].refs, w.ses[t].refs + 1} ELSE x.ses[t].refs = 2
  <2>1. \A t \in Slot : x.ses[t].st = r.ses[t].st /\ x.ses[t].refs = r.ses[t].refs
    BY <1>10 DEF Through
  <2> QED
    BY <1>2, <2>1
<1>13. w.created <= x.created /\ \A j \in Chat : j <= w.created => x.chat[j].up = w.chat[j].up
  <2>1. \A j \in Chat : j <= w.created => j # k
    BY <1>3 DEF Chat
  <2>2. x.created = k /\ \A j \in Chat : x.chat[j].up = r.chat[j].up
    BY <1>2, <1>10 DEF Through
  <2>3. w.created <= k
    BY <1>3, <1>2 DEF Chat
  <2> QED
    BY <1>2, <2>1, <2>2, <2>3
<1>14. /\ Good(x) /\ Loose(x) /\ \A m \in Number : x.reg[m] \in {w.reg[m], None}
       /\ \A d \in Conn : d # c => x.http[d] = w.http[d]
       /\ x.http[c].st = w.http[c].st /\ x.http[c].fd \in {w.http[c].fd, NoFd}
  BY <1>2, <1>10 DEF Through
<1> QED
  BY <1>8, <1>11, <1>12, <1>13, <1>14 DEF Served

-----------------------------------------------------------------------------
\* A connection that can be heard, as Readable, of a world.
Heard(w, c) == w.http[c].st = "live" /\ w.http[c].fd # NoFd /\ w.reg[w.http[c].fd] = c

\* A step of the worker: connection c makes a request, or there is none; references are taken
\* by requests only.
Referred(w) == \A s \in Slot : w.ses[s].st = "live" => w.ses[s].refs >= 1
Step(w, v, c, more) ==
  /\ Good(v) /\ Loose(v) /\ Referred(v)
  /\ w.created <= v.created /\ \A k \in Chat : k <= w.created => v.chat[k].up = w.chat[k].up
  /\ \A s \in Slot : v.ses[s].st = "live" =>
       v.ses[s].refs <= (IF w.ses[s].st = "live" THEN w.ses[s].refs ELSE 1) + more
  /\ \A d \in Conn : d # c /\ Heard(v, d) => Heard(w, d) /\ v.http[d].answers = w.http[d].answers
  /\ c \in Conn /\ ~Shared(v) /\ Heard(v, c) => v.http[c].answers \in {-1, 1}

\* What makes every step possible, and lasts: with r requests handled.
Inv(w, r) ==
  /\ Good(w) /\ Loose(w)
  /\ \A s \in Slot : w.ses[s].st = "live" => w.ses[s].refs \in 1 .. r + 1
  /\ ~Shared(w) => \A c \in Conn : Heard(w, c) => w.http[c].answers \in {-1, 1}

LEMMA InvReferred == ASSUME NEW w, NEW r \in Nat, Inv(w, r) PROVE Good(w) /\ Loose(w) /\ Referred(w)
BY DEF Inv, Referred

LEMMA StepInv ==
  ASSUME NEW w, NEW v, NEW c, NEW r \in Nat, NEW more \in {0, 1}, Inv(w, r), Step(w, v, c, more)
  PROVE  Inv(v, r + more)
<1>1. w \in Worlds /\ v \in Worlds
  BY DEF Inv, Step, Good
<1>2. w.created \in Int /\ v.created \in Int /\ v.created <= MaxSessions /\ MaxSessions \in Nat
  BY <1>1, WebAssumption DEF Worlds, Chat
<1>3. Shared(w) => Shared(v)
  <2>1. ASSUME NEW j \in 1 .. w.created
        PROVE  j \in 1 .. v.created /\ v.chat[j].up = w.chat[j].up
    <3>1. j \in 1 .. v.created /\ j \in Chat /\ j <= w.created
      BY <1>2 DEF Step, Chat
    <3> QED
      BY <3>1 DEF Step
  <2> QED
    BY <2>1 DEF Shared
<1>4. ASSUME NEW s \in Slot, v.ses[s].st = "live"
      PROVE  v.ses[s].refs \in 1 .. r + more + 1
  <2>1. v.ses[s].refs \in Int /\ w.ses[s].refs \in Int
    BY <1>1 DEF Worlds, Session
  <2>2. v.ses[s].refs >= 1
    BY <1>4 DEF Step, Referred
  <2>3. v.ses[s].refs <= (IF w.ses[s].st = "live" THEN w.ses[s].refs ELSE 1) + more
    BY <1>4 DEF Step
  <2>4. w.ses[s].st = "live" => w.ses[s].refs \in 1 .. r + 1
    BY DEF Inv
  <2> QED
    BY <2>1, <2>2, <2>3, <2>4
<1>5. ASSUME ~Shared(v), NEW d \in Conn, Heard(v, d)
      PROVE  v.http[d].answers \in {-1, 1}
  <2>1. CASE d = c
    BY <1>5, <2>1 DEF Step
  <2>2. CASE d # c
    BY <1>3, <1>5, <2>2 DEF Step, Inv
  <2> QED
    BY <2>1, <2>2
<1> QED
  BY <1>4, <1>5 DEF Inv, Step

\* Nothing but caches, flags, closed connections and registrations changed.
LEMMA KeptStep ==
  ASSUME NEW w, Good(w), Loose(w), Referred(w), NEW v, Good(v), Kept(w, v)
  PROVE  Step(w, v, None, 0)
<1>1. \A c \in Conn : c # None /\ v.http[c] = w.http[c]
  BY WebAssumption DEF Kept, Loose
<1>2. \A s \in Slot : v.ses[s].up = None /\ v.ses[s].st = w.ses[s].st /\ v.ses[s].refs = w.ses[s].refs
  BY DEF Kept, Loose
<1>3. Loose(v) /\ Referred(v)
  BY <1>1, <1>2 DEF Loose, Referred
<1>4. w.created \in Int /\ v.created = w.created /\ \A k \in Chat : v.chat[k].up = w.chat[k].up
  BY WebAssumption DEF Kept, Good, Worlds, Chat
<1>5. \A s \in Slot : w.ses[s].refs \in Int
  BY DEF Good, Worlds, Session
<1>6. ASSUME NEW d \in Conn, Heard(v, d)
      PROVE  Heard(w, d) /\ v.http[d].answers = w.http[d].answers
  <2>1. w.http[d].fd \in Number
    BY <1>1, <1>6 DEF Heard, Good, Worlds, Http
  <2> QED
    BY <1>1, <1>6, <2>1 DEF Heard, Kept
<1>7. None \notin Conn
  BY WebAssumption
<1> QED
  BY <1>2, <1>3, <1>4, <1>5, <1>6, <1>7 DEF Step

\* A connection's object, changed in what is known of the request.
LEMMA HttpGood ==
  ASSUME NEW w, Good(w), Loose(w), NEW c \in Conn, NEW h \in Http,
         h.st = w.http[c].st, h.fd = w.http[c].fd, h.down = w.http[c].down
  PROVE  LET v == SetHttp(w, c, h) IN
         /\ Good(v) /\ Loose(v) /\ v.desc = w.desc /\ v.reg = w.reg /\ v.ses = w.ses /\ v.chat = w.chat
         /\ v.created = w.created /\ v.http[c] = h /\ \A d \in Conn : d # c => v.http[d] = w.http[d]
<1> DEFINE v == SetHttp(w, c, h)
<1>1. /\ v \in Worlds /\ v.desc = w.desc /\ v.reg = w.reg /\ v.ses = w.ses /\ v.chat = w.chat /\ v.created = w.created
      /\ v.http[c] = h /\ \A d \in Conn : d # c => v.http[d] = w.http[d]
  BY SetHttpIs DEF Good
<1> HIDE DEF v
<1>2. Loose(v)
  BY <1>1 DEF Loose
<1>3. Chained(v)
  BY <1>2 DEF Chained, Loose
<1>4. Good(v)
  BY <1>1, <1>3, ShapeGood
<1> QED
  BY <1>1, <1>2, <1>4 DEF v

\* A request is handled by a session, or by nobody but the connection.
LEMMA ServedStep ==
  ASSUME NEW w, Good(w), Loose(w), Referred(w), NEW c \in Conn, NEW u, NEW v, Served(u, v, c),
         u.desc = w.desc, u.reg = w.reg, u.ses = w.ses, u.chat = w.chat, u.created = w.created,
         u.http[c].st = w.http[c].st, u.http[c].fd = w.http[c].fd, \A d \in Conn : d # c => u.http[d] = w.http[d]
  PROVE  Step(w, v, c, 1)
<1>1. \A s \in Slot : w.ses[s].refs \in Int /\ (w.ses[s].st = "live" => w.ses[s].refs >= 1)
  BY DEF Referred, Good, Worlds, Session
<1>2. Good(v) /\ Loose(v)
  BY DEF Served
<1>3. \A s \in Slot : v.ses[s].st = "live" =>
        v.ses[s].refs >= 1 /\ v.ses[s].refs <= (IF w.ses[s].st = "live" THEN w.ses[s].refs ELSE 1) + 1
  BY <1>1 DEF Served
<1>4. Referred(v)
  BY <1>3 DEF Referred
<1>5. ASSUME NEW d \in Conn, d # c, Heard(v, d)
      PROVE  Heard(w, d) /\ v.http[d].answers = w.http[d].answers
  <2>1. v.http[d] = w.http[d]
    BY <1>5 DEF Served
  <2>2. w.http[d].fd \in Number /\ d # None
    BY <1>5, <2>1, WebAssumption DEF Heard, Good, Worlds, Http
  <2> QED
    BY <1>5, <2>1, <2>2 DEF Heard, Served
<1>6. ASSUME ~Shared(v), Heard(v, c)
      PROVE  v.http[c].answers \in {-1, 1}
  <2>1. v.http[c].fd \in Number /\ c # None
    BY <1>2, <1>6, WebAssumption DEF Heard, Good, Worlds, Http
  <2>2. Open(v, c)
    BY <1>2, <1>6, <2>1 DEF Heard, Good, Owned, Open
  <2> QED
    BY <1>6, <2>2 DEF Served
<1>7. w.created <= v.created /\ \A k \in Chat : k <= w.created => v.chat[k].up = w.chat[k].up
  BY DEF Served
<1> QED
  BY <1>2, <1>3, <1>4, <1>5, <1>6, <1>7 DEF Step

-----------------------------------------------------------------------------
\* The handlers of a connection.
LEMMA WebchatStep ==
  ASSUME NEW w, Good(w), Loose(w), Referred(w), NEW c \in Conn, Open(w, c), NEW sid,
         NEW in, in.line = "pm" => in.to \in Chat, in.greets \in BOOLEAN, NEW v \in Webchat(w, c, sid, in)
  PROVE  Step(w, v, c, 1)
<1> DEFINE g == WithProcessed(w.http[c], FALSE)
           h == WithAnswers(g, 0)
           u == Ask(w, c)
<1>1. w.http[c] \in Http
  BY DEF Good, Worlds
<1>2. /\ g \in Http /\ g.st = w.http[c].st /\ g.fd = w.http[c].fd /\ g.down = w.http[c].down
      /\ g.is_processed = FALSE
  BY <1>1, ProcessedField
<1>3. v \in (IF Found(u, sid) # {} THEN {Resume(u, c, s, in) : s \in Found(u, sid)}
             ELSE IF u.created = MaxSessions THEN {}
             ELSE {Create(u, c, s) : s \in {t \in Slot : u.ses[t].st = "free"}})
  BY DEF Webchat
<1>8. u = SetHttp(w, c, h)
  BY DEF Ask, SetHttp, WithAnswers, WithProcessed, Good, Worlds
<1> HIDE DEF g, u
<1>4. /\ h \in Http /\ h.st = w.http[c].st /\ h.fd = w.http[c].fd /\ h.down = w.http[c].down
      /\ h.is_processed = FALSE /\ h.answers = 0
  BY <1>2, AnswersField
<1> HIDE DEF h
<1>5. /\ Good(u) /\ Loose(u) /\ u.desc = w.desc /\ u.reg = w.reg /\ u.ses = w.ses /\ u.chat = w.chat
      /\ u.created = w.created /\ u.http[c] = h /\ \A d \in Conn : d # c => u.http[d] = w.http[d]
  BY <1>4, <1>8, HttpGood
<1>6. Asked(u, c)
  BY <1>4, <1>5 DEF Asked, Open
<1>7. Served(u, v, c)
  <2>1. CASE Found(u, sid) # {}
    <3>1. PICK s \in Found(u, sid) : v = Resume(u, c, s, in)
      BY <1>3, <2>1
    <3>2. s \in Slot /\ u.ses[s].st = "live"
      BY DEF Found
    <3> QED
      BY <1>5, <1>6, <3>1, <3>2, ResumeServed
  <2>2. CASE Found(u, sid) = {}
    <3>1. PICK s \in Slot : u.ses[s].st = "free" /\ u.created # MaxSessions /\ v = Create(u, c, s)
      BY <1>3, <2>2
    <3> QED
      BY <1>5, <1>6, <3>1, CreateServed
  <2> QED
    BY <2>1, <2>2
<1> QED
  BY <1>4, <1>5, <1>7, ServedStep

\* A page is an answer, too.
LEMMA PageStep ==
  ASSUME NEW w, Good(w), Loose(w), Referred(w), NEW c \in Conn
  PROVE  Step(w, HttpSend([w EXCEPT !.http[c].answers = 0], c), c, 1)
<1> DEFINE h == WithAnswers(w.http[c], 0)
           u == SetHttp(w, c, h)
           v == HttpSend(u, c)
<1>1. u = [w EXCEPT !.http[c].answers = 0]
  BY DEF SetHttp, WithAnswers
<1>2. w.http[c] \in Http
  BY DEF Good, Worlds
<1>3. h \in Http /\ h.st = w.http[c].st /\ h.fd = w.http[c].fd /\ h.down = w.http[c].down /\ h.answers = 0
  BY <1>2, AnswersField
<1> HIDE DEF h
<1>4. /\ Good(u) /\ Loose(u) /\ u.desc = w.desc /\ u.reg = w.reg /\ u.ses = w.ses /\ u.chat = w.chat
      /\ u.created = w.created /\ u.http[c] = h /\ \A d \in Conn : d # c => u.http[d] = w.http[d]
  BY <1>3, HttpGood
<1> HIDE DEF u
<1>5. /\ v \in Worlds /\ v.desc = u.desc /\ v.reg = u.reg /\ v.ses = u.ses /\ v.chat = u.chat /\ v.created = u.created
      /\ \A d \in Conn : d # c => v.http[d] = u.http[d]
      /\ v.http[c].st = u.http[c].st /\ v.http[c].fd = u.http[c].fd /\ v.http[c].down = u.http[c].down
      /\ v.http[c].answers = IF Open(u, c) THEN u.http[c].answers + 1 ELSE u.http[c].answers
  <2>1. u \in Worlds
    BY <1>4 DEF Good
  <2> QED
    BY <2>1, HttpSendIs
<1> HIDE DEF v
<1>6. Loose(v)
  BY <1>4, <1>5 DEF Loose
<1>7. Good(v)
  <2>1. Chained(v)
    BY <1>6 DEF Chained, Loose
  <2>2. \A d \in Conn : v.http[d].st = u.http[d].st /\ v.http[d].fd = u.http[d].fd
    BY <1>5
  <2> QED
    BY <1>4, <1>5, <2>1, <2>2, ShapeGood
<1>8. Open(v, c) => v.http[c].answers = 1
  BY <1>3, <1>4, <1>5 DEF Open
<1>9. w.created <= w.created
  BY WebAssumption DEF Good, Worlds, Chat
<1>10. \A s \in Slot : v.ses[s].st = "live" =>
         IF u.ses[s].st = "live" THEN v.ses[s].refs \in {u.ses[s].refs, u.ses[s].refs + 1} ELSE v.ses[s].refs = 2
  BY <1>5
<1>11. Served(u, v, c)
  BY <1>4, <1>5, <1>6, <1>7, <1>8, <1>9, <1>10 DEF Served
<1>12. Step(w, v, c, 1)
  BY <1>3, <1>4, <1>11, ServedStep
<1> QED
  BY <1>1, <1>12 DEF v

\* A connection's object is given back, and its number registered for nobody.
GivenUp(w, v, c) ==
  /\ v \in Worlds /\ v.ses = w.ses /\ v.chat = w.chat /\ v.created = w.created
  /\ v.http[c] = Gone /\ \A d \in Conn : d # c => v.http[d] = w.http[d]
  /\ \A n \in Number : v.reg[n] # None => v.reg[n] = w.reg[n] /\ v.desc[n] = w.desc[n] /\ n # w.http[c].fd

LEMMA GoneIn == Gone \in Http
<1>1. NoHttp \in Http
  BY DEF NoHttp, Http
<1> QED
  BY <1>1 DEF Gone, Http

LEMMA GoneStep ==
  ASSUME NEW w, Good(w), Loose(w), Referred(w), NEW c \in Conn, NEW v, GivenUp(w, v, c)
  PROVE  Step(w, v, None, 0)
<1>0. /\ v \in Worlds /\ v.ses = w.ses /\ v.chat = w.chat /\ v.created = w.created
      /\ v.http[c] = Gone /\ \A d \in Conn : d # c => v.http[d] = w.http[d]
      /\ \A n \in Number : v.reg[n] # None => v.reg[n] = w.reg[n] /\ v.desc[n] = w.desc[n] /\ n # w.http[c].fd
  BY DEF GivenUp
<1>1. Gone.st = "gone" /\ Gone.down = None
  <2>1. NoHttp \in Http /\ NoHttp.down = None
    BY DEF NoHttp, Http
  <2> QED
    BY <2>1 DEF Gone, Http
<1>2. \A d \in Conn : d # None
  BY WebAssumption
<1>3. Loose(v) /\ Referred(v)
  BY <1>0, <1>1 DEF Loose, Referred
<1>4. Owned(v)
  <2>1. SUFFICES ASSUME NEW n \in Number, v.reg[n] # None
                 PROVE  v.http[v.reg[n]].st = "live" /\ v.http[v.reg[n]].fd = n /\ v.desc[n] = v.reg[n]
    BY DEF Owned
  <2> DEFINE d == w.reg[n]
  <2>2. v.reg[n] = d /\ v.desc[n] = w.desc[n] /\ n # w.http[c].fd
    BY <1>0, <2>1
  <2>3. d \in Conn /\ w.http[d].st = "live" /\ w.http[d].fd = n /\ w.desc[n] = d
    BY <2>1, <2>2 DEF Good, Owned, Worlds
  <2>4. d # c
    BY <2>2, <2>3
  <2> QED
    BY <1>0, <2>2, <2>3, <2>4
<1>5. Good(v)
  <2>1. Linked(v) /\ Waits(v)
    BY <1>0 DEF Good, Linked, Waits
  <2>2. Chained(v)
    BY <1>3 DEF Chained, Loose
  <2> QED
    BY <1>0, <1>4, <2>1, <2>2 DEF Good
<1>6. ASSUME NEW d \in Conn, Heard(v, d)
      PROVE  Heard(w, d) /\ v.http[d].answers = w.http[d].answers
  <2>1. d # c
    BY <1>0, <1>1, <1>6 DEF Heard
  <2>2. v.http[d] = w.http[d] /\ w.http[d].fd \in Number
    BY <1>0, <1>6, <2>1 DEF Heard, Good, Worlds, Http
  <2> QED
    BY <1>0, <1>2, <1>6, <2>2 DEF Heard
<1>7. \A s \in Slot : w.ses[s].refs \in Int
  BY DEF Good, Worlds, Session
<1>8. w.created <= w.created
  BY WebAssumption DEF Good, Worlds, Chat
<1> QED
  BY <1>0, <1>2, <1>3, <1>5, <1>6, <1>7, <1>8 DEF Step, Referred

LEMMA HttpFreeStep ==
  ASSUME NEW w, Good(w), Loose(w), Referred(w), NEW c \in Conn
  PROVE  Step(w, HttpFree(w, c), None, 0)
<1> DEFINE u == HttpClose(w, {c})
           v == SetHttp(u, c, Gone)
           N == HttpFds(w, {c})
<1>1. HttpFree(w, c) = v
  BY DEF HttpFree, SetHttp
<1>2. w \in Worlds
  BY DEF Good
<1>3. /\ u \in Worlds /\ u.desc = Closed(w.desc, N) /\ u.reg = Closed(w.reg, N) /\ u.http = HttpClosed(w, {c})
      /\ u.ses = w.ses /\ u.chat = w.chat /\ u.created = w.created
  BY <1>2, HttpCloseIs
<1> HIDE DEF u
<1>4. /\ v \in Worlds /\ v.desc = u.desc /\ v.reg = u.reg /\ v.ses = u.ses /\ v.chat = u.chat /\ v.created = u.created
      /\ v.http[c] = Gone /\ \A d \in Conn : d # c => v.http[d] = u.http[d]
  BY <1>3, GoneIn, SetHttpIs
<1> HIDE DEF v
<1>5. \A d \in Conn : d # c => v.http[d] = w.http[d]
  BY <1>3, <1>4 DEF HttpClosed
<1>6. \A n \in Number : v.reg[n] # None => v.reg[n] = w.reg[n] /\ v.desc[n] = w.desc[n] /\ n # w.http[c].fd
  BY <1>3, <1>4 DEF Closed, HttpFds
<1>7. GivenUp(w, v, c)
  BY <1>3, <1>4, <1>5, <1>6 DEF GivenUp
<1> QED
  BY <1>1, <1>7, GoneStep

\* A number is given up, and what was open for it, or not.
Moved1(w, v, n) ==
  /\ v \in Worlds /\ v.http = w.http /\ v.ses = w.ses /\ v.chat = w.chat /\ v.created = w.created
  /\ \A m \in Number : v.reg[m] # None => v.reg[m] = w.reg[m] /\ v.desc[m] = w.desc[m] /\ m # n

LEMMA RawMoveIs ==
  ASSUME NEW w \in Worlds, NEW n \in Number \cup {NoFd}, NEW ok \in BOOLEAN
  PROVE  Moved1(w, RawMove(w, n, ok), n)
<1>1. CASE n = NoFd
  <2>1. RawMove(w, n, ok) = w
    BY <1>1 DEF RawMove
  <2>2. \A m \in Number : m # NoFd
    BY DEF Number, NoFd
  <2> QED
    BY <1>1, <2>1, <2>2 DEF Moved1
<1>2. CASE n # NoFd
  <2> DEFINE x == IF ok THEN None ELSE w.desc[n]
             v == [w EXCEPT !.reg[n] = None, !.desc[n] = x]
  <2>1. RawMove(w, n, ok) = v
    BY <1>2 DEF RawMove
  <2>2. x \in Conn \cup {None} /\ n \in Number
    BY <1>2 DEF Worlds
  <2> HIDE DEF x
  <2>3. /\ v \in Worlds /\ v.http = w.http /\ v.ses = w.ses /\ v.chat = w.chat /\ v.created = w.created
        /\ \A m \in Number : v.reg[m] = (IF m = n THEN None ELSE w.reg[m]) /\ (m # n => v.desc[m] = w.desc[m])
    BY <2>2 DEF Worlds
  <2> HIDE DEF v
  <2> QED
    BY <2>1, <2>3 DEF Moved1
<1> QED
  BY <1>1, <1>2

LEMMA TransferStep ==
  ASSUME NEW w, Good(w), Loose(w), Referred(w), NEW c \in Conn, NEW ok \in BOOLEAN
  PROVE  Step(w, Transfer(w, c, ok), None, 0)
<1> DEFINE n == w.http[c].fd
           u == RawMove(w, n, ok)
           v == SetHttp(u, c, Gone)
<1>1. Transfer(w, c, ok) = v
  BY DEF Transfer, SetHttp
<1>2. w \in Worlds /\ n \in Number \cup {NoFd}
  BY DEF Good, Worlds, Http
<1>3. Moved1(w, u, n)
  BY <1>2, RawMoveIs
<1> HIDE DEF u
<1>4. /\ v \in Worlds /\ v.desc = u.desc /\ v.reg = u.reg /\ v.ses = u.ses /\ v.chat = u.chat /\ v.created = u.created
      /\ v.http[c] = Gone /\ \A d \in Conn : d # c => v.http[d] = u.http[d]
  BY <1>3, GoneIn, SetHttpIs DEF Moved1
<1> HIDE DEF v
<1>5. /\ v.ses = w.ses /\ v.chat = w.chat /\ v.created = w.created
      /\ \A d \in Conn : d # c => v.http[d] = w.http[d]
      /\ \A m \in Number : v.reg[m] # None => v.reg[m] = w.reg[m] /\ v.desc[m] = w.desc[m] /\ m # w.http[c].fd
  BY <1>3, <1>4 DEF Moved1
<1>6. GivenUp(w, v, c)
  BY <1>4, <1>5 DEF GivenUp
<1> QED
  BY <1>1, <1>6, GoneStep

-----------------------------------------------------------------------------
\* A connection comes.
LEMMA MinIs ==
  ASSUME NEW S \in SUBSET Nat, S # {}
  PROVE  Min(S) \in S
<1>1. \E m \in S : \A k \in S : m <= k
  BY LeastOfNaturals
<1> QED
  BY <1>1 DEF Min

NewHttp(n) == [NoHttp EXCEPT !.st = "live", !.fd = n]

LEMMA NewHttpIs ==
  ASSUME NEW n \in Number
  PROVE  LET h == NewHttp(n) IN h \in Http /\ h.st = "live" /\ h.fd = n /\ h.down = None /\ h.answers = -1
<1>1. NoHttp \in Http /\ NoHttp.down = None /\ NoHttp.answers = -1
  BY DEF NoHttp, Http
<1>2. ASSUME NEW h \in Http
      PROVE  LET g == [h EXCEPT !.st = "live", !.fd = n] IN
             g \in Http /\ g.st = "live" /\ g.fd = n /\ g.down = h.down /\ g.answers = h.answers
  BY DEF Http
<1> QED
  BY <1>1, <1>2 DEF NewHttp

LEMMA OpenedStep ==
  ASSUME Good(World), Loose(World), Referred(World), NEW c \in Conn, Arrivable(c)
  PROVE  Step(World, Opened(c), c, 0) /\ Open(Opened(c), c)
<1> DEFINE w == World
           n == Min({m \in Number : desc[m] = None})
           h == NewHttp(n)
           v == Opened(c)
<1>1. w \in Worlds /\ w.http[c].st = "none" /\ w.desc = desc
  BY DEF Good, World, Arrivable
<1>2. n \in Number /\ w.desc[n] = None
  <2>1. {m \in Number : desc[m] = None} \in SUBSET Nat /\ {m \in Number : desc[m] = None} # {}
    BY DEF Arrivable, Number
  <2>2. n \in {m \in Number : desc[m] = None}
    BY <2>1, MinIs
  <2> QED
    BY <1>1, <2>2
<1>3. v = [w EXCEPT !.desc[n] = c, !.reg[n] = c, !.http[c] = h]
  BY DEF Opened, NewHttp
<1> HIDE DEF n, w, v
<1>4. h \in Http /\ h.st = "live" /\ h.fd = n /\ h.down = None /\ h.answers = -1
  BY <1>2, NewHttpIs
<1> HIDE DEF h
<1>5. /\ v \in Worlds /\ v.ses = w.ses /\ v.chat = w.chat /\ v.created = w.created
      /\ \A m \in Number : v.desc[m] = (IF m = n THEN c ELSE w.desc[m]) /\ v.reg[m] = (IF m = n THEN c ELSE w.reg[m])
      /\ \A d \in Conn : v.http[d] = (IF d = c THEN h ELSE w.http[d])
  BY <1>1, <1>2, <1>3, <1>4 DEF Worlds
<1>6. c # None /\ n # NoFd
  BY <1>2, WebAssumption DEF Number, NoFd
<1>7. Good(w) /\ Loose(w) /\ Referred(w)
  BY DEF w
<1>8. Loose(v) /\ Referred(v)
  BY <1>4, <1>5, <1>7 DEF Loose, Referred
<1>9. Owned(v)
  <2>1. SUFFICES ASSUME NEW m \in Number, v.reg[m] # None
                 PROVE  v.http[v.reg[m]].st = "live" /\ v.http[v.reg[m]].fd = m /\ v.desc[m] = v.reg[m]
    BY DEF Owned
  <2>2. CASE m = n
    BY <1>4, <1>5, <2>2
  <2>3. CASE m # n
    <3>1. v.reg[m] = w.reg[m] /\ v.desc[m] = w.desc[m]
      BY <1>5, <2>3
    <3>2. PICK d \in Conn : w.reg[m] = d
      BY <1>1, <2>1, <3>1 DEF Worlds
    <3>3. w.http[d].st = "live" /\ w.http[d].fd = m /\ w.desc[m] = d
      BY <1>7, <2>1, <3>1, <3>2 DEF Good, Owned
    <3>4. d # c
      BY <1>1, <3>3
    <3> QED
      BY <1>5, <3>1, <3>2, <3>3, <3>4
  <2> QED
    BY <2>2, <2>3
<1>10. Good(v)
  <2>1. Linked(v) /\ Waits(v)
    BY <1>5, <1>7 DEF Good, Linked, Waits
  <2>2. Chained(v)
    BY <1>8 DEF Chained, Loose
  <2> QED
    BY <1>5, <1>9, <2>1, <2>2 DEF Good
<1>11. ASSUME NEW d \in Conn, d # c, Heard(v, d)
       PROVE  Heard(w, d) /\ v.http[d].answers = w.http[d].answers
  <2>1. v.http[d] = w.http[d] /\ w.http[d].fd \in Number
    BY <1>1, <1>5, <1>11 DEF Heard, Worlds, Http
  <2> QED
    BY <1>5, <1>11, <2>1 DEF Heard
<1>12. v.http[c].answers = -1
  BY <1>4, <1>5
<1>13. \A s \in Slot : w.ses[s].refs \in Int
  BY <1>1 DEF Worlds, Session
<1>14. w.created <= w.created
  BY <1>1, WebAssumption DEF Worlds, Chat
<1>15. Step(w, v, c, 0)
  BY <1>5, <1>7, <1>8, <1>10, <1>11, <1>12, <1>13, <1>14 DEF Step, Referred
<1>16. Open(v, c)
  BY <1>2, <1>4, <1>5, <1>6 DEF Open
<1> QED
  BY <1>15, <1>16 DEF w, v

-----------------------------------------------------------------------------
\* Answers of the database, between two requests.
Keeps(w, v) == Good(v) /\ Kept(w, v)

LEMMA KeepsTwice == ASSUME NEW u, NEW v, NEW w, Keeps(u, v), Keeps(v, w) PROVE Keeps(u, w)
BY KeptTwice DEF Keeps

LEMMA KeepsLive == ASSUME NEW w, NEW v, Keeps(w, v), NEW k \in Chat, w.chat[k].st = "live" PROVE Good(v) /\ v.chat[k].st = "live"
BY DEF Keeps, Kept

LEMMA SendKeeps ==
  ASSUME NEW w, Good(w), NEW k \in Chat, w.chat[k].st = "live", NEW more \in BOOLEAN
  PROVE  Keeps(w, ChatSend(w, k, more))
<1>1. Talk(w, ChatSend(w, k, more), k)
  BY SendTalk
<1> QED
  BY <1>1 DEF Talk, Keeps

LEMMA FlagKeeps ==
  ASSUME NEW w, Good(w), NEW k \in Chat, w.chat[k].st = "live", NEW a, Flags(w.chat[k], a)
  PROVE  Keeps(w, SetChat(w, k, a))
<1>1. Quiet(w, SetChat(w, k, a))
  BY FlagQuiet
<1> QED
  BY <1>1 DEF Quiet, Keeps

Cleared(w, k) == [w EXCEPT !.chat[k].asks = "none"]

LEMMA ClearedKeeps ==
  ASSUME NEW w, Good(w), NEW k \in Chat, w.chat[k].st = "live"
  PROVE  Keeps(w, Cleared(w, k))
<1>1. Flags(w.chat[k], WithAsks(w.chat[k], "none"))
  BY ChatIn, FlagFields
<1>2. Cleared(w, k) = SetChat(w, k, WithAsks(w.chat[k], "none"))
  BY DEF Cleared, SetChat, WithAsks
<1> QED
  BY <1>1, <1>2, FlagKeeps

LEMMA GetFailsKeeps ==
  ASSUME NEW w, Good(w), NEW k \in Chat, w.chat[k].st = "live"
  PROVE  Keeps(w, GetFails(w, k))
<1> DEFINE n == w.chat[k].refs + 1
<1>1. w.chat[k] \in ChatObject /\ n \in Int
  BY ChatIn DEF ChatObject
<1>2. GetFails(w, k) = SetChat(w, k, Referring(w.chat[k], n))
  BY DEF GetFails, SetChat, Referring
<1> HIDE DEF n
<1>3. Flags(w.chat[k], Referring(w.chat[k], n))
  BY <1>1, LazyFields
<1> QED
  BY <1>2, <1>3, FlagKeeps

\* Flags of all chats, but for what they do and ask.
SetChats(w, f) == [w EXCEPT !.chat = f]

LEMMA FlagsKeep ==
  ASSUME NEW w, Good(w), NEW f, f = [k \in Chat |-> f[k]],
         \A k \in Chat : Flags(w.chat[k], f[k]) /\ f[k].cb = w.chat[k].cb /\ f[k].asks = w.chat[k].asks
  PROVE  LET v == SetChats(w, f) IN Keeps(w, v) /\ v.chat = f /\ v.ses = w.ses
<1> DEFINE v == SetChats(w, f)
<1>1. w \in Worlds /\ f \in [Chat -> ChatObject]
  BY DEF Good, Flags
<1>2. /\ v \in Worlds /\ v.desc = w.desc /\ v.reg = w.reg /\ v.http = w.http /\ v.ses = w.ses /\ v.created = w.created
      /\ v.chat = f
  BY <1>1 DEF Worlds, SetChats
<1> HIDE DEF v
<1>3. \A j \in Chat : /\ v.chat[j].st = w.chat[j].st /\ v.chat[j].up = w.chat[j].up /\ v.chat[j].fd = w.chat[j].fd
                      /\ v.chat[j].due = w.chat[j].due /\ v.chat[j].full = w.chat[j].full
                      /\ (w.chat[j].quit => v.chat[j].quit)
                      /\ v.chat[j].cb = w.chat[j].cb /\ v.chat[j].asks = w.chat[j].asks
  BY <1>2 DEF Flags
<1>4. \A t \in Slot : w.ses[t].st = "live" => w.ses[t].chat \in Chat /\ w.chat[w.ses[t].chat].up = t
  BY LinkedChat
<1>5. Kept(w, v)
  BY <1>2, <1>3 DEF Kept
<1>6. Owned(v)
  BY <1>2 DEF Good, Owned
<1>7. Linked(v)
  BY <1>2, <1>3, <1>4 DEF Good, Linked
<1>8. Waits(v)
  BY <1>2, <1>3, <1>4 DEF Good, Waits
<1>9. Chained(v)
  <2>1. \A s \in Slot : w.ses[s].up # None =>
          w.ses[s].st = "live" /\ w.ses[s].chat \in Chat /\ (Open(w, w.ses[s].up) \/ w.chat[w.ses[s].chat].quit)
    BY <1>4 DEF Good, Chained
  <2> QED
    BY <1>2, <1>3, <2>1 DEF Chained, Open
<1> QED
  BY <1>2, <1>5, <1>6, <1>7, <1>8, <1>9 DEF Good, Keeps, v

\* A reference less: Unref, of one chat and of some.
Less(a) == WithLogged(Referring(a, a.refs - 1), a.logged /\ a.refs # 1)

LEMMA LessIs ==
  ASSUME NEW a \in ChatObject
  PROVE  Flags(a, Less(a)) /\ Less(a).cb = a.cb /\ Less(a).asks = a.asks
<1> DEFINE n == a.refs - 1
           b == a.logged /\ a.refs # 1
           x == Referring(a, n)
           y == WithLogged(x, b)
<1>1. n \in Int
  BY DEF ChatObject
<1>2. b \in BOOLEAN
  OBVIOUS
<1>3. Less(a) = y
  BY DEF Less
<1> HIDE DEF n, b
<1>4. Flags(a, x) /\ x.cb = a.cb /\ x.asks = a.asks
  BY <1>1, LazyFields
<1>5. x \in ChatObject
  BY <1>4 DEF Flags
<1> HIDE DEF x
<1>6. Flags(x, y) /\ y.cb = x.cb /\ y.asks = x.asks
  BY <1>2, <1>5, FlagFields, LazyFields
<1> HIDE DEF y
<1> QED
  BY <1>3, <1>4, <1>6, FlagsTwice

LEMMA UnrefKeeps ==
  ASSUME NEW w, Good(w), NEW K
  PROVE  Keeps(w, Unref(w, K)) /\ Unref(w, K).ses = w.ses
<1> DEFINE f == [k \in Chat |-> IF k \in K THEN Less(w.chat[k]) ELSE w.chat[k]]
<1>1. Unref(w, K) = SetChats(w, f)
  <2>1. ASSUME NEW k \in Chat
        PROVE  [w.chat[k] EXCEPT !.refs = @ - 1, !.logged = @ /\ w.chat[k].refs # 1] = Less(w.chat[k])
    <3>1. w.chat[k] \in ChatObject
      BY ChatIn
    <3> QED
      BY <3>1 DEF Less, WithLogged, Referring, ChatObject
  <2>2. f = [k \in Chat |-> IF k \in K THEN [w.chat[k] EXCEPT !.refs = @ - 1, !.logged = @ /\ w.chat[k].refs # 1]
                            ELSE w.chat[k]]
    BY <2>1
  <2> HIDE DEF f
  <2> QED
    BY <2>2 DEF Unref, SetChats
<1>2. ASSUME NEW k \in Chat
      PROVE  Flags(w.chat[k], f[k]) /\ f[k].cb = w.chat[k].cb /\ f[k].asks = w.chat[k].asks
  <2>1. w.chat[k] \in ChatObject
    BY ChatIn
  <2>2. Flags(w.chat[k], w.chat[k])
    BY <2>1 DEF Flags
  <2> QED
    BY <2>1, <2>2, LessIs
<1>3. f = [k \in Chat |-> f[k]]
  OBVIOUS
<1> HIDE DEF f
<1>4. LET v == SetChats(w, f) IN Keeps(w, v) /\ v.ses = w.ses
  BY <1>2, <1>3, FlagsKeep
<1> QED
  BY <1>1, <1>4

LEMMA LoggedInKeeps ==
  ASSUME NEW w, Good(w), NEW k \in Chat, w.chat[k].st = "live"
  PROVE  Keeps(w, LoggedIn(w, k))
<1> DEFINE b == WithCb(w.chat[k], "none")
           a == WithLogged(b, TRUE)
<1>1. LoggedIn(w, k) = SetChat(w, k, a)
  BY DEF LoggedIn, SetChat, WithCb, WithLogged
<1>2. Flags(w.chat[k], b)
  BY ChatIn, FlagFields
<1> HIDE DEF b
<1>3. Flags(b, a)
  <2>1. b \in ChatObject
    BY <1>2 DEF Flags
  <2> QED
    BY <2>1, FlagFields
<1> HIDE DEF a
<1>4. Flags(w.chat[k], a)
  BY <1>2, <1>3, FlagsTwice
<1> QED
  BY <1>1, <1>4, FlagKeeps

LEMMA RoomJoinKeeps ==
  ASSUME NEW w, Good(w), NEW k \in Chat, w.chat[k].st = "live"
  PROVE  Keeps(w, RoomJoin(w, k))
<1> DEFINE a == WithCb(w.chat[k], "room")
           u == SetChat(w, k, a)
           v == ChatSend(u, k, FALSE)
           x == Broadcast(v, k)
<1>1. RoomJoin(w, k) = x
  BY DEF RoomJoin, RoomGreet, SetChat, WithCb
<1>2. Flags(w.chat[k], a)
  BY ChatIn, FlagFields
<1> HIDE DEF a
<1>3. Keeps(w, u)
  BY <1>2, FlagKeeps
<1> HIDE DEF u
<1>4. Keeps(u, v)
  BY <1>3, KeepsLive, SendKeeps
<1> HIDE DEF v
<1>5. Keeps(v, x)
  <2>1. Talk(v, x, k)
    BY <1>4, BroadcastTalk DEF Keeps
  <2> QED
    BY <2>1 DEF Talk, Keeps
<1> HIDE DEF x
<1> QED
  BY <1>1, <1>3, <1>4, <1>5, KeepsTwice

\* Between two requests a number may be closed and given up without a session knowing.
LEMMA GiveUpKeeps ==
  ASSUME NEW w, Good(w), Loose(w), NEW n, NEW v, Moved1(w, v, n)
  PROVE  Keeps(w, v)
<1>1. /\ v \in Worlds /\ v.http = w.http /\ v.ses = w.ses /\ v.chat = w.chat /\ v.created = w.created
      /\ \A m \in Number : v.reg[m] # None => v.reg[m] = w.reg[m] /\ v.desc[m] = w.desc[m]
  BY DEF Moved1
<1>2. Owned(v)
  BY <1>1 DEF Good, Owned
<1>3. Linked(v) /\ Waits(v)
  BY <1>1 DEF Good, Linked, Waits
<1>4. Chained(v)
  BY <1>1 DEF Loose, Chained
<1>5. Kept(w, v)
  BY <1>1 DEF Kept
<1> QED
  BY <1>1, <1>2, <1>3, <1>4, <1>5 DEF Good, Keeps

LEMMA LooseKept == ASSUME NEW w, Loose(w), NEW v, Kept(w, v) PROVE Loose(v)
BY DEF Loose, Kept

LEMMA ChatMoveKeeps ==
  ASSUME NEW w, Good(w), Loose(w), NEW k \in Chat, w.chat[k].st = "live", NEW ok \in BOOLEAN
  PROVE  Keeps(w, ChatMove(w, k, ok))
<1> DEFINE v == RoomLeave(w, k)
           n == v.chat[k].fd
           u == IF n = NoFd THEN v ELSE [v EXCEPT !.reg[n] = None]
           m == u.ses[u.chat[k].up].fd
           y == RawMove(u, m, ok)
           b == WithQuit(y.chat[k])
           a == WithLazy(b, TRUE)
           x == SetChat(y, k, a)
<1>1. ChatMove(w, k, ok) = x
  <2>1. ASSUME NEW z
        PROVE  [z EXCEPT !.chat[k].quit = TRUE, !.chat[k].lazy = TRUE]
                 = SetChat(z, k, WithLazy(WithQuit(z.chat[k]), TRUE))
    BY DEF SetChat, WithQuit, WithLazy
  <2>2. ChatMove(w, k, ok) = [y EXCEPT !.chat[k].quit = TRUE, !.chat[k].lazy = TRUE]
    BY DEF ChatMove
  <2> HIDE DEF y
  <2> QED
    BY <2>1, <2>2
<1>2. Keeps(w, v)
  <2>1. Talk(w, v, k)
    BY RoomLeaveTalk
  <2> QED
    BY <2>1 DEF Talk, Keeps
<1> HIDE DEF v
<1>3. Good(v) /\ Loose(v) /\ v.chat[k].st = "live"
  BY <1>2, LooseKept, KeepsLive DEF Keeps
<1>4. n \in Number \cup {NoFd} /\ v \in Worlds
  BY <1>3 DEF Good, Worlds, ChatObject
<1> HIDE DEF n
<1>5. Moved1(v, u, n)
  <2>1. CASE n = NoFd
    <3>1. \A j \in Number : j # NoFd
      BY DEF Number, NoFd
    <3> QED
      BY <1>4, <2>1, <3>1 DEF Moved1
  <2>2. CASE n # NoFd
    <3> DEFINE z == [v EXCEPT !.reg[n] = None]
    <3>1. u = z
      BY <2>2
    <3>2. /\ z \in Worlds /\ z.desc = v.desc /\ z.http = v.http /\ z.ses = v.ses /\ z.chat = v.chat /\ z.created = v.created
          /\ \A j \in Number : z.reg[j] = (IF j = n THEN None ELSE v.reg[j])
      BY <1>4, <2>2 DEF Worlds
    <3> HIDE DEF z, u
    <3> QED
      BY <3>1, <3>2 DEF Moved1
  <2> QED
    BY <2>1, <2>2
<1> HIDE DEF u
<1>6. Keeps(v, u)
  BY <1>3, <1>5, GiveUpKeeps
<1>7. Good(u) /\ Loose(u) /\ u.chat[k].st = "live"
  BY <1>3, <1>6, LooseKept, KeepsLive DEF Keeps
<1>8. m \in Number \cup {NoFd} /\ u \in Worlds
  BY <1>7 DEF Good, Linked, Worlds, Session
<1> HIDE DEF m
<1>9. Moved1(u, y, m)
  BY <1>8, RawMoveIs
<1> HIDE DEF y
<1>10. Keeps(u, y)
  BY <1>7, <1>9, GiveUpKeeps
<1>11. Good(y) /\ y.chat[k].st = "live"
  BY <1>7, <1>10, KeepsLive
<1>12. Flags(y.chat[k], a)
  <2>1. Flags(y.chat[k], b)
    BY <1>11, ChatIn, FlagFields
  <2> HIDE DEF b
  <2>2. b \in ChatObject
    BY <2>1 DEF Flags
  <2>3. Flags(b, a)
    BY <2>2, LazyFields
  <2> HIDE DEF a
  <2> QED
    BY <2>1, <2>3, FlagsTwice
<1> HIDE DEF a
<1>13. Keeps(y, x)
  BY <1>11, <1>12, FlagKeeps
<1> HIDE DEF x
<1> QED
  BY <1>1, <1>2, <1>6, <1>10, <1>13, KeepsTwice

-----------------------------------------------------------------------------
\* The sweep, and the soft quit.
LEMMA LooseQuit == ASSUME NEW w, Loose(w) PROVE AllQuit(w) /\ \A k \in Chat : Mine(w, k)
BY DEF Loose, AllQuit, Mine

WithoutOne(e) == IF e.refs = 1 THEN NoSession ELSE [e EXCEPT !.refs = @ - 1]

LEMMA WithoutOneIs ==
  ASSUME NEW e \in Session, e.up = None
  PROVE  LET f == WithoutOne(e) IN
         /\ f \in Session /\ f.up = None
         /\ f.st = "live" => e.st = "live" /\ f.chat = e.chat /\ f.msg = e.msg /\ f.refs = e.refs - 1 /\ e.refs # 1
<1>1. CASE e.refs = 1
  <2>1. <<>> \in Seq(Chat)
    OBVIOUS
  <2>2. NoSession \in Session /\ NoSession.up = None /\ NoSession.st = "free"
    BY <2>1 DEF NoSession, Session
  <2>3. WithoutOne(e) = NoSession /\ "free" # "live"
    BY <1>1 DEF WithoutOne
  <2> QED
    BY <2>2, <2>3
<1>2. CASE e.refs # 1
  <2> DEFINE n == e.refs - 1
  <2>1. n \in Int
    BY DEF Session
  <2>2. WithoutOne(e) = WithRefs(e, n)
    BY <1>2 DEF WithoutOne, WithRefs
  <2> HIDE DEF n
  <2>3. LET f == WithRefs(e, n) IN
        f \in Session /\ f.st = e.st /\ f.chat = e.chat /\ f.fd = e.fd /\ f.msg = e.msg /\ f.up = e.up /\ f.refs = n
    BY <2>1, RefsField
  <2> QED
    BY <1>2, <2>2, <2>3 DEF n
<1> QED
  BY <1>1, <1>2

LEMMA SessionEndInv ==
  ASSUME NEW w, NEW r \in Nat, Inv(w, r), NEW S \in SUBSET Slot
  PROVE  Inv(SessionEnd(w, S), r)
<1> DEFINE v == SessionClose(w, S)
           freed == {s \in S : v.ses[s].refs = 1}
           f == [s \in Slot |-> IF s \notin S THEN v.ses[s] ELSE IF s \in freed THEN NoSession
                                ELSE [v.ses[s] EXCEPT !.refs = @ - 1]]
           x == [v EXCEPT !.ses = f]
           K == {v.ses[s].chat : s \in freed}
<1>1. SessionEnd(w, S) = Unref(x, K)
  BY DEF SessionEnd, GiveBack
<1> HIDE DEF K
<1>2. Good(w) /\ Loose(w) /\ Referred(w) /\ AllQuit(w)
  BY InvReferred, LooseQuit
<1>3. Good(v) /\ Kept(w, v)
  BY <1>2, SessionCloseGood
<1> HIDE DEF v
<1>4. Inv(v, r)
  <2>1. Step(w, v, None, 0)
    BY <1>2, <1>3, KeptStep
  <2>2. Inv(v, r + 0)
    BY <2>1, StepInv
  <2> QED
    BY <2>2
<1>5. v \in Worlds /\ \A s \in Slot : v.ses[s] \in Session /\ v.ses[s].up = None
  BY <1>4 DEF Inv, Good, Loose, Worlds
<1>6. ASSUME NEW s \in Slot
      PROVE  /\ f[s] \in Session /\ f[s].up = None
             /\ f[s].st = "live" => /\ v.ses[s].st = "live" /\ f[s].chat = v.ses[s].chat /\ f[s].msg = v.ses[s].msg
                                    /\ f[s].refs = v.ses[s].refs \/ (f[s].refs = v.ses[s].refs - 1 /\ v.ses[s].refs # 1)
  <2>1. CASE s \notin S
    BY <1>5, <2>1
  <2>2. CASE s \in S
    <3> DEFINE e == v.ses[s]
    <3>1. e \in Session /\ e.up = None
      BY <1>5
    <3>2. f[s] = WithoutOne(e)
      BY <2>2 DEF WithoutOne
    <3> HIDE DEF f, e
    <3>3. LET g == WithoutOne(e) IN
          /\ g \in Session /\ g.up = None
          /\ g.st = "live" => e.st = "live" /\ g.chat = e.chat /\ g.msg = e.msg /\ g.refs = e.refs - 1 /\ e.refs # 1
      BY <3>1, WithoutOneIs
    <3> QED
      BY <3>2, <3>3 DEF e
  <2> QED
    BY <2>1, <2>2
<1>7. f \in [Slot -> Session]
  BY <1>6
<1> HIDE DEF f
<1>8. /\ x \in Worlds /\ x.desc = v.desc /\ x.reg = v.reg /\ x.http = v.http /\ x.ses = f /\ x.chat = v.chat
      /\ x.created = v.created
  BY <1>5, <1>7 DEF Worlds
<1> HIDE DEF x
<1>9. Good(v) /\ Loose(v)
  BY <1>4 DEF Inv
<1>10. Loose(x)
  BY <1>6, <1>8, <1>9 DEF Loose
<1>11. Good(x)
  <2>1. Owned(x)
    BY <1>8, <1>9 DEF Good, Owned
  <2>2. Linked(x) /\ Waits(x)
    BY <1>6, <1>8, <1>9 DEF Good, Linked, Waits
  <2>3. Chained(x)
    BY <1>10 DEF Chained, Loose
  <2> QED
    BY <1>8, <2>1, <2>2, <2>3 DEF Good
<1>12. ASSUME NEW s \in Slot, x.ses[s].st = "live"
       PROVE  x.ses[s].refs \in 1 .. r + 1
  <2>1. v.ses[s].refs \in 1 .. r + 1
    BY <1>4, <1>6, <1>8, <1>12 DEF Inv
  <2> QED
    BY <1>6, <1>8, <1>12, <2>1
<1>13. ~Shared(x) => \A c \in Conn : Heard(x, c) => x.http[c].answers \in {-1, 1}
  BY <1>4, <1>8 DEF Inv, Shared, Heard
<1>14. Inv(x, r)
  BY <1>10, <1>11, <1>12, <1>13 DEF Inv
<1>15. Good(x) /\ Loose(x) /\ Referred(x)
  BY <1>14, InvReferred
<1>16. Step(x, Unref(x, K), None, 0)
  BY <1>15, UnrefKeeps, KeptStep DEF Keeps
<1>17. Inv(Unref(x, K), r + 0)
  BY <1>14, <1>16, StepInv
<1> QED
  BY <1>1, <1>17

\* The first n chats quit.
Quits(w, n, f) ==
  f = [k \in 0 .. n |-> IF k = 0 THEN w
                        ELSE IF w.chat[k].st = "live" /\ w.chat[k].refs > 0 THEN ChatClose(RoomLeave(f[k - 1], k), k) ELSE f[k - 1]]

LEMMA QuitsExists ==
  ASSUME NEW w, NEW n \in Nat
  PROVE  \E f : Quits(w, n, f)
<1> DEFINE Bad == {i \in Nat : ~\E f : Quits(w, i, f)}
<1>1. SUFFICES ASSUME Bad # {} PROVE FALSE
  OBVIOUS
<1>2. PICK m \in Bad : \A i \in Bad : m <= i
  BY <1>1, LeastOfNaturals
<1>3. CASE m = 0
  <2> DEFINE f == [k \in 0 .. 0 |-> w]
  <2>1. Quits(w, 0, f)
    BY DEF Quits
  <2> QED
    BY <1>3, <2>1
<1>4. CASE m # 0
  <2>1. m - 1 \in Nat /\ m - 1 \notin Bad
    BY <1>2, <1>4
  <2>2. PICK f : Quits(w, m - 1, f)
    BY <2>1
  <2> DEFINE last == IF w.chat[m].st = "live" /\ w.chat[m].refs > 0 THEN ChatClose(RoomLeave(f[m - 1], m), m) ELSE f[m - 1]
             g == [k \in 0 .. m |-> IF k = m THEN last ELSE f[k]]
  <2>6. m \in Nat /\ m - 1 # m
    BY <1>2
  <2> HIDE DEF last, Bad
  <2>3. ASSUME NEW k \in 0 .. m
        PROVE  g[k] = IF k = 0 THEN w
                      ELSE IF w.chat[k].st = "live" /\ w.chat[k].refs > 0 THEN ChatClose(RoomLeave(g[k - 1], k), k) ELSE g[k - 1]
    <3>1. k = m => g[k - 1] = f[m - 1]
      <4>1. m - 1 \in 0 .. m
        BY <2>1, <2>6
      <4> QED
        BY <2>6, <4>1
    <3>2. k # m => k \in 0 .. (m - 1) /\ g[k] = f[k] /\ (k # 0 => g[k - 1] = f[k - 1])
      <4>1. k # m => k \in 0 .. (m - 1) /\ k - 1 # m /\ (k # 0 => k - 1 \in 0 .. m)
        BY <2>1, <2>6
      <4> QED
        BY <4>1
    <3>3. g[m] = IF w.chat[m].st = "live" /\ w.chat[m].refs > 0 THEN ChatClose(RoomLeave(f[m - 1], m), m) ELSE f[m - 1]
      BY <2>6 DEF last
    <3> HIDE DEF g
    <3>4. CASE k = m
      BY <1>4, <3>1, <3>3, <3>4
    <3>5. CASE k # m
      <4>1. f[k] = IF k = 0 THEN w
                   ELSE IF w.chat[k].st = "live" /\ w.chat[k].refs > 0 THEN ChatClose(RoomLeave(f[k - 1], k), k) ELSE f[k - 1]
        BY <2>2, <3>2, <3>5 DEF Quits
      <4> QED
        BY <3>2, <3>5, <4>1
    <3> QED
      BY <3>4, <3>5
  <2>4. g = [k \in 0 .. m |-> g[k]]
    OBVIOUS
  <2> HIDE DEF g
  <2>5. Quits(w, m, g)
    BY <2>3, <2>4 DEF Quits
  <2> QED
    BY <1>2, <2>5 DEF Bad
<1> QED
  BY <1>3, <1>4

LEMMA ChatsQuitKeeps ==
  ASSUME NEW w, Good(w), Loose(w)
  PROVE  Keeps(w, ChatsQuit(w))
<1> DEFINE f == CHOOSE h : Quits(w, MaxSessions, h)
<1>1. MaxSessions \in Nat
  BY WebAssumption
<1>2. Quits(w, MaxSessions, f)
  BY <1>1, QuitsExists
<1>3. ChatsQuit(w) = f[MaxSessions]
  BY DEF ChatsQuit, Quits
<1> HIDE DEF f
<1> DEFINE Bad == {n \in 0 .. MaxSessions : ~Keeps(w, f[n])}
<1>4. Bad = {}
  <2>1. SUFFICES ASSUME Bad # {} PROVE FALSE
    OBVIOUS
  <2>2. Bad \in SUBSET Nat
    BY <1>1
  <2>3. PICK n \in Bad : \A i \in Bad : n <= i
    <3> HIDE DEF Bad
    <3> QED
      BY <2>1, <2>2, LeastOfNaturals
  <2>4. n \in 0 .. MaxSessions /\ ~Keeps(w, f[n])
    BY <2>3
  <2>5. CASE n = 0
    <3>1. f[0] = w
      BY <1>1, <1>2 DEF Quits
    <3> QED
      BY <2>4, <2>5, <3>1, KeptSelf DEF Keeps
  <2>6. CASE n # 0
    <3>1. n - 1 \in 0 .. MaxSessions /\ ~(n <= n - 1) /\ n \in Chat
      BY <1>1, <2>4, <2>6 DEF Chat
    <3>2. n - 1 \notin Bad
      <4> HIDE DEF Bad
      <4> QED
        BY <2>3, <3>1
    <3> DEFINE u == f[n - 1]
               v == RoomLeave(u, n)
    <3>3. Keeps(w, u)
      BY <3>1, <3>2
    <3>4. f[n] = IF w.chat[n].st = "live" /\ w.chat[n].refs > 0 THEN ChatClose(v, n) ELSE u
      BY <1>2, <2>4, <2>6 DEF Quits
    <3> HIDE DEF u, Bad
    <3>5. CASE ~(w.chat[n].st = "live" /\ w.chat[n].refs > 0)
      BY <2>4, <3>3, <3>4, <3>5
    <3>6. CASE w.chat[n].st = "live" /\ w.chat[n].refs > 0
      <4>1. Good(u) /\ u.chat[n].st = "live"
        BY <3>1, <3>3, <3>6, KeepsLive
      <4>2. Talk(u, v, n)
        BY <3>1, <4>1, RoomLeaveTalk
      <4>3. Keeps(u, v)
        BY <4>2 DEF Talk, Keeps
      <4> HIDE DEF v
      <4>4. Keeps(w, v)
        BY <3>3, <4>3, KeepsTwice
      <4>5. Good(v) /\ v.chat[n].st = "live" /\ Loose(v)
        BY <3>1, <3>6, <4>4, KeepsLive, LooseKept DEF Keeps
      <4>6. Mine(v, n)
        BY <3>1, <4>5, LooseQuit
      <4>7. Keeps(v, ChatClose(v, n))
        BY <3>1, <4>5, <4>6, ChatCloseGood DEF Keeps
      <4>8. Keeps(w, ChatClose(v, n))
        BY <4>4, <4>7, KeepsTwice
      <4> QED
        BY <2>4, <3>4, <3>6, <4>8
    <3> QED
      BY <3>5, <3>6
  <2> QED
    BY <2>5, <2>6
<1> QED
  BY <1>1, <1>3, <1>4

LEMMA HttpQuitStep ==
  ASSUME NEW w, Good(w), Loose(w), Referred(w)
  PROVE  Step(w, HttpQuit(w), None, 0)
<1> DEFINE C == {c \in Conn : w.http[c].st = "live"}
           v == HttpClose(w, C)
<1>1. /\ Good(v) /\ v.ses = w.ses /\ v.chat = w.chat /\ v.created = w.created
      /\ \A n \in Number : v.reg[n] \in {w.reg[n], None}
      /\ v.http = HttpClosed(w, C)
  <2>1. C \in SUBSET Conn /\ AllQuit(w)
    BY LooseQuit
  <2> HIDE DEF C
  <2> QED
    BY <2>1, HttpCloseGood
<1> HIDE DEF v
<1>2. \A c \in Conn : v.http[c].down = w.http[c].down /\ (c \in C => v.http[c].fd = NoFd) /\ (c \notin C => v.http[c] = w.http[c])
  <2>1. w \in Worlds /\ C \in SUBSET Conn
    BY DEF Good
  <2> HIDE DEF C
  <2>2. \A c \in Conn : LET h == HttpClosed(w, C)[c] IN
          /\ h.down = w.http[c].down /\ h.fd = (IF c \in C THEN NoFd ELSE w.http[c].fd) /\ (c \notin C => h = w.http[c])
    BY <2>1, HttpClosedKeeps
  <2> QED
    BY <1>1, <2>2
<1> HIDE DEF C
<1>3. Loose(v) /\ Referred(v)
  BY <1>1, <1>2 DEF Loose, Referred
<1>4. ASSUME NEW d \in Conn, Heard(v, d)
      PROVE  Heard(w, d) /\ v.http[d].answers = w.http[d].answers
  <2>1. v.http[d] = w.http[d] /\ d # None
    BY <1>2, <1>4, WebAssumption DEF Heard
  <2>2. w.http[d].fd \in Number
    BY <1>4, <2>1 DEF Heard, Good, Worlds, Http
  <2> QED
    BY <1>1, <1>4, <2>1, <2>2 DEF Heard
<1>5. \A s \in Slot : w.ses[s].refs \in Int
  BY DEF Good, Worlds, Session
<1>6. w.created <= w.created /\ None \notin Conn
  BY WebAssumption DEF Good, Worlds, Chat
<1>7. Step(w, v, None, 0)
  BY <1>1, <1>3, <1>4, <1>5, <1>6 DEF Step
<1> QED
  BY <1>7 DEF HttpQuit, v, C

LEMMA PluginCallInv ==
  ASSUME NEW w, NEW r \in Nat, Inv(w, r)
  PROVE  Inv(PluginCall(w), r)
<1> DEFINE u == ChatsQuit(w)
           v == HttpQuit(u)
           S == {s \in Slot : v.ses[s].st = "live"}
           x == SessionClose(v, S)
<1>1. PluginCall(w) = x
  BY DEF PluginCall, SessionsQuit
<1>2. r + 0 = r
  OBVIOUS
<1>3. Inv(u, r)
  <2>1. Good(w) /\ Loose(w) /\ Referred(w)
    BY InvReferred
  <2>2. Step(w, u, None, 0)
    BY <2>1, ChatsQuitKeeps, KeptStep DEF Keeps
  <2> HIDE DEF u
  <2> QED
    BY <1>2, <2>2, StepInv
<1> HIDE DEF u
<1>4. Inv(v, r)
  <2>1. Good(u) /\ Loose(u) /\ Referred(u)
    BY <1>3, InvReferred
  <2>2. Step(u, v, None, 0)
    BY <2>1, HttpQuitStep
  <2> HIDE DEF v
  <2> QED
    BY <1>2, <1>3, <2>2, StepInv
<1> HIDE DEF v
<1>5. Inv(x, r)
  <2>1. Good(v) /\ Loose(v) /\ Referred(v) /\ AllQuit(v) /\ S \in SUBSET Slot
    BY <1>4, InvReferred, LooseQuit
  <2> HIDE DEF S
  <2>2. Good(x) /\ Kept(v, x)
    BY <2>1, SessionCloseGood
  <2> HIDE DEF x
  <2>3. Step(v, x, None, 0)
    BY <2>1, <2>2, KeptStep
  <2> QED
    BY <1>2, <1>4, <2>3, StepInv
<1> QED
  BY <1>1, <1>5

-----------------------------------------------------------------------------
\* Every action, by what it makes of the world.
LEMMA BecomesIs ==
  ASSUME NEW w \in Worlds, Becomes(w)
  PROVE  World' = w
BY DEF Becomes, World, Worlds

LEMMA InputsIs ==
  ASSUME NEW sid, NEW in \in Inputs(sid)
  PROVE  (in.line = "pm" => in.to \in Chat) /\ in.greets \in BOOLEAN
<1> DEFINE Said(line) == [line |-> line, greets |-> FALSE, to |-> 0]
<1>1. \/ \E line \in Lines \ {"pm", "text"} : in = Said(line)
      \/ in = Said("empty")
      \/ \E k \in Chat : in = [Said("pm") EXCEPT !.to = k]
      \/ \E g \in BOOLEAN : in = [Said("text") EXCEPT !.greets = g]
  BY DEF Inputs
<1>2. CASE \E line \in Lines \ {"pm", "text"} : in = Said(line)
  BY <1>2
<1>3. CASE in = Said("empty")
  BY <1>3
<1>4. CASE \E k \in Chat : in = [Said("pm") EXCEPT !.to = k]
  BY <1>4
<1>5. CASE \E g \in BOOLEAN : in = [Said("text") EXCEPT !.greets = g]
  BY <1>5
<1> QED
  BY <1>1, <1>2, <1>3, <1>4, <1>5

\* The inductive invariant.
WebInv == Inv(World, requests) /\ requests \in 0 .. MaxRequests /\ quiting \in BOOLEAN

LEMMA InvMore == ASSUME NEW w, NEW r \in Nat, Inv(w, r) PROVE Inv(w, r + 1)
<1>1. \A n \in 1 .. r + 1 : n \in 1 .. (r + 1) + 1
  OBVIOUS
<1> QED
  BY <1>1 DEF Inv

\* A step without a request, and one with a request.
LEMMA UnaskedInv ==
  ASSUME WebInv, NEW w, NEW c, Step(World, w, c, 0), Becomes(w), Unasked
  PROVE  WebInv'
<1>1. requests \in Nat
  BY WebAssumption DEF WebInv
<1>2. Inv(w, requests + 0)
  BY <1>1, StepInv DEF WebInv
<1>3. World' = w
  BY BecomesIs DEF Step, Good
<1>4. Inv(World', requests')
  BY <1>1, <1>2, <1>3 DEF Unasked
<1> QED
  BY <1>4 DEF WebInv, Unasked

LEMMA HandledInv ==
  ASSUME WebInv, NEW w, Inv(w, requests + 1), Becomes(w), Handled
  PROVE  WebInv'
<1>1. World' = w
  BY BecomesIs DEF Inv, Good
<1>2. requests' \in 0 .. MaxRequests
  BY WebAssumption DEF WebInv, Handled
<1>3. Inv(World', requests')
  BY <1>1 DEF Handled
<1> QED
  BY <1>2, <1>3 DEF WebInv, Handled

LEMMA WebInvHas ==
  ASSUME WebInv
  PROVE  Good(World) /\ Loose(World) /\ Referred(World) /\ requests \in Nat /\ Inv(World, requests)
<1>1. requests \in Nat
  BY WebAssumption DEF WebInv
<1> QED
  BY <1>1, InvReferred DEF WebInv

\* Whoever can be heard has its number open.
LEMMA HeardOpen ==
  ASSUME WebInv, NEW c \in Conn, Readable(c)
  PROVE  Open(World, c)
<1>1. Good(World)
  BY WebInvHas
<1>2. World.http[c].fd = http[c].fd /\ World.reg = reg /\ World.desc = desc /\ World.http = http
  BY DEF World
<1>3. http[c].fd \in Number /\ reg[http[c].fd] = c /\ c # None /\ http[c].fd # NoFd
  BY <1>1, <1>2, WebAssumption DEF Readable, Good, Worlds, Http
<1> QED
  BY <1>1, <1>2, <1>3 DEF Good, Owned, Open

LEMMA WelcomeInv == ASSUME WebInv, NEW c \in Conn, Welcome(c) PROVE WebInv'
<1>1. Step(World, Opened(c), c, 0)
  BY WebInvHas, OpenedStep DEF Welcome
<1> QED
  BY <1>1, UnaskedInv DEF Welcome

LEMMA MovedInv == ASSUME WebInv, NEW c \in Conn, Moved(c) PROVE WebInv'
<1> DEFINE u == Opened(c)
<1>1. PICK sid \in Chat : \E in \in Inputs(sid) : \E w \in Webchat(u, c, sid, in) : Becomes(w)
  BY DEF Moved
<1>2. PICK in \in Inputs(sid) : \E w \in Webchat(u, c, sid, in) : Becomes(w)
  BY <1>1
<1>3. PICK w \in Webchat(u, c, sid, in) : Becomes(w)
  BY <1>2
<1>4. requests \in Nat /\ Inv(World, requests)
  BY WebInvHas
<1>5. Step(World, u, c, 0) /\ Open(u, c)
  BY WebInvHas, OpenedStep DEF Moved
<1> HIDE DEF u
<1>6. Inv(u, requests + 0)
  BY <1>4, <1>5, StepInv
<1>7. Inv(u, requests)
  BY <1>4, <1>6
<1>8. Good(u) /\ Loose(u) /\ Referred(u)
  BY <1>4, <1>7, InvReferred
<1>9. (in.line = "pm" => in.to \in Chat) /\ in.greets \in BOOLEAN
  BY InputsIs
<1>10. Step(u, w, c, 1)
  BY <1>3, <1>5, <1>8, <1>9, WebchatStep
<1>11. Inv(w, requests + 1)
  BY <1>4, <1>7, <1>10, StepInv
<1> QED
  BY <1>3, <1>11, HandledInv DEF Moved

LEMMA ChatsInv == ASSUME WebInv, NEW c \in Conn, Chats(c) PROVE WebInv'
<1>1. PICK sid \in Chat \cup {NoSid} : \E in \in Inputs(sid) : \E w \in Webchat(World, c, sid, in) : Becomes(w)
  BY DEF Chats
<1>2. PICK in \in Inputs(sid) : \E w \in Webchat(World, c, sid, in) : Becomes(w)
  BY <1>1
<1>3. PICK w \in Webchat(World, c, sid, in) : Becomes(w)
  BY <1>2
<1>4. Good(World) /\ Loose(World) /\ Referred(World) /\ requests \in Nat /\ Inv(World, requests)
  BY WebInvHas
<1>5. Open(World, c)
  BY HeardOpen DEF Chats
<1>6. (in.line = "pm" => in.to \in Chat) /\ in.greets \in BOOLEAN
  BY InputsIs
<1>7. Step(World, w, c, 1)
  BY <1>3, <1>4, <1>5, <1>6, WebchatStep
<1>8. Inv(w, requests + 1)
  BY <1>4, <1>7, StepInv
<1> QED
  BY <1>3, <1>8, HandledInv DEF Chats

LEMMA DisconnectInv == ASSUME WebInv, NEW c \in Conn, Disconnect(c) PROVE WebInv'
<1>1. Step(World, HttpFree(World, c), None, 0)
  BY WebInvHas, HttpFreeStep
<1> QED
  BY <1>1, UnaskedInv DEF Disconnect

LEMMA TestPageInv == ASSUME WebInv, NEW c \in Conn, TestPage(c) PROVE WebInv'
<1> DEFINE w == HttpFree(World, c)
<1>1. Good(World) /\ Loose(World) /\ Referred(World) /\ requests \in Nat /\ Inv(World, requests)
  BY WebInvHas
<1>2. Step(World, w, None, 0) /\ Becomes(w) /\ Handled
  BY <1>1, HttpFreeStep DEF TestPage
<1> HIDE DEF w
<1>3. Inv(w, requests + 0)
  BY <1>1, <1>2, StepInv
<1>4. Inv(w, requests + 1)
  BY <1>1, <1>3, InvMore
<1> QED
  BY <1>2, <1>4, HandledInv

LEMMA MalformedInv == ASSUME WebInv, NEW c \in Conn, Malformed(c) PROVE WebInv'
<1> DEFINE w == World
           h == WithAnswers(w.http[c], -1)
           v == SetHttp(w, c, h)
<1>1. Good(w) /\ Loose(w) /\ Referred(w) /\ requests \in Nat /\ Inv(w, requests)
  BY WebInvHas
<1>2. Becomes(v) /\ Handled
  BY DEF Malformed, SetHttp, WithAnswers
<1>3. h \in Http /\ h.st = w.http[c].st /\ h.fd = w.http[c].fd /\ h.down = w.http[c].down /\ h.answers = -1
  <2>1. w.http[c] \in Http
    BY <1>1 DEF Good, Worlds
  <2>2. -1 \in Int
    OBVIOUS
  <2> QED
    BY <2>1, <2>2, AnswersField
<1> HIDE DEF w, h
<1>4. /\ Good(v) /\ Loose(v) /\ v.desc = w.desc /\ v.reg = w.reg /\ v.ses = w.ses /\ v.chat = w.chat
      /\ v.created = w.created /\ v.http[c] = h /\ \A d \in Conn : d # c => v.http[d] = w.http[d]
  BY <1>1, <1>3, HttpGood
<1> HIDE DEF v
<1>5. Step(w, v, c, 1)
  <2>1. w.created <= v.created
    BY <1>4, WebAssumption DEF Good, Worlds, Chat
  <2>2. ASSUME NEW s \in Slot, v.ses[s].st = "live"
        PROVE  v.ses[s].refs >= 1 /\ v.ses[s].refs <= (IF w.ses[s].st = "live" THEN w.ses[s].refs ELSE 1) + 1
    <3>1. w.ses[s].refs \in Int /\ w.ses[s].st = "live" /\ v.ses[s] = w.ses[s]
      BY <1>1, <1>4, <2>2 DEF Good, Worlds, Session
    <3> QED
      BY <1>1, <3>1 DEF Referred
  <2>3. ASSUME NEW d \in Conn, d # c, Heard(v, d)
        PROVE  Heard(w, d) /\ v.http[d].answers = w.http[d].answers
    BY <1>4, <2>3 DEF Heard
  <2>4. v.http[c].answers = -1
    BY <1>3, <1>4
  <2> QED
    BY <1>4, <2>1, <2>2, <2>3, <2>4 DEF Step, Referred
<1>6. Inv(v, requests + 1)
  BY <1>1, <1>5, StepInv
<1> QED
  BY <1>2, <1>6, HandledInv

LEMMA PageInv == ASSUME WebInv, NEW c \in Conn, Page(c) PROVE WebInv'
<1> DEFINE w == HttpSend([World EXCEPT !.http[c].answers = 0], c)
<1>1. Good(World) /\ Loose(World) /\ Referred(World) /\ requests \in Nat /\ Inv(World, requests)
  BY WebInvHas
<1>2. Step(World, w, c, 1)
  BY <1>1, PageStep
<1>3. Becomes(w) /\ Handled
  BY DEF Page
<1> HIDE DEF w
<1>4. Inv(w, requests + 1)
  BY <1>1, <1>2, StepInv
<1> QED
  BY <1>3, <1>4, HandledInv

LEMMA LeavesInv == ASSUME WebInv, NEW c \in Conn, Leaves(c) PROVE WebInv'
<1>1. PICK ok \in BOOLEAN : Becomes(Transfer(World, c, ok))
  BY DEF Leaves
<1> DEFINE w == Transfer(World, c, ok)
<1>2. Good(World) /\ Loose(World) /\ Referred(World) /\ requests \in Nat /\ Inv(World, requests)
  BY WebInvHas
<1>3. Step(World, w, None, 0)
  BY <1>2, TransferStep
<1>4. Becomes(w) /\ Handled
  BY <1>1 DEF Leaves
<1> HIDE DEF w
<1>5. Inv(w, requests + 0)
  BY <1>2, <1>3, StepInv
<1>6. Inv(w, requests + 1)
  BY <1>2, <1>5, InvMore
<1> QED
  BY <1>4, <1>6, HandledInv

\* What only keeps what it must.
LEMMA KeepsInv ==
  ASSUME WebInv, NEW w, Keeps(World, w), Becomes(w), Unasked
  PROVE  WebInv'
<1>1. Step(World, w, None, 0)
  BY WebInvHas, KeptStep DEF Keeps
<1> QED
  BY <1>1, UnaskedInv

LEMMA AskingLive ==
  ASSUME WebInv, NEW k \in Chat, chat[k].asks # "none"
  PROVE  Good(World) /\ World.chat[k].st = "live"
<1>1. Good(World)
  BY WebInvHas
<1>2. World.chat = chat
  BY DEF World
<1> QED
  BY <1>1, <1>2 DEF Good, Linked

LEMMA LoginAnswerInv == ASSUME WebInv, NEW k \in Chat, NEW success \in BOOLEAN, LoginAnswer(k, success) PROVE WebInv'
<1> DEFINE w == Cleared(World, k)
           u == LoggedIn(w, k)
           v == CASE chat[k].quit -> GetFails(w, k)
                  [] ~chat[k].quit /\ success -> ChatSend(u, k, FALSE)
                  [] OTHER -> ChatSend(w, k, FALSE)
<1>1. Becomes(v) /\ Unasked /\ chat[k].asks = "login"
  BY DEF LoginAnswer, Cleared, Answered
<1>2. Good(World) /\ World.chat[k].st = "live"
  BY <1>1, AskingLive
<1>3. Keeps(World, w)
  BY <1>2, ClearedKeeps
<1> HIDE DEF w
<1>4. Good(w) /\ w.chat[k].st = "live"
  BY <1>2, <1>3, KeepsLive
<1>5. Keeps(w, u)
  BY <1>4, LoggedInKeeps
<1> HIDE DEF u
<1>6. Good(u) /\ u.chat[k].st = "live"
  BY <1>4, <1>5, KeepsLive
<1>7. Keeps(u, ChatSend(u, k, FALSE)) /\ Keeps(w, ChatSend(w, k, FALSE))
  BY <1>4, <1>6, SendKeeps
<1>8. Keeps(World, ChatSend(u, k, FALSE)) /\ Keeps(World, ChatSend(w, k, FALSE)) /\ Keeps(World, GetFails(w, k))
  BY <1>3, <1>4, <1>5, <1>7, KeepsTwice, GetFailsKeeps
<1>9. v = GetFails(w, k) \/ v = ChatSend(u, k, FALSE) \/ v = ChatSend(w, k, FALSE)
  OBVIOUS
<1> HIDE DEF v
<1>10. Keeps(World, v)
  BY <1>8, <1>9
<1> QED
  BY <1>1, <1>10, KeepsInv

LEMMA JoinAnswerInv == ASSUME WebInv, NEW k \in Chat, NEW where, NEW ok \in BOOLEAN, JoinAnswer(k, where, ok) PROVE WebInv'
<1> DEFINE w == Cleared(World, k)
           u == ChatSend(w, k, TRUE)
           v == CASE chat[k].quit -> GetFails(w, k)
                  [] ~chat[k].quit /\ where = "here" -> RoomJoin(u, k)
                  [] ~chat[k].quit /\ where = "elsewhere" -> ChatMove(u, k, ok)
                  [] OTHER -> ChatSend(w, k, FALSE)
<1>1. Becomes(v) /\ Unasked /\ chat[k].asks = "join"
  BY DEF JoinAnswer, Cleared, Answered
<1>2. Good(World) /\ World.chat[k].st = "live"
  BY <1>1, AskingLive
<1>3. Keeps(World, w)
  BY <1>2, ClearedKeeps
<1> HIDE DEF w
<1>4. Good(w) /\ w.chat[k].st = "live"
  BY <1>2, <1>3, KeepsLive
<1>5. Keeps(w, u) /\ Keeps(w, ChatSend(w, k, FALSE))
  BY <1>4, SendKeeps
<1> HIDE DEF u
<1>6. Keeps(World, u) /\ Keeps(World, ChatSend(w, k, FALSE)) /\ Keeps(World, GetFails(w, k))
  BY <1>3, <1>4, <1>5, KeepsTwice, GetFailsKeeps
<1>7. Good(u) /\ u.chat[k].st = "live" /\ Loose(u)
  <2>1. Loose(World)
    BY WebInvHas
  <2> QED
    BY <1>2, <1>6, <2>1, KeepsLive, LooseKept DEF Keeps
<1>8. Keeps(u, RoomJoin(u, k)) /\ Keeps(u, ChatMove(u, k, ok))
  BY <1>7, RoomJoinKeeps, ChatMoveKeeps
<1>9. Keeps(World, RoomJoin(u, k)) /\ Keeps(World, ChatMove(u, k, ok))
  BY <1>6, <1>8, KeepsTwice
<1>10. v = GetFails(w, k) \/ v = RoomJoin(u, k) \/ v = ChatMove(u, k, ok) \/ v = ChatSend(w, k, FALSE)
  OBVIOUS
<1> HIDE DEF v
<1>11. Keeps(World, v)
  BY <1>6, <1>9, <1>10
<1> QED
  BY <1>1, <1>11, KeepsInv

LEMMA RoomsAnswerInv == ASSUME WebInv, NEW k \in Chat, RoomsAnswer(k) PROVE WebInv'
<1> DEFINE w == Cleared(World, k)
           v == IF chat[k].quit THEN GetFails(w, k) ELSE ChatSend(w, k, FALSE)
<1>1. Becomes(v) /\ Unasked /\ chat[k].asks = "rooms"
  BY DEF RoomsAnswer, Cleared, Answered
<1>2. Good(World) /\ World.chat[k].st = "live"
  BY <1>1, AskingLive
<1>3. Keeps(World, w)
  BY <1>2, ClearedKeeps
<1> HIDE DEF w
<1>4. Keeps(w, ChatSend(w, k, FALSE)) /\ Keeps(w, GetFails(w, k))
  BY <1>2, <1>3, KeepsLive, SendKeeps, GetFailsKeeps
<1>5. Keeps(World, v)
  BY <1>3, <1>4, KeepsTwice
<1> HIDE DEF v
<1> QED
  BY <1>1, <1>5, KeepsInv

LEMMA AgeInv == ASSUME WebInv, NEW s \in Slot, Age(s) PROVE WebInv'
<1> DEFINE e == [World.ses[s] EXCEPT !.idle = TRUE]
           w == SetSes(World, s, e)
<1>1. Good(World) /\ World \in Worlds
  BY WebInvHas DEF Good
<1>2. Becomes(w) /\ Unasked
  BY DEF Age, Becomes, Unasked, World, SetSes
<1>3. /\ e \in Session /\ e.st = World.ses[s].st /\ e.chat = World.ses[s].chat /\ e.msg = World.ses[s].msg
      /\ e.up = World.ses[s].up /\ e.refs = World.ses[s].refs
  <2>1. ASSUME NEW f \in Session
        PROVE  LET g == [f EXCEPT !.idle = TRUE] IN
               g \in Session /\ g.st = f.st /\ g.chat = f.chat /\ g.msg = f.msg /\ g.up = f.up /\ g.refs = f.refs
    BY DEF Session
  <2>2. World.ses[s] \in Session
    BY <1>1 DEF Worlds
  <2> QED
    BY <2>1, <2>2
<1> HIDE DEF e
<1>4. /\ w \in Worlds /\ w.desc = World.desc /\ w.reg = World.reg /\ w.http = World.http /\ w.chat = World.chat
      /\ w.created = World.created /\ w.ses[s] = e /\ \A t \in Slot : t # s => w.ses[t] = World.ses[t]
  BY <1>1, <1>3, SetSesIs
<1> HIDE DEF w
<1>5. \A t \in Slot : /\ w.ses[t].st = World.ses[t].st /\ w.ses[t].chat = World.ses[t].chat
                      /\ w.ses[t].msg = World.ses[t].msg /\ w.ses[t].up = World.ses[t].up
                      /\ w.ses[t].refs = World.ses[t].refs
  BY <1>3, <1>4
<1>6. Kept(World, w)
  BY <1>4, <1>5 DEF Kept
<1>7. Chained(w)
  BY <1>1, <1>4, <1>5 DEF Good, Chained, Open
<1>8. Good(w)
  BY <1>1, <1>4, <1>5, <1>7, ShapeGood
<1> QED
  BY <1>2, <1>6, <1>8, KeepsInv DEF Keeps

LEMMA LazyCallInv == ASSUME WebInv, LazyCall PROVE WebInv'
<1> DEFINE queued == {k \in Chat : chat[k].lazy}
           last == {chat[k].up : k \in {j \in queued : chat[j].refs = 1}}
           S == {s \in Slot \cap last : ses[s].st = "live"}
           f == [k \in Chat |-> [chat[k] EXCEPT !.lazy = FALSE]]
           w == SetChats(World, f)
           u == Unref(w, queued)
           v == SessionClose(u, S)
<1>1. Becomes(v) /\ Unasked
  BY DEF LazyCall, SetChats
<1>2. Good(World) /\ Loose(World) /\ World.chat = chat /\ World.ses = ses
  BY WebInvHas DEF World
<1>3. \A k \in Chat : chat[k] \in ChatObject
  BY <1>2, ChatIn
<1>4. S \in SUBSET Slot
  OBVIOUS
<1>5. Keeps(World, w)
  <2>1. ASSUME NEW k \in Chat
        PROVE  Flags(World.chat[k], f[k]) /\ f[k].cb = World.chat[k].cb /\ f[k].asks = World.chat[k].asks
    <3>1. f[k] = WithLazy(chat[k], FALSE)
      BY DEF WithLazy
    <3> QED
      BY <1>2, <1>3, <3>1, LazyFields
  <2>2. f = [k \in Chat |-> f[k]]
    OBVIOUS
  <2> HIDE DEF f
  <2> QED
    BY <1>2, <2>1, <2>2, FlagsKeep
<1> HIDE DEF w, queued, S
<1>6. Keeps(w, u)
  BY <1>5, UnrefKeeps DEF Keeps
<1> HIDE DEF u
<1>7. Keeps(World, u)
  BY <1>5, <1>6, KeepsTwice
<1>8. Good(u) /\ AllQuit(u)
  BY <1>2, <1>7, LooseKept, LooseQuit DEF Keeps
<1>9. Keeps(u, v)
  BY <1>4, <1>8, SessionCloseGood DEF Keeps
<1> HIDE DEF v
<1>10. Keeps(World, v)
  BY <1>7, <1>9, KeepsTwice
<1> QED
  BY <1>1, <1>10, KeepsInv

LEMMA SweepInv == ASSUME WebInv, Sweep PROVE WebInv'
<1> DEFINE w == SessionEnd(World, Idle)
<1>1. Idle \in SUBSET Slot /\ requests \in Nat /\ Inv(World, requests)
  BY WebInvHas DEF Idle
<1>2. Becomes(w) /\ Unasked
  BY DEF Sweep
<1>3. Inv(w, requests)
  BY <1>1, SessionEndInv
<1> HIDE DEF w
<1>4. World' = w
  BY <1>2, <1>3, BecomesIs DEF Inv, Good
<1>5. Inv(World', requests')
  BY <1>2, <1>3, <1>4 DEF Unasked
<1> QED
  BY <1>2, <1>5 DEF WebInv, Unasked

LEMMA SoftQuitInv == ASSUME WebInv, SoftQuit PROVE WebInv'
<1> DEFINE w == PluginCall(World)
<1>1. Becomes(w) /\ requests' = requests /\ quiting' = TRUE
  BY DEF SoftQuit
<1>2. Inv(w, requests)
  BY WebInvHas, PluginCallInv
<1> HIDE DEF w
<1>3. World' = w
  BY <1>1, <1>2, BecomesIs DEF Inv, Good
<1>4. Inv(World', requests')
  BY <1>1, <1>2, <1>3
<1> QED
  BY <1>1, <1>4 DEF WebInv

LEMMA InitInv == Init => WebInv
<1> SUFFICES ASSUME Init PROVE WebInv
  OBVIOUS
<1> DEFINE w == World
<1>1. /\ w.desc = [n \in Number |-> None] /\ w.reg = [n \in Number |-> None] /\ w.http = [c \in Conn |-> NoHttp]
      /\ w.ses = [s \in Slot |-> NoSession] /\ w.chat = [k \in Chat |-> NoChat] /\ w.created = 0
  BY DEF World, Init
<1>2. NoHttp \in Http /\ NoHttp.down = None /\ NoHttp.st = "none" /\ NoHttp.st # "live"
  BY DEF NoHttp, Http
<1>3. NoSession \in Session /\ NoSession.up = None /\ NoSession.st # "live"
  <2>1. <<>> \in Seq(Chat)
    OBVIOUS
  <2> QED
    BY <2>1 DEF NoSession, Session
<1>4. NoChat \in ChatObject /\ NoChat.st # "live" /\ NoChat.cb = "none" /\ NoChat.asks = "none"
  BY DEF NoChat, ChatObject
<1>5. w \in Worlds
  <2>1. w = [desc |-> w.desc, reg |-> w.reg, http |-> w.http, ses |-> w.ses, chat |-> w.chat, created |-> w.created]
    BY DEF World
  <2> HIDE DEF w
  <2> QED
    BY <1>1, <1>2, <1>3, <1>4, <2>1 DEF Worlds
<1> HIDE DEF w
<1>6. Loose(w)
  BY <1>1, <1>2, <1>3 DEF Loose
<1>7. Owned(w) /\ Waits(w)
  BY <1>1, <1>3 DEF Owned, Waits
<1>8. Chained(w)
  BY <1>6 DEF Loose, Chained
<1>9. Linked(w)
  <2>1. \A k \in Chat : ~(k <= 0)
    BY WebAssumption DEF Chat
  <2> QED
    BY <1>1, <1>3, <1>4, <2>1 DEF Linked
<1>10. Good(w)
  BY <1>5, <1>7, <1>8, <1>9 DEF Good
<1>11. Inv(w, 0)
  <2>1. \A c \in Conn : ~Heard(w, c)
    BY <1>1, <1>2 DEF Heard
  <2> QED
    BY <1>1, <1>3, <1>6, <1>10, <2>1 DEF Inv
<1>12. requests = 0 /\ quiting = FALSE /\ MaxRequests \in Nat
  BY WebAssumption DEF Init
<1>13. Inv(World, requests)
  BY <1>11, <1>12 DEF w
<1>14. requests \in 0 .. MaxRequests /\ quiting \in BOOLEAN
  <2>1. requests \in 0 .. MaxRequests
    BY <1>12
  <2>2. quiting \in BOOLEAN
    BY <1>12
  <2> QED
    BY <2>1, <2>2
<1> QED
  BY <1>13, <1>14 DEF WebInv

LEMMA NextInv == WebInv /\ [Next]_vars => WebInv'
<1> SUFFICES ASSUME WebInv, [Next]_vars PROVE WebInv'
  OBVIOUS
<1>1. ASSUME NEW c \in Conn, Welcome(c) \/ Moved(c) \/ Disconnect(c) \/ TestPage(c) \/ Malformed(c)
                                     \/ Page(c) \/ Chats(c) \/ Leaves(c)
      PROVE  WebInv'
  BY <1>1, WelcomeInv, MovedInv, DisconnectInv, TestPageInv, MalformedInv, PageInv, ChatsInv, LeavesInv
<1>2. ASSUME NEW k \in Chat, NEW b \in BOOLEAN, LoginAnswer(k, b) \/ JoinAnswer(k, "elsewhere", b)
      PROVE  WebInv'
  BY <1>2, LoginAnswerInv, JoinAnswerInv
<1>3. ASSUME NEW k \in Chat, JoinAnswer(k, "here", TRUE) \/ JoinAnswer(k, "none", TRUE) \/ RoomsAnswer(k)
      PROVE  WebInv'
  BY <1>3, JoinAnswerInv, RoomsAnswerInv
<1>4. ASSUME NEW s \in Slot, Age(s)
      PROVE  WebInv'
  BY <1>4, AgeInv
<1>5. CASE Sweep
  BY <1>5, SweepInv
<1>6. CASE SoftQuit
  BY <1>6, SoftQuitInv
<1>8. CASE LazyCall
  BY <1>8, LazyCallInv
<1>7. CASE UNCHANGED vars
  <2>1. World' = World /\ requests' = requests /\ quiting' = quiting
    BY <1>7 DEF vars, World
  <2>2. Inv(World', requests')
    BY <2>1 DEF WebInv
  <2> QED
    BY <2>1, <2>2 DEF WebInv
<1> QED
  BY <1>1, <1>2, <1>3, <1>4, <1>5, <1>6, <1>7, <1>8 DEF Next

LEMMA WebInvAlways == Spec => []WebInv
BY InitInv, NextInv, PTL DEF Spec

-----------------------------------------------------------------------------
\* Types, and the references of sessions: none is freed while it is referred to (web_session_factory.c).
THEOREM WebTypesCorrect == Spec => []TypeOK
<1>1. WebInv => TypeOK
  <2> SUFFICES ASSUME WebInv PROVE TypeOK
    OBVIOUS
  <2>1. Good(World) /\ requests \in 0 .. MaxRequests /\ quiting \in BOOLEAN
    BY DEF WebInv, Inv
  <2>2. World.ses = ses /\ World.chat = chat /\ World.created = created
    BY DEF World
  <2>3. ASSUME NEW s \in Slot, ses[s].st = "live"
        PROVE  ses[s].refs \in 1 .. requests + 1 /\ ses[s].chat \in 1 .. created /\ chat[ses[s].chat].up = s
    <3>1. ses[s].refs \in 1 .. requests + 1
      BY <2>2, <2>3 DEF WebInv, Inv
    <3>2. ses[s].chat \in 1 .. created /\ chat[ses[s].chat].up = s
      BY <2>1, <2>2, <2>3 DEF Good, Linked
    <3> QED
      BY <3>1, <3>2
  <2> QED
    BY <2>1, <2>3 DEF TypeOK, Good
<1> QED
  BY <1>1, WebInvAlways, PTL

\* A number is registered for the connection that has it open (http_on_client_data), although
\* sessions and moving chats close numbers that others have by now.
THEOREM RegisteredForOwner == Spec => []OwnRegistration
<1>1. WebInv => OwnRegistration
  <2>1. World.reg = reg /\ World.http = http /\ World.desc = desc
    BY DEF World
  <2> QED
    BY <2>1 DEF WebInv, Inv, Good, Owned, OwnRegistration
<1> QED
  BY <1>1, WebInvAlways, PTL

\* No request leaves its connection chained to a session (http_webchat_create_helper).
THEOREM LeavesUnchained == Spec => []Unchained
<1>1. WebInv => Unchained
  <2>1. World.http = http /\ World.ses = ses
    BY DEF World
  <2> QED
    BY <2>1 DEF WebInv, Inv, Loose, Unchained
<1> QED
  BY <1>1, WebInvAlways, PTL

\* What a chat says between two requests waits in its session (web_session_send_wrapper).
THEOREM KeptForNextRequest == Spec => []Mailbox
<1>1. WebInv => Mailbox
  <2>1. World.ses = ses /\ World.chat = chat
    BY DEF World
  <2> QED
    BY <2>1 DEF WebInv, Inv, Good, Waits, Mailbox, Count
<1> QED
  BY <1>1, WebInvAlways, PTL

\* A request that http_url_parse understands is answered exactly once, by the chat or by its
\* session (http_webchat_plug), and another one never, while no memory of a session was used again.
THEOREM AnsweredOnce == Spec => []OneAnswer
<1>1. WebInv => OneAnswer
  <2>1. World.reg = reg /\ World.http = http /\ World.chat = chat /\ World.created = created
    BY DEF World
  <2>2. UsedAgain <=> Shared(World)
    BY <2>1 DEF UsedAgain, Shared
  <2>3. \A c \in Conn : Readable(c) <=> Heard(World, c)
    BY <2>1 DEF Readable, Heard
  <2> QED
    BY <2>1, <2>2, <2>3 DEF WebInv, Inv, OneAnswer
<1> QED
  BY <1>1, WebInvAlways, PTL
=============================================================================
