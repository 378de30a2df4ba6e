------------------------------ MODULE Transfer ------------------------------
(***************************************************************************)
(* Descriptors that pass from process to process, and their numbers.  The  *)
(* master accepts a client and sends its socket to the next worker; a      *)
(* worker whose client joins a room of another worker sends it on.  Who    *)
(* sends closes its own number (net/src/raw_pipeline.c), which the next    *)
(* socket that comes gets, while the object that had it is destroyed one   *)
(* turn of the fibers later (base/src/fiber.c, lazy_call.c).               *)
(*                                                                         *)
(* An object is a stay of a client at a worker and goes by the client.  A  *)
(* turn of a worker is the lazy calls, one round of the event loop, and    *)
(* the zombie fiber; a handler runs to its end.  Answers of the database   *)
(* come at any time; the rooms and names are in ChatUsers.                 *)
(***************************************************************************)
EXTENDS Integers, Sequences, SequencesExt

CONSTANTS N,            \* NGINZ_NUMBER_OF_PROCESSORS; process 0 is the master
          Forks,        \* the numbers of workers that may have come up
          Client,
          P,            \* ports, in the order of the protocol stacks
          PortOf,       \* PortOf[c]: the port c connects to
          Outcomes,     \* what opening the ports may come to, for each port
          Free,         \* what a number that is not in use stands for
          MaxFd,        \* bound: enough numbers for all
          RawCapacity,  \* RawCapacity[w]: sockets that wait at w before the sender does
          LazySize,     \* NGINZ_LAZY_OBJECT_QUEUE_SIZE
          MaxMoves,     \* bound: moves between workers
          MaxFails      \* bound: sends and accepts that fail

Process == 0..N
Worker == 1..N
Ports == 1..P
Fd == 1..MaxFd
INVALID_FD == -1
MailFd == MaxFd + 1     \* the pipeline's own two sockets of a worker
RawFd == MaxFd + 2

ASSUME TransferAssumption ==
  /\ N \in Nat \ {0} /\ Forks \subseteq Process /\ P \in Nat \ {0}
  /\ PortOf \in [Client -> Ports] /\ Outcomes \subseteq [Ports -> {"listens", "nosocket", "nobind"}]
  /\ Free \notin Client \cup Ports /\ Client \cap Ports = {} /\ IsFiniteSet(Client)
  /\ MaxFd \in Nat /\ MaxFd >= P + Cardinality(Client) /\ RawCapacity \in [Worker -> Nat \ {0}]
  /\ LazySize \in Nat \ {0} /\ {MaxMoves, MaxFails} \subseteq Nat

VARIABLES
  opened,       \* opened[p]: what opening port p came to
  nodes,        \* nodes[i]: the pid in slot i of the master's table, 0 if there is none
  lb,           \* lb[p]: the nid the load balancer of port p gave out last
  tcp_sockets,  \* tcp_sockets[p]: the number kept for the listener of p, or -1
  stopped,      \* has the master executed softquitall?
  new,          \* clients that have not been accepted
  passed,       \* passed[p][w]: how often port p gave slot w a turn
  table,        \* table[p][n]: what number n of process p stands for
  raw,          \* raw[w]: the sockets on their way to w
  mail,         \* mail[w]: the answers and commands on their way to w
  turn,         \* turn[w]: the fiber w is in; "round" between two callbacks
  due,          \* due[w]: the ready entries of w that are still to be called
  reg,          \* reg[w][n]: the object whose on_client_data is registered for n
  obj,          \* obj[w][c]: the object of c at w
  lazy,         \* lazy[w][c]: how often c is in lazy_cleanup_objects
  zombies,      \* zombies[w]: zombie_list
  quiting,      \* the workers with chat_module_is_quiting
  moves,
  fails         \* the clients a send failed for, the ports whose accept failed

masterVars == <<opened, nodes, lb, tcp_sockets, stopped, new, passed>>
fiberVars == <<lazy, zombies>>
vars == <<masterVars, table, raw, mail, turn, due, reg, obj, fiberVars, quiting, moves, fails>>

Object == [live : BOOLEAN, fd : Fd \cup {INVALID_FD},
           state : SUBSET {"quit", "softquit", "zombie"}, refs : 0..4]
NoObject == [live |-> FALSE, fd |-> INVALID_FD, state |-> {}, refs |-> 0]
Allocated(fd) == [live |-> TRUE, fd |-> fd, state |-> {}, refs |-> 1]
NoLazy == [c \in Client |-> 0]
Leaving == {"quit", "softquit", "zombie"}
Mail == [client : Client \cup {Free}, room : 0..N]
Softquitall == [client |-> Free, room |-> 0]

\* The kernel gives out the lowest number.
Lowest(numbers) == CHOOSE n \in Fd : numbers[n] = Free /\ \A m \in 1..(n - 1) : numbers[m] # Free

\* register_fiber puts a fiber into the first empty slot: lazy_call_module_init,
\* event_loop_module_init and chat_zombie_module_init come in this order.
Fibers == <<"lazy", "events", "zombie">>
\* Fault: the event loop comes before the lazy calls.
NextFiberLate(w) ==
  CASE turn[w] = "lazy" -> "zombie" [] turn[w] = "zombie" -> "events" [] OTHER -> "lazy"
\* fiber_module_step: on to the next slot, and from the last to the first.
NextFiber(w) ==
  LET at == IF turn[w] = "round" THEN "events" ELSE turn[w]
      i == CHOOSE i \in DOMAIN Fibers : Fibers[i] = at
  IN Fibers[(i % Len(Fibers)) + 1]
-----------------------------------------------------------------------------
\* tcp_listener_start: a port without a socket keeps -1, one that cannot be bound
\* keeps a number that is closed again.
Started(outcome) ==
  LET after[p \in 0..P] ==
        IF p = 0 THEN [sockets |-> [q \in Ports |-> -1], numbers |-> [n \in Fd |-> Free]]
        ELSE LET s == after[p - 1] IN
          CASE outcome[p] = "nosocket" -> s
            [] outcome[p] = "nobind" -> [s EXCEPT !.sockets[p] = Lowest(s.numbers)]
            [] OTHER -> [s EXCEPT !.sockets[p] = Lowest(s.numbers),
                                  !.numbers[Lowest(s.numbers)] = p]
  IN after[P]

Init ==
  /\ \E forked \in Forks :
       nodes = [i \in Process |-> IF i <= forked THEN i + 1 ELSE 0]
  /\ lb = [p \in Ports |-> 1]     \* load_balancer_setup in the master
  /\ opened \in Outcomes /\ tcp_sockets = Started(opened).sockets
  /\ table = [p \in Process |-> IF p = 0 THEN Started(opened).numbers ELSE [n \in Fd |-> Free]]
  /\ stopped = FALSE /\ new = Client
  /\ passed = [p \in Ports |-> [w \in Worker |-> 0]]
  /\ raw = [w \in Worker |-> <<>>] /\ mail = [w \in Worker |-> <<>>]
  /\ turn = [w \in Worker |-> Fibers[1]] /\ due = [w \in Worker |-> {}]
  /\ reg = [w \in Worker |-> [n \in Fd |-> Free]]
  /\ obj = [w \in Worker |-> [c \in Client |-> NoObject]]
  /\ lazy = [w \in Worker |-> NoLazy] /\ zombies = [w \in Worker |-> {}]
  /\ quiting = {} /\ moves = 0 /\ fails = {}

\* pp_get_raw_fd, pp_find_node: the first slot with that pid.
SlotOf(nid) == CHOOSE i \in Process : nodes[i] = nid /\ \A j \in 0..(i - 1) : nodes[j] # nid
\* Fault: the round ends one slot early.
Next_worker_nidShort(nid) ==
  LET next == (SlotOf(nid) + 1) % N IN nodes[IF next = 0 THEN 1 ELSE next]
Next_worker_nid(nid) ==
  LET next == (SlotOf(nid) + 1) % (N + 1) IN nodes[IF next = 0 THEN 1 ELSE next]

\* sendmsg takes the socket, or fails: the sender closes its number in the one case only.
\* Fault: a socket that is full does not stop the sender.
RawSendsOver(w, c) ==
  /\ raw' = [raw EXCEPT ![w] = Append(@, c)]
  /\ UNCHANGED fails
RawSends(w, c) ==
  /\ Len(raw[w]) < RawCapacity[w]
  /\ raw' = [raw EXCEPT ![w] = Append(@, c)]
  /\ UNCHANGED fails
Fails(of) == Cardinality(fails) < MaxFails /\ fails' = fails \cup {of}
RawFails(c) == Fails(c) /\ UNCHANGED raw

Listening(p) == \E n \in Fd : table[0][n] = p

\* on_connection and on_tcp_connection: the next client of the port is accepted and
\* passed on.
Accept(p) ==
  /\ Listening(p)
  /\ {c \in new : PortOf[c] = p} # {}
  /\ LET c == CHOOSE c \in new : PortOf[c] = p
         nid == Next_worker_nid(lb[p])
         w == SlotOf(nid)
     IN /\ new' = new \ {c}
        /\ lb' = [lb EXCEPT ![p] = nid]
        /\ passed' = [passed EXCEPT ![p][w] = @ + 1]
        /\ \/ RawSends(w, c) /\ UNCHANGED table
           \/ RawFails(c) /\ table' = [table EXCEPT ![0][Lowest(table[0])] = c]
  /\ UNCHANGED <<opened, nodes, tcp_sockets, stopped, mail, turn, due, reg, obj, fiberVars, quiting, moves>>

\* accept fails: the listener is closed, and its number kept.
AcceptFails(p) ==
  /\ Listening(p)
  /\ Fails(p)
  /\ table' = [table EXCEPT ![0] = [n \in Fd |-> IF @[n] = p THEN Free ELSE @[n]]]
  /\ UNCHANGED <<masterVars, raw, mail, turn, due, reg, obj, fiberVars, quiting, moves>>

\* tcp_listener_stop goes through tcp_sockets up to the first -1, and closes what
\* has the number now.
\* Fault: the first listener is the only one.
ReachedFirst(p) == p = 1
Reached(p) == \A q \in 1..p : tcp_sockets[q] # -1

\* shake/softquitall at the master, and its way to every worker (Pipeline).
SoftQuitAll ==
  /\ ~stopped /\ stopped' = TRUE
  /\ table' = [table EXCEPT ![0] = [n \in Fd |->
       IF \E p \in Ports : Reached(p) /\ tcp_sockets[p] = n THEN Free ELSE @[n]]]
  /\ tcp_sockets' = [p \in Ports |-> IF Reached(p) THEN -1 ELSE tcp_sockets[p]]
  /\ mail' = [w \in Worker |-> IF nodes[w] = 0 THEN mail[w] ELSE Append(mail[w], Softquitall)]
  /\ UNCHANGED <<opened, nodes, lb, new, passed, raw, turn, due, reg, obj, fiberVars, quiting, moves, fails>>
-----------------------------------------------------------------------------
Unregistered(w, numbers) == [n \in Fd |-> IF n \in numbers THEN Free ELSE reg[w][n]]

\* default_chat_close: whoever is registered for its number is unregistered, and
\* the number is closed unless the object was marked for a soft quit.
\* Fault: it is closed for those only that are in CHAT_QUIT already.
ClosedNumbersQuit(objects) ==
  {o.fd : o \in {x \in objects : "quit" \in x.state}} \ {INVALID_FD}
ClosedNumbers(objects) ==
  {o.fd : o \in {x \in objects : "softquit" \notin x.state}} \ {INVALID_FD}
Closed(o) ==
  [o EXCEPT !.fd = INVALID_FD,
            !.state = IF @ \cap {"quit", "softquit"} = {} THEN @ \cup {"quit"} ELSE @]
Closes(w, objects) ==
  /\ reg' = [reg EXCEPT ![w] = Unregistered(w, {o.fd : o \in objects})]
  /\ table' = [table EXCEPT ![w] =
       [n \in Fd |-> IF n \in ClosedNumbers(objects) THEN Free ELSE @[n]]]

\* lazy_cleanup, one after the other: a full queue takes no more.
Queues(w, objects) ==
  LET used == SumFunction(lazy[w])
      fits == IF Cardinality(objects) > LazySize - used THEN LazySize - used ELSE Cardinality(objects)
  IN \E taken \in kSubset(fits, objects) :
       lazy' = [lazy EXCEPT ![w] = [c \in Client |-> IF c \in taken THEN @[c] + 1 ELSE @[c]]]

At(w, fiber) == turn[w] = fiber /\ nodes[w] # 0
Advances(w) == turn' = [turn EXCEPT ![w] = NextFiber(w)]

\* lazy_call_step: OPPUNREF for each object of the queue; one nobody refers to any
\* more is finalized, and closed by that (streamio_finalize).
LazyStep(w) ==
  /\ At(w, "lazy") /\ Advances(w)
  /\ LET dead == {c \in Client : obj[w][c].live /\ obj[w][c].refs <= lazy[w][c]}
     IN /\ Closes(w, {obj[w][c] : c \in dead})
        /\ obj' = [obj EXCEPT ![w] = [c \in Client |->
             IF c \in dead THEN NoObject ELSE [obj[w][c] EXCEPT !.refs = @ - lazy[w][c]]]]
  /\ zombies' = [zombies EXCEPT ![w] = {c \in @ : lazy[w][c] = 0}]
  /\ lazy' = [lazy EXCEPT ![w] = NoLazy]
  /\ UNCHANGED <<masterVars, raw, mail, due, quiting, moves, fails>>

\* event_loop_step: poll.  The socket for commands comes first in the array and that
\* for sockets second; those of the clients follow.  A client that waits for the answer
\* of the database sends nothing (what clients do that go on is in ChatUsers), and what
\* changes nothing here is left out.
Waits(w, c) == \E i \in DOMAIN mail[w] : mail[w][i].client = c
Ready(w) == {n \in Fd : reg[w][n] # Free /\ ~Waits(w, reg[w][n])}
Poll(w) ==
  /\ At(w, "events")
  /\ \E ready \in SUBSET ({MailFd, RawFd} \cup Ready(w)) :
       /\ MailFd \in ready => mail[w] # <<>>
       /\ RawFd \in ready <=> raw[w] # <<>>
       /\ due' = [due EXCEPT ![w] = ready]
       /\ IF ready = {} THEN Advances(w) ELSE turn' = [turn EXCEPT ![w] = "round"]
  /\ UNCHANGED <<masterVars, table, raw, mail, reg, obj, fiberVars, quiting, moves, fails>>

\* The entry e is called; those unregistered meanwhile are not called any more.
Calls(w, e) ==
  /\ At(w, "round") /\ e \in due[w]
  /\ e = RawFd => MailFd \notin due[w]
  /\ e \in Fd => due[w] \cap {MailFd, RawFd} = {}
  /\ due' = [due EXCEPT ![w] = {d \in @ \ {e} : d \in Fd => reg'[w][d] = reg[w][d]}]
  /\ IF due'[w] = {} THEN Advances(w) ELSE UNCHANGED turn

\* on_asyncchat_room_pid for a room of another worker: chat_join_transfer,
\* default_transfer_parallel, pp_raw_send_socket.  The object goes with the next turn,
\* whether the socket was taken or not.
\* Fault: the number is closed with the object, and not when the socket is sent.
MoveKeepsNumber(w, c, to) ==
  /\ reg' = [reg EXCEPT ![w] = Unregistered(w, {obj[w][c].fd})]
  /\ RawSends(to, c) \/ RawFails(c)
  /\ UNCHANGED table
  /\ obj' = [obj EXCEPT ![w][c].state = @ \cup {"softquit"}]
  /\ Queues(w, {c})
\* Fault: nobody unregisters the number.
MoveStaysRegistered(w, c, to) ==
  /\ \/ RawSends(to, c) /\ table' = [table EXCEPT ![w][obj[w][c].fd] = Free]
     \/ RawFails(c) /\ UNCHANGED table
  /\ obj' = [obj EXCEPT ![w][c].state = @ \cup {"softquit"}]
  /\ UNCHANGED reg /\ Queues(w, {c})
Move(w, c, to) ==
  /\ reg' = [reg EXCEPT ![w] = Unregistered(w, {obj[w][c].fd})]
  /\ \/ RawSends(to, c) /\ table' = [table EXCEPT ![w][obj[w][c].fd] = Free]
     \/ RawFails(c) /\ UNCHANGED table
  /\ obj' = [obj EXCEPT ![w][c].state = @ \cup {"softquit"}]
  /\ Queues(w, {c})

\* chat_get for an object that is leaving takes a reference nobody gives back.
RoomAnswer(w) ==
  /\ mail[w] # <<>> /\ mail' = [mail EXCEPT ![w] = Tail(@)]
  /\ LET m == Head(mail[w]) IN
       /\ m # Softquitall
       /\ IF obj[w][m.client].state \cap Leaving = {}
          THEN Move(w, m.client, m.room)
          ELSE /\ obj' = [obj EXCEPT ![w][m.client].refs = @ + 1]
               /\ UNCHANGED <<reg, table, raw, lazy, fails>>
  /\ Calls(w, MailFd)
  /\ UNCHANGED <<masterVars, zombies, quiting, moves>>

\* shake/softquitall at a worker: no more clients (chat_accept.c), an OPPUNREF for each
\* zombie (chat_zombie.c), and every other object is closed (chat_factory.c).
SoftQuit(w) ==
  /\ mail[w] # <<>> /\ mail' = [mail EXCEPT ![w] = Tail(@)]
  /\ Head(mail[w]) = Softquitall
  /\ quiting' = quiting \cup {w}
  /\ zombies' = [zombies EXCEPT ![w] = {}]
  /\ LET dead == {c \in zombies[w] : obj[w][c].refs <= 1}
         kept == {c \in Client : obj[w][c].live} \ dead
     IN /\ Closes(w, {obj[w][c] : c \in dead \cup kept})
        /\ obj' = [obj EXCEPT ![w] = [c \in Client |->
             IF c \in dead THEN NoObject
             ELSE IF c \in kept
             THEN Closed([obj[w][c] EXCEPT !.refs = IF c \in zombies[w] THEN @ - 1 ELSE @])
             ELSE obj[w][c]]]
  /\ Calls(w, MailFd)
  /\ UNCHANGED <<masterVars, raw, lazy, moves, fails>>

\* on_raw_recv_socket: the socket gets a number, and the protocol of its port (all are
\* alike here) an object and a registration; a worker that is quiting drops it, open as it is.
RawReceive(w) ==
  /\ raw[w] # <<>> /\ raw' = [raw EXCEPT ![w] = Tail(@)]
  /\ LET c == Head(raw[w])
         n == Lowest(table[w])
     IN /\ table' = [table EXCEPT ![w][n] = c]
        /\ IF w \in quiting THEN UNCHANGED <<obj, reg>>
           ELSE /\ obj' = [obj EXCEPT ![w][c] = Allocated(n)]
                /\ reg' = [reg EXCEPT ![w][n] = c]
  /\ Calls(w, RawFd)
  /\ UNCHANGED <<masterVars, mail, fiberVars, quiting, moves, fails>>
-----------------------------------------------------------------------------
\* on_client_data when the client has gone, or a send to it fails, which marks it for
\* a soft quit first: closed, a zombie (chat_zombie_add takes a reference), and the
\* factory's reference given back.
Zombie(o) == [Closed(o) EXCEPT !.state = @ \cup {"zombie"}]

Leaves(w, n) ==
  /\ reg[w][n] # Free
  /\ LET c == reg[w][n] IN
       /\ \/ /\ Closes(w, {obj[w][c]})
             /\ obj' = [obj EXCEPT ![w][c] = Zombie(@)]
             /\ UNCHANGED fails
          \/ LET broken == [obj[w][c] EXCEPT !.state = @ \cup {"softquit"}] IN
             /\ Fails(c)
             /\ Closes(w, {broken})
             /\ obj' = [obj EXCEPT ![w][c] = Zombie(broken)]
       /\ zombies' = [zombies EXCEPT ![w] = @ \cup {c}]
  /\ Calls(w, n)
  /\ UNCHANGED <<masterVars, raw, mail, lazy, quiting, moves>>

\* chat_join_plug: the client asks for a room of another worker.
Asks(w, n) ==
  /\ reg[w][n] # Free
  /\ moves < MaxMoves /\ moves' = moves + 1
  /\ \E to \in Worker \ {w} :
       /\ nodes[to] # 0
       /\ mail' = [mail EXCEPT ![w] = Append(@, [client |-> reg[w][n], room |-> to])]
  /\ UNCHANGED reg /\ Calls(w, n)
  /\ UNCHANGED <<masterVars, table, raw, obj, fiberVars, quiting, fails>>

\* chat_lazy_cleanup_fiber: it lets ten turns pass (here any number), and then every
\* zombie goes to the queue, none of them being older than two minutes.
Sweep(w) ==
  /\ At(w, "zombie") /\ Advances(w)
  /\ zombies[w] # {} /\ Queues(w, zombies[w])
  /\ UNCHANGED <<masterVars, table, raw, mail, due, reg, obj, zombies, quiting, moves, fails>>
Passes(w) ==
  /\ At(w, "zombie") /\ Advances(w)
  /\ UNCHANGED <<masterVars, table, raw, mail, due, reg, obj, fiberVars, quiting, moves, fails>>

Round(w) ==
  \/ RoomAnswer(w) \/ SoftQuit(w) \/ RawReceive(w)
  \/ \E n \in Fd : Leaves(w, n) \/ Asks(w, n)
Turn(w) == LazyStep(w) \/ Poll(w) \/ Round(w) \/ Sweep(w) \/ Passes(w)

Next ==
  \/ \E p \in Ports : Accept(p) \/ AcceptFails(p)
  \/ SoftQuitAll
  \/ \E w \in Worker : Turn(w)

Spec == Init /\ [][Next]_vars
-----------------------------------------------------------------------------
TypeOK ==
  /\ opened \in Outcomes /\ nodes \in [Process -> 0..(N + 1)] /\ lb \in [Ports -> 0..(N + 1)]
  /\ tcp_sockets \in [Ports -> Fd \cup {-1}] /\ stopped \in BOOLEAN /\ new \subseteq Client
  /\ passed \in [Ports -> [Worker -> Nat]]
  /\ table \in [Process -> [Fd -> Client \cup Ports \cup {Free}]]
  /\ raw \in [Worker -> Seq(Client)] /\ \A w \in Worker : Len(raw[w]) <= RawCapacity[w]
  /\ mail \in [Worker -> Seq(Mail)]
  /\ turn \in [Worker -> ToSet(Fibers) \cup {"round"}]
  /\ due \in [Worker -> SUBSET ({MailFd, RawFd} \cup Fd)]
  /\ \A w \in Worker : turn[w] = "round" <=> due[w] # {}
  /\ reg \in [Worker -> [Fd -> Client \cup {Free}]]
  /\ obj \in [Worker -> [Client -> Object]]
  /\ lazy \in [Worker -> [Client -> 0..2]] /\ zombies \in [Worker -> SUBSET Client]
  /\ quiting \subseteq Worker
  /\ moves \in 0..MaxMoves /\ fails \subseteq Client \cup Ports

\* A socket is never in two places, in two processes or under two numbers: who sends
\* it closes its own, and never that of another (raw_pipeline.c:58).
OneHolder ==
  \A c \in Client :
    Cardinality({at \in Process \X Fd : table[at[1]][at[2]] = c})
    + Cardinality({at \in Worker \X (1..Cardinality(Client)) :
                     at[2] <= Len(raw[at[1]]) /\ raw[at[1]][at[2]] = c})
    + (IF c \in new THEN 1 ELSE 0) <= 1

\* The assertion of chat_accept.c:89, and more: the object a callback is given lives,
\* has that number, and the number is that client's.
OwnDescriptor ==
  \A w \in Worker : \A n \in Fd :
    LET c == reg[w][n] IN
    c # Free => table[w][n] = c /\ obj[w][c].live /\ obj[w][c].fd = n

\* What holds an object by a pointer has a reference to it: the list of zombies, the
\* queue of the lazy calls, or the one that serves it (OPPREF, OPPUNREF).
References ==
  \A w \in Worker, c \in Client :
    LET holders == IF c \in zombies[w] THEN 1 ELSE lazy[w][c]
    IN /\ lazy[w][c] <= 1
       /\ holders > 0 => obj[w][c].live /\ obj[w][c].refs >= holders
       /\ obj[w][c].live => obj[w][c].refs > 0

\* An open number is that of an object that will close it, whatever failed for others:
\* it is lost only where the sending of that very socket failed (raw_pipeline.c:54), by
\* the master, by chat_join_transfer or in an answer, or in a worker that was quiting
\* when it came.
NoDescriptorLost ==
  /\ \A n \in Fd : table[0][n] \in Client => table[0][n] \in fails
  /\ \A w \in Worker \ quiting, n \in Fd :
       table[w][n] \notin {Free} \cup fails =>
         LET o == obj[w][table[w][n]] IN o.live /\ o.fd = n /\ "softquit" \notin o.state

\* The round robin of a port: with every worker there, no worker has had two more
\* clients than another (load_balancer_next).
FairShares ==
  \A p \in Ports : \A v, w \in Worker :
    nodes[N] # 0 => passed[p][v] - passed[p][w] \in -1..1

\* Once the master was told to quit softly it listens to no port, unless opening an
\* earlier one gave no socket: there tcp_listener_stop ends, and leaves the rest open.
StoppedListens ==
  stopped => \A p \in Ports : Listening(p) => \E q \in 1..(p - 1) : opened[q] = "nosocket"

\* An object that is neither leaving nor waiting for a move is served.
AlwaysServed ==
  \A w \in Worker, n \in Fd :
    LET c == table[w][n] IN
    c \in Client /\ obj[w][c].live /\ obj[w][c].fd = n /\ obj[w][c].state = {}
      => reg[w][n] = c
=============================================================================
