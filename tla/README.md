# A TLA+ development of nginz

nginz is a C chat and web server: one master process and a fixed number of
worker processes, each a single thread that runs *fibers* one after the other.
There is no locking and no shared memory. All that is concurrent is between
processes, over datagram sockets; all that is surprising inside a process is
that handlers are called back later, with state that has moved on.

This directory models the parts of it that carry that logic, checks them with
TLC on small instances, and proves the most important facts with TLAPS for
every instance. `PROJECT.json` lists the components, the runs, the definitions
with the source lines they stand for, the hazards and the theorems.

    tlc -workers 2 -config MCPipeline.cfg MCPipeline      # any run
    tlapm EventLoopProofs.tla                              # any proof module

## 1. Inventory

Paths are under `src/`. State is per process unless it says otherwise.

| component | state | operations | interacts with |
|---|---|---|---|
| event loop `base/src/event_loop_poll.c` | the arrays `internal_fds`, `internal_callback`, their length | register, unregister (lazy), one step: poll, dispatch, compact | a fiber; its callbacks are all the I/O handlers, and call back into it |
| fibers `base/src/fiber.c` | 16 slots, `internal_quit` | register, unregister, step, run, quit | runs the event loop, the lazy queue, the zombie cleaner |
| lazy calls `base/src/lazy_call.c` | a stack of calls, a queue of objects | push, run all | a fiber; destroys what handlers may not destroy yet |
| plugins `base/src/plugin.c`, `plugin_manager.c` | names to callbacks | plug, call all of a name | every command, message and fork hook is a plugin call |
| pipeline `base/src/parallel/pipeline.c`, `fork.c`, `ping.c` | `nodes[]`: pid and sockets of each process | fork, broadcast the pids, send (blocking), receive | everything that leaves a process |
| quit `base/src/shake/quitall.c`, `base_subsystem.c` | `soft_quitall`, `internal_quit` | softquitall, quitall, SIGINT | relayed through the pipeline; softquitall is a plugin name that modules hook |
| requests `base/src/parallel/async_request.c` | none | call the master with a token and a hook, reply | the pipeline |
| database `db/src/async_db.c`, `async_db_master.c` | the master's hash table | compare-and-swap, set-if-null, unset, get, increment | requests and replies |
| passing sockets `net/src/raw_pipeline.c`, `protostack.c`, `tcp_listener.c` | listeners (master), four protocols | accept, pass a descriptor with a command, receive one | load balancer, event loop, the servers |
| messages `base/src/binary_coder_extended.c` | a buffer of each sender, one of the receiver | pack, unpack by position | every pipe |
| streams `net/src/streamio.c` | a connection and what it is chained to | send, close, transfer, chain | chat and web chat |
| load balancer `apps/load_balancer/src` | the last worker | next | `pp_next_worker_nid` |
| chat `apps/chat/src` | connections, names, rooms with lists of users | login, join, leave, say, quit, move to another worker, softquit | all of the above |
| HTTP, web chat `apps/http`, `apps/web_chat` | connections; sessions with a cache, each with a chat | serve a page, create or resume a session, pass a request to the session's worker, expire | streams, chat, raw pipeline |

What is hard to test in it, each at its line, is the list "hazards" of
`PROJECT.json`. The main kinds:

* *Callbacks under an iteration.* The event loop dispatches from an array that
  its callbacks change (`event_loop_poll.c:95-104`).
* *Order between sockets.* Pids, commands, sockets and replies come by different
  ways and overtake each other.
* *Blocking sends.* A full socket stops the whole process (`pipeline.c:99`).
* *State across a wait.* A handler asks the database and the answer is another
  handler, after anything else may have happened to the connection.
* *A user in two processes.* Joining a room hands the socket to its worker.
* *Numbers and memory that are used again.* A descriptor number, a slot of a
  factory, a receive buffer: who kept one meets its next owner.

What makes each part correct: the event loop is a set of registrations, each
called when ready and only while registered; each process knows all others
before it must relay, and a quit reaches all; the database is an atomic store;
a name has one bearer; a room's count is the length of its list; an open socket
has one owner, who is called for it and closes it; a request gets one answer,
and what a chat says between two requests waits for the next; a message reads
back as it was packed.

## 2. Modules

| module | models | composed of |
|---|---|---|
| `EventRegistry` | abstract: what the event loop promises | |
| `EventLoop` | `event_loop_poll.c` | implements `EventRegistry` |
| `EventLoopProofs` | theorems about `EventLoop` | |
| `Pipeline` | `pipeline.c`, `fork.c`, `ping.c`, `quitall.c`, signals | |
| `PipelineProofs` | theorems about `Pipeline` | |
| `BinaryCoder` | `binary_coder_extended.c`, the receive buffer of `pipeline.c` | |
| `BinaryCoderProofs` | theorems about `BinaryCoder` | |
| `AtomicStore` | abstract: what the database promises | |
| `AsyncDb` | `async_db.c`, `async_db_master.c`, `async_request.c` | implements `AtomicStore` |
| `AsyncDbProofs` | theorems about `AsyncDb`, lemmas on queues of requests | |
| `RoomCount` | `broadcast.c` and `room.c`, for the counts | extends `AsyncDb` |
| `RoomCountProofs` | theorems about `RoomCount` | extends `AsyncDbProofs` |
| `ChatUsers` | the users of the chat server, from accept to the end | extends `AsyncDb` |
| `ChatUsersProofs` | theorems about `ChatUsers` | extends `AsyncDbProofs` |
| `Transfer` | descriptors: `raw_pipeline.c`, `protostack.c`, `tcp_listener.c`, the load balancer, fibers, lazy calls, zombies | |
| `TransferProofs` | theorems about `Transfer` | |
| `WebChat` | `apps/http`, `apps/web_chat`, `streamio.c` and the chat server behind a session | |
| `WebChatProofs` | theorems about `WebChat` | |
| `MC*` | instances for TLC | `MCPipeline` composes `Pipeline` and `BinaryCoder` |

A definition marked `Fault:` is no part of the model. It is a plausible bug in
the definition after it, and shows that the property named with it in
`PROJECT.json` would catch that bug.

### EventLoop

`ent` is the array up to `internal_nfds`; `pc`, `i`, `count`, `j`, `last` are the
loop's position and locals, so that a callback (`pc = "call"`) may do anything
between two iterations, and the compaction is taken one iteration at a time.
`Register` and `Unregister` may happen whenever other code runs: between polls
(other fibers) and in a callback. `EventLoopTest` is the control command that
compacts the array *inside* a round. `poll` may report any subset of the
entries, dead ones too. Two live entries never have the same data: each connection
object registers once. `called` and `skipped` are history variables: a compaction
under a callback may move a ready entry from ahead of the round's index into a hole
behind it, and that entry waits for the next poll (`Overtaken`). Two assertions of the
code end the process, a registration in a full array (line 32) and a `poll` that fails
(line 117): the model has the behaviours up to there, so `Register` needs `HasRoom` and
`Poll` succeeds.

`EventRegistry` knows only a set of registrations and those *due* in the current
round. The refinement takes live entries for registrations, and live ready
entries not yet called for those due. So "a descriptor number that is used again
in the round is not called for its predecessor's event" is part of it.

### Pipeline

A process is its slot of `nodes[]`. `mailbox[p]` is the datagram socket pair of
slot p, of `Capacity` messages; `out[p]` is what the handler that runs in p has
still to send, so that a process does nothing else until its sends are done.
`Fork` is one iteration of `fork_processors` with both callbacks; `Receive` is
`on_bubbles` with the handler of the message; `Command` and `Ping` come from the
control socket; `Interrupt` is a SIGINT at one process. A successor whose pid is
unknown has nid 0, which `pp_send` takes for a broadcast: `Next_nid`.

### BinaryCoder

`fields` is what a handler wants in its message, `buffer[cap]` the message in a
buffer of that capacity; `PackInt`, `PackString` and `ResetBuffer` are the calls.
Bytes are computed as the code does: lengths of 16 bits, positions of 8
(`NextPos`), a field that does not fit is refused (`Fits`), and integers of two or
four bytes. A negative integer is packed like a small one, as its lower 16 bits: the
token -1 of a request that nobody is to answer becomes `FF FF` and reaches the master as
65535 (`Heard`). That does no harm, because each such request has the null hook too
(`async_db.c:77`, `room.c:45`, `room_master.c:135`, `user.c:42`) and the master answers
only where there is a hook. The reference is the sequence of fields that fitted. `Received` is
what `recvmsg` leaves in a buffer that an older, longer message was in.
`MCPipeline` packs messages before the first fork only: what they hold does not
depend on the processes, so the two state spaces need not be multiplied.

### AsyncDb

`todo[c]` is what worker c's running handler has still to send, `inbox` the
master's socket, `owed` the reply that the master is sending, `replies[c]` the
worker's socket. A request's hook and token are one value, since both only come
back. Null arguments select the operation, as in `async_db_compare_and_swap`.
`Increment` makes one or two requests, as `async_db_increment` does.
`Transport` is what the database does by itself; modules that extend `AsyncDb`
give the calls. `MutualBlock` is the deadlock of `pp_simple_sendmsg`: the master sends
an answer to a worker whose socket is full, and that worker sends a request to the
master, whose socket is full too. `BlockTakesMore` says what it takes: a worker with two
more requests under way than its socket holds answers.

`AtomicStore` has each client's requests take effect in order, once, atomically,
and answers each that names a hook with what it found. The refinement maps a
client's pending calls to its messages in the master's socket followed by those
it has still to send.

### RoomCount

A worker keeps `users[r]`, the length of the room's list, and sends increments
that name the count it *believes* the database has, without waiting for an
answer. `JoinAgain` is a join of the room one is in already, which is counted
from a count that is one lower, and so has no effect.

### ChatUsers

`chat[o]` is a `chat_connection` object, which is also its token: its life, state
flags, name, room, whether its descriptor is open. `raw[w]` holds the sockets on
their way to worker w with the command they carry (`_welcome`, or
`_hiddenjoin room name`). A handler is one action; the requests it makes go to
`todo` and the worker does nothing else until they are sent.

| action | code |
|---|---|
| `Accept`, `Arrive` | `on_tcp_connection`, `on_connection_bubble` with `chat_welcome_plug` or `chat_hiddenjoin_plug` |
| `LoginLine`, `LoginReply` | `on_asyncchat_login`, `on_asyncchat_login_hook` |
| `JoinLine`, `JoinRoom`, `Transfer` | `chat_join_plug`, `on_asyncchat_room_pid` with `broadcast_room_join` or `chat_join_transfer` |
| `LeaveLine`, `QuitLine`, `Disconnect` | `chat_leave_plug`, `chat_quit_plug`, the error paths of `on_client_data` |
| `GetFails` | `chat_get` of an object that is leaving (its reference is kept: `"held"`) or gone |
| `Finalize` | `lazy_call_step`, after a transfer or after `chat_lazy_cleanup_fiber` |
| `CloseListener`, `SoftQuit` | the hooks of `softquitall` in the master and in a worker |

`ChatAssumption` is about names only: keys of the database are text with a prefix for
names, for rooms' workers and for rooms' counts, and so are different; a hook with its
token tells objects and questions apart; there are finitely many objects.

Left out: what users say to each other (`WebChat` has it), sends that fail and
descriptor numbers (`Transfer` has them), tokens that are used again, names that
the login refuses before it asks the database. A client that logs in is greeted
with what the last login of the worker left in a static buffer
(`welcome.c:95`, against `README.md:93`): `WebChat` takes that as a choice.

### Transfer

Here is what `ChatUsers` leaves out: the numbers. `table[p][n]` is what number n of
process p is open for, and the kernel gives out the lowest one that is free.
`reg[w]` is who is registered for a number, `obj[w][c]` the object of client c with
its state and reference count, `zombies[w]` and `lazy[w]` who else refers to it.
`raw[w]` holds the sockets on their way, `mail[w]` the answers of the database.

| action | code |
|---|---|
| `Accept`, `AcceptFails` | `on_connection`, `on_tcp_connection`, `load_balancer_next`, `pp_raw_send_socket` |
| `SoftQuitAll`, `SoftQuit` | `tcp_listener_stop`; the hooks in a worker, in their order |
| `LazyStep` | `lazy_call_step` and the finalizers it runs |
| `Poll`, `RawReceive`, `RoomAnswer`, `Leaves`, `Asks` | `event_loop_step` and the callbacks: `on_raw_recv_socket`, `on_asyncchat_room_pid` with `chat_join_transfer`, `on_client_data` |
| `Sweep`, `Passes` | `chat_lazy_cleanup_fiber`, when it sweeps and when it counts |

A worker's turn goes from fiber to fiber in the order they registered (`NextFiber`);
what is not due in a round waits for the next poll. That order matters: an object
that moved is destroyed before the next round can give its number away, which is
why `OwnDescriptor` and `OneHolder` hold at all. `Started` opens the listeners one
after the other, some of which may fail. Opening, accepting and sending may fail;
`fails` keeps whose send and which port's accept failed, and
`MaxFails` bounds how many. `TransferAssumption` has finitely many clients, none of which
is a port, and as many numbers as there may be sockets: running out of descriptors
is left out. So is a client that sends or leaves while the database has not answered it:
here it waits (`Ready`), and `ChatUsers` has what happens if it does not.

### WebChat

One worker, seen from its HTTP connections: `http[c]` is the connection object of
socket c, `ses[s]` the session in slot s of the factory's memory, `chat[k]` the
chat of the k-th session. A handler goes through many objects, connection to
session to chat to the others in the room and back, so it is written as a function
from one `World` (the record of the state) to the next, one function per function
of the code, and an action applies it. `msg` is the cache of a session; it holds,
for each message, whose it was.

| action | code |
|---|---|
| `Welcome`, `Moved` | `http_on_tcp_connection`, `http_on_connection_bubble`, for a new connection and for a request that another worker passed on |
| `Disconnect`, `Malformed`, `TestPage`, `Page`, `Chats`, `Leaves` | `http_on_client_data` by what is asked for; `http_url_parse` giving a request up for `Malformed`, `http_webchat_plug` for `Chats`, `webchat_transfer_parallel` for `Leaves` |
| `LoginAnswer`, `JoinAnswer`, `RoomsAnswer` | the hooks of the database's and the master's answers |
| `Age`, `Sweep` | the clock, `web_session_cleanup_fiber` |
| `LazyCall` | `lazy_call_step`, of the chats that moved, with the finalizers it runs |
| `SoftQuit` | `composite_plugin_call` of `shake/softquitall` |

Behind `Chats`: `Create` and `Resume` are `http_webchat_plug`, `ChatRecv` is
`handle_chat_request`, `Command` is `command_hook`, `Chain`, `Unchain`,
`SessionClose`, `HttpClose` are the streams. A request that `http_url_parse` cannot read
(its first line is too long or is not three words, or its rest comes in a segment of its
own) gets no answer and its connection stays open.

A chat has two references, its session's and the one it was created with: a move gives up one of them
with the next lazy calls, a session that is freed gives back the other (`Unref`,
`GiveBack`), and an answer that comes for a chat that has quit takes one nobody gives
back (`GetFails`). The chat that loses its last one is finalized, and closes whichever
session has the memory of its own by then. `LazyCall` may come at any time after the
move; in the code it comes before the next round of the event loop, so the model has
more behaviours than the code. An answer for a chat that was freed ends the process
(`LateReplyHandled` of `ChatUsers`), and the model goes up to there (`Answered`).

A line of text is a member of `Lines`.
What other workers and the database answer is any of the possible answers. The soft
quit lets the chats leave their rooms and closes them, one after the other, then the
connections, then the sessions. To close several connections or sessions one after the
other comes to the same in any order, and is written for the set (`HttpClose`,
`SessionClose`, `SessionEnd`, `Unref`); what a room is told is told one by one (`Broadcast`).

## 3. Runs

| run | instance | what it shows |
|---|---|---|
| `event_loop` | 2 descriptors, 2 data, 4 entries | the array behaves as a set of registrations (`ImplementsRegistry`), compaction changes nothing (`CompactionPreserves`) and leaves no hole (`CompactionComplete`), a round serves all that were ready, but those that a compaction in it moved behind its index (`ServesAllReady`), and ends (`RoundEnds`) |
| `pipeline` | 3 workers, a socket that fills up, forks that fail, 2 pings, a SIGINT at the last worker; all messages of up to 3 of 10 fields, in buffers of 255 and 1024 | a process told to quit knows all pids (`ToldKnowsAll`), everyone gets to know everyone (`AllGetToKnow`), a quit reaches the rest of the relay (`QuitReachesAll`); what is packed is read back, a negative integer as its lower 16 bits (`FieldsReadBack`, `IntsReadBack`), what was not is empty (`MissingIsEmpty`) |
| `async_db` | 2 workers, 1 key, 1 hook, sockets of 1, up to 3 requests of one worker under way and 1 of the other | the database is an atomic store (`ImplementsStore`); neither master nor worker waits for ever (`NobodyStuck`, `MasterServes`) but in a mutual block, which the instance reaches |
| `room_count` | 3 rooms on 2 workers, up to 3 users | the count follows the list, an empty room has no key |
| `chat_users` | 2 workers, 3 objects, 1 name, 1 room, 1 move | while nobody has moved a name has one bearer (`NamesUniqueUnmoved`) and is locked as long as it has one (`NameKept`); capacity (`RoomHolds`) and the count (`RoomCountFollows`) over joins, moves, quits and disconnections; no late answer revives what a soft quit closed (`SoftQuitIsFinal`) |
| `transfer` | 2 workers, 3 clients, 2 ports, 2 moves, 1 failure, one socket that is full at once | a socket has one holder (`OneHolder`), whoever is called for a number lives and has it (`OwnDescriptor`), pointers are counted (`References`), no number is lost but one whose own send failed (`NoDescriptorLost`), shares are even (`FairShares`), the listeners close (`StoppedListens`) |
| `web_chat` | 2 connections on 2 numbers, 2 sessions, 6 requests, caches of 3 | one answer to each request that was understood and none to others, while no session's memory was used again (`OneAnswer`), what a chat says is neither lost nor told twice (`Mailbox`), no request leaves a chain behind (`Unchained`), nobody is called under another's number (`OwnRegistration`) |

And runs that TLC must refute, each a disagreement between the code and what the
repository says of it:

| run | property | disagreement |
|---|---|---|
| `pipeline_interrupt` | `QuitallStopsWorkers` | quitall is relayed, not sent to all: a worker interrupted on its own cuts off those after it (`quitall.c:45`, `base/plugin.md:49`) |
| `chat_move` | `NamesUnique` | after a move to another worker the old object's finalizer logs the user off: the name is free while in use (`chat_factory.c:48`, `welcome.c:90`) |
| `chat_late_reply` | `LateReplyHandled` | an answer for an object that was freed dereferences NULL (`chat_factory.c:169`, `welcome.c:38`) |
| `transfer_reuse` | `AlwaysServed` | an object whose client moved keeps its number until it is destroyed, and then unregisters whoever has the number by then (`chat_factory.c:56`) |
| `web_expired` | `OwnMessages` | an expired session is freed and its chat is not: the chat talks into the next session in that memory (`web_session_factory.c:139`) |

More disagreements and hazards are in the models but are no run: BYE is never
sent, since `CHAT_QUIT` is set before it (`quit.c:22`, `README.md:120`); a socket
that arrives after the soft quit is dropped unclosed (`chat_accept.c:137`,
`TASKS.md:6`); the age of a zombie is compared the wrong way round
(`chat_zombie.c:72`); a reference is kept for each answer to an object that is
leaving (`welcome.c:37`); the master and a worker whose sockets are full block on each other
(`pipeline.c:99`, `MutualBlock` in `AsyncDb`), and so do two workers
(`raw_pipeline.c:54`), which the bounds of `transfer` exclude; a request that cannot be
parsed is never answered (`http_parser.c:137`).

### Bounds, and why they are enough

* Event loop: four entries hold a hole, the entry that fills it, one not yet
  reached and one registered in the round, or two holes with two live entries
  behind them; two descriptors show the reuse of a number.
* Pipeline: with three workers the relay has a middle and an end; the first
  worker's socket fills once the pids are followed by commands, the others hold all
  they may get, since nobody reads those of a process that was not forked or was
  interrupted. `MaxPings` bounds what the operator does; two pings give softquitall
  and quitall in either order.
* Messages: the integers lie on both sides of the change from two to four bytes
  (65535), with -1 and the largest, the strings on both sides of 8 bits when one or two come first, three
  fields are enough for one to be refused in the middle, and the two capacities
  are those of the senders. `RecvCap` is the receiver's.
* Database: one key is what clients race for (requests for different keys do not
  affect each other). Every socket holds one message and is full at once, so workers and
  the master wait. The first worker may have three requests under way, both of an
  increment among them, which is the least that can end in a mutual block with sockets
  of one; the other has one. `Value = {0, 1}` has every case of `Increment`: from 0,
  to 0, elsewhere.
* Rooms: two rooms with one owner allow moves, a third one another owner's
  increments in between; three users take a count through 0, 1, 2, 3.
* Chat: with two objects at one worker and one at the other, two clients race for
  the name locally and across workers, and a mover finds a free object.
  `MaxMoves` bounds the moves: one is enough to lose a name. A room for one user
  is full at once, and counts up to three are the business of `room_count`. One
  name is enough for a race. `MaxPending = 2` lets a client send a second login before the
  first is answered.

* Descriptors: a client that comes takes the number of one that moved or left
  within three; one worker's socket is full at once, so the sender waits, the other
  holds all. One send, accept or raw send may fail (`MaxFails`); ports open, find
  no socket, or cannot be bound. The queue of the lazy calls holds one
  object (`LazySize`), so that it overflows: a zombie is found again, an object that
  moved is not. Answers of the database take any time.
* Web chat: with two connections and two numbers a session and its connection part
  and meet again, a number is given to the other, and one request comes in the middle
  of another's chat; six requests take two chats through login, a room, talk and a
  quit, with malformed requests in between. In `web_chat` there is a slot for each session; the second may still get the
  memory of the first, whose chat may then answer its requests too. `OneAnswer` is about
  the time before that, and `web_expired`, with one slot, is what happens then. A chat asks the
  database one thing at a time, there is one room with place for all, and each
  connection comes once. The cache of three messages fills up.

Deadlock is checked for the event loop and for `Transfer`, where workers take
turns for ever. In the other runs the system may really stop: all processes have
quit, the bounds leave nothing to do, or the sockets are full with nobody reading.

### Fairness

Weak fairness of `Poll` and `Loop`: `fiber_module_run` calls the event loop's
step for ever, and callbacks return. Nothing makes callbacks register or
unregister. In the pipeline, of `Fork`, `Send` and `Receive`: the kernel runs
every process and a process reads what waits for it; commands, pings, signals
and failures are never owed. In the database also strong fairness of `Send`: the
kernel lets a blocked sender in at some time, though others keep the socket
full; and weak fairness of `Callback`: workers read what waits. `RoomCount`,
`ChatUsers`, `Transfer`, `WebChat` and `BinaryCoder` state safety only, and assume no
fairness.

## 4. Proofs

For every value of the constants, from the assumptions named in the modules:

| theorem | of |
|---|---|
| `EventLoopProofs!TypeCorrect`, `Invariance` | types; the inductive invariant |
| `EventLoopProofs!CompactionKeepsRegistrations`, `CompactionLeavesNoHole` | `CompactionPreserves`, `CompactionComplete` |
| `EventLoopProofs!AllReadyServed` | `ServesAllReady` |
| `EventLoopProofs!Refinement` | `ImplementsRegistry`: `Spec => Registry!Spec` |
| `PipelineProofs!TypeCorrect`, `Invariance` | types; the inductive invariant |
| `PipelineProofs!ToldKnows` | `ToldKnowsAll` |
| `BinaryCoderProofs!FieldsSurvive`, `MissingStaysEmpty`, `IntsSurvive` | `FieldsReadBack`, `MissingIsEmpty`, `IntsReadBack` |
| `AsyncDbProofs!TypeCorrect` | types |
| `AsyncDbProofs!Refinement` | `ImplementsStore`: the database implements `AtomicStore` |
| `AsyncDbProofs!MutualBlockNeedsMore` | `BlockTakesMore`: when master and worker can block on each other |
| `RoomCountProofs!CountsFollow`, `EmptyUnset` | `CountFollows`, `EmptyHasNone` |
| `ChatUsersProofs!ChatTypesCorrect`, `RoomsHold`, `RoomCountsFollow` | `ChatTypeOK`, `RoomHolds`, `RoomCountFollows` |
| `ChatUsersProofs!NamesNeverShared`, `NamesKept`, `SoftQuitStays` | `NamesUniqueUnmoved`, `NameKept`, `SoftQuitIsFinal` |
| `TransferProofs!TypesCorrect`, `OnePlace`, `CallbackOwnsNumber` | `TypeOK`, `OneHolder`, `OwnDescriptor` |
| `TransferProofs!ReferencesCounted`, `NoneLost`, `StopsListening` | `References`, `NoDescriptorLost`, `StoppedListens` |
| `TransferProofs!SharesAreFair` | `FairShares` |
| `WebChatProofs!WebTypesCorrect`, `RegisteredForOwner`, `LeavesUnchained` | `TypeOK`, `OwnRegistration`, `Unchained` |
| `WebChatProofs!KeptForNextRequest`, `AnsweredOnce` | `Mailbox`, `OneAnswer` |

*Event loop.* The invariant `IInv` adds to the types: live entries have distinct
data (`DistinctData`), so a registration is one entry; in a round the ready live
entries that the index has still to visit have not been called
(`AheadUncalled`); and in a compaction all entries before the hole's index are
live, and the entry at `last` is live once the dead ones at the end are skipped
(`CompactionInv`). Types alone do not give the refinement: a compaction inside a
round moves entries across the round's index, and only `AheadUncalled` says that
none is called twice for it; `CompactionInv` is what a swap needs to fill a hole
with a live entry. Each action has a lemma that says what it does to the live
entries; the refinement maps `Register`, `Unregister`, `Poll`, `StepCall` and the
ends of rounds to steps of the registry, the rest to stutters. That a round serves all
that were ready is a matter of counting: while no callback compacts the array, the
ready entries that are still ahead are no more than `count` (`Countdown`), so when the
loop stops early there is none, and those behind are served or gone (`BehindServed`). A
compaction under a callback only makes entries ahead fewer; what it moves behind the
index is in `skipped`.

*Pipeline.* `ToldKnowsAll` is not inductive: it needs that a pid is either known
or still on its way *before* every command. The invariant says that pid messages
come from the master only (`PidsFromMaster`), that while it has one to
send there is no command anywhere (`PidsAlone`), that in each mailbox they come before
any command (`PidsFirst`), and that what a process knows and what is on its way
to it make up all slots (`PidsKept`).

*Database.* The store's pending calls of a client are what a recursive function (`Of`)
picks out of the master's socket, then what the client has still to send. `OfAppend` and
`OfHead` say how it changes at either end of the socket; with them `Serve` is the
store's execution of the first call, a send is a stutter since it takes a request from
one list to the end of the other, and likewise for the answers. `MutualBlockNeedsMore`
(`BlockTakesMore`, of no run) counts: what a client has under way is bounded, and in a
mutual block its full socket, the answer owed to it and what it has still to send are
all under way. Such functions exist
(`KeepsExists`) because a least length for which there is none is a contradiction:
`LeastNatural` is how these proofs do an induction over a number.

*Counts.* Neither property is inductive, for a worker sends an increment on what it
believes is in the database. `Leads(q, r, v, w)` says that the requests q, one after the
other, take the count of r from v to w, each by one at most; the invariant is that what
is under way leads from what is in the database to what the room's owner counts (`Way`).
A request enters at one end, and is taken off at the other; requests of other
workers are about other rooms. With nothing under way the two are equal.

*Chat users.* `ChatInv` says: every request is of one of four kinds (a login, a
question for a room's worker, a count, a name given back), and the answers are to the
first two; what an object is allows what it may keep (`Object`), so that a room's users
are served by its owner; each object waits for the answers to what it asked (`Asks`); while nobody
has moved, a name is claimed in one place at most, by its user, by an answer that grants
it or by a request that gives it back, and then it is in the database
(`ClaimedOnce`, `Locked`); and `Way` for each room, with the cardinality of its users.
Each action has a lemma; a soft quit, which makes the requests of all connections of a
worker at once, is taken apart into one after the other (`FlattenSteps`, `AllAsk`).

*Load balancer.* That shares differ by one at most is not inductive: the invariant
says that a port has gone round a number of times, and once more up to the
worker whose nid it keeps (`RoundsOf`). `SlotOfFull` and `NextOfFull` compute the
slot of a nid and the next nid in a full table; every action but `Accept` leaves the
three variables alone.

*Descriptors.* `DescriptorInv` says where a socket is: a number that is open in a
worker belongs to a client that is nowhere else (`HereOnly`, `Sole`), and a
registration to an object in service that has one reference and is not to be destroyed
(`Served`). An object that was closed or sent away still has its reference and maybe its
number, until the turn of the lazy calls. `Kept` and `AtMaster` say that a number is lost
only with its own failed send. `LazyOnes` says that by then no callback is
due for that number and whoever has got it since waits for nothing. The order of the
fibers is what makes that inductive. `Slots` is the reason that the lowest free number
exists (`LowestFree`).

*Web chat.* The actions are long, and the proofs follow the functions: `Good` is what
holds of every world a handler passes through (types, `Owned`, `Linked`, `Waits`,
`Chained`), `Kept` what no function of a chat or session takes away, `MayAnswer` that it
answers the request at most once, and only through a chat that has no other
connection. From the functions on descriptors up to `Webchat`, each has a lemma that it keeps `Good`
and what it does to the request; `ReplyOnce`, `ResumeServed` and `CreateServed` make
"at most once" "exactly once". Between two requests nobody is chained
(`Loose`), which with `Good`, the references of the sessions and the answers of the
connections is `Inv`. Giving back references changes nothing of a chat but its
references and whether it is logged in, so `Good` is kept (`UnrefKeeps`). `Shared` is what `UsedAgain` is about: as long as each session's
memory has one chat, who hears a chat is one connection.

*Messages.* The invariant `CoderInv` says that each buffer has the shape of the message
of the fields that fitted (`Shape`): every field begins where the one before it ends,
with its type, length and bytes, and the base header holds where the last one ends.
`PackShape` keeps it, whether the field fits or not. A buffer that only begins with a
message (`Begins`), with older bytes behind it, reads the same: the walk comes to
every field that begins within the reach of 8 bits (`WalkFinds`) and to nothing behind
the last one (`WalkEnds`). The reader's walk and the reference are recursive
functions; that they exist and what they are at the next argument is shown by a search
for the least counterexample (`LeastNatural`), which needs no induction theorem. The
bytes of an integer up to 2^31 - 1 make it up again (`TwoBytes`, `FourBytes`,
`IntOfBytes`), and those of a negative one its lower half. The assumptions are that an
integer has 32 bits with its sign and that a buffer has room for the base header and a
length that 16 bits can tell; the code's buffers have 255 and 1024 bytes.

Only model-checked: everything with fairness (`RoundEnds`, `AllGetToKnow`,
`QuitReachesAll`, `NobodyStuck`, `MasterServes`), which is out of the prover's
reach. All other properties of the runs that pass are proved.

## 5. Plan

What is left:

1. Tokens that are used again: with `Transfer`'s objects in `ChatUsers`.
2. Two workers that join each other's rooms with full sockets: the deadlock of
   `raw_pipeline.c:54`.

## 6. Not modelled

* `event_loop_partitioned_openmp_poll.c` and `binary_coder.c` are not built.
* Help, profiler, uptime, version, plugin listings and back traces only print; the
  scanner takes a line apart. The start of the modules is taken as `Init`.
* Unplugging a plugin is empty in the source. Nobody puts calls into the lazy
  queue of calls, and no fiber ends before its process does.
* The aroop library (objects, text, hash tables) is external. From its use:
  `opp_search` takes a reference (`broadcast.c:151`, `180` give it back),
  `OPPUNREF` clears the pointer, a freed object's token finds nothing, and a freed
  slot is the next to be given out. What `aroop_assert` does (`welcome.c:72`) depends
  on how the library was built.
* `recv` that fails in `http_parser.c:127` passes -1 on as a length, and a command of
  more than 128 bytes that comes with a socket is cut off and read beyond its end
  (`raw_pipeline.c:92`): undefined behaviour inside the library.
* The text of requests: which header makes which page is a choice of `WebChat`.
