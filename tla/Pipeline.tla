------------------------------ MODULE Pipeline ------------------------------
(***************************************************************************)
(* The processes of nginz and the sockets between them: the master forks   *)
(* the workers one by one (base/src/parallel/fork.c), tells each of them   *)
(* the pids of all (pipeline.c), and later relays the control commands     *)
(* softquitall and quitall through them (shake/quitall.c, ping.c).         *)
(*                                                                         *)
(* A process is named by its slot of nodes[]: 0 is the master, N is        *)
(* NGINZ_NUMBER_OF_PROCESSORS.  Each slot has one datagram socket pair,    *)
(* made before the forks and kept open by every process, so that what is   *)
(* sent to a process that is gone stays in the socket.  sendmsg blocks     *)
(* while the socket is full, and with it the whole process.                *)
(***************************************************************************)
EXTENDS Naturals, Sequences

CONSTANTS N,              \* the number of workers
          Capacity,       \* Capacity[p]: the datagrams the socket of slot p holds before
                          \* a sender blocks
          MaxPings,       \* bound: the ping commands an operator gives
          ForkMayFail,    \* may fork() fail?
          Interruptible   \* the processes that a SIGINT may hit on its own

Slot == 0..N
Worker == 1..N

ASSUME PipelineAssumption ==
  /\ N \in Nat \ {0} /\ Capacity \in [Slot -> Nat \ {0}] /\ MaxPings \in Nat
  /\ ForkMayFail \in BOOLEAN
  /\ Interruptible \subseteq Slot

\* A message is a command by name; "pid" also carries the slot it is about.
Message == [type: {"pid", "soft", "quit"}, slot: Slot]
PidOf(w) == [type |-> "pid", slot |-> w]
Soft == [type |-> "soft", slot |-> 0]
Quit == [type |-> "quit", slot |-> 0]

VARIABLES
  forked,    \* how many workers have been forked
  boot,      \* the master: "forking", "broken" off by a failed fork, or "forked"
  nodes,     \* nodes[p]: the slots whose nid process p has filled in
  mailbox,   \* mailbox[p]: what waits in the socket of slot p
  out,       \* out[p]: what the running handler of p has still to send, and to whom
  soft,      \* soft[p]: soft_quitall
  quit,      \* quit[p]: internal_quit, set by fiber_quit
  pings      \* the ping commands given so far

vars == <<forked, boot, nodes, mailbox, out, soft, quit, pings>>

Outgoing == [msg: Message, to: SUBSET Slot]

Init ==
  /\ forked = 0 /\ boot = "forking"
  /\ nodes = [p \in Slot |-> IF p = 0 THEN {0} ELSE {}]
  /\ mailbox = [p \in Slot |-> <<>>]
  /\ out = [p \in Slot |-> <<>>]
  /\ soft = [p \in Slot |-> FALSE]
  /\ quit = [p \in Slot |-> FALSE]
  /\ pings = 0
-----------------------------------------------------------------------------
Exists(p) == p <= forked

\* A process whose handlers have all returned; it has left its fibers if it quits.
AtRest(p) == Exists(p) /\ out[p] = <<>> /\ (p = 0 => boot # "forking")
Stopped(p) == AtRest(p) /\ quit[p]
Running(p) == AtRest(p) /\ ~quit[p]

\* A broadcast goes to every slot but the sender's own, forked or not.
Broadcast(p, m) == [msg |-> m, to |-> Slot \ {p}]

\* pp_next_nid names the next slot; if its nid is still 0 the send is a broadcast.
\* Fault: the end of the array is not checked.
NextUnchecked(p, m) == <<[msg |-> m, to |-> {p + 1}]>>
\* Fault: a slot with nid 0 is passed over.
NextKnownOnly(p, m) ==
  IF p = N \/ p + 1 \notin nodes[p] THEN <<>> ELSE <<[msg |-> m, to |-> {p + 1}]>>
Next_nid(p, m) ==
  IF p = N THEN <<>>
  ELSE IF p + 1 \in nodes[p] THEN <<[msg |-> m, to |-> {p + 1}]>>
  ELSE <<Broadcast(p, m)>>

\* Once the last slot is filled the master tells everyone the pid of every worker.
\* Fault: the pid of the last worker forked is left out.
PidBroadcastsButLast == [w \in 1..(N - 1) |-> Broadcast(0, PidOf(w))]
PidBroadcasts == [w \in Worker |-> Broadcast(0, PidOf(w))]

\* fork(): the child starts from the master's table and adds itself (and has the
\* master's internal_quit), the master adds the child, and after the last one
\* broadcasts.
Fork ==
  /\ boot = "forking"
  /\ LET w == forked + 1 IN
       /\ forked' = w
       /\ nodes' = [nodes EXCEPT ![w] = nodes[0] \cup {w}, ![0] = @ \cup {w}]
       /\ IF w = N
          THEN boot' = "forked" /\ out' = [out EXCEPT ![0] = PidBroadcasts]
          ELSE UNCHANGED <<boot, out>>
       /\ quit' = [quit EXCEPT ![w] = quit[0]]
  /\ UNCHANGED <<mailbox, soft, pings>>

\* fork() fails: the master stops forking and goes on with the workers it has,
\* without the broadcast and without listening to its own mailbox.
ForkFails ==
  /\ ForkMayFail
  /\ boot = "forking"
  /\ boot' = "broken"
  /\ UNCHANGED <<forked, nodes, mailbox, out, soft, quit, pings>>

\* pp_simple_sendmsg: one datagram, to the lowest of the slots that are left.
Send(p) ==
  /\ Exists(p) /\ out[p] # <<>>
  /\ LET o == Head(out[p]) IN
     \E d \in o.to :
       /\ \A e \in o.to : d <= e
       /\ Len(mailbox[d]) < Capacity[d]
       /\ mailbox' = [mailbox EXCEPT ![d] = Append(@, o.msg)]
       /\ out' = [out EXCEPT ![p] =
                    IF o.to = {d} THEN Tail(@) ELSE [@ EXCEPT ![1].to = o.to \ {d}]]
  /\ UNCHANGED <<forked, boot, nodes, soft, quit, pings>>
-----------------------------------------------------------------------------
\* shake_soft_quitall_command: relayed once, then remembered.
\* Fault: it is remembered but no longer relayed.
HandleSoftNoRelay(p) == soft' = [soft EXCEPT ![p] = TRUE] /\ UNCHANGED <<out, quit, nodes>>
HandleSoft(p) ==
  /\ IF soft[p] THEN UNCHANGED <<soft, out>>
     ELSE /\ out' = [out EXCEPT ![p] = Next_nid(p, Soft)]
          /\ soft' = [soft EXCEPT ![p] = TRUE]
  /\ UNCHANGED <<quit, nodes>>

\* shake_quitall_command: refused before a softquitall, else relayed and obeyed.
\* Fault: it is obeyed before it has been relayed.
HandleQuitNoRelay(p) ==
  quit' = [quit EXCEPT ![p] = soft[p]] /\ UNCHANGED <<out, soft, nodes>>
HandleQuit(p) ==
  /\ IF ~soft[p] THEN UNCHANGED <<quit, out>>
     ELSE /\ out' = [out EXCEPT ![p] = Next_nid(p, Quit)]
          /\ quit' = [quit EXCEPT ![p] = TRUE]
  /\ UNCHANGED <<soft, nodes>>

\* pp_update_siblings_pid: a process keeps its own entry.
HandlePid(p, w) ==
  /\ nodes' = [nodes EXCEPT ![p] = @ \cup {w}]
  /\ UNCHANGED <<out, soft, quit>>

\* A worker registers its reader as it is forked, the master after its broadcast.
Listens(p) == p = 0 => boot = "forked"

\* on_bubbles: one message of the process's own socket.
Receive(p) ==
  /\ Running(p) /\ Listens(p)
  /\ mailbox[p] # <<>>
  /\ mailbox' = [mailbox EXCEPT ![p] = Tail(@)]
  /\ LET m == Head(mailbox[p]) IN
       \/ m.type = "pid" /\ HandlePid(p, m.slot)
       \/ m.type = "soft" /\ HandleSoft(p)
       \/ m.type = "quit" /\ HandleQuit(p)
  /\ UNCHANGED <<forked, boot, pings>>

\* The control socket is served by the master only, and only after the forks.
Command ==
  /\ Running(0)
  /\ HandleSoft(0) \/ HandleQuit(0)
  /\ UNCHANGED <<forked, boot, mailbox, pings>>

\* The command "ping shake/softquitall" or "ping shake/quitall".
Ping ==
  /\ Running(0)
  /\ pings < MaxPings
  /\ pings' = pings + 1
  /\ \E m \in {Soft, Quit} : out' = [out EXCEPT ![0] = <<Broadcast(0, m)>>]
  /\ UNCHANGED <<forked, boot, nodes, mailbox, soft, quit>>

\* SIGINT: signal_callback calls fiber_quit, which tells nobody.
Interrupt(p) ==
  /\ p \in Interruptible /\ Exists(p)
  /\ ~quit[p]
  /\ quit' = [quit EXCEPT ![p] = TRUE]
  /\ UNCHANGED <<forked, boot, nodes, mailbox, out, soft, pings>>

Next ==
  \/ Fork \/ ForkFails \/ Command \/ Ping
  \/ \E p \in Slot : Send(p) \/ Receive(p) \/ Interrupt(p)

\* The kernel runs every process: the master forks on, a send that can go goes,
\* and the event loop reads what waits.  Commands and signals are never owed.
Fairness ==
  /\ WF_vars(Fork)
  /\ \A p \in Slot : WF_vars(Send(p)) /\ WF_vars(Receive(p))

Spec == Init /\ [][Next]_vars /\ Fairness
-----------------------------------------------------------------------------
TypeOK ==
  /\ forked \in Slot
  /\ boot \in {"forking", "broken", "forked"}
  /\ nodes \in [Slot -> SUBSET Slot]
  /\ mailbox \in [Slot -> Seq(Message)]
  /\ out \in [Slot -> Seq(Outgoing)]
  /\ soft \in [Slot -> BOOLEAN] /\ quit \in [Slot -> BOOLEAN]
  /\ pings \in 0..MaxPings

\* A process that has been told to quit softly knows the pid of every other: no
\* command overtakes the pid broadcast of pp_fork_parent_after_callback, so the
\* relay never meets a successor with nid 0, which pp_send takes for a broadcast.
ToldKnowsAll == boot = "forked" => \A p \in Slot : soft[p] => nodes[p] = Slot

\* The broadcast reaches everyone, whatever commands and pings come meanwhile,
\* except who was interrupted before.
AllGetToKnow == (boot = "forked") ~> (\A p \in Slot : quit[p] \/ nodes[p] = Slot)

\* Once a process has obeyed a quitall, however it came by it, every worker after
\* it in the relay stops too (shake_quitall_command; ping_command).
QuitReachesAll == \A p, w \in Slot : p < w => (Stopped(p) /\ Exists(w) ~> Stopped(w))

\* What base/plugin.md:49 says of quitall, "It stops the fibers and sends quitall
\* msg to other processes": when the master has obeyed it, all workers stop.
QuitallStopsWorkers == Stopped(0) ~> \A w \in Worker : Exists(w) => Stopped(w)
=============================================================================
