--------------------------- MODULE PipelineProofs ---------------------------
(***************************************************************************)
(* Proofs about Pipeline for every number of workers, every capacity of    *)
(* the sockets, whether or not forks fail and whoever is interrupted.      *)
(***************************************************************************)
EXTENDS Pipeline, SequenceTheorems, TLAPS

\* Until the last fork nobody has been told anything, and every fork has a slot.
BootInv ==
  /\ boot = "forking" =>
       /\ forked < N
       /\ nodes[0] = 0..forked
       /\ \A p \in Slot : mailbox[p] = <<>> /\ out[p] = <<>> /\ ~soft[p]
  /\ boot = "forked" => nodes[0] = Slot /\ forked = N
  /\ \A p \in 0..forked : 0 \in nodes[p]

\* Only the master tells pids.
PidsFromMaster ==
  \A p \in Worker : \A k \in DOMAIN out[p] : out[p][k].msg.type # "pid"

\* While it does, there is no command anywhere.
PidsAlone ==
  (\E k \in DOMAIN out[0] : out[0][k].msg.type = "pid") =>
    /\ \A p \in Slot : ~soft[p]
    /\ \A p \in Slot : \A k \in DOMAIN mailbox[p] : mailbox[p][k].type = "pid"
    /\ \A k \in DOMAIN out[0] : out[0][k].msg.type = "pid"
    /\ \A p \in Worker : out[p] = <<>>

\* In every socket the pids come before the commands.
PidsFirst ==
  \A p \in Slot : \A k, l \in DOMAIN mailbox[p] :
    k < l /\ mailbox[p][l].type = "pid" => mailbox[p][k].type = "pid"

Waits(p, w) == \E k \in DOMAIN mailbox[p] : mailbox[p][k] = PidOf(w)
Owed(p, w) == \E k \in DOMAIN out[0] : out[0][k].msg = PidOf(w) /\ p \in out[0][k].to

\* After the forks a pid is known, or waits in the socket, or is still to be sent.
PidsKept ==
  boot = "forked" => \A p, w \in Slot : w \in nodes[p] \/ Waits(p, w) \/ Owed(p, w)

IInv == TypeOK /\ BootInv /\ PidsFromMaster /\ PidsAlone /\ PidsFirst /\ PidsKept /\ ToldKnowsAll

\* The commands the relay and ping send, and the shape of a queue of broadcasts.
LEMMA Relayed ==
  ASSUME NEW p \in Slot, NEW m \in {Soft, Quit}
  PROVE  /\ Next_nid(p, m) \in Seq(Outgoing)
         /\ \A k \in DOMAIN Next_nid(p, m) : Next_nid(p, m)[k].msg.type # "pid"
         /\ <<Broadcast(p, m)>> \in Seq(Outgoing)
         /\ \A k \in DOMAIN <<Broadcast(p, m)>> : <<Broadcast(p, m)>>[k].msg.type # "pid"
<1>1. m \in Message /\ m.type # "pid"
  BY PipelineAssumption DEF Soft, Quit, Message, Slot
<1>2. Broadcast(p, m) \in Outgoing /\ Broadcast(p, m).msg = m
  BY <1>1 DEF Broadcast, Outgoing
<1>3. p # N => [msg |-> m, to |-> {p + 1}] \in Outgoing
  BY <1>1, PipelineAssumption DEF Outgoing, Slot
<1>4. \A o \in Outgoing : o.msg = m =>
        /\ <<o>> \in Seq(Outgoing)
        /\ \A k \in DOMAIN <<o>> : <<o>>[k].msg.type # "pid"
  BY <1>1
<1> QED
  BY <1>2, <1>3, <1>4 DEF Next_nid

\* The master's broadcast of pids (pp_fork_parent_after_callback): one for every worker.
LEMMA Told ==
  /\ PidBroadcasts \in Seq(Outgoing)
  /\ DOMAIN PidBroadcasts = Worker
  /\ \A w \in Worker : PidBroadcasts[w].msg = PidOf(w) /\ PidBroadcasts[w].to = Slot \ {0}
<1>1. \A w \in Worker : Broadcast(0, PidOf(w)) \in Outgoing
  BY PipelineAssumption DEF Broadcast, PidOf, Outgoing, Message, Slot, Worker
<1>2. PidBroadcasts \in [1..N -> Outgoing]
  BY <1>1 DEF PidBroadcasts, Worker
<1>3. PidBroadcasts \in Seq(Outgoing)
  BY <1>2, SeqDef, PipelineAssumption
<1> QED
  BY <1>3 DEF PidBroadcasts, Broadcast, Worker

\* What a send does: one message of the first broadcast still owed moves to the
\* end of one socket, and nothing else that is owed is lost or made up.
LEMMA SendEffect ==
  ASSUME TypeOK, NEW p \in Slot, Send(p)
  PROVE  \E d \in Slot, q \in Seq(Outgoing) :
           LET m == out[p][1].msg IN
           /\ 1 \in DOMAIN out[p] /\ m \in Message /\ d \in out[p][1].to
           /\ mailbox' = [mailbox EXCEPT ![d] = Append(mailbox[d], m)]
           /\ out' = [out EXCEPT ![p] = q]
           /\ \A k \in DOMAIN q : \E l \in DOMAIN out[p] : q[k].msg = out[p][l].msg
           /\ \A l \in DOMAIN out[p] : \A e \in out[p][l].to :
                (l = 1 /\ e = d) \/ \E k \in DOMAIN q : q[k].msg = out[p][l].msg /\ e \in q[k].to
<1> DEFINE s == out[p]
           o == s[1]
<1>1. s \in Seq(Outgoing) /\ s # <<>>
  BY DEF TypeOK, Send
<1>2. Len(s) \in Nat /\ Len(s) > 0 /\ DOMAIN s = 1..Len(s) /\ o \in Outgoing /\ Head(s) = o
  BY <1>1
<1>3. o.msg \in Message /\ o.to \subseteq Slot
  BY <1>2 DEF Outgoing
<1>4. PICK d \in o.to :
        /\ mailbox' = [mailbox EXCEPT ![d] = Append(@, o.msg)]
        /\ out' = [out EXCEPT ![p] =
                     IF o.to = {d} THEN Tail(@) ELSE [@ EXCEPT ![1].to = o.to \ {d}]]
  BY <1>2 DEF Send
<1> DEFINE r == [s EXCEPT ![1].to = o.to \ {d}]
           q == IF o.to = {d} THEN Tail(s) ELSE r
<1>5. d \in Slot /\ mailbox' = [mailbox EXCEPT ![d] = Append(mailbox[d], o.msg)]
  BY <1>3, <1>4
<1>6. out' = [out EXCEPT ![p] = q]
  BY <1>4
<1> DEFINE Kept(x) ==
             /\ \A k \in DOMAIN x : \E l \in DOMAIN s : x[k].msg = s[l].msg
             /\ \A l \in DOMAIN s : \A e \in s[l].to :
                  (l = 1 /\ e = d) \/ \E k \in DOMAIN x : x[k].msg = s[l].msg /\ e \in x[k].to
<1>7. ASSUME o.to = {d} PROVE q \in Seq(Outgoing) /\ Kept(q)
  <2>1. Tail(s) \in Seq(Outgoing) /\ DOMAIN Tail(s) = 1..(Len(s) - 1)
    BY <1>1, <1>2
  <2>2. \A k \in DOMAIN Tail(s) : k + 1 \in DOMAIN s /\ Tail(s)[k] = s[k + 1]
    BY <1>1, <1>2, <2>1
  <2>3. \A l \in DOMAIN s : l # 1 => l - 1 \in DOMAIN Tail(s) /\ Tail(s)[l - 1] = s[l]
    BY <1>1, <1>2, <2>1
  <2>4. q = Tail(s)
    BY <1>7
  <2>5. \A k \in DOMAIN q : \E l \in DOMAIN s : q[k].msg = s[l].msg
    BY <2>2, <2>4
  <2>6. \A l \in DOMAIN s : \A e \in s[l].to :
          (l = 1 /\ e = d) \/ \E k \in DOMAIN q : q[k].msg = s[l].msg /\ e \in q[k].to
    BY <2>3, <2>4, <1>7
  <2> QED
    BY <2>1, <2>4, <2>5, <2>6
<1>8. ASSUME o.to # {d} PROVE q \in Seq(Outgoing) /\ Kept(q)
  <2> DEFINE x == [o EXCEPT !.to = o.to \ {d}]
  <2>1. x \in Outgoing /\ x.msg = o.msg /\ x.to = o.to \ {d}
    BY <1>2 DEF Outgoing
  <2>2. r = [s EXCEPT ![1] = x] /\ s \in [1..Len(s) -> Outgoing] /\ 1 \in 1..Len(s)
    BY <1>1, <1>2
  <2> HIDE DEF x
  <2>3. /\ DOMAIN r = DOMAIN s /\ r \in [1..Len(s) -> Outgoing]
        /\ r[1].msg = o.msg /\ r[1].to = o.to \ {d}
        /\ \A k \in DOMAIN s : k # 1 => r[k] = s[k]
    <3> HIDE DEF r
    <3> QED
      BY <2>1, <2>2
  <2>4. r \in Seq(Outgoing)
    BY <1>2, <2>3, SeqDef
  <2>5. \A k \in DOMAIN r : r[k].msg = s[k].msg
    BY <2>3
  <2>6. \A l \in DOMAIN s : \A e \in s[l].to : (l = 1 /\ e = d) \/ e \in r[l].to
    BY <2>3
  <2>7. q = r
    BY <1>8
  <2>8. \A k \in DOMAIN q : \E l \in DOMAIN s : q[k].msg = s[l].msg
    BY <2>3, <2>5, <2>7
  <2>9. \A l \in DOMAIN s : \A e \in s[l].to :
          (l = 1 /\ e = d) \/ \E k \in DOMAIN q : q[k].msg = s[l].msg /\ e \in q[k].to
    BY <2>3, <2>5, <2>6, <2>7
  <2> QED
    BY <2>4, <2>7, <2>8, <2>9
<1>9. q \in Seq(Outgoing) /\ Kept(q)
  BY <1>7, <1>8
<1> HIDE DEF q, r, Kept
<1> QED
  <2>1. d \in Slot /\ q \in Seq(Outgoing)
    BY <1>5, <1>9
  <2> USE <2>1
  <2> WITNESS d \in Slot, q \in Seq(Outgoing)
  <2> QED
    BY <1>2, <1>3, <1>5, <1>6, <1>9 DEF Kept

\* What reading a message does: the head of the socket goes, and the handler's
\* effect is one of three.
LEMMA ReceiveEffect ==
  ASSUME TypeOK, NEW p \in Slot, Receive(p)
  PROVE  LET m == mailbox[p][1] IN
         /\ AtRest(p) /\ (p = 0 => boot = "forked") /\ UNCHANGED <<forked, boot, pings>>
         /\ 1 \in DOMAIN mailbox[p] /\ m \in Message
         /\ mailbox' = [mailbox EXCEPT ![p] = Tail(mailbox[p])]
         /\ Tail(mailbox[p]) \in Seq(Message)
         /\ \A k \in DOMAIN Tail(mailbox[p]) :
              k + 1 \in DOMAIN mailbox[p] /\ Tail(mailbox[p])[k] = mailbox[p][k + 1]
         /\ \A l \in DOMAIN mailbox[p] :
              l # 1 => l - 1 \in DOMAIN Tail(mailbox[p]) /\ Tail(mailbox[p])[l - 1] = mailbox[p][l]
         /\ \/ m.type = "pid" /\ HandlePid(p, m.slot)
            \/ m.type = "soft" /\ HandleSoft(p)
            \/ m.type = "quit" /\ HandleQuit(p)
<1> DEFINE s == mailbox[p]
<1>1. s \in Seq(Message) /\ s # <<>>
  BY DEF TypeOK, Receive
<1>2. Len(s) \in Nat /\ Len(s) > 0 /\ DOMAIN s = 1..Len(s) /\ s[1] \in Message /\ Head(s) = s[1]
  BY <1>1
<1>3. Tail(s) \in Seq(Message) /\ DOMAIN Tail(s) = 1..(Len(s) - 1)
  BY <1>1, <1>2
<1>4. \A k \in DOMAIN Tail(s) : k + 1 \in DOMAIN s /\ Tail(s)[k] = s[k + 1]
  BY <1>1, <1>2, <1>3
<1>5. \A l \in DOMAIN s : l # 1 => l - 1 \in DOMAIN Tail(s) /\ Tail(s)[l - 1] = s[l]
  BY <1>1, <1>2, <1>3
<1>6. mailbox' = [mailbox EXCEPT ![p] = Tail(s)]
  BY DEF Receive
<1>7. AtRest(p) /\ (p = 0 => boot = "forked") /\ UNCHANGED <<forked, boot, pings>>
  BY DEF Receive, Running, Listens
<1>8. \/ s[1].type = "pid" /\ HandlePid(p, s[1].slot)
      \/ s[1].type = "soft" /\ HandleSoft(p)
      \/ s[1].type = "quit" /\ HandleQuit(p)
  BY <1>2 DEF Receive
<1> QED
  BY <1>2, <1>3, <1>4, <1>5, <1>6, <1>7, <1>8
\* softquitall and quitall: the handler of a process at rest sends no pid, and
\* makes no other process soft.
LEMMA CommandEffect ==
  ASSUME TypeOK, NEW p \in Slot, AtRest(p), HandleSoft(p) \/ HandleQuit(p)
  PROVE  /\ \E q \in Seq(Outgoing) :
              /\ out' = [out EXCEPT ![p] = q]
              /\ \A k \in DOMAIN q : q[k].msg.type # "pid"
         /\ soft' \in [Slot -> BOOLEAN] /\ quit' \in [Slot -> BOOLEAN]
         /\ nodes' = nodes
         /\ \A r \in Slot : soft'[r] => soft[r] \/ r = p
<1>1. out[p] = <<>> /\ out = [out EXCEPT ![p] = <<>>]
  BY DEF AtRest, TypeOK
<1>2. <<>> \in Seq(Outgoing) /\ \A k \in DOMAIN <<>> : <<>>[k].msg.type # "pid"
  OBVIOUS
<1>3. ASSUME NEW m \in {Soft, Quit}
      PROVE  /\ Next_nid(p, m) \in Seq(Outgoing)
             /\ \A k \in DOMAIN Next_nid(p, m) : Next_nid(p, m)[k].msg.type # "pid"
  BY Relayed
<1>4. CASE HandleSoft(p)
  BY <1>1, <1>2, <1>3, <1>4 DEF HandleSoft, TypeOK
<1>5. CASE HandleQuit(p)
  BY <1>1, <1>2, <1>3, <1>5 DEF HandleQuit, TypeOK
<1> QED
  BY <1>4, <1>5

\* A ping is such a command too (ping_command).
LEMMA PingEffect ==
  ASSUME TypeOK, Ping
  PROVE  /\ \E q \in Seq(Outgoing) :
              /\ out' = [out EXCEPT ![0] = q]
              /\ \A k \in DOMAIN q : q[k].msg.type # "pid"
         /\ out[0] = <<>> /\ boot # "forking"
         /\ pings' \in 0..MaxPings
         /\ UNCHANGED <<forked, boot, nodes, mailbox, soft, quit>>
<1>1. PICK m \in {Soft, Quit} : out' = [out EXCEPT ![0] = <<Broadcast(0, m)>>]
  BY DEF Ping
<1>2. 0 \in Slot
  BY PipelineAssumption DEF Slot
<1>3. /\ <<Broadcast(0, m)>> \in Seq(Outgoing)
      /\ \A k \in DOMAIN <<Broadcast(0, m)>> : <<Broadcast(0, m)>>[k].msg.type # "pid"
  BY <1>2, Relayed
<1>4. pings' \in 0..MaxPings
  BY PipelineAssumption DEF Ping, TypeOK
<1> QED
  BY <1>1, <1>3, <1>4 DEF Ping, Running, AtRest

\* The initial state: nobody has been forked or told anything.
LEMMA InitInv == Init => IInv
<1> SUFFICES ASSUME Init PROVE IInv
  OBVIOUS
<1> USE PipelineAssumption DEF Init, Slot, Worker
<1>1. TypeOK
  BY DEF TypeOK
<1>2. BootInv
  BY DEF BootInv
<1>3. PidsFromMaster /\ PidsAlone /\ PidsFirst
  BY DEF PidsFromMaster, PidsAlone, PidsFirst
<1>4. PidsKept /\ ToldKnowsAll
  BY DEF PidsKept, ToldKnowsAll
<1> QED
  BY <1>1, <1>2, <1>3, <1>4 DEF IInv

\* The type invariant: nobody is sent to, or told of, a slot beyond the array.
LEMMA TypeStep == IInv /\ [Next]_vars => TypeOK'
<1> SUFFICES ASSUME TypeOK, BootInv, [Next]_vars PROVE TypeOK'
  BY DEF IInv
<1>0. 0 \in Slot
  BY PipelineAssumption DEF Slot
<1>1. CASE Fork
  <2>1. forked + 1 \in Slot /\ forked \in Nat
    BY <1>1, PipelineAssumption DEF Fork, BootInv, TypeOK, Slot
  <2>2. nodes' \in [Slot -> SUBSET Slot] /\ quit' \in [Slot -> BOOLEAN]
    BY <1>0, <1>1, <2>1 DEF Fork, TypeOK
  <2>3. out' \in [Slot -> Seq(Outgoing)] /\ boot' \in {"forking", "forked"}
    BY <1>0, <1>1, Told DEF Fork, TypeOK
  <2> QED
    BY <1>1, <2>1, <2>2, <2>3 DEF Fork, TypeOK
<1>2. CASE ForkFails
  BY <1>2 DEF ForkFails, TypeOK
<1>3. ASSUME NEW p \in Slot, Send(p) PROVE TypeOK'
  <2>1. PICK d \in Slot, q \in Seq(Outgoing) :
          /\ out[p][1].msg \in Message
          /\ mailbox' = [mailbox EXCEPT ![d] = Append(mailbox[d], out[p][1].msg)]
          /\ out' = [out EXCEPT ![p] = q]
    BY <1>3, SendEffect
  <2>2. Append(mailbox[d], out[p][1].msg) \in Seq(Message)
    BY <2>1 DEF TypeOK
  <2> QED
    BY <1>3, <2>1, <2>2 DEF Send, TypeOK
<1>4. ASSUME NEW p \in Slot, Receive(p) PROVE TypeOK'
  <2> DEFINE m == mailbox[p][1]
  <2>1. /\ AtRest(p) /\ UNCHANGED <<forked, boot, pings>>
        /\ m \in Message /\ Tail(mailbox[p]) \in Seq(Message)
        /\ mailbox' = [mailbox EXCEPT ![p] = Tail(mailbox[p])]
    BY <1>4, ReceiveEffect
  <2>2. mailbox' \in [Slot -> Seq(Message)]
    BY <2>1 DEF TypeOK
  <2>3. CASE HandlePid(p, m.slot)
    <3>1. nodes' \in [Slot -> SUBSET Slot]
      BY <2>1, <2>3 DEF HandlePid, TypeOK, Message
    <3> QED
      BY <2>1, <2>2, <2>3, <3>1 DEF HandlePid, TypeOK
  <2>4. CASE HandleSoft(p) \/ HandleQuit(p)
    BY <2>1, <2>2, <2>4, CommandEffect DEF TypeOK
  <2> QED
    BY <1>4, <2>3, <2>4, ReceiveEffect
<1>5. CASE Command
  <2>1. AtRest(0) /\ (HandleSoft(0) \/ HandleQuit(0))
    BY <1>5 DEF Command, Running
  <2> QED
    BY <1>0, <1>5, <2>1, CommandEffect DEF Command, TypeOK
<1>6. CASE Ping
  BY <1>0, <1>6, PingEffect DEF TypeOK
<1>7. ASSUME NEW p \in Slot, Interrupt(p) PROVE TypeOK'
  BY <1>7 DEF Interrupt, TypeOK
<1>8. CASE UNCHANGED vars
  BY <1>8 DEF vars, TypeOK
<1> QED
  BY <1>1, <1>2, <1>3, <1>4, <1>5, <1>6, <1>7, <1>8 DEF Next
\* Booting: while the master forks, nothing is sent, read or commanded.
LEMMA BootStep == IInv /\ [Next]_vars => BootInv'
<1> SUFFICES ASSUME TypeOK, BootInv, [Next]_vars PROVE BootInv'
  BY DEF IInv
<1>0. 0 \in Slot /\ forked \in Slot /\ forked \in Nat /\ N \in Nat
  BY PipelineAssumption DEF Slot, TypeOK
<1>1. CASE Fork
  <2>1. /\ boot = "forking" /\ forked < N /\ nodes[0] = 0..forked
        /\ forked' = forked + 1 /\ UNCHANGED <<mailbox, soft>>
    BY <1>1 DEF Fork, BootInv
  <2>2. nodes' = [nodes EXCEPT ![forked + 1] = nodes[0] \cup {forked + 1},
                              ![0] = nodes[0] \cup {forked + 1}]
    BY <1>0, <1>1 DEF Fork, TypeOK
  <2>3. nodes'[0] = 0..forked'
    BY <1>0, <2>1, <2>2 DEF TypeOK
  <2>4. \A p \in 0..forked' : 0 \in nodes'[p]
    <3> TAKE p \in 0..forked'
    <3>1. p \in Slot /\ forked + 1 \in Slot /\ forked + 1 # 0 /\ 0 \in nodes[0]
      BY <1>0, <2>1 DEF Slot
    <3>2. CASE p = forked + 1 \/ p = 0
      BY <1>0, <2>1, <2>2, <3>1, <3>2 DEF TypeOK
    <3>3. CASE p # forked + 1 /\ p # 0
      BY <1>0, <2>1, <2>2, <3>1, <3>3 DEF TypeOK, BootInv
    <3> QED
      BY <3>2, <3>3
  <2>5. CASE forked + 1 = N
    BY <1>1, <2>1, <2>3, <2>4, <2>5 DEF Fork, BootInv, Slot
  <2>6. CASE forked + 1 # N
    <3>1. forked' < N /\ boot' = boot /\ out' = out
      BY <1>0, <1>1, <2>1, <2>6 DEF Fork
    <3> QED
      BY <2>1, <2>3, <2>4, <3>1 DEF BootInv
  <2> QED
    BY <2>5, <2>6
<1>2. ASSUME boot # "forking", boot' = boot, forked' = forked,
             \A p \in Slot : nodes[p] \subseteq nodes'[p] /\ nodes'[p] \subseteq Slot
      PROVE  BootInv'
  <2>1. \A p \in 0..forked : p \in Slot
    BY <1>0 DEF Slot
  <2>2. boot = "forked" => nodes'[0] = Slot /\ forked = N
    BY <1>0, <1>2 DEF BootInv
  <2>3. \A p \in 0..forked : 0 \in nodes'[p]
    BY <1>2, <2>1 DEF BootInv
  <2> QED
    BY <1>2, <2>2, <2>3 DEF BootInv
<1>3. ASSUME boot # "forking", boot' = boot, forked' = forked, nodes' = nodes PROVE BootInv'
  BY <1>2, <1>3 DEF TypeOK
<1>4. CASE ForkFails
  BY <1>4 DEF ForkFails, BootInv
<1>5. ASSUME NEW p \in Slot, Send(p) PROVE BootInv'
  BY <1>3, <1>5 DEF Send, BootInv
<1>6. ASSUME NEW p \in Slot, Receive(p) PROVE BootInv'
  <2> DEFINE m == mailbox[p][1]
  <2>1. boot' = boot /\ forked' = forked /\ m \in Message /\ boot # "forking"
    BY <1>6, ReceiveEffect DEF Receive, BootInv
  <2>2. CASE HandlePid(p, m.slot)
    BY <1>2, <2>1, <2>2 DEF HandlePid, TypeOK, Message
  <2>3. CASE HandleSoft(p) \/ HandleQuit(p)
    BY <1>3, <2>1, <2>3 DEF HandleSoft, HandleQuit
  <2> QED
    BY <1>6, <2>2, <2>3, ReceiveEffect
<1>7. CASE Command
  BY <1>3, <1>7 DEF Command, Running, AtRest, HandleSoft, HandleQuit
<1>8. CASE Ping
  BY <1>3, <1>8, PingEffect
<1>9. CASE \E p \in Slot : Interrupt(p)
  BY <1>9 DEF Interrupt, BootInv
<1>10. CASE UNCHANGED vars
  BY <1>10 DEF vars, BootInv
<1> QED
  BY <1>1, <1>4, <1>5, <1>6, <1>7, <1>8, <1>9, <1>10 DEF Next

\* A worker's handlers send commands only.
LEMMA PidsFromMasterStep == IInv /\ [Next]_vars => PidsFromMaster'
<1> SUFFICES ASSUME TypeOK, PidsFromMaster, [Next]_vars PROVE PidsFromMaster'
  BY DEF IInv
<1>0. Worker \subseteq Slot /\ 0 \in Slot /\ 0 \notin Worker
  BY PipelineAssumption DEF Slot, Worker
<1>1. CASE Fork
  BY <1>0, <1>1 DEF Fork, PidsFromMaster, TypeOK
<1>2. ASSUME NEW p \in Slot, Send(p) PROVE PidsFromMaster'
  <2>1. PICK q \in Seq(Outgoing) :
          /\ out' = [out EXCEPT ![p] = q]
          /\ \A k \in DOMAIN q : \E l \in DOMAIN out[p] : q[k].msg = out[p][l].msg
    BY <1>2, SendEffect
  <2>2. out'[p] = q /\ \A r \in Worker : r # p => out'[r] = out[r]
    BY <1>0, <2>1 DEF TypeOK
  <2>3. p \in Worker => \A k \in DOMAIN q : q[k].msg.type # "pid"
    BY <2>1 DEF PidsFromMaster
  <2> QED
    BY <2>2, <2>3 DEF PidsFromMaster
<1>3. ASSUME NEW p \in Slot, AtRest(p), HandleSoft(p) \/ HandleQuit(p) PROVE PidsFromMaster'
  <2>1. PICK q \in Seq(Outgoing) :
          /\ out' = [out EXCEPT ![p] = q]
          /\ \A k \in DOMAIN q : q[k].msg.type # "pid"
    BY <1>3, CommandEffect
  <2> QED
    BY <1>0, <2>1 DEF PidsFromMaster, TypeOK
<1>4. ASSUME NEW p \in Slot, Receive(p) PROVE PidsFromMaster'
  <2>1. CASE HandlePid(p, mailbox[p][1].slot)
    BY <2>1 DEF HandlePid, PidsFromMaster
  <2> QED
    BY <1>3, <1>4, <2>1, ReceiveEffect
<1>5. CASE Command
  BY <1>0, <1>3, <1>5 DEF Command, Running
<1>6. CASE Ping
  BY <1>0, <1>6, PingEffect DEF PidsFromMaster, TypeOK
<1>7. ASSUME out' = out PROVE PidsFromMaster'
  BY <1>7 DEF PidsFromMaster
<1> QED
  BY <1>1, <1>2, <1>4, <1>5, <1>6, <1>7 DEF Next, ForkFails, Interrupt, vars
\* While the master tells the pids it does nothing else, and nobody can be commanded.
LEMMA PidsAloneStep == IInv /\ [Next]_vars => PidsAlone'
<1> SUFFICES ASSUME TypeOK, BootInv, PidsAlone, [Next]_vars PROVE PidsAlone'
  BY DEF IInv
<1> DEFINE Telling == \E k \in DOMAIN out[0] : out[0][k].msg.type = "pid"
<1>0. Worker \subseteq Slot /\ 0 \in Slot /\ 0 \notin Worker
  BY PipelineAssumption DEF Slot, Worker
<1>1. CASE Fork
  <2>1. /\ \A p \in Slot : mailbox[p] = <<>> /\ out[p] = <<>> /\ ~soft[p]
        /\ UNCHANGED <<mailbox, soft>>
    BY <1>1 DEF Fork, BootInv
  <2>2. \A p \in Worker : out'[p] = <<>>
    BY <1>0, <1>1, <2>1 DEF Fork, TypeOK
  <2>3. out'[0] = <<>> \/ out'[0] = PidBroadcasts
    BY <1>0, <1>1, <2>1 DEF Fork, TypeOK
  <2>4. \A k \in DOMAIN out'[0] : out'[0][k].msg.type = "pid"
    <3>1. \A k \in DOMAIN PidBroadcasts : PidBroadcasts[k].msg.type = "pid"
      <4>1. \A w \in Worker : PidOf(w).type = "pid"
        BY DEF PidOf
      <4> QED
        BY <4>1, Told
    <3>2. DOMAIN <<>> = {}
      OBVIOUS
    <3> QED
      BY <2>3, <3>1, <3>2
  <2> QED
    BY <2>1, <2>2, <2>4 DEF PidsAlone
<1>2. ASSUME NEW p \in Slot, Send(p) PROVE PidsAlone'
  <2> DEFINE m == out[p][1].msg
  <2>1. PICK d \in Slot, q \in Seq(Outgoing) :
          /\ 1 \in DOMAIN out[p] /\ m \in Message /\ d \in out[p][1].to
          /\ mailbox' = [mailbox EXCEPT ![d] = Append(mailbox[d], m)]
          /\ out' = [out EXCEPT ![p] = q]
          /\ \A k \in DOMAIN q : \E l \in DOMAIN out[p] : q[k].msg = out[p][l].msg
          /\ \A l \in DOMAIN out[p] : \A e \in out[p][l].to :
               (l = 1 /\ e = d) \/ \E k \in DOMAIN q : q[k].msg = out[p][l].msg /\ e \in q[k].to
    BY <1>2, SendEffect
  <2>2. soft' = soft
    BY <1>2 DEF Send
  <2>3. CASE p # 0
    <3>1. out'[0] = out[0] /\ p \in Worker
      BY <1>0, <2>1, <2>3, PipelineAssumption DEF TypeOK, Slot, Worker
    <3>2. ~Telling
      BY <2>1, <3>1 DEF PidsAlone
    <3> QED
      BY <3>1, <3>2 DEF PidsAlone
  <2>4. CASE p = 0
    <3>1. out'[0] = q /\ \A r \in Worker : out'[r] = out[r]
      BY <1>0, <2>1, <2>4 DEF TypeOK
    <3>2. SUFFICES ASSUME Telling PROVE PidsAlone'
      BY <2>1, <2>4, <3>1 DEF PidsAlone
    <3>3. m.type = "pid" /\ \A k \in DOMAIN q : q[k].msg.type = "pid"
      BY <2>1, <2>4, <3>2 DEF PidsAlone
    <3>4. mailbox[d] \in Seq(Message) /\ \A k \in DOMAIN mailbox[d] : mailbox[d][k].type = "pid"
      BY <3>2 DEF PidsAlone, TypeOK
    <3>5. \A k \in DOMAIN Append(mailbox[d], m) : Append(mailbox[d], m)[k].type = "pid"
      BY <2>1, <3>3, <3>4
    <3>6. \A r \in Slot : \A k \in DOMAIN mailbox'[r] : mailbox'[r][k].type = "pid"
      BY <2>1, <3>2, <3>5 DEF PidsAlone, TypeOK
    <3> QED
      BY <2>2, <3>1, <3>2, <3>3, <3>6 DEF PidsAlone
  <2> QED
    BY <2>3, <2>4
<1>3. ASSUME NEW p \in Slot, AtRest(p), HandleSoft(p) \/ HandleQuit(p),
             p = 0 \/ ~Telling
      PROVE  PidsAlone'
  <2>1. PICK q \in Seq(Outgoing) :
          /\ out' = [out EXCEPT ![p] = q]
          /\ \A k \in DOMAIN q : q[k].msg.type # "pid"
    BY <1>3, CommandEffect
  <2>2. \A k \in DOMAIN out'[0] : out'[0][k].msg.type # "pid"
    BY <1>0, <1>3, <2>1 DEF TypeOK
  <2> QED
    BY <2>2 DEF PidsAlone
<1>4. ASSUME NEW p \in Slot, Receive(p) PROVE PidsAlone'
  <2> DEFINE s == mailbox[p]
             t == Tail(s)
  <2>1. /\ AtRest(p) /\ 1 \in DOMAIN s
        /\ mailbox' = [mailbox EXCEPT ![p] = t]
        /\ \A k \in DOMAIN t : k + 1 \in DOMAIN s /\ t[k] = s[k + 1]
    BY <1>4, ReceiveEffect
  <2>2. CASE s[1].type # "pid"
    <3>1. ~Telling
      BY <2>1, <2>2 DEF PidsAlone
    <3> QED
      BY <1>3, <1>4, <2>1, <2>2, <3>1, ReceiveEffect
  <2>3. CASE HandlePid(p, s[1].slot)
    <3>1. UNCHANGED <<out, soft>>
      BY <2>3 DEF HandlePid
    <3>2. \A r \in Slot : r # p => mailbox'[r] = mailbox[r]
      BY <2>1 DEF TypeOK
    <3>3. mailbox'[p] = t
      BY <2>1 DEF TypeOK
    <3>4. SUFFICES ASSUME Telling PROVE PidsAlone'
      BY <3>1 DEF PidsAlone
    <3>5. \A r \in Slot : \A k \in DOMAIN mailbox'[r] : mailbox'[r][k].type = "pid"
      BY <2>1, <3>2, <3>3, <3>4 DEF PidsAlone
    <3> QED
      BY <3>1, <3>4, <3>5 DEF PidsAlone
  <2> QED
    BY <1>4, <2>2, <2>3, ReceiveEffect
<1>5. CASE Command
  BY <1>0, <1>3, <1>5 DEF Command, Running
<1>6. CASE Ping
  BY <1>0, <1>6, PingEffect DEF PidsAlone, TypeOK
<1>7. ASSUME UNCHANGED <<mailbox, out, soft>> PROVE PidsAlone'
  BY <1>7 DEF PidsAlone
<1> QED
  BY <1>1, <1>2, <1>4, <1>5, <1>6, <1>7 DEF Next, ForkFails, Interrupt, vars

\* No pid is sent behind a command.
LEMMA PidsFirstStep == IInv /\ [Next]_vars => PidsFirst'
<1> SUFFICES ASSUME TypeOK, PidsFromMaster, PidsAlone, PidsFirst, [Next]_vars PROVE PidsFirst'
  BY DEF IInv
<1>1. ASSUME NEW p \in Slot, Send(p) PROVE PidsFirst'
  <2> DEFINE m == out[p][1].msg
  <2>1. PICK d \in Slot :
          /\ 1 \in DOMAIN out[p] /\ m \in Message
          /\ mailbox' = [mailbox EXCEPT ![d] = Append(mailbox[d], m)]
    BY <1>1, SendEffect
  <2> DEFINE a == Append(mailbox[d], m)
  <2>2. \A r \in Slot : r # d => mailbox'[r] = mailbox[r]
    BY <2>1 DEF TypeOK
  <2>3. mailbox'[d] = a
    BY <2>1 DEF TypeOK
  <2>4. m.type = "pid" => \A k \in DOMAIN mailbox[d] : mailbox[d][k].type = "pid"
    <3> SUFFICES ASSUME m.type = "pid"
                 PROVE  \A k \in DOMAIN mailbox[d] : mailbox[d][k].type = "pid"
      OBVIOUS
    <3>1. p = 0
      BY <2>1, PipelineAssumption DEF PidsFromMaster, Slot, Worker
    <3> QED
      BY <2>1, <3>1 DEF PidsAlone
  <2>5. /\ DOMAIN a = 1..(Len(mailbox[d]) + 1) /\ a[Len(mailbox[d]) + 1] = m
        /\ Len(mailbox[d]) \in Nat /\ DOMAIN mailbox[d] = 1..Len(mailbox[d])
        /\ \A k \in DOMAIN mailbox[d] : a[k] = mailbox[d][k]
    BY <2>1 DEF TypeOK
  <2> HIDE DEF a, m
  <2>6. \A k, l \in DOMAIN a : k < l /\ a[l].type = "pid" => a[k].type = "pid"
    <3> TAKE k, l \in DOMAIN a
    <3>1. CASE l = Len(mailbox[d]) + 1
      BY <2>4, <2>5, <3>1
    <3>2. CASE l # Len(mailbox[d]) + 1
      BY <2>5, <3>2 DEF PidsFirst
    <3> QED
      BY <3>1, <3>2
  <2> QED
    BY <2>2, <2>3, <2>6 DEF PidsFirst
<1>2. ASSUME NEW p \in Slot, Receive(p) PROVE PidsFirst'
  <2> DEFINE s == mailbox[p]
             t == Tail(s)
  <2>1. /\ mailbox' = [mailbox EXCEPT ![p] = t]
        /\ \A k \in DOMAIN t : k + 1 \in DOMAIN s /\ t[k] = s[k + 1]
        /\ DOMAIN t \subseteq Int
    BY <1>2, ReceiveEffect
  <2>2. \A r \in Slot : r # p => mailbox'[r] = mailbox[r]
    BY <2>1 DEF TypeOK
  <2>3. mailbox'[p] = t
    BY <2>1 DEF TypeOK
  <2> HIDE DEF t
  <2>4. \A k, l \in DOMAIN t : k < l /\ t[l].type = "pid" => t[k].type = "pid"
    BY <2>1 DEF PidsFirst
  <2> QED
    BY <2>2, <2>3, <2>4 DEF PidsFirst
<1>3. ASSUME mailbox' = mailbox PROVE PidsFirst'
  BY <1>3 DEF PidsFirst
<1> QED
  BY <1>1, <1>2, <1>3 DEF Next, Fork, ForkFails, Command, Ping, Interrupt, vars
\* No pid is lost between the master's broadcast and a process's table.
LEMMA PidsKeptStep == IInv /\ [Next]_vars => PidsKept'
<1> SUFFICES ASSUME TypeOK, BootInv, PidsKept, [Next]_vars, boot' = "forked",
                    NEW r \in Slot, NEW w \in Slot
             PROVE  w \in nodes'[r] \/ Waits(r, w)' \/ Owed(r, w)'
  BY DEF IInv, PidsKept
<1>0. 0 \in Slot
  BY PipelineAssumption DEF Slot
<1>1. CASE Fork
  <2>1. /\ boot = "forking" /\ forked + 1 = N /\ out' = [out EXCEPT ![0] = PidBroadcasts]
        /\ nodes[0] = 0..forked /\ nodes' = [nodes EXCEPT ![N] = nodes[0] \cup {N}, ![0] = @ \cup {N}]
    BY <1>1 DEF Fork, BootInv
  <2>2. forked \in Nat /\ N \in Slot /\ N # 0
    BY PipelineAssumption DEF TypeOK, Slot
  <2>3. CASE r = 0
    BY <1>0, <2>1, <2>2, <2>3 DEF TypeOK, Slot
  <2>4. CASE w \in Worker /\ r # 0
    <3>1. out'[0] = PidBroadcasts
      BY <1>0, <2>1 DEF TypeOK
    <3>2. w \in DOMAIN out'[0] /\ out'[0][w].msg = PidOf(w) /\ r \in out'[0][w].to
      BY <2>4, <3>1, Told
    <3> QED
      BY <3>2 DEF Owed
  <2>5. CASE w = 0 /\ r # 0
    <3>1. CASE r = N
      <4>1. 0 \in nodes[0] /\ nodes'[N] = nodes[0] \cup {N}
        BY <2>1, <2>2 DEF TypeOK
      <4> QED
        BY <2>5, <3>1, <4>1
    <3>2. CASE r # N
      <4>1. r \in 0..forked
        BY <2>1, <2>2, <3>2 DEF Slot
      <4> QED
        BY <2>1, <2>2, <2>5, <3>2, <4>1 DEF TypeOK, BootInv
    <3> QED
      BY <3>1, <3>2
  <2> QED
    BY <2>3, <2>4, <2>5, PipelineAssumption DEF Slot, Worker
<1>2. CASE ForkFails
  BY <1>2 DEF ForkFails
<1>3. ASSUME NEW p \in Slot, Send(p)
      PROVE  w \in nodes'[r] \/ Waits(r, w)' \/ Owed(r, w)'
  <2> DEFINE m == out[p][1].msg
  <2>1. PICK d \in Slot, q \in Seq(Outgoing) :
          /\ 1 \in DOMAIN out[p] /\ m \in Message /\ d \in out[p][1].to
          /\ mailbox' = [mailbox EXCEPT ![d] = Append(mailbox[d], m)]
          /\ out' = [out EXCEPT ![p] = q]
          /\ \A k \in DOMAIN q : \E l \in DOMAIN out[p] : q[k].msg = out[p][l].msg
          /\ \A l \in DOMAIN out[p] : \A e \in out[p][l].to :
               (l = 1 /\ e = d) \/ \E k \in DOMAIN q : q[k].msg = out[p][l].msg /\ e \in q[k].to
    BY <1>3, SendEffect
  <2>2. boot = "forked" /\ nodes' = nodes
    BY <1>3 DEF Send
  <2>3. /\ \A k \in DOMAIN mailbox[d] : k \in DOMAIN mailbox'[d] /\ mailbox'[d][k] = mailbox[d][k]
        /\ \E k \in DOMAIN mailbox'[d] : mailbox'[d][k] = m
    <3> DEFINE s == mailbox[d]
               t == Append(s, m)
    <3>1. s \in Seq(Message) /\ mailbox'[d] = t
      BY <2>1 DEF TypeOK
    <3>2. /\ \A k \in DOMAIN s : k \in DOMAIN t /\ t[k] = s[k]
          /\ Len(s) + 1 \in DOMAIN t /\ t[Len(s) + 1] = m
      BY <2>1, <3>1
    <3> QED
      BY <3>1, <3>2
  <2>4. \A e \in Slot : e # d => mailbox'[e] = mailbox[e]
    BY <2>1 DEF TypeOK
  <2>5. CASE Waits(r, w)
    <3>1. Waits(r, w)'
      BY <2>3, <2>4, <2>5 DEF Waits
    <3> QED
      BY <3>1
  <2>6. CASE Owed(r, w)
    <3>1. PICK l \in DOMAIN out[0] : out[0][l].msg = PidOf(w) /\ r \in out[0][l].to
      BY <2>6 DEF Owed
    <3>2. CASE p # 0
      <4>1. out'[0] = out[0]
        BY <1>0, <2>1, <3>2 DEF TypeOK
      <4> QED
        BY <3>1, <4>1 DEF Owed
    <3>3. CASE p = 0 /\ l = 1 /\ r = d
      <4>1. m = PidOf(w)
        BY <3>1, <3>3
      <4>2. Waits(r, w)'
        BY <2>3, <3>3, <4>1 DEF Waits
      <4> QED
        BY <4>2
    <3>4. CASE p = 0 /\ ~(l = 1 /\ r = d)
      <4>1. out'[0] = q
        BY <1>0, <2>1, <3>4 DEF TypeOK
      <4>2. PICK k \in DOMAIN q : q[k].msg = out[0][l].msg /\ r \in q[k].to
        BY <2>1, <3>1, <3>4
      <4> QED
        BY <3>1, <4>1, <4>2 DEF Owed
    <3> QED
      BY <3>2, <3>3, <3>4
  <2> QED
    BY <2>2, <2>5, <2>6 DEF PidsKept
<1>4. ASSUME NEW p \in Slot, Receive(p)
      PROVE  w \in nodes'[r] \/ Waits(r, w)' \/ Owed(r, w)'
  <2> DEFINE s == mailbox[p]
             t == Tail(s)
  <2>1. /\ AtRest(p) /\ boot' = boot /\ s[1] \in Message
        /\ mailbox' = [mailbox EXCEPT ![p] = t]
        /\ \A l \in DOMAIN s : l # 1 => l - 1 \in DOMAIN t /\ t[l - 1] = s[l]
    BY <1>4, ReceiveEffect
  <2>2. CASE w \in nodes[r]
    <3>1. \/ nodes' = [nodes EXCEPT ![p] = @ \cup {s[1].slot}]
          \/ nodes' = nodes
      BY <1>4, ReceiveEffect DEF HandlePid, HandleSoft, HandleQuit
    <3> QED
      BY <2>2, <3>1 DEF TypeOK
  <2>3. CASE Owed(r, w)
    <3>1. p # 0
      BY <2>1, <2>3 DEF Owed, AtRest
    <3>2. out'[0] = out[0]
      <4>1. CASE HandlePid(p, s[1].slot)
        BY <4>1 DEF HandlePid
      <4>2. CASE HandleSoft(p) \/ HandleQuit(p)
        BY <1>0, <2>1, <3>1, <4>2, CommandEffect DEF TypeOK
      <4> QED
        BY <1>4, <4>1, <4>2, ReceiveEffect
    <3> QED
      BY <2>3, <3>2 DEF Owed
  <2>4. CASE Waits(r, w)
    <3>1. PICK k \in DOMAIN mailbox[r] : mailbox[r][k] = PidOf(w)
      BY <2>4 DEF Waits
    <3>2. CASE r # p
      <4>1. mailbox'[r] = mailbox[r]
        BY <2>1, <3>2 DEF TypeOK
      <4> QED
        BY <3>1, <4>1 DEF Waits
    <3>3. CASE r = p /\ k # 1
      <4>1. mailbox'[r] = t
        BY <2>1, <3>3 DEF TypeOK
      <4> QED
        BY <2>1, <3>1, <3>3, <4>1 DEF Waits
    <3>4. CASE r = p /\ k = 1
      <4>1. s[1].type = "pid" /\ s[1].slot = w
        BY <3>1, <3>4 DEF PidOf
      <4>2. HandlePid(p, w)
        BY <1>4, <4>1, ReceiveEffect
      <4> QED
        BY <3>4, <4>2 DEF HandlePid, TypeOK
    <3> QED
      BY <3>2, <3>3, <3>4
  <2>5. boot = "forked"
    BY <2>1
  <2> QED
    BY <2>2, <2>3, <2>4, <2>5 DEF PidsKept
<1>5. ASSUME out[0] = <<>>, UNCHANGED <<boot, nodes, mailbox>>
      PROVE  w \in nodes'[r] \/ Waits(r, w)' \/ Owed(r, w)'
  <2>1. ~Owed(r, w)
    BY <1>5 DEF Owed
  <2> QED
    BY <1>5, <2>1 DEF PidsKept, Waits
<1>6. CASE Command
  BY <1>5, <1>6 DEF Command, Running, AtRest, HandleSoft, HandleQuit
<1>7. CASE Ping
  BY <1>5, <1>7, PingEffect
<1>8. ASSUME UNCHANGED <<boot, nodes, mailbox, out>>
      PROVE  w \in nodes'[r] \/ Waits(r, w)' \/ Owed(r, w)'
  BY <1>8 DEF PidsKept, Waits, Owed
<1>9. (\E p \in Slot : Interrupt(p)) \/ UNCHANGED vars => UNCHANGED <<boot, nodes, mailbox, out>>
  BY DEF Interrupt, vars
<1> QED
  BY <1>1, <1>2, <1>3, <1>4, <1>6, <1>7, <1>8, <1>9 DEF Next

\* A command finds every pid already read: none waits behind it, none is owed.
LEMMA ToldStep == IInv /\ [Next]_vars => ToldKnowsAll'
<1> SUFFICES ASSUME IInv, [Next]_vars, boot' = "forked", NEW r \in Slot, soft'[r]
             PROVE  nodes'[r] = Slot
  BY DEF ToldKnowsAll
<1>0. 0 \in Slot /\ TypeOK /\ BootInv /\ PidsAlone /\ PidsFirst /\ PidsKept /\ ToldKnowsAll
  BY PipelineAssumption DEF Slot, IInv
<1>1. CASE Fork
  BY <1>0, <1>1 DEF Fork, BootInv
<1>2. ASSUME boot = "forked", soft[r], nodes'[r] = nodes[r] PROVE nodes'[r] = Slot
  BY <1>0, <1>2 DEF ToldKnowsAll
<1>3. ASSUME NEW p \in Slot, Receive(p) PROVE nodes'[r] = Slot
  <2> DEFINE s == mailbox[p]
  <2>1. AtRest(p) /\ boot = "forked" /\ 1 \in DOMAIN s /\ s[1] \in Message
    BY <1>0, <1>3, ReceiveEffect
  <2>2. CASE HandlePid(p, s[1].slot)
    <3>1. soft[r] /\ nodes[r] = Slot
      BY <1>0, <2>1, <2>2 DEF HandlePid, ToldKnowsAll
    <3> QED
      BY <1>0, <2>1, <2>2, <3>1 DEF HandlePid, TypeOK, Message
  <2>3. CASE s[1].type # "pid" /\ (HandleSoft(p) \/ HandleQuit(p))
    <3>1. nodes' = nodes /\ (soft[r] \/ r = p)
      BY <1>0, <2>1, <2>3, CommandEffect
    <3>2. CASE soft[r]
      BY <1>2, <2>1, <3>1, <3>2
    <3>3. CASE r = p
      <4>1. ASSUME NEW w \in Slot PROVE ~Owed(p, w)
        BY <1>0, <2>1, <2>3 DEF PidsAlone, Owed, PidOf
      <4>2. ASSUME NEW w \in Slot PROVE ~Waits(p, w)
        <5> SUFFICES ASSUME NEW k \in DOMAIN s, s[k] = PidOf(w) PROVE FALSE
          BY DEF Waits
        <5>1. s[k].type = "pid" /\ k # 1
          BY <2>3 DEF PidOf
        <5>2. s \in Seq(Message)
          BY <1>0 DEF TypeOK
        <5>3. 1 < k
          BY <5>1, <5>2
        <5> QED
          BY <1>0, <2>1, <2>3, <5>1, <5>3 DEF PidsFirst
      <4>3. \A w \in Slot : w \in nodes[p]
        BY <1>0, <2>1, <4>1, <4>2 DEF PidsKept
      <4> QED
        BY <1>0, <3>1, <3>3, <4>3 DEF TypeOK
    <3> QED
      BY <3>1, <3>2, <3>3
  <2>4. \/ s[1].type = "pid" /\ HandlePid(p, s[1].slot)
        \/ s[1].type = "soft" /\ HandleSoft(p)
        \/ s[1].type = "quit" /\ HandleQuit(p)
    BY <1>0, <1>3, ReceiveEffect
  <2> QED
    BY <2>2, <2>3, <2>4
<1>4. CASE Command
  <2>1. AtRest(0) /\ (HandleSoft(0) \/ HandleQuit(0)) /\ boot = "forked"
    BY <1>4 DEF Command, Running
  <2>2. nodes' = nodes /\ (soft[r] \/ r = 0)
    BY <1>0, <2>1, CommandEffect
  <2> QED
    BY <1>0, <1>2, <2>1, <2>2 DEF BootInv
<1>5. CASE Ping
  BY <1>0, <1>2, <1>5, PingEffect
<1>6. CASE UNCHANGED <<boot, nodes, soft>>
  BY <1>2, <1>6
<1>7. CASE ForkFails
  BY <1>7 DEF ForkFails
<1> QED
  BY <1>1, <1>3, <1>4, <1>5, <1>6, <1>7 DEF Next, Send, Interrupt, vars

\* The inductive invariant holds in every state of every behaviour.
THEOREM Invariance == Spec => []IInv
<1>1. IInv /\ [Next]_vars => IInv'
  BY TypeStep, BootStep, PidsFromMasterStep, PidsAloneStep, PidsFirstStep, PidsKeptStep, ToldStep
     DEF IInv
<1> QED
  BY InitInv, <1>1, PTL DEF Spec

\* Messages, recipients and tables stay within the array of nodes (pipeline.c).
THEOREM TypeCorrect == Spec => []TypeOK
<1>1. IInv => TypeOK
  BY DEF IInv
<1> QED
  BY Invariance, <1>1, PTL

\* A process that has been told to quit softly has the pid of every other process,
\* so the relay of pp_next_nid never takes a successor for a broadcast.
THEOREM ToldKnows == Spec => []ToldKnowsAll
<1>1. IInv => ToldKnowsAll
  BY DEF IInv
<1> QED
  BY Invariance, <1>1, PTL
=============================================================================
