--------------------------- MODULE TransferProofs ---------------------------
(* What the connections and their descriptors do for any number of workers, *)
(* ports, clients and descriptor numbers.  First the round robin of the load *)
(* balancers, which the rest of Transfer does not touch; then the descriptors: *)
(* DescriptorInv says where each socket is, who refers to each object and what *)
(* is due, every action keeps it, and the safety properties follow from it.  *)
EXTENDS Transfer, FiniteSetTheorems, SequenceTheorems, NaturalsInduction, TLAPS

\* All processes were forked: slot i holds pid i + 1.
Full == nodes = [i \in Process |-> i + 1]

\* Port p has gone round q times, and once more up to the worker it gave out last.
RoundsOf(p, q) ==
  /\ q \in Nat
  /\ lb[p] \in 1..(N + 1)
  /\ passed[p] = [w \in Worker |-> IF w < lb[p] THEN q + 1 ELSE q]

\* The inductive invariant: where all were forked, the turns that the workers had
\* follow from the nid that the load balancer keeps.
RobinInv ==
  \/ nodes[N] = 0
  \/ /\ Full
     /\ lb \in [Ports -> 1..(N + 1)] /\ passed \in [Ports -> [Worker -> Nat]]
     /\ \A p \in Ports : \E q \in Nat : RoundsOf(p, q)

\* Nothing but an accepted client changes what the load balancers know.
robin == <<nodes, lb, passed>>

\* The slot of a pid, where all were forked (pp_find_node).
LEMMA SlotOfFull == ASSUME Full, NEW nid \in 1..(N + 1) PROVE SlotOf(nid) = nid - 1
  <1>1. N \in Nat \ {0}
    BY TransferAssumption
  <1>2. nid - 1 \in Process /\ nodes[nid - 1] = nid
    BY <1>1, SMT DEF Full, Process
  <1>3. \A j \in 0..(nid - 1 - 1) : nodes[j] # nid
    BY <1>1, SMT DEF Full, Process
  <1>4. \A i \in Process : (nodes[i] = nid /\ \A j \in 0..(i - 1) : nodes[j] # nid) => i = nid - 1
    BY <1>1, SMT DEF Full, Process
  <1> QED
    BY <1>2, <1>3, <1>4, Zenon DEF SlotOf

\* The next worker of a round: the one after it, or the first (pp_next_worker_nid).
LEMMA NextOfFull ==
  ASSUME Full, NEW nid \in 1..(N + 1)
  PROVE Next_worker_nid(nid) = IF nid = N + 1 THEN 2 ELSE nid + 1
  <1>1. N \in Nat \ {0}
    BY TransferAssumption
  <1>2. SlotOf(nid) + 1 = nid
    BY <1>1, SlotOfFull, SMT
  <1>3. CASE nid = N + 1
    <2>1. nid % (N + 1) = 0
      BY <1>1, <1>3, SMT
    <2> QED
      BY <1>1, <1>2, <1>3, <2>1, SMT DEF Next_worker_nid, Full, Process
  <1>4. CASE nid # N + 1
    <2>1. nid % (N + 1) = nid
      BY <1>1, <1>4, SMT
    <2> QED
      BY <1>1, <1>2, <1>4, <2>1, SMT DEF Next_worker_nid, Full, Process
  <1> QED
    BY <1>3, <1>4

\* Every action but Accept leaves the load balancers alone.
LEMMA OthersKeepRobin ==
  ASSUME [Next]_vars, ~ \E p \in Ports : Accept(p)
  PROVE UNCHANGED robin
  <1> USE DEF robin, masterVars
  <1>1. ASSUME NEW p \in Ports, AcceptFails(p) PROVE UNCHANGED robin
    BY <1>1, Zenon DEF AcceptFails
  <1>2. ASSUME SoftQuitAll PROVE UNCHANGED robin
    BY <1>2, Zenon DEF SoftQuitAll
  <1>3. ASSUME NEW w \in Worker, Turn(w) PROVE UNCHANGED robin
    <2>1. CASE LazyStep(w)
      BY <2>1, Zenon DEF LazyStep
    <2>2. CASE Poll(w)
      BY <2>2, Zenon DEF Poll
    <2>3. CASE RoomAnswer(w)
      BY <2>3, Zenon DEF RoomAnswer
    <2>4. CASE SoftQuit(w)
      BY <2>4, Zenon DEF SoftQuit
    <2>5. CASE RawReceive(w)
      BY <2>5, Zenon DEF RawReceive
    <2>6. ASSUME NEW n \in Fd, Leaves(w, n) PROVE UNCHANGED robin
      BY <2>6, Zenon DEF Leaves
    <2>7. ASSUME NEW n \in Fd, Asks(w, n) PROVE UNCHANGED robin
      BY <2>7, Zenon DEF Asks
    <2>8. CASE Sweep(w)
      BY <2>8, Zenon DEF Sweep
    <2>9. CASE Passes(w)
      BY <2>9, Zenon DEF Passes
    <2> QED
      BY <1>3, <2>1, <2>2, <2>3, <2>4, <2>5, <2>6, <2>7, <2>8, <2>9, Zenon DEF Turn, Round
  <1>4. CASE UNCHANGED vars
    BY <1>4, Zenon DEF vars
  <1> QED
    BY <1>1, <1>2, <1>3, <1>4, Zenon DEF Next

\* A port that gives out a worker goes on in its round, or begins the next.
LEMMA AcceptKeepsRounds ==
  ASSUME RobinInv, NEW p \in Ports, Accept(p), nodes[N] # 0
  PROVE /\ lb' \in [Ports -> 1..(N + 1)] /\ passed' \in [Ports -> [Worker -> Nat]]
        /\ \A r \in Ports : \E q \in Nat : RoundsOf(r, q)'
  <1>1. Full /\ N \in Nat \ {0}
    BY TransferAssumption DEF RobinInv
  <1>2. PICK q \in Nat : RoundsOf(p, q)
    BY <1>1, Zenon DEF RobinInv
  <1>3. lb[p] \in 1..(N + 1)
    BY <1>2 DEF RoundsOf
  <1> DEFINE nid == Next_worker_nid(lb[p])
             s == IF lb[p] = N + 1 THEN 1 ELSE lb[p]
  <1>4. nid = s + 1 /\ nid \in 2..(N + 1) /\ s \in Worker
    BY <1>1, <1>3, NextOfFull, SMT DEF Worker
  <1>5. SlotOf(nid) = s
    <2>1. nid \in 1..(N + 1)
      BY <1>1, <1>4, SMT
    <2>2. SlotOf(nid) = nid - 1
      BY <2>1, <1>1, SlotOfFull, Zenon
    <2> QED
      BY <2>2, <1>1, <1>4, SMT DEF Worker
  <1>6. lb' = [lb EXCEPT ![p] = nid] /\ passed' = [passed EXCEPT ![p][SlotOf(nid)] = @ + 1]
    BY Zenon DEF Accept
  <1>7. passed' = [passed EXCEPT ![p][s] = @ + 1]
    BY <1>5, <1>6, Zenon
  <1> HIDE DEF nid, s
  <1>10. lb' \in [Ports -> 1..(N + 1)] /\ passed' \in [Ports -> [Worker -> Nat]]
    <2>1. lb \in [Ports -> 1..(N + 1)] /\ passed \in [Ports -> [Worker -> Nat]]
      BY Zenon DEF RobinInv
    <2>2. lb' \in [Ports -> 1..(N + 1)]
      BY <1>1, <1>4, <1>6, <2>1, SMT
    <2>3. [passed[p] EXCEPT ![s] = @ + 1] \in [Worker -> Nat]
      BY <1>4, <2>1, SMT
    <2>4. passed' = [passed EXCEPT ![p] = [passed[p] EXCEPT ![s] = @ + 1]]
      BY <1>7, <2>1, Zenon
    <2> QED
      BY <2>1, <2>2, <2>3, <2>4, SMT
  <1> SUFFICES ASSUME NEW r \in Ports PROVE \E k \in Nat : RoundsOf(r, k)'
    BY <1>10
  <1>8. CASE r # p
    <2>1. lb'[r] = lb[r] /\ passed'[r] = passed[r]
      BY <1>6, <1>7, <1>8, SMT DEF RobinInv
    <2>2. PICK k \in Nat : RoundsOf(r, k)
      BY <1>1, Zenon DEF RobinInv
    <2> QED
      BY <2>1, <2>2, Zenon DEF RoundsOf
  <1>9. CASE r = p
    <2>1. lb'[p] = nid /\ passed'[p] = [passed[p] EXCEPT ![s] = @ + 1]
      <3>1. p \in DOMAIN lb /\ p \in DOMAIN passed
        BY Zenon DEF RobinInv
      <3> QED
        BY <1>6, <1>7, <3>1, Zenon
    <2>2. CASE lb[p] = N + 1
      <3>1. s = 1 /\ nid = 2
        BY <1>1, <1>4, <2>2, SMT DEF s
      <3>2. passed'[p] = [w \in Worker |-> IF w < nid THEN q + 1 + 1 ELSE q + 1]
        BY <1>1, <1>2, <2>1, <2>2, <3>1, SMT DEF RoundsOf, Worker
      <3>3. RoundsOf(p, q + 1)'
        BY <1>1, <1>2, <1>4, <2>1, <3>2, SMT DEF RoundsOf
      <3> QED
        BY <3>3, <1>2, <1>9, SMT
    <2>3. CASE lb[p] # N + 1
      <3>1. s = lb[p] /\ nid = lb[p] + 1
        BY <1>4, <2>3, SMT DEF s
      <3>2. passed'[p] = [w \in Worker |-> IF w < nid THEN q + 1 ELSE q]
        BY <1>1, <1>2, <1>3, <2>1, <3>1, SMT DEF RoundsOf, Worker
      <3>3. RoundsOf(p, q)'
        BY <1>1, <1>2, <1>4, <2>1, <3>2, SMT DEF RoundsOf
      <3> QED
        BY <3>3, <1>2, <1>9, Zenon
    <2> QED
      BY <2>2, <2>3
  <1> QED
    BY <1>8, <1>9

\* The invariant holds at the start: no load balancer has given a turn yet.
LEMMA InitRobin == Init => RobinInv
  <1> SUFFICES ASSUME Init PROVE RobinInv
    OBVIOUS
  <1>1. N \in Nat \ {0} /\ Forks \subseteq Process
    BY TransferAssumption
  <1>2. PICK forked \in Forks : nodes = [i \in Process |-> IF i <= forked THEN i + 1 ELSE 0]
    BY Zenon DEF Init
  <1>3. lb = [p \in Ports |-> 1] /\ passed = [p \in Ports |-> [w \in Worker |-> 0]]
    BY Zenon DEF Init
  <1>4. lb \in [Ports -> 1..(N + 1)] /\ passed \in [Ports -> [Worker -> Nat]]
    BY <1>1, <1>3, SMT
  <1>5. \A p \in Ports : RoundsOf(p, 0)
    BY <1>1, <1>3, SMT DEF RoundsOf, Worker
  <1>6. CASE forked = N
    <2>1. Full
      BY <1>1, <1>2, <1>6, SMT DEF Full, Process
    <2> QED
      BY <1>4, <1>5, <2>1, SMT DEF RobinInv
  <1>7. CASE forked # N
    <2>1. nodes[N] = 0
      BY <1>1, <1>2, <1>7, SMT DEF Process
    <2> QED
      BY <1>4, <2>1 DEF RobinInv
  <1> QED
    BY <1>6, <1>7

\* The invariant is kept by every step.
LEMMA NextRobin == RobinInv /\ [Next]_vars => RobinInv'
  <1> SUFFICES ASSUME RobinInv, [Next]_vars PROVE RobinInv'
    OBVIOUS
  <1>1. CASE ~ \E p \in Ports : Accept(p)
    <2>1. UNCHANGED robin
      BY <1>1, OthersKeepRobin
    <2> QED
      BY <2>1, SMT DEF robin, RobinInv, Full, RoundsOf
  <1>2. ASSUME NEW p \in Ports, Accept(p) PROVE RobinInv'
    <2>1. nodes' = nodes
      BY <1>2, Zenon DEF Accept
    <2>2. CASE nodes[N] = 0
      BY <2>1, <2>2 DEF RobinInv
    <2>3. CASE nodes[N] # 0
      <3>1. Full'
        BY <2>1, <2>3, Zenon DEF RobinInv, Full
      <3> QED
        BY <2>3, <3>1, <1>2, AcceptKeepsRounds DEF RobinInv
    <2> QED
      BY <2>2, <2>3
  <1> QED
    BY <1>1, <1>2

\* The invariant gives shares that differ by one at most.
LEMMA RobinIsFair == RobinInv => FairShares
  <1> SUFFICES ASSUME RobinInv, NEW p \in Ports, NEW v \in Worker, NEW w \in Worker, nodes[N] # 0
               PROVE passed[p][v] - passed[p][w] \in -1..1
    BY DEF FairShares
  <1>1. PICK q \in Nat : RoundsOf(p, q)
    BY Zenon DEF RobinInv
  <1> QED
    BY <1>1, SMT DEF RoundsOf

\* For every number of workers and ports, and whatever fails: with every worker there, no
\* worker has had two more clients of a port than another (load_balancer_next,
\* pp_next_worker_nid).
THEOREM SharesAreFair == Spec => []FairShares
  <1>1. RobinInv /\ [Next]_vars => RobinInv'
    BY NextRobin
  <1> QED
    BY InitRobin, <1>1, RobinIsFair, PTL DEF Spec
-----------------------------------------------------------------------------
\* A set of naturals that is not empty has a least element.
LEMMA LeastNatural ==
  ASSUME NEW S \in SUBSET Nat, S # {}
  PROVE  \E m \in S : \A k \in S : m <= k
<1> DEFINE R == OpToRel(<, Nat)
<1>1. IsWellFoundedOn(R, Nat)
  BY NatLessThanWellFounded
<1>2. \A x, y \in Nat : <<y, x>> \in R <=> y < x
  BY DEF OpToRel
<1> HIDE DEF R
<1>3. PICK m \in S : \A k \in S : <<k, m>> \notin R
  BY <1>1, WFMin
<1>4. \A k \in S : ~(k < m)
  BY <1>2, <1>3
<1>5. m \in Nat /\ \A k \in S : k \in Nat
  OBVIOUS
<1> QED
  BY <1>4, <1>5

\* The constants: how many there are of each.
LEMMA Constants ==
  /\ N \in Nat /\ N # 0 /\ P \in Nat /\ P # 0 /\ MaxFd \in Nat /\ MaxFd >= P
  /\ IsFiniteSet(Client) /\ Cardinality(Client) \in Nat
  /\ MaxFd >= P + Cardinality(Client)
  /\ 0 \in Process /\ Worker \subseteq Process
  /\ \A w \in Worker : w # 0
  /\ MailFd \notin Fd /\ RawFd \notin Fd /\ MailFd # RawFd /\ INVALID_FD \notin Fd
<1>1. N \in Nat /\ N # 0 /\ P \in Nat /\ P # 0 /\ IsFiniteSet(Client) /\ MaxFd \in Nat
      /\ MaxFd >= P + Cardinality(Client)
  BY TransferAssumption
<1>2. Cardinality(Client) \in Nat
  BY <1>1, FS_CardinalityType
<1>3. MaxFd >= P
  BY <1>1, <1>2
<1>4. 0 \in Process /\ Worker \subseteq Process /\ \A w \in Worker : w # 0
  BY <1>1 DEF Process, Worker
<1>5. MailFd \notin Fd /\ RawFd \notin Fd /\ MailFd # RawFd /\ INVALID_FD \notin Fd
  BY <1>1 DEF MailFd, RawFd, Fd, INVALID_FD
<1> QED
  BY <1>1, <1>2, <1>3, <1>4, <1>5

\* What Lowest finds when there is a free number: the least of them.
LEMMA LowestLeast ==
  ASSUME NEW numbers, NEW k \in Fd, numbers[k] = Free
  PROVE  /\ Lowest(numbers) \in Fd /\ numbers[Lowest(numbers)] = Free
         /\ Lowest(numbers) <= k
<1>0. MaxFd \in Nat
  BY Constants
<1> DEFINE Frees == {n \in Fd : numbers[n] = Free}
<1>1. Frees \in SUBSET Nat /\ Frees # {}
  BY <1>0 DEF Fd
<1>2. PICK n \in Frees : \A m \in Frees : n <= m
  BY <1>1, LeastNatural
<1>3. n \in Fd /\ numbers[n] = Free /\ \A m \in 1..(n - 1) : numbers[m] # Free
  BY <1>0, <1>2 DEF Fd
<1>4. Lowest(numbers) \in Fd /\ numbers[Lowest(numbers)] = Free
      /\ \A m \in 1..(Lowest(numbers) - 1) : numbers[m] # Free
  BY <1>3, Zenon DEF Lowest
<1> DEFINE l == Lowest(numbers)
<1>5. l \in Fd /\ numbers[l] = Free /\ \A m \in 1..(l - 1) : numbers[m] # Free
  BY <1>4
<1> HIDE DEF l
<1>6. l <= k
  BY <1>0, <1>5 DEF Fd
<1> QED
  BY <1>5, <1>6 DEF l

\* There is a free number for a client that has none: each is held by one, and there
\* are numbers for all of them and the listeners.
LEMMA LowestFree ==
  ASSUME NEW numbers \in [Fd -> Client \cup Ports \cup {Free}], NEW c \in Client,
         \A m, n \in Fd : numbers[m] = numbers[n] /\ numbers[m] # Free => m = n,
         \A n \in Fd : numbers[n] # c
  PROVE  Lowest(numbers) \in Fd /\ numbers[Lowest(numbers)] = Free
<1>1. SUFFICES ASSUME \A n \in Fd : numbers[n] # Free PROVE FALSE
  BY LowestLeast
<1> DEFINE T == (Client \cup Ports) \ {c}
<1>2. numbers \in [Fd -> T]
  BY <1>1
<1>3. IsFiniteSet(Client) /\ Cardinality(Client) \in Nat /\ MaxFd \in Nat /\ P \in Nat
      /\ MaxFd >= P + Cardinality(Client)
  BY Constants
<1>4. IsFiniteSet(Ports) /\ Cardinality(Ports) = P
  BY <1>3, FS_Interval DEF Ports
<1>5. IsFiniteSet(Fd) /\ Cardinality(Fd) = MaxFd
  BY <1>3, FS_Interval DEF Fd
<1>6. IsFiniteSet(Client \cup Ports) /\ Cardinality(Client \cup Ports) <= Cardinality(Client) + P
  <2>1. /\ IsFiniteSet(Client \cup Ports)
        /\ Cardinality(Client \cup Ports)
             = Cardinality(Client) + Cardinality(Ports) - Cardinality(Client \cap Ports)
    BY <1>3, <1>4, FS_Union
  <2>2. Cardinality(Client \cap Ports) = 0
    BY TransferAssumption, FS_EmptySet
  <2> QED
    BY <1>3, <1>4, <2>1, <2>2
<1>7. IsFiniteSet(T) /\ Cardinality(T) = Cardinality(Client \cup Ports) - 1
  BY <1>6, FS_RemoveElement
<1>8. Cardinality(T) < Cardinality(Fd)
  <2>1. Cardinality(Client \cup Ports) \in Nat
    BY <1>6, FS_CardinalityType
  <2> QED
    BY <1>3, <1>5, <1>6, <1>7, <2>1
<1>9. \E x, y \in Fd : x # y /\ numbers[x] = numbers[y]
  <2> HIDE DEF T
  <2> QED
    BY <1>2, <1>5, <1>7, <1>8, FS_PigeonHole
<1> QED
  BY <1>1, <1>9

\* A socket that comes to the end of a queue, and the one at its head that leaves it.
LEMMA QueueAppend ==
  ASSUME NEW S, NEW q \in Seq(S), NEW e \in S
  PROVE  /\ Append(q, e) \in Seq(S) /\ ToSet(Append(q, e)) = ToSet(q) \cup {e}
         /\ Append(q, e) # <<>> /\ (q # <<>> => Head(Append(q, e)) = Head(q))
         /\ Len(Append(q, e)) = Len(q) + 1
         /\ IsInjective(q) /\ e \notin ToSet(q) => IsInjective(Append(q, e))
<1>1. /\ Append(q, e) \in Seq(S) /\ Append(q, e) # <<>> /\ Len(Append(q, e)) = Len(q) + 1
      /\ \A i \in 1..Len(q) : Append(q, e)[i] = q[i]
      /\ Append(q, e)[Len(q) + 1] = e
  BY AppendProperties
<1> DEFINE r == Append(q, e)
<1>2. Len(q) \in Nat /\ DOMAIN q = 1..Len(q) /\ DOMAIN r = 1..(Len(q) + 1)
  BY <1>1
<1>3. \A i \in 1..Len(q) : r[i] = q[i]
  BY <1>1
<1>4. r[Len(q) + 1] = e /\ r \in Seq(S) /\ r # <<>> /\ Len(r) = Len(q) + 1
  BY <1>1
<1>5. q # <<>> => Head(r) = Head(q)
  BY HeadTailAppend
<1> HIDE DEF r
<1>6. ToSet(r) = ToSet(q) \cup {e}
  BY <1>2, <1>3, <1>4 DEF ToSet
<1>7. ASSUME IsInjective(q), e \notin ToSet(q) PROVE IsInjective(r)
  BY <1>2, <1>3, <1>4, <1>7 DEF ToSet, IsInjective
<1> QED
  BY <1>4, <1>5, <1>6, <1>7 DEF r

\* What is left of a queue when its head is taken.
LEMMA QueueTail ==
  ASSUME NEW S, NEW q \in Seq(S), q # <<>>
  PROVE  /\ Tail(q) \in Seq(S) /\ Head(q) \in S /\ Head(q) \in ToSet(q)
         /\ ToSet(Tail(q)) \subseteq ToSet(q) /\ ToSet(q) = ToSet(Tail(q)) \cup {Head(q)}
         /\ Len(Tail(q)) = Len(q) - 1
         /\ IsInjective(q) => IsInjective(Tail(q)) /\ Head(q) \notin ToSet(Tail(q))
<1>1. /\ Head(q) \in S /\ Tail(q) \in Seq(S) /\ Len(Tail(q)) = Len(q) - 1
      /\ \A i \in 1..Len(Tail(q)) : Tail(q)[i] = q[i + 1]
  BY HeadTailProperties
<1> DEFINE t == Tail(q)
<1>2. Len(q) \in Nat /\ Len(q) # 0 /\ DOMAIN q = 1..Len(q) /\ DOMAIN t = 1..(Len(q) - 1)
      /\ Head(q) = q[1]
  BY <1>1
<1>3. \A i \in 1..(Len(q) - 1) : t[i] = q[i + 1]
  BY <1>1
<1>4. t \in Seq(S) /\ Len(t) = Len(q) - 1
  BY <1>1
<1> HIDE DEF t
<1>5. Head(q) \in ToSet(q)
  BY <1>2 DEF ToSet
<1>6. ToSet(t) \subseteq ToSet(q)
  BY <1>2, <1>3 DEF ToSet
<1>7. ToSet(q) \subseteq ToSet(t) \cup {Head(q)}
  <2> SUFFICES ASSUME NEW i \in 1..Len(q) PROVE q[i] \in ToSet(t) \cup {Head(q)}
    BY <1>2 DEF ToSet
  <2>1. CASE i = 1
    BY <1>2, <2>1
  <2>2. CASE i # 1
    <3>1. i - 1 \in 1..(Len(q) - 1) /\ (i - 1) + 1 = i
      BY <1>2, <2>2
    <3>2. t[i - 1] = q[i]
      BY <1>3, <3>1
    <3> QED
      BY <1>2, <3>1, <3>2 DEF ToSet
  <2> QED
    BY <2>1, <2>2
<1>8. ASSUME IsInjective(q) PROVE IsInjective(t) /\ Head(q) \notin ToSet(t)
  <2>1. \A i, j \in 1..Len(q) : q[i] = q[j] => i = j
    BY <1>2, <1>8 DEF IsInjective
  <2>2. ASSUME NEW i \in 1..(Len(q) - 1) PROVE t[i] # q[1]
    BY <1>2, <1>3, <2>1
  <2>3. ASSUME NEW i \in 1..(Len(q) - 1), NEW j \in 1..(Len(q) - 1), t[i] = t[j] PROVE i = j
    <3>1. i + 1 \in 1..Len(q) /\ j + 1 \in 1..Len(q)
      BY <1>2
    <3>2. i + 1 = j + 1
      BY <1>3, <2>1, <2>3, <3>1
    <3> QED
      BY <1>2, <3>2
  <2> QED
    BY <1>2, <2>2, <2>3 DEF ToSet, IsInjective
<1> QED
  BY <1>1, <1>4, <1>5, <1>6, <1>7, <1>8 DEF t

\* The turn of a worker (fiber_module_step).
LEMMA FiberOrder ==
  ASSUME NEW w
  PROVE  /\ turn[w] = "lazy" => NextFiber(w) = "events"
         /\ turn[w] \in {"events", "round"} => NextFiber(w) = "zombie"
         /\ turn[w] = "zombie" => NextFiber(w) = "lazy"
<1> DEFINE at == IF turn[w] = "round" THEN "events" ELSE turn[w]
<1>1. Fibers[1] = "lazy" /\ Fibers[2] = "events" /\ Fibers[3] = "zombie" /\ Len(Fibers) = 3
      /\ DOMAIN Fibers = 1..3
  BY DEF Fibers
<1>2. ASSUME NEW i \in 1..3, Fibers[i] = at
      PROVE  NextFiber(w) = Fibers[(i % 3) + 1]
  <2>1. \A j \in 1..3 : Fibers[j] = at => j = i
    BY <1>1, <1>2
  <2>2. (CHOOSE j \in DOMAIN Fibers : Fibers[j] = at) = i
    BY <1>1, <1>2, <2>1
  <2> QED
    BY <1>1, <2>2 DEF NextFiber
<1>3. 1 % 3 = 1 /\ 2 % 3 = 2 /\ 3 % 3 = 0
  OBVIOUS
<1>4. turn[w] = "lazy" => NextFiber(w) = "events"
  BY <1>1, <1>2, <1>3
<1>5. turn[w] \in {"events", "round"} => NextFiber(w) = "zombie"
  BY <1>1, <1>2, <1>3
<1>6. turn[w] = "zombie" => NextFiber(w) = "lazy"
  BY <1>1, <1>2, <1>3
<1> QED
  BY <1>4, <1>5, <1>6

\* The lazy calls take some of the objects they are given.
LEMMA QueuesSome ==
  ASSUME NEW w, NEW objects, Queues(w, objects)
  PROVE  \E taken \in SUBSET objects :
           lazy' = [lazy EXCEPT ![w] =
             [c \in Client |-> IF c \in taken THEN lazy[w][c] + 1 ELSE lazy[w][c]]]
BY DEF Queues, kSubset
-----------------------------------------------------------------------------
\* The clients with an answer on its way in a queue of mail, each with one at most.
AskedBy(q) == {m.client : m \in ToSet(q)} \ {Free}
\* No client has two messages in the queue.
Once(q) == \A i, j \in DOMAIN q : q[i].client = q[j].client /\ q[i].client # Free => i = j

\* A client has business with worker w: it waits for an answer, is a zombie or is served.
Here(w, c) == Waits(w, c) \/ c \in zombies[w] \/ \E n \in Fd : reg[w][n] = c

\* Each worker has one pid and keeps its slot; a load balancer gives out what is in one.
Slots ==
  /\ nodes[0] = 1 /\ \A i \in Worker : nodes[i] \in {0, i + 1}
  /\ \A p \in Ports : \E i \in Process : lb[p] = nodes[i]

\* The listeners are the master's, and each under the number that was kept for it.
Listeners ==
  /\ \A w \in Worker, n \in Fd : table[w][n] \notin Ports
  /\ ~stopped => \A p \in Ports :
       /\ \A n \in Fd : table[0][n] = p => tcp_sockets[p] = n
       /\ tcp_sockets[p] = INVALID_FD => opened[p] = "nosocket"
  /\ StoppedListens

\* A socket is in one place: under a number, on its way, or not accepted yet.
Sole ==
  /\ \A p, q \in Process, m, n \in Fd :
       table[p][m] = table[q][n] /\ table[p][m] # Free => p = q /\ m = n
  /\ \A w \in Worker : IsInjective(raw[w])
  /\ \A v, w \in Worker : v # w => ToSet(raw[v]) \cap ToSet(raw[w]) = {}
  /\ \A p \in Process, n \in Fd, w \in Worker : table[p][n] \notin ToSet(raw[w])
  /\ \A p \in Process, n \in Fd : table[p][n] \notin new
  /\ \A w \in Worker : ToSet(raw[w]) \cap new = {}

\* Who has business with a worker has none elsewhere, and its socket is nowhere else.
HereOnly ==
  \A w \in Worker, c \in Client : Here(w, c) =>
    /\ c \notin new
    /\ \A v \in Worker : c \notin ToSet(raw[v]) /\ (Here(v, c) => v = w)
    /\ \A p \in Process, n \in Fd : table[p][n] = c => p = w

\* A registration is that of an object in service, which has that number.
Served(w) ==
  \A n \in Fd, c \in Client : reg[w][n] = c =>
    /\ table[w][n] = c /\ obj[w][c].live /\ obj[w][c].fd = n
    /\ obj[w][c].state = {} /\ obj[w][c].refs = 1 /\ lazy[w][c] = 0

\* Objects have one reference or two, and zombies are closed.
Objects(w) ==
  \A c \in Client :
    /\ IF obj[w][c].live THEN obj[w][c].refs \in 1..2 ELSE obj[w][c] = NoObject
    /\ c \in zombies[w] => /\ obj[w][c].live /\ obj[w][c].fd = INVALID_FD
                           /\ ~Waits(w, c) /\ \A n \in Fd : reg[w][n] # c

\* What the lazy calls are to give up is a zombie of this turn, or was sent in this turn
\* to another worker; then no callback is due for the number it had, and whoever got
\* that number since waits for nothing.
LazyOnes(w) ==
  \A c \in Client : lazy[w][c] # 0 =>
    /\ lazy[w][c] = 1 /\ obj[w][c].live /\ turn[w] # "events" /\ ~Waits(w, c)
    /\ IF c \in zombies[w] THEN turn[w] = "lazy" ELSE "softquit" \in obj[w][c].state
    /\ obj[w][c].fd # INVALID_FD =>
         /\ obj[w][c].fd \notin due[w]
         /\ \A d \in Client : obj[w][d].fd = obj[w][c].fd => ~Waits(w, d)

\* Who waits for an answer waits for one, as an object in service or a closed one.
Waiting(w) ==
  /\ Once(mail[w])
  /\ \A m \in ToSet(mail[w]) : IF m.client = Free THEN m = Softquitall ELSE m.room \in Worker \ {w}
  /\ \A c \in Client : Waits(w, c) =>
       /\ obj[w][c].live /\ obj[w][c].refs = 1 /\ lazy[w][c] = 0
       /\ IF obj[w][c].state = {} THEN obj[w][c].fd \in Fd /\ reg[w][obj[w][c].fd] = c
          ELSE obj[w][c].fd = INVALID_FD

\* A callback that is due has something to be called for.
Due(w) ==
  /\ due[w] \cap Fd \subseteq Ready(w)
  /\ RawFd \in due[w] => raw[w] # <<>> /\ lazy[w][Head(raw[w])] = 0
  /\ MailFd \in due[w] => mail[w] # <<>>

\* An open number is that of an object that will close it, unless a send failed for it.
Kept(w) ==
  w \notin quiting =>
    \A n \in Fd, c \in Client \ fails : table[w][n] = c =>
      obj[w][c].live /\ obj[w][c].fd = n /\ "softquit" \notin obj[w][c].state

\* All that the invariant says of one worker.
AtWorker(w) ==
  Served(w) /\ Objects(w) /\ LazyOnes(w) /\ Waiting(w) /\ Due(w) /\ Kept(w)

\* The master keeps a client's number only where its send failed.
AtMaster == \A n \in Fd : table[0][n] \in Client => table[0][n] \in fails

\* The inductive invariant of the descriptors.
DescriptorInv ==
  /\ TypeOK /\ Slots /\ Listeners /\ Sole /\ HereOnly /\ AtMaster
  /\ \A w \in Worker : AtWorker(w)
-----------------------------------------------------------------------------
\* Who waits is who has a message in the mail.
LEMMA WaitsAsked ==
  ASSUME NEW w, NEW c \in Client
  PROVE  Waits(w, c) <=> c \in AskedBy(mail[w])
BY TransferAssumption DEF Waits, AskedBy, ToSet

\* The same in the next state.
LEMMA WaitsAskedNext ==
  ASSUME NEW w, NEW c \in Client
  PROVE  Waits(w, c)' <=> c \in AskedBy(mail'[w])
BY TransferAssumption DEF Waits, AskedBy, ToSet

\* A message that comes to the end of the mail.
LEMMA MailAppend ==
  ASSUME NEW q \in Seq(Mail), NEW e \in Mail
  PROVE  /\ Append(q, e) \in Seq(Mail) /\ Append(q, e) # <<>>
         /\ ToSet(Append(q, e)) = ToSet(q) \cup {e}
         /\ AskedBy(Append(q, e)) = AskedBy(q) \cup ({e.client} \ {Free})
         /\ Once(q) /\ e.client \notin AskedBy(q) => Once(Append(q, e))
<1> DEFINE r == Append(q, e)
<1>1. r \in Seq(Mail) /\ r # <<>> /\ ToSet(r) = ToSet(q) \cup {e} /\ Len(r) = Len(q) + 1
  BY QueueAppend
<1>2. /\ \A i \in 1..Len(q) : r[i] = q[i]
      /\ r[Len(q) + 1] = e
  BY AppendProperties
<1>3. Len(q) \in Nat /\ DOMAIN q = 1..Len(q) /\ DOMAIN r = 1..(Len(q) + 1)
  BY <1>1
<1> HIDE DEF r
<1>4. AskedBy(r) = AskedBy(q) \cup ({e.client} \ {Free})
  BY <1>1 DEF AskedBy
<1>5. ASSUME Once(q), e.client \notin AskedBy(q) PROVE Once(r)
  <2>1. \A i \in 1..Len(q) : q[i].client = e.client => e.client = Free
    BY <1>3, <1>5 DEF AskedBy, ToSet
  <2>2. \A i, j \in 1..Len(q) : q[i].client = q[j].client /\ q[i].client # Free => i = j
    BY <1>3, <1>5 DEF Once
  <2> SUFFICES ASSUME NEW i \in 1..(Len(q) + 1), NEW j \in 1..(Len(q) + 1),
                      r[i].client = r[j].client, r[i].client # Free
               PROVE  i = j
    BY <1>3 DEF Once
  <2>3. CASE i \in 1..Len(q) /\ j \in 1..Len(q)
    BY <1>2, <2>2, <2>3
  <2>4. CASE i = Len(q) + 1 /\ j \in 1..Len(q)
    BY <1>2, <2>1, <2>4
  <2>5. CASE j = Len(q) + 1 /\ i \in 1..Len(q)
    BY <1>2, <2>1, <2>5
  <2>6. CASE j = Len(q) + 1 /\ i = Len(q) + 1
    BY <2>6
  <2> QED
    BY <1>3, <2>3, <2>4, <2>5, <2>6
<1> QED
  BY <1>1, <1>4, <1>5 DEF r

\* The message at the head is taken.
LEMMA MailTail ==
  ASSUME NEW q \in Seq(Mail), q # <<>>
  PROVE  /\ Tail(q) \in Seq(Mail) /\ Head(q) \in Mail /\ Head(q) \in ToSet(q)
         /\ ToSet(Tail(q)) \subseteq ToSet(q)
         /\ AskedBy(Tail(q)) \subseteq AskedBy(q)
         /\ Head(q).client # Free => Head(q).client \in AskedBy(q)
         /\ Once(q) => Once(Tail(q)) /\ Head(q).client \notin AskedBy(Tail(q))
<1> DEFINE t == Tail(q)
<1>1. /\ t \in Seq(Mail) /\ Head(q) \in Mail /\ Head(q) \in ToSet(q) /\ ToSet(t) \subseteq ToSet(q)
      /\ Len(t) = Len(q) - 1
  BY QueueTail
<1>2. \A i \in 1..Len(t) : t[i] = q[i + 1]
  BY HeadTailProperties
<1>3. Len(q) \in Nat /\ Len(q) # 0 /\ DOMAIN q = 1..Len(q) /\ DOMAIN t = 1..(Len(q) - 1)
      /\ Head(q) = q[1]
  BY <1>1
<1> HIDE DEF t
<1>4. AskedBy(t) \subseteq AskedBy(q) /\ (Head(q).client # Free => Head(q).client \in AskedBy(q))
  BY <1>1 DEF AskedBy
<1>5. ASSUME Once(q) PROVE Once(t) /\ Head(q).client \notin AskedBy(t)
  <2>1. \A i, j \in 1..Len(q) : q[i].client = q[j].client /\ q[i].client # Free => i = j
    BY <1>3, <1>5 DEF Once
  <2>2. ASSUME NEW i \in 1..(Len(q) - 1), NEW j \in 1..(Len(q) - 1),
               t[i].client = t[j].client, t[i].client # Free
        PROVE  i = j
    <3>1. i + 1 \in 1..Len(q) /\ j + 1 \in 1..Len(q) /\ t[i] = q[i + 1] /\ t[j] = q[j + 1]
      BY <1>1, <1>2, <1>3
    <3>2. i + 1 = j + 1
      BY <2>1, <2>2, <3>1
    <3> QED
      BY <1>3, <3>2
  <2>3. ASSUME NEW i \in 1..(Len(q) - 1), t[i].client = q[1].client PROVE t[i].client = Free
    <3>1. i + 1 \in 1..Len(q) /\ 1 \in 1..Len(q) /\ t[i] = q[i + 1] /\ i + 1 # 1
      BY <1>1, <1>2, <1>3
    <3> QED
      BY <2>1, <2>3, <3>1
  <2> QED
    BY <1>3, <2>2, <2>3 DEF Once, AskedBy, ToSet
<1> QED
  BY <1>1, <1>4, <1>5 DEF t

\* A step that is not the worker's own leaves it what it has.
SameAt(w) ==
  /\ table'[w] = table[w] /\ turn'[w] = turn[w] /\ due'[w] = due[w] /\ reg'[w] = reg[w]
  /\ obj'[w] = obj[w] /\ lazy'[w] = lazy[w] /\ zombies'[w] = zombies[w]
  /\ w \in quiting' <=> w \in quiting

\* Nothing is wrong at a worker after a step that only brings it a socket or the command.
LEMMA Frame ==
  ASSUME TypeOK, NEW w \in Worker, AtWorker(w), SameAt(w),
         mail'[w] \in {mail[w], Append(mail[w], Softquitall)},
         raw[w] # <<>> => raw'[w] # <<>> /\ Head(raw'[w]) = Head(raw[w]),
         fails \subseteq fails'
  PROVE  AtWorker(w)'
<1>1. /\ table'[w] = table[w] /\ turn'[w] = turn[w] /\ due'[w] = due[w] /\ reg'[w] = reg[w]
      /\ obj'[w] = obj[w] /\ lazy'[w] = lazy[w] /\ zombies'[w] = zombies[w]
      /\ w \in quiting' <=> w \in quiting
  BY DEF SameAt
<1>2. /\ mail[w] \in Seq(Mail) /\ Softquitall \in Mail /\ Softquitall.client = Free
  <2>1. Softquitall \in Mail
    BY Constants DEF Softquitall, Mail
  <2> QED
    BY <2>1 DEF TypeOK, Softquitall
<1>3. AskedBy(mail'[w]) = AskedBy(mail[w]) /\ (mail[w] # <<>> => mail'[w] # <<>>)
      /\ ToSet(mail'[w]) \subseteq ToSet(mail[w]) \cup {Softquitall}
      /\ (Once(mail[w]) => Once(mail'[w]))
  <2>1. Softquitall.client \notin AskedBy(mail[w])
    BY <1>2 DEF AskedBy
  <2>2. CASE mail'[w] = mail[w]
    BY <2>2
  <2>3. CASE mail'[w] = Append(mail[w], Softquitall)
    <3> DEFINE r == Append(mail[w], Softquitall)
    <3>1. /\ r # <<>> /\ ToSet(r) = ToSet(mail[w]) \cup {Softquitall}
          /\ AskedBy(r) = AskedBy(mail[w]) \cup ({Softquitall.client} \ {Free})
          /\ (Once(mail[w]) /\ Softquitall.client \notin AskedBy(mail[w]) => Once(r))
      BY <1>2, MailAppend
    <3> HIDE DEF r
    <3>2. mail'[w] = r
      BY <2>3 DEF r
    <3> QED
      BY <1>2, <2>1, <3>1, <3>2
  <2> QED
    BY <2>2, <2>3
<1>4. \A c \in Client : Waits(w, c)' <=> Waits(w, c)
  BY <1>3, WaitsAsked, WaitsAskedNext
<1>5. Served(w)'
  BY <1>1 DEF AtWorker, Served
<1>6. Objects(w)'
  BY <1>1, <1>4 DEF AtWorker, Objects
<1>7. LazyOnes(w)'
  BY <1>1, <1>4 DEF AtWorker, LazyOnes
<1>8. Waiting(w)'
  BY <1>1, <1>2, <1>3, <1>4 DEF AtWorker, Waiting
<1>9. Due(w)'
  <2>1. \A n \in Fd : n \in Ready(w)' <=> n \in Ready(w)
    <3>1. \A n \in Fd : reg[w][n] \in Client \cup {Free}
      BY DEF TypeOK
    <3> QED
      BY <1>1, <1>4, <3>1 DEF Ready
  <2> QED
    BY <1>1, <1>3, <2>1 DEF AtWorker, Due
<1>10. Kept(w)'
  BY <1>1 DEF AtWorker, Kept
<1> QED
  BY <1>5, <1>6, <1>7, <1>8, <1>9, <1>10 DEF AtWorker

\* A number that is closed moves no socket.
LEMMA SoleFreed ==
  ASSUME Sole, raw' = raw, new' = new,
         \A p \in Process, n \in Fd : table'[p][n] \in {table[p][n], Free},
         \A w \in Worker : raw[w] \in Seq(Client), new \subseteq Client
  PROVE  Sole'
<1>1. \A w \in Worker : Free \notin ToSet(raw[w])
  <2> SUFFICES ASSUME NEW w \in Worker PROVE Free \notin ToSet(raw[w])
    OBVIOUS
  <2>1. raw[w] \in Seq(Client)
    OBVIOUS
  <2> QED
    BY <2>1, TransferAssumption DEF ToSet
<1>2. Free \notin new
  BY TransferAssumption
<1>3. \A p, q \in Process, m, n \in Fd :
        table'[p][m] = table'[q][n] /\ table'[p][m] # Free => p = q /\ m = n
  <2>0. \A p, q \in Process, m, n \in Fd :
          table[p][m] = table[q][n] /\ table[p][m] # Free => p = q /\ m = n
    BY DEF Sole
  <2> SUFFICES ASSUME NEW p \in Process, NEW q \in Process, NEW m \in Fd, NEW n \in Fd,
                      table'[p][m] = table'[q][n], table'[p][m] # Free
               PROVE  p = q /\ m = n
    OBVIOUS
  <2>1. table'[p][m] = table[p][m] /\ table'[q][n] = table[q][n]
    OBVIOUS
  <2>2. table[p][m] = table[q][n] /\ table[p][m] # Free
    BY <2>1
  <2> QED
    BY <2>0, <2>2
<1>4. \A p \in Process, n \in Fd, w \in Worker : table'[p][n] \notin ToSet(raw[w])
  BY <1>1 DEF Sole
<1>5. \A p \in Process, n \in Fd : table'[p][n] \notin new
  BY <1>2 DEF Sole
<1> QED
  BY <1>3, <1>4, <1>5 DEF Sole

\* Nor does business that comes to its end.
LEMMA HereLess ==
  ASSUME HereOnly, raw' = raw, new' = new,
         \A p \in Process, n \in Fd : table'[p][n] \in {table[p][n], Free},
         \A w \in Worker, c \in Client : Here(w, c)' => Here(w, c)
  PROVE  HereOnly'
BY TransferAssumption DEF HereOnly

\* A callback of worker w: the entry is off the list, and those it unregistered.
LEMMA CallsEffect ==
  ASSUME TypeOK, NEW w \in Worker, NEW e, Calls(w, e)
  PROVE  /\ turn[w] = "round" /\ nodes[w] # 0 /\ e \in due[w] /\ due'[w] \subseteq due[w] \ {e}
         /\ e = RawFd => MailFd \notin due[w]
         /\ \A n \in due'[w] \cap Fd : reg'[w][n] = reg[w][n]
         /\ \A v \in Worker \ {w} : due'[v] = due[v] /\ turn'[v] = turn[v]
         /\ turn'[w] \in {"round", "zombie"}
         /\ due' \in [Worker -> SUBSET ({MailFd, RawFd} \cup Fd)]
         /\ turn' \in [Worker -> ToSet(Fibers) \cup {"round"}]
         /\ \A v \in Worker : turn'[v] = "round" <=> due'[v] # {}
<1>1. turn[w] = "round" /\ nodes[w] # 0 /\ e \in due[w] /\ (e = RawFd => MailFd \notin due[w])
      /\ due' = [due EXCEPT ![w] = {d \in due[w] \ {e} : d \in Fd => reg'[w][d] = reg[w][d]}]
  BY DEF Calls, At
<1>2. due \in [Worker -> SUBSET ({MailFd, RawFd} \cup Fd)]
      /\ turn \in [Worker -> ToSet(Fibers) \cup {"round"}]
      /\ \A v \in Worker : turn[v] = "round" <=> due[v] # {}
  BY DEF TypeOK
<1>3. due'[w] = {d \in due[w] \ {e} : d \in Fd => reg'[w][d] = reg[w][d]}
      /\ \A v \in Worker \ {w} : due'[v] = due[v]
  BY <1>1, <1>2
<1>4. due' \in [Worker -> SUBSET ({MailFd, RawFd} \cup Fd)]
  BY <1>1, <1>2
<1>5. IF due'[w] = {} THEN turn' = [turn EXCEPT ![w] = "zombie"] ELSE turn' = turn
  BY <1>1, FiberOrder DEF Calls, Advances
<1>6. "zombie" \in ToSet(Fibers)
  <2>1. 3 \in DOMAIN Fibers /\ Fibers[3] = "zombie"
    BY DEF Fibers
  <2> QED
    BY <2>1 DEF ToSet
<1>7. turn' \in [Worker -> ToSet(Fibers) \cup {"round"}]
  BY <1>2, <1>5, <1>6
<1>8. turn'[w] \in {"round", "zombie"} /\ (turn'[w] = "round" <=> due'[w] # {})
      /\ \A v \in Worker \ {w} : turn'[v] = turn[v]
  BY <1>1, <1>2, <1>5
<1> QED
  BY <1>1, <1>2, <1>3, <1>4, <1>7, <1>8

\* A step that leaves the master alone.
LEMMA MasterKept ==
  ASSUME Slots, Listeners, UNCHANGED masterVars, table'[0] = table[0],
         \A w \in Worker, n \in Fd : table'[w][n] \notin Ports
  PROVE  Slots' /\ Listeners'
<1>1. UNCHANGED <<opened, nodes, lb, tcp_sockets, stopped>>
  BY DEF masterVars
<1>2. Slots'
  BY <1>1 DEF Slots
<1>3. \A p \in Ports : Listening(p)' <=> Listening(p)
  BY DEF Listening
<1>4. StoppedListens'
  BY <1>1, <1>3 DEF Listeners, StoppedListens
<1> QED
  BY <1>1, <1>2, <1>4 DEF Listeners

\* What a step of a worker has to keep.
LEMMA WorkerStep ==
  ASSUME DescriptorInv, NEW w \in Worker, UNCHANGED masterVars, TypeOK',
         \A v \in Worker \ {w} :
           /\ SameAt(v) /\ mail'[v] = mail[v]
           /\ raw[v] # <<>> => raw'[v] # <<>> /\ Head(raw'[v]) = Head(raw[v]),
         fails \subseteq fails',
         table'[0] = table[0], \A n \in Fd : table'[w][n] \notin Ports,
         Sole', HereOnly', AtWorker(w)'
  PROVE  DescriptorInv'
<1>1. \A v \in Worker, n \in Fd : table'[v][n] \notin Ports
  <2> SUFFICES ASSUME NEW v \in Worker, NEW n \in Fd PROVE table'[v][n] \notin Ports
    OBVIOUS
  <2>1. CASE v = w
    BY <2>1
  <2>2. CASE v # w
    BY <2>2 DEF SameAt, DescriptorInv, Listeners
  <2> QED
    BY <2>1, <2>2
<1>2. Slots' /\ Listeners'
  BY <1>1, MasterKept DEF DescriptorInv
<1>3. ASSUME NEW v \in Worker PROVE AtWorker(v)'
  <2>1. CASE v = w
    BY <2>1
  <2>2. CASE v # w
    BY <2>2, Frame DEF DescriptorInv
  <2> QED
    BY <2>1, <2>2
<1>4. AtMaster'
  BY DEF DescriptorInv, AtMaster
<1> QED
  BY <1>2, <1>3, <1>4 DEF DescriptorInv

\* The same for a step that sends and receives no socket.
LEMMA QuietStep ==
  ASSUME DescriptorInv, NEW w \in Worker, UNCHANGED masterVars, TypeOK', raw' = raw,
         \A v \in Worker \ {w} : SameAt(v) /\ mail'[v] = mail[v],
         fails \subseteq fails',
         table'[0] = table[0], \A n \in Fd : table'[w][n] \in {table[w][n], Free},
         \A c \in Client : Here(w, c)' => Here(w, c),
         AtWorker(w)'
  PROVE  DescriptorInv'
<1>1. /\ TypeOK /\ Sole /\ HereOnly /\ Listeners /\ new' = new
  BY DEF DescriptorInv, masterVars
<1>2. ASSUME NEW p \in Process, NEW n \in Fd PROVE table'[p][n] \in {table[p][n], Free}
  <2>1. p = 0 \/ p \in Worker
    BY Constants DEF Process, Worker
  <2> QED
    BY <2>1 DEF SameAt
<1>3. Sole'
  BY <1>1, <1>2, SoleFreed DEF TypeOK
<1>4. ASSUME NEW v \in Worker, NEW c \in Client, Here(v, c)' PROVE Here(v, c)
  <2>1. CASE v = w
    BY <1>4, <2>1
  <2>2. CASE v # w
    <3>1. /\ mail'[v] = mail[v] /\ zombies'[v] = zombies[v] /\ reg'[v] = reg[v]
      BY <2>2 DEF SameAt
    <3> QED
      BY <1>4, <3>1 DEF Here, Waits
  <2> QED
    BY <2>1, <2>2
<1>5. HereOnly'
  BY <1>1, <1>2, <1>4, HereLess
<1>6. \A n \in Fd : table'[w][n] \notin Ports
  BY <1>1, TransferAssumption DEF Listeners
<1> QED
  BY <1>3, <1>5, <1>6, WorkerStep

\* The zombie fiber lets a turn pass.
LEMMA PassesKeeps ==
  ASSUME DescriptorInv, NEW w \in Worker, Passes(w)
  PROVE  DescriptorInv'
<1>1. /\ turn[w] = "zombie" /\ turn' = [turn EXCEPT ![w] = "lazy"]
      /\ UNCHANGED <<masterVars, table, raw, mail, due, reg, obj, lazy, zombies, quiting, moves, fails>>
  BY FiberOrder DEF Passes, At, Advances, fiberVars
<1>2. TypeOK /\ AtWorker(w)
  BY DEF DescriptorInv
<1>3. turn \in [Worker -> ToSet(Fibers) \cup {"round"}] /\ "lazy" \in ToSet(Fibers)
  <2>1. 1 \in DOMAIN Fibers /\ Fibers[1] = "lazy"
    BY DEF Fibers
  <2> QED
    BY <1>2, <2>1 DEF TypeOK, ToSet
<1>4. turn'[w] = "lazy" /\ (\A v \in Worker \ {w} : turn'[v] = turn[v])
      /\ turn' \in [Worker -> ToSet(Fibers) \cup {"round"}]
  BY <1>1, <1>3
<1>5. TypeOK'
  BY <1>1, <1>2, <1>4 DEF TypeOK, masterVars
<1>6. AtWorker(w)'
  BY <1>1, <1>2, <1>4 DEF AtWorker, Served, Objects, LazyOnes, Waiting, Due, Kept, Ready, Waits
<1>7. \A c \in Client : Here(w, c)' => Here(w, c)
  BY <1>1 DEF Here, Waits
<1>8. \A v \in Worker \ {w} : SameAt(v) /\ mail'[v] = mail[v]
  BY <1>1, <1>4 DEF SameAt
<1> QED
  BY <1>1, <1>5, <1>6, <1>7, <1>8, QuietStep

\* The zombie fiber gives its list to the lazy calls.
LEMMA SweepKeeps ==
  ASSUME DescriptorInv, NEW w \in Worker, Sweep(w)
  PROVE  DescriptorInv'
<1>1. /\ turn[w] = "zombie" /\ turn' = [turn EXCEPT ![w] = "lazy"] /\ Queues(w, zombies[w])
      /\ UNCHANGED <<masterVars, table, raw, mail, due, reg, obj, zombies, quiting, moves, fails>>
  BY FiberOrder DEF Sweep, At, Advances
<1>2. TypeOK /\ AtWorker(w)
  BY DEF DescriptorInv
<1>3. turn \in [Worker -> ToSet(Fibers) \cup {"round"}] /\ "lazy" \in ToSet(Fibers)
      /\ lazy \in [Worker -> [Client -> 0..2]] /\ zombies[w] \subseteq Client
  <2>1. 1 \in DOMAIN Fibers /\ Fibers[1] = "lazy"
    BY DEF Fibers
  <2> QED
    BY <1>2, <2>1 DEF TypeOK, ToSet
<1>4. turn'[w] = "lazy" /\ (\A v \in Worker \ {w} : turn'[v] = turn[v])
      /\ turn' \in [Worker -> ToSet(Fibers) \cup {"round"}]
  BY <1>1, <1>3
<1>5. PICK taken \in SUBSET zombies[w] :
        lazy' = [lazy EXCEPT ![w] =
          [c \in Client |-> IF c \in taken THEN lazy[w][c] + 1 ELSE lazy[w][c]]]
  BY <1>1, QueuesSome
<1>6. ASSUME NEW c \in zombies[w]
      PROVE  lazy[w][c] = 0 /\ obj[w][c].live /\ obj[w][c].fd = INVALID_FD /\ ~Waits(w, c)
             /\ \A n \in Fd : reg[w][n] # c
  <2>1. c \in Client
    BY <1>3
  <2> QED
    BY <1>1, <1>2, <2>1 DEF AtWorker, Objects, LazyOnes
<1>7. /\ \A v \in Worker \ {w} : lazy'[v] = lazy[v]
      /\ \A c \in Client : lazy'[w][c] = IF c \in taken THEN 1 ELSE lazy[w][c]
  BY <1>3, <1>5, <1>6
<1>8. lazy' \in [Worker -> [Client -> 0..2]]
  <2>1. [c \in Client |-> IF c \in taken THEN lazy[w][c] + 1 ELSE lazy[w][c]] \in [Client -> 0..2]
    BY <1>3, <1>6
  <2> QED
    BY <1>3, <1>5, <2>1
<1>9. TypeOK'
  BY <1>1, <1>2, <1>4, <1>8 DEF TypeOK, masterVars
<1>10. due[w] = {}
  BY <1>1, <1>2 DEF TypeOK
<1>11. \A c \in Client : Waits(w, c)' <=> Waits(w, c)
  BY <1>1 DEF Waits
<1>12. AtWorker(w)'
  <2>1. Served(w)'
    BY <1>1, <1>2, <1>6, <1>7 DEF AtWorker, Served
  <2>2. Objects(w)'
    BY <1>1, <1>2, <1>11 DEF AtWorker, Objects
  <2>3. LazyOnes(w)'
    BY <1>1, <1>2, <1>4, <1>6, <1>7, <1>10, <1>11 DEF AtWorker, LazyOnes
  <2>4. Waiting(w)'
    BY <1>1, <1>2, <1>6, <1>7, <1>11 DEF AtWorker, Waiting
  <2>5. Due(w)'
    BY <1>1, <1>10 DEF Due
  <2>6. Kept(w)'
    BY <1>1, <1>2 DEF AtWorker, Kept
  <2> QED
    BY <2>1, <2>2, <2>3, <2>4, <2>5, <2>6 DEF AtWorker
<1>13. \A c \in Client : Here(w, c)' => Here(w, c)
  BY <1>1 DEF Here, Waits
<1>14. \A v \in Worker \ {w} : SameAt(v) /\ mail'[v] = mail[v]
  BY <1>1, <1>4, <1>7 DEF SameAt
<1> QED
  BY <1>1, <1>9, <1>12, <1>13, <1>14, QuietStep

\* poll finds what is ready, when no lazy call is left from the last turn.
LEMMA PollKeeps ==
  ASSUME DescriptorInv, NEW w \in Worker, Poll(w)
  PROVE  DescriptorInv'
<1>1. PICK ready \in SUBSET ({MailFd, RawFd} \cup Ready(w)) :
        /\ turn[w] = "events"
        /\ MailFd \in ready => mail[w] # <<>>
        /\ RawFd \in ready <=> raw[w] # <<>>
        /\ due' = [due EXCEPT ![w] = ready]
        /\ turn' = [turn EXCEPT ![w] = IF ready = {} THEN "zombie" ELSE "round"]
        /\ UNCHANGED <<masterVars, table, raw, mail, reg, obj, lazy, zombies, quiting, moves, fails>>
  BY FiberOrder DEF Poll, At, Advances, fiberVars
<1>2. TypeOK /\ AtWorker(w)
  BY DEF DescriptorInv
<1>3. turn \in [Worker -> ToSet(Fibers) \cup {"round"}] /\ "zombie" \in ToSet(Fibers)
      /\ due \in [Worker -> SUBSET ({MailFd, RawFd} \cup Fd)]
  <2>1. 3 \in DOMAIN Fibers /\ Fibers[3] = "zombie"
    BY DEF Fibers
  <2> QED
    BY <1>2, <2>1 DEF TypeOK, ToSet
<1>4. ready \in SUBSET ({MailFd, RawFd} \cup Fd)
  BY DEF Ready
<1>5. /\ turn'[w] = (IF ready = {} THEN "zombie" ELSE "round") /\ due'[w] = ready
      /\ \A v \in Worker \ {w} : turn'[v] = turn[v] /\ due'[v] = due[v]
      /\ turn' \in [Worker -> ToSet(Fibers) \cup {"round"}]
      /\ due' \in [Worker -> SUBSET ({MailFd, RawFd} \cup Fd)]
  BY <1>1, <1>3, <1>4
<1>6. \A v \in Worker : turn'[v] = "round" <=> due'[v] # {}
  BY <1>2, <1>5 DEF TypeOK
<1>7. TypeOK'
  BY <1>1, <1>2, <1>5, <1>6 DEF TypeOK, masterVars
<1>8. \A c \in Client : lazy[w][c] = 0
  BY <1>1, <1>2 DEF AtWorker, LazyOnes
<1>9. \A c \in Client : Waits(w, c)' <=> Waits(w, c)
  BY <1>1 DEF Waits
<1>10. AtWorker(w)'
  <2>1. Served(w)'
    BY <1>1, <1>2 DEF AtWorker, Served
  <2>2. Objects(w)'
    BY <1>1, <1>2, <1>9 DEF AtWorker, Objects
  <2>3. LazyOnes(w)'
    BY <1>1, <1>8 DEF LazyOnes
  <2>4. Waiting(w)'
    BY <1>1, <1>2, <1>9 DEF AtWorker, Waiting
  <2>5. Due(w)'
    <3>1. ready \cap Fd \subseteq Ready(w)'
      <4>1. ready \cap Fd \subseteq Ready(w)
        BY Constants
      <4>2. Ready(w)' = Ready(w)
        BY <1>1 DEF Ready, Waits
      <4> QED
        BY <4>1, <4>2
    <3>2. raw[w] # <<>> => Head(raw[w]) \in Client
      BY <1>2 DEF TypeOK
    <3> QED
      BY <1>1, <1>5, <1>8, <3>1, <3>2 DEF Due
  <2>6. Kept(w)'
    BY <1>1, <1>2 DEF AtWorker, Kept
  <2> QED
    BY <2>1, <2>2, <2>3, <2>4, <2>5, <2>6 DEF AtWorker
<1>11. \A c \in Client : Here(w, c)' => Here(w, c)
  BY <1>1 DEF Here, Waits
<1>12. \A v \in Worker \ {w} : SameAt(v) /\ mail'[v] = mail[v]
  BY <1>1, <1>5 DEF SameAt
<1> QED
  BY <1>1, <1>7, <1>10, <1>11, <1>12, QuietStep

\* Whom a number is registered for: it is in service, and under that number only.
LEMMA ServedOne ==
  ASSUME NEW w, Served(w), Objects(w), NEW n \in Fd, NEW c \in Client, reg[w][n] = c
  PROVE  /\ obj[w][c].live /\ obj[w][c].fd = n /\ obj[w][c].state = {} /\ obj[w][c].refs = 1
         /\ table[w][n] = c /\ lazy[w][c] = 0 /\ c \notin zombies[w]
         /\ \A k \in Fd : reg[w][k] = c => k = n
<1>1. \A k \in Fd : reg[w][k] = c =>
        /\ table[w][k] = c /\ obj[w][c].live /\ obj[w][c].fd = k
        /\ obj[w][c].state = {} /\ obj[w][c].refs = 1 /\ lazy[w][c] = 0
  BY DEF Served
<1>2. c \notin zombies[w]
  BY DEF Objects
<1> QED
  BY <1>1, <1>2

\* A client in service asks for a room of another worker.
LEMMA AsksKeeps ==
  ASSUME DescriptorInv, NEW w \in Worker, NEW n \in Fd, Asks(w, n)
  PROVE  DescriptorInv'
<1>1. PICK to \in Worker \ {w} :
        /\ reg[w][n] # Free /\ moves < MaxMoves /\ moves' = moves + 1
        /\ mail' = [mail EXCEPT ![w] = Append(mail[w], [client |-> reg[w][n], room |-> to])]
        /\ Calls(w, n)
        /\ UNCHANGED <<masterVars, table, raw, reg, obj, lazy, zombies, quiting, fails>>
  BY DEF Asks, fiberVars
<1>2. TypeOK /\ AtWorker(w)
  BY DEF DescriptorInv
<1> DEFINE c == reg[w][n]
           e == [client |-> c, room |-> to]
<1>3. c \in Client /\ e \in Mail /\ mail \in [Worker -> Seq(Mail)] /\ e.client = c /\ e.room = to
  <2>1. c \in Client /\ to \in 0..N
    <3>1. reg \in [Worker -> [Fd -> Client \cup {Free}]]
      BY <1>2 DEF TypeOK
    <3>2. to \in Worker /\ Worker \subseteq 0..N
      BY <1>1, TransferAssumption DEF Worker
    <3> QED
      BY <1>1, <3>1, <3>2
  <2>2. mail \in [Worker -> Seq(Mail)]
    BY <1>2 DEF TypeOK
  <2>3. e \in Mail
    BY <2>1 DEF Mail
  <2> QED
    BY <2>1, <2>2, <2>3
<1>4. /\ turn[w] = "round" /\ n \in due[w] /\ due'[w] \subseteq due[w] \ {n}
      /\ \A v \in Worker \ {w} : due'[v] = due[v] /\ turn'[v] = turn[v]
      /\ turn'[w] \in {"round", "zombie"}
      /\ due' \in [Worker -> SUBSET ({MailFd, RawFd} \cup Fd)]
      /\ turn' \in [Worker -> ToSet(Fibers) \cup {"round"}]
      /\ \A v \in Worker : turn'[v] = "round" <=> due'[v] # {}
  BY <1>1, <1>2, CallsEffect
<1>5. ~Waits(w, c)
  BY <1>2, <1>4 DEF AtWorker, Due, Ready
<1> HIDE DEF e
<1>6. mail' = [mail EXCEPT ![w] = Append(mail[w], e)]
  BY <1>1 DEF e
<1>7. mail'[w] = Append(mail[w], e) /\ \A v \in Worker \ {w} : mail'[v] = mail[v]
  BY <1>3, <1>6
<1>8. /\ mail'[w] \in Seq(Mail) /\ mail'[w] # <<>>
      /\ ToSet(mail'[w]) = ToSet(mail[w]) \cup {e}
      /\ AskedBy(mail'[w]) = AskedBy(mail[w]) \cup {c}
      /\ Once(mail[w]) => Once(mail'[w])
  <2>1. mail[w] \in Seq(Mail) /\ e.client \notin AskedBy(mail[w]) /\ {e.client} \ {Free} = {c}
    BY <1>1, <1>3, <1>5, WaitsAsked
  <2> DEFINE r == Append(mail[w], e)
  <2>2. /\ r \in Seq(Mail) /\ r # <<>> /\ ToSet(r) = ToSet(mail[w]) \cup {e}
        /\ AskedBy(r) = AskedBy(mail[w]) \cup ({e.client} \ {Free})
        /\ Once(mail[w]) /\ e.client \notin AskedBy(mail[w]) => Once(r)
    BY <1>3, <2>1, MailAppend
  <2>3. mail'[w] = r
    BY <1>7
  <2> HIDE DEF r
  <2> QED
    BY <2>1, <2>2, <2>3
<1>9. \A d \in Client : Waits(w, d)' <=> Waits(w, d) \/ d = c
  BY <1>8, WaitsAsked, WaitsAskedNext
<1>10. mail' \in [Worker -> Seq(Mail)]
  BY <1>3, <1>6, <1>7, <1>8
<1>11. moves' \in 0..MaxMoves
  BY <1>1, <1>2, TransferAssumption DEF TypeOK
<1>12. TypeOK'
  BY <1>1, <1>2, <1>4, <1>10, <1>11 DEF TypeOK, masterVars
<1>13. /\ obj[w][c].live /\ obj[w][c].fd = n /\ obj[w][c].state = {} /\ obj[w][c].refs = 1
       /\ lazy[w][c] = 0 /\ c \notin zombies[w] /\ c # Free
       /\ \A k \in Fd : reg[w][k] = c => k = n
  <2>1. Served(w) /\ Objects(w) /\ c \in Client /\ reg[w][n] = c
    BY <1>2, <1>3 DEF AtWorker
  <2>2. c # Free
    BY <1>1
  <2> HIDE DEF c
  <2> QED
    BY <2>1, <2>2, ServedOne
<1> HIDE DEF c
<1>14. AtWorker(w)'
  <2>1. Served(w)'
    BY <1>1, <1>2 DEF AtWorker, Served
  <2>2. Objects(w)'
    BY <1>1, <1>2, <1>9, <1>13 DEF AtWorker, Objects
  <2>3. LazyOnes(w)'
    BY <1>1, <1>2, <1>4, <1>9, <1>13 DEF AtWorker, LazyOnes
  <2>4. Waiting(w)'
    <3>1. \A m \in ToSet(mail'[w]) :
            IF m.client = Free THEN m = Softquitall ELSE m.room \in Worker \ {w}
      <4>1. \A m \in ToSet(mail[w]) :
              IF m.client = Free THEN m = Softquitall ELSE m.room \in Worker \ {w}
        BY <1>2 DEF AtWorker, Waiting
      <4>2. e.client # Free /\ e.room \in Worker \ {w}
        BY <1>3, <1>13
      <4> QED
        BY <1>8, <4>1, <4>2
    <3>2. reg[w][n] = c
      BY DEF c
    <3> QED
      BY <1>1, <1>2, <1>8, <1>9, <1>13, <3>1, <3>2 DEF AtWorker, Waiting
  <2>5. Due(w)'
    <3>1. due'[w] \cap Fd \subseteq Ready(w)'
      <4> SUFFICES ASSUME NEW k \in due'[w] \cap Fd PROVE reg'[w][k] # Free /\ ~Waits(w, reg[w][k])'
        BY <1>1 DEF Ready
      <4>1. k \in Ready(w) /\ k # n
        BY <1>2, <1>4 DEF AtWorker, Due
      <4>2. reg[w][k] # Free /\ ~Waits(w, reg[w][k]) /\ reg[w][k] # c /\ reg[w][k] \in Client
        BY <1>2, <1>13, <4>1 DEF Ready, TypeOK
      <4> QED
        BY <1>1, <1>9, <4>2
    <3> QED
      BY <1>1, <1>2, <1>4, <1>8, <3>1 DEF AtWorker, Due
  <2>6. Kept(w)'
    BY <1>1, <1>2 DEF AtWorker, Kept
  <2> QED
    BY <2>1, <2>2, <2>3, <2>4, <2>5, <2>6 DEF AtWorker
<1>15. \A d \in Client : Here(w, d)' => Here(w, d)
  BY <1>1, <1>9 DEF Here, c
<1>16. \A v \in Worker \ {w} : SameAt(v) /\ mail'[v] = mail[v]
  BY <1>1, <1>4, <1>7 DEF SameAt
<1> QED
  BY <1>1, <1>12, <1>14, <1>15, <1>16, QuietStep

\* What default_chat_close does to the registrations and the numbers of a worker.
LEMMA ClosesEffect ==
  ASSUME TypeOK, NEW w \in Worker, NEW objects, Closes(w, objects)
  PROVE  /\ reg' \in [Worker -> [Fd -> Client \cup {Free}]]
         /\ table' \in [Process -> [Fd -> Client \cup Ports \cup {Free}]]
         /\ \A v \in Worker \ {w} : reg'[v] = reg[v] /\ table'[v] = table[v]
         /\ table'[0] = table[0]
         /\ \A n \in Fd : reg'[w][n] = IF n \in {o.fd : o \in objects} THEN Free ELSE reg[w][n]
         /\ \A n \in Fd : table'[w][n] = IF n \in ClosedNumbers(objects) THEN Free ELSE table[w][n]
<1>1. /\ reg \in [Worker -> [Fd -> Client \cup {Free}]]
      /\ table \in [Process -> [Fd -> Client \cup Ports \cup {Free}]]
  BY DEF TypeOK
<1> DEFINE R == [n \in Fd |-> IF n \in {o.fd : o \in objects} THEN Free ELSE reg[w][n]]
           T == [n \in Fd |-> IF n \in ClosedNumbers(objects) THEN Free ELSE table[w][n]]
<1>2. reg' = [reg EXCEPT ![w] = R] /\ table' = [table EXCEPT ![w] = T]
  BY DEF Closes, Unregistered
<1>3. R \in [Fd -> Client \cup {Free}] /\ T \in [Fd -> Client \cup Ports \cup {Free}]
  <2>1. reg[w] \in [Fd -> Client \cup {Free}] /\ table[w] \in [Fd -> Client \cup Ports \cup {Free}]
    BY <1>1, Constants
  <2> QED
    BY <2>1
<1>4. /\ \A n \in Fd : R[n] = IF n \in {o.fd : o \in objects} THEN Free ELSE reg[w][n]
      /\ \A n \in Fd : T[n] = IF n \in ClosedNumbers(objects) THEN Free ELSE table[w][n]
  OBVIOUS
<1> HIDE DEF R, T
<1>5. /\ reg' \in [Worker -> [Fd -> Client \cup {Free}]]
      /\ table' \in [Process -> [Fd -> Client \cup Ports \cup {Free}]]
      /\ reg'[w] = R /\ table'[w] = T
      /\ \A v \in Worker \ {w} : reg'[v] = reg[v] /\ table'[v] = table[v]
      /\ table'[0] = table[0]
  BY <1>1, <1>2, <1>3, Constants
<1> QED
  BY <1>4, <1>5

\* An object that becomes a zombie keeps its references and has no number any more.
LEMMA ZombieForm ==
  ASSUME NEW o \in Object
  PROVE  /\ Zombie(o) \in Object /\ Zombie(o).live = o.live /\ Zombie(o).fd = INVALID_FD
         /\ Zombie(o).refs = o.refs /\ Zombie(o).state # {}
BY DEF Zombie, Closed, Object

\* An object that is closed keeps its references and has no number any more.
LEMMA ClosedForm ==
  ASSUME NEW o \in Object
  PROVE  /\ Closed(o) \in Object /\ Closed(o).live = o.live /\ Closed(o).fd = INVALID_FD
         /\ Closed(o).refs = o.refs /\ Closed(o).state # {}
BY DEF Closed, Object

\* A number is ready after a step when the one it is registered for waits for nothing.
LEMMA ReadyNext ==
  ASSUME NEW w, NEW k \in Fd, NEW d \in Client, reg'[w][k] = d, ~Waits(w, d)'
  PROVE  k \in Ready(w)'
BY TransferAssumption DEF Ready, Waits

\* A client that goes, or that a send fails for.
LEMMA LeavesKeeps ==
  ASSUME DescriptorInv, NEW w \in Worker, NEW n \in Fd, Leaves(w, n)
  PROVE  DescriptorInv'
<1>1. TypeOK /\ AtWorker(w)
  BY DEF DescriptorInv
<1> DEFINE c == reg[w][n]
           broken == [obj[w][c] EXCEPT !.state = @ \cup {"softquit"}]
<1>2. /\ c # Free /\ Calls(w, n)
      /\ zombies' = [zombies EXCEPT ![w] = zombies[w] \cup {c}]
      /\ UNCHANGED <<masterVars, raw, mail, lazy, quiting, moves>>
  BY DEF Leaves
<1>3. \/ /\ Closes(w, {obj[w][c]}) /\ obj' = [obj EXCEPT ![w][c] = Zombie(obj[w][c])]
         /\ UNCHANGED fails
      \/ /\ fails' = fails \cup {c}
         /\ Closes(w, {broken}) /\ obj' = [obj EXCEPT ![w][c] = Zombie(broken)]
  BY DEF Leaves, Fails
<1>4. c \in Client /\ reg[w][n] = c /\ fails \subseteq Client \cup Ports
      /\ obj \in [Worker -> [Client -> Object]] /\ zombies \in [Worker -> SUBSET Client]
  BY <1>1, <1>2, TransferAssumption DEF TypeOK
<1>5. /\ turn[w] = "round" /\ n \in due[w] /\ due'[w] \subseteq due[w] \ {n}
      /\ \A k \in due'[w] \cap Fd : reg'[w][k] = reg[w][k]
      /\ \A v \in Worker \ {w} : due'[v] = due[v] /\ turn'[v] = turn[v]
      /\ turn'[w] \in {"round", "zombie"}
      /\ due' \in [Worker -> SUBSET ({MailFd, RawFd} \cup Fd)]
      /\ turn' \in [Worker -> ToSet(Fibers) \cup {"round"}]
      /\ \A v \in Worker : turn'[v] = "round" <=> due'[v] # {}
  BY <1>1, <1>2, CallsEffect
<1>6. ~Waits(w, c) /\ \A d \in Client : Waits(w, d)' <=> Waits(w, d)
  BY <1>1, <1>2, <1>5 DEF AtWorker, Due, Ready, Waits
<1> HIDE DEF c
<1>7. /\ obj[w][c].live /\ obj[w][c].fd = n /\ obj[w][c].state = {} /\ obj[w][c].refs = 1
      /\ table[w][n] = c /\ lazy[w][c] = 0 /\ c \notin zombies[w]
      /\ \A k \in Fd : reg[w][k] = c => k = n
  <2>1. Served(w) /\ Objects(w) /\ c \in Client /\ reg[w][n] = c
    BY <1>1, <1>4 DEF AtWorker
  <2> QED
    BY <2>1, ServedOne
<1>8. \E o \in Object : /\ Closes(w, {o}) /\ obj' = [obj EXCEPT ![w][c] = Zombie(o)]
                        /\ o.live /\ o.fd = n /\ o.refs = 1
                        /\ fails \subseteq fails' /\ (c \notin fails' => o.state = {})
                        /\ fails' \subseteq Client \cup Ports
  <2>1. obj[w][c] \in Object
    BY <1>4
  <2>2. broken \in Object /\ broken.live /\ broken.fd = n /\ broken.refs = 1
    BY <1>7, <2>1 DEF Object
  <2> HIDE DEF broken
  <2>3. CASE /\ Closes(w, {obj[w][c]}) /\ obj' = [obj EXCEPT ![w][c] = Zombie(obj[w][c])]
             /\ UNCHANGED fails
    BY <1>4, <1>7, <2>1, <2>3
  <2>4. CASE /\ fails' = fails \cup {c}
             /\ Closes(w, {broken}) /\ obj' = [obj EXCEPT ![w][c] = Zombie(broken)]
    <3>1. c \in fails' /\ fails \subseteq fails' /\ fails' \subseteq Client \cup Ports
      BY <1>4, <2>4
    <3> QED
      BY <2>2, <2>4, <3>1
  <2> QED
    BY <1>3, <2>3, <2>4
<1>9. PICK o \in Object : /\ Closes(w, {o}) /\ obj' = [obj EXCEPT ![w][c] = Zombie(o)]
                          /\ o.live /\ o.fd = n /\ o.refs = 1
                          /\ fails \subseteq fails' /\ (c \notin fails' => o.state = {})
                          /\ fails' \subseteq Client \cup Ports
  BY <1>8
<1>10. /\ reg' \in [Worker -> [Fd -> Client \cup {Free}]]
       /\ table' \in [Process -> [Fd -> Client \cup Ports \cup {Free}]]
       /\ \A v \in Worker \ {w} : reg'[v] = reg[v] /\ table'[v] = table[v]
       /\ table'[0] = table[0]
       /\ \A k \in Fd : reg'[w][k] = IF k = n THEN Free ELSE reg[w][k]
       /\ \A k \in Fd : table'[w][k] = IF k = n /\ "softquit" \notin o.state THEN Free ELSE table[w][k]
  <2>1. {x.fd : x \in {o}} = {n}
    BY <1>9
  <2>2. \A k \in Fd : k \in ClosedNumbers({o}) <=> k = n /\ "softquit" \notin o.state
    BY <1>9, Constants DEF ClosedNumbers
  <2>3. Closes(w, {o})
    BY <1>9
  <2>4. /\ reg' \in [Worker -> [Fd -> Client \cup {Free}]]
        /\ table' \in [Process -> [Fd -> Client \cup Ports \cup {Free}]]
        /\ \A v \in Worker \ {w} : reg'[v] = reg[v] /\ table'[v] = table[v]
        /\ table'[0] = table[0]
        /\ \A k \in Fd : reg'[w][k] = IF k \in {x.fd : x \in {o}} THEN Free ELSE reg[w][k]
        /\ \A k \in Fd : table'[w][k] = IF k \in ClosedNumbers({o}) THEN Free ELSE table[w][k]
    BY <1>1, <2>3, ClosesEffect
  <2> QED
    BY <2>1, <2>2, <2>4
<1> DEFINE z == Zombie(o)
<1>11. z \in Object /\ z.live /\ z.fd = INVALID_FD /\ z.refs = 1 /\ z.state # {}
  BY <1>9, ZombieForm
<1>12. obj' = [obj EXCEPT ![w][c] = z]
  BY <1>9
<1> HIDE DEF z
<1>13. /\ obj'[w][c] = z /\ \A d \in Client \ {c} : obj'[w][d] = obj[w][d]
       /\ \A v \in Worker \ {w} : obj'[v] = obj[v]
       /\ obj' \in [Worker -> [Client -> Object]]
  BY <1>4, <1>11, <1>12
<1>14. /\ zombies'[w] = zombies[w] \cup {c} /\ \A v \in Worker \ {w} : zombies'[v] = zombies[v]
       /\ zombies' \in [Worker -> SUBSET Client]
  BY <1>2, <1>4
<1>15. TypeOK'
  BY <1>1, <1>2, <1>5, <1>9, <1>10, <1>13, <1>14 DEF TypeOK, masterVars
<1>16. AtWorker(w)'
  <2>1. Served(w)'
    <3>1. \A k \in Fd, d \in Client : reg'[w][k] = d => k # n /\ reg[w][k] = d /\ d # c
      BY <1>7, <1>10, TransferAssumption
    <3> QED
      <4> SUFFICES ASSUME NEW k \in Fd, NEW d \in Client, reg'[w][k] = d
                   PROVE  /\ table'[w][k] = d /\ obj'[w][d].live /\ obj'[w][d].fd = k
                          /\ obj'[w][d].state = {} /\ obj'[w][d].refs = 1 /\ lazy[w][d] = 0
        BY <1>2 DEF Served
      <4>1. k # n /\ reg[w][k] = d /\ d # c
        BY <3>1
      <4>2. table'[w][k] = table[w][k] /\ obj'[w][d] = obj[w][d]
        BY <1>10, <1>13, <4>1
      <4>3. /\ table[w][k] = d /\ obj[w][d].live /\ obj[w][d].fd = k
            /\ obj[w][d].state = {} /\ obj[w][d].refs = 1 /\ lazy[w][d] = 0
        BY <1>1, <4>1 DEF AtWorker, Served
      <4> QED
        BY <4>2, <4>3
  <2>2. Objects(w)'
    <3>1. \A k \in Fd : reg'[w][k] # c
      BY <1>7, <1>10, <1>4, TransferAssumption
    <3>2. \A k \in Fd, d \in Client : reg'[w][k] = d => reg[w][k] = d
      BY <1>10, TransferAssumption
    <3> QED
      BY <1>1, <1>6, <1>11, <1>13, <1>14, <3>1, <3>2 DEF AtWorker, Objects
  <2>3. LazyOnes(w)'
    <3> SUFFICES ASSUME NEW x \in Client, lazy[w][x] # 0
                 PROVE  /\ lazy[w][x] = 1 /\ obj'[w][x].live /\ turn'[w] # "events" /\ ~Waits(w, x)'
                        /\ IF x \in zombies'[w] THEN turn'[w] = "lazy" ELSE "softquit" \in obj'[w][x].state
                        /\ obj'[w][x].fd # INVALID_FD =>
                             /\ obj'[w][x].fd \notin due'[w]
                             /\ \A d \in Client : obj'[w][d].fd = obj'[w][x].fd => ~Waits(w, d)'
      BY <1>2 DEF LazyOnes
    <3>1. x # c /\ obj'[w][x] = obj[w][x] /\ x \notin zombies'[w]
      BY <1>1, <1>5, <1>7, <1>13, <1>14 DEF AtWorker, LazyOnes
    <3>2. /\ lazy[w][x] = 1 /\ obj[w][x].live /\ ~Waits(w, x) /\ "softquit" \in obj[w][x].state
          /\ obj[w][x].fd # INVALID_FD =>
                             /\ obj[w][x].fd \notin due[w]
                             /\ \A d \in Client : obj[w][d].fd = obj[w][x].fd => ~Waits(w, d)
      BY <1>1, <1>14, <3>1 DEF AtWorker, LazyOnes
    <3>3. \A d \in Client : obj'[w][d].fd = obj[w][x].fd /\ obj[w][x].fd # INVALID_FD
            => obj[w][d].fd = obj[w][x].fd
      BY <1>11, <1>13
    <3> QED
      BY <1>5, <1>6, <3>1, <3>2, <3>3
  <2>4. Waiting(w)'
    <3> SUFFICES ASSUME NEW d \in Client, Waits(w, d)
                 PROVE  /\ obj'[w][d].live /\ obj'[w][d].refs = 1 /\ lazy[w][d] = 0
                        /\ IF obj'[w][d].state = {}
                           THEN obj'[w][d].fd \in Fd /\ reg'[w][obj'[w][d].fd] = d
                           ELSE obj'[w][d].fd = INVALID_FD
      BY <1>1, <1>2, <1>6 DEF AtWorker, Waiting
    <3>1. d # c /\ obj'[w][d] = obj[w][d]
      BY <1>6, <1>13
    <3>2. /\ obj[w][d].live /\ obj[w][d].refs = 1 /\ lazy[w][d] = 0
          /\ IF obj[w][d].state = {} THEN obj[w][d].fd \in Fd /\ reg[w][obj[w][d].fd] = d
             ELSE obj[w][d].fd = INVALID_FD
      BY <1>1 DEF AtWorker, Waiting
    <3>3. reg[w][n] # d
      BY <3>1 DEF c
    <3> QED
      BY <1>10, <3>1, <3>2, <3>3
  <2>5. Due(w)'
    <3>1. due'[w] \cap Fd \subseteq Ready(w)'
      <4> SUFFICES ASSUME NEW k \in due'[w] \cap Fd PROVE k \in Ready(w)'
        OBVIOUS
      <4>1. k \in Ready(w) /\ reg'[w][k] = reg[w][k]
        BY <1>1, <1>5 DEF AtWorker, Due
      <4>2. PICK d \in Client : d = reg[w][k] /\ ~Waits(w, d)
        BY <1>1, <4>1 DEF Ready, TypeOK
      <4>3. ~Waits(w, d)'
        BY <1>6, <4>2
      <4> QED
        BY <4>1, <4>2, <4>3, ReadyNext
    <3> QED
      BY <1>1, <1>2, <1>5, <3>1 DEF AtWorker, Due
  <2>6. Kept(w)'
    <3> SUFFICES ASSUME w \notin quiting, NEW k \in Fd, NEW d \in Client \ fails', table'[w][k] = d
                 PROVE  obj'[w][d].live /\ obj'[w][d].fd = k /\ "softquit" \notin obj'[w][d].state
      BY <1>2 DEF Kept
    <3>1. d \in Client \ fails /\ k # n /\ table[w][k] = d
      BY <1>7, <1>9, <1>10, TransferAssumption
    <3>2. obj[w][d].live /\ obj[w][d].fd = k /\ "softquit" \notin obj[w][d].state
      BY <1>1, <3>1 DEF AtWorker, Kept
    <3> QED
      BY <1>7, <1>13, <3>1, <3>2
  <2> QED
    BY <2>1, <2>2, <2>3, <2>4, <2>5, <2>6 DEF AtWorker
<1>17. \A d \in Client : Here(w, d)' => Here(w, d)
  <2> SUFFICES ASSUME NEW d \in Client, Here(w, d)' PROVE Here(w, d)
    OBVIOUS
  <2>1. CASE Waits(w, d)'
    BY <1>6, <2>1 DEF Here
  <2>2. CASE d \in zombies'[w]
    BY <1>14, <2>2 DEF Here, c
  <2>3. CASE \E k \in Fd : reg'[w][k] = d
    BY <1>10, <2>3, TransferAssumption DEF Here
  <2> QED
    BY <2>1, <2>2, <2>3 DEF Here
<1>18. \A v \in Worker \ {w} : SameAt(v) /\ mail'[v] = mail[v]
  BY <1>2, <1>5, <1>10, <1>13, <1>14 DEF SameAt
<1>19. \A k \in Fd : table'[w][k] \in {table[w][k], Free}
  BY <1>10
<1> QED
  BY <1>2, <1>9, <1>10, <1>15, <1>16, <1>17, <1>18, <1>19, QuietStep

\* The callbacks that are still due after one that nobody begins to wait in.
LEMMA DueReady ==
  ASSUME TypeOK, NEW w \in Worker, due[w] \cap Fd \subseteq Ready(w), due'[w] \subseteq due[w],
         \A k \in due'[w] \cap Fd : reg'[w][k] = reg[w][k],
         \A d \in Client : Waits(w, d)' => Waits(w, d)
  PROVE  due'[w] \cap Fd \subseteq Ready(w)'
<1> SUFFICES ASSUME NEW k \in due'[w] \cap Fd PROVE k \in Ready(w)'
  OBVIOUS
<1>1. k \in Ready(w) /\ reg'[w][k] = reg[w][k]
  OBVIOUS
<1>2. PICK d \in Client : d = reg[w][k] /\ ~Waits(w, d)
  BY <1>1 DEF Ready, TypeOK
<1>3. ~Waits(w, d)'
  BY <1>2
<1> QED
  BY <1>1, <1>2, <1>3, ReadyNext

\* The message at the head of the mail, when it is an answer: whose it is.
LEMMA Answered ==
  ASSUME DescriptorInv, NEW w \in Worker, mail[w] # <<>>, mail'[w] = Tail(mail[w]),
         Head(mail[w]) # Softquitall
  PROVE  LET c == Head(mail[w]).client IN
         /\ c \in Client /\ Head(mail[w]).room \in Worker \ {w} /\ Waits(w, c)
         /\ obj[w][c].live /\ obj[w][c].refs = 1 /\ lazy[w][c] = 0 /\ c \notin zombies[w]
         /\ IF obj[w][c].state = {} THEN obj[w][c].fd \in Fd /\ reg[w][obj[w][c].fd] = c
            ELSE obj[w][c].fd = INVALID_FD
         /\ \A d \in Client : Waits(w, d)' => Waits(w, d) /\ d # c
<1>1. TypeOK /\ Waiting(w) /\ Objects(w)
  BY DEF DescriptorInv, AtWorker
<1> DEFINE m == Head(mail[w])
           t == Tail(mail[w])
<1>2. /\ m \in Mail /\ m \in ToSet(mail[w]) /\ AskedBy(t) \subseteq AskedBy(mail[w])
      /\ m.client # Free => m.client \in AskedBy(mail[w])
      /\ Once(mail[w]) => m.client \notin AskedBy(t)
  <2>1. mail[w] \in Seq(Mail)
    BY <1>1 DEF TypeOK
  <2> QED
    BY <2>1, MailTail
<1>3. mail'[w] = t /\ m # Softquitall
  OBVIOUS
<1> HIDE DEF m, t
<1>4. m.client # Free /\ m.room \in Worker \ {w}
  BY <1>1, <1>2, <1>3 DEF Waiting
<1>5. m.client \in Client
  BY <1>2, <1>4 DEF Mail
<1>6. Waits(w, m.client)
  BY <1>2, <1>4, <1>5, WaitsAsked
<1>7. \A d \in Client : Waits(w, d)' => Waits(w, d) /\ d # m.client
  BY <1>1, <1>2, <1>3, WaitsAsked, WaitsAskedNext DEF Waiting
<1>8. /\ obj[w][m.client].live /\ obj[w][m.client].refs = 1 /\ lazy[w][m.client] = 0
      /\ IF obj[w][m.client].state = {}
         THEN obj[w][m.client].fd \in Fd /\ reg[w][obj[w][m.client].fd] = m.client
         ELSE obj[w][m.client].fd = INVALID_FD
  BY <1>1, <1>5, <1>6 DEF Waiting
<1>9. m.client \notin zombies[w]
  BY <1>1, <1>5, <1>6 DEF Objects
<1> QED
  BY <1>4, <1>5, <1>6, <1>7, <1>8, <1>9 DEF m

\* The mail of a worker after a message of it was taken.
LEMMA MailLess ==
  ASSUME TypeOK, NEW w \in Worker, mail[w] # <<>>, mail' = [mail EXCEPT ![w] = Tail(mail[w])],
         Waiting(w)
  PROVE  /\ mail' \in [Worker -> Seq(Mail)] /\ \A v \in Worker \ {w} : mail'[v] = mail[v]
         /\ mail'[w] = Tail(mail[w])
         /\ Once(mail'[w])
         /\ \A m \in ToSet(mail'[w]) : IF m.client = Free THEN m = Softquitall
                                       ELSE m.room \in Worker \ {w}
<1>1. mail \in [Worker -> Seq(Mail)]
  BY DEF TypeOK
<1> DEFINE t == Tail(mail[w])
<1>2. t \in Seq(Mail) /\ ToSet(t) \subseteq ToSet(mail[w]) /\ (Once(mail[w]) => Once(t))
  BY <1>1, MailTail
<1>3. mail' = [mail EXCEPT ![w] = t]
  OBVIOUS
<1> HIDE DEF t
<1>4. mail' \in [Worker -> Seq(Mail)] /\ mail'[w] = t /\ \A v \in Worker \ {w} : mail'[v] = mail[v]
  BY <1>1, <1>2, <1>3
<1>5. Once(mail[w])
  BY DEF Waiting
<1>6. \A m \in ToSet(mail[w]) : IF m.client = Free THEN m = Softquitall ELSE m.room \in Worker \ {w}
  BY DEF Waiting
<1>7. Once(mail'[w])
  BY <1>2, <1>4, <1>5
<1>8. \A m \in ToSet(mail'[w]) : IF m.client = Free THEN m = Softquitall ELSE m.room \in Worker \ {w}
  BY <1>2, <1>4, <1>6
<1> QED
  BY <1>4, <1>7, <1>8 DEF t

\* An answer for a client that is leaving.
LEMMA LeavingAnswerKeeps ==
  ASSUME DescriptorInv, NEW w \in Worker, RoomAnswer(w),
         obj[w][Head(mail[w]).client].state \cap Leaving # {}
  PROVE  DescriptorInv'
<1>1. TypeOK /\ AtWorker(w)
  BY DEF DescriptorInv
<1> DEFINE c == Head(mail[w]).client
<1>2. /\ mail[w] # <<>> /\ mail' = [mail EXCEPT ![w] = Tail(mail[w])] /\ Head(mail[w]) # Softquitall
      /\ obj' = [obj EXCEPT ![w][c].refs = @ + 1]
      /\ Calls(w, MailFd)
      /\ UNCHANGED <<masterVars, reg, table, raw, lazy, fails, zombies, quiting, moves>>
  BY DEF RoomAnswer
<1>3. /\ mail' \in [Worker -> Seq(Mail)] /\ \A v \in Worker \ {w} : mail'[v] = mail[v]
      /\ mail'[w] = Tail(mail[w]) /\ Once(mail'[w])
      /\ \A m \in ToSet(mail'[w]) : IF m.client = Free THEN m = Softquitall
                                    ELSE m.room \in Worker \ {w}
  BY <1>1, <1>2, MailLess DEF AtWorker
<1>4. /\ c \in Client /\ Waits(w, c)
      /\ obj[w][c].live /\ obj[w][c].refs = 1 /\ lazy[w][c] = 0 /\ c \notin zombies[w]
      /\ IF obj[w][c].state = {} THEN obj[w][c].fd \in Fd /\ reg[w][obj[w][c].fd] = c
         ELSE obj[w][c].fd = INVALID_FD
      /\ \A d \in Client : Waits(w, d)' => Waits(w, d) /\ d # c
  BY <1>2, <1>3, Answered
<1>5. obj[w][c].state # {}
  OBVIOUS
<1> HIDE DEF c
<1>6. /\ turn[w] = "round" /\ due'[w] \subseteq due[w] \ {MailFd}
      /\ \A k \in due'[w] \cap Fd : reg'[w][k] = reg[w][k]
      /\ \A v \in Worker \ {w} : due'[v] = due[v] /\ turn'[v] = turn[v]
      /\ turn'[w] \in {"round", "zombie"}
      /\ due' \in [Worker -> SUBSET ({MailFd, RawFd} \cup Fd)]
      /\ turn' \in [Worker -> ToSet(Fibers) \cup {"round"}]
      /\ \A v \in Worker : turn'[v] = "round" <=> due'[v] # {}
  BY <1>1, <1>2, CallsEffect
<1> DEFINE z == [obj[w][c] EXCEPT !.refs = @ + 1]
<1>7. /\ z \in Object /\ z.live /\ z.fd = INVALID_FD /\ z.refs = 2 /\ z.state = obj[w][c].state
  <2>1. obj[w][c] \in Object
    BY <1>1, <1>4 DEF TypeOK
  <2> QED
    BY <1>4, <1>5, <2>1 DEF Object
<1>8. obj' = [obj EXCEPT ![w] = [obj[w] EXCEPT ![c] = z]]
  BY <1>2
<1> HIDE DEF z
<1>9. /\ obj'[w][c] = z /\ \A d \in Client \ {c} : obj'[w][d] = obj[w][d]
      /\ \A v \in Worker \ {w} : obj'[v] = obj[v]
      /\ obj' \in [Worker -> [Client -> Object]]
  BY <1>1, <1>4, <1>7, <1>8 DEF TypeOK
<1>10. TypeOK'
  BY <1>1, <1>2, <1>3, <1>6, <1>9 DEF TypeOK, masterVars
<1>11. \A n \in Fd : reg[w][n] # c
  BY <1>1, <1>4, <1>5 DEF AtWorker, Served
<1>12. AtWorker(w)'
  <2>1. Served(w)'
    <3> SUFFICES ASSUME NEW k \in Fd, NEW d \in Client, reg[w][k] = d
                 PROVE  /\ table[w][k] = d /\ obj'[w][d].live /\ obj'[w][d].fd = k
                        /\ obj'[w][d].state = {} /\ obj'[w][d].refs = 1 /\ lazy[w][d] = 0
      BY <1>2 DEF Served
    <3>1. obj'[w][d] = obj[w][d]
      BY <1>9, <1>11
    <3>2. /\ table[w][k] = d /\ obj[w][d].live /\ obj[w][d].fd = k
          /\ obj[w][d].state = {} /\ obj[w][d].refs = 1 /\ lazy[w][d] = 0
      BY <1>1 DEF AtWorker, Served
    <3> QED
      BY <3>1, <3>2
  <2>2. Objects(w)'
    <3> SUFFICES ASSUME NEW d \in Client
                 PROVE  /\ IF obj'[w][d].live THEN obj'[w][d].refs \in 1..2 ELSE obj'[w][d] = NoObject
                        /\ d \in zombies[w] => /\ obj'[w][d].live /\ obj'[w][d].fd = INVALID_FD
                                               /\ ~Waits(w, d)' /\ \A n \in Fd : reg[w][n] # d
      BY <1>2 DEF Objects
    <3>1. CASE d = c
      BY <1>4, <1>7, <1>9, <3>1
    <3>2. CASE d # c
      <4>1. /\ IF obj[w][d].live THEN obj[w][d].refs \in 1..2 ELSE obj[w][d] = NoObject
            /\ d \in zombies[w] => /\ obj[w][d].live /\ obj[w][d].fd = INVALID_FD
                                   /\ ~Waits(w, d) /\ \A n \in Fd : reg[w][n] # d
        BY <1>1 DEF AtWorker, Objects
      <4> QED
        BY <1>4, <1>9, <3>2, <4>1
    <3> QED
      BY <3>1, <3>2
  <2>3. LazyOnes(w)'
    <3> SUFFICES ASSUME NEW x \in Client, lazy[w][x] # 0
                 PROVE  /\ lazy[w][x] = 1 /\ obj'[w][x].live /\ turn'[w] # "events" /\ ~Waits(w, x)'
                        /\ IF x \in zombies[w] THEN turn'[w] = "lazy" ELSE "softquit" \in obj'[w][x].state
                        /\ obj'[w][x].fd # INVALID_FD =>
                             /\ obj'[w][x].fd \notin due'[w]
                             /\ \A d \in Client : obj'[w][d].fd = obj'[w][x].fd => ~Waits(w, d)'
      BY <1>2 DEF LazyOnes
    <3>1. x # c /\ obj'[w][x] = obj[w][x] /\ x \notin zombies[w]
      BY <1>1, <1>4, <1>6, <1>9 DEF AtWorker, LazyOnes
    <3>2. /\ lazy[w][x] = 1 /\ obj[w][x].live /\ ~Waits(w, x) /\ "softquit" \in obj[w][x].state
          /\ obj[w][x].fd # INVALID_FD =>
                             /\ obj[w][x].fd \notin due[w]
                             /\ \A d \in Client : obj[w][d].fd = obj[w][x].fd => ~Waits(w, d)
      BY <1>1, <3>1 DEF AtWorker, LazyOnes
    <3>3. \A d \in Client : obj'[w][d].fd = obj[w][x].fd /\ obj[w][x].fd # INVALID_FD
            => obj[w][d].fd = obj[w][x].fd
      BY <1>7, <1>9
    <3> QED
      BY <1>4, <1>6, <3>1, <3>2, <3>3
  <2>4. Waiting(w)'
    <3>1. ASSUME NEW d \in Client, Waits(w, d)'
          PROVE  /\ obj'[w][d].live /\ obj'[w][d].refs = 1 /\ lazy[w][d] = 0
                 /\ IF obj'[w][d].state = {}
                    THEN obj'[w][d].fd \in Fd /\ reg[w][obj'[w][d].fd] = d
                    ELSE obj'[w][d].fd = INVALID_FD
      <4>1. obj'[w][d] = obj[w][d] /\ Waits(w, d)
        BY <1>4, <1>9, <3>1
      <4>2. /\ obj[w][d].live /\ obj[w][d].refs = 1 /\ lazy[w][d] = 0
            /\ IF obj[w][d].state = {} THEN obj[w][d].fd \in Fd /\ reg[w][obj[w][d].fd] = d
               ELSE obj[w][d].fd = INVALID_FD
        BY <1>1, <4>1 DEF AtWorker, Waiting
      <4> QED
        BY <4>1, <4>2
    <3> QED
      BY <1>2, <1>3, <3>1 DEF Waiting
  <2>5. Due(w)'
    <3>1. due'[w] \cap Fd \subseteq Ready(w)'
      BY <1>1, <1>4, <1>6, DueReady DEF AtWorker, Due
    <3> QED
      BY <1>1, <1>2, <1>6, <3>1 DEF AtWorker, Due
  <2>6. Kept(w)'
    <3> SUFFICES ASSUME w \notin quiting, NEW k \in Fd, NEW d \in Client \ fails, table[w][k] = d
                 PROVE  obj'[w][d].live /\ obj'[w][d].fd = k /\ "softquit" \notin obj'[w][d].state
      BY <1>2 DEF Kept
    <3>1. obj[w][d].live /\ obj[w][d].fd = k /\ "softquit" \notin obj[w][d].state
      BY <1>1 DEF AtWorker, Kept
    <3>2. k # INVALID_FD
      BY Constants
    <3> QED
      BY <1>4, <1>5, <1>9, <3>1, <3>2
  <2> QED
    BY <2>1, <2>2, <2>3, <2>4, <2>5, <2>6 DEF AtWorker
<1>13. \A d \in Client : Here(w, d)' => Here(w, d)
  BY <1>2, <1>4 DEF Here
<1>14. \A v \in Worker \ {w} : SameAt(v) /\ mail'[v] = mail[v]
  BY <1>2, <1>3, <1>6, <1>9 DEF SameAt
<1> QED
  BY <1>2, <1>10, <1>12, <1>13, <1>14, QuietStep

\* One object goes to the queue of the lazy calls, or there is no room for it.
LEMMA QueuesOne ==
  ASSUME TypeOK, NEW w \in Worker, NEW c \in Client, lazy[w][c] = 0, Queues(w, {c})
  PROVE  /\ lazy'[w][c] \in {0, 1} /\ \A d \in Client \ {c} : lazy'[w][d] = lazy[w][d]
         /\ \A v \in Worker \ {w} : lazy'[v] = lazy[v]
         /\ lazy' \in [Worker -> [Client -> 0..2]]
<1>1. PICK taken \in SUBSET {c} :
        lazy' = [lazy EXCEPT ![w] =
          [d \in Client |-> IF d \in taken THEN lazy[w][d] + 1 ELSE lazy[w][d]]]
  BY QueuesSome
<1>2. lazy \in [Worker -> [Client -> 0..2]]
  BY DEF TypeOK
<1> DEFINE L == [d \in Client |-> IF d \in taken THEN lazy[w][d] + 1 ELSE lazy[w][d]]
<1>3. L \in [Client -> 0..2] /\ L[c] \in {0, 1} /\ \A d \in Client \ {c} : L[d] = lazy[w][d]
  BY <1>2
<1>4. lazy' = [lazy EXCEPT ![w] = L]
  BY <1>1
<1> HIDE DEF L
<1> QED
  BY <1>2, <1>3, <1>4

\* A socket is sent to a worker: its queue has room and gets it, or the send fails.
LEMMA Sends ==
  ASSUME TypeOK, NEW w \in Worker, NEW c \in Client, RawSends(w, c)
  PROVE  /\ raw' \in [Worker -> Seq(Client)]
         /\ \A v \in Worker : Len(raw'[v]) <= RawCapacity[v]
         /\ \A v \in Worker \ {w} : raw'[v] = raw[v]
         /\ ToSet(raw'[w]) = ToSet(raw[w]) \cup {c}
         /\ raw'[w] # <<>> /\ (raw[w] # <<>> => Head(raw'[w]) = Head(raw[w]))
         /\ IsInjective(raw[w]) /\ c \notin ToSet(raw[w]) => IsInjective(raw'[w])
<1>1. /\ raw \in [Worker -> Seq(Client)] /\ \A v \in Worker : Len(raw[v]) <= RawCapacity[v]
      /\ RawCapacity \in [Worker -> Nat]
  BY TransferAssumption DEF TypeOK
<1> DEFINE r == Append(raw[w], c)
<1>2. /\ r \in Seq(Client) /\ ToSet(r) = ToSet(raw[w]) \cup {c} /\ r # <<>>
      /\ raw[w] # <<>> => Head(r) = Head(raw[w])
      /\ Len(r) = Len(raw[w]) + 1
      /\ IsInjective(raw[w]) /\ c \notin ToSet(raw[w]) => IsInjective(r)
  <2>1. raw[w] \in Seq(Client)
    BY <1>1
  <2> QED
    BY <2>1, QueueAppend
<1>3. raw' = [raw EXCEPT ![w] = r] /\ Len(raw[w]) < RawCapacity[w]
  BY DEF RawSends
<1> HIDE DEF r
<1>4. Len(r) <= RawCapacity[w]
  <2>1. Len(raw[w]) \in Nat /\ RawCapacity[w] \in Nat
    BY <1>1
  <2> QED
    BY <1>2, <1>3, <2>1
<1>5. raw'[w] = r /\ (\A v \in Worker \ {w} : raw'[v] = raw[v]) /\ raw' \in [Worker -> Seq(Client)]
  BY <1>1, <1>2, <1>3
<1>6. \A v \in Worker : Len(raw'[v]) <= RawCapacity[v]
  BY <1>1, <1>4, <1>5
<1> QED
  BY <1>2, <1>5, <1>6

\* A socket that is sent is at its end in one place as well.
LEMMA SoleSent ==
  ASSUME TypeOK, Sole, NEW to \in Worker, NEW c \in Client, RawSends(to, c), new' \subseteq new \ {c},
         \A v \in Worker : c \notin ToSet(raw[v]),
         \A p \in Process, n \in Fd : table'[p][n] \in {table[p][n], Free} /\ table'[p][n] # c
  PROVE  Sole'
<1>1. /\ \A v \in Worker \ {to} : raw'[v] = raw[v]
      /\ ToSet(raw'[to]) = ToSet(raw[to]) \cup {c}
      /\ IsInjective(raw[to]) /\ c \notin ToSet(raw[to]) => IsInjective(raw'[to])
  BY Sends
<1>2. \A v \in Worker : ToSet(raw[v]) \subseteq Client
  <2> SUFFICES ASSUME NEW v \in Worker PROVE ToSet(raw[v]) \subseteq Client
    OBVIOUS
  <2>1. raw[v] \in Seq(Client)
    BY DEF TypeOK
  <2> QED
    BY <2>1 DEF ToSet
<1>3. new \subseteq Client /\ Free \notin Client
  BY TransferAssumption DEF TypeOK
<1>4. \A p, q \in Process, m, n \in Fd :
        table'[p][m] = table'[q][n] /\ table'[p][m] # Free => p = q /\ m = n
  <2>0. \A p, q \in Process, m, n \in Fd :
          table[p][m] = table[q][n] /\ table[p][m] # Free => p = q /\ m = n
    BY DEF Sole
  <2> SUFFICES ASSUME NEW p \in Process, NEW q \in Process, NEW m \in Fd, NEW n \in Fd,
                      table'[p][m] = table'[q][n], table'[p][m] # Free
               PROVE  p = q /\ m = n
    OBVIOUS
  <2>1. table'[p][m] = table[p][m] /\ table'[q][n] = table[q][n]
    OBVIOUS
  <2>2. table[p][m] = table[q][n] /\ table[p][m] # Free
    BY <2>1
  <2> QED
    BY <2>0, <2>2
<1>5. \A v \in Worker : IsInjective(raw'[v])
  BY <1>1 DEF Sole
<1>6. \A v, w \in Worker : v # w => ToSet(raw'[v]) \cap ToSet(raw'[w]) = {}
  <2> SUFFICES ASSUME NEW v \in Worker, NEW w \in Worker, v # w
               PROVE  ToSet(raw'[v]) \cap ToSet(raw'[w]) = {}
    OBVIOUS
  <2>1. ToSet(raw[v]) \cap ToSet(raw[w]) = {}
    BY DEF Sole
  <2>2. CASE v = to
    BY <1>1, <2>1, <2>2
  <2>3. CASE v # to
    BY <1>1, <2>1, <2>3
  <2> QED
    BY <2>2, <2>3
<1>7. \A p \in Process, n \in Fd, w \in Worker : table'[p][n] \notin ToSet(raw'[w])
  <2> SUFFICES ASSUME NEW p \in Process, NEW n \in Fd, NEW w \in Worker
               PROVE  table'[p][n] \notin ToSet(raw'[w])
    OBVIOUS
  <2>1. table[p][n] \notin ToSet(raw[w]) /\ Free \notin ToSet(raw[w])
    BY <1>2, <1>3 DEF Sole
  <2>2. table'[p][n] \in {table[p][n], Free} /\ table'[p][n] # c
    OBVIOUS
  <2>3. table'[p][n] \notin ToSet(raw[w])
    BY <2>1, <2>2
  <2> QED
    BY <1>1, <2>2, <2>3
<1>8. \A p \in Process, n \in Fd : table'[p][n] \notin new'
  BY <1>3 DEF Sole
<1>9. \A w \in Worker : ToSet(raw'[w]) \cap new' = {}
  <2> SUFFICES ASSUME NEW w \in Worker PROVE ToSet(raw'[w]) \cap new' = {}
    OBVIOUS
  <2>1. ToSet(raw[w]) \cap new = {}
    BY DEF Sole
  <2> QED
    BY <1>1, <2>1
<1> QED
  BY <1>4, <1>5, <1>6, <1>7, <1>8, <1>9 DEF Sole

\* An answer that sends a client in service to another worker.
LEMMA MoveKeeps ==
  ASSUME DescriptorInv, NEW w \in Worker, RoomAnswer(w),
         obj[w][Head(mail[w]).client].state \cap Leaving = {}
  PROVE  DescriptorInv'
<1>1. TypeOK /\ AtWorker(w) /\ Sole /\ HereOnly
  BY DEF DescriptorInv
<1>2. /\ mail[w] # <<>> /\ mail' = [mail EXCEPT ![w] = Tail(mail[w])] /\ Head(mail[w]) # Softquitall
      /\ Move(w, Head(mail[w]).client, Head(mail[w]).room) /\ Calls(w, MailFd)
      /\ UNCHANGED <<masterVars, zombies, quiting, moves>>
  BY DEF RoomAnswer
<1>3. /\ mail' \in [Worker -> Seq(Mail)] /\ \A v \in Worker \ {w} : mail'[v] = mail[v]
      /\ mail'[w] = Tail(mail[w]) /\ Once(mail'[w])
      /\ \A m \in ToSet(mail'[w]) : IF m.client = Free THEN m = Softquitall
                                    ELSE m.room \in Worker \ {w}
  BY <1>1, <1>2, MailLess DEF AtWorker
<1>4. PICK c \in Client, to \in Worker \ {w} :
      /\ c = Head(mail[w]).client /\ to = Head(mail[w]).room /\ Waits(w, c)
      /\ obj[w][c].live /\ obj[w][c].refs = 1 /\ lazy[w][c] = 0 /\ c \notin zombies[w]
      /\ IF obj[w][c].state = {} THEN obj[w][c].fd \in Fd /\ reg[w][obj[w][c].fd] = c
         ELSE obj[w][c].fd = INVALID_FD
      /\ \A d \in Client : Waits(w, d)' => Waits(w, d) /\ d # c
  <2> DEFINE a == Head(mail[w]).client
             b == Head(mail[w]).room
  <2>1. /\ a \in Client /\ b \in Worker \ {w} /\ Waits(w, a)
        /\ obj[w][a].live /\ obj[w][a].refs = 1 /\ lazy[w][a] = 0 /\ a \notin zombies[w]
        /\ IF obj[w][a].state = {} THEN obj[w][a].fd \in Fd /\ reg[w][obj[w][a].fd] = a
           ELSE obj[w][a].fd = INVALID_FD
        /\ \A d \in Client : Waits(w, d)' => Waits(w, d) /\ d # a
    BY <1>2, <1>3, Answered
  <2>2. a = Head(mail[w]).client /\ b = Head(mail[w]).room
    OBVIOUS
  <2> HIDE DEF a, b
  <2> QED
    BY <2>1, <2>2
<1> DEFINE n == obj[w][c].fd
<1>5. obj[w][c].state = {}
  <2>1. obj[w][c] \in Object
    BY <1>1, <1>4 DEF TypeOK
  <2> QED
    BY <1>4, <2>1 DEF Object, Leaving
<1>6. /\ reg' = [reg EXCEPT ![w] = Unregistered(w, {n})]
      /\ \/ RawSends(to, c) /\ table' = [table EXCEPT ![w][n] = Free]
         \/ RawFails(c) /\ UNCHANGED table
      /\ obj' = [obj EXCEPT ![w][c].state = @ \cup {"softquit"}]
      /\ Queues(w, {c})
  BY <1>2, <1>4 DEF Move
<1>7. n \in Fd /\ reg[w][n] = c
  BY <1>4, <1>5
<1>8. /\ turn[w] = "round" /\ due'[w] \subseteq due[w] \ {MailFd}
      /\ \A k \in due'[w] \cap Fd : reg'[w][k] = reg[w][k]
      /\ \A v \in Worker \ {w} : due'[v] = due[v] /\ turn'[v] = turn[v]
      /\ turn'[w] \in {"round", "zombie"}
      /\ due' \in [Worker -> SUBSET ({MailFd, RawFd} \cup Fd)]
      /\ turn' \in [Worker -> ToSet(Fibers) \cup {"round"}]
      /\ \A v \in Worker : turn'[v] = "round" <=> due'[v] # {}
  BY <1>1, <1>2, CallsEffect
<1>9. /\ lazy'[w][c] \in {0, 1} /\ \A d \in Client \ {c} : lazy'[w][d] = lazy[w][d]
      /\ \A v \in Worker \ {w} : lazy'[v] = lazy[v]
      /\ lazy' \in [Worker -> [Client -> 0..2]]
  BY <1>1, <1>4, <1>6, QueuesOne
<1> DEFINE z == [obj[w][c] EXCEPT !.state = @ \cup {"softquit"}]
<1>10. z \in Object /\ z.live /\ z.fd = n /\ z.refs = 1 /\ z.state = {"softquit"}
  <2>1. obj[w][c] \in Object
    BY <1>1, <1>4 DEF TypeOK
  <2> QED
    BY <1>4, <1>5, <2>1 DEF Object
<1>11. obj' = [obj EXCEPT ![w] = [obj[w] EXCEPT ![c] = z]]
  BY <1>6
<1> HIDE DEF z
<1>12. /\ obj'[w][c] = z /\ \A d \in Client \ {c} : obj'[w][d] = obj[w][d]
       /\ \A v \in Worker \ {w} : obj'[v] = obj[v]
       /\ obj' \in [Worker -> [Client -> Object]]
  BY <1>1, <1>4, <1>10, <1>11 DEF TypeOK
<1>13. /\ \A k \in Fd : reg'[w][k] = IF k = n THEN Free ELSE reg[w][k]
       /\ \A v \in Worker \ {w} : reg'[v] = reg[v]
       /\ reg' \in [Worker -> [Fd -> Client \cup {Free}]]
  <2>1. reg \in [Worker -> [Fd -> Client \cup {Free}]]
    BY <1>1 DEF TypeOK
  <2> DEFINE R == [k \in Fd |-> IF k \in {n} THEN Free ELSE reg[w][k]]
  <2>2. R \in [Fd -> Client \cup {Free}] /\ \A k \in Fd : R[k] = IF k = n THEN Free ELSE reg[w][k]
    BY <2>1
  <2>3. reg' = [reg EXCEPT ![w] = R]
    BY <1>6 DEF Unregistered
  <2> HIDE DEF R, n
  <2> QED
    BY <2>1, <2>2, <2>3
<1>14. /\ reg[w][n] = c /\ table[w][n] = c /\ obj[w][c].fd = n
       /\ \A k \in Fd : reg[w][k] = c => k = n
  <2>1. Served(w) /\ Objects(w) /\ reg[w][n] = c /\ n \in Fd
    BY <1>1, <1>7 DEF AtWorker
  <2> HIDE DEF n
  <2> QED
    BY <2>1, ServedOne
<1> HIDE DEF n
<1>15. /\ \A v \in Worker : c \notin ToSet(raw[v]) /\ ~Here(v, c)'
       /\ c \notin new
       /\ \A v \in Worker, d \in Client : Here(v, d)' => Here(v, d) /\ d # c
  <2>1. Here(w, c)
    BY <1>4 DEF Here
  <2>2. /\ c \notin new /\ \A v \in Worker : c \notin ToSet(raw[v]) /\ (Here(v, c) => v = w)
    BY <1>1, <1>4, <2>1 DEF HereOnly
  <2>3. ~Here(w, c)'
    <3>1. ~Waits(w, c)'
      BY <1>4
    <3>2. c \notin zombies'[w]
      BY <1>2, <1>4
    <3>3. \A k \in Fd : reg'[w][k] # c
      BY <1>4, <1>13, <1>14, TransferAssumption
    <3> QED
      BY <3>1, <3>2, <3>3 DEF Here
  <2>4. ASSUME NEW v \in Worker, NEW d \in Client, Here(v, d)' PROVE Here(v, d)
    <3>1. CASE v = w
      <4>1. Waits(w, d)' => Waits(w, d)
        BY <1>4
      <4>2. d \in zombies'[w] => d \in zombies[w]
        BY <1>2
      <4>3. \A k \in Fd : reg'[w][k] = d => reg[w][k] = d
        BY <1>13, TransferAssumption
      <4> QED
        BY <2>4, <3>1, <4>1, <4>2, <4>3 DEF Here
    <3>2. CASE v # w
      <4>1. mail'[v] = mail[v] /\ zombies'[v] = zombies[v] /\ reg'[v] = reg[v]
        BY <1>2, <1>3, <1>13, <3>2
      <4> QED
        BY <2>4, <4>1 DEF Here, Waits
    <3> QED
      BY <3>1, <3>2
  <2>5. \A v \in Worker : ~Here(v, c)'
    BY <1>4, <2>2, <2>3, <2>4
  <2> QED
    BY <2>2, <2>4, <2>5
<1>16. /\ table' \in [Process -> [Fd -> Client \cup Ports \cup {Free}]]
       /\ \A p \in Process \ {w} : table'[p] = table[p]
       /\ \A k \in Fd \ {n} : table'[w][k] = table[w][k]
       /\ table'[w][n] \in {table[w][n], Free}
       /\ raw'[w] = raw[w] /\ raw' \in [Worker -> Seq(Client)]
       /\ \A v \in Worker : Len(raw'[v]) <= RawCapacity[v]
       /\ \A v \in Worker : raw[v] # <<>> => raw'[v] # <<>> /\ Head(raw'[v]) = Head(raw[v])
       /\ fails' \subseteq Client \cup Ports /\ Sole' /\ HereOnly'
       /\ fails \subseteq fails' /\ (c \notin fails' => table'[w][n] = Free)
  <2>1. /\ table \in [Process -> [Fd -> Client \cup Ports \cup {Free}]] /\ fails \subseteq Client \cup Ports
        /\ w \in Process /\ new' = new
    BY <1>1, <1>2, Constants, TransferAssumption DEF TypeOK, masterVars
  <2>2. CASE RawSends(to, c) /\ table' = [table EXCEPT ![w][n] = Free]
    <3>1. /\ raw' \in [Worker -> Seq(Client)]
          /\ \A v \in Worker : Len(raw'[v]) <= RawCapacity[v]
          /\ \A v \in Worker \ {to} : raw'[v] = raw[v]
          /\ ToSet(raw'[to]) = ToSet(raw[to]) \cup {c}
          /\ raw'[to] # <<>> /\ (raw[to] # <<>> => Head(raw'[to]) = Head(raw[to]))
      BY <1>1, <1>4, <2>2, Sends
    <3>2. fails' = fails
      BY <2>2 DEF RawSends
    <3>3. /\ table' \in [Process -> [Fd -> Client \cup Ports \cup {Free}]]
          /\ \A p \in Process \ {w} : table'[p] = table[p]
          /\ \A k \in Fd \ {n} : table'[w][k] = table[w][k]
          /\ table'[w][n] = Free
      BY <1>7, <2>1, <2>2
    <3>4. \A p \in Process, k \in Fd : table'[p][k] \in {table[p][k], Free} /\ table'[p][k] # c
      <4> SUFFICES ASSUME NEW p \in Process, NEW k \in Fd
                   PROVE  table'[p][k] \in {table[p][k], Free} /\ table'[p][k] # c
        OBVIOUS
      <4>0. c # Free
        BY <1>4, TransferAssumption
      <4>1. CASE p = w /\ k = n
        BY <3>3, <4>0, <4>1
      <4>2. CASE ~(p = w /\ k = n)
        <5>1. table'[p][k] = table[p][k]
          BY <3>3, <4>2
        <5>2. table[p][k] # c
          BY <1>1, <1>7, <1>14, <2>1, <4>0, <4>2 DEF Sole
        <5> QED
          BY <5>1, <5>2
      <4> QED
        BY <4>1, <4>2
    <3>5. Sole'
      <4>1. new' \subseteq new \ {c}
        BY <1>15, <2>1
      <4>2. to \in Worker /\ RawSends(to, c) /\ c \in Client /\ \A v \in Worker : c \notin ToSet(raw[v])
        BY <1>4, <1>15, <2>2
      <4> QED
        BY <1>1, <3>4, <4>1, <4>2, SoleSent
    <3>6. HereOnly'
      <4> SUFFICES ASSUME NEW v \in Worker, NEW d \in Client, Here(v, d)'
                   PROVE  /\ d \notin new'
                          /\ \A u \in Worker : d \notin ToSet(raw'[u]) /\ (Here(u, d)' => u = v)
                          /\ \A p \in Process, k \in Fd : table'[p][k] = d => p = v
        BY DEF HereOnly
      <4>1. Here(v, d) /\ d # c
        BY <1>15
      <4>2. /\ d \notin new
            /\ \A u \in Worker : d \notin ToSet(raw[u]) /\ (Here(u, d) => u = v)
            /\ \A p \in Process, k \in Fd : table[p][k] = d => p = v
        BY <1>1, <4>1 DEF HereOnly
      <4>3. \A u \in Worker : ToSet(raw'[u]) \subseteq ToSet(raw[u]) \cup {c}
        BY <3>1
      <4>4. \A p \in Process, k \in Fd : table'[p][k] = d => table[p][k] = d
        BY <3>4, TransferAssumption
      <4> QED
        BY <1>15, <2>1, <4>1, <4>2, <4>3, <4>4
    <3>7. raw'[w] = raw[w] /\ \A v \in Worker : raw[v] # <<>> => raw'[v] # <<>> /\ Head(raw'[v]) = Head(raw[v])
      BY <1>4, <3>1
    <3> QED
      BY <2>1, <3>1, <3>2, <3>3, <3>5, <3>6, <3>7
  <2>3. CASE RawFails(c) /\ UNCHANGED table
    <3>1. /\ raw' = raw /\ table' = table /\ fails' = fails \cup {c}
      BY <2>3 DEF RawFails, Fails
    <3>2. fails' \subseteq Client \cup Ports /\ fails \subseteq fails' /\ c \in fails'
      BY <1>4, <2>1, <3>1
    <3>3. raw' \in [Worker -> Seq(Client)] /\ \A v \in Worker : Len(raw'[v]) <= RawCapacity[v]
      BY <1>1, <3>1 DEF TypeOK
    <3>4. Sole'
      BY <1>1, <2>1, <3>1 DEF Sole
    <3>5. HereOnly'
      <4>1. \A v \in Worker, d \in Client : Here(v, d)' => Here(v, d)
        BY <1>15
      <4>2. \A p \in Process, k \in Fd : table'[p][k] \in {table[p][k], Free}
        BY <3>1
      <4> QED
        BY <1>1, <2>1, <3>1, <4>1, <4>2, HereLess
    <3> QED
      BY <2>1, <3>1, <3>2, <3>3, <3>4, <3>5
  <2> QED
    BY <1>6, <2>2, <2>3
<1>17. TypeOK'
  BY <1>1, <1>2, <1>3, <1>8, <1>9, <1>12, <1>13, <1>16 DEF TypeOK, masterVars
<1>18. AtWorker(w)'
  <2>1. Served(w)'
    <3> SUFFICES ASSUME NEW k \in Fd, NEW d \in Client, reg'[w][k] = d
                 PROVE  /\ table'[w][k] = d /\ obj'[w][d].live /\ obj'[w][d].fd = k
                        /\ obj'[w][d].state = {} /\ obj'[w][d].refs = 1 /\ lazy'[w][d] = 0
      BY DEF Served
    <3>1. k # n /\ reg[w][k] = d /\ d # c
      BY <1>13, <1>14, TransferAssumption
    <3>2. table'[w][k] = table[w][k] /\ obj'[w][d] = obj[w][d] /\ lazy'[w][d] = lazy[w][d]
      BY <1>9, <1>12, <1>16, <3>1
    <3>3. /\ table[w][k] = d /\ obj[w][d].live /\ obj[w][d].fd = k
          /\ obj[w][d].state = {} /\ obj[w][d].refs = 1 /\ lazy[w][d] = 0
      BY <1>1, <3>1 DEF AtWorker, Served
    <3> QED
      BY <3>2, <3>3
  <2>2. Objects(w)'
    <3> SUFFICES ASSUME NEW d \in Client
                 PROVE  /\ IF obj'[w][d].live THEN obj'[w][d].refs \in 1..2 ELSE obj'[w][d] = NoObject
                        /\ d \in zombies[w] => /\ obj'[w][d].live /\ obj'[w][d].fd = INVALID_FD
                                               /\ ~Waits(w, d)' /\ \A k \in Fd : reg'[w][k] # d
      BY <1>2 DEF Objects
    <3>1. CASE d = c
      BY <1>4, <1>10, <1>12, <3>1
    <3>2. CASE d # c
      <4>1. /\ IF obj[w][d].live THEN obj[w][d].refs \in 1..2 ELSE obj[w][d] = NoObject
            /\ d \in zombies[w] => /\ obj[w][d].live /\ obj[w][d].fd = INVALID_FD
                                   /\ ~Waits(w, d) /\ \A k \in Fd : reg[w][k] # d
        BY <1>1 DEF AtWorker, Objects
      <4>2. \A k \in Fd : reg'[w][k] = d => reg[w][k] = d
        BY <1>13, TransferAssumption
      <4> QED
        BY <1>4, <1>12, <3>2, <4>1, <4>2
    <3> QED
      BY <3>1, <3>2
  <2>3. LazyOnes(w)'
    <3> SUFFICES ASSUME NEW x \in Client, lazy'[w][x] # 0
                 PROVE  /\ lazy'[w][x] = 1 /\ obj'[w][x].live /\ turn'[w] # "events" /\ ~Waits(w, x)'
                        /\ IF x \in zombies[w] THEN turn'[w] = "lazy" ELSE "softquit" \in obj'[w][x].state
                        /\ obj'[w][x].fd # INVALID_FD =>
                             /\ obj'[w][x].fd \notin due'[w]
                             /\ \A d \in Client : obj'[w][d].fd = obj'[w][x].fd => ~Waits(w, d)'
      BY <1>2 DEF LazyOnes
    <3>1. \A d \in Client : obj'[w][d].fd = obj[w][d].fd
      BY <1>10, <1>12, <1>14
    <3>2. CASE x = c
      <4>1. n \notin due'[w]
        BY <1>7, <1>8, <1>13, <1>14, <1>4, TransferAssumption
      <4>2. ASSUME NEW d \in Client, obj[w][d].fd = n, Waits(w, d)' PROVE FALSE
        <5>1. Waits(w, d) /\ d # c
          BY <1>4, <4>2
        <5>2. IF obj[w][d].state = {} THEN obj[w][d].fd \in Fd /\ reg[w][obj[w][d].fd] = d
              ELSE obj[w][d].fd = INVALID_FD
          BY <1>1, <5>1 DEF AtWorker, Waiting
        <5>3. n # INVALID_FD
          BY <1>7, Constants
        <5> QED
          BY <1>14, <4>2, <5>1, <5>2, <5>3
      <4>3. lazy'[w][x] = 1
        BY <1>9, <3>2
      <4>4. obj'[w][x].live /\ "softquit" \in obj'[w][x].state /\ obj'[w][x].fd = n /\ x \notin zombies[w]
        BY <1>4, <1>10, <1>12, <3>2
      <4> QED
        BY <1>4, <1>8, <3>1, <3>2, <4>1, <4>2, <4>3, <4>4
    <3>3. CASE x # c
      <4>1. lazy[w][x] # 0 /\ lazy'[w][x] = lazy[w][x] /\ obj'[w][x] = obj[w][x]
        BY <1>9, <1>12, <3>3
      <4>2. x \notin zombies[w]
        BY <1>1, <1>8, <4>1 DEF AtWorker, LazyOnes
      <4>3. /\ lazy[w][x] = 1 /\ obj[w][x].live /\ ~Waits(w, x) /\ "softquit" \in obj[w][x].state
            /\ obj[w][x].fd # INVALID_FD =>
                             /\ obj[w][x].fd \notin due[w]
                             /\ \A d \in Client : obj[w][d].fd = obj[w][x].fd => ~Waits(w, d)
        BY <1>1, <4>1, <4>2 DEF AtWorker, LazyOnes
      <4> QED
        BY <1>4, <1>8, <3>1, <4>1, <4>2, <4>3
    <3> QED
      BY <3>2, <3>3
  <2>4. Waiting(w)'
    <3>1. ASSUME NEW d \in Client, Waits(w, d)'
          PROVE  /\ obj'[w][d].live /\ obj'[w][d].refs = 1 /\ lazy'[w][d] = 0
                 /\ IF obj'[w][d].state = {}
                    THEN obj'[w][d].fd \in Fd /\ reg'[w][obj'[w][d].fd] = d
                    ELSE obj'[w][d].fd = INVALID_FD
      <4>1. obj'[w][d] = obj[w][d] /\ lazy'[w][d] = lazy[w][d] /\ Waits(w, d) /\ d # c
        BY <1>4, <1>9, <1>12, <3>1
      <4>2. /\ obj[w][d].live /\ obj[w][d].refs = 1 /\ lazy[w][d] = 0
            /\ IF obj[w][d].state = {} THEN obj[w][d].fd \in Fd /\ reg[w][obj[w][d].fd] = d
               ELSE obj[w][d].fd = INVALID_FD
        BY <1>1, <4>1 DEF AtWorker, Waiting
      <4> QED
        BY <1>13, <1>14, <4>1, <4>2
    <3> QED
      BY <1>3, <3>1 DEF Waiting
  <2>5. Due(w)'
    <3>1. due'[w] \cap Fd \subseteq Ready(w)'
      <4>1. due[w] \cap Fd \subseteq Ready(w)
        BY <1>1 DEF AtWorker, Due
      <4>2. \A d \in Client : Waits(w, d)' => Waits(w, d)
        BY <1>4
      <4> QED
        BY <1>1, <1>8, <4>1, <4>2, DueReady
    <3>2. RawFd \in due'[w] => raw'[w] # <<>> /\ lazy'[w][Head(raw'[w])] = 0
      <4> SUFFICES ASSUME RawFd \in due'[w] PROVE raw'[w] # <<>> /\ lazy'[w][Head(raw'[w])] = 0
        OBVIOUS
      <4>1. raw[w] # <<>> /\ lazy[w][Head(raw[w])] = 0
        BY <1>1, <1>8 DEF AtWorker, Due
      <4>2. Head(raw[w]) \in Client /\ Head(raw[w]) \in ToSet(raw[w])
        <5>1. raw[w] \in Seq(Client)
          BY <1>1 DEF TypeOK
        <5> QED
          BY <4>1, <5>1, QueueTail
      <4>3. Head(raw[w]) # c
        BY <1>15, <4>2
      <4> QED
        BY <1>9, <1>16, <4>1, <4>2, <4>3
    <3>3. MailFd \notin due'[w]
      BY <1>8
    <3> QED
      BY <3>1, <3>2, <3>3 DEF Due
  <2>6. Kept(w)'
    <3> SUFFICES ASSUME w \notin quiting, NEW k \in Fd, NEW d \in Client \ fails', table'[w][k] = d
                 PROVE  obj'[w][d].live /\ obj'[w][d].fd = k /\ "softquit" \notin obj'[w][d].state
      BY <1>2 DEF Kept
    <3>0. d \in Client /\ d \notin fails /\ d # Free
      BY <1>16, TransferAssumption
    <3>1. d \in Client \ fails /\ k # n /\ table[w][k] = d
      <4>1. CASE k = n
        <5>1. table[w][n] = d /\ c \in fails'
          BY <1>16, <3>0, <4>1
        <5> QED
          BY <1>14, <1>16, <3>0, <4>1, <5>1
      <4> QED
        BY <1>16, <3>0, <4>1
    <3>2. obj[w][d].live /\ obj[w][d].fd = k /\ "softquit" \notin obj[w][d].state
      BY <1>1, <3>1 DEF AtWorker, Kept
    <3>3. d # c
      BY <1>14, <3>1, <3>2
    <3> QED
      BY <1>12, <3>2, <3>3
  <2> QED
    BY <2>1, <2>2, <2>3, <2>4, <2>5, <2>6 DEF AtWorker
<1>19. \A v \in Worker \ {w} : SameAt(v) /\ mail'[v] = mail[v]
  BY <1>2, <1>3, <1>8, <1>9, <1>12, <1>13, <1>16, Constants DEF SameAt
<1>20. table'[0] = table[0] /\ \A k \in Fd : table'[w][k] \notin Ports
  <2>1. 0 \in Process \ {w}
    BY Constants
  <2>2. \A k \in Fd : table[w][k] \notin Ports
    BY DEF DescriptorInv, Listeners
  <2> QED
    BY <1>16, <2>1, <2>2, TransferAssumption
<1>21. UNCHANGED masterVars /\ fails \subseteq fails'
  BY <1>2, <1>16
<1> QED
  BY <1>16, <1>17, <1>18, <1>19, <1>20, <1>21, WorkerStep

\* A socket comes to a worker and gets a number there.
LEMMA RawReceiveKeeps ==
  ASSUME DescriptorInv, NEW w \in Worker, RawReceive(w)
  PROVE  DescriptorInv'
<1>1. TypeOK /\ AtWorker(w) /\ Sole /\ HereOnly
  BY DEF DescriptorInv
<1> DEFINE t == Tail(raw[w])
<1>2. PICK c \in Client :
        /\ c = Head(raw[w]) /\ c \in ToSet(raw[w]) /\ t \in Seq(Client)
        /\ ToSet(t) \subseteq ToSet(raw[w]) /\ c \notin ToSet(t) /\ IsInjective(t)
        /\ Len(t) <= RawCapacity[w]
  <2>1. /\ raw[w] \in Seq(Client) /\ raw[w] # <<>> /\ IsInjective(raw[w])
        /\ Len(raw[w]) <= RawCapacity[w] /\ RawCapacity[w] \in Nat
    BY <1>1, TransferAssumption DEF TypeOK, RawReceive, Sole
  <2>2. /\ t \in Seq(Client) /\ Head(raw[w]) \in Client /\ Head(raw[w]) \in ToSet(raw[w])
        /\ ToSet(t) \subseteq ToSet(raw[w]) /\ Len(t) = Len(raw[w]) - 1
        /\ IsInjective(raw[w]) => IsInjective(t) /\ Head(raw[w]) \notin ToSet(t)
    BY <2>1, QueueTail
  <2> HIDE DEF t
  <2>3. Len(t) <= RawCapacity[w]
    <3>1. Len(raw[w]) \in Nat
      BY <2>1
    <3> QED
      BY <2>1, <2>2, <3>1
  <2> QED
    BY <2>1, <2>2, <2>3
<1>3. /\ raw' = [raw EXCEPT ![w] = t]
      /\ table' = [table EXCEPT ![w][Lowest(table[w])] = c]
      /\ IF w \in quiting THEN UNCHANGED <<obj, reg>>
         ELSE /\ obj' = [obj EXCEPT ![w][c] = Allocated(Lowest(table[w]))]
              /\ reg' = [reg EXCEPT ![w][Lowest(table[w])] = c]
      /\ Calls(w, RawFd)
      /\ UNCHANGED <<masterVars, mail, lazy, zombies, quiting, moves, fails>>
  BY <1>2 DEF RawReceive, fiberVars
<1> HIDE DEF t
<1>4. /\ \A v \in Worker : ~Here(v, c)
      /\ \A p \in Process, k \in Fd : table[p][k] # c
      /\ c \notin new /\ \A v \in Worker \ {w} : c \notin ToSet(raw[v])
  <2>1. \A v \in Worker : ~Here(v, c)
    <3>1. \A v \in Worker, d \in Client : Here(v, d) => \A u \in Worker : d \notin ToSet(raw[u])
      BY <1>1 DEF HereOnly
    <3> QED
      BY <1>2, <3>1
  <2>2. /\ \A p \in Process, k \in Fd : table[p][k] # c
        /\ c \notin new /\ \A v \in Worker \ {w} : c \notin ToSet(raw[v])
    <3>1. \A p \in Process, k \in Fd : table[p][k] # c
      <4>1. \A p \in Process, k \in Fd : table[p][k] \notin ToSet(raw[w])
        BY <1>1 DEF Sole
      <4> QED
        BY <1>2, <4>1
    <3>2. c \notin new
      BY <1>1, <1>2 DEF Sole
    <3>3. \A v \in Worker \ {w} : c \notin ToSet(raw[v])
      <4>1. \A v \in Worker \ {w} : ToSet(raw[w]) \cap ToSet(raw[v]) = {}
        BY <1>1 DEF Sole
      <4> QED
        BY <1>2, <4>1
    <3> QED
      BY <3>1, <3>2, <3>3
  <2> QED
    BY <2>1, <2>2
<1>5. PICK n \in Fd : n = Lowest(table[w]) /\ table[w][n] = Free
  <2>1. /\ table[w] \in [Fd -> Client \cup Ports \cup {Free}]
        /\ \A k \in Fd : table[w][k] # c
        /\ \A m, k \in Fd : table[w][m] = table[w][k] /\ table[w][m] # Free => m = k
    BY <1>1, <1>4, Constants DEF TypeOK, Sole
  <2> QED
    BY <2>1, LowestFree
<1>6. /\ table' = [table EXCEPT ![w][n] = c]
      /\ IF w \in quiting THEN UNCHANGED <<obj, reg>>
         ELSE /\ obj' = [obj EXCEPT ![w][c] = Allocated(n)]
              /\ reg' = [reg EXCEPT ![w][n] = c]
  BY <1>3, <1>5
<1>7. reg[w][n] = Free
  <2>1. reg[w][n] \in Client => table[w][n] = reg[w][n]
    BY <1>1 DEF AtWorker, Served
  <2>2. reg[w][n] \in Client \cup {Free}
    BY <1>1 DEF TypeOK
  <2> QED
    BY <1>5, <2>1, <2>2, TransferAssumption
<1>8. /\ turn[w] = "round" /\ RawFd \in due[w] /\ due'[w] \subseteq due[w] \ {RawFd}
      /\ MailFd \notin due[w]
      /\ \A k \in due'[w] \cap Fd : reg'[w][k] = reg[w][k]
      /\ \A v \in Worker \ {w} : due'[v] = due[v] /\ turn'[v] = turn[v]
      /\ turn'[w] \in {"round", "zombie"}
      /\ due' \in [Worker -> SUBSET ({MailFd, RawFd} \cup Fd)]
      /\ turn' \in [Worker -> ToSet(Fibers) \cup {"round"}]
      /\ \A v \in Worker : turn'[v] = "round" <=> due'[v] # {}
  BY <1>1, <1>3, CallsEffect
<1>9. lazy[w][c] = 0 /\ ~Waits(w, c) /\ c \notin zombies[w] /\ \A k \in Fd : reg[w][k] # c
  <2>1. lazy[w][c] = 0
    BY <1>1, <1>2, <1>8 DEF AtWorker, Due
  <2> QED
    BY <1>4, <2>1 DEF Here
<1>10. /\ table' \in [Process -> [Fd -> Client \cup Ports \cup {Free}]]
       /\ \A p \in Process \ {w} : table'[p] = table[p]
       /\ table'[w][n] = c /\ \A k \in Fd \ {n} : table'[w][k] = table[w][k]
  <2>1. table \in [Process -> [Fd -> Client \cup Ports \cup {Free}]] /\ w \in Process
    BY <1>1, Constants DEF TypeOK
  <2> QED
    BY <1>6, <2>1
<1>11. /\ raw' \in [Worker -> Seq(Client)] /\ raw'[w] = t /\ \A v \in Worker \ {w} : raw'[v] = raw[v]
       /\ \A v \in Worker : Len(raw'[v]) <= RawCapacity[v]
  <2>1. raw \in [Worker -> Seq(Client)] /\ \A v \in Worker : Len(raw[v]) <= RawCapacity[v]
    BY <1>1 DEF TypeOK
  <2>2. /\ raw' \in [Worker -> Seq(Client)] /\ raw'[w] = t /\ \A v \in Worker \ {w} : raw'[v] = raw[v]
    BY <1>2, <1>3, <2>1
  <2> QED
    BY <1>2, <2>1, <2>2
<1>12. /\ obj' \in [Worker -> [Client -> Object]] /\ reg' \in [Worker -> [Fd -> Client \cup {Free}]]
       /\ \A v \in Worker \ {w} : obj'[v] = obj[v] /\ reg'[v] = reg[v]
       /\ \A d \in Client \ {c} : obj'[w][d] = obj[w][d]
       /\ \A k \in Fd \ {n} : reg'[w][k] = reg[w][k]
       /\ IF w \in quiting THEN reg'[w][n] = Free /\ obj'[w][c] = obj[w][c]
          ELSE reg'[w][n] = c /\ obj'[w][c] = Allocated(n)
  <2>1. obj \in [Worker -> [Client -> Object]] /\ reg \in [Worker -> [Fd -> Client \cup {Free}]]
    BY <1>1 DEF TypeOK
  <2>2. CASE w \in quiting
    <3>1. obj' = obj /\ reg' = reg
      BY <1>6, <2>2
    <3> QED
      BY <1>7, <2>1, <2>2, <3>1
  <2>3. CASE w \notin quiting
    <3>1. Allocated(n) \in Object
      BY DEF Allocated, Object
    <3>2. obj' = [obj EXCEPT ![w][c] = Allocated(n)] /\ reg' = [reg EXCEPT ![w][n] = c]
      BY <1>6, <2>3
    <3> QED
      BY <2>1, <2>3, <3>1, <3>2
  <2> QED
    BY <2>2, <2>3
<1>13. Allocated(n).live /\ Allocated(n).fd = n /\ Allocated(n).state = {} /\ Allocated(n).refs = 1
  BY DEF Allocated
<1>14. \A d \in Client : Waits(w, d)' <=> Waits(w, d)
  BY <1>3 DEF Waits
<1>15. TypeOK'
  BY <1>1, <1>3, <1>8, <1>10, <1>11, <1>12 DEF TypeOK, masterVars
<1>16. Sole'
  <2>1. new' = new /\ c # Free
    BY <1>3, TransferAssumption DEF masterVars
  <2>2. \A v \in Worker : ToSet(raw'[v]) \subseteq ToSet(raw[v]) /\ c \notin ToSet(raw'[v])
    BY <1>2, <1>4, <1>11
  <2>3. \A p \in Process, k \in Fd :
          IF p = w /\ k = n THEN table'[p][k] = c ELSE table'[p][k] = table[p][k]
    BY <1>10
  <2>4. \A p, q \in Process, m, k \in Fd :
          table'[p][m] = table'[q][k] /\ table'[p][m] # Free => p = q /\ m = k
    <3>0. \A p, q \in Process, m, k \in Fd :
            table[p][m] = table[q][k] /\ table[p][m] # Free => p = q /\ m = k
      BY <1>1 DEF Sole
    <3> SUFFICES ASSUME NEW p \in Process, NEW q \in Process, NEW m \in Fd, NEW k \in Fd,
                        table'[p][m] = table'[q][k], table'[p][m] # Free
                 PROVE  p = q /\ m = k
      OBVIOUS
    <3>1. CASE p = w /\ m = n
      BY <1>4, <2>3, <3>1
    <3>2. CASE q = w /\ k = n
      BY <1>4, <2>3, <3>2
    <3>3. CASE ~(p = w /\ m = n) /\ ~(q = w /\ k = n)
      <4>1. table'[p][m] = table[p][m] /\ table'[q][k] = table[q][k]
        BY <2>3, <3>3
      <4>2. table[p][m] = table[q][k] /\ table[p][m] # Free
        BY <4>1
      <4> QED
        BY <3>0, <4>2
    <3> QED
      BY <3>1, <3>2, <3>3
  <2>5. \A v \in Worker : IsInjective(raw'[v])
    BY <1>1, <1>2, <1>11 DEF Sole
  <2>6. \A u, v \in Worker : u # v => ToSet(raw'[u]) \cap ToSet(raw'[v]) = {}
    BY <1>1, <2>2 DEF Sole
  <2>7. \A p \in Process, k \in Fd, v \in Worker : table'[p][k] \notin ToSet(raw'[v])
    BY <1>1, <2>2, <2>3 DEF Sole
  <2>8. \A p \in Process, k \in Fd : table'[p][k] \notin new'
    BY <1>1, <1>4, <2>1, <2>3 DEF Sole
  <2>9. \A v \in Worker : ToSet(raw'[v]) \cap new' = {}
    BY <1>1, <2>1, <2>2 DEF Sole
  <2> QED
    BY <2>4, <2>5, <2>6, <2>7, <2>8, <2>9 DEF Sole
<1>17. HereOnly'
  <2> SUFFICES ASSUME NEW v \in Worker, NEW d \in Client, Here(v, d)'
               PROVE  /\ d \notin new'
                      /\ \A u \in Worker : d \notin ToSet(raw'[u]) /\ (Here(u, d)' => u = v)
                      /\ \A p \in Process, k \in Fd : table'[p][k] = d => p = v
    BY DEF HereOnly
  <2>1. \A u \in Worker, x \in Client : Here(u, x)' => Here(u, x) \/ (u = w /\ x = c)
    <3> SUFFICES ASSUME NEW u \in Worker, NEW x \in Client, Here(u, x)'
                 PROVE  Here(u, x) \/ (u = w /\ x = c)
      OBVIOUS
    <3>1. mail'[u] = mail[u] /\ zombies'[u] = zombies[u]
      BY <1>3
    <3>2. CASE u = w
      <4>1. \A k \in Fd : reg'[w][k] = x => reg[w][k] = x \/ x = c
        BY <1>12, TransferAssumption
      <4> QED
        BY <3>1, <3>2, <4>1 DEF Here, Waits
    <3>3. CASE u # w
      <4>1. reg'[u] = reg[u]
        BY <1>12, <3>3
      <4> QED
        BY <3>1, <4>1 DEF Here, Waits
    <3> QED
      BY <3>2, <3>3
  <2>2. new' = new
    BY <1>3 DEF masterVars
  <2>3. \A u \in Worker : ToSet(raw'[u]) \subseteq ToSet(raw[u]) /\ c \notin ToSet(raw'[u])
    BY <1>2, <1>4, <1>11
  <2>4. CASE d = c
    <3>1. v = w /\ \A u \in Worker : Here(u, d)' => u = w
      BY <1>4, <2>1, <2>4
    <3>2. \A p \in Process, k \in Fd : table'[p][k] = c => p = w
      BY <1>4, <1>10
    <3> QED
      BY <1>4, <2>2, <2>3, <2>4, <3>1, <3>2
  <2>5. CASE d # c
    <3>1. Here(v, d) /\ \A u \in Worker : Here(u, d)' => Here(u, d)
      BY <2>1, <2>5
    <3>2. /\ d \notin new
          /\ \A u \in Worker : d \notin ToSet(raw[u]) /\ (Here(u, d) => u = v)
          /\ \A p \in Process, k \in Fd : table[p][k] = d => p = v
      BY <1>1, <3>1 DEF HereOnly
    <3>3. \A p \in Process, k \in Fd : table'[p][k] = d => table[p][k] = d
      BY <1>10, <2>5
    <3> QED
      BY <2>2, <2>3, <3>1, <3>2, <3>3
  <2> QED
    BY <2>4, <2>5
<1>18. AtWorker(w)'
  <2>1. Served(w)'
    <3> SUFFICES ASSUME NEW k \in Fd, NEW d \in Client, reg'[w][k] = d
                 PROVE  /\ table'[w][k] = d /\ obj'[w][d].live /\ obj'[w][d].fd = k
                        /\ obj'[w][d].state = {} /\ obj'[w][d].refs = 1 /\ lazy[w][d] = 0
      BY <1>3 DEF Served
    <3>1. CASE k = n
      <4>1. w \notin quiting /\ d = c
        BY <1>12, <3>1, TransferAssumption
      <4> QED
        BY <1>9, <1>10, <1>12, <1>13, <3>1, <4>1
    <3>2. CASE k # n
      <4>1. reg[w][k] = d /\ d # c
        BY <1>9, <1>12, <3>2
      <4>2. table'[w][k] = table[w][k] /\ obj'[w][d] = obj[w][d]
        BY <1>10, <1>12, <3>2, <4>1
      <4>3. /\ table[w][k] = d /\ obj[w][d].live /\ obj[w][d].fd = k
            /\ obj[w][d].state = {} /\ obj[w][d].refs = 1 /\ lazy[w][d] = 0
        BY <1>1, <4>1 DEF AtWorker, Served
      <4> QED
        BY <4>2, <4>3
    <3> QED
      BY <3>1, <3>2
  <2>2. Objects(w)'
    <3> SUFFICES ASSUME NEW d \in Client
                 PROVE  /\ IF obj'[w][d].live THEN obj'[w][d].refs \in 1..2 ELSE obj'[w][d] = NoObject
                        /\ d \in zombies[w] => /\ obj'[w][d].live /\ obj'[w][d].fd = INVALID_FD
                                               /\ ~Waits(w, d)' /\ \A k \in Fd : reg'[w][k] # d
      BY <1>3 DEF Objects
    <3>1. /\ IF obj[w][d].live THEN obj[w][d].refs \in 1..2 ELSE obj[w][d] = NoObject
          /\ d \in zombies[w] => /\ obj[w][d].live /\ obj[w][d].fd = INVALID_FD
                                 /\ ~Waits(w, d) /\ \A k \in Fd : reg[w][k] # d
      BY <1>1 DEF AtWorker, Objects
    <3>2. CASE d = c
      BY <1>9, <1>12, <1>13, <3>1, <3>2
    <3>3. CASE d # c
      <4>1. \A k \in Fd : reg'[w][k] = d => reg[w][k] = d
        BY <1>12, <3>3, TransferAssumption
      <4> QED
        BY <1>12, <1>14, <3>1, <3>3, <4>1
    <3> QED
      BY <3>2, <3>3
  <2>3. LazyOnes(w)'
    <3> SUFFICES ASSUME NEW x \in Client, lazy[w][x] # 0
                 PROVE  /\ lazy[w][x] = 1 /\ obj'[w][x].live /\ turn'[w] # "events" /\ ~Waits(w, x)'
                        /\ IF x \in zombies[w] THEN turn'[w] = "lazy" ELSE "softquit" \in obj'[w][x].state
                        /\ obj'[w][x].fd # INVALID_FD =>
                             /\ obj'[w][x].fd \notin due'[w]
                             /\ \A d \in Client : obj'[w][d].fd = obj'[w][x].fd => ~Waits(w, d)'
      BY <1>3 DEF LazyOnes
    <3>1. x # c /\ obj'[w][x] = obj[w][x] /\ x \notin zombies[w]
      BY <1>1, <1>8, <1>9, <1>12 DEF AtWorker, LazyOnes
    <3>2. /\ lazy[w][x] = 1 /\ obj[w][x].live /\ ~Waits(w, x) /\ "softquit" \in obj[w][x].state
          /\ obj[w][x].fd # INVALID_FD =>
                             /\ obj[w][x].fd \notin due[w]
                             /\ \A d \in Client : obj[w][d].fd = obj[w][x].fd => ~Waits(w, d)
      BY <1>1, <3>1 DEF AtWorker, LazyOnes
    <3>3. ASSUME obj[w][x].fd # INVALID_FD, NEW d \in Client, obj'[w][d].fd = obj[w][x].fd
          PROVE  ~Waits(w, d)'
      BY <1>9, <1>12, <1>14, <3>2, <3>3
    <3> QED
      BY <1>8, <1>14, <3>1, <3>2, <3>3
  <2>4. Waiting(w)'
    <3>1. ASSUME NEW d \in Client, Waits(w, d)'
          PROVE  /\ obj'[w][d].live /\ obj'[w][d].refs = 1 /\ lazy[w][d] = 0
                 /\ IF obj'[w][d].state = {}
                    THEN obj'[w][d].fd \in Fd /\ reg'[w][obj'[w][d].fd] = d
                    ELSE obj'[w][d].fd = INVALID_FD
      <4>1. Waits(w, d) /\ d # c
        BY <1>9, <1>14, <3>1
      <4>2. /\ obj[w][d].live /\ obj[w][d].refs = 1 /\ lazy[w][d] = 0
            /\ IF obj[w][d].state = {} THEN obj[w][d].fd \in Fd /\ reg[w][obj[w][d].fd] = d
               ELSE obj[w][d].fd = INVALID_FD
        BY <1>1, <4>1 DEF AtWorker, Waiting
      <4>3. reg[w][n] # d
        BY <1>7, TransferAssumption
      <4> QED
        BY <1>12, <4>1, <4>2, <4>3
    <3>2. /\ Once(mail[w])
          /\ \A m \in ToSet(mail[w]) : IF m.client = Free THEN m = Softquitall
                                       ELSE m.room \in Worker \ {w}
      BY <1>1 DEF AtWorker, Waiting
    <3> QED
      BY <1>3, <3>1, <3>2 DEF Waiting
  <2>5. Due(w)'
    <3>1. due'[w] \cap Fd \subseteq Ready(w)'
      <4>1. due[w] \cap Fd \subseteq Ready(w)
        BY <1>1 DEF AtWorker, Due
      <4> QED
        BY <1>1, <1>8, <1>14, <4>1, DueReady
    <3> QED
      BY <1>8, <3>1 DEF Due
  <2>6. Kept(w)'
    <3> SUFFICES ASSUME w \notin quiting, NEW k \in Fd, NEW d \in Client \ fails, table'[w][k] = d
                 PROVE  obj'[w][d].live /\ obj'[w][d].fd = k /\ "softquit" \notin obj'[w][d].state
      BY <1>3 DEF Kept
    <3>1. CASE k = n
      BY <1>10, <1>12, <1>13, <3>1
    <3>2. CASE k # n
      <4>1. table[w][k] = d /\ d # c
        BY <1>4, <1>10, <3>2, Constants
      <4>2. obj[w][d].live /\ obj[w][d].fd = k /\ "softquit" \notin obj[w][d].state
        BY <1>1, <4>1 DEF AtWorker, Kept
      <4> QED
        BY <1>12, <4>1, <4>2
    <3> QED
      BY <3>1, <3>2
  <2> QED
    BY <2>1, <2>2, <2>3, <2>4, <2>5, <2>6 DEF AtWorker
<1>19. \A v \in Worker \ {w} : SameAt(v) /\ mail'[v] = mail[v]
  BY <1>3, <1>8, <1>10, <1>12, Constants DEF SameAt
<1>20. table'[0] = table[0] /\ \A k \in Fd : table'[w][k] \notin Ports
  <2>1. 0 \in Process \ {w}
    BY Constants
  <2>2. \A k \in Fd : table[w][k] \notin Ports
    BY DEF DescriptorInv, Listeners
  <2>3. c \notin Ports
    BY TransferAssumption
  <2> QED
    BY <1>10, <2>1, <2>2, <2>3
<1>21. UNCHANGED masterVars /\ fails \subseteq fails'
  BY <1>3
<1> QED
  BY <1>11, <1>15, <1>16, <1>17, <1>18, <1>19, <1>20, <1>21, WorkerStep

\* The lazy calls: who has no reference left goes, with the registration of its number.
LEMMA LazyStepKeeps ==
  ASSUME DescriptorInv, NEW w \in Worker, LazyStep(w)
  PROVE  DescriptorInv'
<1>1. TypeOK /\ AtWorker(w)
  BY DEF DescriptorInv
<1> DEFINE dead == {c \in Client : obj[w][c].live /\ obj[w][c].refs <= lazy[w][c]}
           objects == {obj[w][c] : c \in dead}
           O == [c \in Client |-> IF c \in dead THEN NoObject
                                  ELSE [obj[w][c] EXCEPT !.refs = @ - lazy[w][c]]]
<1>2. /\ turn[w] = "lazy" /\ turn' = [turn EXCEPT ![w] = "events"]
      /\ Closes(w, objects) /\ obj' = [obj EXCEPT ![w] = O]
      /\ zombies' = [zombies EXCEPT ![w] = {c \in zombies[w] : lazy[w][c] = 0}]
      /\ lazy' = [lazy EXCEPT ![w] = NoLazy]
      /\ UNCHANGED <<masterVars, raw, mail, due, quiting, moves, fails>>
  <2>1. Closes(w, objects) /\ obj' = [obj EXCEPT ![w] = O]
    BY DEF LazyStep
  <2>2. zombies' = [zombies EXCEPT ![w] = {c \in zombies[w] : lazy[w][c] = 0}]
    BY DEF LazyStep
  <2>3. /\ turn[w] = "lazy" /\ turn' = [turn EXCEPT ![w] = "events"]
        /\ lazy' = [lazy EXCEPT ![w] = NoLazy]
        /\ UNCHANGED <<masterVars, raw, mail, due, quiting, moves, fails>>
    BY FiberOrder DEF LazyStep, At, Advances
  <2> QED
    BY <2>1, <2>2, <2>3
<1>3. /\ obj \in [Worker -> [Client -> Object]] /\ lazy \in [Worker -> [Client -> 0..2]]
      /\ zombies \in [Worker -> SUBSET Client]
      /\ turn \in [Worker -> ToSet(Fibers) \cup {"round"}] /\ "events" \in ToSet(Fibers)
  <2>1. 2 \in DOMAIN Fibers /\ Fibers[2] = "events"
    BY DEF Fibers
  <2> QED
    BY <1>1, <2>1 DEF TypeOK, ToSet
<1>4. due[w] = {}
  BY <1>1, <1>2 DEF TypeOK
<1>5. ASSUME NEW c \in Client, lazy[w][c] # 0
      PROVE  /\ lazy[w][c] = 1 /\ obj[w][c].live
             /\ obj[w][c].fd = INVALID_FD \/ "softquit" \in obj[w][c].state
             /\ obj[w][c].fd # INVALID_FD =>
                  \A d \in Client : obj[w][d].fd = obj[w][c].fd => ~Waits(w, d)
  BY <1>1, <1>5 DEF AtWorker, LazyOnes, Objects
<1>6. ASSUME NEW c \in dead
      PROVE  c \in Client /\ lazy[w][c] = 1 /\ obj[w][c].refs = 1
  <2>1. c \in Client /\ obj[w][c].live /\ obj[w][c].refs <= lazy[w][c]
    OBVIOUS
  <2>2. obj[w][c].refs \in 1..2
    BY <1>1, <2>1 DEF AtWorker, Objects
  <2>3. lazy[w][c] # 0
    BY <1>3, <2>1, <2>2
  <2> QED
    BY <1>5, <2>1, <2>2, <2>3
<1>7. ASSUME NEW c \in Client
      PROVE  /\ O[c] \in Object
             /\ lazy[w][c] = 0 => O[c] = obj[w][c]
             /\ lazy[w][c] # 0 /\ c \notin dead =>
                  /\ O[c].live /\ O[c].fd = obj[w][c].fd /\ O[c].state = obj[w][c].state
                  /\ O[c].refs = 1
             /\ c \in dead => O[c] = NoObject
  <2>1. obj[w][c] \in Object /\ lazy[w][c] \in 0..2
    BY <1>3
  <2>2. IF obj[w][c].live THEN obj[w][c].refs \in 1..2 ELSE obj[w][c] = NoObject
    BY <1>1 DEF AtWorker, Objects
  <2>3. CASE c \in dead
    <3>1. O[c] = NoObject
      BY <2>3
    <3>2. NoObject \in Object
      BY DEF NoObject, Object
    <3> QED
      BY <1>6, <2>3, <3>1, <3>2
  <2>4. CASE c \notin dead
    <3>1. O[c] = [obj[w][c] EXCEPT !.refs = @ - lazy[w][c]]
      BY <2>4
    <3>2. CASE lazy[w][c] = 0
      <4>1. obj[w][c].refs - 0 = obj[w][c].refs
        BY <2>1 DEF Object
      <4> DEFINE o == obj[w][c]
      <4>2. O[c] = [o EXCEPT !.refs = o.refs]
        BY <3>1, <3>2, <4>1
      <4>3. o \in Object
        BY <2>1
      <4> HIDE DEF o
      <4>4. [o EXCEPT !.refs = o.refs] = o
        BY <4>3 DEF Object
      <4> HIDE DEF O, dead
      <4> QED
        BY <2>1, <2>4, <3>2, <4>2, <4>4 DEF o
    <3>3. CASE lazy[w][c] # 0
      <4>1. obj[w][c].live /\ lazy[w][c] = 1 /\ obj[w][c].refs = 2
        <5>1. obj[w][c].live /\ lazy[w][c] = 1
          BY <1>5, <3>3
        <5>2. ~(obj[w][c].refs <= 1)
          BY <2>4, <5>1
        <5> QED
          BY <2>2, <5>1, <5>2
      <4> DEFINE o == obj[w][c]
                 x == [o EXCEPT !.refs = @ - 1]
      <4>2. o \in Object /\ o.live /\ o.refs = 2
        BY <2>1, <4>1
      <4>3. O[c] = x
        BY <3>1, <4>1
      <4>4. x \in Object /\ x.live /\ x.fd = o.fd /\ x.state = o.state /\ x.refs = 1
        <5> HIDE DEF o
        <5> QED
          BY <4>2 DEF Object
      <4> HIDE DEF O, dead, x
      <4> QED
        BY <2>4, <3>3, <4>3, <4>4
    <3> QED
      BY <3>2, <3>3
  <2> QED
    BY <2>3, <2>4
<1>8. /\ reg' \in [Worker -> [Fd -> Client \cup {Free}]]
      /\ table' \in [Process -> [Fd -> Client \cup Ports \cup {Free}]]
      /\ \A v \in Worker \ {w} : reg'[v] = reg[v] /\ table'[v] = table[v]
      /\ table'[0] = table[0]
      /\ \A n \in Fd : reg'[w][n] = IF \E c \in dead : obj[w][c].fd = n THEN Free ELSE reg[w][n]
      /\ \A n \in Fd : table'[w][n] = table[w][n]
  <2>1. /\ reg' \in [Worker -> [Fd -> Client \cup {Free}]]
        /\ table' \in [Process -> [Fd -> Client \cup Ports \cup {Free}]]
        /\ \A v \in Worker \ {w} : reg'[v] = reg[v] /\ table'[v] = table[v]
        /\ table'[0] = table[0]
        /\ \A n \in Fd : reg'[w][n] = IF n \in {o.fd : o \in objects} THEN Free ELSE reg[w][n]
        /\ \A n \in Fd : table'[w][n] = IF n \in ClosedNumbers(objects) THEN Free ELSE table[w][n]
    <3> HIDE DEF objects
    <3> QED
      BY <1>1, <1>2, ClosesEffect
  <2>2. \A n \in Fd : n \in {o.fd : o \in objects} <=> \E c \in dead : obj[w][c].fd = n
    OBVIOUS
  <2>3. ClosedNumbers(objects) = {}
    <3>1. \A o \in objects : o.fd = INVALID_FD \/ "softquit" \in o.state
      BY <1>5, <1>6
    <3> QED
      BY <3>1 DEF ClosedNumbers
  <2> QED
    BY <2>1, <2>2, <2>3
<1> HIDE DEF objects, O, dead
<1>9. /\ \A c \in Client : obj'[w][c] = O[c]
      /\ \A v \in Worker \ {w} : obj'[v] = obj[v]
      /\ obj' \in [Worker -> [Client -> Object]]
  <2>1. O \in [Client -> Object]
    <3>1. O = [c \in Client |-> O[c]]
      BY DEF O
    <3> QED
      BY <1>7, <3>1
  <2> QED
    BY <1>2, <1>3, <2>1
<1>10. /\ zombies'[w] = {c \in zombies[w] : lazy[w][c] = 0}
       /\ \A v \in Worker \ {w} : zombies'[v] = zombies[v]
       /\ zombies' \in [Worker -> SUBSET Client]
       /\ \A c \in Client : lazy'[w][c] = 0
       /\ \A v \in Worker \ {w} : lazy'[v] = lazy[v]
       /\ lazy' \in [Worker -> [Client -> 0..2]]
       /\ turn'[w] = "events" /\ \A v \in Worker \ {w} : turn'[v] = turn[v]
       /\ turn' \in [Worker -> ToSet(Fibers) \cup {"round"}]
  BY <1>2, <1>3 DEF NoLazy
<1>11. \A v \in Worker : turn'[v] = "round" <=> due'[v] # {}
  <2>1. \A v \in Worker : turn[v] = "round" <=> due[v] # {}
    BY <1>1 DEF TypeOK
  <2>2. due' = due
    BY <1>2
  <2> QED
    BY <1>4, <1>10, <2>1, <2>2
<1>12. TypeOK'
  BY <1>1, <1>2, <1>8, <1>9, <1>10, <1>11 DEF TypeOK, masterVars
<1>13. \A c \in Client : Waits(w, c)' <=> Waits(w, c)
  BY <1>2 DEF Waits
<1>14. \A k \in Fd, d \in Client : reg'[w][k] = d => reg[w][k] = d
  BY <1>8, TransferAssumption
<1>15. AtWorker(w)'
  <2>1. Served(w)'
    <3> SUFFICES ASSUME NEW k \in Fd, NEW d \in Client, reg'[w][k] = d
                 PROVE  /\ table'[w][k] = d /\ obj'[w][d].live /\ obj'[w][d].fd = k
                        /\ obj'[w][d].state = {} /\ obj'[w][d].refs = 1 /\ lazy'[w][d] = 0
      BY DEF Served
    <3>1. /\ table[w][k] = d /\ obj[w][d].live /\ obj[w][d].fd = k
          /\ obj[w][d].state = {} /\ obj[w][d].refs = 1 /\ lazy[w][d] = 0
      BY <1>1, <1>14 DEF AtWorker, Served
    <3>2. obj'[w][d] = obj[w][d]
      BY <1>7, <1>9, <3>1
    <3> QED
      BY <1>8, <1>10, <3>1, <3>2
  <2>2. Objects(w)'
    <3> SUFFICES ASSUME NEW d \in Client
                 PROVE  /\ IF obj'[w][d].live THEN obj'[w][d].refs \in 1..2 ELSE obj'[w][d] = NoObject
                        /\ d \in zombies'[w] => /\ obj'[w][d].live /\ obj'[w][d].fd = INVALID_FD
                                                /\ ~Waits(w, d)' /\ \A k \in Fd : reg'[w][k] # d
      BY DEF Objects
    <3>1. /\ IF obj[w][d].live THEN obj[w][d].refs \in 1..2 ELSE obj[w][d] = NoObject
          /\ d \in zombies[w] => /\ obj[w][d].live /\ obj[w][d].fd = INVALID_FD
                                 /\ ~Waits(w, d) /\ \A k \in Fd : reg[w][k] # d
      BY <1>1 DEF AtWorker, Objects
    <3>2. IF obj'[w][d].live THEN obj'[w][d].refs \in 1..2 ELSE obj'[w][d] = NoObject
      <4>1. CASE lazy[w][d] = 0
        <5>1. obj'[w][d] = obj[w][d]
          BY <1>7, <1>9, <4>1
        <5> QED
          BY <3>1, <5>1
      <4>2. CASE d \in dead
        <5>1. obj'[w][d] = NoObject
          BY <1>7, <1>9, <4>2
        <5> QED
          BY <5>1 DEF NoObject
      <4>3. CASE lazy[w][d] # 0 /\ d \notin dead
        <5>1. obj'[w][d].live /\ obj'[w][d].refs = 1
          BY <1>7, <1>9, <4>3
        <5> QED
          BY <5>1
      <4> QED
        BY <4>1, <4>2, <4>3
    <3>3. ASSUME d \in zombies'[w]
          PROVE  obj'[w][d].live /\ obj'[w][d].fd = INVALID_FD
                 /\ ~Waits(w, d)' /\ \A k \in Fd : reg'[w][k] # d
      <4>1. d \in zombies[w] /\ obj'[w][d] = obj[w][d]
        BY <1>7, <1>9, <1>10, <3>3
      <4> QED
        BY <1>13, <1>14, <3>1, <4>1
    <3> QED
      BY <3>2, <3>3
  <2>3. LazyOnes(w)'
    BY <1>10 DEF LazyOnes
  <2>4. Waiting(w)'
    <3>1. ASSUME NEW d \in Client, Waits(w, d)'
          PROVE  /\ obj'[w][d].live /\ obj'[w][d].refs = 1 /\ lazy'[w][d] = 0
                 /\ IF obj'[w][d].state = {}
                    THEN obj'[w][d].fd \in Fd /\ reg'[w][obj'[w][d].fd] = d
                    ELSE obj'[w][d].fd = INVALID_FD
      <4>1. Waits(w, d)
        BY <1>13, <3>1
      <4>2. /\ obj[w][d].live /\ obj[w][d].refs = 1 /\ lazy[w][d] = 0
            /\ IF obj[w][d].state = {} THEN obj[w][d].fd \in Fd /\ reg[w][obj[w][d].fd] = d
               ELSE obj[w][d].fd = INVALID_FD
        BY <1>1, <4>1 DEF AtWorker, Waiting
      <4>3. obj'[w][d] = obj[w][d]
        BY <1>7, <1>9, <4>2
      <4>4. ASSUME obj[w][d].fd \in Fd PROVE reg'[w][obj[w][d].fd] = reg[w][obj[w][d].fd]
        <5>1. obj[w][d].fd # INVALID_FD
          BY <4>4, Constants
        <5>2. ~ \E c \in dead : obj[w][c].fd = obj[w][d].fd
          BY <1>5, <1>6, <4>1, <5>1
        <5> QED
          BY <1>8, <4>4, <5>2
      <4> QED
        BY <1>10, <4>2, <4>3, <4>4
    <3>2. /\ Once(mail[w])
          /\ \A m \in ToSet(mail[w]) : IF m.client = Free THEN m = Softquitall
                                       ELSE m.room \in Worker \ {w}
      BY <1>1 DEF AtWorker, Waiting
    <3> QED
      BY <1>2, <3>1, <3>2 DEF Waiting
  <2>5. Due(w)'
    BY <1>2, <1>4 DEF Due
  <2>6. Kept(w)'
    <3> SUFFICES ASSUME w \notin quiting, NEW k \in Fd, NEW d \in Client \ fails, table[w][k] = d
                 PROVE  obj'[w][d].live /\ obj'[w][d].fd = k /\ "softquit" \notin obj'[w][d].state
      BY <1>2, <1>8 DEF Kept
    <3>1. obj[w][d].live /\ obj[w][d].fd = k /\ "softquit" \notin obj[w][d].state
      BY <1>1 DEF AtWorker, Kept
    <3>2. lazy[w][d] = 0
      BY <1>5, <3>1, Constants
    <3> QED
      BY <1>7, <1>9, <3>1, <3>2
  <2> QED
    BY <2>1, <2>2, <2>3, <2>4, <2>5, <2>6 DEF AtWorker
<1>16. \A d \in Client : Here(w, d)' => Here(w, d)
  BY <1>10, <1>13, <1>14 DEF Here
<1>17. \A v \in Worker \ {w} : SameAt(v) /\ mail'[v] = mail[v]
  BY <1>2, <1>8, <1>9, <1>10 DEF SameAt
<1>18. \A k \in Fd : table'[w][k] \in {table[w][k], Free}
  BY <1>8
<1> QED
  BY <1>2, <1>8, <1>12, <1>15, <1>16, <1>17, <1>18, QuietStep

\* The command to quit softly at a worker: every object is closed, and no number is
\* registered any more.
LEMMA SoftQuitKeeps ==
  ASSUME DescriptorInv, NEW w \in Worker, SoftQuit(w)
  PROVE  DescriptorInv'
<1>1. TypeOK /\ AtWorker(w)
  BY DEF DescriptorInv
<1> DEFINE dead == {c \in zombies[w] : obj[w][c].refs <= 1}
           kept == {c \in Client : obj[w][c].live} \ dead
           objects == {obj[w][c] : c \in dead \cup kept}
           Left(c) == [obj[w][c] EXCEPT !.refs = IF c \in zombies[w] THEN @ - 1 ELSE @]
           O == [c \in Client |-> IF c \in dead THEN NoObject
                                  ELSE IF c \in kept THEN Closed(Left(c)) ELSE obj[w][c]]
<1>2. /\ mail[w] # <<>> /\ mail' = [mail EXCEPT ![w] = Tail(mail[w])]
      /\ quiting' = quiting \cup {w} /\ zombies' = [zombies EXCEPT ![w] = {}]
      /\ Closes(w, objects) /\ obj' = [obj EXCEPT ![w] = O]
      /\ Calls(w, MailFd)
      /\ UNCHANGED <<masterVars, raw, lazy, moves, fails>>
  <2>1. Closes(w, objects)
    BY DEF SoftQuit
  <2>2. obj' = [obj EXCEPT ![w] = O]
    BY DEF SoftQuit
  <2>3. /\ mail[w] # <<>> /\ mail' = [mail EXCEPT ![w] = Tail(mail[w])]
        /\ quiting' = quiting \cup {w} /\ zombies' = [zombies EXCEPT ![w] = {}]
        /\ Calls(w, MailFd)
        /\ UNCHANGED <<masterVars, raw, lazy, moves, fails>>
    BY DEF SoftQuit
  <2> QED
    BY <2>1, <2>2, <2>3
<1>3. /\ mail' \in [Worker -> Seq(Mail)] /\ \A v \in Worker \ {w} : mail'[v] = mail[v]
      /\ mail'[w] = Tail(mail[w]) /\ Once(mail'[w])
      /\ \A m \in ToSet(mail'[w]) : IF m.client = Free THEN m = Softquitall
                                    ELSE m.room \in Worker \ {w}
  BY <1>1, <1>2, MailLess DEF AtWorker
<1>4. \A d \in Client : Waits(w, d)' => Waits(w, d)
  <2>1. AskedBy(Tail(mail[w])) \subseteq AskedBy(mail[w])
    <3>1. mail[w] \in Seq(Mail) /\ mail[w] # <<>>
      BY <1>1, <1>2 DEF TypeOK
    <3> QED
      BY <3>1, MailTail
  <2>2. AskedBy(mail'[w]) \subseteq AskedBy(mail[w])
    BY <1>3, <2>1
  <2> QED
    BY <2>2, WaitsAsked, WaitsAskedNext
<1>5. /\ turn[w] = "round" /\ due'[w] \subseteq due[w] \ {MailFd}
      /\ \A k \in due'[w] \cap Fd : reg'[w][k] = reg[w][k]
      /\ \A v \in Worker \ {w} : due'[v] = due[v] /\ turn'[v] = turn[v]
      /\ turn'[w] \in {"round", "zombie"}
      /\ due' \in [Worker -> SUBSET ({MailFd, RawFd} \cup Fd)]
      /\ turn' \in [Worker -> ToSet(Fibers) \cup {"round"}]
      /\ \A v \in Worker : turn'[v] = "round" <=> due'[v] # {}
  BY <1>1, <1>2, CallsEffect
<1>6. /\ obj \in [Worker -> [Client -> Object]] /\ zombies \in [Worker -> SUBSET Client]
      /\ quiting \subseteq Worker
  BY <1>1 DEF TypeOK
<1>7. ASSUME NEW c \in Client
      PROVE  /\ IF obj[w][c].live THEN obj[w][c].refs \in 1..2 ELSE obj[w][c] = NoObject
             /\ c \in zombies[w] => obj[w][c].live /\ ~Waits(w, c)
             /\ obj[w][c] \in Object
  BY <1>1, <1>6 DEF AtWorker, Objects
<1>8. ASSUME NEW c \in Client
      PROVE  /\ O[c] \in Object
             /\ c \in dead => O[c] = NoObject
             /\ ~obj[w][c].live => O[c] = obj[w][c]
             /\ obj[w][c].live /\ c \notin dead =>
                  /\ O[c].live /\ O[c].fd = INVALID_FD /\ O[c].state # {}
                  /\ IF c \in zombies[w] THEN O[c].refs = 1 ELSE O[c].refs = obj[w][c].refs
                  /\ "softquit" \in obj[w][c].state => "softquit" \in O[c].state
  <2>1. CASE c \in dead
    <3>1. O[c] = NoObject /\ NoObject \in Object
      BY <2>1 DEF NoObject, Object
    <3>2. obj[w][c].live
      BY <1>7, <2>1
    <3> QED
      BY <2>1, <3>1, <3>2
  <2>2. CASE c \notin dead /\ ~obj[w][c].live
    <3>1. O[c] = obj[w][c]
      BY <2>2
    <3> QED
      BY <1>7, <2>2, <3>1
  <2>3. CASE c \notin dead /\ obj[w][c].live
    <3>1. O[c] = Closed(Left(c))
      BY <2>3
    <3>2. obj[w][c] \in Object /\ obj[w][c].refs \in 1..2 /\ obj[w][c].live
      BY <1>7, <2>3
    <3>3. c \in zombies[w] => obj[w][c].refs = 2
      BY <2>3, <3>2
    <3> DEFINE o == obj[w][c]
               x == Left(c)
    <3>4. /\ x \in Object /\ x.live /\ x.state = o.state
          /\ IF c \in zombies[w] THEN x.refs = 1 ELSE x.refs = o.refs
      <4> HIDE DEF o
      <4>1. x = [o EXCEPT !.refs = IF c \in zombies[w] THEN o.refs - 1 ELSE o.refs]
        BY DEF o
      <4>2. o \in Object /\ o.refs \in 1..2 /\ o.live /\ (c \in zombies[w] => o.refs = 2)
        BY <3>2, <3>3 DEF o
      <4>3. CASE c \in zombies[w]
        <5>1. x = [o EXCEPT !.refs = 1]
          BY <4>1, <4>2, <4>3
        <5> HIDE DEF x
        <5> QED
          BY <4>2, <4>3, <5>1 DEF Object
      <4>4. CASE c \notin zombies[w]
        <5>1. x = [o EXCEPT !.refs = o.refs]
          BY <4>1, <4>4
        <5> HIDE DEF x
        <5> QED
          BY <4>2, <4>4, <5>1 DEF Object
      <4> QED
        BY <4>3, <4>4
    <3> HIDE DEF x
    <3>5. /\ Closed(x) \in Object /\ Closed(x).live = x.live /\ Closed(x).fd = INVALID_FD
          /\ Closed(x).refs = x.refs /\ Closed(x).state # {}
      BY <3>4, ClosedForm
    <3>6. "softquit" \in x.state => "softquit" \in Closed(x).state
      <4> SUFFICES ASSUME "softquit" \in x.state PROVE "softquit" \in Closed(x).state
        OBVIOUS
      <4>1. x.state \cap {"quit", "softquit"} # {}
        OBVIOUS
      <4> QED
        BY <3>4, <4>1 DEF Closed, Object
    <3>7. O[c] = Closed(x)
      BY <3>1 DEF x
    <3> HIDE DEF O, dead
    <3> QED
      BY <2>3, <3>4, <3>5, <3>6, <3>7
  <2> QED
    BY <2>1, <2>2, <2>3
<1>9. /\ reg' \in [Worker -> [Fd -> Client \cup {Free}]]
      /\ table' \in [Process -> [Fd -> Client \cup Ports \cup {Free}]]
      /\ \A v \in Worker \ {w} : reg'[v] = reg[v] /\ table'[v] = table[v]
      /\ table'[0] = table[0]
      /\ \A n \in Fd : reg'[w][n] = Free
      /\ \A n \in Fd : table'[w][n] \in {table[w][n], Free}
  <2>1. /\ reg' \in [Worker -> [Fd -> Client \cup {Free}]]
        /\ table' \in [Process -> [Fd -> Client \cup Ports \cup {Free}]]
        /\ \A v \in Worker \ {w} : reg'[v] = reg[v] /\ table'[v] = table[v]
        /\ table'[0] = table[0]
        /\ \A n \in Fd : reg'[w][n] = IF n \in {o.fd : o \in objects} THEN Free ELSE reg[w][n]
        /\ \A n \in Fd : table'[w][n] = IF n \in ClosedNumbers(objects) THEN Free ELSE table[w][n]
    <3> HIDE DEF objects
    <3> QED
      BY <1>1, <1>2, ClosesEffect
  <2>2. ASSUME NEW n \in Fd PROVE reg'[w][n] = Free
    <3>1. CASE reg[w][n] = Free
      BY <2>1, <3>1
    <3>2. CASE reg[w][n] # Free
      <4>1. PICK d \in Client : d = reg[w][n]
        BY <1>1, <3>2 DEF TypeOK
      <4>2. obj[w][d].live /\ obj[w][d].fd = n
        BY <1>1, <4>1 DEF AtWorker, Served
      <4>3. obj[w][d] \in objects
        BY <4>2
      <4>4. n \in {o.fd : o \in objects}
        BY <4>2, <4>3
      <4> QED
        BY <2>1, <4>4
    <3> QED
      BY <3>1, <3>2
  <2> HIDE DEF objects
  <2> QED
    BY <2>1, <2>2
<1> HIDE DEF objects, O, dead, kept, Left
<1>10. /\ \A c \in Client : obj'[w][c] = O[c]
       /\ \A v \in Worker \ {w} : obj'[v] = obj[v]
       /\ obj' \in [Worker -> [Client -> Object]]
  <2>1. O \in [Client -> Object]
    <3>1. O = [c \in Client |-> O[c]]
      BY DEF O
    <3> QED
      BY <1>8, <3>1
  <2> QED
    BY <1>2, <1>6, <2>1
<1>11. /\ zombies'[w] = {} /\ \A v \in Worker \ {w} : zombies'[v] = zombies[v]
       /\ zombies' \in [Worker -> SUBSET Client]
       /\ quiting' \subseteq Worker /\ w \in quiting'
       /\ \A v \in Worker \ {w} : v \in quiting' <=> v \in quiting
  BY <1>2, <1>6
<1>12. TypeOK'
  BY <1>1, <1>2, <1>3, <1>5, <1>9, <1>10, <1>11 DEF TypeOK, masterVars
<1>13. \A c \in zombies[w] : c \in Client
  BY <1>6
<1>14. \A c \in dead : c \in zombies[w]
  BY DEF dead
<1>15. AtWorker(w)'
  <2>1. Served(w)'
    BY <1>9, TransferAssumption DEF Served
  <2>2. Objects(w)'
    <3> SUFFICES ASSUME NEW d \in Client
                 PROVE  IF obj'[w][d].live THEN obj'[w][d].refs \in 1..2 ELSE obj'[w][d] = NoObject
      BY <1>11 DEF Objects
    <3>1. CASE d \in dead
      <4>1. obj'[w][d] = NoObject
        BY <1>8, <1>10, <3>1
      <4> QED
        BY <4>1 DEF NoObject
    <3>2. CASE d \notin dead /\ obj[w][d].live
      <4>1. obj'[w][d].live /\ obj'[w][d].refs \in {1, obj[w][d].refs}
        BY <1>8, <1>10, <3>2
      <4>2. obj[w][d].refs \in 1..2
        BY <1>7, <3>2
      <4> QED
        BY <4>1, <4>2
    <3>3. CASE ~obj[w][d].live
      BY <1>7, <1>8, <1>10, <3>3
    <3> QED
      BY <3>1, <3>2, <3>3
  <2>3. LazyOnes(w)'
    <3> SUFFICES ASSUME NEW x \in Client, lazy[w][x] # 0
                 PROVE  /\ lazy[w][x] = 1 /\ obj'[w][x].live /\ turn'[w] # "events" /\ ~Waits(w, x)'
                        /\ "softquit" \in obj'[w][x].state
                        /\ obj'[w][x].fd = INVALID_FD
      BY <1>2, <1>11 DEF LazyOnes
    <3>1. /\ lazy[w][x] = 1 /\ obj[w][x].live /\ ~Waits(w, x) /\ x \notin zombies[w]
          /\ "softquit" \in obj[w][x].state
      BY <1>1, <1>5 DEF AtWorker, LazyOnes
    <3> QED
      BY <1>4, <1>5, <1>8, <1>10, <1>14, <3>1
  <2>4. Waiting(w)'
    <3>1. ASSUME NEW d \in Client, Waits(w, d)'
          PROVE  /\ obj'[w][d].live /\ obj'[w][d].refs = 1 /\ lazy[w][d] = 0
                 /\ obj'[w][d].state # {} /\ obj'[w][d].fd = INVALID_FD
      <4>1. Waits(w, d)
        BY <1>4, <3>1
      <4>2. obj[w][d].live /\ obj[w][d].refs = 1 /\ lazy[w][d] = 0
        BY <1>1, <4>1 DEF AtWorker, Waiting
      <4>3. d \notin zombies[w] /\ d \notin dead
        BY <1>7, <1>14, <4>1
      <4> QED
        BY <1>8, <1>10, <4>2, <4>3
    <3> QED
      BY <1>2, <1>3, <3>1 DEF Waiting
  <2>5. Due(w)'
    <3>1. due'[w] \cap Fd = {}
      <4> SUFFICES ASSUME NEW k \in due'[w] \cap Fd PROVE FALSE
        OBVIOUS
      <4>1. k \in Ready(w) /\ reg'[w][k] = reg[w][k]
        BY <1>1, <1>5 DEF AtWorker, Due
      <4> QED
        BY <1>9, <4>1 DEF Ready
    <3> QED
      BY <1>1, <1>2, <1>5, <3>1 DEF AtWorker, Due
  <2>6. Kept(w)'
    BY <1>11 DEF Kept
  <2> QED
    BY <2>1, <2>2, <2>3, <2>4, <2>5, <2>6 DEF AtWorker
<1>16. \A d \in Client : Here(w, d)' => Here(w, d)
  BY <1>4, <1>9, <1>11, TransferAssumption DEF Here
<1>17. \A v \in Worker \ {w} : SameAt(v) /\ mail'[v] = mail[v]
  BY <1>2, <1>3, <1>5, <1>9, <1>10, <1>11 DEF SameAt
<1> QED
  BY <1>2, <1>9, <1>12, <1>15, <1>16, <1>17, QuietStep

\* pp_find_node: the slot of a pid that is in the table.
LEMMA SlotFound ==
  ASSUME NEW nid, NEW i \in Process, nodes[i] = nid
  PROVE  SlotOf(nid) \in Process /\ nodes[SlotOf(nid)] = nid
<1>0. N \in Nat
  BY Constants
<1> DEFINE Found == {j \in Process : nodes[j] = nid}
<1>1. Found \in SUBSET Nat /\ Found # {}
  BY <1>0 DEF Process
<1>2. PICK m \in Found : \A k \in Found : m <= k
  BY <1>1, LeastNatural
<1>3. m \in Process /\ nodes[m] = nid /\ \A j \in 0..(m - 1) : nodes[j] # nid
  BY <1>0, <1>2 DEF Process
<1> QED
  BY <1>3, Zenon DEF SlotOf

\* Whom the load balancer gives the next client to is a worker, never the master.
LEMMA NextWorker ==
  ASSUME Slots, NEW p \in Ports
  PROVE  /\ \E i \in Worker : Next_worker_nid(lb[p]) = nodes[i]
         /\ SlotOf(Next_worker_nid(lb[p])) \in Worker
<1>0. N \in Nat /\ N # 0
  BY Constants
<1>1. PICK i \in Process : lb[p] = nodes[i]
  BY DEF Slots
<1> DEFINE s == SlotOf(lb[p])
           next == (s + 1) % (N + 1)
           at == IF next = 0 THEN 1 ELSE next
<1>2. s \in Process
  BY <1>1, SlotFound
<1>3. at \in Worker
  <2> HIDE DEF s
  <2>1. next \in 0..N
    BY <1>0, <1>2 DEF Process
  <2> QED
    BY <1>0, <2>1 DEF Worker
<1>4. Next_worker_nid(lb[p]) = nodes[at]
  BY DEF Next_worker_nid
<1> HIDE DEF at
<1>5. nodes[at] # 1 /\ nodes[0] = 1
  BY <1>0, <1>3 DEF Slots, Worker
<1>6. SlotOf(nodes[at]) \in Process /\ nodes[SlotOf(nodes[at])] = nodes[at]
  BY <1>3, Constants, SlotFound
<1> DEFINE t == SlotOf(nodes[at])
<1>7. t \in Process /\ t # 0
  BY <1>5, <1>6
<1> HIDE DEF t
<1>8. t \in Worker
  BY <1>0, <1>7 DEF Process, Worker
<1> QED
  BY <1>3, <1>4, <1>8 DEF t

\* What a step of the master has to keep.
LEMMA MasterStep ==
  ASSUME DescriptorInv, TypeOK', Slots', Listeners', Sole', HereOnly',
         \A v \in Worker :
           /\ SameAt(v) /\ mail'[v] \in {mail[v], Append(mail[v], Softquitall)}
           /\ raw[v] # <<>> => raw'[v] # <<>> /\ Head(raw'[v]) = Head(raw[v]),
         fails \subseteq fails', AtMaster'
  PROVE  DescriptorInv'
<1>1. ASSUME NEW v \in Worker PROVE AtWorker(v)'
  BY Frame DEF DescriptorInv
<1> QED
  BY <1>1 DEF DescriptorInv

\* The accept of the master: the socket goes to a worker, or stays under a number that
\* nobody knows when the send fails.
LEMMA AcceptKeeps ==
  ASSUME DescriptorInv, NEW p \in Ports, Accept(p)
  PROVE  DescriptorInv'
<1>1. TypeOK /\ Slots /\ Listeners /\ Sole /\ HereOnly
  BY DEF DescriptorInv
<1> DEFINE nid == Next_worker_nid(lb[p])
<1>2. PICK c \in new, w \in Worker :
        /\ new' = new \ {c} /\ lb' = [lb EXCEPT ![p] = nid]
        /\ passed' = [passed EXCEPT ![p][w] = @ + 1]
        /\ \/ RawSends(w, c) /\ UNCHANGED table
           \/ RawFails(c) /\ table' = [table EXCEPT ![0][Lowest(table[0])] = c]
        /\ UNCHANGED <<opened, nodes, tcp_sockets, stopped, mail, turn, due, reg, obj, lazy, zombies,
                       quiting, moves>>
  <2> DEFINE a == CHOOSE a \in new : PortOf[a] = p
  <2>1. a \in new
    BY DEF Accept
  <2>2. SlotOf(nid) \in Worker
    BY <1>1, NextWorker
  <2>3. /\ new' = new \ {a} /\ lb' = [lb EXCEPT ![p] = nid]
        /\ passed' = [passed EXCEPT ![p][SlotOf(nid)] = @ + 1]
        /\ \/ RawSends(SlotOf(nid), a) /\ UNCHANGED table
           \/ RawFails(a) /\ table' = [table EXCEPT ![0][Lowest(table[0])] = a]
        /\ UNCHANGED <<opened, nodes, tcp_sockets, stopped, mail, turn, due, reg, obj, lazy, zombies,
                       quiting, moves>>
    BY DEF Accept, fiberVars
  <2> HIDE DEF a, nid
  <2> QED
    BY <2>1, <2>2, <2>3
<1>3. PICK i \in Worker : nid = nodes[i]
  BY <1>1, NextWorker
<1> HIDE DEF nid
<1>4. /\ c \in Client /\ c # Free /\ c \notin Ports
      /\ \A v \in Worker : c \notin ToSet(raw[v])
      /\ \A q \in Process, n \in Fd : table[q][n] # c
  <2>1. c \in Client
    BY <1>1 DEF TypeOK
  <2> QED
    BY <1>1, <2>1, TransferAssumption DEF Sole
<1>5. /\ lb' \in [Ports -> 0..(N + 1)] /\ Slots'
  <2>1. nodes[i] \in 0..(N + 1) /\ i \in Process /\ lb \in [Ports -> 0..(N + 1)]
    BY <1>1, Constants DEF TypeOK
  <2>2. lb' \in [Ports -> 0..(N + 1)] /\ lb'[p] = nodes[i] /\ \A q \in Ports \ {p} : lb'[q] = lb[q]
    BY <1>2, <1>3, <2>1
  <2> QED
    BY <1>1, <1>2, <2>1, <2>2 DEF Slots
<1>6. passed' \in [Ports -> [Worker -> Nat]]
  <2>1. passed \in [Ports -> [Worker -> Nat]]
    BY <1>1 DEF TypeOK
  <2> DEFINE k == passed[p][w] + 1
             R == [passed[p] EXCEPT ![w] = k]
  <2>2. k \in Nat
    BY <2>1
  <2>3. passed' = [passed EXCEPT ![p] = R]
    BY <1>2
  <2> HIDE DEF k
  <2>4. R \in [Worker -> Nat]
    BY <2>1, <2>2
  <2> HIDE DEF R
  <2> QED
    BY <2>1, <2>3, <2>4
<1>7. \A v \in Worker, d \in Client : Here(v, d)' <=> Here(v, d)
  BY <1>2 DEF Here, Waits
<1>8. \A v \in Worker, d \in Client : Here(v, d) => d # c
  BY <1>1, <1>2 DEF HereOnly
<1>9. CASE RawSends(w, c) /\ UNCHANGED table
  <2>1. /\ raw' \in [Worker -> Seq(Client)]
        /\ \A v \in Worker : Len(raw'[v]) <= RawCapacity[v]
        /\ \A v \in Worker \ {w} : raw'[v] = raw[v]
        /\ ToSet(raw'[w]) = ToSet(raw[w]) \cup {c}
        /\ raw'[w] # <<>> /\ (raw[w] # <<>> => Head(raw'[w]) = Head(raw[w]))
    BY <1>1, <1>4, <1>9, Sends
  <2>2. fails' = fails /\ table' = table
    BY <1>9 DEF RawSends
  <2>3. TypeOK'
    BY <1>1, <1>2, <1>5, <1>6, <2>1, <2>2 DEF TypeOK
  <2>4. Sole'
    <3>1. new' \subseteq new \ {c}
      BY <1>2
    <3>2. \A q \in Process, n \in Fd : table'[q][n] \in {table[q][n], Free} /\ table'[q][n] # c
      BY <1>4, <2>2
    <3> QED
      BY <1>1, <1>4, <1>9, <3>1, <3>2, SoleSent
  <2>5. HereOnly'
    <3> SUFFICES ASSUME NEW v \in Worker, NEW d \in Client, Here(v, d)'
                 PROVE  /\ d \notin new'
                        /\ \A u \in Worker : d \notin ToSet(raw'[u]) /\ (Here(u, d)' => u = v)
                        /\ \A q \in Process, k \in Fd : table'[q][k] = d => q = v
      BY DEF HereOnly
    <3>1. Here(v, d) /\ d # c
      BY <1>7, <1>8
    <3>2. /\ d \notin new
          /\ \A u \in Worker : d \notin ToSet(raw[u]) /\ (Here(u, d) => u = v)
          /\ \A q \in Process, k \in Fd : table[q][k] = d => q = v
      BY <1>1, <3>1 DEF HereOnly
    <3>3. \A u \in Worker : ToSet(raw'[u]) \subseteq ToSet(raw[u]) \cup {c}
      BY <2>1
    <3> QED
      BY <1>2, <1>7, <2>2, <3>1, <3>2, <3>3
  <2>6. Listeners'
    <3>1. \A q \in Ports : Listening(q)' <=> Listening(q)
      BY <2>2 DEF Listening
    <3>2. StoppedListens'
      BY <1>1, <1>2, <3>1 DEF Listeners, StoppedListens
    <3> QED
      BY <1>1, <1>2, <2>2, <3>2 DEF Listeners
  <2>7. ASSUME NEW v \in Worker
        PROVE  /\ SameAt(v) /\ mail'[v] = mail[v]
               /\ raw[v] # <<>> => raw'[v] # <<>> /\ Head(raw'[v]) = Head(raw[v])
    <3>1. SameAt(v) /\ mail'[v] = mail[v]
      BY <1>2, <2>2 DEF SameAt
    <3> QED
      BY <2>1, <3>1
  <2>8. AtMaster'
    BY <2>2 DEF DescriptorInv, AtMaster
  <2> QED
    BY <1>5, <2>2, <2>3, <2>4, <2>5, <2>6, <2>7, <2>8, MasterStep
<1>10. CASE RawFails(c) /\ table' = [table EXCEPT ![0][Lowest(table[0])] = c]
  <2>1. PICK l \in Fd : l = Lowest(table[0]) /\ table[0][l] = Free
    <3>1. /\ table[0] \in [Fd -> Client \cup Ports \cup {Free}]
          /\ \A n \in Fd : table[0][n] # c
          /\ \A m, n \in Fd : table[0][m] = table[0][n] /\ table[0][m] # Free => m = n
      BY <1>1, <1>4, Constants DEF TypeOK, Sole
    <3> QED
      BY <1>4, <3>1, LowestFree
  <2>2. /\ table' \in [Process -> [Fd -> Client \cup Ports \cup {Free}]]
        /\ \A q \in Process \ {0} : table'[q] = table[q]
        /\ table'[0][l] = c /\ \A n \in Fd \ {l} : table'[0][n] = table[0][n]
    <3>1. table \in [Process -> [Fd -> Client \cup Ports \cup {Free}]] /\ 0 \in Process
      BY <1>1, Constants DEF TypeOK
    <3> QED
      BY <1>4, <1>10, <2>1, <3>1
  <2>3. raw' = raw /\ fails' = fails \cup {c} /\ fails' \subseteq Client \cup Ports
    BY <1>1, <1>4, <1>10 DEF RawFails, Fails, TypeOK
  <2>4. TypeOK'
    BY <1>1, <1>2, <1>5, <1>6, <2>2, <2>3 DEF TypeOK
  <2>5. \A q \in Process, n \in Fd :
          IF q = 0 /\ n = l THEN table'[q][n] = c ELSE table'[q][n] = table[q][n]
    BY <2>2
  <2>6. Sole'
    <3>1. \A q, r \in Process, m, n \in Fd :
            table'[q][m] = table'[r][n] /\ table'[q][m] # Free => q = r /\ m = n
      <4>0. \A q, r \in Process, m, n \in Fd :
              table[q][m] = table[r][n] /\ table[q][m] # Free => q = r /\ m = n
        BY <1>1 DEF Sole
      <4> SUFFICES ASSUME NEW q \in Process, NEW r \in Process, NEW m \in Fd, NEW n \in Fd,
                          table'[q][m] = table'[r][n], table'[q][m] # Free
                   PROVE  q = r /\ m = n
        OBVIOUS
      <4>1. CASE q = 0 /\ m = l
        BY <1>4, <2>5, <4>1
      <4>2. CASE r = 0 /\ n = l
        BY <1>4, <2>5, <4>2
      <4>3. CASE ~(q = 0 /\ m = l) /\ ~(r = 0 /\ n = l)
        <5>1. table'[q][m] = table[q][m] /\ table'[r][n] = table[r][n]
          BY <2>5, <4>3
        <5>2. table[q][m] = table[r][n] /\ table[q][m] # Free
          BY <5>1
        <5> QED
          BY <4>0, <5>2
      <4> QED
        BY <4>1, <4>2, <4>3
    <3>2. \A v \in Worker : IsInjective(raw'[v])
      BY <1>1, <2>3 DEF Sole
    <3>3. \A u, v \in Worker : u # v => ToSet(raw'[u]) \cap ToSet(raw'[v]) = {}
      BY <1>1, <2>3 DEF Sole
    <3>4. \A q \in Process, n \in Fd, v \in Worker : table'[q][n] \notin ToSet(raw'[v])
      <4>1. \A q \in Process, n \in Fd, v \in Worker : table[q][n] \notin ToSet(raw[v])
        BY <1>1 DEF Sole
      <4> QED
        BY <1>4, <2>3, <2>5, <4>1
    <3>5. \A q \in Process, n \in Fd : table'[q][n] \notin new'
      <4>1. \A q \in Process, n \in Fd : table[q][n] \notin new
        BY <1>1 DEF Sole
      <4>2. c \notin new' /\ new' \subseteq new
        BY <1>2
      <4> QED
        BY <2>5, <4>1, <4>2
    <3>6. \A v \in Worker : ToSet(raw'[v]) \cap new' = {}
      BY <1>1, <1>2, <2>3 DEF Sole
    <3> QED
      BY <3>1, <3>2, <3>3, <3>4, <3>5, <3>6 DEF Sole
  <2>7. HereOnly'
    <3> SUFFICES ASSUME NEW v \in Worker, NEW d \in Client, Here(v, d)'
                 PROVE  /\ d \notin new'
                        /\ \A u \in Worker : d \notin ToSet(raw'[u]) /\ (Here(u, d)' => u = v)
                        /\ \A q \in Process, k \in Fd : table'[q][k] = d => q = v
      BY DEF HereOnly
    <3>1. Here(v, d) /\ d # c
      BY <1>7, <1>8
    <3>2. /\ d \notin new
          /\ \A u \in Worker : d \notin ToSet(raw[u]) /\ (Here(u, d) => u = v)
          /\ \A q \in Process, k \in Fd : table[q][k] = d => q = v
      BY <1>1, <3>1 DEF HereOnly
    <3> QED
      BY <1>2, <1>7, <2>3, <2>5, <3>1, <3>2
  <2>8. Listeners'
    <3>1. \A q \in Ports, n \in Fd : table'[0][n] = q => table[0][n] = q
      BY <1>4, <2>2
    <3>2. \A q \in Ports : Listening(q)' => Listening(q)
      BY <3>1 DEF Listening
    <3>3. StoppedListens'
      BY <1>1, <1>2, <3>2 DEF Listeners, StoppedListens
    <3>4. \A v \in Worker, n \in Fd : table'[v][n] \notin Ports
      BY <1>1, <2>2, Constants DEF Listeners
    <3> QED
      BY <1>1, <1>2, <3>1, <3>3, <3>4 DEF Listeners
  <2>9. \A v \in Worker : SameAt(v) /\ mail'[v] = mail[v]
    BY <1>2, <2>2, Constants DEF SameAt
  <2>10. AtMaster'
    BY <2>2, <2>3 DEF DescriptorInv, AtMaster
  <2> QED
    BY <1>5, <2>3, <2>4, <2>6, <2>7, <2>8, <2>9, <2>10, MasterStep
<1> QED
  BY <1>2, <1>9, <1>10

\* accept fails: the listener is closed.
LEMMA AcceptFailsKeeps ==
  ASSUME DescriptorInv, NEW p \in Ports, AcceptFails(p)
  PROVE  DescriptorInv'
<1>1. TypeOK /\ Slots /\ Listeners /\ Sole /\ HereOnly
  BY DEF DescriptorInv
<1> DEFINE T == [n \in Fd |-> IF table[0][n] = p THEN Free ELSE table[0][n]]
<1>2. /\ fails' = fails \cup {p} /\ table' = [table EXCEPT ![0] = T]
      /\ UNCHANGED <<opened, nodes, lb, tcp_sockets, stopped, new, passed, raw, mail, turn, due, reg,
                     obj, lazy, zombies, quiting, moves>>
  BY DEF AcceptFails, Fails, masterVars, fiberVars
<1>3. /\ table' \in [Process -> [Fd -> Client \cup Ports \cup {Free}]]
      /\ \A q \in Process \ {0} : table'[q] = table[q]
      /\ \A n \in Fd : table'[0][n] \in {table[0][n], Free}
  <2>1. table \in [Process -> [Fd -> Client \cup Ports \cup {Free}]] /\ 0 \in Process
    BY <1>1, Constants DEF TypeOK
  <2>2. T \in [Fd -> Client \cup Ports \cup {Free}] /\ \A n \in Fd : T[n] \in {table[0][n], Free}
    BY <2>1
  <2> HIDE DEF T
  <2> QED
    BY <1>2, <2>1, <2>2
<1>4. fails' \subseteq Client \cup Ports
  BY <1>1, <1>2 DEF TypeOK
<1>5. TypeOK'
  BY <1>1, <1>2, <1>3, <1>4 DEF TypeOK
<1>6. \A q \in Process, n \in Fd : table'[q][n] \in {table[q][n], Free}
  BY <1>3
<1>7. Sole'
  BY <1>1, <1>2, <1>6, SoleFreed DEF TypeOK
<1>8. HereOnly'
  <2>1. \A v \in Worker, c \in Client : Here(v, c)' => Here(v, c)
    BY <1>2 DEF Here, Waits
  <2> QED
    BY <1>1, <1>2, <1>6, <2>1, HereLess
<1>9. Slots'
  BY <1>1, <1>2 DEF Slots
<1>10. Listeners'
  <2>1. \A q \in Ports, n \in Fd : table'[0][n] = q => table[0][n] = q
    BY <1>3, TransferAssumption
  <2>2. \A q \in Ports : Listening(q)' => Listening(q)
    BY <2>1 DEF Listening
  <2>3. StoppedListens'
    BY <1>1, <1>2, <2>2 DEF Listeners, StoppedListens
  <2>4. \A v \in Worker, n \in Fd : table'[v][n] \notin Ports
    BY <1>1, <1>3, Constants DEF Listeners
  <2> QED
    BY <1>1, <1>2, <2>1, <2>3, <2>4 DEF Listeners
<1>11. \A v \in Worker : SameAt(v) /\ mail'[v] = mail[v]
  BY <1>2, <1>3, Constants DEF SameAt
<1>12. AtMaster'
  BY <1>2, <1>3, TransferAssumption DEF DescriptorInv, AtMaster
<1> QED
  BY <1>2, <1>4, <1>5, <1>7, <1>8, <1>9, <1>10, <1>11, <1>12, MasterStep

\* The master is told to quit softly: it closes its listeners, up to the first port
\* without a socket, and tells the workers.
LEMMA SoftQuitAllKeeps ==
  ASSUME DescriptorInv, SoftQuitAll
  PROVE  DescriptorInv'
<1>1. TypeOK /\ Slots /\ Listeners /\ Sole /\ HereOnly
  BY DEF DescriptorInv
<1> DEFINE T == [n \in Fd |-> IF \E p \in Ports : Reached(p) /\ tcp_sockets[p] = n
                              THEN Free ELSE table[0][n]]
<1>2. /\ ~stopped /\ stopped' = TRUE /\ table' = [table EXCEPT ![0] = T]
      /\ tcp_sockets' = [p \in Ports |-> IF Reached(p) THEN -1 ELSE tcp_sockets[p]]
      /\ mail' = [w \in Worker |-> IF nodes[w] = 0 THEN mail[w] ELSE Append(mail[w], Softquitall)]
      /\ UNCHANGED <<opened, nodes, lb, new, passed, raw, turn, due, reg, obj, lazy, zombies, quiting,
                     moves, fails>>
  BY DEF SoftQuitAll, fiberVars
<1>3. /\ table' \in [Process -> [Fd -> Client \cup Ports \cup {Free}]]
      /\ \A q \in Process \ {0} : table'[q] = table[q]
      /\ \A n \in Fd : /\ table'[0][n] \in {table[0][n], Free}
                       /\ table'[0][n] # Free => ~ \E p \in Ports : Reached(p) /\ tcp_sockets[p] = n
  <2>1. table \in [Process -> [Fd -> Client \cup Ports \cup {Free}]] /\ 0 \in Process
    BY <1>1, Constants DEF TypeOK
  <2>2. /\ T \in [Fd -> Client \cup Ports \cup {Free}]
        /\ \A n \in Fd : /\ T[n] \in {table[0][n], Free}
                         /\ T[n] # Free => ~ \E p \in Ports : Reached(p) /\ tcp_sockets[p] = n
    BY <2>1
  <2> HIDE DEF T
  <2> QED
    BY <1>2, <2>1, <2>2
<1>4. /\ mail' \in [Worker -> Seq(Mail)]
      /\ \A v \in Worker : /\ mail'[v] \in {mail[v], Append(mail[v], Softquitall)}
                           /\ AskedBy(mail'[v]) = AskedBy(mail[v])
  <2>1. Softquitall \in Mail /\ Softquitall.client = Free /\ mail \in [Worker -> Seq(Mail)]
    <3>1. Softquitall \in Mail
      BY Constants DEF Softquitall, Mail
    <3>2. Softquitall.client = Free
      BY DEF Softquitall
    <3> QED
      BY <1>1, <3>1, <3>2 DEF TypeOK
  <2>2. ASSUME NEW v \in Worker
        PROVE  /\ Append(mail[v], Softquitall) \in Seq(Mail)
               /\ AskedBy(Append(mail[v], Softquitall)) = AskedBy(mail[v])
    <3> DEFINE r == Append(mail[v], Softquitall)
    <3>1. mail[v] \in Seq(Mail)
      BY <2>1
    <3>2. r \in Seq(Mail) /\ AskedBy(r) = AskedBy(mail[v]) \cup ({Softquitall.client} \ {Free})
      BY <2>1, <3>1, MailAppend
    <3> HIDE DEF r
    <3>3. AskedBy(r) = AskedBy(mail[v])
      BY <2>1, <3>2
    <3> QED
      BY <3>2, <3>3 DEF r
  <2>3. ASSUME NEW v \in Worker
        PROVE  mail'[v] = IF nodes[v] = 0 THEN mail[v] ELSE Append(mail[v], Softquitall)
    BY <1>2
  <2>4. ASSUME NEW v \in Worker
        PROVE  /\ mail'[v] \in Seq(Mail)
               /\ mail'[v] \in {mail[v], Append(mail[v], Softquitall)}
               /\ AskedBy(mail'[v]) = AskedBy(mail[v])
    <3>1. CASE nodes[v] = 0
      <4>1. mail'[v] = mail[v]
        BY <2>3, <3>1
      <4> QED
        BY <2>1, <4>1
    <3>2. CASE nodes[v] # 0
      <4>1. mail'[v] = Append(mail[v], Softquitall)
        BY <2>3, <3>2
      <4> QED
        BY <2>2, <4>1
    <3> QED
      BY <3>1, <3>2
  <2>5. mail' = [v \in Worker |-> mail'[v]]
    BY <1>2
  <2> QED
    BY <2>4, <2>5
<1>5. tcp_sockets' \in [Ports -> Fd \cup {-1}]
  <2>1. tcp_sockets \in [Ports -> Fd \cup {-1}]
    BY <1>1 DEF TypeOK
  <2> QED
    BY <1>2, <2>1
<1>6. TypeOK'
  <2>1. stopped' \in BOOLEAN
    BY <1>2
  <2> QED
    BY <1>1, <1>2, <1>3, <1>4, <1>5, <2>1 DEF TypeOK
<1>7. \A q \in Process, n \in Fd : table'[q][n] \in {table[q][n], Free}
  BY <1>3
<1>8. Sole'
  BY <1>1, <1>2, <1>7, SoleFreed DEF TypeOK
<1>9. HereOnly'
  <2>1. \A v \in Worker, c \in Client : Waits(v, c)' <=> Waits(v, c)
    BY <1>4, WaitsAsked, WaitsAskedNext
  <2>2. \A v \in Worker, c \in Client : Here(v, c)' => Here(v, c)
    BY <1>2, <2>1 DEF Here
  <2> QED
    BY <1>1, <1>2, <1>7, <2>2, HereLess
<1>10. Slots'
  BY <1>1, <1>2 DEF Slots
<1>11. Listeners'
  <2>1. StoppedListens'
    <3> SUFFICES ASSUME NEW p \in Ports, Listening(p)'
                 PROVE  \E q \in 1..(p - 1) : opened[q] = "nosocket"
      BY <1>2 DEF StoppedListens
    <3>1. PICK n \in Fd : table'[0][n] = p
      BY DEF Listening
    <3>2. table[0][n] = p /\ ~ (Reached(p) /\ tcp_sockets[p] = n)
      BY <1>3, <3>1, TransferAssumption
    <3>3. /\ tcp_sockets[p] = n
          /\ \A q \in Ports : tcp_sockets[q] = INVALID_FD => opened[q] = "nosocket"
      BY <1>1, <1>2, <3>2 DEF Listeners
    <3>4. n # INVALID_FD
      BY Constants
    <3>5. PICK q \in 1..p : tcp_sockets[q] = -1
      BY <3>2, <3>3 DEF Reached
    <3>6. p \in Nat /\ p <= P /\ P \in Nat
      BY Constants DEF Ports
    <3>7. q # p
      BY <3>3, <3>4, <3>5 DEF INVALID_FD
    <3>8. q \in 1..(p - 1) /\ q \in Ports
      BY <3>6, <3>7 DEF Ports
    <3>9. opened[q] = "nosocket"
      BY <3>3, <3>5, <3>8 DEF INVALID_FD
    <3> QED
      BY <3>8, <3>9
  <2>2. \A v \in Worker, n \in Fd : table'[v][n] \notin Ports
    BY <1>1, <1>3, Constants DEF Listeners
  <2> QED
    BY <1>2, <2>1, <2>2 DEF Listeners
<1>12. ASSUME NEW v \in Worker
       PROVE  SameAt(v) /\ mail'[v] \in {mail[v], Append(mail[v], Softquitall)}
  <2>1. SameAt(v)
    BY <1>2, <1>3, Constants DEF SameAt
  <2> QED
    BY <1>4, <2>1
<1>13. AtMaster'
  BY <1>2, <1>3, TransferAssumption DEF DescriptorInv, AtMaster
<1> QED
  BY <1>2, <1>6, <1>8, <1>9, <1>10, <1>11, <1>12, <1>13, MasterStep
-----------------------------------------------------------------------------
\* The ports as they are opened one after the other (Started).
Unopened == [sockets |-> [q \in Ports |-> -1], numbers |-> [n \in Fd |-> Free]]
\* What port p does to the sockets and the numbers (on_tcp_conn).
Opens(outcome, s, p) ==
  CASE outcome[p] = "nosocket" -> s
    [] outcome[p] = "nobind" -> [s EXCEPT !.sockets[p] = Lowest(s.numbers)]
    [] OTHER -> [s EXCEPT !.sockets[p] = Lowest(s.numbers), !.numbers[Lowest(s.numbers)] = p]
\* The states that the first n ports go through.
Opening(outcome, n, f) ==
  f = [p \in 0..n |-> IF p = 0 THEN Unopened ELSE Opens(outcome, f[p - 1], p)]

\* There is such a function for each number of ports, so the recursive one exists.
LEMMA OpeningExists ==
  ASSUME NEW outcome, NEW n \in Nat
  PROVE  \E f : Opening(outcome, n, f)
<1> DEFINE Bad == {m \in Nat : ~\E f : Opening(outcome, m, f)}
<1>1. SUFFICES ASSUME Bad # {} PROVE FALSE
  OBVIOUS
<1>2. PICK m \in Bad : \A k \in Bad : m <= k
  BY <1>1, LeastNatural
<1>3. CASE m = 0
  <2> DEFINE f == [k \in 0..0 |-> Unopened]
  <2>1. Opening(outcome, 0, f)
    BY DEF Opening
  <2> QED
    BY <1>3, <2>1
<1>4. CASE m # 0
  <2>1. m - 1 \in Nat /\ m - 1 \notin Bad
    BY <1>2, <1>4
  <2>2. PICK f : Opening(outcome, m - 1, f)
    BY <2>1
  <2> DEFINE g == [k \in 0..m |-> IF k = m THEN Opens(outcome, f[m - 1], m) ELSE f[k]]
  <2>3. ASSUME NEW k \in 0..m
        PROVE  g[k] = IF k = 0 THEN Unopened ELSE Opens(outcome, g[k - 1], k)
    <3>1. k = m => g[k - 1] = f[m - 1]
      BY <1>4, <2>1
    <3>2. k # m => k \in 0..(m - 1) /\ g[k] = f[k] /\ (k # 0 => g[k - 1] = f[k - 1])
      BY <1>4, <2>1
    <3> HIDE DEF g
    <3>3. CASE k = m
      BY <1>4, <3>1, <3>3 DEF g
    <3>4. CASE k # m
      BY <2>2, <3>2, <3>4 DEF Opening
    <3> QED
      BY <3>3, <3>4
  <2>4. g = [k \in 0..m |-> g[k]]
    OBVIOUS
  <2> HIDE DEF g
  <2>5. Opening(outcome, m, g)
    BY <2>3, <2>4 DEF Opening
  <2> QED
    BY <1>2, <2>5
<1> QED
  BY <1>3, <1>4

\* What Started gives is what the ports leave when they are opened one after the other.
LEMMA StartedOpens ==
  ASSUME NEW outcome
  PROVE  \E f : Opening(outcome, P, f) /\ Started(outcome) = f[P]
<1> DEFINE f == CHOOSE h : Opening(outcome, P, h)
<1>1. Opening(outcome, P, f)
  BY OpeningExists, Constants
<1>2. Started(outcome) = f[P]
  BY DEF Started, Opening, Opens, Unopened
<1> HIDE DEF f
<1> QED
  BY <1>1, <1>2

\* When p ports were opened: each that listens does so under the number kept for it,
\* and one of the first p numbers.
Opened(outcome, s, p) ==
  /\ s \in [sockets : [Ports -> Fd \cup {-1}], numbers : [Fd -> Ports \cup {Free}]]
  /\ \A n \in Fd : s.numbers[n] # Free =>
       s.numbers[n] <= p /\ n <= p /\ s.sockets[s.numbers[n]] = n
  /\ \A q \in Ports : q <= p /\ s.sockets[q] = -1 => outcome[q] = "nosocket"

\* Opening one more port takes the lowest free number, one of the first p.
LEMMA OpensNext ==
  ASSUME NEW outcome, NEW s, NEW p \in Ports, Opened(outcome, s, p - 1)
  PROVE  Opened(outcome, Opens(outcome, s, p), p)
<1>1. /\ P \in Nat /\ MaxFd \in Nat /\ MaxFd >= P /\ p \in Nat /\ p # 0 /\ p <= P
      /\ Ports \subseteq Nat /\ Free \notin Ports
  BY Constants, TransferAssumption DEF Ports
<1>2. /\ s \in [sockets : [Ports -> Fd \cup {-1}], numbers : [Fd -> Ports \cup {Free}]]
      /\ \A n \in Fd : s.numbers[n] # Free =>
           s.numbers[n] <= p - 1 /\ n <= p - 1 /\ s.sockets[s.numbers[n]] = n
      /\ \A q \in Ports : q <= p - 1 /\ s.sockets[q] = -1 => outcome[q] = "nosocket"
  BY DEF Opened
<1> DEFINE l == Lowest(s.numbers)
<1>3. l \in Fd /\ s.numbers[l] = Free /\ l <= p
  <2>1. p \in Fd
    BY <1>1 DEF Fd
  <2>2. s.numbers[p] = Free
    BY <1>1, <1>2, <2>1
  <2> QED
    BY <2>1, <2>2, LowestLeast
<1>4. l \in Nat /\ l # -1 /\ \A n \in Fd : n \in Nat
  BY <1>1, <1>3 DEF Fd
<1> DEFINE a == [s.sockets EXCEPT ![p] = l]
           b == [s.numbers EXCEPT ![l] = p]
<1> HIDE DEF l
<1>5. /\ a \in [Ports -> Fd \cup {-1}] /\ a[p] = l /\ \A q \in Ports \ {p} : a[q] = s.sockets[q]
      /\ b \in [Fd -> Ports \cup {Free}] /\ b[l] = p /\ \A n \in Fd \ {l} : b[n] = s.numbers[n]
  BY <1>2, <1>3
<1>6. CASE outcome[p] = "nosocket"
  <2>1. Opens(outcome, s, p) = s
    BY <1>6 DEF Opens
  <2>2. Opened(outcome, s, p)
    <3>1. \A n \in Fd : s.numbers[n] # Free =>
            s.numbers[n] <= p /\ n <= p /\ s.sockets[s.numbers[n]] = n
      <4> SUFFICES ASSUME NEW n \in Fd, s.numbers[n] # Free
                   PROVE  s.numbers[n] <= p /\ n <= p /\ s.sockets[s.numbers[n]] = n
        OBVIOUS
      <4>1. s.numbers[n] \in Ports /\ s.numbers[n] <= p - 1 /\ n <= p - 1 /\ s.sockets[s.numbers[n]] = n
        BY <1>2
      <4>2. s.numbers[n] \in Nat /\ n \in Nat
        BY <1>1, <1>4, <4>1
      <4>3. s.numbers[n] <= p /\ n <= p
        BY <1>1, <4>1, <4>2
      <4> QED
        BY <4>1, <4>3
    <3>2. \A q \in Ports : q <= p /\ s.sockets[q] = -1 => outcome[q] = "nosocket"
      <4> SUFFICES ASSUME NEW q \in Ports, q <= p, s.sockets[q] = -1 PROVE outcome[q] = "nosocket"
        OBVIOUS
      <4>1. q = p \/ q <= p - 1
        BY <1>1
      <4> QED
        BY <1>2, <1>6, <4>1
    <3> QED
      BY <1>2, <3>1, <3>2 DEF Opened
  <2> QED
    BY <2>1, <2>2
<1>7. CASE outcome[p] = "nobind"
  <2> DEFINE t == [s EXCEPT !.sockets = a]
  <2>1. Opens(outcome, s, p) = t
    BY <1>7 DEF Opens, l
  <2> HIDE DEF a
  <2>2. /\ t \in [sockets : [Ports -> Fd \cup {-1}], numbers : [Fd -> Ports \cup {Free}]]
        /\ t.sockets = a /\ t.numbers = s.numbers
    BY <1>2, <1>5
  <2> HIDE DEF t
  <2>3. \A n \in Fd : s.numbers[n] # Free =>
          s.numbers[n] <= p /\ n <= p /\ a[s.numbers[n]] = n
    <3> SUFFICES ASSUME NEW n \in Fd, s.numbers[n] # Free
                 PROVE  s.numbers[n] <= p /\ n <= p /\ a[s.numbers[n]] = n
      OBVIOUS
    <3>1. s.numbers[n] \in Ports /\ s.numbers[n] <= p - 1 /\ n <= p - 1 /\ s.sockets[s.numbers[n]] = n
      BY <1>2
    <3>2. s.numbers[n] \in Nat /\ n \in Nat
      BY <1>1, <1>4, <3>1
    <3>3. s.numbers[n] <= p /\ n <= p /\ s.numbers[n] # p
      BY <1>1, <3>1, <3>2
    <3> QED
      BY <1>5, <3>1, <3>3
  <2>4. \A q \in Ports : q <= p /\ a[q] = -1 => outcome[q] = "nosocket"
    <3> SUFFICES ASSUME NEW q \in Ports, q <= p, a[q] = -1 PROVE outcome[q] = "nosocket"
      OBVIOUS
    <3>1. q # p /\ s.sockets[q] = -1
      BY <1>4, <1>5
    <3>2. q <= p - 1
      BY <1>1, <3>1
    <3> QED
      BY <1>2, <3>1, <3>2
  <2> QED
    BY <2>1, <2>2, <2>3, <2>4 DEF Opened
<1>8. CASE outcome[p] # "nosocket" /\ outcome[p] # "nobind"
  <2> DEFINE t == [s EXCEPT !.sockets = a, !.numbers = b]
  <2>1. Opens(outcome, s, p) = t
    BY <1>8 DEF Opens, l
  <2> HIDE DEF a, b
  <2>2. /\ t \in [sockets : [Ports -> Fd \cup {-1}], numbers : [Fd -> Ports \cup {Free}]]
        /\ t.sockets = a /\ t.numbers = b
    BY <1>2, <1>5
  <2> HIDE DEF t
  <2>3. \A n \in Fd : b[n] # Free => b[n] <= p /\ n <= p /\ a[b[n]] = n
    <3> SUFFICES ASSUME NEW n \in Fd, b[n] # Free PROVE b[n] <= p /\ n <= p /\ a[b[n]] = n
      OBVIOUS
    <3>1. CASE n = l
      BY <1>1, <1>3, <1>5, <3>1
    <3>2. CASE n # l
      <4>1. b[n] = s.numbers[n] /\ s.numbers[n] # Free
        BY <1>5, <3>2
      <4>2. s.numbers[n] \in Ports /\ s.numbers[n] <= p - 1 /\ n <= p - 1 /\ s.sockets[s.numbers[n]] = n
        BY <1>2, <4>1
      <4>3. s.numbers[n] \in Nat /\ n \in Nat
        BY <1>1, <1>4, <4>2
      <4>4. s.numbers[n] <= p /\ n <= p /\ s.numbers[n] # p
        BY <1>1, <4>2, <4>3
      <4> QED
        BY <1>5, <4>1, <4>2, <4>4
    <3> QED
      BY <3>1, <3>2
  <2>4. \A q \in Ports : q <= p /\ a[q] = -1 => outcome[q] = "nosocket"
    <3> SUFFICES ASSUME NEW q \in Ports, q <= p, a[q] = -1 PROVE outcome[q] = "nosocket"
      OBVIOUS
    <3>1. q # p /\ s.sockets[q] = -1
      BY <1>4, <1>5
    <3>2. q <= p - 1
      BY <1>1, <3>1
    <3> QED
      BY <1>2, <3>1, <3>2
  <2> QED
    BY <2>1, <2>2, <2>3, <2>4 DEF Opened
<1> QED
  BY <1>6, <1>7, <1>8

\* What opening all ports comes to.
LEMMA StartedOpened ==
  ASSUME NEW outcome
  PROVE  Opened(outcome, Started(outcome), P)
<1>1. PICK f : Opening(outcome, P, f) /\ Started(outcome) = f[P]
  BY StartedOpens
<1>2. P \in Nat /\ Ports = 1..P
  BY Constants DEF Ports
<1>3. \A k \in 0..P : f[k] = IF k = 0 THEN Unopened ELSE Opens(outcome, f[k - 1], k)
  BY <1>1 DEF Opening
<1> DEFINE Bad == {k \in 0..P : ~Opened(outcome, f[k], k)}
<1>4. Bad = {}
  <2> SUFFICES ASSUME Bad # {} PROVE FALSE
    OBVIOUS
  <2>0. Bad \in SUBSET Nat
    BY <1>2
  <2>1. PICK m \in Bad : \A k \in Bad : m <= k
    BY <2>0, LeastNatural
  <2>2. CASE m = 0
    <3>1. f[0] = Unopened
      BY <1>2, <1>3
    <3>2. Opened(outcome, Unopened, 0)
      <4>1. \A q \in Ports : ~(q <= 0)
        BY <1>2
      <4>2. Unopened.sockets = [q \in Ports |-> -1] /\ Unopened.numbers = [n \in Fd |-> Free]
        BY DEF Unopened
      <4>3. Unopened \in [sockets : [Ports -> Fd \cup {-1}], numbers : [Fd -> Ports \cup {Free}]]
        <5>1. [q \in Ports |-> -1] \in [Ports -> Fd \cup {-1}]
          OBVIOUS
        <5>2. [n \in Fd |-> Free] \in [Fd -> Ports \cup {Free}]
          OBVIOUS
        <5> QED
          BY <5>1, <5>2 DEF Unopened
      <4> QED
        <5>1. \A n \in Fd : Unopened.numbers[n] = Free
          BY <4>2
        <5> QED
          BY <4>1, <4>3, <5>1 DEF Opened
    <3> QED
      BY <2>1, <2>2, <3>1, <3>2
  <2>3. CASE m # 0
    <3>1. m \in Ports /\ m - 1 \in 0..P /\ m - 1 \notin Bad
      BY <1>2, <2>1, <2>3
    <3>2. f[m] = Opens(outcome, f[m - 1], m) /\ Opened(outcome, f[m - 1], m - 1)
      BY <1>3, <2>1, <2>3, <3>1
    <3> QED
      BY <2>1, <3>1, <3>2, OpensNext
  <2> QED
    BY <2>2, <2>3
<1>5. P \in 0..P
  BY <1>2
<1> QED
  BY <1>1, <1>4, <1>5

\* The invariant holds when the processes are forked.
LEMMA Initially ==
  ASSUME Init
  PROVE  DescriptorInv
<1>1. N \in Nat /\ N # 0 /\ 0 \in Process /\ Worker \subseteq Process /\ \A w \in Worker : w # 0
  BY Constants
<1>2. PICK forked \in Forks : nodes = [i \in Process |-> IF i <= forked THEN i + 1 ELSE 0]
  BY DEF Init
<1>3. forked \in 0..N
  BY TransferAssumption DEF Process
<1> DEFINE s == Started(opened)
<1>4. /\ opened \in Outcomes /\ lb = [p \in Ports |-> 1] /\ tcp_sockets = s.sockets
      /\ table = [p \in Process |-> IF p = 0 THEN s.numbers ELSE [n \in Fd |-> Free]]
      /\ stopped = FALSE /\ new = Client /\ passed = [p \in Ports |-> [w \in Worker |-> 0]]
      /\ quiting = {} /\ moves = 0 /\ fails = {}
      /\ turn = [w \in Worker |-> Fibers[1]] /\ due = [w \in Worker |-> {}]
      /\ zombies = [w \in Worker |-> {}]
  BY DEF Init
<1>5. /\ raw = [w \in Worker |-> <<>>] /\ mail = [w \in Worker |-> <<>>]
      /\ reg = [w \in Worker |-> [n \in Fd |-> Free]]
      /\ obj = [w \in Worker |-> [c \in Client |-> NoObject]]
      /\ lazy = [w \in Worker |-> NoLazy]
  BY DEF Init
<1>6. /\ s.sockets \in [Ports -> Fd \cup {-1}] /\ s.numbers \in [Fd -> Ports \cup {Free}]
      /\ \A n \in Fd : s.numbers[n] # Free => s.sockets[s.numbers[n]] = n
      /\ \A q \in Ports : s.sockets[q] = -1 => opened[q] = "nosocket"
  <2>1. Opened(opened, s, P)
    BY StartedOpened
  <2>2. \A q \in Ports : q <= P
    BY Constants DEF Ports
  <2> HIDE DEF s
  <2> QED
    BY <2>1, <2>2 DEF Opened
<1> HIDE DEF s
<1> DEFINE none == <<>>
<1>7. none \in Seq(Client) /\ none \in Seq(Mail) /\ Len(none) = 0 /\ DOMAIN none = {}
  OBVIOUS
<1>8. \A w \in Worker : raw[w] = none /\ mail[w] = none
  BY <1>5
<1>9. raw \in [Worker -> Seq(Client)] /\ mail \in [Worker -> Seq(Mail)]
  BY <1>5, <1>7
<1> HIDE DEF none
<1>10. ToSet(none) = {} /\ IsInjective(none)
  BY <1>7 DEF ToSet, IsInjective
<1>11. \A w \in Worker : /\ \A c \in Client : obj[w][c] = NoObject /\ lazy[w][c] = 0
                         /\ \A n \in Fd : reg[w][n] = Free
                         /\ zombies[w] = {} /\ due[w] = {} /\ turn[w] = "lazy"
  BY <1>4, <1>5 DEF NoLazy, Fibers
<1>12. /\ \A n \in Fd : table[0][n] = s.numbers[n]
       /\ \A p \in Process \ {0}, n \in Fd : table[p][n] = Free
       /\ table \in [Process -> [Fd -> Client \cup Ports \cup {Free}]]
  <2>1. [n \in Fd |-> Free] \in [Fd -> Client \cup Ports \cup {Free}]
    OBVIOUS
  <2>2. s.numbers \in [Fd -> Client \cup Ports \cup {Free}]
    BY <1>6
  <2> QED
    BY <1>1, <1>4, <2>1, <2>2
<1>13. ~(\E w \in Worker, c \in Client : Waits(w, c))
  BY <1>7, <1>8 DEF Waits
<1>14. ~(\E w \in Worker, c \in Client : Here(w, c))
  BY <1>11, <1>13, TransferAssumption DEF Here
<1>15. Slots
  <2>1. nodes[0] = 1 /\ \A i \in Worker : nodes[i] \in {0, i + 1}
    BY <1>1, <1>2, <1>3
  <2>2. \A p \in Ports : lb[p] = nodes[0]
    BY <1>4, <2>1
  <2> QED
    BY <1>1, <2>1, <2>2 DEF Slots
<1>16. TypeOK
  <2>1. nodes \in [Process -> 0..(N + 1)] /\ lb \in [Ports -> 0..(N + 1)]
    BY <1>1, <1>2, <1>4 DEF Process
  <2>2. \A w \in Worker : Len(raw[w]) <= RawCapacity[w]
    BY <1>7, <1>8, TransferAssumption
  <2>3. turn \in [Worker -> ToSet(Fibers) \cup {"round"}]
    <3>1. 1 \in DOMAIN Fibers
      BY DEF Fibers
    <3>2. Fibers[1] \in ToSet(Fibers)
      BY <3>1 DEF ToSet
    <3> QED
      BY <1>4, <3>2
  <2>4. due \in [Worker -> SUBSET ({MailFd, RawFd} \cup Fd)]
        /\ \A w \in Worker : turn[w] = "round" <=> due[w] # {}
    BY <1>4, <1>11
  <2>5. obj \in [Worker -> [Client -> Object]]
    <3>1. NoObject \in Object
      BY DEF NoObject, Object
    <3> QED
      BY <1>5, <3>1
  <2>6. lazy \in [Worker -> [Client -> 0..2]] /\ zombies \in [Worker -> SUBSET Client]
    BY <1>4, <1>5 DEF NoLazy
  <2>7. reg \in [Worker -> [Fd -> Client \cup {Free}]]
    BY <1>5
  <2>8. passed \in [Ports -> [Worker -> Nat]]
    BY <1>4
  <2>9. opened \in Outcomes /\ tcp_sockets \in [Ports -> Fd \cup {-1}] /\ stopped \in BOOLEAN
        /\ new \subseteq Client /\ quiting \subseteq Worker
    BY <1>4, <1>6
  <2>10. moves \in 0..MaxMoves /\ fails \subseteq Client \cup Ports
    BY <1>4, TransferAssumption
  <2> QED
    BY <1>9, <1>12, <2>1, <2>2, <2>3, <2>4, <2>5, <2>6, <2>7, <2>8, <2>9, <2>10 DEF TypeOK
<1>17. Listeners
  <2>1. \A w \in Worker, n \in Fd : table[w][n] \notin Ports
    BY <1>1, <1>12, TransferAssumption
  <2>2. \A p \in Ports, n \in Fd : table[0][n] = p => tcp_sockets[p] = n
    BY <1>4, <1>6, <1>12, TransferAssumption
  <2>3. \A p \in Ports : tcp_sockets[p] = INVALID_FD => opened[p] = "nosocket"
    BY <1>4, <1>6 DEF INVALID_FD
  <2> QED
    BY <1>4, <2>1, <2>2, <2>3 DEF Listeners, StoppedListens
<1>18. Sole
  <2>1. \A p \in Process, n \in Fd :
          table[p][n] # Free => p = 0 /\ table[p][n] \in Ports /\ s.sockets[table[p][n]] = n
    BY <1>6, <1>12
  <2>2. \A p, q \in Process, m, n \in Fd :
          table[p][m] = table[q][n] /\ table[p][m] # Free => p = q /\ m = n
    BY <2>1
  <2>3. \A p \in Process, n \in Fd : table[p][n] \notin new
    BY <1>4, <2>1, TransferAssumption
  <2> QED
    BY <1>8, <1>10, <2>2, <2>3 DEF Sole
<1>19. HereOnly
  BY <1>14 DEF HereOnly
<1>20. ASSUME NEW w \in Worker PROVE AtWorker(w)
  <2>1. Served(w)
    BY <1>11, TransferAssumption DEF Served
  <2>2. Objects(w)
    <3>1. ~NoObject.live
      BY DEF NoObject
    <3>2. zombies[w] = {} /\ \A c \in Client : obj[w][c] = NoObject
      BY <1>11
    <3>3. ASSUME NEW c \in Client
          PROVE  /\ IF obj[w][c].live THEN obj[w][c].refs \in 1..2 ELSE obj[w][c] = NoObject
                 /\ c \notin zombies[w]
      BY <3>1, <3>2
    <3> QED
      BY <3>3 DEF Objects
  <2>3. LazyOnes(w)
    BY <1>11 DEF LazyOnes
  <2>4. Waiting(w)
    <3>1. Once(mail[w])
      BY <1>7, <1>8 DEF Once
    <3> QED
      BY <1>8, <1>10, <1>13, <3>1 DEF Waiting
  <2>5. Due(w)
    BY <1>11 DEF Due
  <2>6. Kept(w)
    BY <1>1, <1>12, TransferAssumption DEF Kept
  <2> QED
    BY <2>1, <2>2, <2>3, <2>4, <2>5, <2>6 DEF AtWorker
<1>21. AtMaster
  BY <1>6, <1>12, TransferAssumption DEF AtMaster
<1> QED
  BY <1>15, <1>16, <1>17, <1>18, <1>19, <1>20, <1>21 DEF DescriptorInv

\* Every step keeps the invariant, so it holds in every reachable state.
LEMMA DescriptorStep ==
  ASSUME DescriptorInv, [Next]_vars
  PROVE  DescriptorInv'
<1>1. CASE UNCHANGED vars
  <2>1. UNCHANGED <<opened, nodes, lb, tcp_sockets, stopped, new, passed, table, raw, mail, turn, due,
                    reg, obj, lazy, zombies, quiting, moves, fails>>
    BY <1>1 DEF vars, masterVars, fiberVars
  <2>2. TypeOK' /\ Slots' /\ Sole'
    BY <2>1 DEF DescriptorInv, TypeOK, Slots, Sole
  <2>3. Listeners'
    BY <2>1 DEF DescriptorInv, Listeners, StoppedListens, Listening
  <2>4. HereOnly'
    BY <2>1 DEF DescriptorInv, HereOnly, Here, Waits
  <2>5. \A v \in Worker : SameAt(v) /\ mail'[v] = mail[v]
    BY <2>1 DEF SameAt
  <2>6. AtMaster'
    BY <2>1 DEF DescriptorInv, AtMaster
  <2> QED
    BY <2>1, <2>2, <2>3, <2>4, <2>5, <2>6, MasterStep
<1>2. ASSUME NEW p \in Ports, Accept(p) PROVE DescriptorInv'
  BY <1>2, AcceptKeeps
<1>3. ASSUME NEW p \in Ports, AcceptFails(p) PROVE DescriptorInv'
  BY <1>3, AcceptFailsKeeps
<1>4. CASE SoftQuitAll
  BY <1>4, SoftQuitAllKeeps
<1>5. ASSUME NEW w \in Worker, LazyStep(w) PROVE DescriptorInv'
  BY <1>5, LazyStepKeeps
<1>6. ASSUME NEW w \in Worker, Poll(w) PROVE DescriptorInv'
  BY <1>6, PollKeeps
<1>7. ASSUME NEW w \in Worker, RoomAnswer(w) PROVE DescriptorInv'
  BY <1>7, MoveKeeps, LeavingAnswerKeeps
<1>8. ASSUME NEW w \in Worker, SoftQuit(w) PROVE DescriptorInv'
  BY <1>8, SoftQuitKeeps
<1>9. ASSUME NEW w \in Worker, RawReceive(w) PROVE DescriptorInv'
  BY <1>9, RawReceiveKeeps
<1>10. ASSUME NEW w \in Worker, NEW n \in Fd, Leaves(w, n) PROVE DescriptorInv'
  BY <1>10, LeavesKeeps
<1>11. ASSUME NEW w \in Worker, NEW n \in Fd, Asks(w, n) PROVE DescriptorInv'
  BY <1>11, AsksKeeps
<1>12. ASSUME NEW w \in Worker, Sweep(w) PROVE DescriptorInv'
  BY <1>12, SweepKeeps
<1>13. ASSUME NEW w \in Worker, Passes(w) PROVE DescriptorInv'
  BY <1>13, PassesKeeps
<1> QED
  BY <1>1, <1>2, <1>3, <1>4, <1>5, <1>6, <1>7, <1>8, <1>9, <1>10, <1>11, <1>12, <1>13
     DEF Next, Turn, Round

\* Hence it is an invariant of the specification.
LEMMA DescriptorInvariance == Spec => []DescriptorInv
<1>1. Init => DescriptorInv
  BY Initially
<1>2. DescriptorInv /\ [Next]_vars => DescriptorInv'
  BY DescriptorStep
<1> QED
  BY <1>1, <1>2, PTL DEF Spec
-----------------------------------------------------------------------------
\* The variables keep their types, the queues of sockets their capacity, and a round is
\* under way exactly while a callback is due.
THEOREM TypesCorrect == Spec => []TypeOK
<1>1. DescriptorInv => TypeOK
  BY DEF DescriptorInv
<1> QED
  BY <1>1, DescriptorInvariance, PTL

\* A set has one element at most when any two of its elements are the same.
LEMMA OneAtMost ==
  ASSUME NEW S, \A x, y \in S : x = y
  PROVE  Cardinality(S) = IF S = {} THEN 0 ELSE 1
<1>1. CASE S = {}
  BY <1>1, FS_EmptySet
<1>2. CASE S # {}
  <2>1. PICK x : S = {x}
    BY <1>2
  <2> QED
    BY <1>2, <2>1, FS_Singleton
<1> QED
  BY <1>1, <1>2

\* A socket is never in two places: under two numbers, in two processes, twice on its
\* way, or passed on without being closed where it was (raw_pipeline.c:58).
THEOREM OnePlace == Spec => []OneHolder
<1>1. ASSUME DescriptorInv PROVE OneHolder
  <2> SUFFICES ASSUME NEW c \in Client
               PROVE  Cardinality({at \in Process \X Fd : table[at[1]][at[2]] = c})
                      + Cardinality({at \in Worker \X (1..Cardinality(Client)) :
                                       at[2] <= Len(raw[at[1]]) /\ raw[at[1]][at[2]] = c})
                      + (IF c \in new THEN 1 ELSE 0) <= 1
    BY DEF OneHolder
  <2> DEFINE A == {at \in Process \X Fd : table[at[1]][at[2]] = c}
             B == {at \in Worker \X (1..Cardinality(Client)) :
                     at[2] <= Len(raw[at[1]]) /\ raw[at[1]][at[2]] = c}
  <2>1. Sole /\ TypeOK /\ c # Free
    BY <1>1, TransferAssumption DEF DescriptorInv
  <2>2. ASSUME NEW b \in B
        PROVE  /\ b = <<b[1], b[2]>> /\ b[1] \in Worker /\ b[2] \in DOMAIN raw[b[1]]
               /\ raw[b[1]][b[2]] = c /\ c \in ToSet(raw[b[1]])
    <3>1. /\ b = <<b[1], b[2]>> /\ b[1] \in Worker /\ b[2] \in 1..Cardinality(Client)
          /\ b[2] <= Len(raw[b[1]]) /\ raw[b[1]][b[2]] = c
      OBVIOUS
    <3>2. raw[b[1]] \in Seq(Client)
      BY <2>1, <3>1 DEF TypeOK
    <3>3. b[2] \in DOMAIN raw[b[1]]
      BY <3>1, <3>2, Constants
    <3> QED
      BY <3>1, <3>3 DEF ToSet
  <2>3. ASSUME NEW a \in A
        PROVE  a = <<a[1], a[2]>> /\ a[1] \in Process /\ a[2] \in Fd /\ table[a[1]][a[2]] = c
    OBVIOUS
  <2> HIDE DEF A, B
  <2>4. \A x, y \in A : x = y
    <3> SUFFICES ASSUME NEW x \in A, NEW y \in A PROVE x = y
      OBVIOUS
    <3>1. x[1] = y[1] /\ x[2] = y[2]
      BY <2>1, <2>3 DEF Sole
    <3> QED
      BY <2>3, <3>1
  <2>5. \A x, y \in B : x = y
    <3> SUFFICES ASSUME NEW x \in B, NEW y \in B PROVE x = y
      OBVIOUS
    <3>1. x[1] = y[1]
      BY <2>1, <2>2 DEF Sole
    <3>2. IsInjective(raw[x[1]])
      BY <2>1, <2>2 DEF Sole
    <3>3. x[2] = y[2]
      BY <2>2, <3>1, <3>2 DEF IsInjective
    <3> QED
      BY <2>2, <3>1, <3>3
  <2>6. A # {} => B = {} /\ c \notin new
    BY <2>1, <2>2, <2>3 DEF Sole
  <2>7. B # {} => c \notin new
    BY <2>1, <2>2 DEF Sole
  <2>8. /\ Cardinality(A) = IF A = {} THEN 0 ELSE 1
        /\ Cardinality(B) = IF B = {} THEN 0 ELSE 1
    BY <2>4, <2>5, OneAtMost
  <2>9. Cardinality(A) + Cardinality(B) + (IF c \in new THEN 1 ELSE 0) <= 1
    BY <2>6, <2>7, <2>8
  <2> QED
    BY <2>9 DEF A, B
<1> QED
  BY <1>1, DescriptorInvariance, PTL

\* The object a callback is given lives, has that number, and the number is that
\* client's (the assertion of chat_accept.c:89).
THEOREM CallbackOwnsNumber == Spec => []OwnDescriptor
<1>1. ASSUME DescriptorInv PROVE OwnDescriptor
  <2> SUFFICES ASSUME NEW w \in Worker, NEW n \in Fd, reg[w][n] # Free
               PROVE  /\ table[w][n] = reg[w][n] /\ obj[w][reg[w][n]].live
                      /\ obj[w][reg[w][n]].fd = n
    BY DEF OwnDescriptor
  <2>1. reg[w][n] \in Client
    BY <1>1 DEF DescriptorInv, TypeOK
  <2>2. Served(w)
    BY <1>1 DEF DescriptorInv, AtWorker
  <2> QED
    BY <2>1, <2>2 DEF Served
<1> QED
  BY <1>1, DescriptorInvariance, PTL

\* Whoever holds an object by a pointer has a reference to it: the list of zombies, or
\* the queue of the lazy calls, in which no object is twice.
THEOREM ReferencesCounted == Spec => []References
<1>1. ASSUME DescriptorInv PROVE References
  <2> SUFFICES ASSUME NEW w \in Worker, NEW c \in Client
               PROVE  LET holders == IF c \in zombies[w] THEN 1 ELSE lazy[w][c]
                      IN /\ lazy[w][c] <= 1
                         /\ holders > 0 => obj[w][c].live /\ obj[w][c].refs >= holders
                         /\ obj[w][c].live => obj[w][c].refs > 0
    BY DEF References
  <2>1. lazy[w][c] \in 0..2
    BY <1>1 DEF DescriptorInv, TypeOK
  <2>2. lazy[w][c] # 0 => lazy[w][c] = 1 /\ obj[w][c].live
    BY <1>1 DEF DescriptorInv, AtWorker, LazyOnes
  <2>3. /\ obj[w][c].live => obj[w][c].refs \in 1..2
        /\ c \in zombies[w] => obj[w][c].live
    BY <1>1 DEF DescriptorInv, AtWorker, Objects
  <2> QED
    BY <2>1, <2>2, <2>3
<1> QED
  BY <1>1, DescriptorInvariance, PTL

\* However many sends fail, a number is lost with them only: every other open number of a
\* worker is that of an object that closes it, or came to a worker that was quiting, and
\* the master keeps no other client's.
THEOREM NoneLost == Spec => []NoDescriptorLost
<1>1. ASSUME DescriptorInv PROVE NoDescriptorLost
  <2>1. AtMaster
    BY <1>1 DEF DescriptorInv
  <2>2. ASSUME NEW w \in Worker \ quiting, NEW n \in Fd, table[w][n] \notin {Free} \cup fails
        PROVE  /\ obj[w][table[w][n]].live /\ obj[w][table[w][n]].fd = n
               /\ "softquit" \notin obj[w][table[w][n]].state
    <3>1. table[w][n] \in Client \ fails
      BY <1>1, <2>2, Constants DEF DescriptorInv, TypeOK, Listeners
    <3>2. Kept(w)
      BY <1>1 DEF DescriptorInv, AtWorker
    <3> QED
      BY <2>2, <3>1, <3>2 DEF Kept
  <2> QED
    BY <2>1, <2>2 DEF AtMaster, NoDescriptorLost
<1> QED
  BY <1>1, DescriptorInvariance, PTL

\* A master that was told to quit softly listens to no port, unless an earlier one had
\* no socket: tcp_listener_stop ends there.
THEOREM StopsListening == Spec => []StoppedListens
<1>1. DescriptorInv => StoppedListens
  BY DEF DescriptorInv, Listeners
<1> QED
  BY <1>1, DescriptorInvariance, PTL
=============================================================================
