--------------------------- MODULE EventLoopProofs ---------------------------
(***************************************************************************)
(* Proofs about EventLoop for every set of descriptors and callbacks and   *)
(* every capacity of the array.                                            *)
(***************************************************************************)
EXTENDS EventLoop, FiniteSetTheorems, SequenceTheorems, TLAPS

\* Two live entries never share their data: an event_data object is registered once.
DistinctData == \A s, t \in Live : ent[s].data = ent[t].data => s = t

\* What the round has still to visit has not been called in this round.
AheadUncalled ==
  RoundOpen => \A s \in Live :
     (s > i \/ (s = i /\ pc = "step")) /\ ent[s].revents => ent[s].data \notin called

\* The compaction's loop invariant: live up to the hole's index, and the last
\* live entry is where last points once the dead ones at the end are skipped.
CompactionInv ==
  Compacting =>
    /\ j - 1 <= last
    /\ \A s \in 1..(j - 1) : ent[s].events
    /\ pc = "swap" /\ last > 0 => ent[last].events

IInv == TypeOK /\ DistinctData /\ AheadUncalled /\ CompactionInv

\* What TypeOK says of the array, and what keeps it an array of entries.
LEMMA Array ==
  ASSUME TypeOK
  PROVE  /\ Len(ent) \in Nat /\ DOMAIN ent = 1..Len(ent)
         /\ \A s \in 1..Len(ent) : ent[s] \in Entry
         /\ Top \in 0..Len(ent)
         /\ Live \subseteq 1..Len(ent)
<1>1. ent \in Seq(Entry) /\ last \in 0..Len(ent)
  BY DEF TypeOK
<1>2. Len(ent) \in Nat /\ DOMAIN ent = 1..Len(ent) /\ \A s \in 1..Len(ent) : ent[s] \in Entry
  BY <1>1
<1>3. Top \in 0..Len(ent)
  BY <1>1, <1>2 DEF Top
<1> QED
  BY <1>2, <1>3 DEF Live

\* A function from 1..n to entries is an array of n entries (what SwapEnds and Poll build).
LEMMA SeqOfEntries ==
  ASSUME NEW n \in Nat, NEW q \in [1..n -> Entry]
  PROVE  q \in Seq(Entry) /\ Len(q) = n
<1>1. q \in Seq(Entry)
  BY SeqDef
<1> QED
  BY <1>1

\* The empty array of event_loop_module_init satisfies the invariant.
LEMMA InitInv == Init => IInv
<1> SUFFICES ASSUME Init PROVE IInv
  OBVIOUS
<1>2. Len(ent) = 0 /\ ~Compacting
  BY DEF Init, Compacting
<1>a. ent \in Seq(Entry)
  BY DEF Init
<1>b. called \subseteq Data /\ nested \in BOOLEAN
  BY DEF Init
<1>5. TypeOK
  BY <1>2, <1>a, <1>b, CapacityAssumption DEF Init, TypeOK
<1>3. Live = {}
  BY <1>2 DEF Live, Top
<1>4. DistinctData /\ AheadUncalled /\ CompactionInv
  BY <1>2, <1>3 DEF DistinctData, AheadUncalled, CompactionInv
<1> QED
  BY <1>5, <1>4 DEF IInv

\* The type invariant: the array never outgrows MAX_POLL_FD and the loops'
\* indexes stay within it (event_loop_poll.c).
LEMMA TypeStep == IInv /\ [Next]_vars => TypeOK'
<1> SUFFICES ASSUME TypeOK, CompactionInv, [Next]_vars PROVE TypeOK'
  BY DEF IInv
<1>a. /\ Len(ent) \in Nat /\ DOMAIN ent = 1..Len(ent)
      /\ \A s \in 1..Len(ent) : ent[s] \in Entry
      /\ Live \subseteq 1..Len(ent)
  BY Array
<1> USE CapacityAssumption DEF TypeOK
<1>1. ASSUME NEW f \in Fd, NEW d \in Data, Register(f, d) PROVE TypeOK'
  <2>1. NewEntry(f, d) \in Entry
    BY DEF NewEntry, Entry
  <2>2. ent' \in Seq(Entry) /\ Len(ent') = Len(ent) + 1
    BY <1>1, <2>1 DEF Register
  <2>3. last <= Len(ent)
    OBVIOUS
  <2> QED
    BY <1>1, <1>a, <2>2, <2>3 DEF Register, HasRoom
<1>2. ASSUME NEW f \in Fd, Unregister(f) PROVE TypeOK'
  <2>1. PICK s \in Live : ent' = [ent EXCEPT ![s].events = FALSE]
    BY <1>2 DEF Unregister
  <2>2. [ent[s] EXCEPT !.events = FALSE] \in Entry
    BY <1>a, <2>1 DEF Entry
  <2>3. ent' \in [1..Len(ent) -> Entry]
    BY <1>a, <2>1, <2>2
  <2>4. ent' \in Seq(Entry) /\ Len(ent') = Len(ent)
    BY <1>a, <2>3, SeqOfEntries
  <2> QED
    BY <1>2, <2>4 DEF Unregister
<1>3. CASE Poll
  <2>1. PICK ready \in SUBSET (1..Len(ent)) :
          /\ ent' = [s \in 1..Len(ent) |-> [ent[s] EXCEPT !.revents = s \in ready]]
          /\ count' = Cardinality(ready)
          /\ pc' \in {"idle", "step"}
    BY <1>3, <1>a DEF Poll
  <2>2. IsFiniteSet(1..Len(ent))
    BY <1>a, FS_Interval
  <2>3. count' \in Nat
    BY <2>1, <2>2, FS_Subset, FS_CardinalityType
  <2>7. ASSUME NEW e \in Entry, NEW b \in BOOLEAN PROVE [e EXCEPT !.revents = b] \in Entry
    BY DEF Entry
  <2>4. \A s \in 1..Len(ent) : [ent[s] EXCEPT !.revents = s \in ready] \in Entry
    <3> TAKE s \in 1..Len(ent)
    <3> DEFINE b == s \in ready
    <3>1. b \in BOOLEAN
      OBVIOUS
    <3> HIDE DEF b
    <3>2. [ent[s] EXCEPT !.revents = b] \in Entry
      BY <1>a, <2>7, <3>1
    <3> QED
      BY <3>2 DEF b
  <2>5. ent' \in [1..Len(ent) -> Entry]
    BY <2>1, <2>4
  <2>6. ent' \in Seq(Entry) /\ Len(ent') = Len(ent)
    BY <1>a, <2>5, SeqOfEntries
  <2> QED
    <3>1. called' \subseteq Data /\ skipped' \subseteq Data /\ nested' \in BOOLEAN
      BY <1>3 DEF Poll
    <3>2. i' \in Nat \ {0} /\ j' \in Nat \ {0} /\ last' \in 0..Len(ent') /\ ret' \in {"idle", "call"}
      BY <1>3, <2>6 DEF Poll
    <3>3. ent' \in Seq(Entry) /\ Len(ent') <= MaxPollFd
      BY <2>6
    <3> QED
      BY <2>1, <2>3, <3>1, <3>2, <3>3
<1>4. CASE StepCall
  <2>1. ent[i].data \in Data
    BY <1>4, <1>a DEF StepCall, InRound, Entry
  <2> QED
    BY <1>4, <2>1 DEF StepCall, InRound
<1>5. CASE StepSkip
  BY <1>5 DEF StepSkip, InRound
<1>6. CASE CallReturns
  BY <1>6 DEF CallReturns
<1>7. CASE StepEnds
  BY <1>7, <1>a DEF StepEnds, BatchUnregister
<1>8. CASE EventLoopTest
  BY <1>8, <1>a DEF EventLoopTest, BatchUnregister
<1>9. CASE Trim
  BY <1>9 DEF Trim
<1>10. CASE Swap
  <2>1. CASE ent[j].events
    BY <1>10, <2>1 DEF Swap
  <2>2. CASE ~ent[j].events
    <3>1. last \in 1..Len(ent) /\ ent[last] \in Entry
      BY <1>10, <1>a DEF Swap
    <3>2. ent' \in [1..Len(ent) -> Entry]
      BY <1>10, <2>2, <3>1, <1>a DEF Swap, Filled
    <3>3. ent' \in Seq(Entry) /\ Len(ent') = Len(ent)
      BY <1>a, <3>2, SeqOfEntries
    <3>4. skipped' \subseteq Data
      BY <1>10, <2>2, <3>1 DEF Swap, Overtaken, Entry
    <3> QED
      BY <1>10, <2>2, <3>1, <3>3, <3>4 DEF Swap
  <2> QED
    BY <2>1, <2>2
<1>11. CASE SwapEnds
  <2>1. ent' \in [1..last -> Entry] /\ last \in Nat
    BY <1>11, <1>a DEF SwapEnds
  <2>2. ent' \in Seq(Entry) /\ Len(ent') = last
    BY <2>1, SeqOfEntries
  <2> QED
    BY <1>11, <1>a, <2>2 DEF SwapEnds
<1>12. CASE UNCHANGED vars
  BY <1>12 DEF vars
<1>13. QED
  BY <1>1, <1>2, <1>3, <1>4, <1>5, <1>6, <1>7, <1>8, <1>9, <1>10, <1>11, <1>12
  DEF Next, Loop
-----------------------------------------------------------------------------
\* How each step changes the live entries: the facts every other proof is built on.
LEMMA RegisterLive ==
  ASSUME IInv, NEW f \in Fd, NEW d \in Data, Register(f, d)
  PROVE  /\ Live' = Live \cup {Len(ent) + 1} /\ Len(ent) + 1 \notin Live
         /\ ent'[Len(ent) + 1] = NewEntry(f, d)
         /\ \A s \in Live : ent'[s] = ent[s]
<1>1. Len(ent) \in Nat /\ Live \subseteq 1..Len(ent) /\ ent \in Seq(Entry)
  BY Array DEF IInv, TypeOK
<1>2. NewEntry(f, d) \in Entry /\ NewEntry(f, d).events
  BY DEF NewEntry, Entry
<1>3. /\ Len(ent') = Len(ent) + 1 /\ ent'[Len(ent) + 1] = NewEntry(f, d)
      /\ \A s \in 1..Len(ent) : ent'[s] = ent[s]
  BY <1>1, <1>2 DEF Register
<1>4. Top = Len(ent) /\ Top' = Len(ent')
  BY DEF Register, CallerRuns, Top, Compacting
<1> QED
  BY <1>1, <1>2, <1>3, <1>4 DEF Live

\* event_loop_unregister_fd takes one live entry of the descriptor away and no other.
LEMMA UnregisterLive ==
  ASSUME IInv, NEW f \in Fd, Unregister(f)
  PROVE  \E s \in Live : /\ ent[s].fd = f
                        /\ Live' = Live \ {s}
                        /\ \A t \in Live \ {s} : ent'[t] = ent[t]
<1>1. /\ Len(ent) \in Nat /\ DOMAIN ent = 1..Len(ent) /\ Live \subseteq 1..Len(ent)
      /\ \A s \in 1..Len(ent) : ent[s] \in Entry
  BY Array DEF IInv
<1>2. PICK s \in Live : ent[s].fd = f /\ ent' = [ent EXCEPT ![s].events = FALSE]
  BY DEF Unregister
<1>3. ~ent'[s].events /\ \A t \in (1..Len(ent)) \ {s} : ent'[t] = ent[t]
  BY <1>1, <1>2 DEF Entry
<1>4. Top = Len(ent) /\ Top' = Len(ent)
  BY <1>1, <1>2, IInv, TypeStep DEF Unregister, CallerRuns, Top, Compacting
<1> QED
  BY <1>1, <1>2, <1>3, <1>4 DEF Live

\* poll() writes revents only: what is registered stays.
LEMMA PollLive ==
  ASSUME IInv, Poll
  PROVE  /\ Live' = Live
         /\ \A s \in Live : ent'[s].fd = ent[s].fd /\ ent'[s].data = ent[s].data
<1>1. /\ Len(ent) \in Nat /\ DOMAIN ent = 1..Len(ent) /\ Live \subseteq 1..Len(ent)
      /\ \A s \in 1..Len(ent) : ent[s] \in Entry
  BY Array DEF IInv
<1>2. PICK ready \in SUBSET (1..Len(ent)) :
        ent' = [s \in 1..Len(ent) |-> [ent[s] EXCEPT !.revents = s \in ready]]
  BY <1>1 DEF Poll
<1>3. \A s \in 1..Len(ent) : /\ ent'[s].fd = ent[s].fd /\ ent'[s].data = ent[s].data
                             /\ ent'[s].events = ent[s].events
  BY <1>1, <1>2 DEF Entry
<1>4. Top = Len(ent) /\ Top' = Len(ent)
  <2>1. Len(ent') = Len(ent)
    BY <1>1, <1>2
  <2> QED
    BY <2>1 DEF Poll, Top, Compacting
<1> QED
  BY <1>1, <1>3, <1>4 DEF Live

\* Steps that leave the array alone leave the live entries alone.
LEMMA QuietLive ==
  ASSUME IInv, StepCall \/ StepSkip \/ CallReturns \/ StepEnds \/ EventLoopTest
  PROVE  Live' = Live /\ ent' = ent
<1>1. ent' = ent
  BY DEF StepCall, StepSkip, CallReturns, StepEnds, EventLoopTest
<1>2. Top' = Top
  BY <1>1 DEF Top, Compacting, StepCall, StepSkip, CallReturns, StepEnds, EventLoopTest,
     InRound, BatchUnregister
<1> QED
  BY <1>1, <1>2 DEF Live

\* The inner loop of a compaction skips dead entries only.
LEMMA TrimLive ==
  ASSUME IInv, Trim
  PROVE  Live' = Live /\ ent' = ent
<1>1. last \in Nat /\ ent' = ent /\ Top = last /\ Top' = last'
  BY DEF Trim, Top, Compacting, IInv, TypeOK
<1>2. CASE last > 0 /\ ~ent[last].events
  BY <1>1, <1>2 DEF Trim, Live
<1>3. CASE ~(last > 0 /\ ~ent[last].events)
  BY <1>1, <1>3 DEF Trim, Live
<1> QED
  BY <1>2, <1>3

\* A swap either passes over a live entry or moves the last live entry into the hole.
LEMMA SwapLive ==
  ASSUME IInv, Swap
  PROVE  \/ Live' = Live /\ ent' = ent
         \/ /\ j \notin Live /\ last \in Live /\ j < last
            /\ Live' = (Live \ {last}) \cup {j}
            /\ ent'[j] = ent[last]
            /\ \A s \in Live \ {last} : ent'[s] = ent[s]
<1>1. /\ Len(ent) \in Nat /\ DOMAIN ent = 1..Len(ent) /\ Live \subseteq 1..Len(ent)
      /\ last \in 0..Len(ent) /\ j \in Nat \ {0}
  BY Array DEF IInv, TypeOK
<1>2. Top = last /\ Top' = last' /\ j < last /\ ent[last].events
  BY <1>1 DEF Swap, Top, Compacting, IInv, CompactionInv
<1>3. CASE ent[j].events
  BY <1>1, <1>2, <1>3 DEF Swap, Live
<1>4. CASE ~ent[j].events
  <2>1. ent' = [ent EXCEPT ![j] = ent[last]] /\ last' = last - 1
    BY <1>4 DEF Swap, Filled
  <2>2. ent'[j] = ent[last] /\ \A s \in (1..Len(ent)) \ {j} : ent'[s] = ent[s]
    BY <1>1, <1>2, <2>1
  <2>3. Live' = {s \in 1..(last - 1) : ent'[s].events}
    BY <1>2, <2>1 DEF Live
  <2>4. Live = {s \in 1..last : ent[s].events}
    BY <1>2 DEF Live
  <2> QED
    BY <1>1, <1>2, <1>4, <2>2, <2>3, <2>4
<1> QED
  BY <1>3, <1>4

\* The end of a compaction cuts off entries that are not in force.
LEMMA SwapEndsLive ==
  ASSUME IInv, SwapEnds
  PROVE  Live' = Live /\ \A s \in Live : ent'[s] = ent[s]
<1>1. last \in Nat /\ ent' = [s \in 1..last |-> ent[s]] /\ Top = last
  BY DEF SwapEnds, Top, Compacting, IInv, TypeOK
<1>2. Len(ent') = last /\ Top' = Len(ent')
  BY <1>1 DEF SwapEnds, Top, Compacting, IInv, TypeOK
<1> QED
  BY <1>1, <1>2 DEF Live
-----------------------------------------------------------------------------
\* No step gives two live entries the same data, a swap of a compaction included.
LEMMA DistinctStep == IInv /\ [Next]_vars => DistinctData'
<1> SUFFICES ASSUME IInv, [Next]_vars PROVE DistinctData'
  OBVIOUS
<1>0. DistinctData
  BY DEF IInv
<1>1. ASSUME NEW f \in Fd, NEW d \in Data, Register(f, d) PROVE DistinctData'
  <2>1. \A s \in Live : ent[s].data # d
    BY <1>1 DEF Register, LiveData
  <2>2. NewEntry(f, d).data = d
    BY DEF NewEntry
  <2> QED
    BY <1>0, <1>1, <2>1, <2>2, RegisterLive DEF DistinctData
<1>2. ASSUME NEW f \in Fd, Unregister(f) PROVE DistinctData'
  BY <1>0, <1>2, UnregisterLive DEF DistinctData
<1>3. CASE Poll
  BY <1>0, <1>3, PollLive DEF DistinctData
<1>4. CASE StepCall \/ StepSkip \/ CallReturns \/ StepEnds \/ EventLoopTest
  BY <1>0, <1>4, QuietLive DEF DistinctData
<1>5. CASE Trim
  BY <1>0, <1>5, TrimLive DEF DistinctData
<1>6. CASE Swap
  BY <1>0, <1>6, SwapLive DEF DistinctData
<1>7. CASE SwapEnds
  BY <1>0, <1>7, SwapEndsLive DEF DistinctData
<1>8. CASE UNCHANGED vars
  BY <1>0, <1>8 DEF vars, DistinctData, Live, Top, Compacting
<1> QED
  BY <1>1, <1>2, <1>3, <1>4, <1>5, <1>6, <1>7, <1>8 DEF Next, Loop

\* No step puts a called entry ahead of the round's index: neither a registration nor a
\* compaction under it.
LEMMA AheadStep == IInv /\ [Next]_vars => AheadUncalled'
<1> SUFFICES ASSUME IInv, [Next]_vars PROVE AheadUncalled'
  OBVIOUS
<1>0. AheadUncalled /\ DistinctData /\ TypeOK
  BY DEF IInv
<1>t. Live \subseteq 1..Len(ent) /\ Len(ent) \in Nat
  BY <1>0, Array
<1>1. ASSUME NEW f \in Fd, NEW d \in Data, Register(f, d) PROVE AheadUncalled'
  <2>1. ~NewEntry(f, d).revents
    BY DEF NewEntry
  <2>2. UNCHANGED <<pc, i, ret, called>>
    BY <1>1 DEF Register
  <2> QED
    BY <1>0, <1>1, <2>1, <2>2, RegisterLive DEF AheadUncalled, RoundOpen, Compacting
<1>2. ASSUME NEW f \in Fd, Unregister(f) PROVE AheadUncalled'
  <2>1. UNCHANGED <<pc, i, ret, called>>
    BY <1>2 DEF Unregister
  <2> QED
    BY <1>0, <1>2, <2>1, UnregisterLive DEF AheadUncalled, RoundOpen, Compacting
<1>3. CASE Poll
  BY <1>3 DEF Poll, AheadUncalled
<1>4. CASE StepCall
  <2>1. i \in Live
    BY <1>0, <1>4 DEF StepCall, InRound, Live, Top, Compacting, TypeOK
  <2>2. \A s \in Live : s > i => ent[s].data # ent[i].data
    BY <1>0, <1>t, <2>1 DEF DistinctData
  <2>3. \A s \in Live : s > i /\ ent[s].revents => ent[s].data \notin called
    BY <1>0, <1>4 DEF AheadUncalled, RoundOpen, StepCall, InRound
  <2>4. i' = i /\ pc' = "call" /\ called' = called \cup {ent[i].data}
    BY <1>4 DEF StepCall
  <2> QED
    BY <1>4, <2>2, <2>3, <2>4, QuietLive DEF AheadUncalled
<1>5. CASE StepSkip \/ CallReturns
  <2>1. i' = i + 1 /\ pc' = "step" /\ called' = called /\ RoundOpen /\ i \in Nat
    BY <1>0, <1>5 DEF StepSkip, CallReturns, InRound, RoundOpen, TypeOK
  <2>2. \A s \in Live : s > i /\ ent[s].revents => ent[s].data \notin called
    BY <1>0, <2>1 DEF AheadUncalled
  <2>3. \A s \in Live : s >= i + 1 => s > i
    BY <1>t, <2>1
  <2>4. Live' = Live /\ ent' = ent
    BY <1>5, QuietLive
  <2> QED
    BY <1>t, <2>1, <2>2, <2>3, <2>4 DEF AheadUncalled
<1>6. CASE StepEnds
  BY <1>6 DEF StepEnds, BatchUnregister, AheadUncalled, RoundOpen, Compacting
<1>7. CASE EventLoopTest
  BY <1>0, <1>7, QuietLive DEF EventLoopTest, BatchUnregister, AheadUncalled, RoundOpen
<1>8. CASE Trim
  <2>1. UNCHANGED <<i, ret, called>> /\ Compacting /\ Compacting' /\ pc' # "step"
    BY <1>8 DEF Trim, Compacting
  <2> QED
    BY <1>0, <1>8, <2>1, TrimLive DEF AheadUncalled, RoundOpen, Compacting
<1>9. CASE Swap
  <2>1. UNCHANGED <<i, ret, called>> /\ pc \in {"trim", "swap"} /\ pc' \in {"trim", "swap"}
    BY <1>9 DEF Swap
  <2>2. i \in Nat /\ j \in Nat /\ last \in Nat
    BY <1>0 DEF TypeOK
  <2>3. CASE Live' = Live /\ ent' = ent
    BY <1>0, <2>1, <2>3 DEF AheadUncalled, RoundOpen, Compacting
  <2>4. CASE ~(Live' = Live /\ ent' = ent)
    BY <1>0, <1>9, <2>1, <2>2, <2>4, SwapLive DEF AheadUncalled, RoundOpen, Compacting
  <2> QED
    BY <2>3, <2>4
<1>10. CASE SwapEnds
  <2>1. UNCHANGED <<i, called>> /\ pc' = ret /\ Compacting /\ ret \in {"idle", "call"}
    BY <1>0, <1>10 DEF SwapEnds, Compacting, TypeOK
  <2>2. RoundOpen' => RoundOpen
    BY <1>10, <2>1 DEF RoundOpen, Compacting, SwapEnds
  <2> QED
    BY <1>0, <1>10, <2>1, <2>2, SwapEndsLive DEF AheadUncalled
<1>11. CASE UNCHANGED vars
  BY <1>0, <1>11 DEF vars, AheadUncalled, RoundOpen, Live, Top, Compacting
<1> QED
  BY <1>1, <1>2, <1>3, <1>4, <1>5, <1>6, <1>7, <1>8, <1>9, <1>10, <1>11 DEF Next, Loop

\* The loop invariant of event_loop_batch_unregister is kept by its steps, and nothing
\* else runs between them.
LEMMA CompactionStep == IInv /\ [Next]_vars => CompactionInv'
<1> SUFFICES ASSUME IInv, [Next]_vars PROVE CompactionInv'
  OBVIOUS
<1>0. CompactionInv /\ TypeOK /\ Len(ent) \in Nat /\ DOMAIN ent = 1..Len(ent)
  BY Array DEF IInv
<1>1. ASSUME NEW f \in Fd, NEW d \in Data,
             Register(f, d) \/ Unregister(f) \/ Poll \/ StepCall \/ StepSkip \/ CallReturns
      PROVE  CompactionInv'
  BY <1>1 DEF Register, Unregister, CallerRuns, Poll, StepCall, StepSkip, CallReturns, InRound,
     CompactionInv, Compacting
<1>2. ASSUME NEW f \in Fd, Unregister(f) PROVE CompactionInv'
  BY <1>2 DEF Unregister, CallerRuns, CompactionInv, Compacting
<1>3. CASE Poll \/ StepCall \/ StepSkip \/ CallReturns
  BY <1>3 DEF Poll, StepCall, StepSkip, CallReturns, InRound, CompactionInv, Compacting
<1>4. CASE StepEnds \/ EventLoopTest
  BY <1>0, <1>4 DEF StepEnds, EventLoopTest, BatchUnregister, CompactionInv, Compacting
<1>5. CASE Trim
  <2>1. pc = "trim" /\ ent' = ent /\ j' = j /\ j \in Nat \ {0} /\ last \in Nat
    BY <1>0, <1>5 DEF Trim, TypeOK
  <2>2. j - 1 <= last /\ \A s \in 1..(j - 1) : ent[s].events
    BY <1>0, <2>1 DEF CompactionInv, Compacting
  <2>3. CASE last > 0 /\ ~ent[last].events
    <3>1. pc' = "trim" /\ last' = last - 1
      BY <1>5, <2>1, <2>3 DEF Trim
    <3>2. last \notin 1..(j - 1)
      BY <2>2, <2>3
    <3>3. j - 1 <= last - 1
      BY <2>1, <2>2, <2>3, <3>2
    <3> QED
      BY <2>1, <2>2, <3>1, <3>3 DEF CompactionInv
  <2>4. CASE ~(last > 0 /\ ~ent[last].events)
    <3>1. pc' = "swap" /\ last' = last
      BY <1>5, <2>1, <2>4 DEF Trim
    <3> QED
      BY <2>1, <2>2, <2>4, <3>1 DEF CompactionInv
  <2> QED
    BY <2>3, <2>4
<1>6. CASE Swap
  <2>1. /\ pc = "swap" /\ j' = j + 1 /\ j \in Nat \ {0} /\ last \in 1..Len(ent) /\ j < last
    BY <1>0, <1>6 DEF Swap, TypeOK
  <2>2. ent[last].events /\ \A s \in 1..(j - 1) : ent[s].events
    BY <1>0, <2>1 DEF CompactionInv, Compacting
  <2>3. CASE ent[j].events
    <3>1. ent' = ent /\ pc' = pc /\ last' = last
      BY <1>6, <2>3 DEF Swap
    <3> QED
      BY <2>1, <2>2, <2>3, <3>1 DEF CompactionInv
  <2>4. CASE ~ent[j].events
    <3>1. ent' = [ent EXCEPT ![j] = ent[last]] /\ pc' = "trim" /\ last' = last - 1
      BY <1>6, <2>4 DEF Swap, Filled
    <3>2. \A s \in 1..j : ent'[s].events
      BY <1>0, <2>1, <2>2, <3>1
    <3> QED
      BY <2>1, <3>1, <3>2 DEF CompactionInv
  <2> QED
    BY <2>3, <2>4
<1>7. CASE SwapEnds
  BY <1>0, <1>7 DEF SwapEnds, CompactionInv, Compacting, TypeOK
<1>8. CASE UNCHANGED vars
  BY <1>0, <1>8 DEF vars, CompactionInv, Compacting
<1>9. ASSUME NEW f \in Fd, NEW d \in Data, Register(f, d) PROVE CompactionInv'
  BY <1>1, <1>9
<1> QED
  BY <1>2, <1>3, <1>4, <1>5, <1>6, <1>7, <1>8, <1>9 DEF Next, Loop

\* The strengthened invariant is inductive.
THEOREM Invariance == Spec => []IInv
<1>1. IInv /\ [Next]_vars => IInv'
  BY TypeStep, DistinctStep, AheadStep, CompactionStep DEF IInv
<1> QED
  BY <1>1, InitInv, PTL DEF Spec
\* The array never outgrows MAX_POLL_FD (the assertion of event_loop_register_fd
\* is the only bound on it) and no index of the three loops leaves it.
THEOREM TypeCorrect == Spec => []TypeOK
  BY Invariance, PTL DEF IInv
-----------------------------------------------------------------------------
\* The steps of a compaction, seen from outside: nothing but the end of a round.
LEMMA CompactionRegs ==
  ASSUME IInv, Trim \/ Swap \/ SwapEnds
  PROVE  Regs' = Regs /\ (Due' = Due \/ Due' = {})
<1>1. CASE Trim
  <2>1. RoundOpen' = RoundOpen /\ called' = called
    BY <1>1 DEF Trim, RoundOpen, Compacting
  <2> QED
    BY <1>1, <2>1, TrimLive DEF Regs, Due, RegOf
<1>2. CASE Swap
  <2>1. RoundOpen' = RoundOpen /\ called' = called
    BY <1>2 DEF Swap, RoundOpen, Compacting
  <2>2. CASE Live' = Live /\ ent' = ent
    BY <2>1, <2>2 DEF Regs, Due, RegOf
  <2>3. CASE ~(Live' = Live /\ ent' = ent)
    <3>1. /\ j \notin Live /\ last \in Live /\ Live' = (Live \ {last}) \cup {j}
          /\ ent'[j] = ent[last] /\ \A s \in Live \ {last} : ent'[s] = ent[s]
      BY <1>2, <2>3, SwapLive
    <3>2. Regs' = Regs
      BY <3>1 DEF Regs, RegOf
    <3>3. Due' = Due
      BY <2>1, <3>1 DEF Due, RegOf
    <3> QED
      BY <3>2, <3>3
  <2> QED
    BY <2>2, <2>3
<1>3. CASE SwapEnds
  <2>1. called' = called /\ (RoundOpen' => RoundOpen)
    BY <1>3 DEF SwapEnds, RoundOpen, Compacting, IInv, TypeOK
  <2>2. Regs' = Regs
    BY <1>3, SwapEndsLive DEF Regs, RegOf
  <2>3. Due' = Due \/ Due' = {}
    BY <1>3, <2>1, SwapEndsLive DEF Due, RegOf
  <2> QED
    BY <2>2, <2>3
<1> QED
  BY <1>1, <1>2, <1>3

\* While the compaction runs, no other step of the process does.
LEMMA CompactionExclusive ==
  ASSUME [Next]_vars, Compacting
  PROVE  Trim \/ Swap \/ SwapEnds \/ UNCHANGED vars
  BY DEF Next, Loop, Register, Unregister, CallerRuns, Poll, StepCall, StepSkip, InRound,
     CallReturns, StepEnds, EventLoopTest, Compacting

\* For every capacity, whatever mix of live and dead entries a callback or the
\* round left, event_loop_batch_unregister keeps exactly the live registrations.
THEOREM CompactionKeepsRegistrations == Spec => CompactionPreserves
<1>1. IInv /\ [Next]_vars => [Compacting => Regs' = Regs /\ Due' \subseteq Due]_vars
  BY CompactionExclusive, CompactionRegs
<1> QED
  BY <1>1, Invariance, PTL DEF Spec, CompactionPreserves

\* For every capacity, a finished compaction has no dead entry left.
THEOREM CompactionLeavesNoHole == Spec => CompactionComplete
<1>1. ASSUME IInv, [Next]_vars
      PROVE  [Compacting /\ ~Compacting' => \A s \in DOMAIN ent' : ent'[s].events]_vars
  <2>1. SUFFICES ASSUME Compacting, ~Compacting'
                 PROVE  \A s \in DOMAIN ent' : ent'[s].events
    OBVIOUS
  <2>2. CASE SwapEnds
    <3>1. /\ pc = "swap" /\ last \in Nat /\ j \in Nat /\ j >= last
          /\ ent' = [s \in 1..last |-> ent[s]]
      BY <1>1, <2>2 DEF SwapEnds, IInv, TypeOK
    <3>2. \A s \in 1..last : ent[s].events
      BY <1>1, <2>1, <3>1 DEF IInv, CompactionInv
    <3> QED
      BY <3>1, <3>2
  <2>3. CASE Trim \/ Swap \/ UNCHANGED vars
    BY <2>1, <2>3 DEF Trim, Swap, vars, Compacting
  <2> QED
    BY <1>1, <2>1, <2>2, <2>3, CompactionExclusive
<1> QED
  BY <1>1, Invariance, PTL DEF Spec, CompactionComplete
-----------------------------------------------------------------------------
\* A live entry is a registration of some descriptor and data.
LEMMA RegInRegistration == IInv => \A s \in Live : RegOf(s) \in Fd \X Data
  BY Array DEF IInv, RegOf, Entry

\* The array with lazy unregistration and compaction under running callbacks
\* implements the registry: every step of it is a step of the registry or none.
THEOREM Refinement == Spec => ImplementsRegistry
<1>1. Init => Registry!Init
  <2> SUFFICES ASSUME Init PROVE Registry!Init
    OBVIOUS
  <2>1. Live = {}
    BY DEF Init, Live, Top, Compacting
  <2> QED
    BY <2>1 DEF Registry!Init, Regs, Due
<1>2. ASSUME IInv, [Next]_vars PROVE [Registry!Next]_(Registry!vars)
  <2> USE DEF Registry!vars
  <2>1. ASSUME NEW f \in Fd, NEW d \in Data, Register(f, d) PROVE Registry!Register(<<f, d>>)
    <3>1. \A s \in Live : ent[s].data # d
      BY <2>1 DEF Register, LiveData
    <3>2. UNCHANGED <<RoundOpen, called>>
      BY <2>1 DEF Register, RoundOpen, Compacting
    <3>3. NewEntry(f, d).fd = f /\ NewEntry(f, d).data = d /\ ~NewEntry(f, d).revents
      BY DEF NewEntry
    <3>4. Regs' = Regs \cup {<<f, d>>} /\ <<f, d>> \notin Regs
      BY <1>2, <2>1, <3>1, <3>3, RegisterLive DEF Regs, RegOf
    <3>5. Due' = Due
      BY <1>2, <2>1, <3>2, <3>3, RegisterLive DEF Due, RegOf
    <3> QED
      BY <3>4, <3>5 DEF Registry!Register
  <2>2. ASSUME NEW f \in Fd, Unregister(f)
        PROVE  \E r \in Registry!Registration : Registry!Unregister(r)
    <3>1. PICK s \in Live : /\ Live' = Live \ {s}
                            /\ \A t \in Live \ {s} : ent'[t] = ent[t]
      BY <1>2, <2>2, UnregisterLive
    <3>2. UNCHANGED <<RoundOpen, called>>
      BY <2>2 DEF Unregister, RoundOpen, Compacting
    <3>3. \A t \in Live \ {s} : RegOf(t) # RegOf(s)
      BY <1>2, <3>1 DEF IInv, DistinctData, RegOf
    <3>4. RegOf(s) \in Regs /\ Regs' = Regs \ {RegOf(s)}
      BY <3>1, <3>3 DEF Regs, RegOf
    <3>5. Due' = Due \ {RegOf(s)}
      BY <3>1, <3>2, <3>3 DEF Due, RegOf
    <3> QED
      BY <1>2, <3>4, <3>5, RegInRegistration DEF Registry!Unregister, Registry!Registration
  <2>3. CASE Poll
    <3>1. Regs' = Regs
      BY <1>2, <2>3, PollLive DEF Regs, RegOf
    <3>2. Due' \subseteq Regs'
      BY DEF Due, Regs, RegOf
    <3> QED
      BY <3>1, <3>2 DEF Registry!Next, Registry!Poll
  <2>4. CASE StepCall
    <3>1. i \in Live /\ ent[i].revents
      BY <1>2, <2>4 DEF StepCall, InRound, Live, Top, Compacting, IInv, TypeOK
    <3>2. ent[i].data \notin called
      BY <1>2, <2>4, <3>1 DEF StepCall, InRound, IInv, AheadUncalled, RoundOpen
    <3>3. /\ RoundOpen /\ RoundOpen' /\ called' = called \cup {ent[i].data}
          /\ Live' = Live /\ ent' = ent
      BY <1>2, <2>4, QuietLive DEF StepCall, InRound, RoundOpen
    <3>4. RegOf(i) \in Due /\ Regs' = Regs
      BY <3>1, <3>2, <3>3 DEF Due, Regs, RegOf
    <3>5. Due' = Due \ {RegOf(i)}
      BY <1>2, <3>1, <3>3 DEF Due, RegOf, IInv, DistinctData
    <3> QED
      BY <1>2, <3>1, <3>4, <3>5, RegInRegistration
      DEF Registry!Next, Registry!Call, Registry!Registration
  <2>5. CASE StepSkip \/ CallReturns \/ EventLoopTest
    <3>1. UNCHANGED <<RoundOpen, called>>
      BY <2>5 DEF StepSkip, CallReturns, EventLoopTest, InRound, BatchUnregister, RoundOpen, Compacting
    <3> QED
      BY <1>2, <2>5, <3>1, QuietLive DEF Due, Regs, RegOf
  <2>6. CASE StepEnds
    <3>1. ~RoundOpen'
      BY <2>6 DEF StepEnds, BatchUnregister, RoundOpen, Compacting
    <3>2. Regs' = Regs /\ Due' = {}
      BY <1>2, <2>6, <3>1, QuietLive DEF Due, Regs, RegOf
    <3> QED
      BY <3>2 DEF Registry!Next, Registry!Poll
  <2>7. CASE Trim \/ Swap \/ SwapEnds
    <3>1. Regs' = Regs /\ (Due' = Due \/ Due' = {})
      BY <1>2, <2>7, CompactionRegs
    <3> QED
      BY <3>1 DEF Registry!Next, Registry!Poll
  <2>8. CASE UNCHANGED vars
    BY <2>8 DEF vars, Regs, Due, RegOf, RoundOpen, Live, Top, Compacting
  <2> QED
    BY <1>2, <2>1, <2>2, <2>3, <2>4, <2>5, <2>6, <2>7, <2>8
    DEF Next, Loop, Registry!Next, Registry!Registration
<1> QED
  BY <1>1, <1>2, Invariance, PTL DEF Spec, ImplementsRegistry, Registry!Spec
-----------------------------------------------------------------------------
\* The ready entries, dead or alive, that the round has still to meet.
ReadyAhead == {s \in 1..Top : ent[s].revents /\ (s > i \/ (s = i /\ pc = "step"))}

\* The live ready entries that the round has met were called, or were moved past it.
BehindServed ==
  RoundOpen =>
    \A s \in Live :
      ent[s].revents /\ s \notin ReadyAhead => ent[s].data \in called \cup skipped

\* The countdown does not come to zero before the last ready entry is met.
Countdown == RoundOpen => Cardinality(ReadyAhead) <= count

\* What the count and the index of the round mean, under a compaction too.
ServedInv == BehindServed /\ Countdown /\ ServesAllReady

\* The entries in force are among those of the array.
LEMMA TopRange ==
  ASSUME TypeOK
  PROVE  Top \in Nat /\ Top <= Len(ent) /\ Len(ent) \in Nat
BY Array DEF TypeOK, Top

\* The entries ahead are finitely many, fewer when one is met, and no more when one of
\* them takes another place.
LEMMA AheadFinite ==
  ASSUME TypeOK
  PROVE  /\ Cardinality(ReadyAhead) \in Nat
         /\ Cardinality(ReadyAhead) = 0 => ReadyAhead = {}
         /\ \A s :
              /\ Cardinality(ReadyAhead \ {s}) \in Nat
              /\ Cardinality(ReadyAhead \ {s}) <= Cardinality(ReadyAhead)
              /\ s \in ReadyAhead =>
                   /\ Cardinality(ReadyAhead \ {s}) = Cardinality(ReadyAhead) - 1
                   /\ \A r : /\ Cardinality((ReadyAhead \ {s}) \cup {r}) \in Nat
                             /\ Cardinality((ReadyAhead \ {s}) \cup {r})
                                  <= Cardinality(ReadyAhead)
<1>1. ReadyAhead \subseteq 1..Top /\ Top \in Nat
  BY TopRange DEF ReadyAhead
<1>2. IsFiniteSet(1..Top)
  BY <1>1, FS_Interval
<1>3. IsFiniteSet(ReadyAhead)
  BY <1>1, <1>2, FS_Subset
<1>4. Cardinality(ReadyAhead) \in Nat /\ (Cardinality(ReadyAhead) = 0 => ReadyAhead = {})
  BY <1>3, FS_CardinalityType, FS_EmptySet
<1>5. ASSUME NEW s \in ReadyAhead
      PROVE  /\ Cardinality(ReadyAhead \ {s}) = Cardinality(ReadyAhead) - 1
             /\ Cardinality(ReadyAhead \ {s}) \in Nat
             /\ \A r : /\ Cardinality((ReadyAhead \ {s}) \cup {r}) \in Nat
                       /\ Cardinality((ReadyAhead \ {s}) \cup {r}) <= Cardinality(ReadyAhead)
  <2>1. IsFiniteSet(ReadyAhead \ {s})
    BY <1>3, FS_Subset
  <2>2. /\ Cardinality(ReadyAhead \ {s}) = Cardinality(ReadyAhead) - 1
        /\ Cardinality(ReadyAhead \ {s}) \in Nat
    BY <1>3, <2>1, FS_RemoveElement, FS_CardinalityType
  <2>3. ASSUME NEW r
        PROVE  /\ Cardinality((ReadyAhead \ {s}) \cup {r}) \in Nat
               /\ Cardinality((ReadyAhead \ {s}) \cup {r}) <= Cardinality(ReadyAhead)
    <3>1. CASE r \in ReadyAhead \ {s}
      <4>1. (ReadyAhead \ {s}) \cup {r} = ReadyAhead \ {s}
        BY <3>1
      <4> QED
        BY <1>4, <2>2, <4>1
    <3>2. CASE r \notin ReadyAhead \ {s}
      <4>1. Cardinality((ReadyAhead \ {s}) \cup {r}) = Cardinality(ReadyAhead \ {s}) + 1
        BY <2>1, <3>2, FS_AddElement
      <4> QED
        BY <1>4, <2>2, <4>1
    <3> QED
      BY <3>1, <3>2
  <2> QED
    BY <2>2, <2>3
<1>6. ASSUME NEW s, s \notin ReadyAhead PROVE ReadyAhead \ {s} = ReadyAhead
  BY <1>6
<1> QED
  BY <1>4, <1>5, <1>6

\* Registering and unregistering under a round leave what it has to meet, and what it
\* has called, as they are.
LEMMA CallersServed ==
  ASSUME IInv, ServedInv, NEW f \in Fd,
         Unregister(f) \/ \E d \in Data : Register(f, d)
  PROVE  ServedInv'
<1>0. Len(ent) \in Nat /\ DOMAIN ent = 1..Len(ent) /\ Live \subseteq 1..Len(ent)
      /\ \A s \in 1..Len(ent) : ent[s] \in Entry
  BY Array DEF IInv
<1>1. UNCHANGED <<pc, i, count, ret, called, skipped>> /\ ~Compacting
  BY DEF Register, Unregister, CallerRuns, Compacting
<1>t. Top = Len(ent) /\ Top' = Len(ent')
  BY <1>1 DEF Top, Compacting
<1>2. /\ RoundOpen' = RoundOpen
      /\ ReadyAhead' = ReadyAhead
      /\ \A s \in Live' : ent'[s].revents =>
            s \in Live /\ ent[s].revents /\ ent'[s].data = ent[s].data
  <2>0. RoundOpen' = RoundOpen
    BY <1>1 DEF RoundOpen, Compacting
  <2>1. CASE Unregister(f)
    <3>1. PICK t \in Live : ent' = [ent EXCEPT ![t].events = FALSE]
      BY <2>1 DEF Unregister
    <3>2. \A s \in 1..Len(ent) : ent'[s].revents = ent[s].revents
      BY <1>0, <3>1 DEF Entry
    <3>3. Len(ent') = Len(ent)
      BY <3>1, <1>0 DEF IInv, TypeOK
    <3>4. ReadyAhead' = ReadyAhead
      BY <1>0, <1>1, <1>t, <3>2, <3>3 DEF ReadyAhead
    <3> QED
      BY <2>0, <2>1, <3>4, UnregisterLive
  <2>2. CASE \E d \in Data : Register(f, d)
    <3>1. PICK d \in Data : Register(f, d)
      BY <2>2
    <3>2. NewEntry(f, d) \in Entry /\ ~NewEntry(f, d).revents
      BY DEF NewEntry, Entry
    <3>3. /\ Len(ent') = Len(ent) + 1 /\ ent'[Len(ent) + 1] = NewEntry(f, d)
          /\ \A s \in 1..Len(ent) : ent'[s] = ent[s]
      BY <3>1, <3>2, <1>0 DEF Register, IInv, TypeOK
    <3>4. ReadyAhead' = ReadyAhead
      BY <1>0, <1>1, <1>t, <3>2, <3>3 DEF ReadyAhead
    <3> QED
      BY <2>0, <3>1, <3>2, <3>4, RegisterLive
  <2> QED
    BY <2>1, <2>2
<1> QED
  BY <1>1, <1>2 DEF ServedInv, BehindServed, Countdown, ServesAllReady

\* A poll starts the countdown with the number of the entries that are ready.
LEMMA PollServed ==
  ASSUME IInv, Poll
  PROVE  ServedInv'
<1>0. Len(ent) \in Nat /\ DOMAIN ent = 1..Len(ent) /\ Live \subseteq 1..Len(ent)
      /\ \A s \in 1..Len(ent) : ent[s] \in Entry
  BY Array DEF IInv
<1>1. PICK ready \in SUBSET (1..Len(ent)) :
          /\ ent' = [s \in 1..Len(ent) |-> [ent[s] EXCEPT !.revents = s \in ready]]
          /\ count' = Cardinality(ready)
          /\ pc' = IF ready = {} THEN "idle" ELSE "step"
  BY <1>0 DEF Poll
<1>2. DOMAIN ent' = 1..Len(ent) /\ \A s \in 1..Len(ent) : ent'[s].revents = (s \in ready)
  BY <1>0, <1>1 DEF Entry
<1>3. i' = 1 /\ ~Compacting' /\ Live' \subseteq 1..Len(ent) /\ Top' = Len(ent)
  <2>1. Len(ent') = Len(ent)
    BY <1>0, <1>1 DEF IInv, TypeOK
  <2> QED
    BY <1>0, <1>1, <2>1, PollLive DEF Poll, Compacting, Top
<1>4. CASE ready = {}
  <2>1. ~RoundOpen'
    BY <1>1, <1>3, <1>4 DEF RoundOpen
  <2>2. \A s \in Live' : ~ent'[s].revents
    BY <1>2, <1>3, <1>4
  <2> QED
    BY <2>1, <2>2 DEF ServedInv, BehindServed, Countdown, ServesAllReady
<1>5. CASE ready # {}
  <2>1. pc' = "step" /\ RoundOpen'
    BY <1>1, <1>5 DEF RoundOpen
  <2>2. ReadyAhead' = ready
    <3>1. \A s \in 1..Len(ent) : ent'[s].revents /\ (s > i' \/ (s = i' /\ pc' = "step")) <=> s \in ready
      <4>1. \A s \in 1..Len(ent) : s > i' \/ (s = i' /\ pc' = "step")
        BY <1>0, <1>3, <2>1
      <4> QED
        BY <1>2, <4>1, Zenon
    <3>2. ready \subseteq 1..Len(ent)
      BY <1>1
    <3>3. Top' = Len(ent)
      BY <1>3
    <3>4. \A s : s \in ReadyAhead' <=> s \in ready
      BY <3>1, <3>2, <3>3, Zenon DEF ReadyAhead
    <3> QED
      BY <3>4
  <2>3. Cardinality(ready) <= Cardinality(ready)
    <3>1. IsFiniteSet(1..Len(ent))
      BY <1>0, FS_Interval
    <3> QED
      BY <3>1, FS_Subset, FS_CardinalityType
  <2>4. \A s \in Live' : ent'[s].revents => s \in ready
    BY <1>2, <1>3
  <2> QED
    BY <1>1, <1>3, <2>1, <2>2, <2>3, <2>4
    DEF ServedInv, BehindServed, Countdown, ServesAllReady
<1> QED
  BY <1>4, <1>5

\* A step of the round either calls the entry it meets or has no reason to.
LEMMA RoundServed ==
  ASSUME IInv, ServedInv, StepCall \/ StepSkip \/ CallReturns
  PROVE  ServedInv'
<1>0. /\ i \in Nat \ {0} /\ count \in Nat /\ Len(ent) \in Nat /\ DOMAIN ent = 1..Len(ent)
      /\ Live \subseteq 1..Len(ent)
  BY Array DEF IInv, TypeOK
<1>1. Live' = Live /\ ent' = ent /\ skipped' = skipped /\ Top = Len(ent) /\ Top' = Len(ent)
  BY QuietLive DEF StepCall, StepSkip, CallReturns, InRound, Top, Compacting
<1>2. pc \in {"step", "call"} /\ pc' \in {"step", "call"} /\ RoundOpen /\ RoundOpen'
  BY DEF StepCall, StepSkip, CallReturns, InRound, RoundOpen, Compacting
<1>3. SUFFICES ASSUME BehindServed, Countdown PROVE BehindServed' /\ Countdown'
  BY <1>1, <1>2 DEF ServedInv, ServesAllReady
<1>4. Cardinality(ReadyAhead) <= count
  BY <1>2, <1>3 DEF Countdown
<1>5. /\ Cardinality(ReadyAhead) \in Nat /\ Cardinality(ReadyAhead \ {i}) \in Nat
      /\ Cardinality(ReadyAhead \ {i}) <= Cardinality(ReadyAhead)
      /\ i \in ReadyAhead => Cardinality(ReadyAhead \ {i}) = Cardinality(ReadyAhead) - 1
  <2>1. TypeOK
    BY DEF IInv
  <2> QED
    BY <2>1, AheadFinite
<1>6. CASE StepCall
  <2>1. i \in ReadyAhead /\ pc = "step" /\ pc' = "call" /\ i' = i /\ count' = count - 1
        /\ called' = called \cup {ent[i].data}
    BY <1>0, <1>1, <1>6 DEF StepCall, InRound, ReadyAhead
  <2>2. ReadyAhead' = ReadyAhead \ {i}
    BY <1>0, <1>1, <2>1 DEF ReadyAhead
  <2> QED
    BY <1>0, <1>1, <1>2, <1>3, <1>4, <1>5, <2>1, <2>2 DEF BehindServed, Countdown
<1>7. CASE StepSkip
  <2>1. pc = "step" /\ pc' = "step" /\ i' = i + 1 /\ UNCHANGED <<count, called>>
        /\ ~(ent[i].events /\ ent[i].revents)
    BY <1>7 DEF StepSkip, InRound
  <2>2. ReadyAhead' = ReadyAhead \ {i}
    BY <1>0, <1>1, <2>1 DEF ReadyAhead
  <2>3. ~(i \in Live /\ ent[i].revents)
    BY <2>1 DEF Live
  <2> QED
    BY <1>0, <1>1, <1>2, <1>3, <1>4, <1>5, <2>1, <2>2, <2>3 DEF BehindServed, Countdown
<1>8. CASE CallReturns
  <2>1. pc = "call" /\ pc' = "step" /\ i' = i + 1 /\ UNCHANGED <<count, called>>
    BY <1>8 DEF CallReturns
  <2>2. ReadyAhead' = ReadyAhead
    BY <1>0, <1>1, <2>1 DEF ReadyAhead
  <2> QED
    BY <1>1, <1>2, <1>3, <1>4, <2>1, <2>2 DEF BehindServed, Countdown
<1> QED
  BY <1>6, <1>7, <1>8

\* A compaction takes entries from the end: what was ahead of the round's index stays
\* ahead or goes behind it, and then it is among the skipped.
LEMMA SwapServed ==
  ASSUME IInv, BehindServed, Countdown, Swap
  PROVE  BehindServed' /\ Countdown'
<1>0. /\ i \in Nat \ {0} /\ j \in Nat \ {0} /\ count \in Nat /\ Len(ent) \in Nat
      /\ DOMAIN ent = 1..Len(ent) /\ last \in 0..Len(ent) /\ TypeOK
  BY Array DEF IInv, TypeOK
<1>1. /\ pc = "swap" /\ j < last /\ Compacting /\ Compacting' /\ RoundOpen' = RoundOpen
      /\ UNCHANGED <<i, count, called>> /\ Top = last /\ Top' = last'
  BY DEF Swap, Compacting, RoundOpen, Top
<1>2. SUFFICES ASSUME RoundOpen PROVE BehindServed' /\ Countdown'
  BY <1>1 DEF BehindServed, Countdown
<1>3. ret = "call" /\ Cardinality(ReadyAhead) <= count /\ \A s \in ReadyAhead : s > i
  BY <1>0, <1>1, <1>2 DEF Countdown, RoundOpen, ReadyAhead
<1>4. CASE ent[j].events
  <2>1. UNCHANGED <<ent, last, skipped>> /\ pc' = pc
    BY <1>4 DEF Swap
  <2>2. ReadyAhead' = ReadyAhead /\ Live' = Live
    BY <1>1, <2>1 DEF ReadyAhead, Live
  <2> QED
    BY <1>1, <1>2, <2>1, <2>2 DEF BehindServed, Countdown
<1>5. CASE ~ent[j].events
  <2>1. /\ ent' = [ent EXCEPT ![j] = ent[last]] /\ last' = last - 1
        /\ skipped' = skipped \cup Overtaken /\ pc' = "trim"
    BY <1>5 DEF Swap, Filled
  <2>2. /\ ent'[j] = ent[last] /\ j \in 1..Top /\ last \in 1..Top
        /\ \A s \in 1..Top : s # j => ent'[s] = ent[s]
    BY <1>0, <1>1, <2>1
  <2>3. 1..Top' \subseteq 1..Top /\ last \notin 1..Top'
    BY <1>0, <1>1, <2>1
  <2>4. \A s : s \in ReadyAhead' <=> s \in 1..Top' /\ ent'[s].revents /\ s > i
    BY <1>0, <1>1, <2>1 DEF ReadyAhead
  <2>5. \A s : s \in ReadyAhead <=> s \in 1..Top /\ ent[s].revents /\ s > i
    BY <1>0, <1>1 DEF ReadyAhead
  <2>6. \A s : s \in ReadyAhead' /\ s # j => s \in ReadyAhead \ {last}
    BY <2>2, <2>3, <2>4, <2>5
  <2>7. \A s : s \in Live' <=> s \in 1..Top' /\ ent'[s].events
    BY DEF Live
  <2>8. \A s \in Live' : s # j => s \in Live /\ ent'[s] = ent[s]
    BY <2>2, <2>3, <2>7 DEF Live
  <2>9. \A s \in 1..Top' : s # j /\ s \in ReadyAhead => s \in ReadyAhead'
    BY <2>2, <2>3, <2>4, <2>5
  <2>10. j \in Live' => last \in Live
    BY <2>2, <2>7 DEF Live
  <2>11. BehindServed'
    <3> SUFFICES ASSUME NEW s \in Live', ent'[s].revents, s \notin ReadyAhead'
                 PROVE  ent'[s].data \in called' \cup skipped'
      BY DEF BehindServed
    <3>1. CASE s # j
      <4>1. s \in Live /\ ent[s].revents /\ s \notin ReadyAhead /\ ent'[s].data = ent[s].data
        BY <2>7, <2>8, <2>9, <3>1
      <4> QED
        BY <1>1, <1>2, <2>1, <4>1 DEF BehindServed
    <3>2. CASE s = j /\ last \in ReadyAhead
      <4>1. last > i
        BY <1>3, <3>2
      <4>2. j <= i
        BY <1>0, <1>1, <2>1, <2>4, <2>7, <3>2
      <4>3. Overtaken = {ent[last].data}
        BY <1>0, <1>3, <4>1, <4>2 DEF Overtaken
      <4> QED
        BY <2>1, <2>2, <3>2, <4>3
    <3>3. CASE s = j /\ last \notin ReadyAhead
      <4>1. last \in Live /\ ent[last].revents /\ ent'[s].data = ent[last].data
        BY <2>2, <2>10, <3>3
      <4> QED
        BY <1>1, <1>2, <2>1, <3>3, <4>1 DEF BehindServed
    <3> QED
      BY <3>1, <3>2, <3>3
  <2>12. Cardinality(ReadyAhead') <= Cardinality(ReadyAhead)
    <3>0. IsFiniteSet(ReadyAhead) /\ Cardinality(ReadyAhead) \in Nat
      <4>1. ReadyAhead \subseteq 1..last
        BY <1>1, <2>5
      <4>2. IsFiniteSet(1..last)
        BY <1>0, FS_Interval
      <4> QED
        BY <4>1, <4>2, FS_Subset, FS_CardinalityType
    <3>1. CASE last \in ReadyAhead
      <4>1. ReadyAhead' \subseteq (ReadyAhead \ {last}) \cup {j}
        BY <2>6
      <4>2. IsFiniteSet((ReadyAhead \ {last}) \cup {j})
        <5>1. IsFiniteSet(ReadyAhead \ {last})
          BY <3>0, FS_Subset
        <5> QED
          BY <5>1, FS_AddElement
      <4>3. /\ Cardinality(ReadyAhead') \in Nat
            /\ Cardinality(ReadyAhead') <= Cardinality((ReadyAhead \ {last}) \cup {j})
        <5>1. IsFiniteSet(ReadyAhead')
          BY <4>1, <4>2, FS_Subset
        <5> QED
          BY <4>1, <4>2, <5>1, FS_Subset, FS_CardinalityType
      <4>4. /\ Cardinality((ReadyAhead \ {last}) \cup {j}) \in Nat
            /\ Cardinality((ReadyAhead \ {last}) \cup {j}) <= Cardinality(ReadyAhead)
        BY <1>0, <3>1, AheadFinite
      <4> QED
        BY <3>0, <4>3, <4>4
    <3>2. CASE last \notin ReadyAhead
      <4>1. ~ent[last].revents \/ last <= i
        BY <1>0, <2>2, <2>5, <3>2
      <4>2. j \notin ReadyAhead'
        BY <1>0, <1>1, <2>2, <2>4, <4>1
      <4>3. ReadyAhead' \subseteq ReadyAhead
        BY <2>6, <4>2
      <4> QED
        BY <3>0, <4>3, FS_Subset
    <3> QED
      BY <3>1, <3>2
  <2>13. Cardinality(ReadyAhead') \in Nat
    <3>1. ReadyAhead' \subseteq 1..last
      BY <1>1, <2>3, <2>4
    <3>2. IsFiniteSet(1..last)
      BY <1>0, FS_Interval
    <3> QED
      BY <3>1, <3>2, FS_Subset, FS_CardinalityType
  <2>14. Cardinality(ReadyAhead) \in Nat
    BY <1>0, AheadFinite
  <2> QED
    BY <1>0, <1>1, <1>3, <2>11, <2>12, <2>13, <2>14 DEF Countdown
<1> QED
  BY <1>4, <1>5

\* A compaction under a callback keeps what the count and the index mean; any other one
\* comes after the round, which ends with nothing ready ahead.
LEMMA CompactionServed ==
  ASSUME IInv, ServedInv, StepEnds \/ EventLoopTest \/ Trim \/ Swap \/ SwapEnds
  PROVE  ServedInv'
<1>0. /\ i \in Nat \ {0} /\ count \in Nat /\ Len(ent) \in Nat /\ DOMAIN ent = 1..Len(ent)
      /\ Live \subseteq 1..Len(ent) /\ ret \in {"idle", "call"} /\ last \in 0..Len(ent)
      /\ TypeOK
  BY Array DEF IInv, TypeOK
<1>1. CASE StepEnds
  <2>1. /\ pc = "step" /\ ~InRound /\ RoundOpen /\ UNCHANGED <<called, skipped>>
        /\ pc' = "trim" /\ ret' = "idle" /\ Top = Len(ent)
    BY <1>1 DEF StepEnds, BatchUnregister, RoundOpen, Top, Compacting
  <2>2. Live' = Live /\ ent' = ent
    BY <1>1, QuietLive
  <2>3. ReadyAhead = {}
    <3>1. CASE i > Len(ent)
      BY <1>0, <2>1, <3>1 DEF ReadyAhead
    <3>2. CASE count = 0
      <4>1. Cardinality(ReadyAhead) <= 0 /\ Cardinality(ReadyAhead) \in Nat
        BY <1>0, <2>1, <3>2, AheadFinite DEF ServedInv, Countdown
      <4>2. Cardinality(ReadyAhead) = 0
        BY <4>1
      <4> QED
        BY <1>0, <4>2, AheadFinite
    <3> QED
      BY <1>0, <2>1, <3>1, <3>2 DEF InRound
  <2>4. \A s \in Live : ent[s].revents => ent[s].data \in called \cup skipped
    BY <2>1, <2>3 DEF ServedInv, BehindServed
  <2>5. ~RoundOpen'
    BY <2>1 DEF RoundOpen
  <2> QED
    BY <2>1, <2>2, <2>4, <2>5 DEF ServedInv, BehindServed, Countdown, ServesAllReady
<1>2. CASE EventLoopTest
  <2>1. /\ pc = "call" /\ RoundOpen /\ pc' = "trim" /\ RoundOpen' /\ Top' = Top
        /\ UNCHANGED <<ent, i, count, called, skipped>>
    BY <1>2 DEF EventLoopTest, BatchUnregister, RoundOpen, Compacting, Top
  <2>2. Live' = Live /\ ReadyAhead' = ReadyAhead
    BY <2>1 DEF Live, ReadyAhead
  <2> QED
    BY <2>1, <2>2 DEF ServedInv, BehindServed, Countdown, ServesAllReady
<1>3. CASE Trim \/ Swap \/ SwapEnds
  <2>1. Compacting /\ called' = called /\ RoundOpen' = RoundOpen /\ (RoundOpen <=> ret = "call")
    BY <1>0, <1>3 DEF Trim, Swap, SwapEnds, Compacting, RoundOpen
  <2>2. ASSUME RoundOpen PROVE BehindServed' /\ Countdown'
    <3>1. CASE Trim
      <4>1. /\ UNCHANGED <<ent, i, count, skipped>> /\ Compacting' /\ Top = last /\ Top' = last'
            /\ last' \in {last, last - 1}
            /\ last' = last \/ (last > 0 /\ ~ent[last].events)
            /\ pc # "step" /\ pc' # "step"
        BY <3>1 DEF Trim, Compacting, Top
      <4>2. \A s : s \in ReadyAhead' <=> s \in ReadyAhead /\ s \in 1..last'
        BY <1>0, <4>1 DEF ReadyAhead
      <4>3. Live' \subseteq Live /\ \A s \in Live' : s \in 1..last'
        BY <1>0, <4>1 DEF Live
      <4>4. BehindServed'
        BY <2>1, <2>2, <4>1, <4>2, <4>3 DEF ServedInv, BehindServed
      <4>5. ReadyAhead' = ReadyAhead \/ ReadyAhead' = ReadyAhead \ {last}
        BY <1>0, <4>1, <4>2 DEF ReadyAhead
      <4>6. Cardinality(ReadyAhead') \in Nat /\ Cardinality(ReadyAhead') <= Cardinality(ReadyAhead)
        <5>1. /\ Cardinality(ReadyAhead) \in Nat /\ Cardinality(ReadyAhead \ {last}) \in Nat
              /\ Cardinality(ReadyAhead \ {last}) <= Cardinality(ReadyAhead)
          BY <1>0, AheadFinite
        <5> QED
          BY <4>5, <5>1
      <4>7. Cardinality(ReadyAhead) \in Nat /\ Cardinality(ReadyAhead) <= count
        BY <1>0, <2>2, AheadFinite DEF ServedInv, Countdown
      <4> QED
        BY <1>0, <4>1, <4>4, <4>6, <4>7 DEF Countdown
    <3>2. CASE Swap
      BY <3>2, SwapServed DEF ServedInv
    <3>3. CASE SwapEnds
      <4>1. /\ UNCHANGED <<i, count, skipped>> /\ pc' = "call" /\ pc # "step" /\ Top = last
            /\ ent' = [s \in 1..last |-> ent[s]]
        BY <2>1, <2>2, <3>3 DEF SwapEnds, Top, Compacting
      <4>2. Len(ent') = last /\ Top' = last /\ \A s \in 1..last : ent'[s] = ent[s]
        <5>1. [s \in 1..last |-> ent[s]] \in [1..last -> Entry] /\ last \in Nat
          BY <1>0, Array
        <5>2. Len(ent') = last
          BY <4>1, <5>1, SeqOfEntries
        <5> QED
          BY <4>1, <5>2 DEF Top, Compacting
      <4>3. ReadyAhead' = ReadyAhead /\ Live' = Live
        BY <4>1, <4>2 DEF ReadyAhead, Live
      <4>4. Live \subseteq 1..last
        BY <4>1 DEF Live
      <4> QED
        BY <2>1, <2>2, <4>1, <4>2, <4>3, <4>4 DEF ServedInv, BehindServed, Countdown
    <3> QED
      BY <1>3, <3>1, <3>2, <3>3
  <2>3. ASSUME ~RoundOpen PROVE ServesAllReady'
    <3>1. \A s \in Live : ent[s].revents => ent[s].data \in called \cup skipped
      BY <2>3 DEF ServedInv, ServesAllReady
    <3>2. \A s \in Live' : \E t \in Live : ent'[s].revents = ent[t].revents /\ ent'[s].data = ent[t].data
      <4>1. CASE Trim
        BY <4>1, TrimLive
      <4>2. CASE Swap
        BY <4>2, SwapLive
      <4>3. CASE SwapEnds
        BY <4>3, SwapEndsLive
      <4> QED
        BY <1>3, <4>1, <4>2, <4>3
    <3>3. skipped \subseteq skipped'
      BY <1>3 DEF Trim, Swap, SwapEnds
    <3> QED
      BY <2>1, <3>1, <3>2, <3>3 DEF ServesAllReady
  <2> QED
    BY <2>1, <2>2, <2>3 DEF ServedInv, BehindServed, Countdown, ServesAllReady
<1> QED
  BY <1>1, <1>2, <1>3

\* event_loop_step_helper counts down over live and dead entries and stops at zero, while
\* its callbacks register, unregister and compact the array under it: for every capacity
\* of the array, an entry that poll() reported and that is still registered is left out
\* of the round only when a compaction under a callback moved it past the round's index.
THEOREM AllReadyServed == Spec => []ServesAllReady
<1>1. Init => ServedInv
  <2> SUFFICES ASSUME Init PROVE ServedInv
    OBVIOUS
  <2>1. pc = "idle" /\ Live = {} /\ ~RoundOpen
    BY DEF Init, Live, Top, Compacting, RoundOpen
  <2> QED
    BY <2>1 DEF ServedInv, BehindServed, Countdown, ServesAllReady
<1>2. IInv /\ ServedInv /\ [Next]_vars => ServedInv'
  <2> SUFFICES ASSUME IInv, ServedInv, [Next]_vars PROVE ServedInv'
    OBVIOUS
  <2>1. CASE UNCHANGED vars
    BY <2>1 DEF vars, ServedInv, BehindServed, Countdown, ServesAllReady, ReadyAhead,
       RoundOpen, Live, Top, Compacting
  <2> QED
    BY <2>1, CallersServed, PollServed, RoundServed, CompactionServed DEF Next, Loop
<1>3. ServedInv => ServesAllReady
  BY DEF ServedInv
<1> QED
  BY <1>1, <1>2, <1>3, Invariance, PTL DEF Spec
=============================================================================
