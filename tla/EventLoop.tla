------------------------------ MODULE EventLoop ------------------------------
(***************************************************************************)
(* The event loop of one process: base/src/event_loop_poll.c.  It keeps an *)
(* array of pollfd entries; unregistering only clears the entry's events,  *)
(* and the array is compacted at the end of every round of dispatching.    *)
(* Callbacks run inside the round and may register, unregister and, through*)
(* the control socket's test command, compact the array under the round.   *)
(*                                                                         *)
(* The entries beyond internal_nfds, which the code never reads, are left  *)
(* out: ent is the array up to internal_nfds, counted from 1.  The locals  *)
(* of a function that has returned hold their initial values.              *)
(***************************************************************************)
EXTENDS Naturals, Sequences, FiniteSets

CONSTANTS Fd,           \* descriptor numbers
          Data,         \* the on_event/event_data pairs, one per registered object
          MaxPollFd,    \* the capacity of the array
          TestEntries   \* the entries event_loop_test_helper adds and removes

ASSUME CapacityAssumption == MaxPollFd \in Nat /\ TestEntries \in Nat

VARIABLES
  ent,     \* internal_fds and internal_callback
  pc,      \* where the loop is: between polls, in the round, in a callback, compacting
  i,       \* the round's index
  count,   \* the ready entries the round has still to meet
  j,       \* the compaction's index of the next hole
  last,    \* the compaction's index of the last live entry
  ret,     \* what the compaction returns to: the idle loop or a callback
  nested,  \* has a callback compacted the array in this round?
  called,  \* the data called since the last poll (history)
  skipped  \* the data a compaction under a callback moved past the index (history)

vars == <<ent, pc, i, count, j, last, ret, nested, called, skipped>>

Entry == [fd: Fd, data: Data, events: BOOLEAN, revents: BOOLEAN]

Init ==
  /\ ent = <<>>
  /\ pc = "idle"
  /\ i = 1 /\ count = 0
  /\ j = 1 /\ last = 0 /\ ret = "idle"
  /\ nested = FALSE
  /\ called = {} /\ skipped = {}
-----------------------------------------------------------------------------
Compacting == pc \in {"trim", "swap"}

\* Other fibers run between polls, the callback of an entry inside the round.
CallerRuns == pc \in {"idle", "call"}

\* The entries in force; during a compaction those above last are copies or dead.
Top == IF Compacting THEN last ELSE Len(ent)
Live == {s \in 1..Top : ent[s].events}
LiveData == {ent[s].data : s \in Live}

\* Fault: revents keeps what the slot's last occupant left in it.
StaleNewEntry(f, d) == [fd |-> f, data |-> d, events |-> TRUE, revents |-> TRUE]
NewEntry(f, d) == [fd |-> f, data |-> d, events |-> TRUE, revents |-> FALSE]

\* Fault: the capacity assertion lets one entry too many in.
HasRoomOffByOne == Len(ent) <= MaxPollFd
HasRoom == Len(ent) < MaxPollFd

\* An entry is appended with no readiness of its own.  A full array fails the code's
\* assertion (line 32), as an error of poll() does (lines 114-117): the process ends
\* there, and the model describes it up to that point.
Register(f, d) ==
  /\ CallerRuns
  /\ HasRoom
  /\ d \notin LiveData
  /\ ent' = Append(ent, NewEntry(f, d))
  /\ UNCHANGED <<pc, i, count, j, last, ret, nested, called, skipped>>

\* The first live entry of the descriptor is marked, and leaves at a compaction.
Unregister(f) ==
  /\ CallerRuns
  /\ \E s \in Live :
       /\ ent[s].fd = f
       /\ \A t \in Live : ent[t].fd = f => s <= t
       /\ ent' = [ent EXCEPT ![s].events = FALSE]
  /\ UNCHANGED <<pc, i, count, j, last, ret, nested, called, skipped>>

\* poll() reports any of the entries, dead ones too (POLLHUP, POLLNVAL), and
\* rewrites every revents; with none the step returns at once.
Poll ==
  /\ pc = "idle"
  /\ ent # <<>>
  /\ \E ready \in SUBSET DOMAIN ent :
       /\ ent' = [s \in DOMAIN ent |-> [ent[s] EXCEPT !.revents = s \in ready]]
       /\ count' = Cardinality(ready)
       /\ pc' = IF ready = {} THEN "idle" ELSE "step"
  /\ i' = 1
  /\ nested' = FALSE
  /\ called' = {} /\ skipped' = {}
  /\ UNCHANGED <<j, last, ret>>

\* Fault: the round leaves the last entry out.
InRoundShort == pc = "step" /\ i < Len(ent) /\ count > 0
InRound == pc = "step" /\ i <= Len(ent) /\ count > 0

StepCall ==
  /\ InRound
  /\ ent[i].events /\ ent[i].revents
  /\ count' = count - 1
  /\ called' = called \cup {ent[i].data}
  /\ pc' = "call"
  /\ UNCHANGED <<ent, i, j, last, ret, nested, skipped>>

\* Fault: the loop does not advance over an entry that is dead or not ready.
StepSkipStays == InRound /\ ~(ent[i].events /\ ent[i].revents) /\ UNCHANGED vars
StepSkip ==
  /\ InRound
  /\ ~(ent[i].events /\ ent[i].revents)
  /\ i' = i + 1
  /\ UNCHANGED <<ent, pc, count, j, last, ret, nested, called, skipped>>

CallReturns ==
  /\ pc = "call"
  /\ pc' = "step"
  /\ i' = i + 1
  /\ UNCHANGED <<ent, count, j, last, ret, nested, called, skipped>>

\* Fault: the dead entries at the end are not trimmed before the swaps.
BatchUnregisterUntrimmed(from) ==
  pc' = "swap" /\ last' = Len(ent) /\ j' = 1 /\ ret' = from
BatchUnregister(from) ==
  /\ pc' = "trim"
  /\ last' = Len(ent)
  /\ j' = 1
  /\ ret' = from

StepEnds ==
  /\ pc = "step" /\ ~InRound
  /\ BatchUnregister("idle")
  /\ i' = 1 /\ count' = 0
  /\ UNCHANGED <<ent, nested, called, skipped>>

\* The shake command test/event_loop_test, run by the callback of the control
\* socket, which is called at most once in a round: its own entries are dead
\* and at the end of the array when it compacts.
EventLoopTest ==
  /\ pc = "call"
  /\ ~nested
  /\ Len(ent) + TestEntries <= MaxPollFd
  /\ BatchUnregister("call")
  /\ nested' = TRUE
  /\ UNCHANGED <<ent, i, count, called, skipped>>

\* The inner loop of event_loop_batch_unregister: skip the dead at the end.
Trim ==
  /\ pc = "trim"
  /\ IF last > 0 /\ ~ent[last].events
     THEN last' = last - 1 /\ UNCHANGED pc
     ELSE pc' = "swap" /\ UNCHANGED last
  /\ UNCHANGED <<ent, i, count, j, ret, nested, called, skipped>>

\* Fault: the pollfd moves without its callback.
FilledFdOnly == [ent EXCEPT ![j] = [ent[last] EXCEPT !.data = ent[j].data]]
Filled == [ent EXCEPT ![j] = ent[last]]

\* An entry still ahead of a callback's round that goes to a hole behind it.
Overtaken == IF ret = "call" /\ j <= i /\ i < last THEN {ent[last].data} ELSE {}

\* Its outer loop: a hole takes the last live entry.
Swap ==
  /\ pc = "swap" /\ j < last
  /\ j' = j + 1
  /\ IF ent[j].events
     THEN UNCHANGED <<ent, pc, last, skipped>>
     ELSE /\ ent' = Filled
          /\ skipped' = skipped \cup Overtaken
          /\ last' = last - 1
          /\ pc' = "trim"
  /\ UNCHANGED <<i, count, ret, nested, called>>

SwapEnds ==
  /\ pc = "swap" /\ j >= last
  /\ ent' = [s \in 1..last |-> ent[s]]
  /\ pc' = ret
  /\ j' = 1 /\ last' = 0 /\ ret' = "idle"
  /\ UNCHANGED <<i, count, nested, called, skipped>>

Loop == StepCall \/ StepSkip \/ CallReturns \/ StepEnds \/ Trim \/ Swap \/ SwapEnds

Next ==
  \/ Poll \/ Loop \/ EventLoopTest
  \/ \E f \in Fd : Unregister(f) \/ \E d \in Data : Register(f, d)

\* fiber_module_run calls the step for ever, and callbacks return.
Spec == Init /\ [][Next]_vars /\ WF_vars(Poll) /\ WF_vars(Loop)
-----------------------------------------------------------------------------
TypeOK ==
  /\ ent \in Seq(Entry) /\ Len(ent) <= MaxPollFd
  /\ pc \in {"idle", "step", "call", "trim", "swap"}
  /\ i \in Nat \ {0} /\ count \in Nat /\ j \in Nat \ {0} /\ last \in 0..Len(ent)
  /\ ret \in {"idle", "call"}
  /\ nested \in BOOLEAN
  /\ called \subseteq Data /\ skipped \subseteq Data

RegOf(s) == <<ent[s].fd, ent[s].data>>
Regs == {RegOf(s) : s \in Live}
RoundOpen == pc \in {"step", "call"} \/ (Compacting /\ ret = "call")
Due == IF RoundOpen
       THEN {RegOf(s) : s \in {t \in Live : ent[t].revents /\ ent[t].data \notin called}}
       ELSE {}

Registry == INSTANCE EventRegistry WITH reg <- Regs, due <- Due

\* Whatever callbacks do to the array under the round's index, each poll calls a
\* registration at most once, only if it was ready, and only while it is in
\* force: a descriptor number registered again is not called for its
\* predecessor's readiness (event_loop_step_helper, event_loop_register_fd).
ImplementsRegistry == Registry!Spec

\* No compaction, at the end of a round or under a callback, loses, invents or
\* changes a registration or its readiness (event_loop_batch_unregister).
CompactionPreserves == [][Compacting => Regs' = Regs /\ Due' \subseteq Due]_vars

\* What check_event_loop.c asserts: a compaction leaves no dead entry.
CompactionComplete ==
  [][Compacting /\ ~Compacting' => \A s \in DOMAIN ent' : ent'[s].events]_vars

\* The countdown of ready entries never ends a round early: a round calls every ready
\* entry still registered, but those that a compaction under one of its callbacks moved
\* from ahead of its index to a hole behind it (event_loop_step_helper, line 95).
ServesAllReady ==
  ~RoundOpen => \A s \in Live : ent[s].revents => ent[s].data \in called \cup skipped

\* Every round, whatever its callbacks do, comes to an end.
RoundEnds == (pc # "idle") ~> (pc = "idle")
=============================================================================
