---------------------------- MODULE EventRegistry ----------------------------
(***************************************************************************)
(* What the event loop of one process promises to the rest of nginz,       *)
(* whatever array it keeps: a set of registrations, of which a poll finds  *)
(* some due, and of which a due one is called at most once before the next *)
(* poll, and only while it is still registered.                            *)
(*                                                                         *)
(* A registration is a pair <<fd, data>>: the descriptor and the           *)
(* on_event/event_data pair the caller gave for it.                        *)
(***************************************************************************)
CONSTANTS Fd,     \* descriptor numbers
          Data    \* the callback/event_data pairs

VARIABLES reg,    \* the registrations in force
          due     \* those the last poll found ready and that are yet to be called

vars == <<reg, due>>

Registration == Fd \X Data

Init == reg = {} /\ due = {}

Register(r) ==
  /\ r \notin reg
  /\ reg' = reg \cup {r}
  /\ UNCHANGED due

\* Ends a registration; with it goes what the last poll said of it.
Unregister(r) ==
  /\ r \in reg
  /\ reg' = reg \ {r}
  /\ due' = due \ {r}

\* A poll, or the end of the round it started: what was due is forgotten.
Poll ==
  /\ due' \in SUBSET reg
  /\ UNCHANGED reg

Call(r) ==
  /\ r \in due
  /\ due' = due \ {r}
  /\ UNCHANGED reg

Next == \/ Poll
        \/ \E r \in Registration : Register(r) \/ Unregister(r) \/ Call(r)

Spec == Init /\ [][Next]_vars
=============================================================================
