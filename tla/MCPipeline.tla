----------------------------- MODULE MCPipeline -----------------------------
(* Instances of Pipeline, and of the coder of its messages, for TLC. *)
EXTENDS Pipeline, BinaryCoder, TLC

\* The socket of the first worker fills up once the pids are followed by commands;
\* the others hold all they may get, since nobody reads those of a process that was
\* not forked, of a master whose forks failed, or of an interrupted worker.
CapacityMC == [p \in Slot |-> IF p = 1 THEN 4 ELSE 12]

\* A token of none, the ends of two bytes and of four, and what is in between.
IntsMC == {-1, 0, 300, 65534, 65535, 70000, 2147483647}

MCInit == Init /\ CoderInit

\* Bound: messages are packed before the first fork, as what they hold does not
\* depend on the processes.
MCNext ==
  \/ Next /\ fields = <<>> /\ UNCHANGED coderVars
  \/ forked = 0 /\ boot = "forking" /\ Coding /\ UNCHANGED vars

MCSpec == MCInit /\ [][MCNext]_<<vars, coderVars>> /\ Fairness
=============================================================================
