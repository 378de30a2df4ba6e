---- MODULE MCWebChat ----
EXTENDS WebChat, TLC

\* Connections are told apart by nothing but their names, and so are slots.
Symmetry == Permutations(Conn) \cup Permutations(Slot)
====
