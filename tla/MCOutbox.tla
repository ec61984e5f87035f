------------------------------- MODULE MCOutbox -------------------------------
(* Outbox on small instances: symmetry of the events and the dispatchers.    *)
EXTENDS Outbox, TLC

Symmetry == Permutations(Events) \cup Permutations(Dispatchers)
=============================================================================
