------------------------ MODULE AtLeastOnceDelivery ------------------------
(***************************************************************************)
(* What the transactional outbox promises (packages/events/README.md): an  *)
(* event is delivered only if the transaction that wrote it committed, and *)
(* it is retired only after it was delivered.  An event that is not yet    *)
(* retired may be delivered again.                                         *)
(***************************************************************************)
CONSTANT Events

VARIABLES
    committed,  \* the events written by committed transactions
    delivered,  \* the events delivered at least once
    retired     \* the events no later batch delivers again

vars == <<committed, delivered, retired>>

Init ==
    /\ committed = {}
    /\ delivered = {}
    /\ retired = {}

\* A transaction commits the events of one state change, all or none.
Commit(batch) ==
    /\ batch \cap committed = {}
    /\ committed' = committed \cup batch
    /\ UNCHANGED <<delivered, retired>>

Deliver(e) ==
    /\ e \in committed
    /\ delivered' = delivered \cup {e}
    /\ UNCHANGED <<committed, retired>>

Retire(batch) ==
    /\ batch \subseteq delivered
    /\ retired' = retired \cup batch
    /\ UNCHANGED <<committed, delivered>>

Next ==
    \/ \E batch \in SUBSET Events : Commit(batch) \/ Retire(batch)
    \/ \E e \in Events : Deliver(e)

Spec == Init /\ [][Next]_vars

-----------------------------------------------------------------------------
\* Nothing is retired undelivered, and nothing uncommitted is delivered.
NothingLost == retired \subseteq delivered /\ delivered \subseteq committed
=============================================================================
