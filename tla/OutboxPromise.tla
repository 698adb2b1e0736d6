--------------------------- MODULE OutboxPromise ---------------------------
(***************************************************************************)
(* What the outbox promises for one topic: a message is queued when the    *)
(* transaction that added it commits, and leaves the queue once, either    *)
(* because a flush of it has been committed or because it has expired.     *)
(***************************************************************************)
CONSTANT Message

VARIABLES queued, delivered, expired

Init == queued = {} /\ delivered = {} /\ expired = {}

Add(S) ==
    /\ S \cap (queued \cup delivered \cup expired) = {}
    /\ queued' = queued \cup S
    /\ UNCHANGED <<delivered, expired>>

Deliver(S) ==
    /\ S \subseteq queued
    /\ queued' = queued \ S
    /\ delivered' = delivered \cup S
    /\ UNCHANGED expired

Expire(S) ==
    /\ S \subseteq queued
    /\ queued' = queued \ S
    /\ expired' = expired \cup S
    /\ UNCHANGED delivered

Next == \E S \in SUBSET Message : Add(S) \/ Deliver(S) \/ Expire(S)

Spec == Init /\ [][Next]_<<queued, delivered, expired>>

=============================================================================
