-------------------------- MODULE DeliveryContract --------------------------
(***************************************************************************)
(* What the outbox relay promises its upstream: an event leaves the outbox *)
(* for good either settled, and then a copy is on its topic or its failure *)
(* is on record, or abandoned; nothing settled or abandoned comes back.    *)
(***************************************************************************)
CONSTANT Events

VARIABLES
    delivered,  \* events with a copy on their topic
    recorded,   \* events with a durable failure record
    settled,    \* events acknowledged out of the outbox
    abandoned   \* events the outbox gave up on

vars == <<delivered, recorded, settled, abandoned>>

Init == delivered = {} /\ recorded = {} /\ settled = {} /\ abandoned = {}

(* Deliveries may be repeated.                                             *)
Deliver(e) ==
    /\ delivered' = delivered \cup {e}
    /\ UNCHANGED <<recorded, settled, abandoned>>

RecordFailure(e) ==
    /\ recorded' = recorded \cup {e}
    /\ UNCHANGED <<delivered, settled, abandoned>>

Settle(S) ==
    /\ S \subseteq delivered \cup recorded
    /\ S \cap abandoned = {}
    /\ settled' = settled \cup S
    /\ UNCHANGED <<delivered, recorded, abandoned>>

Abandon(S) ==
    /\ S \cap settled = {}
    /\ abandoned' = abandoned \cup S
    /\ UNCHANGED <<delivered, recorded, settled>>

Next ==
    \/ \E e \in Events : Deliver(e) \/ RecordFailure(e)
    \/ \E S \in SUBSET Events : Settle(S) \/ Abandon(S)

Spec == Init /\ [][Next]_vars
=============================================================================
