--------------------------- MODULE OutboxContract ---------------------------
(***************************************************************************)
(* What the transactional outbox promises its publishers and subscribers   *)
(* (package doc of platform/internal/kernel/outbox): an event that was     *)
(* published is handled at least once by every subscriber of its type      *)
(* before it counts as delivered, or it is given up as dead; both are      *)
(* final.  Nothing is said of claims, leases, tokens or batches: Outbox    *)
(* implements this module.                                                 *)
(***************************************************************************)
CONSTANTS Event, Subscriber, SubsOf

VARIABLES
    status,     \* status[e]: "absent", "pending", "delivered" or "dead"
    applied     \* the <<subscriber, event>> pairs whose handler committed

Init ==
    /\ status = [e \in Event |-> "absent"]
    /\ applied = {}

\* The publisher's transaction commits with the event in it.
Publish(e) ==
    /\ status[e] = "absent"
    /\ status' = [status EXCEPT ![e] = "pending"]
    /\ UNCHANGED applied

\* One subscriber's handler commits some published events.  Delivery is at
\* least once and unfenced towards handlers: an event that is already
\* delivered or dead may be handled again by a dispatcher that lost it.
Handle(s, es) ==
    /\ \A e \in es : status[e] # "absent" /\ s \in SubsOf[e]
    /\ applied' = applied \cup {<<s, e>> : e \in es}
    /\ UNCHANGED status

\* Delivered means every subscriber handled the event.
Deliver(e) ==
    /\ status[e] = "pending"
    /\ \A s \in SubsOf[e] : <<s, e>> \in applied
    /\ status' = [status EXCEPT ![e] = "delivered"]
    /\ UNCHANGED applied

\* Dead letters are kept for an operator.
GiveUp(e) ==
    /\ status[e] = "pending"
    /\ status' = [status EXCEPT ![e] = "dead"]
    /\ UNCHANGED applied

Next ==
    \/ \E e \in Event : Publish(e) \/ Deliver(e) \/ GiveUp(e)
    \/ \E s \in Subscriber, es \in SUBSET Event : Handle(s, es)

vars == <<status, applied>>

Spec == Init /\ [][Next]_vars
=============================================================================
