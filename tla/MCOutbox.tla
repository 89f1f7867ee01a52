------------------------------ MODULE MCOutbox ------------------------------
(***************************************************************************)
(* Instances of Outbox for TLC.                                            *)
(***************************************************************************)
EXTENDS Outbox, TLC

CONSTANTS e1, e2, audit, mail, d1, d2, t1, t2

\* Two subscribers to every event: one takes batches, one does not.
MixedSubs == [e \in Event |-> {audit, mail}]
\* e1 has a batch and a per-event subscriber, e2 only the batch one.
SplitSubs == [e \in Event |-> IF e = e1 THEN {audit, mail} ELSE {audit}]

OneTenant == [e \in Event |-> t1]

Dispatchers == Permutations(Dispatcher)
=============================================================================
