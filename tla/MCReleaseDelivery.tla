------------------------- MODULE MCReleaseDelivery --------------------------
(***************************************************************************)
(* Instances of ReleaseDelivery for TLC.                                   *)
(***************************************************************************)
EXTENDS ReleaseDelivery, TLC

CONSTANTS production, development, preview, k1, k2, k3, ann, bob, cyd, q1, q2,
          s1, s2

\* Environment.DefaultPolicy.
Defaults == [e \in Env |-> IF e = production THEN "approved" ELSE "drafts"]

AnnPublishes == [k \in Key |-> ann]

\* Bound: only k1's builds may be incomplete.
OneKeyVaries == \A s \in Session : Busy(s, "built") /\ call[s].key = k2 => call[s].complete
=============================================================================
