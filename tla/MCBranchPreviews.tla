-------------------------- MODULE MCBranchPreviews --------------------------
(***************************************************************************)
(* Instances of BranchPreviews for TLC.                                    *)
(***************************************************************************)
EXTENDS BranchPreviews, TLC

CONSTANTS b1, b2, h1, h2, p1, p2

\* b1 has a history, b2 is opened once.
Versions == [b \in Branch |-> IF b = b1 THEN 2 ELSE 1]

Symmetric == Permutations(Handler) \cup Permutations(Publisher)
\* Bound: no more than two of the dispatchers and publishers are at work.
TwoAtOnce ==
    Cardinality({h \in Handler : handling[h] # None})
        + Cardinality({p \in Publisher : publishing[p] # None}) <= 2
=============================================================================
