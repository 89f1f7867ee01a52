--------------------------- MODULE MCEdgeDelivery ---------------------------
(* Two requests for one path of one edge, two writers of the key index.     *)
EXTENDS EdgeDelivery, TLC

Symmetric == Permutations(Request) \cup Permutations(Writer)
\* Bound: no request is about to answer while a writer holds the key's row; and
\* while one is on its way, at most one more write of the index object is to come.
OneAtOnce ==
    /\ (\A w \in Writer : writing[w] = None) \/ (\A r \in Request : request[r].pc # "wake")
    /\ kind = "manifest" \/ owed + callers <= 1 \/ (\A r \in Request : request[r].pc = "idle")
=============================================================================
