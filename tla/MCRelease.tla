----------------------------- MODULE MCRelease ------------------------------
(***************************************************************************)
(* Instances of Release for TLC.                                           *)
(***************************************************************************)
EXTENDS Release, TLC

CONSTANTS production, development, preview, k1, k2, k3, ann, bob, cyd, q1, q2,
          s1, s2

\* Environment.DefaultPolicy.
Defaults == [e \in Env |-> IF e = production THEN "approved" ELSE "drafts"]

AnnPublishes == [k \in Key |-> ann]

\* Nothing tells two requests apart.
Requests == Permutations(Request)

\* Bound: a behaviour is either about approvals in production, with one release,
\* or about rollouts and branches, with two releases made in order and no
\* approvals; development is then unused, and the check policy changes after the
\* second.
OfFirstRelease(c) == c.op # "starting" /\ ("key" \in DOMAIN c => c.key = k1)
Approvals ==
    /\ live = Env \ Branch /\ strict = Strict
    /\ \A e \in Branch : served[e] = {}
    /\ approval[development] = 0
    /\ \A e \in Env : rollout[e] = None
    /\ \A k \in Key \ {k1} : release[k] = None
    /\ \A s \in Session : OfFirstRelease(call[s])

Plain(c) ==
    /\ "env" \in DOMAIN c => c.env # development
    /\ "by" \in DOMAIN c => c.by = ann
InOrder == release[k2] # None => release[k1] # None
Rollouts ==
    /\ \A e \in Env : approval[e] = 0
    /\ \A q \in Request : request[q] = None
    /\ strict # Strict => release[k2] # None
    /\ InOrder /\ release[k3] = None
    /\ current[development] = None
    /\ \A s \in Session : Plain(call[s])

OneConcern == Approvals \/ Rollouts
=============================================================================
