------------------------- MODULE MCTranslationJobs --------------------------
(***************************************************************************)
(* Instances of TranslationJobs for TLC.                                   *)
(***************************************************************************)
EXTENDS TranslationJobs, TLC

CONSTANTS j1, j2, w1, w2, ann

\* j2 translates the revision after j1's.
TwoRevisions == [j \in Job |-> IF j = j1 THEN 1 ELSE 2]

\* Only j1 is asked for again.
OneAgain == [j \in Job |-> IF j = j1 THEN 2 ELSE 1]

\* Only j2 is retried.
OneRetries == [j \in Job |-> IF j = j1 THEN 1 ELSE 2]
\* Nothing tells two workers apart.
Workers == Permutations(Worker)

\* Bound: j2 is retried only in behaviours in which j1 is asked for once.
OneConcern == requests[j1] < 2 \/ attempts[j2] <= 1
=============================================================================
