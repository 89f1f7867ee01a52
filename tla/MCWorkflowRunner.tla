-------------------------- MODULE MCWorkflowRunner --------------------------
(***************************************************************************)
(* The definition vendor-then-four-eyes of the repository's system tests,  *)
(* with an escalation when the vendor's deadline passes: a vendor          *)
(* translates, two reviewers approve, a denial sends the text back.        *)
(***************************************************************************)
EXTENDS WorkflowRunner, TLC

Facts == {"short", "enough", "approved"}
States == {"translating", "reviewing", "done"}
Transition(from, on, when, to, acts) == [from |-> from, on |-> on, when |-> when, to |-> to, acts |-> acts]
Transitions ==
    {Transition("translating", "completed", Facts, "reviewing", << >>),
     Transition("translating", "due", Facts, "reviewing", << >>),
     Transition("reviewing", "granted", {"enough", "approved"}, "done", <<"approve">>),
     Transition("reviewing", "denied", Facts, "translating", << >>)}
Entries == ("translating" :> <<"assign">>) @@ ("reviewing" :> <<"ask">>) @@ ("done" :> << >>)
Approves == "approve" :> "approved"
Reviewed == "approve" :> "reviewed"
Reply(on, to, closes) == [on |-> on, to |-> to, closes |-> closes]
Revisions == {[on |-> "revised", to |-> "short"]}
Replies ==
    ("assign" :> {Reply("completed", "short", TRUE)})
    @@ ("ask" :> {Reply("granted", "short", FALSE), Reply("granted", "enough", TRUE), Reply("denied", "short", TRUE)})

\* Each action of this chart stands on a way once.
ASSUME ChartAsksOnce == AsksOncePerWay

\* Bound: once every report, answer and fault has happened, one replica at a time
\* is at work.
RacesBeforeTheLast ==
    left.reports + left.answers + left.faults > 0 \/ \E r \in Replica : job[r].pc = "idle"
=============================================================================
