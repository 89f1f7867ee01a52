--------------------------- MODULE WorkflowRunner ---------------------------
(***************************************************************************)
(* The workflow runner: the outbox subscriber that moves the workflow      *)
(* instances of one subject along the chart of the definition bound to it  *)
(* (src/platform/internal/workflow/app/runner.go, actions.go, timers.go).  *)
(*                                                                         *)
(* A replica handles one event at a time (runner.go `stepping`).  A step   *)
(* holds the instance's row lock for its whole transaction: it looks the   *)
(* event up in the instance's log, reads what the guards look at, carries  *)
(* out the transition's actions one after the other, and commits the new   *)
(* state, the log row and the work it asked for together.  Actions of      *)
(* other contexts commit on their own while the step still runs.           *)
(*                                                                         *)
(* The chart is a constant: any definition a tenant may save.  Facts stands*)
(* for everything a guard reads about the subject; the events are ids in   *)
(* the sequence `sent`, delivered at least once and in any order.          *)
(***************************************************************************)
EXTENDS Naturals, Sequences, FiniteSets

CONSTANTS
    Replica,      \* processes that deliver events to the runner
    Fact,         \* what guards can tell apart about the subject
    State,        \* the chart's states
    Initial,      \* its initial state
    Final,        \* its final states
    Edge,         \* its transitions: [from, on, when, to, acts]
    Entry,        \* the entry actions of each state, a sequence
    Own,          \* actions that ask for an assignment or an approval
    Timed,        \* those of them with a due period
    Reused,       \* those that return a pending identical request
    Refusable,    \* actions that may be refused or fail for good
    After,        \* what an action of another context makes of the subject
    Echo,         \* the event that context publishes about it
    Starts,       \* events that start an instance where none is active
    Report,       \* what other contexts do to it and publish: [on, to]
    Answers,      \* what can come of a work item: sets of [on, to, closes]
    None,
    MaxReports, MaxAnswers, MaxFaults

NotStarted == ""

ASSUME ChartAssumption ==
    /\ NotStarted \notin State /\ Initial \in State /\ Final \subseteq State
    /\ \A d \in Edge : d.from \in State \ Final /\ d.to \in State /\ d.when \subseteq Fact
    /\ Own \cap DOMAIN After = {} /\ Timed \subseteq Own /\ Reused \subseteq Own
    /\ Entry \in [State -> Seq(Own \cup DOMAIN After)]
    /\ \A d \in Edge : d.acts \in Seq(Own \cup DOMAIN After)
    \* a state answers an event with the first transition whose guard holds
    /\ \A d, g \in Edge : d.from = g.from /\ d.on = g.on /\ d.when \cap g.when # {} => d = g

ASSUME WorldAssumption ==
    /\ MaxReports \in Nat /\ MaxAnswers \in Nat /\ MaxFaults \in Nat
    /\ \A r \in Report : r.to \in Fact
    /\ \A a \in DOMAIN After : After[a] \in Fact
    /\ \A a \in Own : \A r \in Answers[a] : r.to \in Fact /\ r.closes \in BOOLEAN

VARIABLES
    facts,      \* the subject, as the other contexts have committed it
    instances,  \* Seq of [state, status, timer]; never two active
    log,        \* the transition log of each instance
    work,       \* Seq of the assignments and approvals asked for
    sent,       \* every event published, its index is its id
    todo,       \* the ids the outbox has still to deliver
    lock,       \* the replica holding the active instance's row or index entry
    job,        \* what each replica is doing
    left        \* how many reports, answers and faults may still happen

vars == <<facts, instances, log, work, sent, todo, lock, job, left>>

Idle == [pc |-> "idle", event |-> 0, inst |-> 0, facts |-> None, to |-> None,
         acts |-> << >>, own |-> << >>, timed |-> FALSE]

Init ==
    /\ facts \in {r.to : r \in Report}
    /\ instances = << >> /\ log = << >> /\ work = << >> /\ sent = << >>
    /\ todo = {}
    /\ lock = None
    /\ job = [r \in Replica |-> Idle]
    /\ left = [reports |-> MaxReports, answers |-> MaxAnswers, faults |-> MaxFaults]

Fault == left.faults > 0 /\ left' = [left EXCEPT !.faults = @ - 1]

Event(name) == [name |-> name, inst |-> 0, state |-> NotStarted, visit |-> 0]

Publish(evs) ==
    /\ sent' = sent \o evs
    /\ todo' = todo \cup (Len(sent) + 1 .. Len(sent) + Len(evs))

-----------------------------------------------------------------------------
(* The world around the runner.                                            *)

\* Another context changes the subject and says so: a revision, a source
\* change, a review.
Happen(r) ==
    /\ left.reports > 0 /\ left' = [left EXCEPT !.reports = @ - 1]
    /\ facts' = r.to
    /\ Publish(<<Event(r.on)>>)
    /\ UNCHANGED <<instances, log, work, lock, job>>

\* Somebody completes, declines, grants or denies what an instance asked for;
\* the event names the instance.
Answer(i, r) ==
    /\ left.answers > 0 /\ left' = [left EXCEPT !.answers = @ - 1]
    /\ work[i].open /\ r \in Answers[work[i].act]
    /\ work' = [work EXCEPT ![i].open = ~r.closes]
    /\ facts' = r.to
    /\ Publish(<<[Event(r.on) EXCEPT !.inst = work[i].inst]>>)
    /\ UNCHANGED <<instances, log, lock, job>>

\* The outbox delivers again: the acknowledgement of a delivery was lost, or
\* its lease ran out while it was still being handled.
Redeliver(e) ==
    /\ e \notin todo /\ Fault
    /\ todo' = todo \cup {e}
    /\ UNCHANGED <<facts, instances, log, work, sent, lock, job>>

-----------------------------------------------------------------------------
(* The timer sweep: one transaction, skipping a locked row.                *)

\* timer.due, and timer.overdue with it when that has fallen due as well; what
\* has not been raised stays on the instance.
Raised(k, both) ==
    LET t == instances[k].timer
        ev(n) == [name |-> n, inst |-> k, state |-> t.state, visit |-> t.visit] IN
    IF t.next = "overdue" THEN <<ev("overdue")>>
    ELSE IF both THEN <<ev("due"), ev("overdue")>> ELSE <<ev("due")>>

Rest(t, both) == IF t.next = "due" /\ ~both THEN [t EXCEPT !.next = "overdue"] ELSE None

RaiseDueTimers(k, both) ==
    /\ instances[k].timer # None /\ lock = None
    /\ Publish(Raised(k, both))
    /\ instances' = [instances EXCEPT ![k].timer = Rest(@, both)]
    /\ UNCHANGED <<facts, log, work, lock, job, left>>

-----------------------------------------------------------------------------
(* Handling an event.                                                      *)

Active == {k \in DOMAIN instances : instances[k].status = "active"}
Rows(k) == IF k \in DOMAIN log THEN log[k] ELSE << >>
Current(k) == IF k \in DOMAIN instances THEN instances[k].state ELSE NotStarted
HasTransition(k, e) == \E j \in DOMAIN Rows(k) : Rows(k)[j].event = e

\* A timer event is for the state that set the timer.
Stale(k, e) == sent[e].name \in {"due", "overdue"} /\ sent[e].state # Current(k)

Takes(s, name, f) == {d \in Edge : d.from = s /\ d.on = name /\ f \in d.when}

\* Where the event takes the instance and what it has to carry out on the way:
\* an instance not yet started enters its chart first.
Compute(k, e, f) ==
    LET begun == Current(k) # NotStarted
        from == IF begun THEN Current(k) ELSE Initial
        first == IF begun THEN << >> ELSE Entry[Initial]
        moved == {[to |-> d.to, acts |-> first \o d.acts \o Entry[d.to]] : d \in Takes(from, sent[e].name, f)}
    IN  IF Stale(k, e) THEN {}
        ELSE IF moved = {} /\ ~begun THEN {[to |-> from, acts |-> first]}
        ELSE moved

Row(k, e, to, outcome) == [event |-> e, from |-> Current(k), to |-> to, outcome |-> outcome]
Appended(k, row) == IF k \in DOMAIN log THEN [log EXCEPT ![k] = Append(@, row)] ELSE Append(log, <<row>>)

Take(r, e) ==
    /\ job[r].pc = "idle" /\ e \in todo
    /\ todo' = todo \ {e}
    /\ job' = [job EXCEPT ![r] = [Idle EXCEPT !.pc = "look", !.event = e]]
    /\ UNCHANGED <<facts, instances, log, work, sent, lock, left>>

\* The event is acknowledged without a trace: no workflow here, an instance
\* that is finished, or a step taken before.
Drop(r) ==
    /\ job' = [job EXCEPT ![r] = Idle]
    /\ UNCHANGED <<facts, instances, log, work, sent, todo, lock, left>>

\* The row is taken once whoever holds it has committed.
RowUnlocked(r) == TRUE
RowFree(r) == lock = None

\* The locked instance is stepped with the event: not twice, not when the
\* chart has no answer to it, and otherwise action by action.
Step(r, k, f) ==
    LET e == job[r].event IN
    \/ HasTransition(k, e) /\ Drop(r)
    \/ /\ ~HasTransition(k, e) /\ Compute(k, e, f) = {}
       /\ log' = Appended(k, Row(k, e, Current(k), "ignored"))
       /\ job' = [job EXCEPT ![r] = Idle]
       /\ UNCHANGED <<facts, instances, work, sent, todo, lock, left>>
    \/ /\ ~HasTransition(k, e)
       /\ \E m \in Compute(k, e, f) :
            job' = [job EXCEPT ![r] = [@ EXCEPT !.pc = "run", !.inst = k, !.facts = f, !.to = m.to, !.acts = m.acts]]
       /\ lock' = r
       /\ UNCHANGED <<facts, instances, log, work, sent, todo, left>>

\* An event about one instance: a timer of it, or an answer to what it asked.
HandleInstance(r) ==
    LET k == sent[job[r].event].inst IN
    /\ job[r].pc = "look" /\ k # 0
    /\ IF k \in Active THEN RowFree(r) /\ Step(r, k, facts) ELSE Drop(r)

\* An event about the subject: its active instance is locked and stepped; where
\* there is none, only an event that starts work goes on, with the facts read now.
HandleSubject(r) ==
    LET e == job[r].event IN
    /\ job[r].pc = "look" /\ sent[e].inst = 0
    /\ \/ \E k \in Active : RowFree(r) /\ Step(r, k, facts)
       \/ Active = {} /\ sent[e].name \notin Starts /\ Drop(r)
       \/ /\ Active = {} /\ sent[e].name \in Starts
          /\ job' = [job EXCEPT ![r] = [@ EXCEPT !.pc = "insert", !.facts = facts]]
          /\ UNCHANGED <<facts, instances, log, work, sent, todo, lock, left>>

\* The insert waits for an uncommitted instance of the definition, and loses
\* quietly to a committed one.
StartIfNeeded(r) ==
    /\ job[r].pc = "insert"
    /\ \/ Active = {} /\ lock = None /\ Step(r, Len(instances) + 1, job[r].facts)
       \/ /\ Active # {}
          /\ job' = [job EXCEPT ![r].pc = "lost"]
          /\ UNCHANGED <<facts, instances, log, work, sent, todo, lock, left>>

\* The loser locks and steps the winner's instance, if it is still active.
StepWinners(r) ==
    /\ job[r].pc = "lost" /\ RowFree(r)
    /\ \/ \E k \in Active : Step(r, k, job[r].facts)
       \/ Active = {} /\ Drop(r)

-----------------------------------------------------------------------------
(* Carrying out a transition.                                              *)

Running(r, acts) == job[r].pc = "run" /\ job[r].acts # << >> /\ Head(job[r].acts) \in acts

Item(r, a) == [inst |-> job[r].inst, event |-> job[r].event, act |-> a, open |-> TRUE]
Pending(r, a) == \E i \in DOMAIN work : work[i].inst = job[r].inst /\ work[i].act = a /\ work[i].open

\* An assignment or approval request joins the step's transaction.
AsksApart(r, a) ==
    /\ work' = Append(work, Item(r, a))
    /\ job' = [job EXCEPT ![r].acts = Tail(@), ![r].timed = @ \/ a \in Timed]
Asks(r, a) ==
    /\ job' = [job EXCEPT ![r].acts = Tail(@), ![r].timed = @ \/ a \in Timed,
                          ![r].own = IF a \in Reused /\ Pending(r, a) THEN @ ELSE Append(@, Item(r, a))]
    /\ UNCHANGED work

AskForWork(r) ==
    /\ Running(r, Own)
    /\ Asks(r, Head(job[r].acts))
    /\ UNCHANGED <<facts, instances, log, sent, todo, lock, left>>

\* An action of another context commits there, now; what it finds done already
\* it neither repeats nor announces.
ActOutside(r) ==
    LET a == Head(job[r].acts) IN
    /\ Running(r, DOMAIN After)
    /\ facts' = After[a]
    /\ IF facts = After[a] THEN UNCHANGED <<sent, todo>> ELSE Publish(<<Event(Echo[a])>>)
    /\ job' = [job EXCEPT ![r].acts = Tail(@)]
    /\ UNCHANGED <<instances, log, work, lock, left>>

\* What a step that ends in state s makes of its instance.
Timer(r, k, s) ==
    IF job[r].timed THEN [state |-> s, next |-> "due", visit |-> Len(Rows(k)) + 1]
    ELSE IF k \in DOMAIN instances /\ instances[k].state = s THEN instances[k].timer
    ELSE None
Advanced(r, k, s) ==
    [state |-> s, status |-> IF s \in Final THEN "finished" ELSE "active",
     timer |-> IF s \in Final THEN None ELSE Timer(r, k, s)]
Fresh == [state |-> NotStarted, status |-> "active", timer |-> None]
Saved(k, rec) == IF k \in DOMAIN instances THEN [instances EXCEPT ![k] = rec] ELSE Append(instances, rec)

Ends(r) == job' = [job EXCEPT ![r] = Idle] /\ lock' = None

\* Every action is done: the state, the row and the work commit together.
Commit(r) ==
    LET k == job[r].inst IN
    /\ job[r].pc = "run" /\ job[r].acts = << >>
    /\ instances' = Saved(k, Advanced(r, k, job[r].to))
    /\ log' = Appended(k, Row(k, job[r].event, job[r].to, "applied"))
    /\ work' = work \o job[r].own
    /\ Ends(r)
    /\ UNCHANGED <<facts, sent, todo, left>>

\* An action is refused, or fails for good: the instance stays where it was,
\* and the row commits with the work asked for before the refusal.
Refuse(r) ==
    LET k == job[r].inst IN
    /\ Running(r, Refusable)
    /\ instances' = IF k \in DOMAIN instances THEN instances ELSE Append(instances, Fresh)
    /\ log' = Appended(k, Row(k, job[r].event, Current(k), "refused"))
    /\ work' = work \o job[r].own
    /\ Ends(r)
    /\ UNCHANGED <<facts, sent, todo, left>>

\* Anything else that goes wrong, the death of the process included: the
\* transaction is rolled back and the outbox delivers the event again.
GivesUp(e) == todo
Retried(e) == todo \cup {e}
Abort(r) ==
    /\ job[r].pc # "idle" /\ Fault
    /\ todo' = Retried(job[r].event)
    /\ job' = [job EXCEPT ![r] = Idle]
    /\ lock' = IF lock = r THEN None ELSE lock
    /\ UNCHANGED <<facts, instances, log, work, sent>>

-----------------------------------------------------------------------------
Handles(r) ==
    \/ HandleInstance(r) \/ HandleSubject(r) \/ StartIfNeeded(r) \/ StepWinners(r)
    \/ AskForWork(r) \/ ActOutside(r) \/ Commit(r)

Next ==
    \/ \E r \in Report : Happen(r)
    \/ \E i \in DOMAIN work : \E r \in Answers[work[i].act] : Answer(i, r)
    \/ \E e \in DOMAIN sent : Redeliver(e)
    \/ \E k \in DOMAIN instances, both \in BOOLEAN : RaiseDueTimers(k, both)
    \/ \E r \in Replica, e \in todo : Take(r, e)
    \/ \E r \in Replica : Handles(r) \/ Refuse(r) \/ Abort(r)

Spec == Init /\ [][Next]_vars

\* The outbox delivers what is due, a step goes on until it commits, and the
\* scheduler runs the sweep.  Nobody has to answer, and nothing has to happen.
Fairness ==
    /\ \A r \in Replica : WF_vars(\E e \in todo : Take(r, e)) /\ WF_vars(Handles(r))
    /\ WF_vars(\E k \in DOMAIN instances, both \in BOOLEAN : RaiseDueTimers(k, both))

FairSpec == Spec /\ Fairness

-----------------------------------------------------------------------------
Action == Own \cup DOMAIN After
Name == {r.on : r \in Report} \cup {Echo[a] : a \in DOMAIN After} \cup {"due", "overdue"}
        \cup UNION {{r.on : r \in Answers[a]} : a \in Own}
Place == State \cup {NotStarted}
TimerType == [state : State, next : {"due", "overdue"}, visit : Nat]
Instance == [state : Place, status : {"active", "finished"}, timer : TimerType \cup {None}]
LogRow == [event : Nat, from : Place, to : Place, outcome : {"applied", "ignored", "refused"}]
Request == [inst : Nat, event : Nat, act : Own, open : BOOLEAN]
Sent == [name : Name, inst : Nat, state : Place, visit : Nat]
Job == [pc : {"idle", "look", "insert", "lost", "run"}, event : Nat, inst : Nat,
        facts : Fact \cup {None}, to : State \cup {None}, acts : Seq(Action),
        own : Seq(Request), timed : BOOLEAN]

ASSUME NoneAssumption == None \notin Replica \cup TimerType \cup State \cup Fact

\* Every variable has its type, an instance has its log, and a step that runs
\* holds the lock.
TypeOK ==
    /\ facts \in Fact
    /\ instances \in Seq(Instance)
    /\ log \in Seq(Seq(LogRow)) /\ Len(log) = Len(instances)
    /\ work \in Seq(Request)
    /\ sent \in Seq(Sent) /\ todo \subseteq DOMAIN sent
    /\ lock \in Replica \cup {None}
    /\ job \in [Replica -> Job]
    /\ \A r \in Replica : lock = r <=> job[r].pc = "run"
    /\ left \in [reports : Nat, answers : Nat, faults : Nat]

\* A subject never has two active instances (the unique index of
\* workflow_instances, and the loser of a start that steps the winner's).
OneActive == \A k, l \in Active : k = l

\* The log of an instance is a walk through its chart that ends where the
\* instance stands: no step starts from a state another step has left, and
\* none follows a final state (runner.go:385-424, the row lock of a step).
LogIsAWalk ==
    \A k \in DOMAIN instances :
        /\ \A j \in DOMAIN log[k] :
             /\ log[k][j].from = IF j = 1 THEN NotStarted ELSE log[k][j - 1].to
             /\ log[k][j].from \notin Final
             /\ log[k][j].outcome # "applied" => log[k][j].to = log[k][j].from
        /\ instances[k].state = log[k][Len(log[k])].to

\* An assignment or approval is in the log of the instance that asked for it,
\* and one event asks for it once, however often it is delivered and wherever
\* a step of it stopped (work.go:24-27), where the chart asks for it once.
WorkIsAskedOnce ==
    \A i \in DOMAIN work :
        /\ HasTransition(work[i].inst, work[i].event)
        /\ \A j \in DOMAIN work : j # i =>
             <<work[j].inst, work[j].event, work[j].act>> # <<work[i].inst, work[i].event, work[i].act>>

\* A chart that names no assignment or approval twice on one way: an event that
\* starts an instance and answers its initial state at once runs both parts.
Ways == {Entry[Initial]} \cup {d.acts \o Entry[d.to] : d \in Edge}
        \cup {Entry[Initial] \o d.acts \o Entry[d.to] : d \in {g \in Edge : g.from = Initial}}
AsksOncePerWay ==
    \A w \in Ways : \A i, j \in DOMAIN w : w[i] = w[j] /\ w[i] \in Own => i = j

\* The instance has taken another transition since its row v set a timer.
MovedOn(k, v) == \E j \in DOMAIN Rows(k) : j > v /\ Rows(k)[j].outcome = "applied"

\* What the sweep and the outbox still owe.
Unheard ==
    \/ \E k \in DOMAIN instances : instances[k].timer # None
    \/ \E e \in DOMAIN sent :
         sent[e].visit # 0 /\ ~HasTransition(sent[e].inst, e) /\ ~MovedOn(sent[e].inst, sent[e].visit)

\* Deadlines are heard: a timer is raised or cancelled, and what is raised gets
\* into the instance's log unless the instance has moved on, whatever stops on
\* the way; so again and again there is none left (timers.go:15-19).
DeadlinesAreHeard == []<>~Unheard

\* "An instance that has left the state that set a timer ignores the timer"
\* (timers.go:33-34, runner.go:83-84): no timer event moves an instance that
\* has been in another state since the timer was set.
TimersOfAStateLeftAreIgnored ==
    \A k \in DOMAIN log : \A j \in DOMAIN log[k] :
        LET ev == sent[log[k][j].event] IN
        ev.visit # 0 /\ log[k][j].outcome = "applied" =>
            \A i \in ev.visit + 1 .. j - 1 : log[k][i].to = ev.state
=============================================================================
