----------------------- MODULE TranslationJobsProofs ------------------------
(***************************************************************************)
(* Theorems about TranslationJobs, for every number of jobs, workers and   *)
(* reviewers, every cap and bound of attempts, and every number of faults. *)
(***************************************************************************)
EXTENDS TranslationJobs, SequenceTheorems, FiniteSetTheorems, TLAPS

Sug == [status : Status, version : Nat \ {0}]

-----------------------------------------------------------------------------
(* The inductive invariant.                                                *)

\* The plain types.
Shape ==
    /\ source \in Nat /\ translated \in Nat
    /\ state \in [Job -> {"none", "queued", "running"} \cup Final]
    /\ attempts \in [Job -> Nat] /\ forced \in [Job -> BOOLEAN] /\ due \in [Job -> BOOLEAN]
    /\ token \in [Job -> Worker \cup {None}]
    /\ suggestion \in [Job -> Seq(Sug)]
    /\ claiming \in Worker \cup {None}
    /\ work \in [Worker -> Claim \cup {None}]
    /\ review \in [Reviewer -> Acceptance \cup {None}]
    /\ requests \in [Job -> Nat] /\ calls \in [Job -> Nat] /\ faults \in Nat

Tokens == \A j \in Job : state[j] = "running" <=> token[j] # None

\* What is to be decided exists.
Deciding(w) == At(w, "apply") \/ At(w, "decide") \/ At(w, "note")
Numbers ==
    /\ \A w \in Worker : Deciding(w) => work[w].number \in DOMAIN suggestion[On(w)]
    /\ \A p \in Reviewer :
         review[p] # None => review[p].number \in DOMAIN suggestion[review[p].job]

\* What is to be settled has an outcome.
Outcomes == \A w \in Worker : At(w, "settle") => work[w].outcome # "none"

\* A claim counted under the lock that it still holds.
Claiming ==
    /\ \A w \in Worker : At(w, "claim") <=> claiming = w
    /\ IsFiniteSet(Leased)
    /\ Cardinality(Leased) <= Cap
    /\ claiming # None => Cardinality(Leased) < Cap

\* A settlement that is to commit holds the row, and so the job.
Committing == \A w \in Worker : At(w, "commit") => state[On(w)] = "running" /\ token[On(w)] = w

\* A claim that still holds its job is the job's last attempt.
Running(w) == At(w, "run") \/ At(w, "settle") \/ At(w, "commit")
LastAttempts ==
    \A w \in Worker : Running(w) /\ token[On(w)] = w => work[w].attempt = attempts[On(w)]

\* A job that waits or runs has a result to come, and no other.
Results ==
    \A j \in Job :
        /\ Len(suggestion[j]) <= requests[j]
        /\ state[j] \in {"queued", "running"} => Len(suggestion[j]) + 1 <= requests[j]

\* The runs of a job that may yet ask a provider: those on their way, also those
\* that lost the job, and those that its attempts leave.
Askers(j) == {w \in Worker : At(w, "run") /\ On(w) = j /\ work[w].attempt <= MaxAttempts[j]}
Left(j) ==
    IF requests[j] = 0 \/ attempts[j] > MaxAttempts[j] THEN 0 ELSE MaxAttempts[j] - attempts[j]
Calls ==
    \A j \in Job :
        /\ IsFiniteSet(Askers(j))
        /\ calls[j] + Cardinality(Askers(j)) + Left(j) <= MaxAttempts[j] * requests[j]

\* A suggestion as it was inserted is not decided.
Versions ==
    \A j \in Job : \A n \in DOMAIN suggestion[j] : suggestion[j][n].version = 1 => Pending(j, n)

JobInv ==
    /\ Shape /\ Tokens /\ Numbers /\ Outcomes /\ Claiming /\ Committing /\ LastAttempts
    /\ Results /\ Calls /\ Versions

\* The conjuncts of JobInv about types are the type invariant.
LEMMA JobInvTypes == Shape /\ Tokens /\ Numbers => TypeOK
BY DEF Shape, Tokens, Numbers, Deciding, Sug, TypeOK

-----------------------------------------------------------------------------
(* Lemmas.                                                                 *)

\* A function on 1 .. n is a sequence of length n.
LEMMA FunctionIsSeq ==
    ASSUME NEW S, NEW n \in Nat, NEW f \in [1 .. n -> S]
    PROVE  f \in Seq(S) /\ Len(f) = n
<1>1. f \in Seq(S)
  BY SeqDef
<1>2. DOMAIN f = 1 .. n /\ Len(f) \in Nat /\ DOMAIN f = 1 .. Len(f)
  BY <1>1, LenProperties
<1> QED BY <1>1, <1>2

\* A claim a worker works on is of its type.
LEMMA WorkType ==
    ASSUME Shape, NEW w \in Worker, work[w] # None
    PROVE  /\ work[w] \in Claim /\ On(w) \in Job /\ work[w].attempt \in Nat
           /\ work[w].number \in Nat
<1>1. work[w] \in Claim
  BY DEF Shape
<1> QED BY <1>1 DEF Claim, On

-----------------------------------------------------------------------------
(* Suggestions.                                                            *)

New == [status |-> "pending", version |-> 1]

\* What the table keeps of its suggestions through a step: none is lost, one
\* that changes was pending or as inserted, and a new one is as inserted.
Kept(old, new) ==
    /\ new \in Seq(Sug) /\ Len(old) <= Len(new)
    /\ \A n \in 1 .. Len(old) :
         \/ new[n] = old[n]
         \/ /\ new[n].version = old[n].version + 1
            /\ old[n].status = "pending" \/ old[n].version = 1
    /\ \A n \in Len(old) + 1 .. Len(new) : new[n] = New

\* Deciding a suggestion keeps every other and every earlier decision.
LEMMA DecideKeeps ==
    ASSUME Shape, NEW j \in Job, NEW n \in DOMAIN suggestion[j], NEW s \in Status,
           Decide(j, n, s), Pending(j, n) \/ suggestion[j][n].version = 1
    PROVE  \A k \in Job : Kept(suggestion[k], suggestion'[k]) /\ Len(suggestion'[k]) = Len(suggestion[k])
<1> DEFINE old == suggestion[j]
           one == [status |-> s, version |-> old[n].version + 1]
<1>1. old \in Seq(Sug) /\ n \in 1 .. Len(old) /\ Len(old) \in Nat
  BY DEF Shape
<1>2. old[n] \in Sug
  BY <1>1, ElementOfSeq
<1>3. one \in Sug /\ one.version = old[n].version + 1
  BY <1>2 DEF Sug
<1>4. suggestion' = [suggestion EXCEPT ![j] = [old EXCEPT ![n] = one]]
  BY DEF Decide, Shape
<1>5. /\ suggestion'[j] = [old EXCEPT ![n] = one]
      /\ \A k \in Job \ {j} : suggestion'[k] = suggestion[k]
  BY <1>4 DEF Shape
<1> HIDE DEF one
<1>6. /\ suggestion'[j] \in Seq(Sug) /\ Len(suggestion'[j]) = Len(old)
      /\ \A m \in 1 .. Len(old) : suggestion'[j][m] = IF m = n THEN one ELSE old[m]
  BY <1>1, <1>3, <1>5, ExceptSeq
<1>7. Kept(old, suggestion'[j])
  BY <1>1, <1>3, <1>6 DEF Kept, Pending
<1>8. \A k \in Job \ {j} : Kept(suggestion[k], suggestion'[k]) /\ Len(suggestion'[k]) = Len(suggestion[k])
  BY <1>5, LenProperties DEF Kept, Shape
<1> QED BY <1>6, <1>7, <1>8

\* A commit appends one suggestion of its job and keeps the others.
LEMMA CommitKeeps ==
    ASSUME Shape, NEW w \in Worker, CommitSuggestion(w), NEW j \in Job
    PROVE  /\ Kept(suggestion[j], suggestion'[j])
           /\ Len(suggestion'[j]) = Len(suggestion[j]) + (IF j = On(w) THEN 1 ELSE 0)
<1> DEFINE old == suggestion[j]
           over == [n \in DOMAIN old |->
                      IF <<j, n>> \in work[w].seen /\ Pending(j, n)
                      THEN [status |-> "superseded", version |-> old[n].version + 1] ELSE old[n]]
           more == IF j = On(w) THEN <<New>> ELSE <<>>
<1>1. old \in Seq(Sug) /\ Len(old) \in Nat /\ DOMAIN old = 1 .. Len(old)
  BY LenProperties DEF Shape
<1>2. suggestion'[j] = over \o more
  BY DEF CommitSuggestion, New
<1>3. /\ over \in [1 .. Len(old) -> Sug]
      /\ \A n \in 1 .. Len(old) :
           over[n] = old[n] \/ (over[n].version = old[n].version + 1 /\ old[n].status = "pending")
  <2> SUFFICES ASSUME NEW n \in 1 .. Len(old)
               PROVE  /\ over[n] \in Sug
                      /\ \/ over[n] = old[n]
                         \/ (over[n].version = old[n].version + 1 /\ old[n].status = "pending")
    BY <1>1
  <2>1. old[n] \in Sug
    BY <1>1, ElementOfSeq
  <2>2. [status |-> "superseded", version |-> old[n].version + 1] \in Sug
    BY <2>1 DEF Sug, Status
  <2> QED BY <1>1, <2>1, <2>2 DEF Pending
<1>4. more \in Seq(Sug) /\ Len(more) = (IF j = On(w) THEN 1 ELSE 0)
      /\ \A n \in 1 .. Len(more) : more[n] = New
  <2>1. New \in Sug
    BY DEF New, Sug, Status
  <2> QED BY <2>1, EmptySeq
<1> HIDE DEF over, more, old
<1>5. over \in Seq(Sug) /\ Len(over) = Len(old)
  BY <1>1, <1>3, FunctionIsSeq
<1>6. /\ over \o more \in Seq(Sug) /\ Len(over \o more) = Len(over) + Len(more)
      /\ \A n \in 1 .. Len(over) + Len(more) : (over \o more)[n] =
           IF n <= Len(over) THEN over[n] ELSE more[n - Len(over)]
  BY <1>4, <1>5, ConcatProperties
<1>7. Kept(old, suggestion'[j])
  BY <1>1, <1>2, <1>3, <1>4, <1>5, <1>6 DEF Kept
<1> QED BY <1>2, <1>4, <1>5, <1>6, <1>7 DEF old

\* Suggestions are only appended, one per commit.
LEMMA SuggestionStep ==
    ASSUME Shape, Numbers, [Next]_vars, NEW j \in Job
    PROVE  /\ Kept(suggestion[j], suggestion'[j])
           /\ \/ Len(suggestion'[j]) = Len(suggestion[j])
              \/ /\ \E w \in Worker : CommitSuggestion(w) /\ On(w) = j
                 /\ Len(suggestion'[j]) = Len(suggestion[j]) + 1
<1> DEFINE Same == \A k \in Job : Kept(suggestion[k], suggestion'[k])
                                  /\ Len(suggestion'[k]) = Len(suggestion[k])
<1>1. CASE suggestion' = suggestion
  BY <1>1, LenProperties DEF Kept, Shape
<1>2. ASSUME NEW w \in Worker, CommitSuggestion(w)
      PROVE  /\ Kept(suggestion[j], suggestion'[j])
             /\ \/ Len(suggestion'[j]) = Len(suggestion[j])
                \/ On(w) = j /\ Len(suggestion'[j]) = Len(suggestion[j]) + 1
  BY <1>2, CommitKeeps, LenProperties DEF Shape
<1>3. ASSUME NEW w \in Worker, RecordApply(w), suggestion' # suggestion PROVE Same
  <2> DEFINE s == IF At(w, "decide") THEN "auto_applied" ELSE "pending"
  <2>1. AsInserted(w) /\ Decide(On(w), work[w].number, s) /\ Deciding(w) /\ work[w] # None
    BY <1>3 DEF RecordApply, Deciding, At
  <2>2. On(w) \in Job /\ work[w].number \in DOMAIN suggestion[On(w)] /\ s \in Status
    BY <2>1, WorkType DEF Numbers, Status
  <2>3. suggestion[On(w)][work[w].number].version = 1
    BY <2>1 DEF AsInserted, Mine
  <2> HIDE DEF s
  <2> QED BY <2>1, <2>2, <2>3, DecideKeeps
<1>4. ASSUME NEW p \in Reviewer, AcceptDecides(p), suggestion' # suggestion PROVE Same
  <2>1. /\ review[p] \in Acceptance /\ review[p] # None
        /\ Decide(review[p].job, review[p].number, "accepted")
        /\ Pending(review[p].job, review[p].number)
    BY <1>4 DEF AcceptDecides, Shape
  <2>2. review[p].job \in Job /\ review[p].number \in DOMAIN suggestion[review[p].job]
    BY <2>1 DEF Acceptance, Numbers
  <2> QED BY <2>1, <2>2, DecideKeeps DEF Status
<1>5. ASSUME NEW k \in Job, NEW n \in DOMAIN suggestion[k], Reject(k, n) PROVE Same
  BY <1>5, DecideKeeps DEF Reject, Status
<1> QED
  <2>1. CASE Next
    <3> SUFFICES ASSUME suggestion' # suggestion
                 PROVE  \/ \E w \in Worker : CommitSuggestion(w) \/ RecordApply(w)
                        \/ \E p \in Reviewer : AcceptDecides(p)
                        \/ \E k \in Job : \E n \in DOMAIN suggestion[k] : Reject(k, n)
      BY <1>1, <1>2, <1>3, <1>4, <1>5
    <3> QED
      BY <2>1 DEF Next, SourceMoves, PersonTranslates, Enqueue, Cancel, ComesDue, BeginAccept,
                  AcceptWrites, Claims, LockAndPick, Pick, Take, Runs, Skip, Execute, SettleLost,
                  InsertSuggestion, SettleRetry, SettleEnd, Apply, Stop
  <2>2. CASE UNCHANGED vars
    BY <1>1, <2>2 DEF vars
  <2> QED BY <2>1, <2>2

-----------------------------------------------------------------------------
(* Types.                                                                  *)

\* What a step may make of a worker's claim.
LEMMA ClaimTypes ==
    ASSUME NEW c \in Claim
    PROVE  /\ \A o \in {"dead", "skipped", "succeeded", "approved", "failed", "transient"} :
                [c EXCEPT !.step = "settle", !.outcome = o] \in Claim
           /\ \A a \in Nat : [c EXCEPT !.step = "run", !.attempt = a] \in Claim
           /\ \A x \in SUBSET (Job \X Nat) : [c EXCEPT !.step = "commit", !.seen = x] \in Claim
           /\ \A n \in Nat : [c EXCEPT !.step = "apply", !.seen = {}, !.number = n] \in Claim
           /\ \A p \in {"decide", "note"} : [c EXCEPT !.step = p] \in Claim
BY DEF Claim

\* A step gives one worker a claim, changes its claim, or ends it.
LEMMA WorkStep ==
    ASSUME Shape, [Next]_vars
    PROVE  work' \in [Worker -> Claim \cup {None}]
<1>0. work \in [Worker -> Claim \cup {None}]
  BY DEF Shape
<1>1. ASSUME NEW w \in Worker, NEW c \in Claim \cup {None}, work' = [work EXCEPT ![w] = c]
      PROVE  work' \in [Worker -> Claim \cup {None}]
  BY <1>0, <1>1
<1>2. ASSUME NEW w \in Worker, NEW j \in Job, LockAndPick(w, j)
      PROVE  work' \in [Worker -> Claim \cup {None}]
  <2>1. [job |-> j, step |-> "claim", attempt |-> 0, outcome |-> "none", seen |-> {}, number |-> 0]
          \in Claim
    BY DEF Claim
  <2> QED BY <1>0, <1>2, <2>1 DEF LockAndPick, Pick
<1>3. ASSUME NEW w \in Worker, Take(w) PROVE work' \in [Worker -> Claim \cup {None}]
  <2>1. work[w] \in Claim /\ On(w) \in Job
    BY <1>3, WorkType DEF Take, At
  <2>2. attempts[On(w)] + 1 \in Nat
    BY <2>1 DEF Shape
  <2>3. \/ work' = [work EXCEPT ![w] = [work[w] EXCEPT !.step = "run", !.attempt = attempts[On(w)] + 1]]
        \/ work' = [work EXCEPT ![w] = None]
    BY <1>0, <1>3 DEF Take
  <2> QED BY <1>1, <2>1, <2>2, <2>3, ClaimTypes
<1>4. ASSUME NEW w \in Worker, NEW o \in {"dead", "skipped", "succeeded", "approved", "failed", "transient"},
             work[w] # None, Ends(w, o)
      PROVE  work' \in [Worker -> Claim \cup {None}]
  <2>1. work[w] \in Claim
    BY <1>4, WorkType
  <2>2. work' = [work EXCEPT ![w] = [work[w] EXCEPT !.step = "settle", !.outcome = o]]
    BY <1>0, <1>4 DEF Ends
  <2> QED BY <1>1, <2>1, <2>2, ClaimTypes
<1>5. ASSUME NEW w \in Worker, Skip(w) \/ Execute(w) PROVE work' \in [Worker -> Claim \cup {None}]
  BY <1>4, <1>5 DEF Skip, Execute, At
<1>6. ASSUME NEW w \in Worker, InsertSuggestion(w) PROVE work' \in [Worker -> Claim \cup {None}]
  <2> DEFINE x == UNION {{<<j, n>> : n \in {m \in DOMAIN suggestion[j] : Pending(j, m)}} : j \in Job}
  <2>1. work[w] \in Claim
    BY <1>6, WorkType DEF InsertSuggestion, At
  <2>2. x \in SUBSET (Job \X Nat)
    <3>1. \A j \in Job : DOMAIN suggestion[j] \subseteq Nat
      BY LenProperties DEF Shape
    <3> QED BY <3>1
  <2>3. work' = [work EXCEPT ![w].step = "commit", ![w].seen = x]
    BY <1>6 DEF InsertSuggestion
  <2> HIDE DEF x
  <2>4. work' = [work EXCEPT ![w] = [work[w] EXCEPT !.step = "commit", !.seen = x]]
    BY <1>0, <2>3
  <2> QED BY <1>1, <2>1, <2>2, <2>4, ClaimTypes
<1>7. ASSUME NEW w \in Worker, CommitSuggestion(w) PROVE work' \in [Worker -> Claim \cup {None}]
  <2>1. On(w) \in Job /\ work[w] \in Claim
    BY <1>7, WorkType DEF CommitSuggestion, At
  <2>2. Len(suggestion[On(w)]) + 1 \in Nat
    BY <2>1, LenProperties DEF Shape
  <2>3. \/ work' = [work EXCEPT ![w] = [work[w] EXCEPT !.step = "apply", !.seen = {},
                                                     !.number = Len(suggestion[On(w)]) + 1]]
        \/ work' = [work EXCEPT ![w] = None]
    BY <1>0, <1>7 DEF CommitSuggestion
  <2> QED BY <1>1, <2>1, <2>2, <2>3, ClaimTypes
<1>8. ASSUME NEW w \in Worker, Apply(w) PROVE work' \in [Worker -> Claim \cup {None}]
  <2>1. work[w] \in Claim
    BY <1>8, WorkType DEF Apply, At
  <2>2. \E p \in {"decide", "note"} : work' = [work EXCEPT ![w] = [work[w] EXCEPT !.step = p]]
    BY <1>0, <1>8 DEF Apply
  <2> QED BY <1>1, <2>1, <2>2, ClaimTypes
<1>9. ASSUME NEW w \in Worker,
             SettleLost(w) \/ SettleRetry(w) \/ SettleEnd(w) \/ RecordApply(w) \/ Stop(w)
      PROVE  work' \in [Worker -> Claim \cup {None}]
  <2>1. work' = [work EXCEPT ![w] = None]
    BY <1>9 DEF SettleLost, SettleRetry, SettleEnd, RecordApply, Stop
  <2> QED BY <1>1, <2>1
<1>10. ASSUME work' = work PROVE work' \in [Worker -> Claim \cup {None}]
  BY <1>0, <1>10
<1> QED
  <2>1. CASE UNCHANGED vars
    BY <1>10, <2>1 DEF vars
  <2>2. CASE \E w \in Worker : Claims(w) \/ Runs(w) \/ Stop(w)
    BY <1>2, <1>3, <1>5, <1>6, <1>7, <1>8, <1>9, <2>2 DEF Claims, Runs
  <2>3. CASE Next /\ ~\E w \in Worker : Claims(w) \/ Runs(w) \/ Stop(w)
    <3>1. work' = work
      BY <2>3 DEF Next, SourceMoves, PersonTranslates, Enqueue, Cancel, ComesDue, Reject,
                  BeginAccept, AcceptWrites, AcceptDecides
    <3> QED BY <1>10, <3>1
  <2> QED BY <2>1, <2>2, <2>3

\* Every step keeps the types of rows, workers and suggestions.
LEMMA ShapeStep ==
    ASSUME Shape, Numbers, Outcomes, [Next]_vars
    PROVE  Shape'
<1>1. suggestion' \in [Job -> Seq(Sug)]
  <2>1. \A j \in Job : suggestion'[j] \in Seq(Sug)
    BY SuggestionStep DEF Kept
  <2>2. suggestion' = suggestion \/ suggestion' = [j \in Job |-> suggestion'[j]]
    BY DEF Shape, Next, vars, SourceMoves, PersonTranslates, Enqueue, Cancel, ComesDue, Reject,
           BeginAccept, AcceptWrites, AcceptDecides, Decide, Claims, LockAndPick, Pick, Take, Runs,
           Skip, Execute, SettleLost, InsertSuggestion, CommitSuggestion, SettleRetry, SettleEnd,
           Apply, RecordApply, Stop
  <2> QED BY <2>1, <2>2 DEF Shape
<1> DEFINE Rest ==
      /\ source' \in Nat /\ translated' \in Nat
      /\ state' \in [Job -> {"none", "queued", "running"} \cup Final]
      /\ attempts' \in [Job -> Nat] /\ forced' \in [Job -> BOOLEAN] /\ due' \in [Job -> BOOLEAN]
      /\ token' \in [Job -> Worker \cup {None}]
      /\ claiming' \in Worker \cup {None}
      /\ work' \in [Worker -> Claim \cup {None}]
      /\ review' \in [Reviewer -> Acceptance \cup {None}]
      /\ requests' \in [Job -> Nat] /\ calls' \in [Job -> Nat] /\ faults' \in Nat
<1>0. work' \in [Worker -> Claim \cup {None}]
  BY WorkStep
<1> SUFFICES Rest
  BY <1>1 DEF Shape
<1>2. CASE SourceMoves \/ PersonTranslates
  BY <1>2 DEF SourceMoves, PersonTranslates, row, Shape
<1>3. ASSUME NEW j \in Job, NEW fill \in BOOLEAN, NEW force \in BOOLEAN, Enqueue(j, fill, force)
      PROVE  Rest
  BY <1>3 DEF Enqueue, translation, Shape
<1>4. ASSUME NEW j \in Job, Cancel(j) PROVE Rest
  BY <1>4 DEF Cancel, translation, Shape, Final
<1>13. ASSUME NEW j \in Job, ComesDue(j) PROVE Rest
  BY <1>13 DEF ComesDue, Fault, translation, Shape
<1>5. ASSUME NEW j \in Job, NEW n \in DOMAIN suggestion[j], Reject(j, n) PROVE Rest
  BY <1>5 DEF Reject, translation, row, Shape
<1>6. ASSUME NEW j \in Job, NEW n \in DOMAIN suggestion[j], NEW p \in Reviewer, BeginAccept(p, j, n)
      PROVE  Rest
  <2>1. n \in Nat /\ suggestion[j][n] \in Sug
    BY LenProperties, ElementOfSeq DEF Shape
  <2>2. [job |-> j, number |-> n, version |-> suggestion[j][n].version, step |-> "write"] \in Acceptance
    BY <2>1 DEF Acceptance, Sug
  <2> QED BY <1>6, <2>2 DEF BeginAccept, translation, row, Shape
<1>7. ASSUME NEW p \in Reviewer, AcceptWrites(p) PROVE Rest
  <2>1. review[p] \in Acceptance
    BY <1>7 DEF AcceptWrites, Shape
  <2>2. [review[p] EXCEPT !.step = "decide"] \in Acceptance
    BY <2>1 DEF Acceptance
  <2>3. review' \in [Reviewer -> Acceptance \cup {None}]
    BY <1>7, <2>2 DEF AcceptWrites, Shape
  <2>4. source' \in Nat /\ translated' \in Nat
    BY <1>7, <2>1, RevAssumption DEF AcceptWrites, Written, translation, Shape, Acceptance
  <2> QED BY <1>7, <2>3, <2>4 DEF AcceptWrites, row, Shape
<1>8. ASSUME NEW p \in Reviewer, AcceptDecides(p) PROVE Rest
  BY <1>8 DEF AcceptDecides, translation, row, Shape
<1>9. ASSUME NEW w \in Worker, NEW j \in Job, LockAndPick(w, j) PROVE Rest
  BY <1>0, <1>9 DEF LockAndPick, Pick, translation, row, Shape
<1>10. ASSUME NEW w \in Worker, Take(w) PROVE Rest
  <2>1. On(w) \in Job
    BY <1>10, WorkType DEF Take, At
  <2>2. claiming' \in Worker \cup {None} /\ review' = review /\ forced' = forced
        /\ UNCHANGED <<translation, requests, calls, faults>>
    BY <1>10 DEF Take
  <2>3. CASE Claimable(On(w)) /\ Unlocked(On(w))
    <3>1. /\ state' = [state EXCEPT ![On(w)] = "running"]
          /\ attempts' = [attempts EXCEPT ![On(w)] = @ + 1]
          /\ due' = [due EXCEPT ![On(w)] = FALSE]
          /\ token' = [token EXCEPT ![On(w)] = w]
      BY <1>10, <2>3 DEF Take
    <3> QED BY <1>0, <2>1, <2>2, <3>1 DEF translation, Shape
  <2>4. CASE ~(Claimable(On(w)) /\ Unlocked(On(w)))
    <3>1. UNCHANGED <<state, attempts, due, token>>
      BY <1>10, <2>4 DEF Take
    <3> QED BY <1>0, <2>2, <3>1 DEF translation, Shape
  <2> QED BY <2>3, <2>4
<1>11. ASSUME NEW w \in Worker, Skip(w) \/ SettleLost(w) \/ InsertSuggestion(w) PROVE Rest
  BY <1>0, <1>11 DEF Skip, SettleLost, InsertSuggestion, translation, row, Shape
<1>12. ASSUME NEW w \in Worker, Execute(w) PROVE Rest
  <2>1. On(w) \in Job
    BY <1>12, WorkType DEF Execute, At
  <2> QED BY <1>0, <1>12, <2>1 DEF Execute, translation, row, Shape
<1>14. ASSUME NEW w \in Worker, CommitSuggestion(w) PROVE Rest
  <2>1. On(w) \in Job
    BY <1>14, WorkType DEF CommitSuggestion, At
  <2> QED BY <1>0, <1>14, <2>1 DEF CommitSuggestion, Finish, translation, Shape, Final
<1>15. ASSUME NEW w \in Worker, SettleRetry(w) \/ SettleEnd(w) PROVE Rest
  <2>1. On(w) \in Job /\ work[w] \in Claim
    BY <1>15, WorkType DEF SettleRetry, SettleEnd, At
  <2>2. CASE SettleRetry(w)
    BY <1>0, <2>1, <2>2 DEF SettleRetry, Finish, translation, Shape
  <2>3. CASE SettleEnd(w)
    <3>1. \E o \in Final : Finish(w, o)
      <4>1. CASE work[w].outcome = "transient"
        BY <2>3, <4>1 DEF SettleEnd, Final
      <4>2. CASE work[w].outcome # "transient"
        BY <2>1, <2>3, <4>2 DEF SettleEnd, Final, Claim, Outcomes
      <4> QED BY <4>1, <4>2
    <3> QED BY <1>0, <2>1, <2>3, <3>1 DEF SettleEnd, Finish, translation, Shape
  <2> QED BY <1>15, <2>2, <2>3
<1>16. ASSUME NEW w \in Worker, Apply(w) PROVE Rest
  <2>1. On(w) \in Job
    BY <1>16, WorkType DEF Apply, At
  <2>2. source' \in Nat /\ translated' \in Nat
    BY <1>16, <2>1, RevAssumption DEF Apply, Written, translation, Shape
  <2> QED BY <1>0, <1>16, <2>2 DEF Apply, row, Shape
<1>17. ASSUME NEW w \in Worker, RecordApply(w) \/ Stop(w) PROVE Rest
  BY <1>0, <1>17 DEF RecordApply, Stop, Fault, translation, row, Shape
<1>18. CASE UNCHANGED vars
  BY <1>18 DEF vars, translation, row, Shape
<1> HIDE DEF Rest
<1> QED
  BY <1>2, <1>3, <1>4, <1>5, <1>6, <1>7, <1>8, <1>9, <1>10, <1>11, <1>12, <1>13,
     <1>14, <1>15, <1>16, <1>17, <1>18 DEF Next, Claims, Runs

-----------------------------------------------------------------------------
(* What a step may do to a job's row, and to a worker.                     *)

Untouched(j) ==
    /\ state'[j] = state[j] /\ token'[j] = token[j] /\ attempts'[j] = attempts[j]
    /\ requests'[j] = requests[j] /\ due'[j] \in {due[j], TRUE}
Queued(j) ==
    /\ state[j] # "running" /\ Unlocked(j)
    /\ state'[j] = "queued" /\ token'[j] = None /\ attempts'[j] = 0
    /\ requests'[j] = requests[j] + 1
Cancelled(j) ==
    /\ state[j] = "queued" /\ Unlocked(j)
    /\ state'[j] = "cancelled" /\ token'[j] = token[j] /\ attempts'[j] = attempts[j]
    /\ requests'[j] = requests[j]
Taken(j, w) ==
    /\ At(w, "claim") /\ On(w) = j /\ Claimable(j) /\ Unlocked(j) /\ Take(w)
    /\ state'[j] = "running" /\ token'[j] = w /\ attempts'[j] = attempts[j] + 1
    /\ requests'[j] = requests[j]
Finished(j, w) ==
    /\ (At(w, "settle") /\ Fenced(w)) \/ At(w, "commit")
    /\ On(w) = j /\ (work'[w] = None \/ work'[w].step = "apply")
    /\ state'[j] \in {"queued"} \cup Final /\ token'[j] = None /\ attempts'[j] = attempts[j]
    /\ requests'[j] = requests[j] /\ (state'[j] = "queued" => ~due'[j])

\* What a step does to a job's row: nothing, or one of the four UPDATEs.
LEMMA RowStep ==
    ASSUME Shape, Outcomes, [Next]_vars, NEW j \in Job
    PROVE  Untouched(j) \/ Queued(j) \/ Cancelled(j)
           \/ \E w \in Worker : Taken(j, w) \/ Finished(j, w)
<1> USE DEF Shape
<1>1. CASE row' = row /\ requests' = requests
  BY <1>1 DEF row, Untouched
<1>2. ASSUME NEW k \in Job, NEW fill \in BOOLEAN, NEW force \in BOOLEAN, Enqueue(k, fill, force)
      PROVE  Untouched(j) \/ Queued(j)
  BY <1>2 DEF Enqueue, Requeues, Untouched, Queued
<1>3. ASSUME NEW k \in Job, Cancel(k) PROVE Untouched(j) \/ Cancelled(j)
  BY <1>3 DEF Cancel, Cancellable, Untouched, Cancelled
<1>4. ASSUME NEW k \in Job, ComesDue(k) PROVE Untouched(j)
  BY <1>4 DEF ComesDue, Untouched
<1>5. ASSUME NEW w \in Worker, Take(w) PROVE Untouched(j) \/ Taken(j, w)
  <2>1. At(w, "claim") /\ On(w) \in Job /\ requests' = requests
    BY <1>5, WorkType DEF Take, At
  <2>2. CASE Claimable(On(w)) /\ Unlocked(On(w))
    <3>1. /\ state' = [state EXCEPT ![On(w)] = "running"]
          /\ attempts' = [attempts EXCEPT ![On(w)] = @ + 1]
          /\ due' = [due EXCEPT ![On(w)] = FALSE]
          /\ token' = [token EXCEPT ![On(w)] = w]
      BY <1>5, <2>2 DEF Take
    <3> QED BY <1>5, <2>1, <2>2, <3>1 DEF Untouched, Taken
  <2>3. CASE ~(Claimable(On(w)) /\ Unlocked(On(w)))
    BY <1>5, <2>1, <2>3 DEF Take, Untouched
  <2> QED BY <2>2, <2>3
<1>6. ASSUME NEW w \in Worker, CommitSuggestion(w) PROVE Untouched(j) \/ Finished(j, w)
  <2>1. /\ At(w, "commit") /\ On(w) \in Job /\ Finish(w, "succeeded") /\ work[w] \in Claim
        /\ UNCHANGED <<due, requests>>
    BY <1>6, WorkType DEF CommitSuggestion, At
  <2>2. work'[w] = None \/ work'[w].step = "apply"
    BY <1>6, <2>1 DEF CommitSuggestion, Claim
  <2> QED BY <2>1, <2>2 DEF Finish, Final, Untouched, Finished
<1>7. ASSUME NEW w \in Worker, SettleRetry(w) PROVE Untouched(j) \/ Finished(j, w)
  <2>1. /\ At(w, "settle") /\ Fenced(w) /\ On(w) \in Job /\ Finish(w, "queued")
        /\ work'[w] = None /\ due' = [due EXCEPT ![On(w)] = FALSE] /\ requests' = requests
    BY <1>7, WorkType DEF SettleRetry, Locks, At
  <2> QED BY <2>1 DEF Finish, Untouched, Finished
<1>8. ASSUME NEW w \in Worker, SettleEnd(w) PROVE Untouched(j) \/ Finished(j, w)
  <2>1. /\ At(w, "settle") /\ Fenced(w) /\ On(w) \in Job /\ work[w] \in Claim
        /\ work'[w] = None /\ UNCHANGED <<due, requests>>
    BY <1>8, WorkType DEF SettleEnd, Locks, At
  <2>2. PICK o \in Final : Finish(w, o)
    <3>1. CASE work[w].outcome = "transient"
      BY <1>8, <3>1 DEF SettleEnd, Final
    <3>2. CASE work[w].outcome # "transient"
      BY <1>8, <2>1, <3>2 DEF SettleEnd, Final, Claim, Outcomes
    <3> QED BY <3>1, <3>2
  <2> QED BY <2>1, <2>2 DEF Finish, Final, Untouched, Finished
<1> HIDE DEF Shape
<1> QED
  <2>1. CASE UNCHANGED vars
    BY <1>1, <2>1 DEF vars
  <2>2. CASE Next
    BY <1>1, <1>2, <1>3, <1>4, <1>5, <1>6, <1>7, <1>8, <2>2
       DEF Next, SourceMoves, PersonTranslates, Reject, BeginAccept, AcceptWrites, AcceptDecides,
           Claims, LockAndPick, Pick, Runs, Skip, Execute, SettleLost, InsertSuggestion, Apply,
           RecordApply, Stop
  <2> QED BY <2>1, <2>2

\* A worker's claim goes a step further, or begins.
GoesOn(w) ==
    /\ work[w] # None /\ work'[w] # None
    /\ work'[w].job = work[w].job
    /\ \/ /\ At(w, "claim") /\ work'[w].step = "run" /\ Take(w)
          /\ work'[w].attempt = attempts[On(w)] + 1
       \/ /\ At(w, "run") /\ work'[w].step = "settle" /\ work'[w].outcome # "none"
          /\ work'[w].attempt = work[w].attempt
       \/ /\ At(w, "settle") /\ work'[w].step = "commit" /\ Fenced(w) /\ row' = row
          /\ work'[w].attempt = work[w].attempt
       \/ /\ At(w, "commit") /\ work'[w].step = "apply" /\ CommitSuggestion(w)
          /\ work'[w].number = Len(suggestion[On(w)]) + 1
       \/ /\ At(w, "apply") /\ work'[w].step \in {"decide", "note"}
          /\ work'[w].number = work[w].number
Begins(w) ==
    /\ work[w] = None /\ work'[w] # None /\ work'[w].step = "claim"
    /\ \E j \in Job : LockAndPick(w, j)

\* What a step does to a worker.
LEMMA WorkerStep ==
    ASSUME Shape, [Next]_vars, NEW w \in Worker
    PROVE  work'[w] = work[w] \/ work'[w] = None \/ Begins(w) \/ GoesOn(w)
<1>1. work \in [Worker -> Claim \cup {None}] /\ work' \in [Worker -> Claim \cup {None}]
  BY WorkStep DEF Shape
<1>2. ASSUME NEW v \in Worker, NEW j \in Job, LockAndPick(v, j)
      PROVE  work'[w] = work[w] \/ Begins(w)
  <2>1. /\ work[v] = None
        /\ work' = [work EXCEPT ![v] = [job |-> j, step |-> "claim", attempt |-> 0,
                                        outcome |-> "none", seen |-> {}, number |-> 0]]
    BY <1>2 DEF LockAndPick, Pick
  <2>2. CASE v = w
    <3>1. work'[w] = [job |-> j, step |-> "claim", attempt |-> 0, outcome |-> "none",
                      seen |-> {}, number |-> 0]
      BY <1>1, <2>1, <2>2
    <3>2. work'[w] \in Claim /\ work'[w].step = "claim"
      BY <3>1 DEF Claim
    <3>3. work'[w] # None
      BY <3>2, NoneAssumption
    <3> QED BY <1>2, <2>1, <2>2, <3>2, <3>3 DEF Begins
  <2>3. CASE v # w
    BY <1>1, <2>1, <2>3
  <2> QED BY <2>2, <2>3
<1>3. ASSUME NEW v \in Worker, Take(v) \/ Skip(v) \/ Execute(v) \/ InsertSuggestion(v)
                               \/ CommitSuggestion(v) \/ Apply(v),
             v # w
      PROVE  work'[w] = work[w]
  BY <1>1, <1>3 DEF Take, Skip, Execute, Ends, InsertSuggestion, CommitSuggestion, Apply
<1>4. ASSUME Take(w) \/ Skip(w) \/ Execute(w) \/ InsertSuggestion(w) \/ CommitSuggestion(w) \/ Apply(w),
             work'[w] # None
      PROVE  GoesOn(w)
  <2>1. work[w] # None /\ work[w] \in Claim
    BY <1>1, <1>4 DEF Take, Skip, Execute, InsertSuggestion, CommitSuggestion, Apply, At
  <2>2. CASE Take(w)
    <3>1. work' = [work EXCEPT ![w].step = "run", ![w].attempt = attempts[On(w)] + 1]
      BY <1>1, <1>4, <2>2 DEF Take
    <3>2. /\ work'[w].job = work[w].job /\ work'[w].step = "run"
          /\ work'[w].attempt = attempts[On(w)] + 1
      BY <1>1, <2>1, <3>1 DEF Claim
    <3> QED BY <1>4, <2>1, <2>2, <3>2 DEF GoesOn, Take
  <2>3. CASE Skip(w) \/ Execute(w)
    <3>1. At(w, "run") /\ \E o : o # "none" /\ Ends(w, o)
      BY <2>3 DEF Skip, Execute
    <3>2. /\ work'[w].job = work[w].job /\ work'[w].step = "settle" /\ work'[w].outcome # "none"
          /\ work'[w].attempt = work[w].attempt
      BY <1>1, <2>1, <3>1 DEF Ends, Claim
    <3> QED BY <1>4, <2>1, <3>1, <3>2 DEF GoesOn
  <2>4. CASE InsertSuggestion(w)
    <3>1. /\ work'[w].job = work[w].job /\ work'[w].step = "commit"
          /\ work'[w].attempt = work[w].attempt
      BY <1>1, <2>1, <2>4 DEF InsertSuggestion, Claim
    <3> QED BY <1>4, <2>1, <2>4, <3>1 DEF GoesOn, InsertSuggestion, Locks
  <2>5. CASE CommitSuggestion(w)
    <3>1. work'[w] = [work[w] EXCEPT !.step = "apply", !.seen = {},
                                     !.number = Len(suggestion[On(w)]) + 1]
      BY <1>1, <1>4, <2>5 DEF CommitSuggestion
    <3>2. /\ work'[w].job = work[w].job /\ work'[w].step = "apply"
          /\ work'[w].number = Len(suggestion[On(w)]) + 1
      BY <2>1, <3>1 DEF Claim
    <3> QED BY <1>4, <2>1, <2>5, <3>2 DEF GoesOn, CommitSuggestion
  <2>6. CASE Apply(w)
    <3>1. /\ work'[w].job = work[w].job /\ work'[w].step \in {"decide", "note"}
          /\ work'[w].number = work[w].number
      BY <1>1, <2>1, <2>6 DEF Apply, Claim
    <3> QED BY <1>4, <2>1, <2>6, <3>1 DEF GoesOn, Apply
  <2> QED BY <1>4, <2>2, <2>3, <2>4, <2>5, <2>6
<1>5. ASSUME NEW v \in Worker,
             SettleLost(v) \/ SettleRetry(v) \/ SettleEnd(v) \/ RecordApply(v) \/ Stop(v)
      PROVE  work'[w] = work[w] \/ work'[w] = None
  BY <1>1, <1>5 DEF SettleLost, SettleRetry, SettleEnd, RecordApply, Stop
<1> QED
  <2>1. CASE UNCHANGED vars
    BY <2>1 DEF vars
  <2>2. CASE \E v \in Worker : Claims(v) \/ Runs(v) \/ Stop(v)
    BY <1>2, <1>3, <1>4, <1>5, <2>2 DEF Claims, Runs
  <2>3. CASE Next /\ ~\E v \in Worker : Claims(v) \/ Runs(v) \/ Stop(v)
    BY <2>3 DEF Next, SourceMoves, PersonTranslates, Enqueue, Cancel, ComesDue, Reject,
                BeginAccept, AcceptWrites, AcceptDecides
  <2> QED BY <2>1, <2>2, <2>3

\* A claim that leaves the worker a job has taken it.
LEMMA TakeTakes ==
    ASSUME Shape, NEW w \in Worker, Take(w), work'[w] # None
    PROVE  Taken(On(w), w)
<1>1. At(w, "claim") /\ On(w) \in Job
  BY WorkType DEF Take, At
<1>2. Claimable(On(w)) /\ Unlocked(On(w))
  <2>1. CASE ~(Claimable(On(w)) /\ Unlocked(On(w)))
    <3>1. work' = [work EXCEPT ![w] = None]
      BY <2>1 DEF Take
    <3> QED BY <3>1 DEF Shape
  <2> QED BY <2>1
<1>3. /\ state' = [state EXCEPT ![On(w)] = "running"]
      /\ attempts' = [attempts EXCEPT ![On(w)] = @ + 1]
      /\ token' = [token EXCEPT ![On(w)] = w] /\ requests' = requests
  BY <1>2 DEF Take
<1> QED BY <1>1, <1>2, <1>3 DEF Taken, Shape

-----------------------------------------------------------------------------
(* Each part of the invariant through a step.                              *)

\* A token stays on the running jobs, and on no other.
LEMMA TokensStep ==
    ASSUME Shape, Tokens, Outcomes, [Next]_vars
    PROVE  Tokens'
<1> SUFFICES ASSUME NEW j \in Job PROVE state'[j] = "running" <=> token'[j] # None
  BY DEF Tokens
<1>1. \A w \in Worker : w # None
  BY NoneAssumption
<1>2. CASE Untouched(j) \/ Queued(j) \/ Cancelled(j)
  BY <1>2 DEF Tokens, Untouched, Queued, Cancelled
<1>3. ASSUME NEW w \in Worker, Taken(j, w) \/ Finished(j, w)
      PROVE  state'[j] = "running" <=> token'[j] # None
  BY <1>1, <1>3 DEF Taken, Finished, Final
<1> QED BY <1>2, <1>3, RowStep

\* What is to be settled keeps having an outcome.
LEMMA OutcomesStep ==
    ASSUME Shape, Outcomes, [Next]_vars
    PROVE  Outcomes'
<1> SUFFICES ASSUME NEW w \in Worker, work'[w] # None, work'[w].step = "settle"
             PROVE  work'[w].outcome # "none"
  BY DEF Outcomes, At
<1>1. work'[w] = work[w] \/ Begins(w) \/ GoesOn(w)
  BY WorkerStep
<1> QED BY <1>1 DEF Outcomes, Begins, GoesOn, At

\* What a worker or a reviewer is to decide keeps existing.
LEMMA NumbersStep ==
    ASSUME Shape, Numbers, [Next]_vars
    PROVE  Numbers'
<1>1. \A j \in Job : DOMAIN suggestion[j] \subseteq DOMAIN suggestion'[j]
  <2> TAKE j \in Job
  <2>1. Kept(suggestion[j], suggestion'[j]) /\ suggestion[j] \in Seq(Sug)
    BY SuggestionStep DEF Shape
  <2> QED BY <2>1, LenProperties DEF Kept
<1>2. ASSUME NEW w \in Worker, Deciding(w)'
      PROVE  work'[w].number \in DOMAIN suggestion'[work'[w].job]
  <2>1. work'[w] # None /\ work'[w].step \in {"apply", "decide", "note"}
    BY <1>2 DEF Deciding, At
  <2>2. work'[w] = work[w] \/ GoesOn(w)
    BY <2>1, WorkerStep DEF Begins
  <2>3. CASE Deciding(w) /\ work'[w].job = work[w].job /\ work'[w].number = work[w].number
    <3>1. work[w].number \in DOMAIN suggestion[On(w)] /\ On(w) \in Job
      BY <2>3, WorkType DEF Numbers, Deciding, At
    <3> QED BY <1>1, <2>3, <3>1 DEF On
  <2>4. CASE CommitSuggestion(w) /\ work'[w].number = Len(suggestion[On(w)]) + 1
             /\ work'[w].job = work[w].job
    <3>1. On(w) \in Job
      BY <2>4, WorkType DEF CommitSuggestion, At
    <3>2. Len(suggestion'[On(w)]) = Len(suggestion[On(w)]) + 1 /\ suggestion'[On(w)] \in Seq(Sug)
      BY <2>4, <3>1, CommitKeeps DEF Kept
    <3>3. Len(suggestion[On(w)]) \in Nat /\ DOMAIN suggestion'[On(w)] = 1 .. Len(suggestion'[On(w)])
      BY <3>1, <3>2, LenProperties DEF Shape
    <3>4. work'[w].number \in DOMAIN suggestion'[On(w)]
      BY <2>4, <3>2, <3>3
    <3> QED BY <2>4, <3>4 DEF On
  <2> QED BY <2>1, <2>2, <2>3, <2>4 DEF GoesOn, Deciding, At
<1>3. ASSUME NEW p \in Reviewer, review'[p] # None
      PROVE  review'[p].number \in DOMAIN suggestion'[review'[p].job]
  <2>1. review \in [Reviewer -> Acceptance \cup {None}]
    BY DEF Shape
  <2>2. CASE /\ review[p] # None
             /\ review'[p].number = review[p].number /\ review'[p].job = review[p].job
    <3>1. review[p] \in Acceptance
      BY <2>1, <2>2
    <3>2. review[p].number \in DOMAIN suggestion[review[p].job] /\ review[p].job \in Job
      BY <2>2, <3>1 DEF Numbers, Acceptance
    <3> QED BY <1>1, <2>2, <3>2
  <2>3. ASSUME NEW j \in Job, NEW n \in DOMAIN suggestion[j],
               review'[p] = [job |-> j, number |-> n, version |-> suggestion[j][n].version, step |-> "write"]
        PROVE  review'[p].number \in DOMAIN suggestion'[review'[p].job]
    BY <1>1, <2>3
  <2>4. CASE review' = review
    BY <1>3, <2>2, <2>4
  <2>5. ASSUME NEW q \in Reviewer, AcceptWrites(q) \/ AcceptDecides(q)
        PROVE  review[p] # None /\ review'[p].number = review[p].number /\ review'[p].job = review[p].job
    <3>1. CASE q = p
      <4>1. review[p] \in Acceptance /\ review[p] # None
        BY <2>1, <2>5, <3>1 DEF AcceptWrites, AcceptDecides
      <4>2. review'[p] = [review[p] EXCEPT !.step = "decide"]
        BY <1>3, <2>1, <2>5, <3>1 DEF AcceptWrites, AcceptDecides
      <4> QED BY <4>1, <4>2 DEF Acceptance
    <3>2. CASE q # p
      <4>1. review'[p] = review[p]
        BY <2>1, <2>5, <3>2 DEF AcceptWrites, AcceptDecides
      <4> QED BY <1>3, <4>1
    <3> QED BY <3>1, <3>2
  <2>6. ASSUME NEW j \in Job, NEW n \in DOMAIN suggestion[j], NEW q \in Reviewer, BeginAccept(q, j, n)
        PROVE  \/ review'[p] = review[p]
               \/ review'[p] = [job |-> j, number |-> n, version |-> suggestion[j][n].version,
                                step |-> "write"]
    BY <2>1, <2>6 DEF BeginAccept
  <2>7. \/ review' = review
        \/ \E q \in Reviewer : AcceptWrites(q) \/ AcceptDecides(q)
        \/ \E j \in Job : \E n \in DOMAIN suggestion[j] : \E q \in Reviewer : BeginAccept(q, j, n)
    BY DEF Next, vars, SourceMoves, PersonTranslates, Enqueue, Cancel, ComesDue, Reject, Claims,
           LockAndPick, Pick, Take, Runs, Skip, Execute, SettleLost, InsertSuggestion,
           CommitSuggestion, SettleRetry, SettleEnd, Apply, RecordApply, Stop
  <2> QED BY <1>3, <2>2, <2>3, <2>4, <2>5, <2>6, <2>7
<1> QED BY <1>2, <1>3 DEF Numbers, On

\* A settlement about to commit keeps the job.
LEMMA CommittingStep ==
    ASSUME Shape, Outcomes, Committing, [Next]_vars
    PROVE  Committing'
<1> SUFFICES ASSUME NEW w \in Worker, work'[w] # None, work'[w].step = "commit"
             PROVE  state'[work'[w].job] = "running" /\ token'[work'[w].job] = w
  BY DEF Committing, At, On
<1>1. CASE work'[w] = work[w]
  <2> DEFINE j == On(w)
  <2>1. At(w, "commit") /\ j \in Job /\ state[j] = "running" /\ token[j] = w /\ j = work'[w].job
    BY <1>1, WorkType DEF Committing, At, On
  <2>2. ~Unlocked(j)
    BY <2>1 DEF Unlocked
  <2>3. ASSUME NEW v \in Worker, Finished(j, v) PROVE FALSE
    <3>1. token[j] = v
      BY <2>3 DEF Finished, Fenced, Committing
    <3> QED BY <2>1, <2>3, <3>1 DEF Finished
  <2>4. Untouched(j)
    BY <2>1, <2>2, <2>3, RowStep DEF Queued, Cancelled, Taken
  <2> QED BY <2>1, <2>4 DEF Untouched
<1>2. CASE work'[w] # work[w]
  <2>1. GoesOn(w)
    BY <1>2, WorkerStep DEF Begins
  <2>2. Fenced(w) /\ row' = row /\ work'[w].job = On(w)
    BY <2>1 DEF GoesOn, On
  <2> QED BY <2>2 DEF Fenced, row
<1> QED BY <1>1, <1>2

\* Only a claim counts an attempt or gives a token, and it does both.
LEMMA LastAttemptsStep ==
    ASSUME Shape, Outcomes, LastAttempts, [Next]_vars
    PROVE  LastAttempts'
<1> SUFFICES ASSUME NEW w \in Worker, work'[w] # None, work'[w].step \in {"run", "settle", "commit"},
                    token'[work'[w].job] = w
             PROVE  work'[w].attempt = attempts'[work'[w].job]
  BY DEF LastAttempts, Running, At, On
<1> DEFINE j == work'[w].job
<1>1. work'[w] \in Claim /\ j \in Job
  <2>1. work'[w] \in Claim
    BY WorkStep
  <2> QED BY <2>1 DEF Claim
<1>2. w # None
  BY NoneAssumption
<1>3. CASE \E v \in Worker : Taken(j, v)
  <2>1. PICK v \in Worker : Taken(j, v)
    BY <1>3
  <2>2. v = w /\ At(w, "claim") /\ On(w) = j /\ attempts'[j] = attempts[j] + 1
    BY <2>1 DEF Taken
  <2>3. work'[w] # work[w]
    BY <2>2 DEF At
  <2>4. GoesOn(w)
    BY <2>2, <2>3, WorkerStep DEF Begins, At
  <2> QED BY <2>2, <2>4 DEF GoesOn, At
<1>4. CASE ~\E v \in Worker : Taken(j, v)
  <2>1. token[j] = w /\ attempts'[j] = attempts[j]
    BY <1>1, <1>2, <1>4, RowStep DEF Untouched, Queued, Cancelled, Finished
  <2>2. CASE work'[w] = work[w]
    BY <2>1, <2>2 DEF LastAttempts, Running, At, On
  <2>3. CASE work'[w] # work[w]
    <3>1. GoesOn(w) /\ On(w) = j
      BY <2>3, WorkerStep DEF Begins, GoesOn, On
    <3>2. ~Take(w)
      BY <1>4, <3>1, TakeTakes
    <3> QED BY <2>1, <3>1, <3>2 DEF GoesOn, LastAttempts, Running, At, On
  <2> QED BY <2>2, <2>3
<1> QED BY <1>3, <1>4

\* A job has a result for a request at most once: the fence lets one claim
\* of an attempt settle.
LEMMA ResultsStep ==
    ASSUME Shape, Numbers, Outcomes, Committing, Results, [Next]_vars
    PROVE  Results'
<1> SUFFICES ASSUME NEW j \in Job
             PROVE  /\ Len(suggestion'[j]) <= requests'[j]
                    /\ state'[j] \in {"queued", "running"} => Len(suggestion'[j]) + 1 <= requests'[j]
  BY DEF Results
<1>1. /\ Len(suggestion[j]) <= requests[j]
      /\ state[j] \in {"queued", "running"} => Len(suggestion[j]) + 1 <= requests[j]
      /\ Len(suggestion[j]) \in Nat /\ requests[j] \in Nat
  BY LenProperties DEF Results, Shape
<1>2. CASE Len(suggestion'[j]) = Len(suggestion[j])
  <2>1. CASE Untouched(j)
    BY <1>1, <1>2, <2>1 DEF Untouched
  <2>2. CASE Queued(j)
    BY <1>1, <1>2, <2>2 DEF Queued
  <2>3. CASE Cancelled(j)
    BY <1>1, <1>2, <2>3 DEF Cancelled
  <2>4. ASSUME NEW w \in Worker, Taken(j, w)
        PROVE  Len(suggestion'[j]) + 1 <= requests'[j]
    BY <1>1, <1>2, <2>4 DEF Taken, Claimable
  <2>5. ASSUME NEW w \in Worker, Finished(j, w)
        PROVE  Len(suggestion'[j]) + 1 <= requests'[j]
    <3>1. state[j] = "running" /\ requests'[j] = requests[j]
      BY <2>5 DEF Finished, Fenced, Committing
    <3> QED BY <1>1, <1>2, <3>1
  <2>6. requests'[j] \in Nat
    BY ShapeStep DEF Shape
  <2> QED BY <1>1, <1>2, <2>1, <2>2, <2>3, <2>4, <2>5, <2>6, RowStep
<1>3. ASSUME NEW w \in Worker, CommitSuggestion(w), On(w) = j, Len(suggestion'[j]) = Len(suggestion[j]) + 1
      PROVE  /\ Len(suggestion'[j]) <= requests'[j]
             /\ state'[j] \notin {"queued", "running"}
  <2>1. state[j] = "running"
    BY <1>3 DEF CommitSuggestion, Committing
  <2>2. state'[j] = "succeeded" /\ requests' = requests
    BY <1>3 DEF CommitSuggestion, Finish, Shape
  <2> QED BY <1>1, <1>3, <2>1, <2>2
<1> QED BY <1>2, <1>3, SuggestionStep

\* A suggestion that is decided has another version than when inserted.
LEMMA VersionsStep ==
    ASSUME Shape, Numbers, Versions, [Next]_vars
    PROVE  Versions'
<1> SUFFICES ASSUME NEW j \in Job, NEW n \in DOMAIN suggestion'[j], suggestion'[j][n].version = 1
             PROVE  suggestion'[j][n].status = "pending"
  BY DEF Versions, Pending
<1> DEFINE old == suggestion[j]
           new == suggestion'[j]
<1>1. old \in Seq(Sug) /\ Len(old) \in Nat /\ DOMAIN old = 1 .. Len(old)
  BY LenProperties DEF Shape
<1>2. Kept(old, new)
  BY SuggestionStep
<1>3. new \in Seq(Sug) /\ Len(new) \in Nat /\ DOMAIN new = 1 .. Len(new)
  BY <1>2, LenProperties DEF Kept
<1>4. CASE n \in 1 .. Len(old)
  <2>1. old[n] \in Sug
    BY <1>1, <1>4, ElementOfSeq
  <2>2. old[n].version \in Nat \ {0}
    BY <2>1 DEF Sug
  <2>3. new[n] = old[n]
    BY <1>2, <1>4, <2>2 DEF Kept
  <2> QED BY <1>1, <1>4, <2>3 DEF Versions, Pending
<1>5. CASE n \in Len(old) + 1 .. Len(new)
  BY <1>2, <1>5 DEF Kept, New
<1> QED BY <1>1, <1>3, <1>4, <1>5

\* Every step keeps the cap: a claim counts the running jobs under the lock.
LEMMA ClaimingStep ==
    ASSUME Shape, Outcomes, Claiming, [Next]_vars
    PROVE  Claiming'
<1> USE NoneAssumption
<1>0. /\ Cap \in Nat /\ IsFiniteSet(Leased) /\ Cardinality(Leased) \in Nat
      /\ Cardinality(Leased) <= Cap
      /\ claiming # None => Cardinality(Leased) + 1 <= Cap
  BY JobBoundAssumption, FS_CardinalityType DEF Claiming
<1>1. \A j \in Leased' : j \in Leased \/ \E w \in Worker : Taken(j, w)
  <2> SUFFICES ASSUME NEW j \in Job, state'[j] = "running", ~due'[j],
                      ~\E w \in Worker : Taken(j, w)
               PROVE  state[j] = "running" /\ ~due[j]
    BY DEF Leased
  <2>1. ~Queued(j) /\ ~Cancelled(j) /\ \A w \in Worker : ~Finished(j, w)
    BY DEF Queued, Cancelled, Finished, Final
  <2>2. Untouched(j)
    BY <2>1, RowStep
  <2> QED BY <2>2 DEF Untouched, Shape
<1>2. ASSUME \A w \in Worker : ~Take(w) PROVE IsFiniteSet(Leased') /\ Cardinality(Leased') <= Cardinality(Leased)
  <2>1. Leased' \subseteq Leased
    BY <1>1, <1>2 DEF Taken
  <2> QED BY <1>0, <2>1, FS_Subset
<1>3. ASSUME NEW w \in Worker, Take(w) PROVE IsFiniteSet(Leased') /\ Cardinality(Leased') <= Cap
  <2>1. Leased' \subseteq Leased \cup {On(w)}
    <3>1. claiming = w
      BY <1>3 DEF Take, Claiming
    <3>2. \A j \in Job, v \in Worker : Taken(j, v) => j = On(w)
      BY <3>1 DEF Taken, Claiming
    <3> QED BY <1>1, <3>2 DEF Leased
  <2>2. Cardinality(Leased) + 1 <= Cap
    BY <1>0, <1>3 DEF Take, Claiming
  <2>3. IsFiniteSet(Leased \cup {On(w)}) /\ Cardinality(Leased \cup {On(w)}) <= Cardinality(Leased) + 1
    <3>1. Cardinality(Leased \cup {On(w)}) =
            IF On(w) \in Leased THEN Cardinality(Leased) ELSE Cardinality(Leased) + 1
      BY <1>0, FS_AddElement
    <3>2. IsFiniteSet(Leased \cup {On(w)})
      BY <1>0, FS_AddElement
    <3> QED BY <1>0, <3>1, <3>2
  <2>4. Cardinality(Leased \cup {On(w)}) \in Nat
    BY <2>3, FS_CardinalityType
  <2>5. IsFiniteSet(Leased') /\ Cardinality(Leased') <= Cardinality(Leased \cup {On(w)})
    BY <2>1, <2>3, FS_Subset
  <2>6. Cardinality(Leased') \in Nat
    BY <2>5, FS_CardinalityType
  <2> QED BY <1>0, <2>2, <2>3, <2>4, <2>5, <2>6
<1>4. work \in [Worker -> Claim \cup {None}] /\ work' \in [Worker -> Claim \cup {None}]
  BY WorkStep DEF Shape
<1>5. \A v \in Worker : At(v, "claim") <=> claiming = v
  BY DEF Claiming
<1>6. ASSUME NEW w \in Worker, NEW j \in Job, LockAndPick(w, j) PROVE Claiming'
  <2>1. /\ claiming = None /\ claiming' = w /\ work[w] = None
        /\ Cardinality(Leased) < Cap /\ UNCHANGED row
        /\ \A v \in Worker \ {w} : work'[v] = work[v]
    BY <1>4, <1>6 DEF LockAndPick, Pick
  <2>2. work'[w] # None /\ work'[w].step = "claim"
    <3>1. work'[w] = [job |-> j, step |-> "claim", attempt |-> 0, outcome |-> "none",
                      seen |-> {}, number |-> 0]
      BY <1>4, <1>6 DEF LockAndPick, Pick
    <3>2. work'[w] \in Claim
      BY <3>1 DEF Claim
    <3> QED BY <3>1, <3>2
  <2>3. Leased' = Leased
    BY <2>1 DEF row, Leased
  <2>4. \A v \in Worker : At(v, "claim")' <=> claiming' = v
    BY <1>5, <2>1, <2>2 DEF At
  <2> QED BY <1>0, <2>1, <2>3, <2>4 DEF Claiming
<1>7. ASSUME NEW w \in Worker, Take(w) PROVE Claiming'
  <2>1. /\ claiming = w /\ claiming' = None
        /\ \A v \in Worker \ {w} : work'[v] = work[v]
    BY <1>4, <1>5, <1>7 DEF Take
  <2>2. work'[w] = None \/ work'[w].step # "claim"
    <3>1. work[w] # None
      BY <1>7 DEF Take, At
    <3>2. work'[w] # work[w]
      BY <1>4, <1>7, <3>1 DEF Take, At, Claim
    <3> QED BY <3>1, <3>2, WorkerStep DEF Begins, GoesOn
  <2>3. \A v \in Worker : At(v, "claim")' <=> claiming' = v
    BY <1>5, <2>1, <2>2 DEF At
  <2> QED BY <1>3, <1>7, <2>1, <2>3 DEF Claiming
<1>8. ASSUME NEW w \in Worker, Stop(w) PROVE Claiming'
  <2>1. /\ work'[w] = None /\ claiming' = (IF claiming = w THEN None ELSE claiming)
        /\ UNCHANGED row /\ \A v \in Worker \ {w} : work'[v] = work[v]
    BY <1>4, <1>8 DEF Stop
  <2>2. \A v \in Worker : At(v, "claim")' <=> claiming' = v
    BY <1>5, <2>1 DEF At
  <2>3. Leased' = Leased
    BY <2>1 DEF row, Leased
  <2> QED BY <1>0, <2>1, <2>2, <2>3 DEF Claiming
<1>9. ASSUME claiming' = claiming, \A v \in Worker : ~Take(v),
             \A v \in Worker : At(v, "claim")' <=> At(v, "claim")
      PROVE  Claiming'
  <2>1. IsFiniteSet(Leased') /\ Cardinality(Leased') \in Nat /\ Cardinality(Leased') <= Cardinality(Leased)
    BY <1>2, <1>9, FS_CardinalityType
  <2> QED BY <1>0, <1>5, <1>9, <2>1 DEF Claiming
<1>10. ASSUME NEW w \in Worker, Runs(w) PROVE Claiming'
  <2>1. /\ claiming' = claiming /\ ~At(w, "claim") /\ work[w] # None
        /\ \A v \in Worker \ {w} : work'[v] = work[v]
    BY <1>4, <1>10 DEF Runs, Skip, Execute, Ends, SettleLost, InsertSuggestion, CommitSuggestion,
                       SettleRetry, SettleEnd, Apply, RecordApply, At
  <2>2. ~At(w, "claim")'
    BY <2>1, WorkerStep DEF Begins, GoesOn, At
  <2>3. \A v \in Worker : At(v, "claim")' <=> At(v, "claim")
    BY <2>1, <2>2 DEF At
  <2>4. ASSUME NEW v \in Worker, Take(v) PROVE FALSE
    <3>1. At(v, "claim") /\ work'[v] # work[v]
      BY <1>4, <2>4 DEF Take, At, Claim
    <3> QED BY <2>1, <3>1
  <2> QED BY <1>9, <2>1, <2>3, <2>4
<1>11. ASSUME UNCHANGED <<work, claiming>> PROVE Claiming'
  <2>1. ASSUME NEW v \in Worker, Take(v) PROVE FALSE
    BY <1>4, <1>11, <2>1 DEF Take, At, Claim
  <2> QED BY <1>9, <1>11, <2>1 DEF At
<1> QED
  <2>1. CASE UNCHANGED vars
    BY <1>11, <2>1 DEF vars
  <2>2. CASE \E w \in Worker : Claims(w) \/ Runs(w) \/ Stop(w)
    BY <1>6, <1>7, <1>8, <1>10, <2>2 DEF Claims
  <2>3. CASE Next /\ ~\E w \in Worker : Claims(w) \/ Runs(w) \/ Stop(w)
    <3>1. UNCHANGED <<work, claiming>>
      BY <2>3 DEF Next, SourceMoves, PersonTranslates, Enqueue, Cancel, ComesDue, Reject,
                  BeginAccept, AcceptWrites, AcceptDecides
    <3> QED BY <1>11, <3>1
  <2> QED BY <2>1, <2>2, <2>3

\* One factor more.
LEMMA OneMore == \A a, b \in Nat : a * b \in Nat /\ a * (b + 1) = a * b + a
OBVIOUS

\* Nobody else may ask a provider than before, but the worker that takes the job.
LEMMA AskersStep ==
    ASSUME Shape, [Next]_vars, NEW j \in Job, NEW w \in Askers(j)', w \notin Askers(j)
    PROVE  Taken(j, w) /\ work'[w].attempt = attempts[j] + 1
<1>1. /\ w \in Worker /\ work'[w] # None /\ work'[w].step = "run" /\ work'[w].job = j
      /\ work'[w].attempt <= MaxAttempts[j]
  BY DEF Askers, At, On
<1>2. work'[w] # work[w]
  BY <1>1 DEF Askers, At, On
<1>3. /\ At(w, "claim") /\ Take(w) /\ On(w) = j
      /\ work'[w].attempt = attempts[j] + 1
  BY <1>1, <1>2, WorkerStep DEF Begins, GoesOn, On
<1> QED BY <1>1, <1>3, TakeTakes

\* Every step keeps the count of provider calls under attempts times requests.
LEMMA CallsStep ==
    ASSUME Shape, Outcomes, Claiming, Results, Calls, [Next]_vars
    PROVE  Calls'
<1> SUFFICES ASSUME NEW j \in Job
             PROVE  /\ IsFiniteSet(Askers(j)')
                    /\ calls'[j] + Cardinality(Askers(j)') + Left(j)' <= MaxAttempts[j] * requests'[j]
  BY DEF Calls
<1> DEFINE A == Cardinality(Askers(j))
           B == Cardinality(Askers(j)')
           M == MaxAttempts[j]
           P == M * requests[j]
<1>1. /\ IsFiniteSet(Askers(j)) /\ A \in Nat /\ calls[j] \in Nat /\ P \in Nat
      /\ calls[j] + A + Left(j) <= P
      /\ M \in Nat /\ M > 0 /\ attempts[j] \in Nat /\ requests[j] \in Nat
  <2>1. IsFiniteSet(Askers(j)) /\ calls[j] + A + Left(j) <= P
    BY DEF Calls
  <2>2. calls[j] \in Nat /\ attempts[j] \in Nat /\ requests[j] \in Nat
    BY DEF Shape
  <2>3. M \in Nat /\ M > 0
    BY JobBoundAssumption
  <2> QED BY <2>1, <2>2, <2>3, FS_CardinalityType, OneMore
<1>2. ASSUME NEW w \in Worker, Execute(w), On(w) = j
      PROVE  IsFiniteSet(Askers(j)') /\ calls'[j] + B + Left(j)' <= M * requests'[j]
  <2>1. calls'[j] = calls[j] + 1 /\ requests' = requests /\ attempts' = attempts
    BY <1>2 DEF Execute, Shape, row
  <2>2. At(w, "run") /\ work[w].attempt <= M
    <3>1. work[w].attempt \in Nat
      BY <1>2, WorkType DEF Execute, At
    <3> QED BY <1>1, <1>2, <3>1 DEF Execute, Spent
  <2>3. w \in Askers(j)
    BY <1>2, <2>2 DEF Askers
  <2>4. w \notin Askers(j)'
    <3>1. work'[w] # work[w]
      <4>1. work[w] # None /\ work[w].step = "run" /\ work[w] \in Claim
        BY <2>2, WorkType DEF At
      <4>2. work'[w].step = "settle"
        BY <1>2, <4>1 DEF Execute, Ends, Shape, Claim
      <4> QED BY <4>1, <4>2
    <3>2. work'[w] = None \/ work'[w].step = "settle"
      BY <2>2, <3>1, WorkerStep DEF Begins, GoesOn, At
    <3> QED BY <3>2 DEF Askers, At
  <2>5. \A v \in Worker : ~Taken(j, v)
    BY <2>1, <1>1 DEF Taken
  <2>6. Askers(j)' \subseteq Askers(j) \ {w}
    BY <2>4, <2>5, AskersStep DEF Askers
  <2>7. IsFiniteSet(Askers(j) \ {w}) /\ Cardinality(Askers(j) \ {w}) = A - 1
    BY <1>1, <2>3, FS_RemoveElement
  <2>8. IsFiniteSet(Askers(j)') /\ B <= A - 1 /\ B \in Nat
    BY <2>6, <2>7, FS_Subset, FS_CardinalityType
  <2>9. Left(j)' = Left(j) /\ Left(j) \in Int
    BY <1>1, <2>1 DEF Left
  <2> HIDE DEF A, B, M
  <2> QED BY <1>1, <2>1, <2>8, <2>9
<1>3. ASSUME NEW w \in Worker, Taken(j, w)
      PROVE  IsFiniteSet(Askers(j)') /\ calls'[j] + B + Left(j)' <= M * requests'[j]
  <2>1. /\ calls' = calls /\ requests'[j] = requests[j] /\ attempts'[j] = attempts[j] + 1
    BY <1>3 DEF Taken, Take
  <2>2. requests[j] # 0
    <3>1. Len(suggestion[j]) + 1 <= requests[j] /\ Len(suggestion[j]) \in Nat
      BY <1>3, LenProperties DEF Taken, Claimable, Results, Shape
    <3> QED BY <1>1, <3>1
  <2>3. \A v \in Worker : Taken(j, v) => v = w
    BY <1>3 DEF Taken, Claiming
  <2>4. Askers(j)' \subseteq Askers(j) \cup {w}
    BY <2>3, AskersStep DEF Askers
  <2>5. CASE attempts[j] + 1 <= M
    <3>1. IsFiniteSet(Askers(j) \cup {w}) /\ Cardinality(Askers(j) \cup {w}) <= A + 1
          /\ Cardinality(Askers(j) \cup {w}) \in Nat
      <4>1. /\ IsFiniteSet(Askers(j) \cup {w})
            /\ Cardinality(Askers(j) \cup {w}) = IF w \in Askers(j) THEN A ELSE A + 1
        BY <1>1, FS_AddElement
      <4> HIDE DEF A
      <4> QED BY <1>1, <4>1
    <3>2. IsFiniteSet(Askers(j)') /\ B <= Cardinality(Askers(j) \cup {w}) /\ B \in Nat
      BY <2>4, <3>1, FS_Subset, FS_CardinalityType
    <3>3. Left(j)' = M - (attempts[j] + 1) /\ Left(j) = M - attempts[j]
      BY <1>1, <2>1, <2>2, <2>5 DEF Left
    <3> HIDE DEF A, B, M
    <3> QED BY <1>1, <2>1, <3>1, <3>2, <3>3
  <2>6. CASE attempts[j] + 1 > M
    <3>1. w \notin Askers(j)' \ Askers(j)
      <4>1. ASSUME w \in Askers(j)', w \notin Askers(j) PROVE FALSE
        <5>1. work'[w].attempt = attempts[j] + 1
          BY <4>1, AskersStep
        <5>2. work'[w].attempt <= M
          BY <4>1 DEF Askers, On
        <5> QED BY <1>1, <2>6, <5>1, <5>2
      <4> QED BY <4>1
    <3>2. Askers(j)' \subseteq Askers(j)
      BY <2>4, <3>1
    <3>3. IsFiniteSet(Askers(j)') /\ B <= A /\ B \in Nat
      BY <1>1, <3>2, FS_Subset, FS_CardinalityType
    <3>4. Left(j)' = 0 /\ Left(j) \in Nat
      BY <1>1, <2>1, <2>6 DEF Left
    <3> HIDE DEF A, B, M
    <3> QED BY <1>1, <2>1, <3>3, <3>4
  <2> QED BY <1>1, <2>5, <2>6
<1>4. ASSUME ~\E w \in Worker : Execute(w) /\ On(w) = j, ~\E w \in Worker : Taken(j, w)
      PROVE  IsFiniteSet(Askers(j)') /\ calls'[j] + B + Left(j)' <= M * requests'[j]
  <2>1. calls'[j] = calls[j]
    BY <1>4 DEF Shape, Next, vars, SourceMoves, PersonTranslates, Enqueue, Cancel, ComesDue, Reject,
           BeginAccept, AcceptWrites, AcceptDecides, Claims, LockAndPick, Pick, Take, Runs, Skip,
           Execute, SettleLost, InsertSuggestion, CommitSuggestion, SettleRetry, SettleEnd, Apply,
           RecordApply, Stop
  <2>2. Askers(j)' \subseteq Askers(j)
    BY <1>4, AskersStep DEF Askers
  <2>3. IsFiniteSet(Askers(j)') /\ B <= A /\ B \in Nat
    BY <1>1, <2>2, FS_Subset, FS_CardinalityType
  <2>4. CASE Queued(j)
    <3>1. requests'[j] = requests[j] + 1 /\ attempts'[j] = 0
      BY <2>4 DEF Queued
    <3>2. M * requests'[j] = P + M
      BY <1>1, <3>1, OneMore
    <3>3. Left(j)' = M /\ Left(j) \in Nat
      BY <1>1, <3>1 DEF Left
    <3> HIDE DEF A, B, M, P
    <3> QED BY <1>1, <2>1, <2>3, <3>2, <3>3
  <2>5. CASE ~Queued(j)
    <3>1. requests'[j] = requests[j] /\ attempts'[j] = attempts[j]
      BY <1>4, <2>5, RowStep DEF Untouched, Cancelled, Finished
    <3>2. Left(j)' = Left(j) /\ Left(j) \in Nat
      BY <1>1, <3>1 DEF Left
    <3> HIDE DEF A, B, M
    <3> QED BY <1>1, <2>1, <2>3, <3>1, <3>2
  <2> QED BY <2>4, <2>5
<1> QED BY <1>2, <1>3, <1>4

-----------------------------------------------------------------------------
\* JobInv holds at the start.
LEMMA JobInvInit == Init => JobInv
<1> SUFFICES ASSUME Init PROVE JobInv
  OBVIOUS
<1> USE DEF Init
<1>1. Shape
  BY EmptySeq DEF Shape
<1>2. Tokens /\ Numbers /\ Outcomes /\ Committing /\ LastAttempts
  BY DEF Tokens, Numbers, Deciding, Outcomes, Committing, LastAttempts, Running, At
<1>3. Claiming
  <2>1. Leased = {}
    BY DEF Leased
  <2> QED BY <2>1, FS_EmptySet, NoneAssumption, JobBoundAssumption DEF Claiming, At
<1>4. Results /\ Versions
  BY EmptySeq DEF Results, Versions
<1>5. Calls
  <2> SUFFICES ASSUME NEW j \in Job
               PROVE  /\ IsFiniteSet(Askers(j))
                      /\ calls[j] + Cardinality(Askers(j)) + Left(j) <= MaxAttempts[j] * requests[j]
    BY DEF Calls
  <2>1. Askers(j) = {} /\ Left(j) = 0 /\ calls[j] = 0 /\ requests[j] = 0
    BY DEF Askers, At, Left
  <2>2. MaxAttempts[j] * 0 = 0
    BY JobBoundAssumption
  <2> QED BY <2>1, <2>2, FS_EmptySet
<1> QED BY <1>1, <1>2, <1>3, <1>4, <1>5 DEF JobInv

\* JobInv is inductive.
LEMMA JobInvStep == JobInv /\ [Next]_vars => JobInv'
<1> SUFFICES ASSUME JobInv, [Next]_vars PROVE JobInv'
  OBVIOUS
<1>1. /\ Shape /\ Tokens /\ Numbers /\ Outcomes /\ Claiming /\ Committing /\ LastAttempts
      /\ Results /\ Calls /\ Versions
  BY DEF JobInv
<1>2. Shape' /\ Tokens' /\ Numbers' /\ Outcomes'
  BY <1>1, ShapeStep, TokensStep, NumbersStep, OutcomesStep
<1>3. Claiming' /\ Committing' /\ LastAttempts' /\ Results' /\ Calls' /\ Versions'
  BY <1>1, ClaimingStep, CommittingStep, LastAttemptsStep, ResultsStep, CallsStep, VersionsStep
<1> QED BY <1>2, <1>3 DEF JobInv

\* The inductive invariant of the queue holds of Spec, for every number of
\* jobs and workers, every cap and every bound.
THEOREM JobInvariant == Spec => []JobInv
BY JobInvInit, JobInvStep, PTL DEF Spec

\* The variables have their types, a job that runs has a claim, and what a
\* worker applies or a reviewer accepts exists.
THEOREM TypeCorrect == Spec => []TypeOK
<1>1. JobInv => TypeOK
  BY JobInvTypes DEF JobInv
<1> QED BY <1>1, JobInvariant, PTL

\* The advisory lock is held from a claim's count to its update: no number of
\* workers, nor leases that run out, puts more jobs under a lease than the cap.
THEOREM CapHoldsAlways == Spec => []CapHolds
<1>1. JobInv => CapHolds
  BY DEF JobInv, Claiming, CapHolds
<1> QED BY <1>1, JobInvariant, PTL

\* A job that waits or runs has a result to come, and a settlement that holds its
\* row takes it out of that state: no request has two results, whoever lost the job.
THEOREM OneResult == Spec => []OneResultPerRequest
<1>1. JobInv => OneResultPerRequest
  BY DEF JobInv, Results, OneResultPerRequest
<1> QED BY <1>1, JobInvariant, PTL

\* A settlement finds its job under its claim's token, holds the row until it
\* commits, and its run was the job's last attempt: a claim that was lost changes
\* nothing, not even when the job ran and was claimed any number of times since.
THEOREM SettledByItsClaimAlways == Spec => SettledByItsClaim
<1> DEFINE Settled == \A j \in Job :
                        \/ state[j] = "running" /\ state'[j] # "running"
                        \/ Len(suggestion'[j]) > Len(suggestion[j])
                        => \E w \in Worker :
                            /\ At(w, "settle") \/ At(w, "commit")
                            /\ work'[w] # work[w] /\ On(w) = j
                            /\ token[j] = w /\ work[w].attempt = attempts[j]
<1>1. JobInv /\ [Next]_vars => [Settled]_vars
  <2> SUFFICES ASSUME JobInv, [Next]_vars, NEW j \in Job,
                      \/ state[j] = "running" /\ state'[j] # "running"
                      \/ Len(suggestion'[j]) > Len(suggestion[j])
               PROVE  \E w \in Worker :
                        /\ At(w, "settle") \/ At(w, "commit")
                        /\ work'[w] # work[w] /\ On(w) = j
                        /\ token[j] = w /\ work[w].attempt = attempts[j]
    OBVIOUS
  <2>1. Shape /\ Numbers /\ Outcomes /\ Committing /\ LastAttempts
    BY DEF JobInv
  <2>2. PICK w \in Worker : Finished(j, w)
    <3>1. CASE state[j] = "running" /\ state'[j] # "running"
      BY <2>1, <3>1, RowStep DEF Untouched, Queued, Cancelled, Taken
    <3>2. CASE Len(suggestion'[j]) > Len(suggestion[j])
      <4>1. PICK w \in Worker : CommitSuggestion(w) /\ On(w) = j
        <5>1. Len(suggestion[j]) \in Nat
          BY <2>1, LenProperties DEF Shape
        <5> QED BY <2>1, <3>2, <5>1, SuggestionStep
      <4>2. state[j] = "running" /\ state'[j] = "succeeded"
        BY <2>1, <4>1 DEF CommitSuggestion, Finish, Committing, Shape
      <4> QED BY <2>1, <4>2, RowStep DEF Untouched, Queued, Cancelled, Taken
    <3> QED BY <3>1, <3>2
  <2>3. (At(w, "settle") \/ At(w, "commit")) /\ On(w) = j /\ token[j] = w
    BY <2>1, <2>2 DEF Finished, Fenced, Committing
  <2>4. work[w].attempt = attempts[j]
    BY <2>1, <2>3 DEF LastAttempts, Running
  <2>5. work'[w] # work[w]
    BY <2>2, <2>3 DEF Finished, At
  <2> QED BY <2>3, <2>4, <2>5
<1>2. SettledByItsClaim <=> [][Settled]_vars
  BY DEF SettledByItsClaim
<1> HIDE DEF Settled
<1> QED BY <1>1, <1>2, JobInvariant, PTL DEF Spec

\* Attempts are charged when a job is claimed, so workers that die or lose their
\* lease use them up as well.
THEOREM CallsBounded == Spec => []CallsAreBounded
<1>1. JobInv => CallsAreBounded
  <2> SUFFICES ASSUME JobInv, NEW j \in Job PROVE calls[j] <= MaxAttempts[j] * requests[j]
    BY DEF CallsAreBounded
  <2>1. /\ IsFiniteSet(Askers(j))
        /\ calls[j] + Cardinality(Askers(j)) + Left(j) <= MaxAttempts[j] * requests[j]
    BY DEF JobInv, Calls
  <2>2. calls[j] \in Nat /\ attempts[j] \in Nat /\ requests[j] \in Nat /\ MaxAttempts[j] \in Nat
    BY JobBoundAssumption DEF JobInv, Shape
  <2>3. Cardinality(Askers(j)) \in Nat /\ Left(j) \in Nat /\ MaxAttempts[j] * requests[j] \in Nat
    BY <2>1, <2>2, FS_CardinalityType, OneMore DEF Left
  <2> QED BY <2>1, <2>2, <2>3
<1> QED BY <1>1, JobInvariant, PTL

\* What is written over a suggestion was read as pending, or has the version it
\* was inserted with, and that is pending: no decision is replaced.
THEOREM DecisionsStandAlways == Spec => DecisionsStand
<1> DEFINE Stands == \A j \in Job : \A n \in DOMAIN suggestion[j] :
                       ~Pending(j, n) => suggestion'[j][n] = suggestion[j][n]
<1>1. JobInv /\ [Next]_vars => [Stands]_vars
  <2> SUFFICES ASSUME JobInv, [Next]_vars, NEW j \in Job, NEW n \in DOMAIN suggestion[j], ~Pending(j, n)
               PROVE  suggestion'[j][n] = suggestion[j][n]
    OBVIOUS
  <2>1. Shape /\ Numbers /\ suggestion[j][n].version # 1
    BY DEF JobInv, Versions
  <2>2. n \in 1 .. Len(suggestion[j]) /\ Kept(suggestion[j], suggestion'[j])
    BY <2>1, LenProperties, SuggestionStep DEF Shape
  <2> QED BY <2>1, <2>2 DEF Kept, Pending
<1>2. DecisionsStand <=> [][Stands]_vars
  BY DEF DecisionsStand
<1> HIDE DEF Stands
<1> QED BY <1>1, <1>2, JobInvariant, PTL DEF Spec
=============================================================================
