\* Two replicas, two events that start work, one answer, one crash or
\* redelivery; decisions and assignments may be refused.
CONSTANTS
    r1 = r1
    r2 = r2
    None = None
    Replica = {r1, r2}
    Fact <- Facts
    State <- States
    Initial = "translating"
    Final = {"done"}
    Edge <- Transitions
    Entry <- Entries
    Own = {"assign", "ask"}
    Timed = {"assign"}
    Reused = {"ask"}
    Refusable = {"assign", "approve"}
    After <- Approves
    Echo <- Reviewed
    Starts = {"revised"}
    Report <- Revisions
    Answers <- Replies
    MaxReports = 2
    MaxAnswers = 1
    MaxFaults = 1
SPECIFICATION FairSpec
CHECK_DEADLOCK FALSE
INVARIANTS LogIsAWalk WorkIsAskedOnce
PROPERTIES DeadlinesAreHeard
CONSTRAINT RacesBeforeTheLast
