\* The default way round: the vendor's work arrives in time, is sent back, and
\* the event of the first deadline is delivered after that.
CONSTANTS
    r1 = r1
    None = None
    Replica = {r1}
    Fact <- Facts
    State <- States
    Initial = "translating"
    Final = {"done"}
    Edge <- Transitions
    Entry <- Entries
    Own = {"assign", "ask"}
    Timed = {"assign"}
    Reused = {"ask"}
    Refusable = {"approve"}
    After <- Approves
    Echo <- Reviewed
    Starts = {"revised"}
    Report <- Revisions
    Answers <- Replies
    MaxReports = 1
    MaxAnswers = 2
    MaxFaults = 0
SPECIFICATION Spec
CHECK_DEADLOCK FALSE
INVARIANTS TimersOfAStateLeftAreIgnored
