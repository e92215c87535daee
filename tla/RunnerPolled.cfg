\* Two RPC workers, one input that a poll may move from one to the other.
CONSTANTS
    Workers = {w1, w2}
    Items = {i1}
    MaxRuns = 2
    MaxPolls = 1
    MaxThrows = 1
    Completion = Completion
SPECIFICATION FairSpec
INVARIANTS TypeOK AnsweredUntilStopped OwnAnswersUntilStopped
PROPERTY RunsEnd
\* The runs are bounded, and a worker whose run throws has stopped.
CHECK_DEADLOCK FALSE
