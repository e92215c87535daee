\* One RPC worker with one input, stopped by a poll and started again.
CONSTANTS
    Workers = {w1}
    Items = {i1}
    MaxRuns = 2
    MaxPolls = 1
    MaxThrows = 0
    Completion = Completion
SPECIFICATION Spec
INVARIANT ErrorsMergedBack
CHECK_DEADLOCK FALSE
