\* Two callers of one url, one lock that may expire while it is used.
CONSTANTS
    Callers = {c1, c2}
    NoCaller = NoCaller
    Delay = 2
    MaxAttempts = 2
    MaxExpiries = 1
SPECIFICATION FairLockSpec
INVARIANTS LockTypeOK OneCallAtATime AnswerKept
PROPERTIES CallsSpaced CallsEnd
