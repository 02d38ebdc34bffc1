SPECIFICATION FairSpec
CONSTANTS
    Rows = {r1}
    Dispatchers = {d1, d2}
    Slow = {}
    MaxAttempts = 2
    CountCap = 3
    MaxFaults = 1
    MaxOutages = 1
    Nobody = Nobody  NoRow = NoRow
INVARIANTS TypeOK SingleSender KnownSendIsNotRepeated
PROPERTIES ClaimerRules PromiseKept EveryRowIsSettled
CHECK_DEADLOCK FALSE
