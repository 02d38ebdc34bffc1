SPECIFICATION Spec
CONSTANTS
    Crons = {k1}
    Directs = {d1}
    Hooks = {h1}
    Checkers = {a1}
    Unsure = {k1}
    Targets = {x1, x2}
    Window = 2
    NoWorker = NoWorker  NoTarget = NoTarget
    MaxFaults = 1
    MaxCallbacks = 1
    MaxEdits = 1
CHECK_DEADLOCK FALSE
INVARIANTS OnlyUnsubmittedFailUnasked
