SPECIFICATION Spec
CONSTANTS
    a1 = a1
    a2 = a2
    a3 = a3
    other = other
    Attempts = {a1, a2, a3, other}
    Content <- MCContent
    Kinds = {"inside", "guarded", "direct", "keyless"}
    SlowSets <- MCSlow
    NoOne = NoOne
INVARIANTS TypeOK OneEffect OneRunner TruthfulSuccess
PROPERTIES KeptAnswerStays
CHECK_DEADLOCK FALSE
