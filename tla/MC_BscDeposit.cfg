SPECIFICATION Spec
CONSTANTS
    o1 = o1  o2 = o2  d1 = d1  d2 = d2
    Orders = {o1, o2}
    Products = {o1}
    HandMade = {o1}
    Deposits = {d1, d2}
    Pollers = {p1, p2}
    Trackers = {}
    NoOrder = NoOrder  NoDeposit = NoDeposit
    MaxCrashes = 1
    Total <- TotalOf
    Cap <- CapOf
    Amount <- AmountOf
SYMMETRY Cycles
CHECK_DEADLOCK FALSE
INVARIANTS TypeOK OrderPaidOnce ClaimHeldOnce ClaimedDepositIsAnswered
