SPECIFICATION Spec
CONSTANTS
    o1 = o1  o2 = o2  o3 = o3  t1 = t1  t2 = t2  t3 = t3
    Orders = {o1, o2}
    Products = {o1}
    HandMade = {}
    Trxs = {t1, t2}
    Callbacks = {c1}
    Pollers = {p1}
    Admins = {a1}
    NoOrder = NoOrder  NoTrx = NoTrx
    MaxCrashes = 1
    Price <- PriceOf
    Own <- OwnOf
    Amount <- InFull
CHECK_DEADLOCK FALSE
INVARIANTS TypeOK ClaimHeldOnce
PROPERTIES EndedStaysEnded
