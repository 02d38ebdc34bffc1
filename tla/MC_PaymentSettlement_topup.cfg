SPECIFICATION Spec
CONSTANTS
    o1 = o1  o2 = o2  o3 = o3  t1 = t1  t2 = t2  t3 = t3
    Orders = {o1}
    Products = {}
    HandMade = {}
    Trxs = {t1}
    Callbacks = {c1}
    Pollers = {}
    Admins = {a1}
    NoOrder = NoOrder  NoTrx = NoTrx
    MaxCrashes = 0
    Price <- PriceOf
    Own <- OwnOf
    Amount <- Short
CHECK_DEADLOCK FALSE
INVARIANTS UnderpaidTopupCreditedOnce
