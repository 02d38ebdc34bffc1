SPECIFICATION Spec
CONSTANTS
    o1 = o1  o2 = o2  o3 = o3  t1 = t1  t2 = t2  t3 = t3
    Orders = {o1, o2, o3}
    Products = {o1, o3}
    HandMade = {o1}
    Trxs = {t1, t2, t3}
    Callbacks = {c1}
    Pollers = {}
    Admins = {a1}
    NoOrder = NoOrder  NoTrx = NoTrx
    MaxCrashes = 0
    Price <- PriceOf
    Own <- OwnOf
    Amount <- Mixed
CHECK_DEADLOCK FALSE
INVARIANTS StalePaymentReachesAdmin PaymentFundsOneOrder
PROPERTIES SettlesOnce
