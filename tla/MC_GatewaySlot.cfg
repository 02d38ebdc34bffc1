SPECIFICATION Spec
CONSTANTS
    PageLoads = {p1, p2}
    Checkouts = {b1}
    TTL = 2
    CallLimit = 1
    MaxClock = 5
SYMMETRY PageLoadSymmetry
CHECK_DEADLOCK FALSE
INVARIANTS TypeOK SingleCaller ShownInvoiceIsStored
PROPERTY StoredInvoiceIsKept
