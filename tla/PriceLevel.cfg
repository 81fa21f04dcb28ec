\* Lists of up to three nodes of two orders, so that an order has several nodes,
\* and quantities that wrap at 4.
SPECIFICATION Spec
CONSTANTS
    QMod = 4
    Ids = {i, j}
    Amounts = {0, 1, 2}
    Addresses = {a, b, c}
    Null = Null
INVARIANTS WellLinked IndexSound NothingLeaked TotalsExact
PROPERTIES ImplementsQueue
