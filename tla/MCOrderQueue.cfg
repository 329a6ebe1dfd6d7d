SPECIFICATION Spec
CONSTANTS
    c1 = c1
    c2 = c2
    c3 = c3
    u1 = u1
    None = None
    Deleted = Deleted
    Orderers = {c1, c2}
    Deliverers = {c1, c3}
    Customers = {u1}
    MaxOrders = 3
SYMMETRY ClientSymmetry
VIEW LiveState
CHECK_DEADLOCK FALSE
INVARIANT
    UndeliveredOrdersAreQueued
