SPECIFICATION Spec
CONSTANTS
    o1 = o1  o2 = o2  r1 = r1  r2 = r2  l1 = l1  l2 = l2  l3 = l3
    Orders = {o1, o2}
    OrderOf <- MCOrderOf
    RunOf <- MCRunOf
    FirstLine <- MCFirstLine
    FirstOrder <- MCFirstOrder
    Quantities = {0, 1}
    Planned <- MCPlanned
    MaxVersion <- MCMaxVersion
    MaxLate = 1
    None = None
INVARIANT UnsavedQuantityBlocksApproval
