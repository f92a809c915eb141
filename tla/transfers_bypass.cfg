SPECIFICATION Spec
CONSTANTS
    r1 = r1  r2 = r2  t1 = t1  t2 = t2
    shop = shop  annex = annex  depot = depot
    cloth = cloth  hemming = hemming  b1 = b1  b2 = b2
    Requests = {r1, r2}
    Transfers = {t1}
    Warehouses = {shop, annex, depot}
    Products = {cloth, hemming}
    Services = {hemming}
    Branch <- MCBranch
    OpeningStock <- MCStock
    MaxQuantity = 1
    MaxEdits = 1
    Serial = {}
    NoTransfer = NoTransfer
    Nowhere = Nowhere
SYMMETRY Symmetry
CHECK_DEADLOCK FALSE
INVARIANT ApprovalBeforeDispatch
