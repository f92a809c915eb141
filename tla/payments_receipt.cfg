SPECIFICATION Spec
CONSTANTS
    w1 = w1  w2 = w2  q1 = q1  q2 = q2  a1 = a1  a2 = a2  x1 = x1  x2 = x2
    Workers = {w1, w2}
    Topups = {q1, q2}
    Activations = {a1, a2}
    Receipts = {x1, x2}
    NoReceipt = NoReceipt
    NoId = NoId
    MaxCredits = 1
    MaxPending = 2
    MaxGrants = 1
SYMMETRY Symmetry
INVARIANT ReceiptServesOnePurpose
