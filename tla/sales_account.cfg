SPECIFICATION Spec
CONSTANTS
    r1 = r1  r2 = r2  s1 = s1  s2 = s2  x1 = x1  x2 = x2  e1 = e1  q1 = q1
    Requests = {r1, r2}
    Sales = {s1, s2}
    Returns = {x1, x2}
    Entries = {e1}
    Quotations = {q1}
    None = None
    OpeningStock = 3
    CreditLimit = 2
    Carts <- MCCarts
    Amounts = {1}
    Discounts = {0, 1}
    ReceiptEdits <- MCReceiptEdits
    Alone = {"credit", "bill", "finalizeOnCredit", "editReturn", "unreturn",
             "pay", "writeOff", "editPay", "unpay", "editReceipt", "unreceipt"}
    OnePerSale = TRUE
    Offered = {"COMPLETED"}
    EditsReturned = FALSE
    Asked = {"COMPLETED"}
    Tendered = {TRUE}
SYMMETRY Symmetry
INVARIANTS
    TypeOK StockFollowsDocuments DueFollowsLedger ReceivableFollowsLedger
    PostedInFull NothingReturnedTwice BilledOnceByBatch
PROPERTIES LifeMovesForward
CHECK_DEADLOCK FALSE
