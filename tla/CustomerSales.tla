--------------------------- MODULE CustomerSales ---------------------------
(***************************************************************************)
(* The sales of one customer and what they do to the shelf, to the         *)
(* customer's account and to the books: SalesService, SalesReturnsService  *)
(* and the payments and write-offs of CustomersService.                    *)
(*                                                                         *)
(* One product at a price of one, so quantities are amounts.  The tenant   *)
(* has no loyalty programme, refuses negative stock, has a rule for every  *)
(* posting and no closed period.  total_spent, balance_after, numbers,     *)
(* sessions and warranty serials are left out.                             *)
(*                                                                         *)
(* A handler that decides from what it read without a lock is two steps:   *)
(* Begin reads, the action named for the handler writes and commits.  The  *)
(* update of total_spent locks the customer row, so what a handler reads   *)
(* of the account after it is current.  Abort is every rollback.           *)
(***************************************************************************)
EXTENDS Integers, FiniteSets, Functions

CONSTANTS
    Requests,       \* requests that may be in flight at the same time
    Sales, Returns, Entries,    \* ids of the documents that can be created
    Quotations,
    None,           \* not an id
    OpeningStock,
    CreditLimit,    \* customers.credit_limit; 0 is none
    Carts,          \* the quantity and payment a user may send for a sale
    Amounts,        \* the amounts of payments, payouts and write-offs
    Discounts,      \* the discounts given with a payment
    ReceiptEdits,   \* what a user may make of a sale's receipt on the payments page
    Alone,          \* kinds of request that overlap no other one
    OnePerSale,     \* whether requests on one sale never overlap
    Offered,        \* statuses of the sales a return is made on
    EditsReturned,  \* whether sales that have returns are edited
    Asked,          \* statuses an edit of a posted sale asks for
    Tendered        \* whether a return says how it was refunded: TRUE, FALSE

SaleKinds == {"credit", "convert", "bill", "finalize", "finalizeOnCredit", "edit", "cancel", "remove"}
ReturnKinds == {"return", "editReturn", "unreturn"}
EntryKinds == {"pay", "writeOff", "editPay", "unpay"}
ReceiptKinds == {"editReceipt", "unreceipt"}
Kinds == SaleKinds \cup ReturnKinds \cup EntryKinds \cup ReceiptKinds

SaleStatus == {"NONE", "DRAFT", "COMPLETED", "CANCELLED", "GONE"}
EntryTypes == {"PAYMENT", "PAYOUT", "WRITE_OFF"}

ASSUME ConstantsAssumption ==
    /\ IsFiniteSet(Sales) /\ IsFiniteSet(Returns) /\ IsFiniteSet(Entries)
    /\ Sales \cap Returns = {} /\ (Sales \cup Returns) \cap Entries = {}
    /\ OpeningStock \in Nat /\ CreditLimit \in Nat
    /\ Carts \subseteq [qty : Nat \ {0}, paid : Nat]
    /\ Amounts \subseteq Nat /\ Discounts \subseteq Nat
    /\ ReceiptEdits \subseteq [type : {"PAYMENT", "PAYOUT"}, amount : Nat, discount : Nat]
    /\ Alone \subseteq Kinds /\ OnePerSale \in BOOLEAN /\ EditsReturned \in BOOLEAN
    /\ Offered \subseteq {"DRAFT", "COMPLETED", "CANCELLED"}
    /\ Asked \subseteq {"DRAFT", "COMPLETED"} /\ Tendered \subseteq BOOLEAN
    /\ None \notin Sales \cup Returns \cup Entries \cup Quotations

VARIABLES
    stock,          \* product_stocks.quantity
    due,            \* customers.due_balance
    quote,          \* quotations.status
    sale,           \* sales, with their lines and payments
    owed,           \* the ledger rows that reference each sale: its due, its receipt
    ret,            \* sales_returns, with their lines and tenders
    adjusted,       \* what the ledger rows that reference each return add up to
    entry,          \* the ledger rows of payments, payouts and write-offs
    voucher,        \* the vouchers posted for each document, by leg
    request         \* the requests in flight

vars == <<stock, due, quote, sale, owed, ret, adjusted, entry, voucher, request>>
account == <<due, owed, adjusted, entry, voucher>>

(***************************************************************************)
(* Rows.                                                                   *)
(***************************************************************************)
Docs == Sales \cup Returns \cup Entries

Sale == [status : SaleStatus, qty : Nat, paid : Nat,
         quote : Quotations \cup {None}, batch : BOOLEAN]
Return == [status : {"NONE", "KEPT", "GONE"}, sale : Sales \cup {None}, qty : Nat,
           refunded : Nat, tendered : BOOLEAN, linked : BOOLEAN]
Entry == [type : EntryTypes \cup {"NONE", "GONE"}, amount : Nat, discount : Nat]
Owed == [credit : Nat, receipt : Entry]

NoSale == [status |-> "NONE", qty |-> 0, paid |-> 0, quote |-> None, batch |-> FALSE]
NoReturn == [status |-> "NONE", sale |-> None, qty |-> 0, refunded |-> 0,
             tendered |-> FALSE, linked |-> FALSE]
NoEntry == [type |-> "NONE", amount |-> 0, discount |-> 0]
NoOwed == [credit |-> 0, receipt |-> NoEntry]

OfSale(s) == {x \in Returns : ret[x].sale = s}
SaleExists(s) == sale[s].status \notin {"NONE", "GONE"}

\* creditDueAmount and splitSaleOverpayment, for a sale to a customer.
DueOf(c) == IF c.qty > c.paid THEN c.qty - c.paid ELSE 0
ExcessOf(c) == IF c.paid > c.qty THEN c.paid - c.qty ELSE 0

\* The part of amount that the balance covers.
Clamp(balance, amount) ==
    IF balance <= 0 THEN 0 ELSE IF balance < amount THEN balance ELSE amount

\* What a row of the ledger moves in money, and customerLedgerDueDelta: a
\* payment settles its discount too.
MoneyDelta(e) == IF e.type = "PAYOUT" THEN e.amount
                 ELSE IF e.type \in {"PAYMENT", "WRITE_OFF"} THEN -e.amount ELSE 0
RowDelta(e) == IF e.type = "PAYMENT" THEN MoneyDelta(e) - e.discount ELSE MoneyDelta(e)

OwedDelta(o) == o.credit + RowDelta(o.receipt)

\* assertPaymentSplit: before is what the customer owes without the payment.
SplitOK(e, before) ==
    IF e.type = "PAYOUT" THEN e.discount = 0 /\ e.amount > 0
    ELSE /\ e.amount + e.discount > 0
         /\ e.discount <= (IF before > e.amount THEN before - e.amount ELSE 0)

\* The receipt row for what a sale was overpaid, where row stands: posting the
\* sale adds to it, restating the sale rewrites its amount and drops any other.
Receipt(excess) == [type |-> "PAYMENT", amount |-> excess, discount |-> 0]
Received(row, excess) ==
    IF excess = 0 THEN row
    ELSE IF row.type = "PAYMENT" THEN [row EXCEPT !.amount = @ + excess] ELSE Receipt(excess)
Restated(row, excess) ==
    IF excess = 0 THEN NoEntry
    ELSE IF row.type = "PAYMENT" THEN [row EXCEPT !.amount = excess] ELSE Receipt(excess)

\* assertCustomerCreditForSale
WithinLimit(current, amount) ==
    amount > 0 => CreditLimit > 0 /\ current + amount <= CreditLimit

(***************************************************************************)
(* Vouchers: what a posting moves on Accounts Receivable (ar) and on the   *)
(* tender's account (cash).  A document has at most one voucher per leg,   *)
(* the idempotency key being made of the two.  The legs account and        *)
(* discount are those of a payment; a sale's are its receipt's, and stray  *)
(* is what receipts that are gone have left posted.                        *)
(***************************************************************************)
Legs == {"main", "paid", "account", "discount", "stray"}
Blank == [ar |-> 0, cash |-> 0]
NoVouchers == [l \in Legs |-> Blank]

\* autoPostFromRules: a leg that is posted stays as it is.
Post(v, leg, ar, cash) ==
    IF v[leg] # Blank THEN v ELSE [v EXCEPT ![leg] = [ar |-> ar, cash |-> cash]]

\* Broken: both parts of a credit sale post under one key.
OneKeySaleVouchers(v, c) ==
    IF DueOf(c) = 0 THEN Post(v, "main", 0, c.qty)
    ELSE Post(Post(v, "main", DueOf(c), 0), "main", 0, c.paid)

\* postSaleVouchers: a down payment on a credit sale posts on its own leg.
SaleVouchers(v, c) ==
    IF DueOf(c) = 0 THEN Post(v, "main", 0, c.qty)
    ELSE Post(Post(v, "main", DueOf(c), 0), "paid", 0, c.paid)

\* The two vouchers are voided.
Unposted(v) == [v EXCEPT !.main = Blank, !.paid = Blank]

ReturnVouchers(total, refunded) ==
    IF total > refunded
    THEN Post(Post(NoVouchers, "main", refunded - total, 0), "paid", 0, -refunded)
    ELSE Post(NoVouchers, "main", 0, -total)

\* postPaymentLegs after voidPaymentLegs, for the row e: the money, and the
\* discount on its own leg.  A write-off books an expense, not a tender.
MoneyLeg(e) ==
    [ar |-> MoneyDelta(e), cash |-> IF e.type = "WRITE_OFF" THEN 0 ELSE -MoneyDelta(e)]
PaymentVouchers(v, e) ==
    [v EXCEPT !.account = MoneyLeg(e), !.discount = [ar |-> -e.discount, cash |-> 0]]

\* A sale that drops its receipt voids the vouchers of a PAYMENT only.
DropReceipt(v, row) ==
    LET left == [ar |-> v.stray.ar + v.account.ar + v.discount.ar,
                 cash |-> v.stray.cash + v.account.cash + v.discount.cash]
    IN  IF row.type = "PAYOUT" THEN [PaymentVouchers(v, NoEntry) EXCEPT !.stray = left]
        ELSE PaymentVouchers(v, NoEntry)

(***************************************************************************)
(* Requests in flight.                                                     *)
(***************************************************************************)
\* The handlers that write due_balance from an unlocked read of it.
ReadsDue == {"credit", "bill", "finalizeOnCredit", "editReturn", "unreturn"}
            \cup EntryKinds \cup ReceiptKinds

\* doc is the document the request writes, on the sale it concerns, seen that
\* sale's row and row the document's as it read them, open what it saw of the
\* sale as returnable, due the balance it read.
Idle == [kind |-> "idle", doc |-> None, on |-> None, seen |-> NoSale,
         row |-> None, open |-> 0, due |-> 0, quote |-> None]

Busy(r) == request[r].kind # "idle"

\* A batch that has only selected its quotations overlaps nothing yet.
Overlaps(r) == {q \in Requests \ {r} : request[q].kind \notin {"idle", "convert"}}

NothingAlone == \A q \in Requests : request[q].kind \notin Alone

\* The assumptions on the environment that Alone and OnePerSale name.
Admitted(r, k, s) ==
    k # "convert" =>
        /\ NothingAlone
        /\ k \in Alone => Overlaps(r) = {}
        /\ OnePerSale /\ s # None => \A q \in Overlaps(r) : request[q].on # s

Unused(d) == \A q \in Requests : request[q].doc # d

Start(r, req) ==
    /\ Admitted(r, req.kind, req.on)
    /\ request' = [request EXCEPT ![r] =
            [req EXCEPT !.due = IF req.kind \in ReadsDue THEN due ELSE 0]]
    /\ UNCHANGED <<stock, quote, sale, ret, account>>

Begin(r, k, d, s) ==
    /\ ~Busy(r)
    /\ Start(r, [Idle EXCEPT !.kind = k, !.doc = d, !.on = s,
                             !.seen = IF s = None THEN NoSale ELSE sale[s]])

Finish(r) == request' = [request EXCEPT ![r] = Idle]

\* Returns in flight on a sale whose lines go away fail on the foreign key.
FinishAndBreak(r, s) ==
    request' = [q \in Requests |->
        IF q = r \/ (request[q].kind = "return" /\ request[q].on = s) THEN Idle
        ELSE request[q]]

Abort(r) ==
    /\ Busy(r) /\ Finish(r)
    /\ UNCHANGED <<stock, quote, sale, ret, account>>

(***************************************************************************)
(* What posting and reversing a sale do: applySalePostings and             *)
(* reverseSaleImpacts.  seen is the due_balance read before the sale.      *)
(***************************************************************************)
\* Broken: the goods are taken without looking.
OversellingPostings(s, c, seen) ==
    /\ stock' = stock - c.qty
    /\ WithinLimit(seen, DueOf(c))
    /\ due' = IF DueOf(c) > 0 THEN seen + DueOf(c) ELSE due - ExcessOf(c)
    /\ owed' = [owed EXCEPT ![s] = [credit |-> @.credit + DueOf(c),
                                   receipt |-> Received(@.receipt, ExcessOf(c))]]
    /\ voucher' = [voucher EXCEPT ![s] =
            [SaleVouchers(@, c) EXCEPT !.account = MoneyLeg(Received(owed[s].receipt, ExcessOf(c)))]]
    /\ UNCHANGED <<adjusted, entry>>

ApplyPostings(s, c, seen) ==
    /\ c.qty <= stock
    /\ stock' = stock - c.qty
    /\ WithinLimit(seen, DueOf(c))
    /\ due' = IF DueOf(c) > 0 THEN seen + DueOf(c) ELSE due - ExcessOf(c)
    /\ owed' = [owed EXCEPT ![s] = [credit |-> @.credit + DueOf(c),
                                   receipt |-> Received(@.receipt, ExcessOf(c))]]
    /\ voucher' = [voucher EXCEPT ![s] =
            [SaleVouchers(@, c) EXCEPT !.account = MoneyLeg(Received(owed[s].receipt, ExcessOf(c)))]]
    /\ UNCHANGED <<adjusted, entry>>

\* Broken: the voucher of the overpayment is left standing.
ReverseKeepingReceipt(s, seen) ==
    /\ stock' = stock + seen.qty
    /\ due' = due - OwedDelta(owed[s])
    /\ owed' = [owed EXCEPT ![s] = NoOwed]
    /\ voucher' = [voucher EXCEPT ![s] = Unposted(@)]
    /\ UNCHANGED <<adjusted, entry>>

\* Broken: the invoice is undone, not what the ledger holds of it.
ReverseInvoice(s, seen) ==
    /\ stock' = stock + seen.qty
    /\ due' = due - DueOf(seen)
    /\ owed' = [owed EXCEPT ![s] = NoOwed]
    /\ voucher' = [voucher EXCEPT ![s] = DropReceipt(Unposted(@), owed[s].receipt)]
    /\ UNCHANGED <<adjusted, entry>>

\* seen is the sale as the handler read it; the ledger rows are read again.
Reverse(s, seen) ==
    /\ stock' = stock + seen.qty
    /\ due' = due - OwedDelta(owed[s])
    /\ owed' = [owed EXCEPT ![s] = NoOwed]
    /\ voucher' = [voucher EXCEPT ![s] = DropReceipt(Unposted(@), owed[s].receipt)]
    /\ UNCHANGED <<adjusted, entry>>

NewSale(c, status, q, batch) ==
    [status |-> status, qty |-> c.qty, paid |-> c.paid, quote |-> q, batch |-> batch]

\* markQuotationConverted
MarkConverted(q) ==
    quote' = IF q = None THEN quote ELSE [quote EXCEPT ![q] = "CONVERTED"]

(***************************************************************************)
(* SalesService.                                                           *)
(***************************************************************************)
\* create with isDraft: nothing is posted.
CreateDraft(s, c, q) ==
    /\ sale[s] = NoSale /\ Unused(s)
    /\ sale' = [sale EXCEPT ![s] = NewSale(c, "DRAFT", q, FALSE)]
    /\ UNCHANGED <<stock, quote, ret, account, request>>

\* create, paid in full or beyond: everything it reads it reads under a lock.
CreatePaid(s, c, q) ==
    /\ sale[s] = NoSale /\ Unused(s)
    /\ NothingAlone
    /\ DueOf(c) = 0
    /\ sale' = [sale EXCEPT ![s] = NewSale(c, "COMPLETED", q, FALSE)]
    /\ MarkConverted(q)
    /\ ApplyPostings(s, c, due)
    /\ UNCHANGED <<ret, request>>

\* create, with an amount kept as due: prepareSale reads the customer first.
BeginCreate(r, s, q) ==
    /\ sale[s] = NoSale /\ Unused(s) /\ ~Busy(r)
    /\ Start(r, [Idle EXCEPT !.kind = "credit", !.doc = s, !.on = s, !.quote = q])

CreateOnCredit(r, c) ==
    LET s == request[r].doc  q == request[r].quote IN
    /\ request[r].kind = "credit"
    /\ DueOf(c) > 0
    /\ sale' = [sale EXCEPT ![s] = NewSale(c, "COMPLETED", q, FALSE)]
    /\ MarkConverted(q)
    /\ ApplyPostings(s, c, request[r].due)
    /\ Finish(r)
    /\ UNCHANGED ret

\* createFromQuotations, for one quotation of the batch: what is open and
\* what is already invoiced is read before any transaction.
Select(r, s, q) ==
    /\ sale[s] = NoSale /\ Unused(s) /\ ~Busy(r)
    /\ quote[q] = "OPEN"
    /\ \A t \in Sales : sale[t].quote = q => sale[t].status = "CANCELLED"
    /\ Start(r, [Idle EXCEPT !.kind = "convert", !.doc = s, !.on = s, !.quote = q])

\* Its create starts: prepareSale reads the customer.
BeginBill(r) ==
    /\ request[r].kind = "convert"
    /\ Start(r, [request[r] EXCEPT !.kind = "bill"])

\* Broken: the quotation is marked, not claimed.
UnclaimedBill(r, c) ==
    LET s == request[r].doc  q == request[r].quote IN
    /\ request[r].kind = "bill"
    /\ c.paid = 0
    /\ sale' = [sale EXCEPT ![s] = NewSale(c, "COMPLETED", q, TRUE)]
    /\ MarkConverted(q)
    /\ ApplyPostings(s, c, request[r].due)
    /\ Finish(r)
    /\ UNCHANGED ret

\* claimQuotation: the update that converts the quotation must find it open.
Bill(r, c) ==
    LET s == request[r].doc  q == request[r].quote IN
    /\ request[r].kind = "bill"
    /\ quote[q] = "OPEN"
    /\ c.paid = 0
    /\ sale' = [sale EXCEPT ![s] = NewSale(c, "COMPLETED", q, TRUE)]
    /\ MarkConverted(q)
    /\ ApplyPostings(s, c, request[r].due)
    /\ Finish(r)
    /\ UNCHANGED ret

\* The lines of a sale are replaced: those of its returns lose theirs.
UnlinkReturns(s) ==
    ret' = [x \in Returns |-> [ret[x] EXCEPT !.linked = @ /\ x \notin OfSale(s)]]

BeginFinalize(r, s, k) ==
    /\ k \in {"finalize", "finalizeOnCredit"}
    /\ sale[s].status = "DRAFT"
    /\ Begin(r, k, s, s)

\* The parked lines are replaced, and the sale is posted as a new one is.
FinalizeDraft(r, c) ==
    LET s == request[r].doc IN
    /\ request[r].kind \in {"finalize", "finalizeOnCredit"}
    /\ (DueOf(c) > 0) = (request[r].kind = "finalizeOnCredit")
    /\ SaleExists(s)
    /\ sale' = [sale EXCEPT ![s].status = "COMPLETED", ![s].qty = c.qty, ![s].paid = c.paid]
    /\ MarkConverted(request[r].seen.quote)
    /\ ApplyPostings(s, c, request[r].due)
    /\ UnlinkReturns(s)
    /\ FinishAndBreak(r, s)

\* Broken: a cancelled sale is edited like any other.
BeginEditAny(r, s) ==
    /\ SaleExists(s)
    /\ EditsReturned \/ OfSale(s) = {}
    /\ Begin(r, "edit", s, s)

BeginEdit(r, s) ==
    /\ SaleExists(s) /\ sale[s].status # "CANCELLED"
    /\ EditsReturned \/ OfSale(s) = {}
    /\ Begin(r, "edit", s, s)

\* restateSaleAccount and restateSaleLedger: the sale's own rows are rewritten
\* and the due moves by the difference; nothing happens when no money changed.
\* The receipt's vouchers are left alone when neither it nor the tenders changed,
\* and a discount given on it is posted no more, though its row keeps it.
RestateAccount(s, seen, c, retender) ==
    LET held == owed[s]
        receipt == Restated(held.receipt, ExcessOf(c))
        tenderChanged == retender \/ c.paid # seen.paid
        moneyChanged == c.qty # seen.qty \/ c.paid # seen.paid \/ (c.paid > 0 /\ retender)
        settled == receipt = held.receipt /\ ~tenderChanged
        receipted(v) == IF settled THEN v
                        ELSE [DropReceipt(v, held.receipt) EXCEPT !.account = MoneyLeg(receipt)]
    IN  IF ~moneyChanged THEN UNCHANGED account
        ELSE /\ DueOf(c) > held.credit => WithinLimit(due - held.credit, DueOf(c))
             /\ owed' = [owed EXCEPT ![s] = [credit |-> DueOf(c), receipt |-> receipt]]
             /\ due' = due + DueOf(c) - ExcessOf(c) - OwedDelta(held)
             /\ voucher' = [voucher EXCEPT ![s] = SaleVouchers(Unposted(receipted(@)), c)]
             /\ UNCHANGED <<adjusted, entry>>

\* update, as the edit page sends it: lines, payments and a status; retender
\* is whether the same money comes by another tender.
Update(r, c, status, retender) ==
    LET s == request[r].doc  seen == request[r].seen IN
    /\ request[r].kind = "edit"
    /\ SaleExists(s)
    /\ sale' = [sale EXCEPT ![s].qty = c.qty, ![s].paid = c.paid, ![s].status = status]
    /\ IF seen.status = "DRAFT"
       THEN status = "DRAFT" /\ UNCHANGED <<stock, account>>
       ELSE /\ status \in Asked
            /\ c.qty <= stock + seen.qty
            /\ stock' = stock + seen.qty - c.qty
            /\ RestateAccount(s, seen, c, retender)
    /\ UnlinkReturns(s)
    /\ FinishAndBreak(r, s)
    /\ UNCHANGED quote

\* Broken: the sale's returns are forgotten.
BeginCancelAny(r, s) ==
    /\ SaleExists(s) /\ sale[s].status # "CANCELLED"
    /\ Begin(r, "cancel", s, s)

\* cancel and remove refuse a sale that has returns.
BeginCancel(r, s) ==
    /\ SaleExists(s) /\ sale[s].status # "CANCELLED"
    /\ OfSale(s) = {}
    /\ Begin(r, "cancel", s, s)

\* Broken: a draft is reversed too.
CancelReversingDrafts(r) ==
    LET s == request[r].doc  seen == request[r].seen IN
    /\ request[r].kind = "cancel" /\ SaleExists(s)
    /\ Reverse(s, seen)
    /\ sale' = [sale EXCEPT ![s].status = "CANCELLED"]
    /\ Finish(r)
    /\ UNCHANGED <<quote, ret>>

Cancel(r) ==
    LET s == request[r].doc  seen == request[r].seen IN
    /\ request[r].kind = "cancel" /\ SaleExists(s)
    /\ IF seen.status = "DRAFT" THEN UNCHANGED <<stock, account>> ELSE Reverse(s, seen)
    /\ sale' = [sale EXCEPT ![s].status = "CANCELLED"]
    /\ Finish(r)
    /\ UNCHANGED <<quote, ret>>

BeginRemove(r, s) ==
    /\ SaleExists(s) /\ OfSale(s) = {}
    /\ Begin(r, "remove", s, s)

\* A return saved in the meantime loses its sale.
Remove(r) ==
    LET s == request[r].doc  seen == request[r].seen IN
    /\ request[r].kind = "remove" /\ SaleExists(s)
    /\ IF seen.status \in {"DRAFT", "CANCELLED"} THEN UNCHANGED <<stock, account>>
       ELSE Reverse(s, seen)
    /\ sale' = [sale EXCEPT ![s] = [NoSale EXCEPT !.status = "GONE"]]
    /\ ret' = [x \in Returns |-> IF x \in OfSale(s)
                THEN [ret[x] EXCEPT !.sale = None, !.linked = FALSE] ELSE ret[x]]
    /\ FinishAndBreak(r, s)
    /\ UNCHANGED quote

(***************************************************************************)
(* SalesReturnsService, for a return of a sale.                            *)
(***************************************************************************)
Keeps(x, s) == ret[x].status = "KEPT" /\ ret[x].sale = s

\* What is still returnable: the sale's line less the lines linked to it.
OpenOf(s, others) ==
    sale[s].qty - SumFunctionOnSet([x \in Returns |-> ret[x].qty],
                                   {x \in others : Keeps(x, s) /\ ret[x].linked})

\* settleSalesReturn and settleGuessedRefund: read is the balance as they read
\* it, held the balance if they do not write it.
Settle(x, seen, row, read, held) ==
    LET onCredit == DueOf(seen) > 0
        taken == IF row.tendered THEN row.qty - row.refunded
                 ELSE IF onCredit THEN Clamp(read, row.qty) ELSE 0
    IN  /\ row.refunded <= row.qty
        /\ due' = IF taken > 0 THEN read - taken ELSE held
        /\ adjusted' = [adjusted EXCEPT ![x] = -taken]
        /\ voucher' = [voucher EXCEPT ![x] =
                IF row.tendered THEN ReturnVouchers(row.qty, row.refunded)
                ELSE IF onCredit THEN Post(NoVouchers, "main", -row.qty, 0)
                ELSE Post(NoVouchers, "main", 0, -row.qty)]
        /\ UNCHANGED <<owed, entry>>

BeginReturn(r, x, s) ==
    /\ ret[x] = NoReturn /\ Unused(x) /\ ~Busy(r)
    /\ SaleExists(s) /\ sale[s].status \in Offered
    /\ Start(r, [Idle EXCEPT !.kind = "return", !.doc = x, !.on = s,
                             !.seen = sale[s], !.open = OpenOf(s, Returns)])

\* create: total_spent is updated, so the balance is current when it is read.
SaveReturn(r, refund) ==
    LET x == request[r].doc  row == [refund EXCEPT !.sale = request[r].on] IN
    /\ request[r].kind = "return"
    /\ row.qty <= request[r].open
    /\ ret' = [ret EXCEPT ![x] = row]
    /\ stock' = stock + row.qty
    /\ Settle(x, request[r].seen, row, due, due)
    /\ Finish(r)
    /\ UNCHANGED <<quote, sale>>

BeginEditReturn(r, x) ==
    LET s == ret[x].sale IN
    /\ ret[x].status = "KEPT" /\ s # None /\ ~Busy(r)
    /\ Start(r, [Idle EXCEPT !.kind = "editReturn", !.doc = x, !.on = s, !.seen = sale[s],
                             !.row = ret[x], !.open = OpenOf(s, Returns \ {x})])

\* update: unwindSalesReturn, then the lines if they changed, then settled afresh.
EditReturn(r, refund) ==
    LET x == request[r].doc  old == request[r].row
        keepsLines == old.linked /\ refund.qty = old.qty
        net == adjusted[x]
        unwound == IF net = 0 THEN due ELSE request[r].due - net
        read == IF net = 0 /\ refund.qty = old.qty THEN request[r].due ELSE unwound
        row == [refund EXCEPT !.sale = ret[x].sale, !.linked = ret[x].linked \/ ~keepsLines]
    IN  /\ request[r].kind = "editReturn"
        /\ ret[x].status = "KEPT"
        /\ old.tendered => refund.tendered
        /\ IF keepsLines /\ old.tendered /\ refund.refunded = old.refunded
           THEN UNCHANGED <<stock, ret, account>>
           ELSE /\ IF keepsLines THEN UNCHANGED stock
                   ELSE /\ ret[x].sale = old.sale /\ ret[x].linked = old.linked
                        /\ refund.qty <= request[r].open
                        /\ old.qty <= stock
                        /\ stock' = stock - old.qty + refund.qty
                /\ Settle(x, request[r].seen, row, read, unwound)
                /\ ret' = [ret EXCEPT ![x] = row]
        /\ Finish(r)
        /\ UNCHANGED <<quote, sale>>

BeginUnreturn(r, x) ==
    /\ ret[x].status = "KEPT" /\ ~Busy(r)
    /\ Start(r, [Idle EXCEPT !.kind = "unreturn", !.doc = x, !.on = ret[x].sale,
                             !.row = ret[x]])

\* remove: its ledger rows stay, netted by the opposite one.
Unreturn(r) ==
    LET x == request[r].doc IN
    /\ request[r].kind = "unreturn"
    /\ due' = IF adjusted[x] = 0 THEN due ELSE request[r].due - adjusted[x]
    /\ adjusted' = [adjusted EXCEPT ![x] = 0]
    /\ voucher' = [voucher EXCEPT ![x] = NoVouchers]
    /\ request[r].row.qty <= stock
    /\ stock' = stock - request[r].row.qty
    /\ ret' = [ret EXCEPT ![x] = [NoReturn EXCEPT !.status = "GONE"]]
    /\ Finish(r)
    /\ UNCHANGED <<quote, sale, owed, entry>>

(***************************************************************************)
(* CustomersService: payments, payouts and write-offs.  Each writes the    *)
(* balance it read plus what it changes.                                   *)
(***************************************************************************)
BeginEntry(r, k, e) ==
    /\ ~Busy(r)
    /\ CASE k \in {"pay", "writeOff"} -> entry[e] = NoEntry /\ Unused(e)
         [] k = "editPay" -> entry[e].type \in {"PAYMENT", "PAYOUT"}
         [] k = "unpay" -> entry[e].type \in EntryTypes
    /\ Start(r, [Idle EXCEPT !.kind = k, !.doc = e, !.row = entry[e]])

WriteEntry(r, e, row) ==
    /\ entry' = [entry EXCEPT ![e] = row]
    /\ due' = request[r].due + RowDelta(row) - RowDelta(request[r].row)
    /\ voucher' = [voucher EXCEPT ![e] = PaymentVouchers(@, row)]
    /\ Finish(r)
    /\ UNCHANGED <<stock, quote, sale, owed, ret, adjusted>>

\* recordCreditPayment and updateCreditPayment
Pay(r, row) ==
    LET e == request[r].doc IN
    /\ request[r].kind \in {"pay", "editPay"}
    /\ row.type # "WRITE_OFF"
    /\ SplitOK(row, request[r].due - RowDelta(request[r].row))
    /\ entry[e].type # "GONE"
    /\ WriteEntry(r, e, row)

\* writeOffDebt: never more than is owed.
WriteOff(r, row) ==
    /\ request[r].kind = "writeOff"
    /\ row.type = "WRITE_OFF" /\ row.discount = 0
    /\ row.amount > 0 /\ row.amount <= request[r].due
    /\ WriteEntry(r, request[r].doc, row)

\* deleteCreditPayment and reverseWriteOff
Unpay(r) ==
    LET e == request[r].doc IN
    /\ request[r].kind = "unpay"
    /\ entry[e].type # "GONE"
    /\ WriteEntry(r, e, [NoEntry EXCEPT !.type = "GONE"])

(***************************************************************************)
(* updateCreditPayment and deleteCreditPayment of the receipt for what a   *)
(* sale was overpaid: findCreditPaymentOrThrow takes any PAYMENT or PAYOUT *)
(* row, whatever it references.                                            *)
(***************************************************************************)
BeginReceipt(r, k, s) ==
    /\ k \in ReceiptKinds
    /\ owed[s].receipt # NoEntry /\ ~Busy(r)
    /\ Start(r, [Idle EXCEPT !.kind = k, !.doc = s, !.on = s, !.row = owed[s].receipt])

WriteReceipt(r, s, row) ==
    /\ owed[s].receipt # NoEntry
    /\ owed' = [owed EXCEPT ![s].receipt = row]
    /\ due' = request[r].due + RowDelta(row) - RowDelta(request[r].row)
    /\ voucher' = [voucher EXCEPT ![s] = PaymentVouchers(@, row)]
    /\ Finish(r)
    /\ UNCHANGED <<stock, quote, sale, ret, adjusted, entry>>

EditReceipt(r, row) ==
    /\ request[r].kind = "editReceipt"
    /\ SplitOK(row, request[r].due - RowDelta(request[r].row))
    /\ WriteReceipt(r, request[r].doc, row)

Unreceipt(r) ==
    /\ request[r].kind = "unreceipt"
    /\ WriteReceipt(r, request[r].doc, NoEntry)

(***************************************************************************)
(* Init, Next, Spec.                                                       *)
(***************************************************************************)
Init ==
    /\ stock = OpeningStock /\ due = 0
    /\ quote = [q \in Quotations |-> "OPEN"]
    /\ sale = [s \in Sales |-> NoSale]
    /\ owed = [s \in Sales |-> NoOwed]
    /\ ret = [x \in Returns |-> NoReturn]
    /\ adjusted = [x \in Returns |-> 0]
    /\ entry = [e \in Entries |-> NoEntry]
    /\ voucher = [d \in Docs |-> NoVouchers]
    /\ request = [r \in Requests |-> Idle]

SaleSteps ==
    \/ \E s \in Sales, c \in Carts, q \in Quotations \cup {None} :
            CreateDraft(s, c, q) \/ CreatePaid(s, c, q)
    \/ \E r \in Requests, s \in Sales :
            \/ \E q \in Quotations \cup {None} : BeginCreate(r, s, q)
            \/ \E q \in Quotations : Select(r, s, q)
            \/ \E k \in SaleKinds : BeginFinalize(r, s, k)
            \/ BeginEdit(r, s)
            \/ BeginCancel(r, s)
            \/ BeginRemove(r, s)
    \/ \E r \in Requests :
            \/ BeginBill(r)
            \/ \E c \in Carts :
                    \/ CreateOnCredit(r, c) \/ Bill(r, c) \/ FinalizeDraft(r, c)
                    \/ \E status \in {"DRAFT"} \cup Asked, retender \in BOOLEAN :
                            Update(r, c, status, retender)
            \/ Cancel(r)
            \/ Remove(r)

\* What a user may send for a return of q, of which m is handed back now.
Refunds(q) ==
    {[status |-> "KEPT", sale |-> None, qty |-> q, refunded |-> m, tendered |-> t,
      linked |-> TRUE] : m \in 0..q, t \in Tendered}

ReturnSteps ==
    \/ \E r \in Requests, x \in Returns :
            \/ \E s \in Sales : BeginReturn(r, x, s)
            \/ BeginEditReturn(r, x)
            \/ BeginUnreturn(r, x)
    \/ \E r \in Requests :
            \/ \E q \in 1..request[r].open : \E refund \in Refunds(q) :
                    SaveReturn(r, refund) \/ EditReturn(r, refund)
            \/ Unreturn(r)

EntrySteps ==
    \/ \E r \in Requests, e \in Entries, k \in EntryKinds : BeginEntry(r, k, e)
    \/ \E r \in Requests, s \in Sales, k \in ReceiptKinds : BeginReceipt(r, k, s)
    \/ \E r \in Requests :
            \/ \E row \in [type : EntryTypes, amount : Amounts, discount : Discounts] :
                    Pay(r, row) \/ WriteOff(r, row)
            \/ Unpay(r)
            \/ \E row \in ReceiptEdits : EditReceipt(r, row)
            \/ Unreceipt(r)

Next == SaleSteps \/ ReturnSteps \/ EntrySteps \/ \E r \in Requests : Abort(r)

Spec == Init /\ [][Next]_vars
=============================================================================
