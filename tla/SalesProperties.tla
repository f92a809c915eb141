-------------------------- MODULE SalesProperties --------------------------
(***************************************************************************)
(* What the sales of one customer must guarantee: the shelf, the account   *)
(* and the books tell the same story as the documents.                     *)
(***************************************************************************)
EXTENDS CustomerSales

Posted(s) == sale[s].status = "COMPLETED"
Kept(x) == ret[x].status = "KEPT"

\* Every variable keeps its type; the shelf is never below zero, whatever
\* sales, returns and reversals race for the last goods.
TypeOK ==
    /\ stock \in Nat /\ due \in Int
    /\ quote \in [Quotations -> {"OPEN", "CONVERTED"}]
    /\ sale \in [Sales -> Sale]
    /\ owed \in [Sales -> Owed]
    /\ ret \in [Returns -> Return]
    /\ adjusted \in [Returns -> Int]
    /\ entry \in [Entries -> Entry]
    /\ voucher \in [Docs -> [Legs -> [ar : Int, cash : Int]]]
    /\ \A r \in Requests :
         /\ request[r].kind \in Kinds \cup {"idle"}
         /\ request[r].on \in Sales \cup {None}
         /\ request[r].open \in Int /\ request[r].due \in Int

\* The goods off the shelf are those of the completed sales, less what the
\* returns that are kept brought back: drafts hold nothing, and a cancelled or
\* deleted document has given back exactly what it took.
StockFollowsDocuments ==
    stock = OpeningStock
            - SumFunction([s \in Sales |-> IF Posted(s) THEN sale[s].qty ELSE 0])
            + SumFunction([x \in Returns |-> IF Kept(x) THEN ret[x].qty ELSE 0])

\* What the rows of the customer's ledger add up to.
Ledger ==
    SumFunction([s \in Sales |-> OwedDelta(owed[s])])
    + SumFunction([x \in Returns |-> adjusted[x]])
    + SumFunction([e \in Entries |-> RowDelta(entry[e])])

\* The running due_balance is what the ledger adds up to, although every
\* handler moves it by hand.
DueFollowsLedger == due = Ledger

\* What the vouchers of a document move on Accounts Receivable.
Receivable(d) ==
    voucher[d]["main"].ar + voucher[d]["paid"].ar + voucher[d]["account"].ar
    + voucher[d]["discount"].ar + voucher[d]["stray"].ar

\* The customer's side of Accounts Receivable is what the customer's ledger
\* says: no document moves one without the other, nor leaves a voucher behind.
ReceivableFollowsLedger ==
    Ledger = SumFunction([d \in Docs |-> Receivable(d)])

\* The revenue vouchers of a completed sale add up to the sale and those of a
\* kept return to the return, on the due and on the tender together; a draft,
\* a cancelled and a deleted document have none.
PostedInFull ==
    LET moved(v) == v.ar + v.cash
        revenue(d) == moved(voucher[d]["main"]) + moved(voucher[d]["paid"])
    IN  /\ \A s \in Sales : revenue(s) = IF Posted(s) THEN sale[s].qty ELSE 0
        /\ \A s \in Sales : ~Posted(s) => voucher[s] = NoVouchers
        /\ \A x \in Returns : revenue(x) = IF Kept(x) THEN -ret[x].qty ELSE 0

\* No more comes back of a sale than it sold, and nothing of one that is
\* cancelled or gone: the same goods are not refunded twice.
NothingReturnedTwice ==
    \A s \in Sales :
        SumFunctionOnSet([x \in Returns |-> ret[x].qty], {x \in Returns : Keeps(x, s)})
            <= IF Posted(s) THEN sale[s].qty ELSE 0

\* "Both reach this update ... so the second sale rolls back instead of billing
\* the customer twice": two runs over the same selection make one sale of it.
BilledOnceByBatch ==
    \A s, t \in Sales :
        sale[s].batch /\ sale[t].batch /\ sale[s].quote = sale[t].quote => s = t

\* A sale only moves forward: a posted sale is never a draft again, a cancelled
\* one is never edited or revived, and an id is used once.
LifeMovesForward ==
    [][\A s \in Sales :
        /\ sale[s].status = "COMPLETED" => sale'[s].status # "DRAFT"
        /\ sale[s].status = "CANCELLED" => sale'[s] = sale[s] \/ sale'[s].status = "GONE"
        /\ sale[s].status = "GONE" => sale'[s] = sale[s]]_vars
=============================================================================
