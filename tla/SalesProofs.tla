---------------------------- MODULE SalesProofs ----------------------------
(***************************************************************************)
(* What is proved of a customer's sales, returns and payments, for any     *)
(* number of requests and documents, any carts, amounts and credit limit.  *)
(***************************************************************************)
EXTENDS SalesProperties, SumLemmas

(***************************************************************************)
(* Types.                                                                  *)
(***************************************************************************)
Money == [ar : Int, cash : Int]
Postings == [Legs -> Money]
Cart == [qty : Nat \ {0}, paid : Nat]
Request == [kind : Kinds \cup {"idle"}, doc : Docs \cup {None}, on : Sales \cup {None},
            seen : Sale, row : Return \cup Entry \cup {None}, open : Int, due : Int,
            quote : Quotations \cup {None}]

\* What a request of each kind is about.
About(req) ==
    /\ req.kind \in SaleKinds \cup ReceiptKinds => req.doc \in Sales /\ req.on = req.doc
    /\ req.kind \in ReturnKinds => req.doc \in Returns
    /\ req.kind \in {"return", "editReturn"} => req.on \in Sales
    /\ req.kind \in {"editReturn", "unreturn"} => req.row \in Return
    /\ req.kind \in EntryKinds => req.doc \in Entries
    /\ req.kind \in EntryKinds \cup ReceiptKinds => req.row \in Entry
    /\ req.kind \in {"convert", "bill"} => req.quote \in Quotations

RequestsOK == request \in [Requests -> Request] /\ \A r \in Requests : About(request[r])

\* The parts of TypeOK that are about documents and totals.
RowsOK ==
    /\ stock \in Nat /\ due \in Int
    /\ quote \in [Quotations -> {"OPEN", "CONVERTED"}]
    /\ sale \in [Sales -> Sale]
    /\ owed \in [Sales -> Owed]
    /\ ret \in [Returns -> Return]
    /\ adjusted \in [Returns -> Int]
    /\ entry \in [Entries -> Entry]
    /\ voucher \in [Docs -> Postings]

Types == RowsOK /\ RequestsOK

USE DEF Money, Postings, EntryKinds, ReceiptKinds

LEMMA TypesAreTypeOK == Types => TypeOK
BY DEF Types, TypeOK, RowsOK, RequestsOK, Request

LEMMA NothingTypes ==
    /\ NoSale \in Sale /\ NoReturn \in Return /\ NoEntry \in Entry /\ NoOwed \in Owed
    /\ Blank \in Money /\ NoVouchers \in Postings
    /\ Idle \in Request /\ About(Idle)
<1>1. NoSale \in Sale
  BY DEF NoSale, Sale, SaleStatus
<1>2. NoReturn \in Return
  BY DEF NoReturn, Return
<1>3. NoEntry \in Entry /\ NoOwed \in Owed
  BY DEF NoEntry, Entry, NoOwed, Owed
<1>4. Blank \in Money /\ NoVouchers \in Postings
  BY DEF NoVouchers, Blank
<1>5. Idle \in Request
  BY <1>1 DEF Idle, Request
<1>6. About(Idle)
  BY DEF About, Idle, SaleKinds, ReturnKinds
<1> QED BY <1>1, <1>2, <1>3, <1>4, <1>5, <1>6

LEMMA CartsAreCarts ==
    /\ Carts \subseteq Cart /\ ReceiptEdits \subseteq Entry
    /\ [type : EntryTypes, amount : Amounts, discount : Discounts] \subseteq Entry
<1>1. Carts \subseteq Cart
  BY ConstantsAssumption DEF Cart
<1>2. ReceiptEdits \subseteq [type : {"PAYMENT", "PAYOUT"}, amount : Nat, discount : Nat]
  BY ConstantsAssumption
<1>3. ReceiptEdits \subseteq Entry
  BY <1>2 DEF Entry, EntryTypes
<1>4. Amounts \subseteq Nat /\ Discounts \subseteq Nat
  BY ConstantsAssumption
<1>5. [type : EntryTypes, amount : Amounts, discount : Discounts] \subseteq Entry
  BY <1>4 DEF Entry
<1> QED BY <1>1, <1>3, <1>5

LEMMA PostType ==
    ASSUME NEW v \in Postings, NEW leg \in Legs, NEW ar \in Int, NEW cash \in Int
    PROVE  Post(v, leg, ar, cash) \in Postings
BY DEF Post

LEMMA DueType ==
    ASSUME NEW c, c.qty \in Nat, c.paid \in Nat
    PROVE  DueOf(c) \in Nat /\ ExcessOf(c) \in Nat
BY DEF DueOf, ExcessOf

LEMMA SaleVouchersType ==
    ASSUME NEW c, c.qty \in Nat, c.paid \in Nat, NEW v \in Postings
    PROVE  SaleVouchers(v, c) \in Postings
<1>1. DueOf(c) \in Nat
  BY DueType
<1>2. "main" \in Legs /\ "paid" \in Legs
  BY DEF Legs
<1>3. Post(v, "main", 0, c.qty) \in Postings
  BY <1>2, PostType
<1>4. Post(v, "main", DueOf(c), 0) \in Postings
  BY <1>1, <1>2, PostType
<1>5. Post(Post(v, "main", DueOf(c), 0), "paid", 0, c.paid) \in Postings
  BY <1>2, <1>4, PostType
<1> QED BY <1>3, <1>5 DEF SaleVouchers

LEMMA ReturnVouchersType ==
    ASSUME NEW total \in Nat, NEW refunded \in Nat
    PROVE  ReturnVouchers(total, refunded) \in Postings
<1>1. "main" \in Legs /\ "paid" \in Legs
  BY DEF Legs
<1>2. Post(NoVouchers, "main", refunded - total, 0) \in Postings
  BY <1>1, NothingTypes, PostType
<1>3. Post(Post(NoVouchers, "main", refunded - total, 0), "paid", 0, -refunded) \in Postings
  BY <1>1, <1>2, PostType
<1>4. Post(NoVouchers, "main", 0, -total) \in Postings
  BY <1>1, NothingTypes, PostType
<1> QED BY <1>3, <1>4 DEF ReturnVouchers

\* A row of the ledger and the vouchers of a document it is posted on.
LEMMA RowTypes ==
    ASSUME NEW e \in Entry
    PROVE  /\ MoneyDelta(e) \in Int /\ RowDelta(e) \in Int /\ MoneyLeg(e) \in Money
           /\ \A v \in Postings :
                /\ PaymentVouchers(v, e) \in Postings /\ DropReceipt(v, e) \in Postings
                /\ [v EXCEPT !.account = MoneyLeg(e)] \in Postings
           /\ \A excess \in Nat : Received(e, excess) \in Entry /\ Restated(e, excess) \in Entry
<1>1. e.amount \in Nat /\ e.discount \in Nat
  BY DEF Entry
<1>2. MoneyDelta(e) \in Int /\ RowDelta(e) \in Int
  BY <1>1 DEF MoneyDelta, RowDelta
<1>3. (IF e.type = "WRITE_OFF" THEN 0 ELSE -MoneyDelta(e)) \in Int
  BY <1>2
<1>4. MoneyLeg(e) \in Money
  BY <1>2, <1>3 DEF MoneyLeg
<1>5. ASSUME NEW v \in Postings
      PROVE  /\ [v EXCEPT !.account = MoneyLeg(e)] \in Postings
             /\ PaymentVouchers(v, e) \in Postings
  <2> DEFINE leg == [ar |-> -e.discount, cash |-> 0]
  <2>1. leg \in Money
    BY <1>1
  <2> HIDE DEF leg
  <2> QED BY <1>4, <2>1 DEF PaymentVouchers, leg
<1>6. ASSUME NEW v \in Postings PROVE DropReceipt(v, e) \in Postings
  <2> DEFINE left == [ar |-> v.stray.ar + v.account.ar + v.discount.ar,
                      cash |-> v.stray.cash + v.account.cash + v.discount.cash]
  <2>1. left \in Money
    BY DEF Legs
  <2>2. MoneyLeg(NoEntry) \in Money /\ [ar |-> -NoEntry.discount, cash |-> 0] \in Money
    BY DEF NoEntry, MoneyLeg, MoneyDelta
  <2>3. PaymentVouchers(v, NoEntry) \in Postings
    BY <2>2 DEF PaymentVouchers
  <2>4. [PaymentVouchers(v, NoEntry) EXCEPT !.stray = left] \in Postings
    <3> HIDE DEF left
    <3> QED BY <2>1, <2>3
  <2> QED BY <2>3, <2>4 DEF DropReceipt
<1>7. ASSUME NEW excess \in Nat
      PROVE  Received(e, excess) \in Entry /\ Restated(e, excess) \in Entry
  <2>1. Receipt(excess) \in Entry
    BY DEF Receipt, Entry, EntryTypes
  <2>2. [e EXCEPT !.amount = @ + excess] \in Entry /\ [e EXCEPT !.amount = excess] \in Entry
    BY <1>1 DEF Entry
  <2> QED BY <2>1, <2>2, NothingTypes DEF Received, Restated
<1> QED BY <1>2, <1>4, <1>5, <1>6, <1>7

LEMMA UnpostedType == ASSUME NEW v \in Postings PROVE Unposted(v) \in Postings
BY NothingTypes DEF Unposted

LEMMA OwedTypes ==
    ASSUME NEW o \in Owed PROVE o.credit \in Nat /\ o.receipt \in Entry /\ OwedDelta(o) \in Int
BY RowTypes DEF Owed, OwedDelta

LEMMA InitTypes == Init => Types
<1> SUFFICES ASSUME Init PROVE Types
  OBVIOUS
<1> USE NothingTypes, ConstantsAssumption DEF Init
<1>1. sale \in [Sales -> Sale] /\ ret \in [Returns -> Return] /\ entry \in [Entries -> Entry]
  OBVIOUS
<1>2. voucher \in [Docs -> Postings]
  OBVIOUS
<1>3. request \in [Requests -> Request] /\ \A r \in Requests : About(request[r])
  OBVIOUS
<1> QED BY <1>1, <1>2, <1>3 DEF Types, RowsOK, RequestsOK

LEMMA StartTypes ==
    ASSUME Types, NEW r \in Requests, NEW req \in Request, About(req), Start(r, req)
    PROVE  Types'
<1>1. RowsOK'
  BY DEF Types, Start, account, RowsOK
<1>2. RowsOK
  BY DEF Types
<1> DEFINE new == [req EXCEPT !.due = IF req.kind \in ReadsDue THEN due ELSE 0]
<1>3. new \in Request /\ About(new)
  <2>1. (IF req.kind \in ReadsDue THEN due ELSE 0) \in Int
    BY <1>2 DEF RowsOK
  <2>2. new \in Request
    BY <2>1 DEF Request
  <2>3. /\ new.kind = req.kind /\ new.doc = req.doc /\ new.on = req.on
        /\ new.row = req.row /\ new.quote = req.quote
    BY DEF Request
  <2> HIDE DEF new
  <2> QED BY <2>2, <2>3 DEF About
<1>4. request' = [request EXCEPT ![r] = new]
  BY DEF Start
<1> HIDE DEF new
<1>5. RequestsOK'
  <2>1. request \in [Requests -> Request] /\ \A q \in Requests : About(request[q])
    BY DEF Types, RequestsOK
  <2>2. request' \in [Requests -> Request]
    BY <1>3, <1>4, <2>1
  <2>3. \A q \in Requests : request'[q] = IF q = r THEN new ELSE request[q]
    BY <1>4, <2>1
  <2>4. \A q \in Requests : About(request'[q])
    BY <1>3, <2>1, <2>3
  <2> QED BY <2>2, <2>4 DEF RequestsOK
<1> QED BY <1>1, <1>5 DEF Types

LEMMA FinishTypes ==
    ASSUME Types, NEW r \in Requests,
           Finish(r) \/ \E s \in Sales : FinishAndBreak(r, s)
    PROVE  RequestsOK'
BY NothingTypes DEF Types, RequestsOK, Finish, FinishAndBreak

LEMMA ApplyPostingsTypes ==
    ASSUME Types, NEW s \in Sales, NEW c \in Cart, NEW seen \in Int, ApplyPostings(s, c, seen)
    PROVE  /\ stock' \in Nat /\ due' \in Int
           /\ owed' \in [Sales -> Owed]
           /\ voucher' \in [Docs -> Postings]
           /\ UNCHANGED <<adjusted, entry>>
<1>1. c.qty \in Nat /\ c.paid \in Nat /\ DueOf(c) \in Nat /\ ExcessOf(c) \in Nat
  BY DueType DEF Cart
<1>2. RowsOK
  BY DEF Types
<1>3. stock' \in Nat /\ due' \in Int
  BY <1>1, <1>2 DEF ApplyPostings, RowsOK
<1> DEFINE row == Received(owed[s].receipt, ExcessOf(c))
           next == [credit |-> owed[s].credit + DueOf(c), receipt |-> row]
           posted == [SaleVouchers(voucher[s], c) EXCEPT !.account = MoneyLeg(row)]
<1>4. owed[s] \in Owed /\ voucher[s] \in Postings /\ s \in Docs
  BY <1>2 DEF RowsOK, Docs
<1>5. row \in Entry
  BY <1>1, <1>4, OwedTypes, RowTypes
<1>6. /\ owed' = [owed EXCEPT ![s] = next] /\ voucher' = [voucher EXCEPT ![s] = posted]
      /\ UNCHANGED <<adjusted, entry>>
  BY DEF ApplyPostings
<1> HIDE DEF row
<1>7. next \in Owed
  BY <1>1, <1>4, <1>5, OwedTypes DEF Owed
<1>8. posted \in Postings
  BY <1>1, <1>4, <1>5, SaleVouchersType, RowTypes
<1> HIDE DEF next, posted
<1>9. owed' \in [Sales -> Owed] /\ voucher' \in [Docs -> Postings]
  BY <1>2, <1>6, <1>7, <1>8 DEF RowsOK
<1> QED BY <1>3, <1>6, <1>9

LEMMA ReverseTypes ==
    ASSUME Types, NEW s \in Sales, NEW seen \in Sale, Reverse(s, seen)
    PROVE  /\ stock' \in Nat /\ due' \in Int
           /\ owed' \in [Sales -> Owed]
           /\ voucher' \in [Docs -> Postings]
           /\ UNCHANGED <<adjusted, entry>>
<1>1. RowsOK /\ seen.qty \in Nat
  BY DEF Types, Sale
<1>2. stock' \in Nat
  BY <1>1 DEF Reverse, RowsOK
<1>3. owed[s] \in Owed /\ voucher[s] \in Postings
  BY <1>1 DEF RowsOK, Docs
<1>4. due' \in Int
  BY <1>1, <1>3, OwedTypes DEF Reverse, RowsOK
<1>5. owed' \in [Sales -> Owed]
  BY <1>1, NothingTypes DEF Reverse, RowsOK
<1>6. DropReceipt(Unposted(voucher[s]), owed[s].receipt) \in Postings
  BY <1>3, OwedTypes, UnpostedType, RowTypes
<1>7. voucher' \in [Docs -> Postings]
  BY <1>1, <1>6 DEF Reverse, RowsOK
<1> QED BY <1>2, <1>4, <1>5, <1>7 DEF Reverse

LEMMA MarkTypes ==
    ASSUME Types, NEW q \in Quotations \cup {None}, MarkConverted(q)
    PROVE  quote' \in [Quotations -> {"OPEN", "CONVERTED"}]
BY DEF Types, RowsOK, MarkConverted

LEMMA NewSaleType ==
    ASSUME NEW c \in Cart, NEW status \in SaleStatus, NEW q \in Quotations \cup {None},
           NEW b \in BOOLEAN
    PROVE  NewSale(c, status, q, b) \in Sale
BY DEF NewSale, Cart, Sale

LEMMA InFlight ==
    ASSUME Types, NEW r \in Requests PROVE request[r] \in Request /\ About(request[r])
BY DEF Types, RequestsOK

\* req is a fresh request of kind k for document d, with what it read.
Asks(req, k, d, s, seen, row, open, q) ==
    /\ req \in Request
    /\ req.kind = k /\ req.doc = d /\ req.on = s /\ req.seen = seen /\ req.row = row
    /\ req.open = open /\ req.quote = q

\* The shapes in which the handlers note what they read.
LEMMA Asking ==
    ASSUME NEW k \in Kinds, NEW d \in Docs \cup {None}
    PROVE  /\ \A s \in Sales \cup {None}, q \in Quotations \cup {None} :
                Asks([Idle EXCEPT !.kind = k, !.doc = d, !.on = s, !.quote = q],
                     k, d, s, NoSale, None, 0, q)
           /\ \A s \in Sales \cup {None}, seen \in Sale :
                Asks([Idle EXCEPT !.kind = k, !.doc = d, !.on = s, !.seen = seen],
                     k, d, s, seen, None, 0, None)
           /\ \A s \in Sales \cup {None}, seen \in Sale, open \in Int :
                Asks([Idle EXCEPT !.kind = k, !.doc = d, !.on = s, !.seen = seen, !.open = open],
                     k, d, s, seen, None, open, None)
           /\ \A s \in Sales \cup {None}, seen \in Sale, row \in Return, open \in Int :
                Asks([Idle EXCEPT !.kind = k, !.doc = d, !.on = s, !.seen = seen, !.row = row,
                                  !.open = open], k, d, s, seen, row, open, None)
           /\ \A s \in Sales \cup {None}, row \in Return \cup Entry :
                Asks([Idle EXCEPT !.kind = k, !.doc = d, !.on = s, !.row = row],
                     k, d, s, NoSale, row, 0, None)
           /\ \A row \in Entry :
                Asks([Idle EXCEPT !.kind = k, !.doc = d, !.row = row],
                     k, d, None, NoSale, row, 0, None)
<1>1. \A req \in Request :
        /\ [req EXCEPT !.kind = k] \in Request /\ [req EXCEPT !.doc = d] \in Request
        /\ \A s \in Sales \cup {None} : [req EXCEPT !.on = s] \in Request
        /\ \A seen \in Sale : [req EXCEPT !.seen = seen] \in Request
        /\ \A row \in Return \cup Entry : [req EXCEPT !.row = row] \in Request
        /\ \A open \in Int : [req EXCEPT !.open = open] \in Request
        /\ \A q \in Quotations \cup {None} : [req EXCEPT !.quote = q] \in Request
  BY DEF Request
<1> DEFINE asks1 == [[Idle EXCEPT !.kind = k] EXCEPT !.doc = d]
           asks2(s) == [asks1 EXCEPT !.on = s]
           asks3(s, seen) == [asks2(s) EXCEPT !.seen = seen]
           asks4(s, seen, row) == [asks3(s, seen) EXCEPT !.row = row]
<1>2. /\ asks1 \in Request
      /\ \A s \in Sales \cup {None} : asks2(s) \in Request
      /\ \A s \in Sales \cup {None}, seen \in Sale : asks3(s, seen) \in Request
      /\ \A s \in Sales \cup {None}, seen \in Sale, row \in Return :
            asks4(s, seen, row) \in Request
  BY <1>1, NothingTypes
<1>3. ASSUME NEW s \in Sales \cup {None}, NEW q \in Quotations \cup {None}
      PROVE  Asks([asks2(s) EXCEPT !.quote = q], k, d, s, NoSale, None, 0, q)
  <2> DEFINE req == [asks2(s) EXCEPT !.quote = q]
  <2>1. req \in Request
    <3> HIDE DEF asks1, asks2, asks3, asks4
    <3> QED BY <1>1, <1>2
  <2> QED BY <2>1 DEF Asks, Idle
<1>4. ASSUME NEW s \in Sales \cup {None}, NEW seen \in Sale
      PROVE  Asks(asks3(s, seen), k, d, s, seen, None, 0, None)
  <2> DEFINE req == asks3(s, seen)
  <2>1. req \in Request
    <3> HIDE DEF asks1, asks2, asks3, asks4
    <3> QED BY <1>1, <1>2
  <2> QED BY <2>1 DEF Asks, Idle
<1>5. ASSUME NEW s \in Sales \cup {None}, NEW seen \in Sale, NEW open \in Int
      PROVE  Asks([asks3(s, seen) EXCEPT !.open = open], k, d, s, seen, None, open, None)
  <2> DEFINE req == [asks3(s, seen) EXCEPT !.open = open]
  <2>1. req \in Request
    <3> HIDE DEF asks1, asks2, asks3, asks4
    <3> QED BY <1>1, <1>2
  <2> QED BY <2>1 DEF Asks, Idle
<1>6. ASSUME NEW s \in Sales \cup {None}, NEW seen \in Sale, NEW row \in Return, NEW open \in Int
      PROVE  Asks([asks4(s, seen, row) EXCEPT !.open = open], k, d, s, seen, row, open, None)
  <2> DEFINE req == [asks4(s, seen, row) EXCEPT !.open = open]
  <2>1. req \in Request
    <3> HIDE DEF asks1, asks2, asks3, asks4
    <3> QED BY <1>1, <1>2
  <2> QED BY <2>1 DEF Asks, Idle
<1>7. ASSUME NEW s \in Sales \cup {None}, NEW row \in Return \cup Entry
      PROVE  Asks([asks2(s) EXCEPT !.row = row], k, d, s, NoSale, row, 0, None)
  <2> DEFINE req == [asks2(s) EXCEPT !.row = row]
  <2>1. req \in Request
    <3> HIDE DEF asks1, asks2, asks3, asks4
    <3> QED BY <1>1, <1>2
  <2> QED BY <2>1 DEF Asks, Idle
<1>8. ASSUME NEW row \in Entry
      PROVE  Asks([asks1 EXCEPT !.row = row], k, d, None, NoSale, row, 0, None)
  <2> DEFINE req == [asks1 EXCEPT !.row = row]
  <2>1. req \in Request
    <3> HIDE DEF asks1, asks2, asks3, asks4
    <3> QED BY <1>1, <1>2
  <2> QED BY <2>1 DEF Asks, Idle
<1> QED BY <1>3, <1>4, <1>5, <1>6, <1>7, <1>8

\* What each handler asks for when it begins.
LEMMA SaleBegins ==
    ASSUME Types, NEW r \in Requests, NEW s \in Sales
    PROVE  /\ \A q \in Quotations \cup {None} : BeginCreate(r, s, q) =>
                \E req : Asks(req, "credit", s, s, NoSale, None, 0, q) /\ Start(r, req)
           /\ \A q \in Quotations : Select(r, s, q) =>
                \E req : Asks(req, "convert", s, s, NoSale, None, 0, q) /\ Start(r, req)
           /\ \A k \in SaleKinds : Begin(r, k, s, s) =>
                \E req : Asks(req, k, s, s, sale[s], None, 0, None) /\ Start(r, req)
<1>1. s \in Docs \cup {None} /\ sale[s] \in Sale /\ s # None /\ SaleKinds \subseteq Kinds
  BY ConstantsAssumption DEF Types, RowsOK, Docs, Kinds
<1>2. "credit" \in Kinds /\ "convert" \in Kinds
  BY DEF Kinds, SaleKinds
<1>3. ASSUME NEW q \in Quotations \cup {None}, BeginCreate(r, s, q)
      PROVE  \E req : Asks(req, "credit", s, s, NoSale, None, 0, q) /\ Start(r, req)
  <2>1. Asks([Idle EXCEPT !.kind = "credit", !.doc = s, !.on = s, !.quote = q],
             "credit", s, s, NoSale, None, 0, q)
    BY <1>1, <1>2, Asking, NothingTypes
  <2> QED BY <1>3, <2>1 DEF BeginCreate
<1>4. ASSUME NEW q \in Quotations, Select(r, s, q)
      PROVE  \E req : Asks(req, "convert", s, s, NoSale, None, 0, q) /\ Start(r, req)
  <2>1. Asks([Idle EXCEPT !.kind = "convert", !.doc = s, !.on = s, !.quote = q],
             "convert", s, s, NoSale, None, 0, q)
    BY <1>1, <1>2, Asking, NothingTypes
  <2> QED BY <1>4, <2>1 DEF Select
<1>5. ASSUME NEW k \in SaleKinds, Begin(r, k, s, s)
      PROVE  \E req : Asks(req, k, s, s, sale[s], None, 0, None) /\ Start(r, req)
  <2>1. Asks([Idle EXCEPT !.kind = k, !.doc = s, !.on = s, !.seen = sale[s]],
             k, s, s, sale[s], None, 0, None)
    BY <1>1, Asking
  <2> QED BY <1>1, <1>5, <2>1 DEF Begin
<1> QED BY <1>3, <1>4, <1>5

LEMMA OpenIsInt ==
    ASSUME Types, NEW s \in Sales, NEW T \in SUBSET Returns PROVE OpenOf(s, T) \in Int
<1> DEFINE f == [y \in Returns |-> ret[y].qty]
           U == {y \in T : Keeps(y, s) /\ ret[y].linked}
<1>1. \A y \in Returns : f[y] \in Int
  BY DEF Types, RowsOK, Return
<1>2. sale[s].qty \in Int
  BY DEF Types, RowsOK, Sale
<1>3. U \in SUBSET Returns
  OBVIOUS
<1>4. SumFunctionOnSet(f, U) \in Int
  <2> HIDE DEF f, U
  <2> QED BY <1>1, <1>3, SumIsInt, FS_Subset, ConstantsAssumption
<1> QED BY <1>2, <1>4 DEF OpenOf

LEMMA ReturnBegins ==
    ASSUME Types, NEW r \in Requests, NEW x \in Returns
    PROVE  /\ \A s \in Sales : BeginReturn(r, x, s) =>
                \E req : /\ Asks(req, "return", x, s, sale[s], None, OpenOf(s, Returns), None)
                         /\ Start(r, req)
           /\ BeginEditReturn(r, x) =>
                /\ ret[x].sale \in Sales
                /\ \E req : /\ Asks(req, "editReturn", x, ret[x].sale, sale[ret[x].sale], ret[x],
                                    OpenOf(ret[x].sale, Returns \ {x}), None)
                            /\ Start(r, req)
           /\ BeginUnreturn(r, x) =>
                \E req : /\ Asks(req, "unreturn", x, ret[x].sale, NoSale, ret[x], 0, None)
                         /\ Start(r, req)
<1>1. /\ x \in Docs \cup {None} /\ ret[x] \in Return /\ ret[x].sale \in Sales \cup {None}
      /\ \A s \in Sales : sale[s] \in Sale
  BY DEF Types, RowsOK, Docs, Return
<1>2. "return" \in Kinds /\ "editReturn" \in Kinds /\ "unreturn" \in Kinds
  BY DEF Kinds, ReturnKinds
<1>3. ASSUME NEW s \in Sales, BeginReturn(r, x, s)
      PROVE  \E req : /\ Asks(req, "return", x, s, sale[s], None, OpenOf(s, Returns), None)
                      /\ Start(r, req)
  <2>1. OpenOf(s, Returns) \in Int
    BY OpenIsInt
  <2>2. Asks([Idle EXCEPT !.kind = "return", !.doc = x, !.on = s, !.seen = sale[s],
                          !.open = OpenOf(s, Returns)],
             "return", x, s, sale[s], None, OpenOf(s, Returns), None)
    BY <1>1, <1>2, <2>1, Asking
  <2> QED BY <1>3, <2>2 DEF BeginReturn
<1>4. ASSUME BeginEditReturn(r, x)
      PROVE  /\ ret[x].sale \in Sales
             /\ \E req : /\ Asks(req, "editReturn", x, ret[x].sale, sale[ret[x].sale], ret[x],
                                 OpenOf(ret[x].sale, Returns \ {x}), None)
                         /\ Start(r, req)
  <2>1. ret[x].sale \in Sales
    BY <1>1, <1>4 DEF BeginEditReturn
  <2>2. OpenOf(ret[x].sale, Returns \ {x}) \in Int
    BY <2>1, OpenIsInt
  <2>3. Asks([Idle EXCEPT !.kind = "editReturn", !.doc = x, !.on = ret[x].sale,
                          !.seen = sale[ret[x].sale], !.row = ret[x],
                          !.open = OpenOf(ret[x].sale, Returns \ {x})],
             "editReturn", x, ret[x].sale, sale[ret[x].sale], ret[x],
             OpenOf(ret[x].sale, Returns \ {x}), None)
    BY <1>1, <1>2, <2>1, <2>2, Asking
  <2> QED BY <1>4, <2>1, <2>3 DEF BeginEditReturn
<1>5. ASSUME BeginUnreturn(r, x)
      PROVE  \E req : /\ Asks(req, "unreturn", x, ret[x].sale, NoSale, ret[x], 0, None)
                      /\ Start(r, req)
  <2>1. Asks([Idle EXCEPT !.kind = "unreturn", !.doc = x, !.on = ret[x].sale, !.row = ret[x]],
             "unreturn", x, ret[x].sale, NoSale, ret[x], 0, None)
    BY <1>1, <1>2, Asking
  <2> QED BY <1>5, <2>1 DEF BeginUnreturn
<1> QED BY <1>3, <1>4, <1>5

LEMMA EntryBegins ==
    ASSUME Types, NEW r \in Requests
    PROVE  /\ \A e \in Entries, k \in EntryKinds : BeginEntry(r, k, e) =>
                \E req : Asks(req, k, e, None, NoSale, entry[e], 0, None) /\ Start(r, req)
           /\ \A s \in Sales, k \in ReceiptKinds : BeginReceipt(r, k, s) =>
                \E req : /\ Asks(req, k, s, s, NoSale, owed[s].receipt, 0, None)
                         /\ Start(r, req)
<1>1. ASSUME NEW e \in Entries, NEW k \in EntryKinds, BeginEntry(r, k, e)
      PROVE  \E req : Asks(req, k, e, None, NoSale, entry[e], 0, None) /\ Start(r, req)
  <2>1. e \in Docs \cup {None} /\ entry[e] \in Entry /\ k \in Kinds
    BY DEF Types, RowsOK, Docs, Kinds
  <2>2. Asks([Idle EXCEPT !.kind = k, !.doc = e, !.row = entry[e]],
             k, e, None, NoSale, entry[e], 0, None)
    BY <2>1, Asking
  <2> QED BY <1>1, <2>2 DEF BeginEntry
<1>2. ASSUME NEW s \in Sales, NEW k \in ReceiptKinds, BeginReceipt(r, k, s)
      PROVE  \E req : Asks(req, k, s, s, NoSale, owed[s].receipt, 0, None) /\ Start(r, req)
  <2>1. s \in Docs \cup {None} /\ owed[s] \in Owed /\ k \in Kinds
    BY DEF Types, RowsOK, Docs, Kinds
  <2>2. owed[s].receipt \in Entry
    BY <2>1, OwedTypes
  <2>3. Asks([Idle EXCEPT !.kind = k, !.doc = s, !.on = s, !.row = owed[s].receipt],
             k, s, s, NoSale, owed[s].receipt, 0, None)
    BY <2>1, <2>2, Asking
  <2> QED BY <1>2, <2>3 DEF BeginReceipt
<1> QED BY <1>1, <1>2

LEMMA BillBegins ==
    ASSUME Types, NEW r \in Requests, BeginBill(r)
    PROVE  /\ request[r].kind = "convert"
           /\ \E req : /\ Asks(req, "bill", request[r].doc, request[r].on, request[r].seen,
                               request[r].row, request[r].open, request[r].quote)
                       /\ About(req) /\ Start(r, req)
<1> DEFINE req == [request[r] EXCEPT !.kind = "bill"]
<1>1. request[r] \in Request /\ About(request[r]) /\ request[r].kind = "convert"
  BY InFlight DEF BeginBill
<1>2. req \in Request /\ About(req)
  BY <1>1 DEF Request, About, Kinds, SaleKinds, ReturnKinds
<1>3. Asks(req, "bill", request[r].doc, request[r].on, request[r].seen,
           request[r].row, request[r].open, request[r].quote)
  BY <1>1, <1>2 DEF Asks, Request
<1> HIDE DEF req
<1>4. Start(r, req)
  BY DEF BeginBill, req
<1> QED BY <1>1, <1>2, <1>3, <1>4

Begins(r) ==
    \/ \E s \in Sales, q \in Quotations \cup {None} : BeginCreate(r, s, q)
    \/ \E s \in Sales, q \in Quotations : Select(r, s, q)
    \/ \E s \in Sales, k \in SaleKinds : BeginFinalize(r, s, k)
    \/ \E s \in Sales : BeginEdit(r, s) \/ BeginCancel(r, s) \/ BeginRemove(r, s)
    \/ BeginBill(r)
    \/ \E x \in Returns, s \in Sales : BeginReturn(r, x, s)
    \/ \E x \in Returns : BeginEditReturn(r, x) \/ BeginUnreturn(r, x)
    \/ \E e \in Entries, k \in EntryKinds : BeginEntry(r, k, e)
    \/ \E s \in Sales, k \in ReceiptKinds : BeginReceipt(r, k, s)

LEMMA BeginTypes ==
    ASSUME Types, NEW r \in Requests, Begins(r)
    PROVE  Types' /\ UNCHANGED <<stock, quote, sale, ret, account>>
<1>1. SUFFICES \E req \in Request : About(req) /\ Start(r, req)
  BY StartTypes DEF Start
<1>0. /\ \A x \in Returns : ret[x] \in Return
      /\ \A e \in Entries : entry[e] \in Entry
      /\ \A s \in Sales : owed[s].receipt \in Entry
  BY OwedTypes DEF Types, RowsOK
<1>2. ASSUME NEW s \in Sales, NEW k \in SaleKinds, NEW seen, NEW q,
             k \in {"convert", "bill"} => q \in Quotations,
             NEW req, Asks(req, k, s, s, seen, None, 0, q)
      PROVE  req \in Request /\ About(req)
  BY <1>2 DEF Asks, About, SaleKinds, ReturnKinds
<1>3. ASSUME NEW s \in Sales, NEW q \in Quotations \cup {None}, BeginCreate(r, s, q)
      PROVE  \E req \in Request : About(req) /\ Start(r, req)
  BY <1>2, <1>3, SaleBegins DEF SaleKinds
<1>4. ASSUME NEW s \in Sales, NEW q \in Quotations, Select(r, s, q)
      PROVE  \E req \in Request : About(req) /\ Start(r, req)
  BY <1>2, <1>4, SaleBegins DEF SaleKinds
<1>5. ASSUME NEW s \in Sales, NEW k \in SaleKinds, k \notin {"convert", "bill"},
             Begin(r, k, s, s)
      PROVE  \E req \in Request : About(req) /\ Start(r, req)
  BY <1>2, <1>5, SaleBegins
<1>6. ASSUME NEW x \in Returns, NEW s \in Sales, BeginReturn(r, x, s)
      PROVE  \E req \in Request : About(req) /\ Start(r, req)
  <2>1. PICK req : /\ Asks(req, "return", x, s, sale[s], None, OpenOf(s, Returns), None)
                   /\ Start(r, req)
    BY <1>6, ReturnBegins
  <2> QED BY <2>1 DEF Asks, About, SaleKinds, ReturnKinds
<1>7. ASSUME NEW x \in Returns, BeginEditReturn(r, x)
      PROVE  \E req \in Request : About(req) /\ Start(r, req)
  <2>1. PICK req : /\ Asks(req, "editReturn", x, ret[x].sale, sale[ret[x].sale], ret[x],
                           OpenOf(ret[x].sale, Returns \ {x}), None)
                   /\ Start(r, req)
    BY <1>7, ReturnBegins
  <2>2. ret[x].sale \in Sales
    BY <1>7, ReturnBegins
  <2> QED BY <1>0, <2>1, <2>2 DEF Asks, About, SaleKinds, ReturnKinds
<1>8. ASSUME NEW x \in Returns, BeginUnreturn(r, x)
      PROVE  \E req \in Request : About(req) /\ Start(r, req)
  <2>1. PICK req : /\ Asks(req, "unreturn", x, ret[x].sale, NoSale, ret[x], 0, None)
                   /\ Start(r, req)
    BY <1>8, ReturnBegins
  <2> QED BY <1>0, <2>1 DEF Asks, About, SaleKinds, ReturnKinds
<1>9. ASSUME NEW e \in Entries, NEW k \in EntryKinds, BeginEntry(r, k, e)
      PROVE  \E req \in Request : About(req) /\ Start(r, req)
  <2>1. PICK req : Asks(req, k, e, None, NoSale, entry[e], 0, None) /\ Start(r, req)
    BY <1>9, EntryBegins
  <2> QED BY <1>0, <2>1 DEF Asks, About, SaleKinds, ReturnKinds, EntryKinds
<1>10. ASSUME NEW s \in Sales, NEW k \in ReceiptKinds, BeginReceipt(r, k, s)
       PROVE  \E req \in Request : About(req) /\ Start(r, req)
  <2>1. PICK req : Asks(req, k, s, s, NoSale, owed[s].receipt, 0, None) /\ Start(r, req)
    BY <1>10, EntryBegins
  <2> QED BY <1>0, <2>1 DEF Asks, About, SaleKinds, ReturnKinds
<1>11. CASE BeginBill(r)
  BY <1>11, BillBegins DEF Asks
<1>12. ASSUME NEW s \in Sales,
              \/ \E k \in SaleKinds : BeginFinalize(r, s, k)
              \/ BeginEdit(r, s) \/ BeginCancel(r, s) \/ BeginRemove(r, s)
       PROVE  \E k \in SaleKinds : k \notin {"convert", "bill"} /\ Begin(r, k, s, s)
  BY <1>12 DEF BeginFinalize, BeginEdit, BeginCancel, BeginRemove, SaleKinds
<1> QED BY <1>3, <1>4, <1>5, <1>6, <1>7, <1>8, <1>9, <1>10, <1>11, <1>12 DEF Begins

\* The rest of a posting step that leaves the documents alone.
LEMMA RowsKept ==
    ASSUME Types, UNCHANGED <<stock, quote, sale, ret, account>>
    PROVE  RowsOK'
BY DEF Types, RowsOK, account

LEMMA CreateTypes ==
    ASSUME Types, NEW s \in Sales, NEW c \in Carts, NEW q \in Quotations \cup {None},
           CreateDraft(s, c, q) \/ CreatePaid(s, c, q)
    PROVE  Types'
<1>1. c \in Cart /\ RowsOK /\ RequestsOK
  BY CartsAreCarts DEF Types
<1>2. RequestsOK'
  BY <1>1 DEF CreateDraft, CreatePaid, RequestsOK
<1>3. CASE CreateDraft(s, c, q)
  <2>1. NewSale(c, "DRAFT", q, FALSE) \in Sale
    BY <1>1, NewSaleType DEF SaleStatus
  <2>2. RowsOK'
    BY <1>1, <1>3, <2>1 DEF CreateDraft, RowsOK, account
  <2> QED BY <1>2, <2>2 DEF Types
<1>4. CASE CreatePaid(s, c, q)
  <2>1. NewSale(c, "COMPLETED", q, FALSE) \in Sale
    BY <1>1, NewSaleType DEF SaleStatus
  <2>2. sale' \in [Sales -> Sale] /\ ret' = ret
    BY <1>1, <1>4, <2>1 DEF CreatePaid, RowsOK
  <2>3. quote' \in [Quotations -> {"OPEN", "CONVERTED"}]
    BY <1>4, MarkTypes DEF CreatePaid
  <2>4. due \in Int
    BY <1>1 DEF RowsOK
  <2>5. /\ stock' \in Nat /\ due' \in Int
        /\ owed' \in [Sales -> Owed]
        /\ voucher' \in [Docs -> Postings]
        /\ UNCHANGED <<adjusted, entry>>
    BY <1>1, <1>4, <2>4, ApplyPostingsTypes DEF CreatePaid
  <2>6. RowsOK'
    BY <1>1, <2>2, <2>3, <2>5 DEF RowsOK
  <2> QED BY <1>2, <2>6 DEF Types
<1> QED BY <1>3, <1>4

LEMMA CreditTypes ==
    ASSUME Types, NEW r \in Requests, NEW c \in Carts, CreateOnCredit(r, c) \/ Bill(r, c)
    PROVE  Types'
<1> DEFINE s == request[r].doc
           q == request[r].quote
<1>1. c \in Cart /\ RowsOK /\ request[r] \in Request /\ About(request[r])
  BY CartsAreCarts, InFlight DEF Types
<1>2. request[r].kind \in {"credit", "bill"}
  BY DEF CreateOnCredit, Bill
<1>3. s \in Sales /\ q \in Quotations \cup {None} /\ request[r].due \in Int
  BY <1>1, <1>2 DEF About, Request, SaleKinds
<1>4. /\ \E b \in BOOLEAN : sale' = [sale EXCEPT ![s] = NewSale(c, "COMPLETED", q, b)]
      /\ MarkConverted(q) /\ ApplyPostings(s, c, request[r].due) /\ Finish(r) /\ ret' = ret
  BY DEF CreateOnCredit, Bill
<1> HIDE DEF s, q
<1>5. \A b \in BOOLEAN : NewSale(c, "COMPLETED", q, b) \in Sale
  BY <1>1, <1>3, NewSaleType DEF SaleStatus
<1>6. sale' \in [Sales -> Sale]
  BY <1>1, <1>4, <1>5 DEF RowsOK
<1>7. quote' \in [Quotations -> {"OPEN", "CONVERTED"}]
  BY <1>3, <1>4, MarkTypes
<1>8. /\ stock' \in Nat /\ due' \in Int
      /\ owed' \in [Sales -> Owed]
      /\ voucher' \in [Docs -> Postings]
      /\ UNCHANGED <<adjusted, entry>>
  BY <1>1, <1>3, <1>4, ApplyPostingsTypes
<1>9. RowsOK'
  BY <1>1, <1>4, <1>6, <1>7, <1>8 DEF RowsOK
<1>10. RequestsOK'
  BY <1>4, FinishTypes
<1> QED BY <1>9, <1>10 DEF Types

LEMMA UnlinkTypes ==
    ASSUME Types, NEW s \in Sales, UnlinkReturns(s) PROVE ret' \in [Returns -> Return]
<1>1. ret \in [Returns -> Return]
  BY DEF Types, RowsOK
<1>2. ASSUME NEW x \in Returns
      PROVE  [ret[x] EXCEPT !.linked = @ /\ x \notin OfSale(s)] \in Return
  <2>1. ret[x] \in Return
    BY <1>1
  <2>2. (ret[x].linked /\ x \notin OfSale(s)) \in BOOLEAN
    OBVIOUS
  <2> QED BY <2>1, <2>2 DEF Return
<1> QED BY <1>2 DEF UnlinkReturns

LEMMA FinalizeTypes ==
    ASSUME Types, NEW r \in Requests, NEW c \in Carts, FinalizeDraft(r, c)
    PROVE  Types'
<1> DEFINE s == request[r].doc
           q == request[r].seen.quote
<1>1. c \in Cart /\ RowsOK /\ request[r] \in Request /\ About(request[r])
  BY CartsAreCarts, InFlight DEF Types
<1>2. request[r].kind \in SaleKinds
  BY DEF FinalizeDraft, SaleKinds
<1>3. s \in Sales /\ q \in Quotations \cup {None} /\ request[r].due \in Int
  BY <1>1, <1>2 DEF About, Request, Sale
<1>4. /\ sale' = [sale EXCEPT ![s].status = "COMPLETED", ![s].qty = c.qty, ![s].paid = c.paid]
      /\ MarkConverted(q) /\ ApplyPostings(s, c, request[r].due)
      /\ UnlinkReturns(s) /\ FinishAndBreak(r, s)
  BY DEF FinalizeDraft
<1> HIDE DEF s, q
<1>5. sale' \in [Sales -> Sale]
  <2>1. sale' = [sale EXCEPT ![s] = [@ EXCEPT !.status = "COMPLETED", !.qty = c.qty,
                                              !.paid = c.paid]]
    BY <1>4
  <2>2. sale[s] \in Sale
    BY <1>1, <1>3 DEF RowsOK
  <2>3. [sale[s] EXCEPT !.status = "COMPLETED", !.qty = c.qty, !.paid = c.paid] \in Sale
    BY <1>1, <2>2 DEF Sale, SaleStatus, Cart
  <2> QED BY <1>1, <2>1, <2>3 DEF RowsOK
<1>6. quote' \in [Quotations -> {"OPEN", "CONVERTED"}]
  BY <1>3, <1>4, MarkTypes
<1>7. /\ stock' \in Nat /\ due' \in Int
      /\ owed' \in [Sales -> Owed]
      /\ voucher' \in [Docs -> Postings]
      /\ UNCHANGED <<adjusted, entry>>
  BY <1>1, <1>3, <1>4, ApplyPostingsTypes
<1>8. ret' \in [Returns -> Return]
  BY <1>3, <1>4, UnlinkTypes
<1>9. RowsOK'
  BY <1>1, <1>5, <1>6, <1>7, <1>8 DEF RowsOK
<1>10. RequestsOK'
  BY <1>3, <1>4, FinishTypes
<1> QED BY <1>9, <1>10 DEF Types

\* What an edit does to the account, when money changed.
Restates(s, c) ==
    LET held == owed[s]
        receipt == Restated(held.receipt, ExcessOf(c)) IN
    /\ owed' = [owed EXCEPT ![s] = [credit |-> DueOf(c), receipt |-> receipt]]
    /\ due' = due + DueOf(c) - ExcessOf(c) - OwedDelta(held)
    /\ \E v : /\ \/ v = voucher[s] /\ receipt = held.receipt
                 \/ v = [DropReceipt(voucher[s], held.receipt) EXCEPT !.account = MoneyLeg(receipt)]
           /\ voucher' = [voucher EXCEPT ![s] = SaleVouchers(Unposted(v), c)]
    /\ UNCHANGED <<adjusted, entry>>

LEMMA Restating ==
    ASSUME NEW s, NEW seen, NEW c, NEW retender, RestateAccount(s, seen, c, retender)
    PROVE  \/ UNCHANGED account /\ c.qty = seen.qty /\ c.paid = seen.paid
           \/ Restates(s, c)
BY DEF RestateAccount, Restates

LEMMA RestateTypes ==
    ASSUME Types, NEW s \in Sales, NEW seen \in Sale, NEW c \in Cart, NEW retender,
           RestateAccount(s, seen, c, retender)
    PROVE  /\ due' \in Int
           /\ owed' \in [Sales -> Owed]
           /\ voucher' \in [Docs -> Postings]
           /\ UNCHANGED <<adjusted, entry>>
<1>1. RowsOK
  BY DEF Types
<1>2. CASE UNCHANGED account
  BY <1>1, <1>2 DEF account, RowsOK
<1>3. CASE Restates(s, c)
  <2> DEFINE receipt == Restated(owed[s].receipt, ExcessOf(c))
             next == [credit |-> DueOf(c), receipt |-> receipt]
  <2>1. /\ owed[s] \in Owed /\ owed[s].receipt \in Entry /\ OwedDelta(owed[s]) \in Int
        /\ voucher[s] \in Postings /\ due \in Int
    BY <1>1, OwedTypes DEF RowsOK, Docs
  <2>2. DueOf(c) \in Nat /\ ExcessOf(c) \in Nat
    BY DueType DEF Cart
  <2>3. receipt \in Entry
    BY <2>1, <2>2, RowTypes
  <2>4. PICK v : /\ \/ v = voucher[s]
                    \/ v = [DropReceipt(voucher[s], owed[s].receipt)
                            EXCEPT !.account = MoneyLeg(receipt)]
                 /\ voucher' = [voucher EXCEPT ![s] = SaleVouchers(Unposted(v), c)]
    BY <1>3 DEF Restates
  <2>5. /\ owed' = [owed EXCEPT ![s] = next] /\ UNCHANGED <<adjusted, entry>>
        /\ due' = due + DueOf(c) - ExcessOf(c) - OwedDelta(owed[s])
    BY <1>3 DEF Restates
  <2> HIDE DEF receipt
  <2>6. next \in Owed
    BY <2>2, <2>3 DEF Owed
  <2>7. v \in Postings
    <3>1. DropReceipt(voucher[s], owed[s].receipt) \in Postings
      BY <2>1, RowTypes
    <3>2. \A u \in Postings : [u EXCEPT !.account = MoneyLeg(receipt)] \in Postings
      BY <2>3, RowTypes
    <3> QED BY <2>1, <2>4, <3>1, <3>2
  <2>8. SaleVouchers(Unposted(v), c) \in Postings
    BY <2>7, UnpostedType, SaleVouchersType DEF Cart
  <2> HIDE DEF next
  <2>9. owed' \in [Sales -> Owed] /\ voucher' \in [Docs -> Postings]
    BY <1>1, <2>4, <2>5, <2>6, <2>8 DEF RowsOK
  <2>10. due' \in Int
    BY <2>1, <2>2, <2>5
  <2> QED BY <2>5, <2>9, <2>10
<1> QED BY <1>2, <1>3, Restating

LEMMA UpdateTypes ==
    ASSUME Types, NEW r \in Requests, NEW c \in Carts, NEW status \in {"DRAFT"} \cup Asked,
           NEW retender \in BOOLEAN, Update(r, c, status, retender)
    PROVE  Types'
<1> DEFINE s == request[r].doc
           seen == request[r].seen
<1>1. c \in Cart /\ RowsOK /\ request[r] \in Request /\ About(request[r])
  BY CartsAreCarts, InFlight DEF Types
<1>2. request[r].kind \in SaleKinds
  BY DEF Update, SaleKinds
<1>3. s \in Sales /\ seen \in Sale /\ seen.qty \in Nat /\ status \in SaleStatus
  BY <1>1, <1>2, ConstantsAssumption DEF About, Request, Sale, SaleStatus
<1>4. /\ sale' = [sale EXCEPT ![s].qty = c.qty, ![s].paid = c.paid, ![s].status = status]
      /\ UnlinkReturns(s) /\ FinishAndBreak(r, s) /\ UNCHANGED quote
      /\ \/ UNCHANGED <<stock, account>>
         \/ /\ c.qty <= stock + seen.qty
            /\ stock' = stock + seen.qty - c.qty
            /\ RestateAccount(s, seen, c, retender)
  BY DEF Update
<1> HIDE DEF s, seen
<1>5. sale' \in [Sales -> Sale]
  <2>1. sale' = [sale EXCEPT ![s] = [@ EXCEPT !.qty = c.qty, !.paid = c.paid,
                                              !.status = status]]
    BY <1>4
  <2>2. sale[s] \in Sale
    BY <1>1, <1>3 DEF RowsOK
  <2>3. [sale[s] EXCEPT !.qty = c.qty, !.paid = c.paid, !.status = status] \in Sale
    BY <1>1, <1>3, <2>2 DEF Sale, Cart
  <2> QED BY <1>1, <2>1, <2>3 DEF RowsOK
<1>6. /\ stock' \in Nat /\ due' \in Int
      /\ owed' \in [Sales -> Owed]
      /\ voucher' \in [Docs -> Postings]
      /\ UNCHANGED <<adjusted, entry>>
  <2>1. CASE UNCHANGED <<stock, account>>
    BY <1>1, <2>1 DEF RowsOK, account
  <2>2. CASE /\ c.qty <= stock + seen.qty
             /\ stock' = stock + seen.qty - c.qty
             /\ RestateAccount(s, seen, c, retender)
    <3>1. stock' \in Nat
      BY <1>1, <1>3, <2>2 DEF RowsOK, Cart
    <3> QED BY <1>1, <1>3, <2>2, <3>1, RestateTypes
  <2> QED BY <1>4, <2>1, <2>2
<1>7. ret' \in [Returns -> Return]
  BY <1>3, <1>4, UnlinkTypes
<1>8. RowsOK'
  BY <1>1, <1>4, <1>5, <1>6, <1>7 DEF RowsOK
<1>9. RequestsOK'
  BY <1>3, <1>4, FinishTypes
<1> QED BY <1>8, <1>9 DEF Types

LEMMA UndoTypes ==
    ASSUME Types, NEW r \in Requests, Cancel(r) \/ Remove(r) PROVE Types'
<1> DEFINE s == request[r].doc
           seen == request[r].seen
<1>1. RowsOK /\ request[r] \in Request /\ About(request[r])
  BY InFlight DEF Types
<1>2. request[r].kind \in SaleKinds
  BY DEF Cancel, Remove, SaleKinds
<1>3. s \in Sales /\ seen \in Sale
  BY <1>1, <1>2 DEF About, Request
<1>4. UNCHANGED <<stock, account>> \/ Reverse(s, seen)
  BY DEF Cancel, Remove
<1>5. quote' = quote /\ (Finish(r) \/ FinishAndBreak(r, s))
  BY DEF Cancel, Remove
<1>6. /\ stock' \in Nat /\ due' \in Int
      /\ owed' \in [Sales -> Owed]
      /\ voucher' \in [Docs -> Postings]
      /\ UNCHANGED <<adjusted, entry>>
  <2>1. CASE UNCHANGED <<stock, account>>
    BY <1>1, <2>1 DEF RowsOK, account
  <2>2. CASE Reverse(s, seen)
    BY <1>3, <2>2, ReverseTypes
  <2> QED BY <1>4, <2>1, <2>2
<1>7. sale' \in [Sales -> Sale] /\ ret' \in [Returns -> Return]
  <2>1. sale[s] \in Sale
    BY <1>1, <1>3 DEF RowsOK
  <2>2. CASE Cancel(r)
    <3>1. [sale[s] EXCEPT !.status = "CANCELLED"] \in Sale
      BY <2>1 DEF Sale, SaleStatus
    <3>2. sale' = [sale EXCEPT ![s] = [@ EXCEPT !.status = "CANCELLED"]] /\ ret' = ret
      BY <2>2 DEF Cancel
    <3> QED BY <1>1, <3>1, <3>2 DEF RowsOK
  <2>3. CASE Remove(r)
    <3>1. [NoSale EXCEPT !.status = "GONE"] \in Sale
      BY NothingTypes DEF Sale, SaleStatus
    <3>2. sale' = [sale EXCEPT ![s] = [NoSale EXCEPT !.status = "GONE"]]
      BY <2>3 DEF Remove
    <3>3. ASSUME NEW x \in Returns
          PROVE  [ret[x] EXCEPT !.sale = None, !.linked = FALSE] \in Return
      <4>1. ret[x] \in Return
        BY <1>1 DEF RowsOK
      <4> QED BY <4>1 DEF Return
    <3>4. ret' \in [Returns -> Return]
      BY <1>1, <2>3, <3>3 DEF Remove, RowsOK
    <3> QED BY <1>1, <3>1, <3>2, <3>4 DEF RowsOK
  <2> QED BY <2>2, <2>3
<1>8. RowsOK'
  BY <1>1, <1>5, <1>6, <1>7 DEF RowsOK
<1>9. RequestsOK'
  BY <1>3, <1>5, FinishTypes
<1> QED BY <1>8, <1>9 DEF Types

LEMMA RefundTypes ==
    ASSUME NEW n \in Int, NEW q \in 1..n, NEW refund, refund \in Refunds(q)
    PROVE  /\ refund \in Return /\ refund.status = "KEPT" /\ refund.qty = q /\ q \in Nat \ {0}
           /\ refund.refunded <= q /\ refund.tendered \in Tendered /\ refund.linked
<1> DEFINE sent(m, t) == [status |-> "KEPT", sale |-> None, qty |-> q, refunded |-> m,
                          tendered |-> t, linked |-> TRUE]
<1>0. refund \in {sent(m, t) : m \in 0..q, t \in Tendered}
  BY DEF Refunds
<1>1. PICK m \in 0..q, t \in Tendered : refund = sent(m, t)
  <2> HIDE DEF sent
  <2> QED BY <1>0
<1>2. t \in BOOLEAN /\ q \in Nat /\ m \in Nat /\ q > 0 /\ m <= q
  BY ConstantsAssumption
<1>3. /\ refund.status = "KEPT" /\ refund.qty = q /\ refund.refunded = m
      /\ refund.tendered = t /\ refund.linked
  BY <1>1
<1>4. refund \in Return
  BY <1>1, <1>2 DEF Return
<1> QED BY <1>2, <1>3, <1>4

LEMMA SettleTypes ==
    ASSUME Types, NEW x \in Returns, NEW seen \in Sale, NEW row \in Return,
           NEW read \in Int, NEW held \in Int, Settle(x, seen, row, read, held)
    PROVE  /\ due' \in Int /\ adjusted' \in [Returns -> Int]
           /\ voucher' \in [Docs -> Postings] /\ UNCHANGED <<owed, entry>>
<1> DEFINE onCredit == DueOf(seen) > 0
           taken == IF row.tendered THEN row.qty - row.refunded
                    ELSE IF onCredit THEN Clamp(read, row.qty) ELSE 0
<1>1. RowsOK
  BY DEF Types
<1>2. row.qty \in Nat /\ row.refunded \in Nat
  BY DEF Return
<1>3. taken \in Int
  BY <1>2 DEF Clamp
<1>4. /\ due' = IF taken > 0 THEN read - taken ELSE held
      /\ adjusted' = [adjusted EXCEPT ![x] = -taken]
      /\ UNCHANGED <<owed, entry>>
  BY DEF Settle
<1>5. due' \in Int /\ adjusted' \in [Returns -> Int]
  <2> HIDE DEF taken
  <2> QED BY <1>1, <1>3, <1>4 DEF RowsOK
<1>6. "main" \in Legs
  BY DEF Legs
<1>7. /\ ReturnVouchers(row.qty, row.refunded) \in Postings
      /\ Post(NoVouchers, "main", -row.qty, 0) \in Postings
      /\ Post(NoVouchers, "main", 0, -row.qty) \in Postings
  <2>1. -row.qty \in Int /\ 0 \in Int /\ NoVouchers \in Postings
    BY <1>2, NothingTypes
  <2>2. Post(NoVouchers, "main", -row.qty, 0) \in Postings
    BY <1>6, <2>1, PostType
  <2>3. Post(NoVouchers, "main", 0, -row.qty) \in Postings
    BY <1>6, <2>1, PostType
  <2> QED BY <1>2, <2>2, <2>3, ReturnVouchersType
<1>8. voucher' \in [Docs -> Postings]
  <2>1. \E v \in Postings : voucher' = [voucher EXCEPT ![x] = v]
    BY <1>7 DEF Settle
  <2> QED BY <1>1, <2>1 DEF RowsOK
<1> QED BY <1>4, <1>5, <1>8

LEMMA SaveReturnTypes ==
    ASSUME Types, NEW r \in Requests, NEW q \in 1..request[r].open, NEW refund \in Refunds(q),
           SaveReturn(r, refund)
    PROVE  Types'
<1> DEFINE x == request[r].doc
           seen == request[r].seen
           row == [refund EXCEPT !.sale = request[r].on]
<1>1. RowsOK /\ request[r] \in Request /\ About(request[r])
  BY InFlight DEF Types
<1>2. x \in Returns /\ seen \in Sale /\ request[r].open \in Int /\ request[r].on \in Sales
  BY <1>1 DEF SaveReturn, About, Request, ReturnKinds
<1>3. refund \in Return
  BY <1>2, RefundTypes
<1>4. row \in Return
  BY <1>2, <1>3 DEF Return
<1>5. /\ ret' = [ret EXCEPT ![x] = row] /\ stock' = stock + row.qty
      /\ Settle(x, seen, row, due, due) /\ Finish(r) /\ UNCHANGED <<quote, sale>>
  BY DEF SaveReturn
<1> HIDE DEF x, seen, row
<1>6. due \in Int /\ stock \in Nat /\ row.qty \in Nat
  BY <1>1, <1>4 DEF RowsOK, Return
<1>7. /\ due' \in Int /\ adjusted' \in [Returns -> Int]
      /\ voucher' \in [Docs -> Postings] /\ UNCHANGED <<owed, entry>>
  BY <1>2, <1>4, <1>5, <1>6, SettleTypes
<1>8. stock' \in Nat /\ ret' \in [Returns -> Return]
  <2>1. stock' \in Nat
    BY <1>5, <1>6
  <2>2. ret \in [Returns -> Return]
    BY <1>1 DEF RowsOK
  <2> QED BY <1>4, <1>5, <2>1, <2>2
<1>9. RowsOK'
  BY <1>1, <1>5, <1>7, <1>8 DEF RowsOK
<1>10. RequestsOK'
  BY <1>5, FinishTypes
<1> QED BY <1>9, <1>10 DEF Types

LEMMA EditReturnTypes ==
    ASSUME Types, NEW r \in Requests, NEW q \in 1..request[r].open, NEW refund \in Refunds(q),
           EditReturn(r, refund)
    PROVE  Types'
<1> DEFINE x == request[r].doc
           old == request[r].row
           keepsLines == old.linked /\ refund.qty = old.qty
           net == adjusted[x]
           unwound == IF net = 0 THEN due ELSE request[r].due - net
           read == IF net = 0 /\ refund.qty = old.qty THEN request[r].due ELSE unwound
           row == [refund EXCEPT !.sale = ret[x].sale,
                                 !.linked = ret[x].linked \/ ~keepsLines]
<1>1. RowsOK /\ request[r] \in Request /\ About(request[r]) /\ request[r].kind = "editReturn"
  BY InFlight DEF Types, EditReturn
<1>2. /\ x \in Returns /\ request[r].seen \in Sale /\ request[r].open \in Int
      /\ old \in Return /\ request[r].due \in Int
  BY <1>1 DEF About, Request, ReturnKinds
<1>3. refund \in Return /\ refund.qty \in Nat /\ old.qty \in Nat
  BY <1>2, RefundTypes DEF Return
<1>4. row \in Return
  <2>1. ret[x].sale \in Sales \cup {None} /\ (ret[x].linked \/ ~keepsLines) \in BOOLEAN
    BY <1>1, <1>2 DEF RowsOK, Return
  <2> QED BY <1>3, <2>1 DEF Return
<1>5. net \in Int /\ due \in Int /\ stock \in Nat
  BY <1>1, <1>2 DEF RowsOK
<1>6. unwound \in Int /\ read \in Int
  BY <1>2, <1>5
<1>7. Finish(r) /\ UNCHANGED <<quote, sale>>
  BY DEF EditReturn
<1>8. \/ UNCHANGED <<stock, ret, account>>
      \/ /\ \/ stock' = stock
            \/ /\ old.qty <= stock
               /\ stock' = stock - old.qty + refund.qty
         /\ Settle(x, request[r].seen, row, read, unwound)
         /\ ret' = [ret EXCEPT ![x] = row]
  BY DEF EditReturn
<1> HIDE DEF x, old, row, net, unwound, read, keepsLines
<1>9. RowsOK'
  <2>1. CASE UNCHANGED <<stock, ret, account>>
    BY <1>1, <1>7, <2>1 DEF RowsOK, account
  <2>2. CASE /\ \/ stock' = stock
                \/ /\ old.qty <= stock
                   /\ stock' = stock - old.qty + refund.qty
             /\ Settle(x, request[r].seen, row, read, unwound)
             /\ ret' = [ret EXCEPT ![x] = row]
    <3>1. stock' \in Nat
      BY <1>3, <1>5, <2>2
    <3>2. ret' \in [Returns -> Return]
      BY <1>1, <1>4, <2>2 DEF RowsOK
    <3>3. /\ due' \in Int /\ adjusted' \in [Returns -> Int]
          /\ voucher' \in [Docs -> Postings] /\ UNCHANGED <<owed, entry>>
      BY <1>2, <1>4, <1>6, <2>2, SettleTypes
    <3> QED BY <1>1, <1>7, <3>1, <3>2, <3>3 DEF RowsOK
  <2> QED BY <1>8, <2>1, <2>2
<1>10. RequestsOK'
  BY <1>7, FinishTypes
<1> QED BY <1>9, <1>10 DEF Types

LEMMA UnreturnTypes ==
    ASSUME Types, NEW r \in Requests, Unreturn(r) PROVE Types'
<1> DEFINE x == request[r].doc
<1>1. RowsOK /\ request[r] \in Request /\ About(request[r]) /\ request[r].kind = "unreturn"
  BY InFlight DEF Types, Unreturn
<1>2. x \in Returns /\ request[r].due \in Int /\ request[r].row \in Return
  BY <1>1 DEF About, Request, ReturnKinds
<1>3. request[r].row.qty \in Nat
  BY <1>2 DEF Return
<1>4. [NoReturn EXCEPT !.status = "GONE"] \in Return
  BY NothingTypes DEF Return
<1>5. stock' \in Nat /\ due' \in Int
  BY <1>1, <1>2, <1>3 DEF Unreturn, RowsOK
<1>6. adjusted' \in [Returns -> Int] /\ ret' \in [Returns -> Return]
  <2> DEFINE gone == [NoReturn EXCEPT !.status = "GONE"]
  <2>1. adjusted' = [adjusted EXCEPT ![x] = 0] /\ ret' = [ret EXCEPT ![x] = gone]
    BY DEF Unreturn
  <2>2. adjusted \in [Returns -> Int] /\ ret \in [Returns -> Return] /\ gone \in Return
    BY <1>1, <1>4 DEF RowsOK
  <2> HIDE DEF x, gone
  <2>3. adjusted' \in [Returns -> Int]
    BY <1>2, <2>1, <2>2
  <2>4. ret' \in [Returns -> Return]
    BY <1>2, <2>1, <2>2
  <2> QED BY <2>3, <2>4
<1>7. voucher' \in [Docs -> Postings]
  BY <1>1, NothingTypes DEF Unreturn, RowsOK
<1>8. RowsOK'
  BY <1>1, <1>5, <1>6, <1>7 DEF Unreturn, RowsOK
<1>9. RequestsOK'
  BY FinishTypes DEF Unreturn
<1> QED BY <1>8, <1>9 DEF Types

\* The steps that write.
Creates ==
    \E s \in Sales, c \in Carts, q \in Quotations \cup {None} :
        CreateDraft(s, c, q) \/ CreatePaid(s, c, q)

WritesSale(r) ==
    \/ \E c \in Carts : CreateOnCredit(r, c) \/ Bill(r, c) \/ FinalizeDraft(r, c)
    \/ \E c \in Carts, status \in {"DRAFT"} \cup Asked, retender \in BOOLEAN :
            Update(r, c, status, retender)
    \/ Cancel(r) \/ Remove(r)

WritesReturn(r) ==
    \/ \E q \in 1..request[r].open : \E refund \in Refunds(q) :
            SaveReturn(r, refund) \/ EditReturn(r, refund)
    \/ Unreturn(r)

WritesEntry(r) ==
    \/ \E row \in [type : EntryTypes, amount : Amounts, discount : Discounts] :
            Pay(r, row) \/ WriteOff(r, row)
    \/ Unpay(r)

WritesReceipt(r) == (\E row \in ReceiptEdits : EditReceipt(r, row)) \/ Unreceipt(r)

LEMMA EntryTypesKept ==
    ASSUME Types, NEW r \in Requests, WritesEntry(r)
    PROVE  Types'
<1> DEFINE e == request[r].doc
<1>1. RowsOK /\ request[r] \in Request /\ About(request[r])
  BY InFlight DEF Types
<1>2. request[r].kind \in EntryKinds
  BY DEF WritesEntry, Pay, WriteOff, Unpay
<1>3. e \in Entries /\ e \in Docs /\ request[r].row \in Entry /\ request[r].due \in Int
  BY <1>1, <1>2 DEF About, Request, Docs
<1>4. \E row \in Entry : WriteEntry(r, e, row)
  <2>1. ASSUME Unpay(r)
        PROVE  [NoEntry EXCEPT !.type = "GONE"] \in Entry
               /\ WriteEntry(r, e, [NoEntry EXCEPT !.type = "GONE"])
    BY <2>1, NothingTypes DEF Unpay, Entry
  <2> QED BY <2>1, CartsAreCarts DEF WritesEntry, Pay, WriteOff
<1>5. PICK row \in Entry : WriteEntry(r, e, row)
  BY <1>4
<1> HIDE DEF e
<1>6. RowDelta(row) \in Int /\ RowDelta(request[r].row) \in Int
  BY <1>3, RowTypes
<1>7. due' \in Int /\ entry' \in [Entries -> Entry] /\ voucher' \in [Docs -> Postings]
  <2>1. due' \in Int
    BY <1>3, <1>5, <1>6 DEF WriteEntry
  <2>2. voucher[e] \in Postings
    BY <1>1, <1>3 DEF RowsOK
  <2>3. PaymentVouchers(voucher[e], row) \in Postings
    BY <2>2, RowTypes
  <2>4. /\ entry' = [entry EXCEPT ![e] = row]
        /\ voucher' = [voucher EXCEPT ![e] = PaymentVouchers(voucher[e], row)]
    BY <1>5 DEF WriteEntry
  <2> QED BY <1>1, <2>1, <2>3, <2>4 DEF RowsOK
<1>8. RowsOK'
  BY <1>1, <1>5, <1>7 DEF WriteEntry, RowsOK
<1>9. RequestsOK'
  BY <1>5, FinishTypes DEF WriteEntry
<1> QED BY <1>8, <1>9 DEF Types

\* What a handler of a sale's receipt writes.
LEMMA ReceiptWriters ==
    ASSUME Types, NEW r \in Requests, WritesReceipt(r)
    PROVE  /\ request[r].kind \in ReceiptKinds /\ request[r].doc \in Sales
           /\ request[r].on = request[r].doc /\ request[r].row \in Entry
           /\ \E row \in ReceiptEdits \cup {NoEntry} : WriteReceipt(r, request[r].doc, row)
<1>1. request[r].kind \in ReceiptKinds
  BY DEF WritesReceipt, EditReceipt, Unreceipt
<1>2. \E row \in ReceiptEdits \cup {NoEntry} : WriteReceipt(r, request[r].doc, row)
  BY DEF WritesReceipt, EditReceipt, Unreceipt
<1> QED BY <1>1, <1>2, InFlight DEF About

LEMMA ReceiptTypes ==
    ASSUME Types, NEW r \in Requests, WritesReceipt(r)
    PROVE  Types'
<1> DEFINE s == request[r].doc
<1>1. RowsOK /\ request[r] \in Request /\ s \in Sales /\ s \in Docs /\ request[r].row \in Entry
  BY InFlight, ReceiptWriters DEF Types, Docs
<1>2. PICK row \in ReceiptEdits \cup {NoEntry} : WriteReceipt(r, s, row)
  BY ReceiptWriters
<1>3. row \in Entry
  BY CartsAreCarts, NothingTypes
<1> HIDE DEF s
<1>4. owed[s] \in Owed /\ voucher[s] \in Postings /\ request[r].due \in Int
  BY <1>1 DEF RowsOK, Request
<1>5. due' \in Int
  BY <1>1, <1>2, <1>3, <1>4, RowTypes DEF WriteReceipt
<1>6. owed' = [owed EXCEPT ![s] = [@ EXCEPT !.receipt = row]]
  BY <1>2 DEF WriteReceipt
<1>7. [owed[s] EXCEPT !.receipt = row] \in Owed
  BY <1>3, <1>4 DEF Owed
<1>8. PaymentVouchers(voucher[s], row) \in Postings
  BY <1>3, <1>4, RowTypes
<1>9. owed' \in [Sales -> Owed] /\ voucher' \in [Docs -> Postings]
  BY <1>1, <1>2, <1>6, <1>7, <1>8 DEF WriteReceipt, RowsOK
<1>10. RowsOK'
  BY <1>1, <1>2, <1>5, <1>9 DEF WriteReceipt, RowsOK
<1>11. RequestsOK'
  BY <1>2, FinishTypes DEF WriteReceipt
<1> QED BY <1>10, <1>11 DEF Types

\* Every step begins a request, writes, or gives up.
LEMMA Steps ==
    ASSUME [Next]_vars
    PROVE  \/ Creates
           \/ \E r \in Requests : \/ Begins(r) \/ WritesSale(r) \/ WritesReturn(r)
                                  \/ WritesEntry(r) \/ WritesReceipt(r) \/ Abort(r)
           \/ UNCHANGED vars
<1>1. CASE SaleSteps
  BY <1>1 DEF SaleSteps, Creates, Begins, WritesSale
<1>2. CASE ReturnSteps
  BY <1>2 DEF ReturnSteps, Begins, WritesReturn
<1>3. CASE EntrySteps
  BY <1>3 DEF EntrySteps, Begins, WritesEntry, WritesReceipt
<1> QED BY <1>1, <1>2, <1>3 DEF Next

LEMMA StepTypes == ASSUME Types, [Next]_vars PROVE Types'
<1>1. CASE Creates
  BY <1>1, CreateTypes DEF Creates
<1>2. ASSUME NEW r \in Requests, Begins(r) PROVE Types'
  BY <1>2, BeginTypes
<1>3. ASSUME NEW r \in Requests, WritesSale(r) PROVE Types'
  BY <1>3, CreditTypes, FinalizeTypes, UpdateTypes, UndoTypes DEF WritesSale
<1>4. ASSUME NEW r \in Requests, WritesReturn(r) PROVE Types'
  BY <1>4, SaveReturnTypes, EditReturnTypes, UnreturnTypes DEF WritesReturn
<1>5. ASSUME NEW r \in Requests, WritesEntry(r) PROVE Types'
  BY <1>5, EntryTypesKept
<1>6. ASSUME NEW r \in Requests, WritesReceipt(r) PROVE Types'
  BY <1>6, ReceiptTypes
<1>7. ASSUME NEW r \in Requests, Abort(r) PROVE Types'
  BY <1>7, RowsKept, FinishTypes DEF Abort, Types
<1>8. CASE UNCHANGED vars
  BY <1>8 DEF vars, Types, RowsOK, RequestsOK
<1> QED BY <1>1, <1>2, <1>3, <1>4, <1>5, <1>6, <1>7, <1>8, Steps

LEMMA SpecTypes == Spec => []Types
<1>1. Init => Types
  BY InitTypes
<1>2. Types /\ [Next]_vars => Types'
  BY StepTypes
<1> QED BY <1>1, <1>2, PTL DEF Spec

\* The stock never goes below zero and every row keeps its type, whatever the
\* sales, returns, payments and reversals race for: every posting takes its
\* goods by an update that must find them.
THEOREM TypesHold == Spec => []TypeOK
BY SpecTypes, TypesAreTypeOK, PTL

(***************************************************************************)
(* What a request in flight may rely on.                                   *)
(***************************************************************************)
\* The environment: requests on one sale do not overlap, and an edit of a posted
\* sale does not ask for a draft.
SalesApart == OnePerSale /\ Asked \subseteq {"COMPLETED"}

\* A request that writes the due_balance it read overlaps no other.
DueAlone == ReadsDue \subseteq Alone

\* Returns are of completed sales, which are not edited afterwards.
SoldFirst == Offered \subseteq {"COMPLETED"} /\ ~EditsReturned

\* A return says how it was refunded.
Told == Tendered \subseteq {TRUE}

\* No discount is given on the receipt of an overpaid sale.
Undiscounted == \A row \in ReceiptEdits : row.discount = 0

\* The receipt of an overpaid sale is not made a payout.
StillPayments == \A row \in ReceiptEdits : row.type = "PAYMENT"

Acting(r) == request[r].kind \notin {"idle", "convert"}

\* Two requests that are at work concern different sales.
Exclusive ==
    \A q, r \in Requests :
        q # r /\ Acting(q) /\ Acting(r) /\ request[q].on # None =>
            request[q].on # request[r].on

\* The id a new sale will take is free, and no other sale is made under it.
Fresh ==
    \A r \in Requests : request[r].kind \in {"credit", "convert", "bill"} =>
        /\ sale[request[r].doc] = NoSale
        /\ \A q \in Requests \ {r} :
                request[q].kind \in SaleKinds => request[q].doc # request[r].doc

\* A handler that changes a sale still finds it as it read it.
Seen ==
    \A r \in Requests :
        LET k == request[r].kind  s == request[r].doc  seen == request[r].seen IN
        /\ k \in SaleKinds \ {"credit", "convert", "bill"} => seen = sale[s] /\ SaleExists(s)
        /\ k \in {"finalize", "finalizeOnCredit"} => seen.status = "DRAFT"
        /\ k \in {"edit", "cancel"} => seen.status # "CANCELLED"

\* A handler that writes the balance it read has it to itself.
Solo ==
    \A r \in Requests : request[r].kind \in ReadsDue =>
        /\ request[r].due = due
        /\ \A q \in Requests \ {r} : ~Acting(q)

Made(s) == sale[s].status # "NONE"

\* A handler still finds the returns, the payments and the receipt it read.
Finds(r) ==
    LET k == request[r].kind  d == request[r].doc  s == request[r].on IN
    /\ k \in {"cancel", "remove"} \/ (SoldFirst /\ k = "edit") => OfSale(s) = {}
    /\ k = "return" =>
        /\ ret[d] = NoReturn /\ Made(s) /\ request[r].open = OpenOf(s, Returns)
        /\ SoldFirst => Posted(s)
        /\ \A q \in Requests \ {r} : request[q].doc # d
    /\ k = "editReturn" =>
        /\ Keeps(d, s) /\ request[r].row = ret[d]
        /\ request[r].open = OpenOf(s, Returns \ {d})
    /\ k = "unreturn" => Keeps(d, s) /\ request[r].row = ret[d]
    /\ DueAlone /\ k \in EntryKinds => request[r].row = entry[d]
    /\ DueAlone /\ k \in ReceiptKinds => request[r].row = owed[d].receipt

Found == \A r \in Requests : Finds(r)

(***************************************************************************)
(* What the rows of each document say of one another.                      *)
(***************************************************************************)
Revenue(d) == voucher[d]["main"].ar + voucher[d]["main"].cash
              + voucher[d]["paid"].ar + voucher[d]["paid"].cash

OfInvoice(d) == voucher[d]["main"].ar + voucher[d]["paid"].ar

\* What a receipt can be, and the vouchers it leaves: its money, its discount, and
\* what receipts before it left.
Fits(row) ==
    /\ StillPayments => row.type \in {"NONE", "PAYMENT"}
    /\ Undiscounted => row.discount = 0

ReceiptBooks(row, v) ==
    /\ Fits(row) /\ v["account"].ar = MoneyDelta(row)
    /\ row = NoEntry => v["account"] = Blank /\ v["discount"] = Blank
    /\ StillPayments => v["stray"] = Blank
    /\ Undiscounted => v["discount"].ar = 0

SaleRow(s) ==
    /\ OfInvoice(s) = owed[s].credit
    /\ Revenue(s) = IF Posted(s) THEN sale[s].qty ELSE 0
    /\ ReceiptBooks(owed[s].receipt, voucher[s])
    /\ ~Posted(s) => /\ owed[s] = NoOwed
                     /\ voucher[s]["main"] = Blank /\ voucher[s]["paid"] = Blank

ReturnRow(x) ==
    /\ voucher[x]["account"].ar = 0 /\ voucher[x]["discount"].ar = 0 /\ voucher[x]["stray"].ar = 0
    /\ Told => OfInvoice(x) = adjusted[x]
    /\ Revenue(x) = IF Kept(x) THEN -ret[x].qty ELSE 0
    /\ Kept(x) => ret[x].sale \in Sales /\ Made(ret[x].sale)
    /\ SoldFirst /\ Kept(x) => Posted(ret[x].sale) /\ ret[x].linked
    /\ ~Kept(x) => ret[x].sale = None /\ adjusted[x] = 0

EntryRow(e) ==
    /\ voucher[e]["main"].ar = 0 /\ voucher[e]["paid"].ar = 0 /\ voucher[e]["stray"].ar = 0
    /\ Receivable(e) = RowDelta(entry[e])

Rows ==
    /\ \A s \in Sales : SaleRow(s)
    /\ \A x \in Returns : ReturnRow(x)
    /\ \A e \in Entries : EntryRow(e)

(***************************************************************************)
(* Steps.                                                                  *)
(***************************************************************************)
\* A new request, or one that goes from convert to bill, and what it has seen.
NewRequest(r) ==
    LET k == request'[r].kind  d == request'[r].doc  s == request'[r].on
        seen == request'[r].seen  open == request'[r].open  row == request'[r].row IN
    /\ Admitted(r, k, s)
    /\ \A p \in Requests \ {r} : request'[p] = request[p]
    /\ k \in Kinds /\ request'[r].due = IF k \in ReadsDue THEN due ELSE 0
    /\ k = "bill" => request[r].kind = "convert" /\ d = request[r].doc
    /\ k # "bill" => ~Busy(r)
    /\ k \in {"credit", "convert"} => sale[d] = NoSale /\ Unused(d)
    /\ k \in SaleKinds \ {"credit", "convert", "bill"} => seen = sale[d] /\ SaleExists(d)
    /\ k \in {"finalize", "finalizeOnCredit"} => sale[d].status = "DRAFT"
    /\ k \in {"edit", "cancel"} => sale[d].status # "CANCELLED"
    /\ k \in {"edit", "cancel", "remove"} => (k = "edit" /\ EditsReturned) \/ OfSale(d) = {}
    /\ k = "return" => /\ ret[d] = NoReturn /\ Unused(d) /\ open = OpenOf(s, Returns)
                       /\ sale[s].status \in Offered /\ Made(s)
    /\ k = "editReturn" => /\ Keeps(d, s) /\ row = ret[d] /\ open = OpenOf(s, Returns \ {d})
    /\ k = "unreturn" => Kept(d) /\ row = ret[d] /\ s = ret[d].sale
    /\ k \in EntryKinds => row = entry[d]
    /\ k \in ReceiptKinds => row = owed[d].receipt

LEMMA Started ==
    ASSUME Types, NEW r \in Requests, NEW k, NEW d, NEW s, NEW seen, NEW row, NEW open, NEW q,
           NEW req, Asks(req, k, d, s, seen, row, open, q), Start(r, req)
    PROVE  /\ Admitted(r, k, s)
           /\ \A p \in Requests \ {r} : request'[p] = request[p]
           /\ request'[r].kind = k /\ request'[r].doc = d /\ request'[r].on = s
           /\ request'[r].seen = seen /\ request'[r].row = row /\ request'[r].open = open
           /\ request'[r].due = IF k \in ReadsDue THEN due ELSE 0
<1> DEFINE new == [req EXCEPT !.due = IF req.kind \in ReadsDue THEN due ELSE 0]
<1>1. req \in Request /\ req.kind = k
  BY DEF Asks
<1>2. /\ new.kind = req.kind /\ new.doc = req.doc /\ new.on = req.on /\ new.seen = req.seen
      /\ new.row = req.row /\ new.open = req.open
      /\ new.due = IF k \in ReadsDue THEN due ELSE 0
  BY <1>1 DEF Request
<1>3. request' = [request EXCEPT ![r] = new] /\ Admitted(r, k, req.on)
  BY <1>1 DEF Start
<1>4. request \in [Requests -> Request]
  BY DEF Types, RequestsOK
<1> HIDE DEF new
<1>5. request'[r] = new /\ \A p \in Requests \ {r} : request'[p] = request[p]
  BY <1>3, <1>4
<1> QED BY <1>2, <1>3, <1>5 DEF Asks

LEMMA Begun == ASSUME Types, NEW r \in Requests, Begins(r) PROVE NewRequest(r)
<1>1. ASSUME NEW s \in Sales, NEW q \in Quotations \cup {None}, BeginCreate(r, s, q)
      PROVE  NewRequest(r)
  <2>1. PICK req : Asks(req, "credit", s, s, NoSale, None, 0, q) /\ Start(r, req)
    BY <1>1, SaleBegins
  <2> HIDE DEF Asks, Start
  <2>2. sale[s] = NoSale /\ Unused(s) /\ ~Busy(r)
    BY <1>1 DEF BeginCreate
  <2> QED BY <2>1, <2>2, Started DEF NewRequest, Kinds, SaleKinds
<1>2. ASSUME NEW s \in Sales, NEW q \in Quotations, Select(r, s, q) PROVE NewRequest(r)
  <2>1. PICK req : Asks(req, "convert", s, s, NoSale, None, 0, q) /\ Start(r, req)
    BY <1>2, SaleBegins
  <2>2. sale[s] = NoSale /\ Unused(s) /\ ~Busy(r)
    BY <1>2 DEF Select
  <2> QED BY <2>1, <2>2, Started DEF NewRequest, Kinds, SaleKinds
<1>3. ASSUME NEW s \in Sales, NEW k \in {"finalize", "finalizeOnCredit", "edit", "cancel", "remove"},
             Begin(r, k, s, s), SaleExists(s),
             k \in {"finalize", "finalizeOnCredit"} => sale[s].status = "DRAFT",
             k \in {"edit", "cancel"} => sale[s].status # "CANCELLED",
             k \in {"edit", "cancel", "remove"} => (k = "edit" /\ EditsReturned) \/ OfSale(s) = {}
      PROVE  NewRequest(r)
  <2>1. PICK req : Asks(req, k, s, s, sale[s], None, 0, None) /\ Start(r, req)
    BY <1>3, SaleBegins DEF SaleKinds
  <2>2. ~Busy(r)
    BY <1>3 DEF Begin
  <2> QED BY <1>3, <2>1, <2>2, Started DEF NewRequest, Kinds, SaleKinds
<1>4. ASSUME NEW s \in Sales, NEW k \in SaleKinds, BeginFinalize(r, s, k) PROVE NewRequest(r)
  BY <1>3, <1>4 DEF BeginFinalize, SaleExists
<1>5. ASSUME NEW s \in Sales, BeginEdit(r, s) \/ BeginCancel(r, s) \/ BeginRemove(r, s)
      PROVE  NewRequest(r)
  BY <1>3, <1>5 DEF BeginEdit, BeginCancel, BeginRemove
<1>6. CASE BeginBill(r)
  <2>1. PICK req : /\ Asks(req, "bill", request[r].doc, request[r].on, request[r].seen,
                           request[r].row, request[r].open, request[r].quote)
                   /\ Start(r, req)
    BY <1>6, BillBegins
  <2>2. request[r].kind = "convert"
    BY <1>6, BillBegins
  <2> QED BY <2>1, <2>2, Started DEF NewRequest, Kinds, SaleKinds
<1>7. ASSUME NEW x \in Returns, NEW s \in Sales, BeginReturn(r, x, s) PROVE NewRequest(r)
  <2>1. PICK req : /\ Asks(req, "return", x, s, sale[s], None, OpenOf(s, Returns), None)
                   /\ Start(r, req)
    BY <1>7, ReturnBegins
  <2>2. ret[x] = NoReturn /\ Unused(x) /\ ~Busy(r) /\ sale[s].status \in Offered /\ Made(s)
    BY <1>7 DEF BeginReturn, SaleExists, Made
  <2> QED BY <2>1, <2>2, Started DEF NewRequest, Kinds, SaleKinds, ReturnKinds
<1>8. ASSUME NEW x \in Returns, BeginEditReturn(r, x) PROVE NewRequest(r)
  <2>1. PICK req : /\ Asks(req, "editReturn", x, ret[x].sale, sale[ret[x].sale], ret[x],
                           OpenOf(ret[x].sale, Returns \ {x}), None)
                   /\ Start(r, req)
    BY <1>8, ReturnBegins
  <2>2. Keeps(x, ret[x].sale) /\ ~Busy(r)
    BY <1>8 DEF BeginEditReturn, Keeps
  <2> QED BY <2>1, <2>2, Started DEF NewRequest, Kinds, SaleKinds, ReturnKinds
<1>9. ASSUME NEW x \in Returns, BeginUnreturn(r, x) PROVE NewRequest(r)
  <2>1. PICK req : /\ Asks(req, "unreturn", x, ret[x].sale, NoSale, ret[x], 0, None)
                   /\ Start(r, req)
    BY <1>9, ReturnBegins
  <2>2. Kept(x) /\ ~Busy(r)
    BY <1>9 DEF BeginUnreturn, Kept
  <2> QED BY <2>1, <2>2, Started DEF NewRequest, Kinds, SaleKinds, ReturnKinds
<1>10. ASSUME NEW e \in Entries, NEW k \in EntryKinds, BeginEntry(r, k, e)
       PROVE  NewRequest(r)
  <2>1. PICK req : Asks(req, k, e, None, NoSale, entry[e], 0, None) /\ Start(r, req)
    BY <1>10, EntryBegins
  <2>2. ~Busy(r)
    BY <1>10 DEF BeginEntry
  <2> QED BY <2>1, <2>2, Started DEF NewRequest, Kinds, SaleKinds, ReturnKinds
<1>11. ASSUME NEW s \in Sales, NEW k \in ReceiptKinds, BeginReceipt(r, k, s)
       PROVE  NewRequest(r)
  <2>1. PICK req : Asks(req, k, s, s, NoSale, owed[s].receipt, 0, None) /\ Start(r, req)
    BY <1>11, EntryBegins
  <2>2. ~Busy(r)
    BY <1>11 DEF BeginReceipt
  <2> QED BY <2>1, <2>2, Started DEF NewRequest, Kinds, SaleKinds, ReturnKinds
<1> QED BY <1>1, <1>2, <1>4, <1>5, <1>6, <1>7, <1>8, <1>9, <1>10, <1>11 DEF Begins

\* A request that writes or gives up is over; the others go on, or are thrown
\* out with it.
Ends(r) ==
    /\ request'[r] = Idle
    /\ \A q \in Requests : request'[q] = Idle \/ request'[q] = request[q]

LEMMA WritersEnd ==
    ASSUME Types, NEW r \in Requests,
           WritesSale(r) \/ WritesReturn(r) \/ WritesEntry(r) \/ WritesReceipt(r) \/ Abort(r)
    PROVE  Ends(r)
<1>1. request \in [Requests -> Request]
  BY DEF Types, RequestsOK
<1>2. ASSUME Finish(r) PROVE Ends(r)
  BY <1>1, <1>2 DEF Finish, Ends
<1>3. ASSUME NEW s, FinishAndBreak(r, s) PROVE Ends(r)
  BY <1>1, <1>3 DEF FinishAndBreak, Ends
<1>4. Finish(r) \/ \E s : FinishAndBreak(r, s)
  <2>1. CASE WritesSale(r)
    BY <2>1 DEF WritesSale, CreateOnCredit, Bill, FinalizeDraft, Update, Cancel, Remove
  <2>2. CASE WritesReturn(r)
    BY <2>2 DEF WritesReturn, SaveReturn, EditReturn, Unreturn
  <2>3. CASE WritesEntry(r)
    BY <2>3 DEF WritesEntry, Pay, WriteOff, Unpay, WriteEntry
  <2>4. CASE WritesReceipt(r) \/ Abort(r)
    BY <2>4 DEF WritesReceipt, EditReceipt, Unreceipt, WriteReceipt, Abort
  <2> QED BY <2>1, <2>2, <2>3, <2>4
<1> QED BY <1>2, <1>3, <1>4

\* A handler of a sale writes no other sale, and quotations only forward.
LEMMA SaleWriters ==
    ASSUME Types, NEW r \in Requests, WritesSale(r)
    PROVE  /\ request[r].kind \in SaleKinds \ {"convert"}
           /\ request[r].doc \in Sales /\ request[r].on = request[r].doc
           /\ \A t \in Sales \ {request[r].doc} : sale'[t] = sale[t]
           /\ \A q \in Quotations : quote[q] = "CONVERTED" => quote'[q] = "CONVERTED"
<1>1. request[r].kind \in SaleKinds \ {"convert"}
  BY DEF WritesSale, CreateOnCredit, Bill, FinalizeDraft, Update, Cancel, Remove, SaleKinds
<1>2. request[r].doc \in Sales /\ request[r].on = request[r].doc
  BY <1>1, InFlight DEF About
<1>3. sale \in [Sales -> Sale] /\ quote \in [Quotations -> {"OPEN", "CONVERTED"}]
  BY DEF Types, RowsOK
<1>4. \/ \E q : MarkConverted(q)
      \/ quote' = quote
  BY DEF WritesSale, CreateOnCredit, Bill, FinalizeDraft, Update, Cancel, Remove
<1>5. \A q \in Quotations : quote[q] = "CONVERTED" => quote'[q] = "CONVERTED"
  BY <1>3, <1>4 DEF MarkConverted
<1>6. \E row : sale' = [sale EXCEPT ![request[r].doc] = row]
  <2>1. ASSUME NEW c \in Carts, CreateOnCredit(r, c) \/ Bill(r, c)
        PROVE  \E row : sale' = [sale EXCEPT ![request[r].doc] = row]
    BY <2>1 DEF CreateOnCredit, Bill
  <2>2. ASSUME NEW c \in Carts, FinalizeDraft(r, c)
        PROVE  sale' = [sale EXCEPT ![request[r].doc] =
                    [@ EXCEPT !.status = "COMPLETED", !.qty = c.qty, !.paid = c.paid]]
    BY <2>2 DEF FinalizeDraft
  <2>3. ASSUME NEW c \in Carts, NEW status, NEW b \in BOOLEAN, Update(r, c, status, b)
        PROVE  sale' = [sale EXCEPT ![request[r].doc] =
                    [@ EXCEPT !.qty = c.qty, !.paid = c.paid, !.status = status]]
    BY <2>3 DEF Update
  <2>4. ASSUME Cancel(r)
        PROVE  sale' = [sale EXCEPT ![request[r].doc] = [@ EXCEPT !.status = "CANCELLED"]]
    BY <2>4 DEF Cancel
  <2>5. ASSUME Remove(r)
        PROVE  sale' = [sale EXCEPT ![request[r].doc] = [NoSale EXCEPT !.status = "GONE"]]
    BY <2>5 DEF Remove
  <2> QED BY <2>1, <2>2, <2>3, <2>4, <2>5 DEF WritesSale
<1>7. \A t \in Sales \ {request[r].doc} : sale'[t] = sale[t]
  BY <1>3, <1>6
<1> QED BY <1>1, <1>2, <1>5, <1>7

\* The other handlers write no sale and no quotation.
LEMMA OtherWriters ==
    ASSUME NEW r \in Requests,
           WritesReturn(r) \/ WritesEntry(r) \/ WritesReceipt(r) \/ Abort(r)
    PROVE  sale' = sale /\ quote' = quote
<1>1. CASE WritesReturn(r)
  BY <1>1 DEF WritesReturn, SaveReturn, EditReturn, Unreturn
<1>2. CASE WritesEntry(r)
  BY <1>2 DEF WritesEntry, Pay, WriteOff, Unpay, WriteEntry
<1>3. CASE WritesReceipt(r) \/ Abort(r)
  BY <1>3 DEF WritesReceipt, EditReceipt, Unreceipt, WriteReceipt, Abort
<1> QED BY <1>1, <1>2, <1>3

\* A sale made in one step takes a free id.
LEMMA Creators ==
    ASSUME Types, NEW s \in Sales, NEW c \in Carts, NEW q \in Quotations \cup {None},
           CreateDraft(s, c, q) \/ CreatePaid(s, c, q)
    PROVE  /\ sale[s] = NoSale /\ Unused(s) /\ ~sale'[s].batch
           /\ \A t \in Sales \ {s} : sale'[t] = sale[t]
           /\ \A p \in Quotations : quote[p] = "CONVERTED" => quote'[p] = "CONVERTED"
           /\ request' = request
<1>1. sale \in [Sales -> Sale] /\ quote \in [Quotations -> {"OPEN", "CONVERTED"}]
  BY DEF Types, RowsOK
<1>2. \E status : sale' = [sale EXCEPT ![s] = NewSale(c, status, q, FALSE)]
  BY DEF CreateDraft, CreatePaid
<1>3. ~sale'[s].batch /\ \A t \in Sales \ {s} : sale'[t] = sale[t]
  BY <1>1, <1>2 DEF NewSale
<1>4. quote' = quote \/ MarkConverted(q)
  BY DEF CreateDraft, CreatePaid
<1>5. \A p \in Quotations : quote[p] = "CONVERTED" => quote'[p] = "CONVERTED"
  BY <1>1, <1>4 DEF MarkConverted
<1> QED BY <1>3, <1>5 DEF CreateDraft, CreatePaid

(***************************************************************************)
(* Batches.                                                                *)
(***************************************************************************)
\* A sale a batch made has its quotation, and that one is converted.
Claimed ==
    \A s \in Sales : sale[s].batch =>
        sale[s].quote \in Quotations /\ quote[sale[s].quote] = "CONVERTED"

\* Apart from Bill, no handler makes a sale a batch's or changes its quotation.
LEMMA BatchesKept ==
    ASSUME Types, NEW r \in Requests, WritesSale(r), \A c \in Carts : ~Bill(r, c)
    PROVE  LET s == request[r].doc IN
           sale'[s].batch => sale[s].batch /\ sale'[s].quote = sale[s].quote
<1> DEFINE s == request[r].doc
<1>1. sale \in [Sales -> Sale] /\ s \in Sales
  BY SaleWriters DEF Types, RowsOK
<1>2. sale[s] \in Sale
  BY <1>1
<1>3. ASSUME NEW c \in Carts, CreateOnCredit(r, c) PROVE ~sale'[s].batch
  BY <1>1, <1>3 DEF CreateOnCredit, NewSale
<1>4. ASSUME NEW c \in Carts, FinalizeDraft(r, c)
      PROVE  sale'[s].batch = sale[s].batch /\ sale'[s].quote = sale[s].quote
  <2>1. sale' = [sale EXCEPT ![s] = [@ EXCEPT !.status = "COMPLETED", !.qty = c.qty,
                                              !.paid = c.paid]]
    BY <1>4 DEF FinalizeDraft
  <2> HIDE DEF s
  <2>2. sale'[s] = [sale[s] EXCEPT !.status = "COMPLETED", !.qty = c.qty, !.paid = c.paid]
    BY <1>1, <2>1
  <2> QED BY <1>2, <2>2 DEF Sale
<1>5. ASSUME NEW c \in Carts, NEW status, NEW b \in BOOLEAN, Update(r, c, status, b)
      PROVE  sale'[s].batch = sale[s].batch /\ sale'[s].quote = sale[s].quote
  <2>1. sale' = [sale EXCEPT ![s] = [@ EXCEPT !.qty = c.qty, !.paid = c.paid,
                                              !.status = status]]
    BY <1>5 DEF Update
  <2> HIDE DEF s
  <2>2. sale'[s] = [sale[s] EXCEPT !.qty = c.qty, !.paid = c.paid, !.status = status]
    BY <1>1, <2>1
  <2> QED BY <1>2, <2>2 DEF Sale
<1>6. ASSUME Cancel(r)
      PROVE  sale'[s].batch = sale[s].batch /\ sale'[s].quote = sale[s].quote
  <2>1. sale' = [sale EXCEPT ![s] = [@ EXCEPT !.status = "CANCELLED"]]
    BY <1>6 DEF Cancel
  <2> HIDE DEF s
  <2>2. sale'[s] = [sale[s] EXCEPT !.status = "CANCELLED"]
    BY <1>1, <2>1
  <2> QED BY <1>2, <2>2 DEF Sale
<1>7. ASSUME Remove(r) PROVE ~sale'[s].batch
  BY <1>1, <1>7 DEF Remove, NoSale
<1> QED BY <1>3, <1>4, <1>5, <1>6, <1>7 DEF WritesSale

LEMMA StepBilled ==
    ASSUME Types, Claimed, BilledOnceByBatch, [Next]_vars
    PROVE  Claimed' /\ BilledOnceByBatch'
<1>1. ASSUME \A s \in Sales : sale'[s].batch => sale[s].batch /\ sale'[s].quote = sale[s].quote,
             \A q \in Quotations : quote[q] = "CONVERTED" => quote'[q] = "CONVERTED"
      PROVE  Claimed' /\ BilledOnceByBatch'
  BY <1>1 DEF Claimed, BilledOnceByBatch
<1>2. CASE Creates
  BY <1>1, <1>2, Creators DEF Creates
<1>3. ASSUME NEW r \in Requests, Begins(r) PROVE Claimed' /\ BilledOnceByBatch'
  BY <1>1, <1>3, BeginTypes
<1>4. ASSUME NEW r \in Requests, NEW c \in Carts, Bill(r, c)
      PROVE  Claimed' /\ BilledOnceByBatch'
  <2> DEFINE s == request[r].doc
             q == request[r].quote
  <2>1. sale \in [Sales -> Sale] /\ quote \in [Quotations -> {"OPEN", "CONVERTED"}]
    BY DEF Types, RowsOK
  <2>2. s \in Sales /\ q \in Quotations /\ q # None
    <3>1. About(request[r]) /\ request[r].kind = "bill"
      BY <1>4, InFlight DEF Bill
    <3>2. request[r].quote # None
      BY <3>1, ConstantsAssumption DEF About
    <3> QED BY <3>1, <3>2 DEF About, SaleKinds
  <2>3. /\ quote[q] = "OPEN" /\ MarkConverted(q)
        /\ sale' = [sale EXCEPT ![s] = NewSale(c, "COMPLETED", q, TRUE)]
    BY <1>4 DEF Bill
  <2> HIDE DEF s, q
  <2>4. \A t \in Sales \ {s} : sale'[t] = sale[t]
    BY <2>1, <2>3
  <2>5. sale'[s].quote = q
    BY <2>1, <2>2, <2>3 DEF NewSale
  <2>6. quote'[q] = "CONVERTED" /\ \A p \in Quotations \ {q} : quote'[p] = quote[p]
    BY <2>1, <2>2, <2>3 DEF MarkConverted
  <2>7. \A t \in Sales \ {s} : sale[t].batch => sale[t].quote # q
    BY <2>3 DEF Claimed
  <2>8. Claimed'
    BY <2>2, <2>4, <2>5, <2>6 DEF Claimed
  <2>9. BilledOnceByBatch'
    BY <2>4, <2>5, <2>7 DEF BilledOnceByBatch
  <2> QED BY <2>8, <2>9
<1>5. ASSUME NEW r \in Requests, WritesSale(r), \A c \in Carts : ~Bill(r, c)
      PROVE  Claimed' /\ BilledOnceByBatch'
  <2>1. \A s \in Sales : sale'[s].batch => sale[s].batch /\ sale'[s].quote = sale[s].quote
    BY <1>5, BatchesKept, SaleWriters
  <2> QED BY <1>1, <1>5, <2>1, SaleWriters
<1>6. ASSUME NEW r \in Requests,
             WritesReturn(r) \/ WritesEntry(r) \/ WritesReceipt(r) \/ Abort(r)
      PROVE  Claimed' /\ BilledOnceByBatch'
  BY <1>1, <1>6, OtherWriters
<1>7. CASE UNCHANGED vars
  BY <1>1, <1>7 DEF vars
<1> QED BY <1>2, <1>3, <1>4, <1>5, <1>6, <1>7, Steps

\* Two runs of createFromQuotations over one selection make one sale of each
\* quotation, however their steps interleave: the update that claims the
\* quotation finds it open once.
THEOREM BatchesBillOnce == Spec => []BilledOnceByBatch
<1>1. Init => Claimed /\ BilledOnceByBatch
  BY DEF Init, Claimed, BilledOnceByBatch, NoSale
<1>2. Types /\ Claimed /\ BilledOnceByBatch /\ [Next]_vars => Claimed' /\ BilledOnceByBatch'
  BY StepBilled
<1> QED BY <1>1, <1>2, SpecTypes, PTL DEF Spec

(***************************************************************************)
(* The life of a sale.                                                     *)
(***************************************************************************)
LEMMA StepExclusive ==
    ASSUME SalesApart, Types, Exclusive, [Next]_vars PROVE Exclusive'
<1>1. ASSUME \A r \in Requests : request'[r] = request[r] \/ request'[r] = Idle
      PROVE  Exclusive'
  BY <1>1 DEF Exclusive, Acting, Idle
<1>2. ASSUME NEW r \in Requests, NewRequest(r) PROVE Exclusive'
  <2>1. CASE request'[r].kind = "convert"
    BY <1>2, <2>1 DEF NewRequest, Exclusive, Acting
  <2>2. CASE request'[r].kind # "convert"
    <3>1. request'[r].on # None =>
            \A q \in Requests \ {r} : Acting(q) => request[q].on # request'[r].on
      BY <1>2, <2>2 DEF NewRequest, Admitted, Overlaps, SalesApart, Acting
    <3> QED BY <1>2, <3>1 DEF NewRequest, Exclusive, Acting
  <2> QED BY <2>1, <2>2
<1>3. CASE Creates
  BY <1>1, <1>3, Creators DEF Creates
<1>4. ASSUME NEW r \in Requests, Begins(r) PROVE Exclusive'
  BY <1>2, <1>4, Begun
<1>5. ASSUME NEW r \in Requests,
             WritesSale(r) \/ WritesReturn(r) \/ WritesEntry(r) \/ WritesReceipt(r) \/ Abort(r)
      PROVE  Exclusive'
  BY <1>1, <1>5, WritersEnd DEF Ends
<1>6. CASE UNCHANGED vars
  BY <1>1, <1>6 DEF vars
<1> QED BY <1>3, <1>4, <1>5, <1>6, Steps

LEMMA StepFresh == ASSUME Types, Fresh, [Next]_vars PROVE Fresh'
<1>1. \A r \in Requests : request[r].kind \in SaleKinds => request[r].doc \in Sales
  BY InFlight DEF About
<1>2. CASE Creates
  <2>1. PICK s \in Sales, c \in Carts, q \in Quotations \cup {None} :
            CreateDraft(s, c, q) \/ CreatePaid(s, c, q)
    BY <1>2 DEF Creates
  <2>2. /\ \A r \in Requests : request[r].doc # s
        /\ \A t \in Sales \ {s} : sale'[t] = sale[t]
        /\ request' = request
    BY <2>1, Creators DEF Unused
  <2> QED BY <1>1, <2>2 DEF Fresh, SaleKinds
<1>3. ASSUME NEW r \in Requests, Begins(r) PROVE Fresh'
  <2>1. NewRequest(r) /\ sale' = sale
    BY <1>3, Begun, BeginTypes
  <2>2. \A q \in Requests \ {r} : request'[q] = request[q]
    BY <2>1 DEF NewRequest
  <2> DEFINE k == request'[r].kind
             d == request'[r].doc
  <2>3. k \in {"credit", "convert", "bill"} =>
          /\ sale[d] = NoSale
          /\ \A q \in Requests \ {r} : request[q].kind \in SaleKinds => request[q].doc # d
    BY <2>1 DEF NewRequest, Unused, Fresh
  <2>4. k \in SaleKinds => \A q \in Requests \ {r} :
          request[q].kind \in {"credit", "convert", "bill"} => request[q].doc # d
    <3>1. CASE k \in {"credit", "convert", "bill"}
      BY <2>3, <3>1 DEF SaleKinds
    <3>2. CASE k \in SaleKinds \ {"credit", "convert", "bill"}
      <4>1. sale[d] # NoSale
        BY <2>1, <3>2 DEF NewRequest, SaleExists, NoSale
      <4> QED BY <4>1 DEF Fresh
    <3> QED BY <3>1, <3>2
  <2> HIDE DEF k, d
  <2>5. ASSUME NEW p \in Requests, request'[p].kind \in {"credit", "convert", "bill"}
        PROVE  /\ sale'[request'[p].doc] = NoSale
               /\ \A q \in Requests \ {p} :
                    request'[q].kind \in SaleKinds => request'[q].doc # request'[p].doc
    <3>1. CASE p = r
      BY <2>1, <2>2, <2>3, <2>5, <3>1 DEF k, d
    <3>2. CASE p # r
      BY <2>1, <2>2, <2>4, <2>5, <3>2 DEF k, d, Fresh
    <3> QED BY <3>1, <3>2
  <2> QED BY <2>5 DEF Fresh
<1>4. ASSUME NEW r \in Requests, WritesSale(r) PROVE Fresh'
  <2>1. Ends(r) /\ request[r].kind \in SaleKinds /\ request[r].doc \in Sales
    BY <1>4, WritersEnd, SaleWriters
  <2>2. \A t \in Sales \ {request[r].doc} : sale'[t] = sale[t]
    BY <1>4, SaleWriters
  <2>3. ASSUME NEW p \in Requests, request'[p].kind \in {"credit", "convert", "bill"}
        PROVE  /\ sale'[request'[p].doc] = NoSale
               /\ \A q \in Requests \ {p} :
                    request'[q].kind \in SaleKinds => request'[q].doc # request'[p].doc
    <3>1. p # r /\ request'[p] = request[p]
      BY <2>1, <2>3 DEF Ends, Idle
    <3>2. /\ sale[request[p].doc] = NoSale /\ request[p].doc # request[r].doc
          /\ \A q \in Requests \ {p} :
                request[q].kind \in SaleKinds => request[q].doc # request[p].doc
      BY <2>1, <2>3, <3>1 DEF Fresh
    <3>3. request[p].doc \in Sales
      BY <1>1, <2>3, <3>1 DEF SaleKinds
    <3> QED BY <2>1, <2>2, <3>1, <3>2, <3>3 DEF Ends, Idle, SaleKinds
  <2> QED BY <2>3 DEF Fresh
<1>5. ASSUME NEW r \in Requests,
             WritesReturn(r) \/ WritesEntry(r) \/ WritesReceipt(r) \/ Abort(r)
      PROVE  Fresh'
  <2>1. Ends(r) /\ sale' = sale
    BY <1>5, WritersEnd, OtherWriters
  <2>2. \A p \in Requests : request'[p] = request[p] \/ request'[p].kind = "idle"
    BY <2>1 DEF Ends, Idle
  <2> QED BY <2>1, <2>2 DEF Fresh, SaleKinds
<1>6. CASE UNCHANGED vars
  BY <1>6 DEF vars, Fresh
<1> QED BY <1>2, <1>3, <1>4, <1>5, <1>6, Steps

LEMMA StepSeen ==
    ASSUME Types, Exclusive, Fresh, Seen, [Next]_vars PROVE Seen'
<1> DEFINE Good(req) ==
        /\ req.kind \in SaleKinds \ {"credit", "convert", "bill"} =>
                req.seen = sale[req.doc] /\ SaleExists(req.doc)
        /\ req.kind \in {"finalize", "finalizeOnCredit"} => req.seen.status = "DRAFT"
        /\ req.kind \in {"edit", "cancel"} => req.seen.status # "CANCELLED"
<1>0. /\ Seen <=> \A r \in Requests : Good(request[r])
      /\ Seen' <=> \A r \in Requests : Good(request[r])'
  BY DEF Seen
<1>1. ASSUME NEW q \in Requests, request'[q] = request[q],
             request[q].doc \in Sales => sale'[request[q].doc] = sale[request[q].doc]
      PROVE  Good(request[q])'
  <2>1. Good(request[q])
    BY <1>0
  <2>2. request[q].kind \in SaleKinds => request[q].doc \in Sales
    BY InFlight DEF About
  <2> QED BY <1>1, <2>1, <2>2 DEF SaleExists
<1>2. ASSUME NEW q \in Requests, request'[q] = Idle PROVE Good(request[q])'
  BY <1>2 DEF Idle, SaleKinds
<1> HIDE DEF Good
<1>3. CASE Creates
  <2>1. PICK s \in Sales, c \in Carts, q \in Quotations \cup {None} :
            CreateDraft(s, c, q) \/ CreatePaid(s, c, q)
    BY <1>3 DEF Creates
  <2> QED BY <1>0, <1>1, <2>1, Creators DEF Unused
<1>4. ASSUME NEW r \in Requests, Begins(r) PROVE Seen'
  <2>1. NewRequest(r) /\ sale' = sale
    BY <1>4, Begun, BeginTypes
  <2>2. Good(request[r])'
    BY <2>1 DEF NewRequest, Good, SaleExists, SaleKinds
  <2> QED BY <1>0, <1>1, <2>1, <2>2 DEF NewRequest
<1>5. ASSUME NEW r \in Requests, WritesSale(r) PROVE Seen'
  <2>1. Ends(r) /\ request[r].kind \in SaleKinds \ {"convert"}
    BY <1>5, WritersEnd, SaleWriters
  <2>2. /\ request[r].on = request[r].doc /\ request[r].doc \in Sales
        /\ \A t \in Sales \ {request[r].doc} : sale'[t] = sale[t]
    BY <1>5, SaleWriters
  <2>3. ASSUME NEW q \in Requests \ {r}, request'[q] = request[q] PROVE Good(request[q])'
    <3>1. CASE request[q].kind \in SaleKinds \ {"convert"}
      <4>1. request[q].on = request[q].doc /\ request[q].doc \in Sales
        BY <3>1, InFlight DEF About
      <4>2. request[q].doc # request[r].doc
        BY <2>1, <2>2, <3>1, <4>1, ConstantsAssumption DEF Exclusive, Acting, SaleKinds
      <4> QED BY <1>1, <2>2, <2>3, <4>1, <4>2
    <3>2. CASE request[q].kind \notin SaleKinds \ {"convert"}
      BY <2>3, <3>2 DEF Good, SaleKinds
    <3> QED BY <3>1, <3>2
  <2> QED BY <1>0, <1>2, <2>1, <2>3 DEF Ends
<1>6. ASSUME NEW r \in Requests,
             WritesReturn(r) \/ WritesEntry(r) \/ WritesReceipt(r) \/ Abort(r)
      PROVE  Seen'
  <2>1. Ends(r) /\ sale' = sale
    BY <1>6, WritersEnd, OtherWriters
  <2> QED BY <1>0, <1>1, <1>2, <2>1 DEF Ends
<1>7. CASE UNCHANGED vars
  BY <1>0, <1>1, <1>7 DEF vars
<1> QED BY <1>3, <1>4, <1>5, <1>6, <1>7, Steps

Forward(s) ==
    /\ sale[s].status = "COMPLETED" => sale'[s].status # "DRAFT"
    /\ sale[s].status = "CANCELLED" => sale'[s] = sale[s] \/ sale'[s].status = "GONE"
    /\ sale[s].status = "GONE" => sale'[s] = sale[s]

LEMMA StepForward ==
    ASSUME SalesApart, Types, Fresh, Seen, [Next]_vars
    PROVE  \A s \in Sales : Forward(s)
<1>1. ASSUME NEW s \in Sales, sale'[s] = sale[s] PROVE Forward(s)
  BY <1>1 DEF Forward
<1>2. ASSUME NEW s \in Sales, sale[s] = NoSale PROVE Forward(s)
  BY <1>2 DEF Forward, NoSale
<1>3. CASE Creates
  BY <1>1, <1>2, <1>3, Creators DEF Creates
<1>4. ASSUME NEW r \in Requests, WritesSale(r) PROVE Forward(request[r].doc)
  <2> DEFINE s == request[r].doc
             seen == request[r].seen
  <2>1. s \in Sales /\ sale \in [Sales -> Sale]
    BY <1>4, SaleWriters DEF Types, RowsOK
  <2>2. ASSUME NEW c \in Carts, CreateOnCredit(r, c) \/ Bill(r, c) PROVE Forward(s)
    <3>1. sale[s] = NoSale
      BY <2>2 DEF CreateOnCredit, Bill, Fresh
    <3> QED BY <1>2, <2>1, <3>1
  <2>3. ASSUME NEW c \in Carts, FinalizeDraft(r, c) PROVE Forward(s)
    <3>1. sale[s].status = "DRAFT"
      BY <2>3 DEF FinalizeDraft, Seen, SaleKinds
    <3> QED BY <3>1 DEF Forward
  <2>4. ASSUME NEW c \in Carts, NEW status, NEW b \in BOOLEAN, Update(r, c, status, b)
        PROVE  Forward(s)
    <3>1. seen = sale[s] /\ SaleExists(s) /\ seen.status # "CANCELLED"
      BY <2>4 DEF Update, Seen, SaleKinds
    <3>2. /\ sale' = [sale EXCEPT ![s] = [@ EXCEPT !.qty = c.qty, !.paid = c.paid,
                                                   !.status = status]]
          /\ seen.status # "DRAFT" => status \in Asked
      BY <2>4 DEF Update
    <3> HIDE DEF s, seen
    <3>3. sale'[s] = [sale[s] EXCEPT !.qty = c.qty, !.paid = c.paid, !.status = status]
          /\ sale[s] \in Sale
      BY <2>1, <3>2
    <3>4. sale'[s].status = status
      BY <3>3 DEF Sale
    <3>5. sale[s].status = "COMPLETED" => status # "DRAFT"
      BY <3>1, <3>2 DEF SalesApart
    <3> QED BY <3>1, <3>4, <3>5 DEF Forward, SaleExists
  <2>5. ASSUME Cancel(r) PROVE Forward(s)
    <3>1. SaleExists(s) /\ sale[s].status # "CANCELLED"
      BY <2>5 DEF Cancel, Seen, SaleKinds
    <3>2. sale' = [sale EXCEPT ![s] = [@ EXCEPT !.status = "CANCELLED"]]
      BY <2>5 DEF Cancel
    <3> HIDE DEF s
    <3>3. sale'[s] = [sale[s] EXCEPT !.status = "CANCELLED"] /\ sale[s] \in Sale
      BY <2>1, <3>2
    <3>4. sale'[s].status = "CANCELLED"
      BY <3>3 DEF Sale
    <3> QED BY <3>1, <3>4 DEF Forward, SaleExists
  <2>6. ASSUME Remove(r) PROVE Forward(s)
    <3>1. SaleExists(s)
      BY <2>6 DEF Remove
    <3>2. sale'[s].status = "GONE"
      BY <2>1, <2>6 DEF Remove, NoSale
    <3> QED BY <3>1, <3>2 DEF Forward, SaleExists
  <2> QED BY <1>4, <2>2, <2>3, <2>4, <2>5, <2>6 DEF WritesSale
<1>5. ASSUME NEW r \in Requests, WritesSale(r) PROVE \A s \in Sales : Forward(s)
  <2>1. \A t \in Sales \ {request[r].doc} : sale'[t] = sale[t]
    BY <1>5, SaleWriters
  <2> QED BY <1>1, <1>4, <1>5, <2>1
<1>6. ASSUME NEW r \in Requests,
             WritesReturn(r) \/ WritesEntry(r) \/ WritesReceipt(r) \/ Abort(r)
      PROVE  \A s \in Sales : Forward(s)
  BY <1>1, <1>6, OtherWriters
<1>7. ASSUME NEW r \in Requests, Begins(r) PROVE \A s \in Sales : Forward(s)
  BY <1>1, <1>7, BeginTypes
<1>8. CASE UNCHANGED vars
  BY <1>1, <1>8 DEF vars
<1> QED BY <1>3, <1>5, <1>6, <1>7, <1>8, Steps

LEMMA InitApart == Init => Exclusive /\ Fresh /\ Seen
BY DEF Init, Exclusive, Acting, Fresh, Seen, Idle, SaleKinds

LEMMA SpecApart == ASSUME SalesApart PROVE Spec => [](Exclusive /\ Fresh /\ Seen)
<1>1. Types /\ Exclusive /\ Fresh /\ Seen /\ [Next]_vars => (Exclusive /\ Fresh /\ Seen)'
  BY StepExclusive, StepFresh, StepSeen
<1> QED BY <1>1, InitApart, SpecTypes, PTL DEF Spec

\* While requests on one sale do not overlap and an edit never asks for a draft,
\* a sale only moves forward: what the handler read before its transaction is
\* still so when it writes.
THEOREM SalesMoveForward == ASSUME SalesApart PROVE Spec => LifeMovesForward
<1>1. Types /\ Exclusive /\ Fresh /\ Seen /\ [Next]_vars =>
        [\A s \in Sales :
            /\ sale[s].status = "COMPLETED" => sale'[s].status # "DRAFT"
            /\ sale[s].status = "CANCELLED" => sale'[s] = sale[s] \/ sale'[s].status = "GONE"
            /\ sale[s].status = "GONE" => sale'[s] = sale[s]]_vars
  BY StepForward DEF Forward
<1> QED BY <1>1, SpecApart, SpecTypes, PTL DEF Spec, LifeMovesForward

(***************************************************************************)
(* Requests that find what they read.                                      *)
(***************************************************************************)
\* The inductive invariant.
SoloIfAlone == DueAlone => Solo
Settled == Types /\ Exclusive /\ Fresh /\ Seen /\ SoloIfAlone /\ Found /\ Rows

LEMMA WritersAct ==
    ASSUME Types, NEW r \in Requests,
           WritesSale(r) \/ WritesReturn(r) \/ WritesEntry(r) \/ WritesReceipt(r)
    PROVE  Acting(r)
<1>1. CASE WritesSale(r)
  BY <1>1, SaleWriters DEF Acting, SaleKinds
<1>2. CASE WritesReturn(r)
  BY <1>2 DEF WritesReturn, SaveReturn, EditReturn, Unreturn, Acting
<1>3. CASE WritesEntry(r) \/ WritesReceipt(r)
  BY <1>3 DEF WritesEntry, Pay, WriteOff, Unpay, WritesReceipt, EditReceipt, Unreceipt, Acting
<1> QED BY <1>1, <1>2, <1>3

LEMMA StepSolo ==
    ASSUME DueAlone, Types, Solo, [Next]_vars PROVE Solo'
<1>1. ASSUME due' = due, \A r \in Requests : request'[r] = request[r] \/ request'[r] = Idle
      PROVE  Solo'
  <2>1. \A r \in Requests : /\ request'[r] = Idle => request'[r].kind = "idle"
                            /\ "idle" \notin ReadsDue
    BY DEF Idle, ReadsDue
  <2>2. ASSUME NEW r \in Requests, request'[r].kind \in ReadsDue
        PROVE  request'[r].due = due' /\ \A q \in Requests \ {r} : ~Acting(q)'
    BY <1>1, <2>1, <2>2 DEF Solo, Acting
  <2> QED BY <2>2 DEF Solo
<1>2. CASE Creates
  <2>1. PICK s \in Sales, c \in Carts, q \in Quotations \cup {None} :
            CreateDraft(s, c, q) \/ CreatePaid(s, c, q)
    BY <1>2 DEF Creates
  <2>2. CASE CreateDraft(s, c, q)
    BY <1>1, <2>2 DEF CreateDraft, account
  <2>3. CASE CreatePaid(s, c, q)
    BY <2>3 DEF CreatePaid, NothingAlone, DueAlone, Solo
  <2> QED BY <2>1, <2>2, <2>3
<1>3. ASSUME NEW r \in Requests, Begins(r) PROVE Solo'
  <2> DEFINE k == request'[r].kind
  <2>1. /\ Admitted(r, k, request'[r].on)
        /\ \A p \in Requests \ {r} : request'[p] = request[p]
        /\ request'[r].due = IF k \in ReadsDue THEN due ELSE 0
        /\ due' = due
    BY <1>3, Begun, BeginTypes DEF NewRequest, account
  <2>2. k # "convert" => \A q \in Requests : request[q].kind \notin ReadsDue
    BY <2>1 DEF Admitted, NothingAlone, DueAlone
  <2>3. k \in ReadsDue => \A q \in Requests \ {r} : ~Acting(q)
    BY <2>1 DEF Admitted, Overlaps, Acting, DueAlone, ReadsDue
  <2>4. ASSUME NEW p \in Requests, request'[p].kind \in ReadsDue
        PROVE  request'[p].due = due' /\ \A q \in Requests \ {p} : ~Acting(q)'
    <3>1. CASE p = r
      BY <2>1, <2>3, <2>4, <3>1 DEF Acting
    <3>2. CASE p # r
      <4>1. k = "convert"
        BY <2>1, <2>2, <2>4, <3>2
      <4> QED BY <2>1, <2>4, <3>2, <4>1 DEF Acting, Solo
    <3> QED BY <3>1, <3>2
  <2> QED BY <2>4 DEF Solo
<1>4. ASSUME NEW r \in Requests,
             WritesSale(r) \/ WritesReturn(r) \/ WritesEntry(r) \/ WritesReceipt(r)
      PROVE  Solo'
  <2>1. Acting(r) /\ Ends(r)
    BY <1>4, WritersAct, WritersEnd
  <2>2. \A q \in Requests \ {r} : request[q].kind \notin ReadsDue
    BY <2>1 DEF Solo
  <2>3. \A q \in Requests : request'[q].kind \notin ReadsDue
    BY <2>1, <2>2 DEF Ends, Idle, ReadsDue
  <2> QED BY <2>3 DEF Solo
<1>5. ASSUME NEW r \in Requests, Abort(r) PROVE Solo'
  BY <1>1, <1>5, WritersEnd DEF Ends, Abort, account
<1>6. CASE UNCHANGED vars
  BY <1>1, <1>6 DEF vars
<1> QED BY <1>2, <1>3, <1>4, <1>5, <1>6, Steps

\* The rows of a return that an edit of its sale leaves alone: all but the link
\* to the sale's line.
SameReturn(x) ==
    /\ ret'[x].status = ret[x].status /\ ret'[x].sale = ret[x].sale /\ ret'[x].qty = ret[x].qty

\* A handler of a sale changes no return, but for the links of the sale's own.
LEMMA SaleWritersKeepReturns ==
    ASSUME Settled, NEW r \in Requests, WritesSale(r)
    PROVE  /\ \A x \in Returns : SameReturn(x)
           /\ \A x \in Returns : ret[x].sale # request[r].doc => ret'[x] = ret[x]
           /\ SoldFirst => ret' = ret /\ OfSale(request[r].doc) = {}
<1> USE DEF Settled
<1> DEFINE s == request[r].doc
<1>1. /\ s \in Sales /\ request[r].on = s /\ s # None
      /\ request[r].kind \in SaleKinds \ {"convert"}
      /\ ret \in [Returns -> Return]
  BY SaleWriters, ConstantsAssumption DEF Types, RowsOK
<1>2. SoldFirst /\ ~Posted(s) => OfSale(s) = {}
  <2>1. SoldFirst => \A x \in Returns : ret[x].sale = s => Posted(s)
    BY <1>1 DEF Rows, ReturnRow
  <2> QED BY <2>1 DEF OfSale
<1>3. SoldFirst \/ request[r].kind \in {"cancel", "remove"} => OfSale(s) = {}
  <2>1. CASE request[r].kind \in {"credit", "bill"}
    BY <1>2, <2>1 DEF Fresh, Posted, NoSale
  <2>2. CASE request[r].kind \in {"finalize", "finalizeOnCredit"}
    BY <1>2, <2>2 DEF Seen, SaleKinds, Posted
  <2>3. CASE request[r].kind \in {"edit", "cancel", "remove"}
    BY <1>1, <2>3 DEF Found, Finds
  <2> QED BY <1>1, <2>1, <2>2, <2>3 DEF SaleKinds
<1> HIDE DEF s
<1>4. ASSUME UnlinkReturns(s), NEW x \in Returns
      PROVE  SameReturn(x) /\ (x \notin OfSale(s) => ret'[x] = ret[x])
  <2> DEFINE linked == ret[x].linked /\ x \notin OfSale(s)
  <2>1. ret'[x] = [ret[x] EXCEPT !.linked = linked] /\ ret[x] \in Return
    BY <1>1, <1>4 DEF UnlinkReturns
  <2>2. x \notin OfSale(s) => linked = ret[x].linked
    BY <2>1 DEF Return
  <2> HIDE DEF linked
  <2>3. SameReturn(x)
    BY <2>1 DEF Return, SameReturn
  <2>4. x \notin OfSale(s) => ret'[x] = ret[x]
    <3>1. ASSUME NEW row \in Return PROVE [row EXCEPT !.linked = row.linked] = row
      BY DEF Return
    <3> QED BY <2>1, <2>2, <3>1
  <2> QED BY <2>3, <2>4
<1>5. UnlinkReturns(s) => DOMAIN ret' = Returns
  BY DEF UnlinkReturns
<1>6. UnlinkReturns(s) \/ ret' = ret
  <2>1. ASSUME Remove(r) PROVE ret' = ret
    <3>1. request[r].kind = "remove"
      BY <2>1 DEF Remove
    <3> QED BY <1>1, <1>3, <2>1, <3>1 DEF Remove, s
  <2> QED BY <2>1 DEF WritesSale, CreateOnCredit, Bill, FinalizeDraft, Update, Cancel, s
<1>7. \A x \in Returns : SameReturn(x) /\ (x \notin OfSale(s) => ret'[x] = ret[x])
  BY <1>4, <1>6 DEF SameReturn
<1>8. SoldFirst => ret' = ret
  <2>1. SoldFirst => \A x \in Returns : ret'[x] = ret[x]
    BY <1>3, <1>7
  <2>2. DOMAIN ret' = Returns
    BY <1>1, <1>5, <1>6
  <2>3. UnlinkReturns(s) => ret' = [x \in Returns |-> ret'[x]]
    BY DEF UnlinkReturns
  <2>4. ret = [x \in Returns |-> ret[x]]
    BY <1>1
  <2> QED BY <1>6, <2>1, <2>3, <2>4
<1>9. \A x \in Returns : ret[x].sale # s => ret'[x] = ret[x]
  BY <1>7 DEF OfSale
<1> QED BY <1>3, <1>7, <1>8, <1>9 DEF s

\* What is open of a sale depends on its line and on its returns.
LEMMA OpenStays ==
    ASSUME Types, NEW s \in Sales, sale'[s].qty = sale[s].qty, NEW T \in SUBSET Returns,
           \A x \in T : \/ ret'[x] = ret[x]
                        \/ ~Keeps(x, s) /\ ~Keeps(x, s)'
    PROVE  OpenOf(s, T)' = OpenOf(s, T)
<1> DEFINE f == [x \in Returns |-> ret[x].qty]
           g == [x \in Returns |-> ret'[x].qty]
           U == {x \in T : Keeps(x, s) /\ ret[x].linked}
<1>1. U = {x \in T : Keeps(x, s)' /\ ret'[x].linked}
  BY DEF Keeps
<1>2. \A x \in U : f[x] = g[x]
  BY DEF Keeps
<1>3. IsFiniteSet(U)
  BY FS_Subset, ConstantsAssumption
<1>4. SumFunctionOnSet(f, U) = SumFunctionOnSet(g, U)
  <2> HIDE DEF f, g, U
  <2> QED BY <1>2, <1>3, SumsAgree
<1> QED BY <1>1, <1>4 DEF OpenOf

LEMMA FindsAgain ==
    ASSUME Types, NEW r \in Requests, Finds(r), request'[r] = request[r],
           request[r].kind \in SaleKinds \cup ReturnKinds =>
                \A x \in Returns :
                    \/ ret'[x] = ret[x]
                    \/ /\ ret[x].sale # request[r].on /\ ret'[x].sale # request[r].on
                       /\ x # request[r].doc,
           \A q \in Requests \ {r} : request'[q].doc # request[r].doc \/ request[r].kind # "return",
           request[r].kind \in {"return", "editReturn"} =>
                sale'[request[r].on] = sale[request[r].on],
           DueAlone /\ request[r].kind \in EntryKinds \cup ReceiptKinds =>
                entry' = entry /\ owed' = owed
    PROVE  Finds(r)'
<1> DEFINE k == request[r].kind
           d == request[r].doc
           s == request[r].on
<1>0. /\ k \in {"return", "editReturn"} => s \in Sales
      /\ k \in ReturnKinds => d \in Returns
  BY InFlight DEF About
<1>1. k \in {"cancel", "remove"} \/ (SoldFirst /\ k = "edit") => OfSale(s)' = {}
  BY DEF Finds, OfSale, SaleKinds
<1>2. ASSUME k \in {"return", "editReturn"}
      PROVE  \A T \in SUBSET Returns : OpenOf(s, T)' = OpenOf(s, T)
  <2>1. \A x \in Returns : ret'[x] = ret[x] \/ (~Keeps(x, s) /\ ~Keeps(x, s)')
    BY <1>2 DEF Keeps, ReturnKinds
  <2> QED BY <1>0, <1>2, <2>1, OpenStays
<1>3. k \in ReturnKinds => ret'[d] = ret[d]
  BY <1>0
<1>4. k = "return" => /\ ret'[d] = NoReturn /\ Made(s)' /\ request[r].open = OpenOf(s, Returns)'
                      /\ SoldFirst => Posted(s)'
                      /\ \A q \in Requests \ {r} : request'[q].doc # d
  <2>1. Returns \in SUBSET Returns
    OBVIOUS
  <2> QED BY <1>2, <1>3, <2>1 DEF Finds, Posted, Made, ReturnKinds
<1>5. k = "editReturn" => /\ Keeps(d, s)' /\ request[r].row = ret'[d]
                          /\ request[r].open = OpenOf(s, Returns \ {d})'
  <2>1. Returns \ {d} \in SUBSET Returns
    OBVIOUS
  <2> QED BY <1>2, <1>3, <2>1 DEF Finds, Keeps, ReturnKinds
<1>6. k = "unreturn" => Keeps(d, s)' /\ request[r].row = ret'[d]
  BY <1>3 DEF Finds, Keeps, ReturnKinds
<1>7. DueAlone /\ k \in EntryKinds => request[r].row = entry'[d]
  BY DEF Finds
<1>8. DueAlone /\ k \in ReceiptKinds => request[r].row = owed'[d].receipt
  BY DEF Finds
<1> QED BY <1>1, <1>4, <1>5, <1>6, <1>7, <1>8 DEF Finds

\* A request that is not at work has nothing to find.
LEMMA IdleFinds ==
    ASSUME NEW r \in Requests PROVE (~Acting(r) => Finds(r)) /\ (~Acting(r)' => Finds(r)')
BY DEF Acting, Finds

LEMMA BeginFound ==
    ASSUME Settled, NEW r \in Requests, Begins(r) PROVE Found'
<1> USE DEF Settled
<1>0. PICK k, d, s :
        k = request'[r].kind /\ d = request'[r].doc /\ s = request'[r].on
  OBVIOUS
<1>1. NewRequest(r) /\ Types' /\ UNCHANGED <<stock, quote, sale, ret, account>>
  BY Begun, BeginTypes
<1>2. About(request'[r])
  BY <1>1 DEF Types, RequestsOK
<1>3. \A q \in Requests \ {r} : request'[q] = request[q]
  BY <1>1 DEF NewRequest
<1>4. UNCHANGED <<sale, ret, owed, entry>>
  BY <1>1 DEF account
<1>5. \A T : OpenOf(s, T)' = OpenOf(s, T)
  BY <1>4 DEF OpenOf, Keeps
<1>6. Finds(r)'
  <2> USE <1>0
  <2>1. k \in {"cancel", "remove"} \/ (SoldFirst /\ k = "edit") => OfSale(s)' = {}
    BY <1>1, <1>2, <1>4 DEF NewRequest, SoldFirst, About, SaleKinds, OfSale
  <2>2. k = "return" =>
          /\ ret'[d] = NoReturn /\ Made(s)' /\ request'[r].open = OpenOf(s, Returns)'
          /\ SoldFirst => Posted(s)'
          /\ \A q \in Requests \ {r} : request'[q].doc # d
    BY <1>1, <1>3, <1>4, <1>5 DEF NewRequest, SoldFirst, Posted, Made, Unused
  <2>3. k = "editReturn" => /\ Keeps(d, s)' /\ request'[r].row = ret'[d]
                            /\ request'[r].open = OpenOf(s, Returns \ {d})'
    BY <1>1, <1>4, <1>5 DEF NewRequest, Keeps
  <2>4. k = "unreturn" => Keeps(d, s)' /\ request'[r].row = ret'[d]
    BY <1>1, <1>4 DEF NewRequest, Kept, Keeps
  <2>5. k \in EntryKinds => request'[r].row = entry'[d]
    BY <1>1, <1>4 DEF NewRequest
  <2>6. k \in ReceiptKinds => request'[r].row = owed'[d].receipt
    BY <1>1, <1>4 DEF NewRequest
  <2> QED BY <2>1, <2>2, <2>3, <2>4, <2>5, <2>6 DEF Finds
<1>7. ASSUME NEW q \in Requests \ {r} PROVE Finds(q)'
  <2> USE <1>0
  <2>1. Finds(q) /\ request'[q] = request[q]
    BY <1>3 DEF Found
  <2>2. ASSUME request[q].kind = "return", NEW p \in Requests \ {q}
        PROVE  request'[p].doc # request[q].doc
    <3>1. request[p].doc # request[q].doc /\ ret[request[q].doc] = NoReturn
          /\ request[q].doc \in Returns
      BY <2>1, <2>2, InFlight DEF Finds, About, ReturnKinds
    <3>2. CASE p # r
      BY <1>3, <3>1, <3>2
    <3>3. CASE p = r /\ k = "bill"
      BY <1>1, <3>1, <3>3 DEF NewRequest
    <3>4. CASE p = r /\ k \in {"editReturn", "unreturn"}
      BY <1>1, <3>1, <3>4 DEF NewRequest, Keeps, Kept, NoReturn
    <3>5. CASE p = r /\ k = "return"
      BY <1>1, <3>5 DEF NewRequest, Unused
    <3>6. CASE p = r /\ k \notin ReturnKinds
      <4>1. d \in Sales \cup Entries
        BY <1>1, <1>2, <3>6 DEF NewRequest, About, Kinds
      <4> QED BY <3>1, <3>6, <4>1, ConstantsAssumption
    <3> QED BY <3>2, <3>3, <3>4, <3>5, <3>6 DEF ReturnKinds
  <2> QED BY <1>4, <2>1, <2>2, FindsAgain
<1> QED BY <1>6, <1>7 DEF Found

\* The return that a request has read is of the sale the request is about.
LEMMA ReadReturn ==
    ASSUME Settled, NEW q \in Requests, request[q].kind \in ReturnKinds
    PROVE  /\ request[q].on \in Sales
           /\ request[q].doc \in Returns
           /\ ret[request[q].doc].sale \in {None, request[q].on}
           /\ request[q].kind \in {"editReturn", "unreturn"} =>
                ret[request[q].doc].sale = request[q].on
<1> USE DEF Settled
<1>1. Finds(q) /\ About(request[q])
  BY InFlight DEF Found
<1>2. CASE request[q].kind = "return"
  BY <1>1, <1>2 DEF Finds, About, ReturnKinds, NoReturn
<1>3. CASE request[q].kind \in {"editReturn", "unreturn"}
  <2>1. /\ request[q].doc \in Returns /\ ReturnRow(request[q].doc)
        /\ Keeps(request[q].doc, request[q].on)
    BY <1>1, <1>3 DEF Finds, About, ReturnKinds, Rows
  <2> QED BY <1>3, <2>1 DEF Keeps, Kept, ReturnRow
<1> QED BY <1>2, <1>3 DEF ReturnKinds

\* What a handler of a return does to the returns.
LEMMA ReturnWriters ==
    ASSUME Settled, NEW r \in Requests, WritesReturn(r)
    PROVE  /\ request[r].kind \in ReturnKinds
           /\ \A y \in Returns \ {request[r].doc} : ret'[y] = ret[y]
           /\ ret'[request[r].doc].sale \in {None, request[r].on}
<1> USE DEF Settled
<1>0. PICK x, s : x = request[r].doc /\ s = request[r].on
  OBVIOUS
<1>1. request[r].kind \in ReturnKinds
  BY DEF WritesReturn, SaveReturn, EditReturn, Unreturn, ReturnKinds
<1>2. /\ x \in Returns /\ s \in Sales /\ ret[x].sale \in {None, s}
      /\ ret \in [Returns -> Return] /\ request[r].open \in Int
      /\ request[r].kind = "editReturn" => ret[x].sale = s
  BY <1>0, <1>1, ReadReturn, InFlight DEF Types, RowsOK, Request
<1>3. ret' = ret \/ \E row \in Return : ret' = [ret EXCEPT ![x] = row] /\ row.sale \in {None, s}
  <2>1. ASSUME NEW q \in 1..request[r].open, NEW refund, refund \in Refunds(q),
               SaveReturn(r, refund)
        PROVE  \E row \in Return : ret' = [ret EXCEPT ![x] = row] /\ row.sale \in {None, s}
    <3>1. refund \in Return
      BY <1>2, <2>1, RefundTypes
    <3>2. [refund EXCEPT !.sale = s] \in Return /\ [refund EXCEPT !.sale = s].sale = s
      BY <1>2, <3>1 DEF Return
    <3> QED BY <1>0, <2>1, <3>2 DEF SaveReturn
  <2>2. ASSUME NEW q \in 1..request[r].open, NEW refund, refund \in Refunds(q),
               EditReturn(r, refund)
        PROVE  ret' = ret \/ \E row \in Return : ret' = [ret EXCEPT ![x] = row]
                                                 /\ row.sale \in {None, s}
    <3>1. refund \in Return /\ ret[x].sale = s /\ ret[x].linked \in BOOLEAN
      BY <1>2, <2>2, RefundTypes DEF EditReturn, Return
    <3>2. PICK old, keeps : /\ old = request[r].row
                            /\ keeps = (old.linked /\ refund.qty = old.qty)
      OBVIOUS
    <3> DEFINE linked == ret[x].linked \/ ~keeps
               row == [refund EXCEPT !.sale = ret[x].sale, !.linked = linked]
    <3>3. ret' = ret \/ ret' = [ret EXCEPT ![x] = row]
      BY <1>0, <2>2, <3>2 DEF EditReturn
    <3>4. linked \in BOOLEAN
      OBVIOUS
    <3> HIDE DEF linked
    <3>5. row \in Return /\ row.sale = s
      BY <1>2, <3>1, <3>4 DEF Return
    <3> QED BY <3>3, <3>5
  <2>3. ASSUME Unreturn(r)
        PROVE  \E row \in Return : ret' = [ret EXCEPT ![x] = row] /\ row.sale \in {None, s}
    <3>1. [NoReturn EXCEPT !.status = "GONE"] \in Return
          /\ [NoReturn EXCEPT !.status = "GONE"].sale = None
      BY NothingTypes DEF Return, NoReturn
    <3> QED BY <1>0, <2>3, <3>1 DEF Unreturn
  <2> QED BY <2>1, <2>2, <2>3 DEF WritesReturn
<1>4. /\ \A y \in Returns \ {x} : ret'[y] = ret[y]
      /\ ret'[x].sale \in {None, s}
  BY <1>2, <1>3
<1> QED BY <1>0, <1>1, <1>4

\* A request at work finds again what it read when another one writes.
LEMMA OthersFind ==
    ASSUME Settled, NEW r \in Requests,
           WritesSale(r) \/ WritesReturn(r) \/ WritesEntry(r) \/ WritesReceipt(r),
           NEW q \in Requests \ {r}, request'[q] = request[q]
    PROVE  Finds(q)'
<1> USE DEF Settled
<1>1. CASE ~Acting(q)
  <2>1. ~Acting(q)'
    BY <1>1 DEF Acting
  <2> QED BY <2>1, IdleFinds
<1>2. CASE Acting(q)
  <2>1. Acting(r) /\ Ends(r) /\ Finds(q)
    BY WritersAct, WritersEnd DEF Found
  <2>2. request[q].on # None => request[q].on # request[r].on
    BY <1>2, <2>1 DEF Exclusive
  <2>3. DueAlone => request[q].kind \notin ReadsDue
    BY <2>1 DEF SoloIfAlone, Solo
  <2>4. ASSUME request[q].kind \in SaleKinds \cup ReturnKinds
        PROVE  request[q].on \in Sales /\ request[q].on # None /\ request[q].on # request[r].on
    <3>1. request[q].on \in Sales
      BY <2>4, ReadReturn, InFlight DEF About
    <3> QED BY <2>2, <3>1, ConstantsAssumption
  <2>5. ASSUME request[q].kind \in SaleKinds \cup ReturnKinds, NEW x \in Returns
        PROVE  \/ ret'[x] = ret[x]
               \/ /\ ret[x].sale # request[q].on /\ ret'[x].sale # request[q].on
                  /\ x # request[q].doc
    <3>1. ASSUME ret[x].sale \in Sales \ {request[q].on} PROVE x # request[q].doc
      <4>1. CASE request[q].kind \in ReturnKinds
        BY <3>1, <4>1, ReadReturn, ConstantsAssumption
      <4>2. CASE request[q].kind \in SaleKinds
        BY <4>2, InFlight, ConstantsAssumption DEF About
      <4> QED BY <2>5, <4>1, <4>2
    <3>2. CASE WritesSale(r)
      <4>1. /\ request[r].on = request[r].doc /\ request[r].doc \in Sales
            /\ SameReturn(x) /\ (ret[x].sale # request[r].doc => ret'[x] = ret[x])
        BY <3>2, SaleWriters, SaleWritersKeepReturns
      <4>2. ret[x].sale = request[r].doc => ret[x].sale \in Sales \ {request[q].on}
        BY <2>4, <2>5, <4>1
      <4> QED BY <3>1, <4>1, <4>2 DEF SameReturn
    <3>3. CASE WritesReturn(r)
      <4>1. /\ request[r].kind \in ReturnKinds
            /\ \A y \in Returns \ {request[r].doc} : ret'[y] = ret[y]
            /\ ret'[request[r].doc].sale \in {None, request[r].on}
        BY <3>3, ReturnWriters
      <4>2. /\ request[r].on \in Sales /\ ret[request[r].doc].sale \in {None, request[r].on}
            /\ request[r].kind \in {"editReturn", "unreturn"} =>
                  ret[request[r].doc].sale = request[r].on
        BY <4>1, ReadReturn
      <4>3. CASE x # request[r].doc
        BY <4>1, <4>3
      <4>4. CASE x = request[r].doc
        <5>1. ret[x].sale # request[q].on /\ ret'[x].sale # request[q].on
          BY <2>4, <2>5, <4>1, <4>2, <4>4
        <5>2. x # request[q].doc
          <6>1. CASE request[r].kind = "return"
            BY <4>4, <6>1 DEF Found, Finds
          <6>2. CASE request[r].kind \in {"editReturn", "unreturn"}
            BY <2>4, <2>5, <3>1, <4>2, <4>4, <6>2
          <6> QED BY <4>1, <6>1, <6>2 DEF ReturnKinds
        <5> QED BY <5>1, <5>2
      <4> QED BY <4>3, <4>4
    <3>4. CASE WritesEntry(r) \/ WritesReceipt(r)
      BY <3>4 DEF WritesEntry, Pay, WriteOff, Unpay, WriteEntry, WritesReceipt, EditReceipt, Unreceipt,
                  WriteReceipt
    <3> QED BY <3>2, <3>3, <3>4
  <2>6. ASSUME request[q].kind \in {"return", "editReturn"}
        PROVE  sale'[request[q].on] = sale[request[q].on]
    <3>1. request[q].on \in Sales /\ request[q].on # request[r].on
      BY <2>4, <2>6 DEF ReturnKinds
    <3> QED BY <3>1, SaleWriters, OtherWriters
  <2>7. ASSUME request[q].kind = "return", NEW p \in Requests \ {q}
        PROVE  request'[p].doc # request[q].doc
    <3>1. request[p].doc # request[q].doc /\ request[q].doc \in Returns
      BY <2>1, <2>7, InFlight DEF Finds, About, ReturnKinds
    <3> QED BY <2>1, <3>1, ConstantsAssumption DEF Idle, Ends
  <2>8. EntryKinds \cup ReceiptKinds \subseteq ReadsDue
    BY DEF ReadsDue
  <2> QED BY <2>1, <2>3, <2>5, <2>6, <2>7, <2>8, FindsAgain
<1> QED BY <1>1, <1>2

LEMMA StepFound == ASSUME Settled, [Next]_vars PROVE Found'
<1> USE DEF Settled
<1>1. ASSUME NEW q \in Requests, request'[q] = Idle PROVE Finds(q)'
  <2>1. ~Acting(q)'
    BY <1>1 DEF Acting, Idle
  <2> QED BY <2>1, IdleFinds
<1>2. ASSUME UNCHANGED <<sale, ret, owed, entry>>,
             \A q \in Requests : request'[q] = Idle \/ request'[q] = request[q]
      PROVE  Found'
  <2>1. ASSUME NEW q \in Requests, request'[q] = request[q] PROVE Finds(q)'
    <3>1. ASSUME request[q].kind = "return", NEW p \in Requests \ {q}
          PROVE  request'[p].doc # request[q].doc
      <4>1. request[p].doc # request[q].doc /\ request[q].doc \in Returns
        BY <3>1, InFlight DEF Found, Finds, About, ReturnKinds
      <4> QED BY <1>2, <4>1, ConstantsAssumption DEF Idle
    <3> QED BY <1>2, <2>1, <3>1, FindsAgain DEF Found
  <2> QED BY <1>1, <1>2, <2>1 DEF Found
<1>3. CASE Creates
  <2>1. PICK s \in Sales, c \in Carts, q \in Quotations \cup {None} :
            CreateDraft(s, c, q) \/ CreatePaid(s, c, q)
    BY <1>3 DEF Creates
  <2>2. /\ request' = request /\ ret' = ret /\ entry' = entry /\ sale[s] = NoSale
        /\ \A t \in Sales \ {s} : sale'[t] = sale[t]
    BY <2>1, Creators DEF CreateDraft, CreatePaid, ApplyPostings, account
  <2>3. ASSUME NEW p \in Requests PROVE Finds(p)'
    <3>1. Finds(p)
      BY DEF Found
    <3>2. ASSUME request[p].kind \in {"return", "editReturn"}
          PROVE  sale'[request[p].on] = sale[request[p].on]
      <4>1. request[p].on \in Sales /\ request[p].doc \in Returns
        BY <3>2, InFlight DEF About, ReturnKinds
      <4>2. Made(request[p].on)
        <5>1. CASE request[p].kind = "return"
          BY <3>1, <5>1 DEF Finds
        <5>2. CASE request[p].kind = "editReturn"
          <6>1. Keeps(request[p].doc, request[p].on)
            BY <3>1, <5>2 DEF Finds
          <6> QED BY <4>1, <6>1 DEF Rows, ReturnRow, Keeps, Kept
        <5> QED BY <3>2, <5>1, <5>2
      <4>3. request[p].on # s
        BY <2>2, <4>2 DEF Made, NoSale
      <4> QED BY <2>2, <4>1, <4>3
    <3>3. DueAlone /\ request[p].kind \in EntryKinds \cup ReceiptKinds => owed' = owed
      BY <2>1 DEF CreateDraft, CreatePaid, account, NothingAlone, DueAlone, ReadsDue
    <3>4. \A q1 \in Requests \ {p} :
            request'[q1].doc # request[p].doc \/ request[p].kind # "return"
      BY <2>2, <3>1 DEF Finds
    <3> QED BY <2>2, <3>1, <3>2, <3>3, <3>4, FindsAgain
  <2> QED BY <2>3 DEF Found
<1>4. ASSUME NEW r \in Requests, Begins(r) PROVE Found'
  BY <1>4, BeginFound
<1>5. ASSUME NEW r \in Requests,
             WritesSale(r) \/ WritesReturn(r) \/ WritesEntry(r) \/ WritesReceipt(r)
      PROVE  Found'
  <2>1. Ends(r)
    BY <1>5, WritersEnd
  <2>2. ASSUME NEW q \in Requests PROVE Finds(q)'
    <3>1. CASE request'[q] = Idle
      BY <1>1, <3>1
    <3>2. CASE request'[q] # Idle
      BY <1>5, <2>1, <3>2, OthersFind DEF Ends
    <3> QED BY <3>1, <3>2
  <2> QED BY <2>2 DEF Found
<1>6. ASSUME NEW r \in Requests, Abort(r) PROVE Found'
  <2>1. Ends(r) /\ UNCHANGED <<sale, ret, owed, entry>>
    BY <1>6, WritersEnd DEF Abort, account
  <2> QED BY <1>2, <2>1 DEF Ends
<1>7. CASE UNCHANGED vars
  BY <1>2, <1>7 DEF vars
<1> QED BY <1>3, <1>4, <1>5, <1>6, <1>7, Steps

(***************************************************************************)
(* What each posting books.                                                *)
(***************************************************************************)
LEMMA PostBooks ==
    ASSUME NEW v \in Postings, NEW leg \in Legs, NEW ar \in Int, NEW cash \in Int, v[leg] = Blank
    PROVE  /\ Post(v, leg, ar, cash)[leg] = [ar |-> ar, cash |-> cash]
           /\ \A l \in Legs \ {leg} : Post(v, leg, ar, cash)[l] = v[l]
BY DEF Post

LEMMA SaleBooks ==
    ASSUME NEW c \in Cart, NEW v \in Postings, v["main"] = Blank, v["paid"] = Blank
    PROVE  LET w == SaleVouchers(v, c)
           IN  /\ w \in Postings
               /\ w["main"].ar + w["paid"].ar = DueOf(c)
               /\ w["main"].ar + w["main"].cash + w["paid"].ar + w["paid"].cash = c.qty
               /\ \A l \in Legs \ {"main", "paid"} : w[l] = v[l]
<1> DEFINE w == SaleVouchers(v, c)
<1>1. /\ c.qty \in Nat \ {0} /\ c.paid \in Nat /\ DueOf(c) \in Nat
      /\ "main" \in Legs /\ "paid" \in Legs
  BY DueType DEF Cart, Legs
<1>2. w \in Postings
  BY <1>1, SaleVouchersType
<1> DEFINE Booked ==
        /\ w["main"].ar + w["paid"].ar = DueOf(c)
        /\ w["main"].ar + w["main"].cash + w["paid"].ar + w["paid"].cash = c.qty
        /\ \A l \in Legs \ {"main", "paid"} : w[l] = v[l]
<1>3. ASSUME DueOf(c) = 0 PROVE Booked
  <2>1. w = Post(v, "main", 0, c.qty)
    BY <1>3 DEF SaleVouchers
  <2>2. /\ w["main"] = [ar |-> 0, cash |-> c.qty] /\ w["paid"] = Blank
        /\ \A l \in Legs \ {"main", "paid"} : w[l] = v[l]
    <3> HIDE DEF w
    <3> QED BY <1>1, <2>1, PostBooks
  <2> HIDE DEF w
  <2> QED BY <1>1, <1>3, <2>2 DEF Blank
<1>4. ASSUME DueOf(c) # 0 PROVE Booked
  <2> DEFINE u == Post(v, "main", DueOf(c), 0)
  <2>1. /\ u \in Postings /\ u["main"] = [ar |-> DueOf(c), cash |-> 0]
        /\ u["paid"] = Blank /\ \A l \in Legs \ {"main", "paid"} : u[l] = v[l]
    BY <1>1, PostBooks, PostType
  <2>2. w = Post(u, "paid", 0, c.paid)
    BY <1>4 DEF SaleVouchers
  <2> HIDE DEF u
  <2>3. /\ w["main"] = u["main"] /\ w["paid"] = [ar |-> 0, cash |-> c.paid]
        /\ \A l \in Legs \ {"main", "paid"} : w[l] = v[l]
    <3> HIDE DEF w
    <3> QED BY <1>1, <2>1, <2>2, PostBooks
  <2>4. DueOf(c) + c.paid = c.qty
    BY <1>1, <1>4 DEF DueOf
  <2> HIDE DEF w
  <2> QED BY <1>1, <2>1, <2>3, <2>4
<1> QED BY <1>2, <1>3, <1>4

LEMMA ReturnBooks ==
    ASSUME NEW total \in Nat \ {0}, NEW refunded \in Nat, refunded <= total
    PROVE  LET v == ReturnVouchers(total, refunded)
           IN  /\ v["main"].ar + v["paid"].ar = refunded - total
               /\ v["main"].ar + v["main"].cash + v["paid"].ar + v["paid"].cash = -total
               /\ \A l \in Legs \ {"main", "paid"} : v[l] = Blank
<1> DEFINE v == ReturnVouchers(total, refunded)
<1>1. "main" \in Legs /\ "paid" \in Legs
  BY DEF Legs
<1>2. NoVouchers \in Postings /\ \A l \in Legs : NoVouchers[l] = Blank
  BY NothingTypes DEF NoVouchers
<1>3. refunded - total \in Int /\ -refunded \in Int /\ -total \in Int /\ 0 \in Int
  OBVIOUS
<1>4. CASE total > refunded
  <2> DEFINE u == Post(NoVouchers, "main", refunded - total, 0)
  <2>1. /\ u \in Postings /\ u["main"] = [ar |-> refunded - total, cash |-> 0]
        /\ u["paid"] = Blank /\ \A l \in Legs \ {"main", "paid"} : u[l] = Blank
    BY <1>1, <1>2, <1>3, PostBooks, PostType
  <2>2. v = Post(u, "paid", 0, -refunded)
    BY <1>4 DEF ReturnVouchers
  <2> HIDE DEF u, v
  <2>3. /\ v["main"] = u["main"] /\ v["paid"] = [ar |-> 0, cash |-> -refunded]
        /\ \A l \in Legs \ {"main", "paid"} : v[l] = Blank
    BY <1>1, <1>3, <2>1, <2>2, PostBooks
  <2>4. /\ v["main"].ar + v["paid"].ar = refunded - total
        /\ v["main"].ar + v["main"].cash + v["paid"].ar + v["paid"].cash = -total
    BY <2>1, <2>3
  <2> QED BY <2>3, <2>4 DEF v
<1>5. CASE total = refunded
  <2>1. v = Post(NoVouchers, "main", 0, -total)
    BY <1>5 DEF ReturnVouchers
  <2> HIDE DEF v
  <2>2. /\ v["main"] = [ar |-> 0, cash |-> -total] /\ v["paid"] = Blank
        /\ \A l \in Legs \ {"main", "paid"} : v[l] = Blank
    BY <1>1, <1>2, <1>3, <2>1, PostBooks
  <2>3. /\ v["main"].ar + v["paid"].ar = refunded - total
        /\ v["main"].ar + v["main"].cash + v["paid"].ar + v["paid"].cash = -total
    BY <1>5, <2>2 DEF Blank
  <2> QED BY <2>2, <2>3 DEF v
<1> QED BY <1>4, <1>5

\* The vouchers of a payment hold what its row moves.
LEMMA EntryBooks ==
    ASSUME NEW row \in Entry, NEW v \in Postings, row.type # "PAYMENT" => row.discount = 0
    PROVE  LET w == PaymentVouchers(v, row)
           IN  /\ w["main"] = v["main"] /\ w["paid"] = v["paid"] /\ w["stray"] = v["stray"]
               /\ w["account"] = MoneyLeg(row) /\ w["discount"] = [ar |-> -row.discount, cash |-> 0]
               /\ w["account"].ar + w["discount"].ar = RowDelta(row)
<1>1. "account" \in Legs /\ "discount" \in Legs /\ row.discount \in Nat /\ MoneyDelta(row) \in Int
  BY RowTypes DEF Legs, Entry
<1> DEFINE w == PaymentVouchers(v, row)
<1>2. /\ w["main"] = v["main"] /\ w["paid"] = v["paid"] /\ w["stray"] = v["stray"]
      /\ w["account"] = MoneyLeg(row) /\ w["discount"] = [ar |-> -row.discount, cash |-> 0]
  BY <1>1 DEF PaymentVouchers, Legs
<1> HIDE DEF w
<1>3. w["account"].ar + w["discount"].ar = RowDelta(row)
  BY <1>1, <1>2 DEF MoneyLeg, RowDelta
<1> QED BY <1>2, <1>3 DEF w

(***************************************************************************)
(* What becomes of a receipt, and of its vouchers.                         *)
(***************************************************************************)
LEMMA NoReceipt ==
    /\ MoneyDelta(NoEntry) = 0 /\ RowDelta(NoEntry) = 0 /\ MoneyLeg(NoEntry) = Blank
    /\ [ar |-> -NoEntry.discount, cash |-> 0] = Blank
    /\ OwedDelta(NoOwed) = 0 /\ Fits(NoEntry)
BY DEF MoneyDelta, RowDelta, MoneyLeg, NoEntry, Blank, OwedDelta, NoOwed, Fits

\* A receipt for what a sale was overpaid, new or rewritten.
LEMMA ReceiptFits ==
    ASSUME NEW row \in Entry, Fits(row), NEW excess \in Nat
    PROVE  /\ Fits(Received(row, excess)) /\ Fits(Restated(row, excess))
           /\ Undiscounted => RowDelta(Restated(row, excess)) = -excess
<1>1. row.amount \in Nat /\ row.discount \in Nat
  BY DEF Entry
<1>2. /\ Receipt(excess).type = "PAYMENT" /\ Receipt(excess).discount = 0
      /\ Receipt(excess).amount = excess
  BY DEF Receipt
<1>3. CASE excess = 0
  <2>1. Received(row, excess) = row /\ Restated(row, excess) = NoEntry
    BY <1>3 DEF Received, Restated
  <2> QED BY <1>3, <2>1, NoReceipt
<1>4. CASE excess # 0 /\ row.type # "PAYMENT"
  <2>1. Received(row, excess) = Receipt(excess) /\ Restated(row, excess) = Receipt(excess)
    BY <1>4 DEF Received, Restated
  <2>2. Fits(Receipt(excess)) /\ RowDelta(Receipt(excess)) = -excess
    BY <1>2 DEF Fits, RowDelta, MoneyDelta
  <2> QED BY <2>1, <2>2
<1>5. CASE excess # 0 /\ row.type = "PAYMENT"
  <2> DEFINE more == [row EXCEPT !.amount = @ + excess]  anew == [row EXCEPT !.amount = excess]
  <2>1. Received(row, excess) = more /\ Restated(row, excess) = anew
    BY <1>5 DEF Received, Restated
  <2>2. /\ more.type = row.type /\ more.discount = row.discount
        /\ anew.type = row.type /\ anew.discount = row.discount /\ anew.amount = excess
    BY DEF Entry
  <2> HIDE DEF more, anew
  <2>3. Fits(more) /\ Fits(anew)
    BY <2>2 DEF Fits
  <2>4. Undiscounted => RowDelta(anew) = -excess
    BY <1>5, <2>2, <2>3 DEF Fits, RowDelta, MoneyDelta
  <2> QED BY <2>1, <2>3, <2>4
<1> QED BY <1>3, <1>4, <1>5

\* The first receipt of a sale.
LEMMA FirstReceipt ==
    ASSUME NEW excess \in Nat PROVE RowDelta(Received(NoEntry, excess)) = -excess
BY DEF Received, Receipt, NoEntry, RowDelta, MoneyDelta

\* The legs of the invoice are none of the receipt's.
LEMMA ReceiptLegs ==
    ASSUME NEW row, NEW v, NEW w, ReceiptBooks(row, v),
           \A l \in Legs \ {"main", "paid"} : w[l] = v[l]
    PROVE  ReceiptBooks(row, w)
<1>1. w["account"] = v["account"] /\ w["discount"] = v["discount"] /\ w["stray"] = v["stray"]
  BY DEF Legs
<1> QED BY <1>1 DEF ReceiptBooks

LEMMA ReceiptPosted ==
    ASSUME NEW row \in Entry, NEW v \in Postings, ReceiptBooks(NoEntry, v), Fits(row)
    PROVE  LET w == [v EXCEPT !.account = MoneyLeg(row)]
           IN  /\ w \in Postings /\ ReceiptBooks(row, w)
               /\ \A l \in Legs \ {"account"} : w[l] = v[l]
<1> DEFINE w == [v EXCEPT !.account = MoneyLeg(row)]
<1>1. "account" \in Legs /\ "discount" \in Legs /\ "stray" \in Legs
  BY DEF Legs
<1>2. w \in Postings
  BY RowTypes
<1>3. w["account"] = MoneyLeg(row) /\ \A l \in Legs \ {"account"} : w[l] = v[l]
  BY <1>1
<1> HIDE DEF w
<1>4. w["discount"] = v["discount"] /\ w["stray"] = v["stray"]
  BY <1>1, <1>3
<1>5. MoneyLeg(row).ar = MoneyDelta(row)
  BY DEF MoneyLeg
<1>6. ReceiptBooks(row, w)
  BY <1>3, <1>4, <1>5, NoReceipt DEF ReceiptBooks
<1> QED BY <1>2, <1>3, <1>6 DEF w

LEMMA ReceiptEdited ==
    ASSUME NEW row, NEW next \in Entry, NEW v \in Postings, ReceiptBooks(row, v), Fits(next)
    PROVE  LET w == PaymentVouchers(v, next)
           IN  /\ w \in Postings /\ ReceiptBooks(next, w)
               /\ w["main"] = v["main"] /\ w["paid"] = v["paid"]
<1> DEFINE w == PaymentVouchers(v, next)
<1>1. "account" \in Legs /\ "discount" \in Legs /\ next.discount \in Nat
  BY DEF Legs, Entry
<1>2. w \in Postings
  BY RowTypes
<1>3. /\ w["main"] = v["main"] /\ w["paid"] = v["paid"] /\ w["stray"] = v["stray"]
      /\ w["account"] = MoneyLeg(next) /\ w["discount"] = [ar |-> -next.discount, cash |-> 0]
  BY <1>1 DEF PaymentVouchers, Legs
<1> HIDE DEF w
<1>4. w["account"].ar = MoneyDelta(next)
  BY <1>3 DEF MoneyLeg
<1>5. next = NoEntry => w["account"] = Blank /\ w["discount"] = Blank
  BY <1>3, NoReceipt
<1>6. Undiscounted => w["discount"].ar = 0
  BY <1>1, <1>3 DEF Fits
<1>7. ReceiptBooks(next, w)
  BY <1>3, <1>4, <1>5, <1>6 DEF ReceiptBooks
<1> QED BY <1>2, <1>3, <1>7 DEF w

LEMMA ReceiptDropped ==
    ASSUME NEW row \in Entry, NEW v \in Postings, ReceiptBooks(row, v)
    PROVE  LET w == DropReceipt(v, row)
           IN  /\ w \in Postings /\ ReceiptBooks(NoEntry, w)
               /\ w["main"] = v["main"] /\ w["paid"] = v["paid"]
<1> DEFINE u == PaymentVouchers(v, NoEntry)
           w == DropReceipt(v, row)
<1>1. u \in Postings /\ ReceiptBooks(NoEntry, u) /\ u["main"] = v["main"] /\ u["paid"] = v["paid"]
  BY NothingTypes, NoReceipt, ReceiptEdited
<1>2. w \in Postings
  BY RowTypes
<1>3. CASE row.type # "PAYOUT"
  BY <1>1, <1>2, <1>3 DEF DropReceipt
<1>4. CASE row.type = "PAYOUT"
  <2>1. ~StillPayments
    BY <1>4 DEF ReceiptBooks, Fits
  <2>2. \E left : w = [u EXCEPT !.stray = left]
    BY <1>4 DEF DropReceipt
  <2> HIDE DEF w, u
  <2>3. \A l \in Legs \ {"stray"} : w[l] = u[l]
    BY <1>1, <2>2
  <2>4. /\ w["main"] = u["main"] /\ w["paid"] = u["paid"]
        /\ w["account"] = u["account"] /\ w["discount"] = u["discount"]
    BY <2>3 DEF Legs
  <2>5. ReceiptBooks(NoEntry, w)
    BY <1>1, <2>1, <2>4 DEF ReceiptBooks
  <2> QED BY <1>1, <1>2, <2>4, <2>5 DEF w
<1> QED BY <1>3, <1>4

\* The vouchers of a sale's invoice are voided, or there are none.
LEMMA Voided ==
    ASSUME NEW v \in Postings
    PROVE  /\ Unposted(v) \in Postings
           /\ Unposted(v)["main"] = Blank /\ Unposted(v)["paid"] = Blank
           /\ \A l \in Legs \ {"main", "paid"} : Unposted(v)[l] = v[l]
BY UnpostedType DEF Unposted, Legs

(***************************************************************************)
(* Every step changes one document, and the totals by what it changes.     *)
(***************************************************************************)
Held(s) == IF Posted(s) THEN sale[s].qty ELSE 0
Back(x) == IF Kept(x) THEN ret[x].qty ELSE 0

KeepsReturns(s) ==
    /\ \A x \in Returns : SameReturn(x)
    /\ SoldFirst => ret' = ret /\ OfSale(s) = {}

SaleStep(s) ==
    /\ \A t \in Sales \ {s} : sale'[t] = sale[t] /\ owed'[t] = owed[t]
    /\ \A d \in Docs \ {s} : voucher'[d] = voucher[d]
    /\ UNCHANGED <<adjusted, entry>>
    /\ stock' = stock + Held(s) - Held(s)'
    /\ DueAlone /\ Undiscounted => due' = due + OwedDelta(owed'[s]) - OwedDelta(owed[s])
    /\ SaleRow(s)' /\ Made(s)'
    /\ KeepsReturns(s) \/ (ret' = ret /\ sale' = sale)

ReturnStep(x) ==
    /\ \A y \in Returns \ {x} : ret'[y] = ret[y] /\ adjusted'[y] = adjusted[y]
    /\ \A d \in Docs \ {x} : voucher'[d] = voucher[d]
    /\ UNCHANGED <<sale, owed, entry>>
    /\ stock' = stock - Back(x) + Back(x)'
    /\ DueAlone => due' = due + adjusted'[x] - adjusted[x]
    /\ ReturnRow(x)'
    /\ Kept(x)' => \/ Keeps(x, ret'[x].sale) /\ ret'[x].qty = ret[x].qty
                   \/ ret'[x].qty <= OpenOf(ret'[x].sale, Returns \ {x})

EntryStep(e) ==
    /\ \A f \in Entries \ {e} : entry'[f] = entry[f]
    /\ \A d \in Docs \ {e} : voucher'[d] = voucher[d]
    /\ UNCHANGED <<stock, sale, owed, ret, adjusted>>
    /\ DueAlone => due' = due + RowDelta(entry'[e]) - RowDelta(entry[e])
    /\ EntryRow(e)'

NoStep == UNCHANGED <<stock, sale, ret, account>>

LEMMA PostingBooks ==
    ASSUME Types, NEW s \in Sales, NEW c \in Cart, NEW seen \in Int, ApplyPostings(s, c, seen),
           SaleRow(s), ~Posted(s), DueAlone /\ DueOf(c) > 0 => seen = due,
           sale'[s].status = "COMPLETED", sale'[s].qty = c.qty,
           \A t \in Sales \ {s} : sale'[t] = sale[t], KeepsReturns(s)
    PROVE  SaleStep(s)
<1>1. /\ c.qty \in Nat /\ DueOf(c) \in Nat /\ ExcessOf(c) \in Nat
      /\ DueOf(c) > 0 => ExcessOf(c) = 0
  BY DueType DEF Cart, DueOf, ExcessOf
<1>2. /\ stock \in Nat /\ due \in Int /\ s \in Docs
      /\ owed \in [Sales -> Owed] /\ voucher \in [Docs -> Postings] /\ voucher[s] \in Postings
  BY DEF Types, RowsOK, Docs
<1>3. /\ voucher[s]["main"] = Blank /\ voucher[s]["paid"] = Blank
      /\ owed[s].credit = 0 /\ owed[s].receipt = NoEntry
      /\ ReceiptBooks(NoEntry, voucher[s])
  BY DEF SaleRow, NoOwed
<1> DEFINE row == Received(NoEntry, ExcessOf(c))
           next == [credit |-> DueOf(c), receipt |-> row]
           posted == SaleVouchers(voucher[s], c)
           receipted == [posted EXCEPT !.account = MoneyLeg(row)]
<1>4. /\ owed' = [owed EXCEPT ![s] = next]
      /\ voucher' = [voucher EXCEPT ![s] = receipted]
      /\ stock' = stock - c.qty
      /\ due' = IF DueOf(c) > 0 THEN seen + DueOf(c) ELSE due - ExcessOf(c)
      /\ UNCHANGED <<adjusted, entry>>
  <2>1. owed[s].credit + DueOf(c) = DueOf(c) /\ Received(owed[s].receipt, ExcessOf(c)) = row
    BY <1>1, <1>3
  <2>2. /\ owed' = [owed EXCEPT ![s] = [credit |-> owed[s].credit + DueOf(c),
                                        receipt |-> Received(owed[s].receipt, ExcessOf(c))]]
        /\ voucher' = [voucher EXCEPT ![s] = [SaleVouchers(voucher[s], c) EXCEPT
                !.account = MoneyLeg(Received(owed[s].receipt, ExcessOf(c)))]]
        /\ stock' = stock - c.qty
        /\ due' = IF DueOf(c) > 0 THEN seen + DueOf(c) ELSE due - ExcessOf(c)
        /\ UNCHANGED <<adjusted, entry>>
    BY DEF ApplyPostings
  <2> QED BY <2>1, <2>2
<1>5. /\ row \in Entry /\ Fits(row) /\ RowDelta(row) = -ExcessOf(c)
  BY <1>1, NothingTypes, NoReceipt, RowTypes, ReceiptFits, FirstReceipt
<1>6. next.credit = DueOf(c) /\ next.receipt = row
  OBVIOUS
<1>7. /\ posted \in Postings
      /\ posted["main"].ar + posted["paid"].ar = DueOf(c)
      /\ posted["main"].ar + posted["main"].cash + posted["paid"].ar + posted["paid"].cash = c.qty
      /\ \A l \in Legs \ {"main", "paid"} : posted[l] = voucher[s][l]
  BY <1>2, <1>3, SaleBooks
<1> HIDE DEF row, next, posted
<1>8. ReceiptBooks(NoEntry, posted)
  BY <1>3, <1>7, ReceiptLegs
<1>9. /\ ReceiptBooks(row, receipted)
      /\ receipted["main"] = posted["main"] /\ receipted["paid"] = posted["paid"]
  BY <1>5, <1>7, <1>8, ReceiptPosted DEF Legs
<1> HIDE DEF receipted
<1>10. /\ owed'[s] = next /\ voucher'[s] = receipted
       /\ \A t \in Sales \ {s} : owed'[t] = owed[t]
       /\ \A d \in Docs \ {s} : voucher'[d] = voucher[d]
  BY <1>2, <1>4
<1>11. SaleRow(s)'
  BY <1>6, <1>7, <1>9, <1>10 DEF SaleRow, OfInvoice, Revenue, Posted, ReceiptBooks, Fits,
                                 StillPayments, Undiscounted
<1>12. stock' = stock + Held(s) - Held(s)'
  BY <1>1, <1>2, <1>4 DEF Held, Posted
<1>13. DueAlone => due' = due + OwedDelta(owed'[s]) - OwedDelta(owed[s])
  <2>1. OwedDelta(owed'[s]) = DueOf(c) - ExcessOf(c) /\ OwedDelta(owed[s]) = 0
    BY <1>1, <1>3, <1>5, <1>6, <1>10, NoReceipt DEF OwedDelta
  <2> QED BY <1>1, <1>2, <1>4, <2>1
<1> QED BY <1>4, <1>10, <1>11, <1>12, <1>13 DEF SaleStep, Made

\* A step that leaves the account alone, on a sale that is not posted.
LEMMA UnpostedStep ==
    ASSUME Types, NEW s \in Sales, SaleRow(s), ~Posted(s), ~Posted(s)', Made(s)',
           \A t \in Sales \ {s} : sale'[t] = sale[t], UNCHANGED <<stock, account>>,
           KeepsReturns(s)
    PROVE  SaleStep(s)
<1>1. due \in Int /\ stock \in Nat /\ owed[s] \in Owed
  BY DEF Types, RowsOK
<1>2. owed' = owed /\ voucher' = voucher /\ due' = due /\ UNCHANGED <<adjusted, entry>>
  BY DEF account
<1>3. SaleRow(s)'
  BY <1>2 DEF SaleRow, OfInvoice, Revenue, ReceiptBooks, Fits, StillPayments, Undiscounted
<1>4. stock' = stock + Held(s) - Held(s)'
  BY <1>1 DEF Held
<1>5. OwedDelta(owed[s]) \in Int
  BY <1>1, OwedTypes
<1> QED BY <1>1, <1>2, <1>3, <1>4, <1>5 DEF SaleStep

\* A reversal of a posted sale.
LEMMA ReversalBooks ==
    ASSUME Types, NEW s \in Sales, Posted(s), ~Posted(s)', Made(s)', Reverse(s, sale[s]),
           SaleRow(s), \A t \in Sales \ {s} : sale'[t] = sale[t], KeepsReturns(s)
    PROVE  SaleStep(s)
<1>1. /\ due \in Int /\ stock \in Nat /\ owed[s] \in Owed
      /\ sale[s].qty \in Nat /\ s \in Docs /\ owed[s].receipt \in Entry
      /\ owed \in [Sales -> Owed] /\ voucher \in [Docs -> Postings] /\ voucher[s] \in Postings
  BY OwedTypes DEF Types, RowsOK, Sale, Docs
<1> DEFINE u == Unposted(voucher[s])
           v == DropReceipt(u, owed[s].receipt)
<1>2. /\ owed'[s] = NoOwed /\ voucher'[s] = v
      /\ \A t \in Sales \ {s} : owed'[t] = owed[t]
      /\ \A d \in Docs \ {s} : voucher'[d] = voucher[d]
      /\ UNCHANGED <<adjusted, entry>>
  BY <1>1 DEF Reverse
<1>3. /\ u \in Postings /\ u["main"] = Blank /\ u["paid"] = Blank
      /\ \A l \in Legs \ {"main", "paid"} : u[l] = voucher[s][l]
  BY <1>1, Voided
<1> HIDE DEF u
<1>4. ReceiptBooks(owed[s].receipt, u)
  BY <1>3, ReceiptLegs DEF SaleRow
<1>5. ReceiptBooks(NoEntry, v) /\ v["main"] = Blank /\ v["paid"] = Blank
  BY <1>1, <1>3, <1>4, ReceiptDropped
<1> HIDE DEF v
<1>6. SaleRow(s)'
  BY <1>2, <1>5 DEF SaleRow, OfInvoice, Revenue, Blank, NoOwed, ReceiptBooks, Fits,
                    StillPayments, Undiscounted
<1>7. stock' = stock + Held(s) - Held(s)'
  BY <1>1 DEF Reverse, Held
<1>8. due' = due + OwedDelta(owed'[s]) - OwedDelta(owed[s])
  <2>1. OwedDelta(owed[s]) \in Int
    BY <1>1, OwedTypes
  <2> QED BY <1>1, <1>2, <2>1, NoReceipt DEF Reverse
<1> QED BY <1>2, <1>6, <1>7, <1>8 DEF SaleStep

LEMMA RestatementBooks ==
    ASSUME Types, NEW s \in Sales, NEW c \in Cart, NEW b, SaleRow(s), Posted(s),
           RestateAccount(s, sale[s], c, b), stock' = stock + sale[s].qty - c.qty,
           sale'[s].status = "COMPLETED", sale'[s].qty = c.qty,
           \A t \in Sales \ {s} : sale'[t] = sale[t], KeepsReturns(s)
    PROVE  SaleStep(s)
<1>0. Made(s)'
  BY DEF Made
<1>1. /\ due \in Int /\ stock \in Nat /\ owed[s] \in Owed /\ owed[s].receipt \in Entry
      /\ OwedDelta(owed[s]) \in Int /\ sale[s].qty \in Nat /\ s \in Docs
      /\ owed \in [Sales -> Owed] /\ voucher \in [Docs -> Postings] /\ voucher[s] \in Postings
      /\ c.qty \in Nat /\ DueOf(c) \in Nat /\ ExcessOf(c) \in Nat
  BY DueType, OwedTypes DEF Types, RowsOK, Sale, Docs, Cart
<1>2. stock' = stock + Held(s) - Held(s)'
  BY <1>1 DEF Held, Posted
<1>3. CASE UNCHANGED account /\ c.qty = sale[s].qty
  <2>1. owed' = owed /\ voucher' = voucher /\ due' = due /\ UNCHANGED <<adjusted, entry>>
    BY <1>3 DEF account
  <2>2. SaleRow(s)'
    BY <1>3, <2>1 DEF SaleRow, OfInvoice, Revenue, Posted, ReceiptBooks, Fits, StillPayments,
                      Undiscounted
  <2> QED BY <1>0, <1>1, <1>2, <2>1, <2>2 DEF SaleStep
<1>4. CASE Restates(s, c)
  <2> DEFINE held == owed[s].receipt
             row == Restated(held, ExcessOf(c))
             next == [credit |-> DueOf(c), receipt |-> row]
  <2>1. /\ owed' = [owed EXCEPT ![s] = next]
        /\ due' = due + DueOf(c) - ExcessOf(c) - OwedDelta(owed[s])
        /\ UNCHANGED <<adjusted, entry>>
    BY <1>4 DEF Restates
  <2>2. PICK v : /\ \/ v = voucher[s] /\ row = held
                    \/ v = [DropReceipt(voucher[s], held) EXCEPT !.account = MoneyLeg(row)]
                 /\ voucher' = [voucher EXCEPT ![s] = SaleVouchers(Unposted(v), c)]
    BY <1>4 DEF Restates
  <2>3. ReceiptBooks(held, voucher[s]) /\ held \in Entry /\ Fits(held)
    BY <1>1 DEF SaleRow, ReceiptBooks
  <2>4. /\ row \in Entry /\ Fits(row)
        /\ Undiscounted => RowDelta(row) = -ExcessOf(c)
    BY <1>1, <2>3, RowTypes, ReceiptFits
  <2>5. next.credit = DueOf(c) /\ next.receipt = row
    OBVIOUS
  <2> HIDE DEF held, row, next
  <2>6. v \in Postings /\ ReceiptBooks(row, v)
    <3>1. DropReceipt(voucher[s], held) \in Postings
          /\ ReceiptBooks(NoEntry, DropReceipt(voucher[s], held))
      BY <1>1, <2>3, ReceiptDropped
    <3>2. ASSUME NEW u \in Postings, ReceiptBooks(NoEntry, u)
          PROVE  [u EXCEPT !.account = MoneyLeg(row)] \in Postings
                 /\ ReceiptBooks(row, [u EXCEPT !.account = MoneyLeg(row)])
      BY <2>4, <3>2, ReceiptPosted
    <3> QED BY <1>1, <2>2, <2>3, <3>1, <3>2
  <2> DEFINE u == Unposted(v)
             w == SaleVouchers(u, c)
  <2>7. /\ u \in Postings /\ u["main"] = Blank /\ u["paid"] = Blank
        /\ \A l \in Legs \ {"main", "paid"} : u[l] = v[l]
    BY <2>6, Voided
  <2> HIDE DEF u
  <2>8. /\ w["main"].ar + w["paid"].ar = DueOf(c)
        /\ w["main"].ar + w["main"].cash + w["paid"].ar + w["paid"].cash = c.qty
        /\ \A l \in Legs \ {"main", "paid"} : w[l] = u[l]
    BY <2>7, SaleBooks
  <2>9. voucher' = [voucher EXCEPT ![s] = w]
    BY <2>2 DEF u
  <2> HIDE DEF w
  <2>10. ReceiptBooks(row, w)
    BY <2>6, <2>7, <2>8, ReceiptLegs
  <2>11. /\ owed'[s] = next /\ \A t \in Sales \ {s} : owed'[t] = owed[t]
         /\ voucher'[s] = w /\ \A d \in Docs \ {s} : voucher'[d] = voucher[d]
    BY <1>1, <2>1, <2>9
  <2>12. SaleRow(s)'
    BY <2>5, <2>8, <2>10, <2>11 DEF SaleRow, OfInvoice, Revenue, Posted, ReceiptBooks, Fits,
                                    StillPayments, Undiscounted
  <2>13. Undiscounted => due' = due + OwedDelta(owed'[s]) - OwedDelta(owed[s])
    <3>1. Undiscounted => OwedDelta(owed'[s]) = DueOf(c) - ExcessOf(c)
      BY <1>1, <2>4, <2>5, <2>11 DEF OwedDelta
    <3> QED BY <1>1, <2>1, <3>1
  <2> QED BY <1>0, <1>2, <2>1, <2>11, <2>12, <2>13 DEF SaleStep
<1> QED BY <1>3, <1>4, Restating

LEMMA CreateSteps ==
    ASSUME Settled, NEW s \in Sales, NEW c \in Carts,
           NEW q \in Quotations \cup {None}, CreateDraft(s, c, q) \/ CreatePaid(s, c, q)
    PROVE  SaleStep(s)
<1> USE DEF Settled
<1>1. /\ c \in Cart /\ sale[s] = NoSale /\ ~Posted(s) /\ SaleRow(s)
      /\ \A t \in Sales \ {s} : sale'[t] = sale[t]
      /\ sale \in [Sales -> Sale] /\ due \in Int /\ s # None
  BY CartsAreCarts, Creators, ConstantsAssumption DEF Types, RowsOK, Rows, Posted, NoSale
<1>2. KeepsReturns(s)
  <2>1. ret' = ret
    BY DEF CreateDraft, CreatePaid
  <2>2. OfSale(s) = {}
    BY <1>1 DEF Rows, ReturnRow, OfSale, Made, NoSale
  <2> QED BY <2>1, <2>2 DEF KeepsReturns, SameReturn
<1>3. CASE CreateDraft(s, c, q)
  <2>1. ~Posted(s)' /\ Made(s)' /\ UNCHANGED <<stock, account>>
    BY <1>1, <1>3 DEF CreateDraft, NewSale, Posted, Made
  <2> QED BY <1>1, <1>2, <2>1, UnpostedStep
<1>4. CASE CreatePaid(s, c, q)
  <2>1. sale'[s] = NewSale(c, "COMPLETED", q, FALSE) /\ ApplyPostings(s, c, due)
    BY <1>1, <1>4 DEF CreatePaid
  <2>2. sale'[s].status = "COMPLETED" /\ sale'[s].qty = c.qty
    BY <2>1 DEF NewSale
  <2> QED BY <1>1, <1>2, <2>1, <2>2, PostingBooks
<1> QED BY <1>3, <1>4

LEMMA SaleWriterSteps ==
    ASSUME SalesApart, Settled, NEW r \in Requests, WritesSale(r)
    PROVE  \E s \in Sales : SaleStep(s)
<1> USE DEF Settled
<1>0. PICK s, seen : s = request[r].doc /\ seen = request[r].seen
  OBVIOUS
<1>1. /\ s \in Sales /\ KeepsReturns(s) /\ SaleRow(s)
      /\ \A t \in Sales \ {s} : sale'[t] = sale[t]
      /\ sale \in [Sales -> Sale] /\ due \in Int /\ request[r].due \in Int
  <2>1. s \in Sales /\ \A t \in Sales \ {s} : sale'[t] = sale[t]
    BY <1>0, SaleWriters
  <2>2. KeepsReturns(s)
    BY <1>0, SaleWritersKeepReturns DEF KeepsReturns
  <2>3. sale \in [Sales -> Sale] /\ due \in Int /\ request[r].due \in Int
    BY InFlight DEF Types, RowsOK, Request
  <2> QED BY <2>1, <2>2, <2>3 DEF Rows
<1>2. Carts \subseteq Cart
  BY CartsAreCarts
<1>3. ASSUME NEW c \in Carts, CreateOnCredit(r, c) \/ Bill(r, c) PROVE SaleStep(s)
  <2>0. request[r].kind \in {"credit", "bill"}
    BY <1>3 DEF CreateOnCredit, Bill
  <2>1. ~Posted(s) /\ (DueAlone => request[r].due = due)
    <3>1. sale[s] = NoSale
      BY <1>0, <2>0 DEF Fresh
    <3>2. DueAlone => request[r].due = due
      BY <2>0 DEF SoloIfAlone, Solo, ReadsDue
    <3> QED BY <3>1, <3>2 DEF Posted, NoSale
  <2>2. ApplyPostings(s, c, request[r].due)
        /\ \E q, b : sale'[s] = NewSale(c, "COMPLETED", q, b)
    <3>1. ApplyPostings(s, c, request[r].due)
      BY <1>0, <1>3 DEF CreateOnCredit, Bill
    <3>2. \E q, b : sale' = [sale EXCEPT ![s] = NewSale(c, "COMPLETED", q, b)]
      BY <1>0, <1>3 DEF CreateOnCredit, Bill
    <3> QED BY <1>1, <2>1, <3>1, <3>2
  <2>3. sale'[s].status = "COMPLETED" /\ sale'[s].qty = c.qty
    BY <2>2 DEF NewSale
  <2> QED BY <1>1, <1>2, <2>1, <2>2, <2>3, PostingBooks
<1>4. ASSUME NEW c \in Carts, FinalizeDraft(r, c) PROVE SaleStep(s)
  <2>1. ~Posted(s)
    BY <1>0, <1>4 DEF FinalizeDraft, Seen, SaleKinds, Posted
  <2>2. DueAlone /\ DueOf(c) > 0 => request[r].due = due
    BY <1>4 DEF FinalizeDraft, SoloIfAlone, Solo, ReadsDue
  <2>3. /\ ApplyPostings(s, c, request[r].due)
        /\ sale' = [sale EXCEPT ![s] = [@ EXCEPT !.status = "COMPLETED", !.qty = c.qty,
                                                 !.paid = c.paid]]
    BY <1>0, <1>4 DEF FinalizeDraft
  <2>4. /\ sale'[s] = [sale[s] EXCEPT !.status = "COMPLETED", !.qty = c.qty, !.paid = c.paid]
        /\ sale[s] \in Sale
    BY <1>1, <2>3
  <2>5. sale'[s].status = "COMPLETED" /\ sale'[s].qty = c.qty
    BY <2>4 DEF Sale
  <2> QED BY <1>1, <1>2, <2>1, <2>2, <2>3, <2>5, PostingBooks
<1>5. ASSUME NEW c \in Carts, NEW status, NEW b \in BOOLEAN, Update(r, c, status, b)
      PROVE  SaleStep(s)
  <2>1. seen = sale[s] /\ SaleExists(s) /\ seen.status # "CANCELLED" /\ sale[s] \in Sale
    BY <1>0, <1>1, <1>5 DEF Update, Seen, SaleKinds
  <2>2. sale' = [sale EXCEPT ![s] = [@ EXCEPT !.qty = c.qty, !.paid = c.paid,
                                              !.status = status]]
    BY <1>0, <1>5 DEF Update
  <2>3. sale'[s] = [sale[s] EXCEPT !.qty = c.qty, !.paid = c.paid, !.status = status]
    BY <1>1, <2>2
  <2>4. sale'[s].status = status /\ sale'[s].qty = c.qty
    BY <2>1, <2>3 DEF Sale
  <2>5. CASE seen.status = "DRAFT"
    <3>1. status = "DRAFT" /\ UNCHANGED <<stock, account>>
      BY <1>0, <1>5, <2>5 DEF Update
    <3>2. ~Posted(s) /\ ~Posted(s)' /\ Made(s)'
      BY <2>1, <2>4, <2>5, <3>1 DEF Posted, Made
    <3> QED BY <1>1, <3>1, <3>2, UnpostedStep
  <2>6. CASE seen.status # "DRAFT"
    <3>1. /\ status = "COMPLETED" /\ stock' = stock + sale[s].qty - c.qty
          /\ RestateAccount(s, sale[s], c, b)
      BY <1>0, <1>5, <2>1, <2>6 DEF Update, SalesApart
    <3>2. Posted(s)
      BY <2>1, <2>6 DEF Posted, SaleExists, Sale, SaleStatus
    <3> QED BY <1>1, <1>2, <2>4, <3>1, <3>2, RestatementBooks
  <2> QED BY <2>5, <2>6
<1>6. ASSUME Cancel(r) \/ Remove(r) PROVE SaleStep(s)
  <2>1. seen = sale[s] /\ SaleExists(s) /\ sale[s] \in Sale
    BY <1>0, <1>1, <1>6 DEF Cancel, Remove, Seen, SaleKinds
  <2>2. ~Posted(s)' /\ Made(s)'
    <3>1. CASE Cancel(r)
      <4>1. sale' = [sale EXCEPT ![s] = [@ EXCEPT !.status = "CANCELLED"]]
        BY <1>0, <3>1 DEF Cancel
      <4>2. sale'[s] = [sale[s] EXCEPT !.status = "CANCELLED"]
        BY <1>1, <4>1
      <4>3. sale'[s].status = "CANCELLED"
        BY <2>1, <4>2 DEF Sale
      <4> QED BY <4>3 DEF Posted, Made
    <3>2. CASE Remove(r)
      BY <1>0, <1>1, <3>2 DEF Remove, NoSale, Posted, Made
    <3> QED BY <1>6, <3>1, <3>2
  <2>3. CASE Posted(s)
    <3>1. Reverse(s, sale[s])
      BY <1>0, <1>6, <2>1, <2>3 DEF Cancel, Remove, Posted
    <3> QED BY <1>1, <2>2, <2>3, <3>1, ReversalBooks
  <2>4. CASE ~Posted(s)
    <3>1. seen.status \in {"DRAFT", "CANCELLED"}
      BY <2>1, <2>4 DEF Posted, SaleExists, Sale, SaleStatus
    <3>2. Cancel(r) => seen.status # "CANCELLED"
      BY <1>0 DEF Cancel, Seen
    <3>3. UNCHANGED <<stock, account>>
      BY <1>0, <1>6, <3>1, <3>2 DEF Cancel, Remove
    <3> QED BY <1>1, <2>2, <2>4, <3>3, UnpostedStep
  <2> QED BY <2>3, <2>4
<1> QED BY <1>1, <1>3, <1>4, <1>5, <1>6 DEF WritesSale

LEMMA ReceiptSteps ==
    ASSUME Settled, NEW r \in Requests, WritesReceipt(r) PROVE \E s \in Sales : SaleStep(s)
<1> USE DEF Settled
<1>0. PICK s : s = request[r].doc
  OBVIOUS
<1>1. /\ s \in Sales /\ SaleRow(s) /\ s \in Docs /\ request[r].kind \in ReceiptKinds
      /\ request[r].row \in Entry
  BY <1>0, ReceiptWriters DEF Rows, Docs
<1>2. DueAlone => request[r].due = due /\ request[r].row = owed[s].receipt
  BY <1>0, <1>1 DEF SoloIfAlone, Solo, ReadsDue, Found, Finds
<1>3. PICK row \in ReceiptEdits \cup {NoEntry} : WriteReceipt(r, s, row)
  BY <1>0, ReceiptWriters
<1>4. /\ owed \in [Sales -> Owed] /\ voucher \in [Docs -> Postings]
      /\ owed[s] \in Owed /\ owed[s].receipt \in Entry /\ voucher[s] \in Postings
      /\ owed[s].credit \in Nat /\ sale[s].qty \in Nat /\ stock \in Nat /\ due \in Int
  BY <1>1, OwedTypes DEF Types, RowsOK, Sale
<1>5. row \in Entry /\ Fits(row)
  <2>1. row \in Entry
    BY CartsAreCarts, NothingTypes
  <2>2. row \in ReceiptEdits => Fits(row)
    BY DEF Fits, StillPayments, Undiscounted
  <2> QED BY <2>1, <2>2, NoReceipt
<1> DEFINE v == PaymentVouchers(voucher[s], row)
           next == [owed[s] EXCEPT !.receipt = row]
<1>6. /\ owed[s].receipt # NoEntry
      /\ owed' = [owed EXCEPT ![s] = next] /\ voucher' = [voucher EXCEPT ![s] = v]
      /\ due' = request[r].due + RowDelta(row) - RowDelta(request[r].row)
      /\ UNCHANGED <<stock, sale, ret, adjusted, entry>>
  BY <1>3 DEF WriteReceipt
<1>7. next.credit = owed[s].credit /\ next.receipt = row
  BY <1>4 DEF Owed
<1>8. /\ v \in Postings /\ ReceiptBooks(row, v)
      /\ v["main"] = voucher[s]["main"] /\ v["paid"] = voucher[s]["paid"]
  <2>1. ReceiptBooks(owed[s].receipt, voucher[s])
    BY <1>1 DEF SaleRow
  <2> QED BY <1>4, <1>5, <2>1, ReceiptEdited
<1> HIDE DEF v, next
<1>9. /\ owed'[s] = next /\ voucher'[s] = v
      /\ \A t \in Sales \ {s} : owed'[t] = owed[t]
      /\ \A d \in Docs \ {s} : voucher'[d] = voucher[d]
  BY <1>1, <1>4, <1>6
<1>10. Posted(s) /\ Posted(s)' /\ Made(s)'
  <2>1. owed[s] # NoOwed
    BY <1>6 DEF NoOwed
  <2>2. Posted(s)
    BY <1>1, <2>1 DEF SaleRow
  <2> QED BY <1>6, <2>2 DEF Posted, Made
<1>11. SaleRow(s)'
  <2>1. OfInvoice(s)' = owed'[s].credit /\ Revenue(s)' = sale'[s].qty
    BY <1>1, <1>6, <1>7, <1>8, <1>9, <1>10 DEF SaleRow, OfInvoice, Revenue
  <2>2. ReceiptBooks(owed'[s].receipt, voucher'[s])
    BY <1>7, <1>8, <1>9
  <2> QED BY <1>10, <2>1, <2>2 DEF SaleRow, ReceiptBooks, Fits, StillPayments, Undiscounted
<1>12. stock' = stock + Held(s) - Held(s)'
  BY <1>4, <1>6 DEF Held, Posted
<1>13. DueAlone => due' = due + OwedDelta(owed'[s]) - OwedDelta(owed[s])
  <2>1. RowDelta(row) \in Int /\ RowDelta(owed[s].receipt) \in Int
    BY <1>4, <1>5, RowTypes
  <2> QED BY <1>2, <1>4, <1>6, <1>7, <1>9, <2>1 DEF OwedDelta
<1>14. SaleStep(s)
  BY <1>6, <1>9, <1>10, <1>11, <1>12, <1>13 DEF SaleStep
<1> QED BY <1>1, <1>14

\* What settling a return comes to, told how it was refunded or guessing it.
LEMMA SettlingBooks ==
    ASSUME Types, NEW x \in Returns, NEW seen, NEW row \in Return, NEW read \in Int,
           NEW held \in Int, Settle(x, seen, row, read, held),
           Told => row.tendered, row.qty # 0, row.status = "KEPT", row.sale \in Sales,
           Made(row.sale), SoldFirst => Posted(row.sale) /\ row.linked,
           sale' = sale, ret' = [ret EXCEPT ![x] = row]
    PROVE  /\ read = held => due' = held + adjusted'[x]
           /\ adjusted'[x] \in Int
           /\ \A y \in Returns \ {x} : ret'[y] = ret[y] /\ adjusted'[y] = adjusted[y]
           /\ \A d \in Docs \ {x} : voucher'[d] = voucher[d]
           /\ UNCHANGED <<owed, entry>>
           /\ ReturnRow(x)'
<1> DEFINE taken == IF row.tendered THEN row.qty - row.refunded
                    ELSE IF DueOf(seen) > 0 THEN Clamp(read, row.qty) ELSE 0
           posted == IF row.tendered THEN ReturnVouchers(row.qty, row.refunded)
                     ELSE IF DueOf(seen) > 0 THEN Post(NoVouchers, "main", -row.qty, 0)
                     ELSE Post(NoVouchers, "main", 0, -row.qty)
<1>1. /\ row.qty \in Nat \ {0} /\ row.refunded \in Nat /\ x \in Docs
      /\ ret \in [Returns -> Return] /\ adjusted \in [Returns -> Int]
      /\ voucher \in [Docs -> Postings]
  BY DEF Types, RowsOK, Return, Docs
<1>2. /\ row.refunded <= row.qty
      /\ due' = IF taken > 0 THEN read - taken ELSE held
      /\ adjusted' = [adjusted EXCEPT ![x] = -taken]
      /\ voucher' = [voucher EXCEPT ![x] = posted]
      /\ UNCHANGED <<owed, entry>>
  BY DEF Settle
<1>3. taken \in Nat
  BY <1>1, <1>2 DEF Clamp
<1>4. /\ row.tendered => posted["main"].ar + posted["paid"].ar = -taken
      /\ posted["main"].ar + posted["main"].cash + posted["paid"].ar + posted["paid"].cash = -row.qty
      /\ posted["account"] = Blank /\ posted["discount"] = Blank /\ posted["stray"] = Blank
  <2>1. CASE row.tendered
    <3>1. posted = ReturnVouchers(row.qty, row.refunded) /\ taken = row.qty - row.refunded
      BY <2>1
    <3> HIDE DEF posted, taken
    <3> QED BY <1>1, <1>2, <3>1, ReturnBooks DEF Legs
  <2>2. CASE ~row.tendered
    <3>1. "main" \in Legs
      BY DEF Legs
    <3>2. NoVouchers \in Postings /\ \A l \in Legs : NoVouchers[l] = Blank
      BY NothingTypes DEF NoVouchers
    <3>3. \E ar, cash \in Int : posted = Post(NoVouchers, "main", ar, cash) /\ ar + cash = -row.qty
      BY <1>1, <2>2
    <3> HIDE DEF posted
    <3>4. PICK ar, cash \in Int : posted = Post(NoVouchers, "main", ar, cash)
                                  /\ ar + cash = -row.qty
      BY <3>3
    <3>5. /\ posted["main"] = [ar |-> ar, cash |-> cash]
          /\ \A l \in Legs \ {"main"} : posted[l] = Blank
      BY <3>1, <3>2, <3>4, PostBooks
    <3>6. /\ posted["paid"] = Blank /\ posted["account"] = Blank
          /\ posted["discount"] = Blank /\ posted["stray"] = Blank
      BY <3>5 DEF Legs
    <3> QED BY <2>2, <3>4, <3>5, <3>6 DEF Blank
  <2> QED BY <2>1, <2>2
<1> HIDE DEF taken, posted
<1>5. /\ ret'[x] = row /\ adjusted'[x] = -taken /\ voucher'[x] = posted
      /\ \A y \in Returns \ {x} : ret'[y] = ret[y] /\ adjusted'[y] = adjusted[y]
      /\ \A d \in Docs \ {x} : voucher'[d] = voucher[d]
  BY <1>1, <1>2
<1>6. adjusted'[x] \in Int /\ (read = held => due' = held + adjusted'[x])
  BY <1>2, <1>3, <1>5
<1>7. /\ Told => OfInvoice(x)' = adjusted'[x]
      /\ voucher'[x]["account"].ar = 0 /\ voucher'[x]["discount"].ar = 0
      /\ voucher'[x]["stray"].ar = 0 /\ Revenue(x)' = -row.qty
  BY <1>4, <1>5 DEF OfInvoice, Revenue, Blank
<1>8. ReturnRow(x)'
  BY <1>5, <1>7 DEF ReturnRow, Kept, Posted, Made
<1> QED BY <1>2, <1>5, <1>6, <1>8

LEMMA SaveReturnSteps ==
    ASSUME Settled, NEW r \in Requests, NEW q \in 1..request[r].open,
           NEW refund, refund \in Refunds(q), SaveReturn(r, refund)
    PROVE  \E x \in Returns : ReturnStep(x)
<1> USE DEF Settled
<1>0. PICK x, s : x = request[r].doc /\ s = request[r].on
  OBVIOUS
<1> DEFINE row == [refund EXCEPT !.sale = s]
<1>1. /\ request[r].kind = "return" /\ x \in Returns /\ s \in Sales /\ request[r].open \in Int
  BY <1>0, InFlight DEF SaveReturn, About, Request, ReturnKinds
<1>2. ret[x] = NoReturn /\ Made(s) /\ (SoldFirst => Posted(s))
      /\ request[r].open = OpenOf(s, Returns)
  BY <1>0, <1>1 DEF Found, Finds
<1>3. /\ refund \in Return /\ refund.status = "KEPT" /\ refund.qty # 0
      /\ (Told => refund.tendered) /\ refund.linked
  <2>1. PICK n \in Int : n = request[r].open
    BY <1>1
  <2>2. q \in 1..n /\ refund \in Refunds(q)
    BY <2>1
  <2>3. /\ refund \in Return /\ refund.status = "KEPT" /\ refund.qty = q /\ q \in Nat \ {0}
        /\ refund.tendered \in Tendered /\ refund.linked
    BY <2>2, RefundTypes
  <2> QED BY <2>3 DEF Told
<1>4. /\ row \in Return /\ row.status = "KEPT" /\ row.qty # 0 /\ (Told => row.tendered)
      /\ row.linked /\ row.sale = s
  BY <1>1, <1>3 DEF Return
<1>5. /\ row.qty <= request[r].open /\ ret' = [ret EXCEPT ![x] = row]
      /\ stock' = stock + row.qty /\ Settle(x, request[r].seen, row, due, due)
      /\ sale' = sale
  BY <1>0 DEF SaveReturn
<1>6. due \in Int /\ stock \in Nat /\ ret \in [Returns -> Return] /\ row.qty \in Nat
  BY <1>4 DEF Types, RowsOK, Return
<1> HIDE DEF row
<1>7. /\ due' = due + adjusted'[x] /\ adjusted'[x] \in Int
      /\ \A y \in Returns \ {x} : ret'[y] = ret[y] /\ adjusted'[y] = adjusted[y]
      /\ \A d \in Docs \ {x} : voucher'[d] = voucher[d]
      /\ UNCHANGED <<owed, entry>>
      /\ ReturnRow(x)'
  <2>1. PICK read, held \in Int : read = due /\ held = due
    BY <1>6
  <2>2. /\ Settle(x, request[r].seen, row, read, held) /\ sale' = sale
        /\ ret' = [ret EXCEPT ![x] = row]
        /\ row.sale \in Sales /\ Made(row.sale) /\ (SoldFirst => Posted(row.sale) /\ row.linked)
    BY <1>1, <1>2, <1>4, <1>5, <2>1
  <2>3. /\ read = held => due' = held + adjusted'[x]
        /\ adjusted'[x] \in Int
        /\ \A y \in Returns \ {x} : ret'[y] = ret[y] /\ adjusted'[y] = adjusted[y]
        /\ \A d \in Docs \ {x} : voucher'[d] = voucher[d]
        /\ UNCHANGED <<owed, entry>>
        /\ ReturnRow(x)'
    BY <1>1, <1>4, <2>2, SettlingBooks
  <2> QED BY <2>1, <2>3
<1>8. adjusted[x] = 0 /\ ~Kept(x) /\ \A t : ~Keeps(x, t)
  BY <1>1, <1>2 DEF Rows, ReturnRow, Kept, Keeps, NoReturn
<1>9. ret'[x] = row
  BY <1>1, <1>5, <1>6
<1>10. stock' = stock - Back(x) + Back(x)'
  BY <1>4, <1>5, <1>6, <1>8, <1>9 DEF Back, Kept
<1>11. due' = due + adjusted'[x] - adjusted[x]
  BY <1>6, <1>7, <1>8
<1>12. OpenOf(s, Returns \ {x}) = OpenOf(s, Returns)
  <2>1. {y \in Returns \ {x} : Keeps(y, s) /\ ret[y].linked}
          = {y \in Returns : Keeps(y, s) /\ ret[y].linked}
    BY <1>8
  <2> QED BY <2>1 DEF OpenOf
<1>13. ReturnStep(x)
  BY <1>2, <1>4, <1>5, <1>7, <1>9, <1>10, <1>11, <1>12 DEF ReturnStep
<1> QED BY <1>1, <1>13

LEMMA EditReturnSteps ==
    ASSUME Settled, NEW r \in Requests, NEW q \in 1..request[r].open,
           NEW refund, refund \in Refunds(q), EditReturn(r, refund)
    PROVE  NoStep \/ \E x \in Returns : ReturnStep(x)
<1> USE DEF Settled
<1>0. PICK x, s, old : x = request[r].doc /\ s = request[r].on /\ old = request[r].row
  OBVIOUS
<1>1. /\ request[r].kind = "editReturn" /\ x \in Returns /\ s \in Sales
      /\ request[r].open \in Int
  BY <1>0, InFlight DEF EditReturn, About, Request, ReturnKinds
<1>2. Keeps(x, s) /\ old = ret[x] /\ request[r].open = OpenOf(s, Returns \ {x})
  BY <1>0, <1>1 DEF Found, Finds
<1>3. /\ refund \in Return /\ refund.status = "KEPT" /\ refund.qty # 0
      /\ (Told => refund.tendered) /\ refund.linked
  <2>1. PICK n \in Int : n = request[r].open
    BY <1>1
  <2>2. q \in 1..n /\ refund \in Refunds(q)
    BY <2>1
  <2>3. /\ refund \in Return /\ refund.status = "KEPT" /\ refund.qty = q /\ q \in Nat \ {0}
        /\ refund.tendered \in Tendered /\ refund.linked
    BY <2>2, RefundTypes
  <2> QED BY <2>3 DEF Told
<1>4. (DueAlone => request[r].due = due) /\ request[r].due \in Int
  BY <1>1, InFlight DEF SoloIfAlone, Solo, ReadsDue, Request
<1>5. /\ due \in Int /\ stock \in Nat /\ ret \in [Returns -> Return] /\ adjusted[x] \in Int
      /\ ret[x].qty \in Nat /\ refund.qty \in Nat
  BY <1>1, <1>3 DEF Types, RowsOK, Return
<1>6. /\ ret[x].sale = s /\ Made(s) /\ Kept(x) /\ ret[x].linked \in BOOLEAN
      /\ SoldFirst => ret[x].linked /\ Posted(s)
  BY <1>1, <1>2 DEF Rows, ReturnRow, Keeps, Kept, Types, RowsOK, Return
<1> DEFINE keepsLines == old.linked /\ refund.qty = old.qty
           net == adjusted[x]
           unwound == IF net = 0 THEN due ELSE request[r].due - net
           read == IF net = 0 /\ refund.qty = old.qty THEN request[r].due ELSE unwound
           row == [refund EXCEPT !.sale = ret[x].sale,
                                 !.linked = ret[x].linked \/ ~keepsLines]
<1>7. /\ unwound \in Int /\ read \in Int
      /\ DueAlone => unwound = due - adjusted[x] /\ read = unwound
  BY <1>4, <1>5
<1>8. /\ row \in Return /\ row.status = "KEPT" /\ row.qty = refund.qty
      /\ (Told => row.tendered) /\ (SoldFirst => row.linked) /\ row.sale = s
  <2> DEFINE linked == ret[x].linked \/ ~keepsLines
  <2>1. linked \in BOOLEAN /\ (SoldFirst => linked)
    BY <1>6
  <2> HIDE DEF keepsLines, linked
  <2> QED BY <1>1, <1>3, <1>6, <2>1 DEF Return
<1>9. sale' = sale /\ quote' = quote
  BY DEF EditReturn
<1>10. \/ UNCHANGED <<stock, ret, account>>
       \/ /\ \/ stock' = stock /\ refund.qty = ret[x].qty
             \/ refund.qty <= request[r].open /\ stock' = stock - ret[x].qty + refund.qty
          /\ Settle(x, request[r].seen, row, read, unwound)
          /\ ret' = [ret EXCEPT ![x] = row]
  BY <1>0, <1>2 DEF EditReturn
<1>11. CASE UNCHANGED <<stock, ret, account>>
  BY <1>9, <1>11 DEF NoStep
<1>12. CASE /\ \/ stock' = stock /\ refund.qty = ret[x].qty
               \/ refund.qty <= request[r].open /\ stock' = stock - ret[x].qty + refund.qty
            /\ Settle(x, request[r].seen, row, read, unwound)
            /\ ret' = [ret EXCEPT ![x] = row]
  <2> HIDE DEF keepsLines, net, unwound, read, row
  <2>1. Settle(x, request[r].seen, row, read, unwound) /\ row.qty # 0
    BY <1>3, <1>8, <1>12
  <2>2. /\ read = unwound => due' = unwound + adjusted'[x]
        /\ adjusted'[x] \in Int
        /\ \A y \in Returns \ {x} : ret'[y] = ret[y] /\ adjusted'[y] = adjusted[y]
        /\ \A d \in Docs \ {x} : voucher'[d] = voucher[d]
        /\ UNCHANGED <<owed, entry>>
        /\ ReturnRow(x)'
    BY <1>1, <1>6, <1>7, <1>8, <1>9, <1>12, <2>1, SettlingBooks
  <2>3. ret'[x] = row
    BY <1>1, <1>5, <1>12
  <2>4. stock' = stock - Back(x) + Back(x)'
    BY <1>5, <1>6, <1>8, <1>12, <2>3 DEF Back, Kept
  <2>5. DueAlone => due' = due + adjusted'[x] - adjusted[x]
    BY <1>5, <1>7, <2>2
  <2>6. \/ Keeps(x, ret'[x].sale) /\ ret'[x].qty = ret[x].qty
        \/ ret'[x].qty <= OpenOf(ret'[x].sale, Returns \ {x})
    BY <1>2, <1>8, <1>12, <2>3
  <2>7. ReturnStep(x)
    BY <1>9, <2>2, <2>4, <2>5, <2>6 DEF ReturnStep
  <2> QED BY <1>1, <2>7
<1> QED BY <1>10, <1>11, <1>12

LEMMA UnreturnSteps ==
    ASSUME Settled, NEW r \in Requests, Unreturn(r) PROVE \E x \in Returns : ReturnStep(x)
<1> USE DEF Settled
<1>0. PICK x : x = request[r].doc
  OBVIOUS
<1>1. /\ request[r].kind = "unreturn" /\ x \in Returns /\ x \in Docs
  BY <1>0, InFlight DEF Unreturn, About, ReturnKinds, Docs
<1>2. Kept(x) /\ request[r].row = ret[x] /\ (DueAlone => request[r].due = due)
  BY <1>0, <1>1 DEF Found, Finds, SoloIfAlone, Solo, ReadsDue, Keeps, Kept
<1>3. /\ due \in Int /\ stock \in Nat /\ ret \in [Returns -> Return] /\ adjusted[x] \in Int
      /\ adjusted \in [Returns -> Int] /\ voucher \in [Docs -> Postings] /\ ret[x].qty \in Nat
  BY <1>1 DEF Types, RowsOK, Return
<1> DEFINE gone == [NoReturn EXCEPT !.status = "GONE"]
<1>4. /\ DueAlone => due' = due - adjusted[x]
      /\ adjusted' = [adjusted EXCEPT ![x] = 0]
      /\ voucher' = [voucher EXCEPT ![x] = NoVouchers]
      /\ stock' = stock - ret[x].qty
      /\ ret' = [ret EXCEPT ![x] = gone]
      /\ UNCHANGED <<sale, owed, entry>>
  BY <1>0, <1>2, <1>3 DEF Unreturn
<1>5. gone.status = "GONE" /\ gone.sale = None
  BY DEF NoReturn
<1> HIDE DEF gone
<1>6. /\ ret'[x] = gone /\ adjusted'[x] = 0 /\ voucher'[x] = NoVouchers
      /\ \A y \in Returns \ {x} : ret'[y] = ret[y] /\ adjusted'[y] = adjusted[y]
      /\ \A d \in Docs \ {x} : voucher'[d] = voucher[d]
  BY <1>1, <1>3, <1>4
<1>7. ~Kept(x)'
  BY <1>5, <1>6 DEF Kept
<1>8. ReturnRow(x)'
  <2>1. \A l \in Legs : NoVouchers[l] = Blank
    BY DEF NoVouchers
  <2>2. /\ "main" \in Legs /\ "paid" \in Legs /\ "account" \in Legs
        /\ "discount" \in Legs /\ "stray" \in Legs
    BY DEF Legs
  <2> QED BY <1>5, <1>6, <1>7, <2>1, <2>2 DEF ReturnRow, OfInvoice, Revenue, Blank
<1>9. stock' = stock - Back(x) + Back(x)'
  BY <1>2, <1>3, <1>4, <1>7 DEF Back
<1>10. DueAlone => due' = due + adjusted'[x] - adjusted[x]
  BY <1>3, <1>4, <1>6
<1>11. ReturnStep(x)
  BY <1>4, <1>6, <1>7, <1>8, <1>9, <1>10 DEF ReturnStep
<1> QED BY <1>1, <1>11

LEMMA EntryWriterSteps ==
    ASSUME Settled, NEW r \in Requests, WritesEntry(r) PROVE \E e \in Entries : EntryStep(e)
<1> USE DEF Settled
<1>0. PICK e : e = request[r].doc
  OBVIOUS
<1>1. request[r].kind \in {"pay", "writeOff", "editPay", "unpay"}
  BY DEF WritesEntry, Pay, WriteOff, Unpay
<1>2. e \in Entries /\ e \in Docs
  BY <1>0, <1>1, InFlight DEF About, Docs
<1>3. DueAlone => request[r].row = entry[e] /\ request[r].due = due
  BY <1>0, <1>1 DEF Found, Finds, SoloIfAlone, Solo, ReadsDue, EntryKinds
<1>4. /\ due \in Int /\ entry \in [Entries -> Entry] /\ voucher \in [Docs -> Postings]
  BY DEF Types, RowsOK
<1>5. \E row \in Entry : WriteEntry(r, e, row) /\ (row.type # "PAYMENT" => row.discount = 0)
  <2>1. ASSUME NEW row \in [type : EntryTypes, amount : Amounts, discount : Discounts],
               Pay(r, row) \/ WriteOff(r, row)
        PROVE  /\ row \in Entry /\ WriteEntry(r, e, row)
               /\ row.type # "PAYMENT" => row.discount = 0
    <3>1. row \in Entry /\ row.type \in EntryTypes
      BY CartsAreCarts
    <3>2. WriteEntry(r, e, row)
      BY <1>0, <2>1 DEF Pay, WriteOff
    <3>3. row.type # "PAYMENT" => row.discount = 0
      BY <2>1, <3>1 DEF Pay, WriteOff, SplitOK, EntryTypes
    <3> QED BY <3>1, <3>2, <3>3
  <2>2. ASSUME Unpay(r)
        PROVE  LET row == [NoEntry EXCEPT !.type = "GONE"] IN
               row \in Entry /\ WriteEntry(r, e, row) /\ row.discount = 0
    BY <1>0, <2>2, NothingTypes DEF Unpay, Entry, NoEntry
  <2> QED BY <2>1, <2>2 DEF WritesEntry
<1>6. PICK row \in Entry : WriteEntry(r, e, row) /\ (row.type # "PAYMENT" => row.discount = 0)
  BY <1>5
<1> DEFINE posted == PaymentVouchers(voucher[e], row)
<1>7. /\ entry' = [entry EXCEPT ![e] = row] /\ voucher' = [voucher EXCEPT ![e] = posted]
      /\ DueAlone => due' = due + RowDelta(row) - RowDelta(entry[e])
      /\ UNCHANGED <<stock, sale, owed, ret, adjusted>>
  BY <1>0, <1>3, <1>6 DEF WriteEntry
<1>8. /\ posted["main"] = voucher[e]["main"] /\ posted["paid"] = voucher[e]["paid"]
      /\ posted["stray"] = voucher[e]["stray"]
      /\ posted["account"].ar + posted["discount"].ar = RowDelta(row)
      /\ posted["account"].ar \in Int /\ posted["discount"].ar \in Int
  <2>1. voucher[e] \in Postings /\ MoneyDelta(row) \in Int /\ row.discount \in Nat
    BY <1>2, <1>4, RowTypes DEF Entry
  <2> HIDE DEF posted
  <2>2. posted = PaymentVouchers(voucher[e], row)
    BY DEF posted
  <2>3. /\ posted["main"] = voucher[e]["main"] /\ posted["paid"] = voucher[e]["paid"]
        /\ posted["stray"] = voucher[e]["stray"]
        /\ posted["account"] = MoneyLeg(row)
        /\ posted["discount"] = [ar |-> -row.discount, cash |-> 0]
        /\ posted["account"].ar + posted["discount"].ar = RowDelta(row)
    BY <1>6, <2>1, <2>2, EntryBooks
  <2> QED BY <2>1, <2>3 DEF MoneyLeg
<1> HIDE DEF posted
<1>9. /\ entry'[e] = row /\ voucher'[e] = posted
      /\ \A f \in Entries \ {e} : entry'[f] = entry[f]
      /\ \A d \in Docs \ {e} : voucher'[d] = voucher[d]
  BY <1>2, <1>4, <1>7
<1>10. EntryRow(e)'
  <2>1. EntryRow(e)
    BY <1>2 DEF Rows
  <2>2. RowDelta(row) \in Int
    BY RowTypes
  <2>3. Receivable(e)' = RowDelta(entry'[e])
    BY <1>8, <1>9, <2>1, <2>2 DEF EntryRow, Receivable
  <2> QED BY <1>8, <1>9, <2>1, <2>3 DEF EntryRow, RowDelta, MoneyDelta
<1>11. EntryStep(e)
  BY <1>7, <1>9, <1>10 DEF EntryStep
<1> QED BY <1>2, <1>11

\* Every step changes at most one document.
LEMMA OneDocument ==
    ASSUME SalesApart, Settled, [Next]_vars
    PROVE  \/ \E s \in Sales : SaleStep(s)
           \/ \E x \in Returns : ReturnStep(x)
           \/ \E e \in Entries : EntryStep(e)
           \/ NoStep
<1> USE DEF Settled
<1>1. CASE Creates
  BY <1>1, CreateSteps DEF Creates
<1>2. ASSUME NEW r \in Requests, Begins(r) PROVE NoStep
  BY <1>2, BeginTypes DEF NoStep
<1>3. ASSUME NEW r \in Requests, WritesSale(r) PROVE \E s \in Sales : SaleStep(s)
  BY <1>3, SaleWriterSteps
<1>4. ASSUME NEW r \in Requests, WritesReturn(r)
      PROVE  NoStep \/ \E x \in Returns : ReturnStep(x)
  BY <1>4, SaveReturnSteps, EditReturnSteps, UnreturnSteps DEF WritesReturn
<1>5. ASSUME NEW r \in Requests, WritesEntry(r) PROVE \E e \in Entries : EntryStep(e)
  BY <1>5, EntryWriterSteps
<1>6. ASSUME NEW r \in Requests, WritesReceipt(r) PROVE \E s \in Sales : SaleStep(s)
  BY <1>6, ReceiptSteps
<1>7. ASSUME NEW r \in Requests, Abort(r) PROVE NoStep
  BY <1>7 DEF Abort, NoStep
<1>8. CASE UNCHANGED vars
  BY <1>8 DEF vars, NoStep, account
<1> QED BY <1>1, <1>2, <1>3, <1>4, <1>5, <1>6, <1>7, <1>8, Steps

(***************************************************************************)
(* The rows of every document agree, after every step.                     *)
(***************************************************************************)
LEMMA Apart ==
    /\ \A s \in Sales : s \in Docs /\ s \notin Returns /\ s \notin Entries
    /\ \A x \in Returns : x \in Docs /\ x \notin Sales /\ x \notin Entries
    /\ \A e \in Entries : e \in Docs /\ e \notin Sales /\ e \notin Returns
BY ConstantsAssumption DEF Docs

\* The row of a document that a step leaves alone.
LEMMA SaleRowStays ==
    ASSUME NEW s \in Sales, sale'[s] = sale[s], owed'[s] = owed[s], voucher'[s] = voucher[s],
           SaleRow(s)
    PROVE  SaleRow(s)'
BY DEF SaleRow, OfInvoice, Revenue, Posted, ReceiptBooks, Fits, StillPayments, Undiscounted,
       MoneyDelta

LEMMA ReturnRowStays ==
    ASSUME NEW x \in Returns, ret'[x] = ret[x], adjusted'[x] = adjusted[x],
           voucher'[x] = voucher[x], ReturnRow(x),
           Kept(x) => sale'[ret[x].sale] = sale[ret[x].sale]
    PROVE  ReturnRow(x)'
<1>1. Kept(x)' = Kept(x)
  BY DEF Kept
<1>2. Kept(x) => Made(ret[x].sale)' /\ (SoldFirst => Posted(ret[x].sale)')
  BY DEF ReturnRow, Posted, Made
<1> QED BY <1>1, <1>2 DEF ReturnRow, OfInvoice, Revenue, Posted, Made

\* The row of a return, when its sale is written.
LEMMA ReturnRowFollows ==
    ASSUME NEW s \in Sales, NEW x \in Returns, SaleStep(s), ReturnRow(x), x # s,
           voucher'[x] = voucher[x]
    PROVE  ReturnRow(x)'
<1>1. adjusted'[x] = adjusted[x] /\ Made(s)'
  BY DEF SaleStep
<1>2. ASSUME Kept(x)
      PROVE  /\ ret[x].sale \in Sales
             /\ ret[x].sale # s => sale'[ret[x].sale] = sale[ret[x].sale]
  BY <1>2 DEF SaleStep, ReturnRow
<1>3. CASE ret' = ret /\ sale' = sale
  BY <1>1, <1>3, ReturnRowStays
<1>4. CASE KeepsReturns(s)
  <2>1. /\ Kept(x)' = Kept(x) /\ ret'[x].sale = ret[x].sale /\ ret'[x].qty = ret[x].qty
    BY <1>4 DEF KeepsReturns, SameReturn, Kept
  <2>2. ASSUME Kept(x) PROVE Made(ret[x].sale)'
    <3>1. Made(ret[x].sale) /\ ret[x].sale \in Sales
      BY <2>2 DEF ReturnRow
    <3>2. CASE ret[x].sale = s
      <4>1. sale'[s].status # "NONE"
        BY <1>1 DEF Made
      <4>2. ret'[x].sale = s
        BY <2>1, <3>2
      <4> QED BY <3>2, <4>1, <4>2 DEF Made
    <3>3. CASE ret[x].sale # s
      BY <1>2, <2>1, <2>2, <3>1, <3>3 DEF Made
    <3> QED BY <3>2, <3>3
  <2>3. ASSUME Kept(x), SoldFirst PROVE Posted(ret[x].sale)' /\ ret'[x].linked
    <3>1. ret'[x] = ret[x] /\ ret[x].sale # s
      BY <1>4, <2>3 DEF KeepsReturns, OfSale
    <3> QED BY <1>2, <2>3, <3>1 DEF ReturnRow, Posted
  <2> HIDE DEF Made, Posted
  <2>4. Revenue(x)' = Revenue(x) /\ OfInvoice(x)' = OfInvoice(x)
    BY DEF Revenue, OfInvoice
  <2> QED BY <1>1, <1>2, <2>1, <2>2, <2>3, <2>4 DEF ReturnRow, Made, Posted
<1> QED BY <1>3, <1>4 DEF SaleStep

LEMMA EntryRowStays ==
    ASSUME NEW e \in Entries, entry'[e] = entry[e], voucher'[e] = voucher[e], EntryRow(e)
    PROVE  EntryRow(e)'
BY DEF EntryRow, Receivable, RowDelta, MoneyDelta

LEMMA StepRows ==
    ASSUME SalesApart, Settled, [Next]_vars PROVE Rows'
<1> USE DEF Settled
<1>1. ASSUME NEW s \in Sales, SaleStep(s) PROVE Rows'
  <2>1. \A t \in Sales : SaleRow(t)'
    BY <1>1, SaleRowStays, Apart DEF SaleStep, Rows
  <2>2. \A x \in Returns : ReturnRow(x)'
    <3>1. ASSUME NEW x \in Returns PROVE ReturnRow(x)'
      <4>1. voucher'[x] = voucher[x] /\ ReturnRow(x) /\ x # s
        BY <1>1, Apart DEF SaleStep, Rows
      <4> QED BY <1>1, <4>1, ReturnRowFollows
    <3> QED BY <3>1
  <2>3. \A e \in Entries : EntryRow(e)'
    BY <1>1, EntryRowStays, Apart DEF SaleStep, Rows
  <2> QED BY <2>1, <2>2, <2>3 DEF Rows
<1>2. ASSUME NEW x \in Returns, ReturnStep(x) PROVE Rows'
  <2>1. \A t \in Sales : SaleRow(t)'
    BY <1>2, SaleRowStays, Apart DEF ReturnStep, Rows
  <2>2. \A y \in Returns : ReturnRow(y)'
    BY <1>2, ReturnRowStays, Apart DEF ReturnStep, Rows
  <2>3. \A e \in Entries : EntryRow(e)'
    BY <1>2, EntryRowStays, Apart DEF ReturnStep, Rows
  <2> QED BY <2>1, <2>2, <2>3 DEF Rows
<1>3. ASSUME NEW e \in Entries, EntryStep(e) PROVE Rows'
  <2>1. \A t \in Sales : SaleRow(t)'
    BY <1>3, SaleRowStays, Apart DEF EntryStep, Rows
  <2>2. \A y \in Returns : ReturnRow(y)'
    BY <1>3, ReturnRowStays, Apart DEF EntryStep, Rows
  <2>3. \A f \in Entries : EntryRow(f)'
    BY <1>3, EntryRowStays, Apart DEF EntryStep, Rows
  <2> QED BY <2>1, <2>2, <2>3 DEF Rows
<1>4. CASE NoStep
  <2>1. \A t \in Sales : SaleRow(t)'
    BY <1>4, SaleRowStays DEF NoStep, account, Rows
  <2>2. \A y \in Returns : ReturnRow(y)'
    BY <1>4, ReturnRowStays DEF NoStep, account, Rows
  <2>3. \A f \in Entries : EntryRow(f)'
    BY <1>4, EntryRowStays DEF NoStep, account, Rows
  <2> QED BY <2>1, <2>2, <2>3 DEF Rows
<1> QED BY <1>1, <1>2, <1>3, <1>4, OneDocument

LEMMA InitSettled == Init => SoloIfAlone /\ Found /\ Rows
<1> SUFFICES ASSUME Init PROVE SoloIfAlone /\ Found /\ Rows
  OBVIOUS
<1>1. \A r \in Requests : request[r].kind = "idle"
  BY DEF Init, Idle
<1>2. SoloIfAlone /\ Found
  BY <1>1 DEF SoloIfAlone, Solo, Found, Finds, ReadsDue
<1>3. \A d \in Docs : /\ voucher[d] = NoVouchers
                      /\ OfInvoice(d) = 0 /\ Revenue(d) = 0 /\ Receivable(d) = 0
                      /\ \A l \in Legs : voucher[d][l] = Blank
  BY DEF Init, NoVouchers, Blank, Legs, OfInvoice, Revenue, Receivable
<1>4. \A s \in Sales : SaleRow(s)
  <2>1. ASSUME NEW s \in Sales PROVE ReceiptBooks(NoEntry, voucher[s])
    BY <1>3, NoReceipt, Apart DEF ReceiptBooks, Legs, Blank
  <2> QED BY <1>3, <2>1, Apart DEF Init, SaleRow, Posted, NoSale, NoOwed, Legs
<1>5. \A x \in Returns : ReturnRow(x)
  BY <1>3, Apart DEF Init, ReturnRow, Kept, NoReturn, Legs, Blank
<1>6. \A e \in Entries : EntryRow(e)
  BY <1>3, NoReceipt, Apart DEF Init, EntryRow, Legs, Blank
<1> QED BY <1>2, <1>4, <1>5, <1>6 DEF Rows

LEMMA SpecSettled == ASSUME SalesApart PROVE Spec => []Settled
<1>1. Settled /\ [Next]_vars => (SoloIfAlone /\ Found /\ Rows)'
  <2>1. Settled /\ [Next]_vars => SoloIfAlone'
    BY StepSolo DEF Settled, SoloIfAlone, DueAlone
  <2> QED BY <2>1, StepFound, StepRows
<1>2. Init => SoloIfAlone /\ Found /\ Rows
  BY InitSettled
<1>3. Spec => [](Exclusive /\ Fresh /\ Seen)
  BY SpecApart
<1>4. Settled <=> Types /\ (Exclusive /\ Fresh /\ Seen) /\ (SoloIfAlone /\ Found /\ Rows)
  BY DEF Settled
<1> QED BY <1>1, <1>2, <1>3, <1>4, SpecTypes, PTL DEF Spec

(***************************************************************************)
(* The totals.                                                             *)
(***************************************************************************)
LEMMA DocumentsAreFinite == IsFiniteSet(Sales) /\ IsFiniteSet(Returns) /\ IsFiniteSet(Entries)
BY ConstantsAssumption

\* The sum over all documents of one kind, when one of them changes.
LEMMA TotalChanges ==
    ASSUME NEW D, IsFiniteSet(D), NEW f \in [D -> Int], NEW g \in [D -> Int], NEW d \in D,
           \A e \in D \ {d} : g[e] = f[e]
    PROVE  /\ SumFunction(f) \in Int /\ SumFunction(g) \in Int
           /\ SumFunction(g) = SumFunction(f) + g[d] - f[d]
<1>1. DOMAIN f = D /\ DOMAIN g = D
  OBVIOUS
<1>2. SumFunctionOnSet(f, D) \in Int /\ SumFunctionOnSet(g, D) \in Int
  BY SumIsInt
<1>3. SumFunctionOnSet(g, D) = SumFunctionOnSet(f, D) + g[d] - f[d]
  BY SumChanges
<1> QED BY <1>1, <1>2, <1>3 DEF SumFunction

LEMMA TotalIsInt ==
    ASSUME NEW D, IsFiniteSet(D), NEW f \in [D -> Int] PROVE SumFunction(f) \in Int
<1>1. DOMAIN f = D
  OBVIOUS
<1> QED BY <1>1, SumIsInt DEF SumFunction

Shelf == [s \in Sales |-> Held(s)]
Brought == [x \in Returns |-> Back(x)]
OnSales == [s \in Sales |-> OwedDelta(owed[s])]
OnReturns == [x \in Returns |-> adjusted[x]]
OnEntries == [e \in Entries |-> RowDelta(entry[e])]

TotalsOK ==
    /\ Shelf \in [Sales -> Int] /\ Brought \in [Returns -> Int]
    /\ OnSales \in [Sales -> Int] /\ OnReturns \in [Returns -> Int]
    /\ OnEntries \in [Entries -> Int]

LEMMA TotalTypes == Types => TotalsOK
<1> SUFFICES ASSUME Types PROVE TotalsOK
  OBVIOUS
<1>1. \A s \in Sales : sale[s].qty \in Int /\ OwedDelta(owed[s]) \in Int
  BY OwedTypes DEF Types, RowsOK, Sale
<1>2. \A x \in Returns : ret[x].qty \in Int /\ adjusted[x] \in Int
  BY DEF Types, RowsOK, Return
<1>3. \A e \in Entries : RowDelta(entry[e]) \in Int
  BY RowTypes DEF Types, RowsOK
<1>4. Shelf \in [Sales -> Int]
  BY <1>1 DEF Shelf, Held
<1>5. Brought \in [Returns -> Int]
  BY <1>2 DEF Brought, Back
<1>6. OnSales \in [Sales -> Int]
  BY <1>1 DEF OnSales
<1>7. OnReturns \in [Returns -> Int]
  BY <1>2 DEF OnReturns
<1>8. OnEntries \in [Entries -> Int]
  BY <1>3 DEF OnEntries
<1> QED BY <1>4, <1>5, <1>6, <1>7, <1>8 DEF TotalsOK

LEMMA TotalTypesNext == Types' => TotalsOK'
BY TotalTypes, PTL

\* The stock and the balance move by what the totals over the documents move.
LEMMA TotalsFollow ==
    ASSUME SalesApart, Settled, Types', [Next]_vars
    PROVE  /\ stock' = stock - (SumFunction(Shelf)' - SumFunction(Shelf))
                             + (SumFunction(Brought)' - SumFunction(Brought))
           /\ DueAlone /\ Undiscounted =>
                due' = due + (SumFunction(OnSales)' - SumFunction(OnSales))
                           + (SumFunction(OnReturns)' - SumFunction(OnReturns))
                           + (SumFunction(OnEntries)' - SumFunction(OnEntries))
<1> USE DEF Settled
<1>1. /\ Shelf \in [Sales -> Int] /\ Brought \in [Returns -> Int]
      /\ OnSales \in [Sales -> Int] /\ OnReturns \in [Returns -> Int]
      /\ OnEntries \in [Entries -> Int]
  BY TotalTypes DEF TotalsOK
<1>2. /\ Shelf' \in [Sales -> Int] /\ Brought' \in [Returns -> Int]
      /\ OnSales' \in [Sales -> Int] /\ OnReturns' \in [Returns -> Int]
      /\ OnEntries' \in [Entries -> Int]
  BY TotalTypesNext DEF TotalsOK
<1>3. /\ SumFunction(Shelf) \in Int /\ SumFunction(Brought) \in Int
      /\ SumFunction(OnSales) \in Int /\ SumFunction(OnReturns) \in Int
      /\ SumFunction(OnEntries) \in Int /\ stock \in Int /\ due \in Int
      /\ SumFunction(Shelf') \in Int /\ SumFunction(Brought') \in Int
      /\ SumFunction(OnSales') \in Int /\ SumFunction(OnReturns') \in Int
      /\ SumFunction(OnEntries') \in Int
  <2>1. stock \in Int /\ due \in Int
    BY DEF Types, RowsOK
  <2> QED BY <1>1, <1>2, <2>1, DocumentsAreFinite, TotalIsInt
<1>4. ASSUME NEW s \in Sales, SaleStep(s)
      PROVE  /\ stock' = stock - (SumFunction(Shelf') - SumFunction(Shelf))
             /\ DueAlone /\ Undiscounted =>
                  due' = due + (SumFunction(OnSales') - SumFunction(OnSales))
             /\ Brought' = Brought /\ OnReturns' = OnReturns /\ OnEntries' = OnEntries
  <2>0. \A x \in Returns : ret'[x].status = ret[x].status /\ ret'[x].qty = ret[x].qty
    BY <1>4 DEF SaleStep, KeepsReturns, SameReturn
  <2>1. Brought' = Brought /\ OnReturns' = OnReturns /\ OnEntries' = OnEntries
    BY <1>4, <2>0 DEF SaleStep, Brought, Back, Kept, OnReturns, OnEntries, RowDelta, MoneyDelta
  <2>2. /\ \A t \in Sales \ {s} : Shelf'[t] = Shelf[t] /\ OnSales'[t] = OnSales[t]
        /\ Shelf[s] = Held(s) /\ Shelf'[s] = Held(s)'
        /\ OnSales[s] = OwedDelta(owed[s]) /\ OnSales'[s] = OwedDelta(owed'[s])
    BY <1>4 DEF SaleStep, Shelf, Held, Posted, OnSales, OwedDelta, RowDelta,
       MoneyDelta
  <2>3. /\ SumFunction(Shelf') = SumFunction(Shelf) + Shelf'[s] - Shelf[s]
        /\ SumFunction(OnSales') = SumFunction(OnSales) + OnSales'[s] - OnSales[s]
    BY <1>1, <1>2, <2>2, DocumentsAreFinite, TotalChanges
  <2>4. stock' = stock + Shelf[s] - Shelf'[s]
        /\ (DueAlone /\ Undiscounted => due' = due + OnSales'[s] - OnSales[s])
    BY <1>4, <2>2 DEF SaleStep
  <2>5. Shelf[s] \in Int /\ Shelf'[s] \in Int /\ OnSales[s] \in Int /\ OnSales'[s] \in Int
    BY <1>1, <1>2
  <2> QED BY <1>3, <2>1, <2>3, <2>4, <2>5
<1>5. ASSUME NEW x \in Returns, ReturnStep(x)
      PROVE  /\ stock' = stock + (SumFunction(Brought') - SumFunction(Brought))
             /\ DueAlone => due' = due + (SumFunction(OnReturns') - SumFunction(OnReturns))
             /\ Shelf' = Shelf /\ OnSales' = OnSales /\ OnEntries' = OnEntries
  <2>1. Shelf' = Shelf /\ OnSales' = OnSales /\ OnEntries' = OnEntries
    BY <1>5 DEF ReturnStep, Shelf, Held, Posted, OnSales, OwedDelta, OnEntries, RowDelta, MoneyDelta
  <2>2. /\ \A y \in Returns \ {x} : Brought'[y] = Brought[y] /\ OnReturns'[y] = OnReturns[y]
        /\ Brought[x] = Back(x) /\ Brought'[x] = Back(x)'
        /\ OnReturns[x] = adjusted[x] /\ OnReturns'[x] = adjusted'[x]
    BY <1>5 DEF ReturnStep, Brought, Back, Kept, OnReturns
  <2>3. /\ SumFunction(Brought') = SumFunction(Brought) + Brought'[x] - Brought[x]
        /\ SumFunction(OnReturns') = SumFunction(OnReturns) + OnReturns'[x] - OnReturns[x]
    BY <1>1, <1>2, <2>2, DocumentsAreFinite, TotalChanges
  <2>4. stock' = stock - Brought[x] + Brought'[x]
        /\ (DueAlone => due' = due + OnReturns'[x] - OnReturns[x])
    BY <1>5, <2>2 DEF ReturnStep
  <2>5. Brought[x] \in Int /\ Brought'[x] \in Int /\ OnReturns[x] \in Int /\ OnReturns'[x] \in Int
    BY <1>1, <1>2
  <2> QED BY <1>3, <2>1, <2>3, <2>4, <2>5
<1>6. ASSUME NEW e \in Entries, EntryStep(e)
      PROVE  /\ stock' = stock
             /\ DueAlone => due' = due + (SumFunction(OnEntries') - SumFunction(OnEntries))
             /\ Shelf' = Shelf /\ Brought' = Brought
             /\ OnSales' = OnSales /\ OnReturns' = OnReturns
  <2>1. /\ stock' = stock /\ Shelf' = Shelf /\ Brought' = Brought
        /\ OnSales' = OnSales /\ OnReturns' = OnReturns
    BY <1>6 DEF EntryStep, Shelf, Held, Posted, Brought, Back, Kept, OnSales, OwedDelta,
       OnReturns, RowDelta, MoneyDelta
  <2>2. /\ \A f \in Entries \ {e} : OnEntries'[f] = OnEntries[f]
        /\ OnEntries[e] = RowDelta(entry[e]) /\ OnEntries'[e] = RowDelta(entry'[e])
    BY <1>6 DEF EntryStep, OnEntries, RowDelta, MoneyDelta
  <2>3. SumFunction(OnEntries') = SumFunction(OnEntries) + OnEntries'[e] - OnEntries[e]
    BY <1>1, <1>2, <2>2, DocumentsAreFinite, TotalChanges
  <2>4. DueAlone => due' = due + OnEntries'[e] - OnEntries[e]
    BY <1>6, <2>2 DEF EntryStep
  <2>5. OnEntries[e] \in Int /\ OnEntries'[e] \in Int
    BY <1>1, <1>2
  <2> QED BY <1>3, <2>1, <2>3, <2>4, <2>5
<1>7. ASSUME NoStep
      PROVE  /\ stock' = stock /\ due' = due /\ Shelf' = Shelf /\ Brought' = Brought
             /\ OnSales' = OnSales /\ OnReturns' = OnReturns /\ OnEntries' = OnEntries
  BY <1>7 DEF NoStep, account, Shelf, Held, Posted, Brought, Back, Kept, OnSales, OwedDelta,
              OnReturns, OnEntries, RowDelta, MoneyDelta
<1>8. /\ SumFunction(Shelf)' = SumFunction(Shelf') /\ SumFunction(Brought)' = SumFunction(Brought')
      /\ SumFunction(OnSales)' = SumFunction(OnSales')
      /\ SumFunction(OnReturns)' = SumFunction(OnReturns')
      /\ SumFunction(OnEntries)' = SumFunction(OnEntries')
  OBVIOUS
<1> QED BY <1>3, <1>4, <1>5, <1>6, <1>7, <1>8, OneDocument

LEMMA InitTotals ==
    Init => /\ SumFunction(Shelf) = 0 /\ SumFunction(Brought) = 0 /\ SumFunction(OnSales) = 0
            /\ SumFunction(OnReturns) = 0 /\ SumFunction(OnEntries) = 0
<1> SUFFICES ASSUME Init
             PROVE  /\ SumFunction(Shelf) = 0 /\ SumFunction(Brought) = 0
                    /\ SumFunction(OnSales) = 0 /\ SumFunction(OnReturns) = 0
                    /\ SumFunction(OnEntries) = 0
  OBVIOUS
<1>1. ASSUME NEW D, IsFiniteSet(D), NEW f, DOMAIN f = D, \A d \in D : f[d] = 0
      PROVE  SumFunction(f) = 0
  BY <1>1, SumOfZeros DEF SumFunction
<1>2. /\ DOMAIN Shelf = Sales /\ \A s \in Sales : Shelf[s] = 0
      /\ DOMAIN OnSales = Sales /\ \A s \in Sales : OnSales[s] = 0
  BY NoReceipt DEF Init, Shelf, Held, Posted, NoSale, OnSales
<1>3. /\ DOMAIN Brought = Returns /\ \A x \in Returns : Brought[x] = 0
      /\ DOMAIN OnReturns = Returns /\ \A x \in Returns : OnReturns[x] = 0
  BY DEF Init, Brought, Back, Kept, NoReturn, OnReturns
<1>4. DOMAIN OnEntries = Entries /\ \A e \in Entries : OnEntries[e] = 0
  BY NoReceipt DEF Init, OnEntries
<1> QED BY <1>1, <1>2, <1>3, <1>4, DocumentsAreFinite

LEMMA TotalsAreInts ==
    Types => /\ SumFunction(Shelf) \in Int /\ SumFunction(Brought) \in Int
             /\ SumFunction(OnSales) \in Int /\ SumFunction(OnReturns) \in Int
             /\ SumFunction(OnEntries) \in Int
BY TotalTypes, TotalIsInt, DocumentsAreFinite DEF TotalsOK

\* StockFollowsDocuments and DueFollowsLedger in these terms.
LEMMA TotalsNamed ==
    /\ StockFollowsDocuments <=> stock = OpeningStock - SumFunction(Shelf) + SumFunction(Brought)
    /\ DueFollowsLedger <=>
         due = SumFunction(OnSales) + SumFunction(OnReturns) + SumFunction(OnEntries)
    /\ Ledger = SumFunction(OnSales) + SumFunction(OnReturns) + SumFunction(OnEntries)
BY DEF StockFollowsDocuments, DueFollowsLedger, Ledger, Shelf, Held, Brought, Back, OnSales,
       OnReturns, OnEntries

LEMMA StepTotals ==
    ASSUME SalesApart, Settled, Types', [Next]_vars
    PROVE  /\ StockFollowsDocuments => StockFollowsDocuments'
           /\ DueAlone /\ Undiscounted /\ DueFollowsLedger => DueFollowsLedger'
<1> DEFINE OutOf == SumFunction(Shelf)  BackIn == SumFunction(Brought)
           A == SumFunction(OnSales)  B == SumFunction(OnReturns)  C == SumFunction(OnEntries)
<1>1. /\ OutOf \in Int /\ BackIn \in Int /\ A \in Int /\ B \in Int /\ C \in Int
      /\ stock \in Int /\ due \in Int
  BY TotalsAreInts DEF Settled, Types, RowsOK
<1>2. OutOf' \in Int /\ BackIn' \in Int /\ A' \in Int /\ B' \in Int /\ C' \in Int
  <2>1. TotalsOK'
    BY TotalTypesNext
  <2> QED BY <2>1, TotalIsInt, DocumentsAreFinite DEF TotalsOK
<1>3. /\ stock' = stock - (OutOf' - OutOf) + (BackIn' - BackIn)
      /\ DueAlone /\ Undiscounted => due' = due + (A' - A) + (B' - B) + (C' - C)
  BY TotalsFollow
<1>4. /\ StockFollowsDocuments => stock = OpeningStock - OutOf + BackIn
      /\ DueFollowsLedger => due = A + B + C
  BY TotalsNamed
<1>5. /\ stock' = OpeningStock - OutOf' + BackIn' => StockFollowsDocuments'
      /\ due' = A' + B' + C' => DueFollowsLedger'
  BY DEF StockFollowsDocuments, DueFollowsLedger, Ledger, Shelf, Held, Brought, Back, OnSales,
         OnReturns, OnEntries
<1>6. OpeningStock \in Int
  BY ConstantsAssumption
<1> HIDE DEF OutOf, BackIn, A, B, C
<1>7. StockFollowsDocuments => StockFollowsDocuments'
  BY <1>1, <1>2, <1>3, <1>4, <1>5, <1>6
<1>8. ASSUME DueAlone, Undiscounted, DueFollowsLedger PROVE DueFollowsLedger'
  <2>1. due = A + B + C /\ due' = due + (A' - A) + (B' - B) + (C' - C)
    BY <1>3, <1>4, <1>8
  <2>2. due' = A' + B' + C'
    BY <1>1, <1>2, <2>1
  <2> QED BY <1>5, <2>2
<1> QED BY <1>7, <1>8

LEMMA InitExplained == Init => StockFollowsDocuments /\ DueFollowsLedger
BY InitTotals, TotalsNamed, ConstantsAssumption DEF Init

\* The goods off the shelf are at all times those of the completed sales, less what the
\* returns that are kept brought back: requests on other sales, on other returns and on
\* the account may interleave with each step of a sale, an edit, a cancellation or a
\* return, and edits may follow returns, as long as no two work on the same sale.
THEOREM StockIsExplained == ASSUME SalesApart PROVE Spec => []StockFollowsDocuments
<1>1. StockFollowsDocuments /\ Settled /\ Types' /\ [Next]_vars => StockFollowsDocuments'
  BY StepTotals
<1> QED BY <1>1, InitExplained, SpecSettled, SpecTypes, PTL DEF Spec

\* The due balance, which every handler moves by hand, is at all times the sum of the
\* rows of the customer's ledger, through discounts on payments, payouts of what was
\* overpaid and edits of a sale's receipt, if a handler that writes the balance it has
\* read has the customer to itself and nobody gives a discount on a sale's receipt:
\* restating a sale would undo one that its row keeps.
THEOREM DueIsLedger ==
    ASSUME SalesApart, DueAlone, Undiscounted PROVE Spec => []DueFollowsLedger
<1>1. DueFollowsLedger /\ Settled /\ Types' /\ [Next]_vars => DueFollowsLedger'
  BY StepTotals
<1> QED BY <1>1, InitExplained, SpecSettled, SpecTypes, PTL DEF Spec

LEMMA BooksFollowRows ==
    ASSUME Told, Undiscounted, StillPayments, Types, Rows PROVE ReceivableFollowsLedger
<1> DEFINE f == [d \in Docs |-> Receivable(d)]
<1>1. /\ \A s \in Sales : f[s] = OnSales[s]
      /\ \A x \in Returns : f[x] = OnReturns[x]
      /\ \A e \in Entries : f[e] = OnEntries[e]
  <2>1. ASSUME NEW d \in Docs
        PROVE  f[d] = Receivable(d) /\ \A l \in Legs : voucher[d][l].ar \in Int
    BY DEF Types, RowsOK
  <2>2. ASSUME NEW s \in Sales PROVE f[s] = OnSales[s]
    <3>1. /\ s \in Docs /\ SaleRow(s) /\ owed[s] \in Owed
      BY Apart DEF Rows, Types, RowsOK
    <3>2. /\ owed[s].credit \in Nat /\ owed[s].receipt \in Entry
          /\ MoneyDelta(owed[s].receipt) \in Int
      BY <3>1, OwedTypes, RowTypes
    <3>3. /\ voucher[s]["account"].ar = MoneyDelta(owed[s].receipt)
          /\ voucher[s]["discount"].ar = 0 /\ voucher[s]["stray"].ar = 0
          /\ RowDelta(owed[s].receipt) = MoneyDelta(owed[s].receipt)
      BY <3>1, <3>2 DEF SaleRow, ReceiptBooks, Fits, Blank, RowDelta
    <3> QED BY <2>1, <3>1, <3>2, <3>3 DEF SaleRow, OfInvoice, Receivable, OnSales, OwedDelta, Legs
  <2>3. ASSUME NEW x \in Returns PROVE f[x] = OnReturns[x]
    <3>1. x \in Docs /\ ReturnRow(x) /\ adjusted[x] \in Int
      BY Apart DEF Rows, Types, RowsOK
    <3> QED BY <2>1, <3>1 DEF ReturnRow, OfInvoice, Receivable, OnReturns, Legs
  <2>4. ASSUME NEW e \in Entries PROVE f[e] = OnEntries[e]
    BY <2>1, Apart DEF Rows, EntryRow, OnEntries
  <2> QED BY <2>2, <2>3, <2>4
<1>2. TotalsOK
  BY TotalTypes
<1>3. /\ \A s \in Sales : f[s] \in Int
      /\ \A x \in Returns : f[x] \in Int
      /\ \A e \in Entries : f[e] \in Int
  BY <1>1, <1>2 DEF TotalsOK
<1>4. /\ SumFunctionOnSet(f, Sales) = SumFunctionOnSet(OnSales, Sales)
      /\ SumFunctionOnSet(f, Returns) = SumFunctionOnSet(OnReturns, Returns)
      /\ SumFunctionOnSet(f, Entries) = SumFunctionOnSet(OnEntries, Entries)
  BY <1>1, SumsAgree, DocumentsAreFinite
<1>5. /\ SumFunction(OnSales) = SumFunctionOnSet(OnSales, Sales)
      /\ SumFunction(OnReturns) = SumFunctionOnSet(OnReturns, Returns)
      /\ SumFunction(OnEntries) = SumFunctionOnSet(OnEntries, Entries)
      /\ SumFunction(f) = SumFunctionOnSet(f, Docs)
  BY DEF SumFunction, OnSales, OnReturns, OnEntries
<1>6. /\ IsFiniteSet(Sales \cup Returns)
      /\ SumFunctionOnSet(f, Sales \cup Returns)
           = SumFunctionOnSet(f, Sales) + SumFunctionOnSet(f, Returns)
  <2>1. Sales \cap Returns = {} /\ \A d \in Sales \cup Returns : f[d] \in Int
    BY <1>3, ConstantsAssumption
  <2> HIDE DEF f
  <2> QED BY <2>1, SumOverBoth, DocumentsAreFinite
<1>7. SumFunctionOnSet(f, Docs)
        = SumFunctionOnSet(f, Sales \cup Returns) + SumFunctionOnSet(f, Entries)
  <2>1. /\ (Sales \cup Returns) \cap Entries = {}
        /\ \A d \in (Sales \cup Returns) \cup Entries : f[d] \in Int
    BY <1>3, ConstantsAssumption
  <2>2. Docs = (Sales \cup Returns) \cup Entries
    BY DEF Docs
  <2> HIDE DEF f
  <2> QED BY <1>6, <2>1, <2>2, SumOverBoth, DocumentsAreFinite
<1>8. SumFunction(f) = Ledger
  <2> HIDE DEF f
  <2> QED BY <1>4, <1>5, <1>6, <1>7, TotalsNamed
<1> QED BY <1>8 DEF ReceivableFollowsLedger

\* What the vouchers hold on Accounts Receivable is at all times what the customer's
\* ledger says, if every return says how it was refunded and a sale's receipt stays a
\* payment without discount: no posting, restatement, reversal or edit moves one without
\* the other, even where the balance itself is lost.
THEOREM BooksAgree ==
    ASSUME SalesApart, Told, Undiscounted, StillPayments
    PROVE  Spec => []ReceivableFollowsLedger
<1>1. Settled => ReceivableFollowsLedger
  BY BooksFollowRows DEF Settled
<1> QED BY <1>1, SpecSettled, PTL

\* The vouchers of a completed sale and of a kept return add up to it, and a draft, a
\* cancelled or a deleted document has none, its receipt's included, if that stays a
\* payment: the vouchers of a receipt that was made a payout are left behind.
THEOREM RevenueInFull ==
    ASSUME SalesApart, StillPayments PROVE Spec => []PostedInFull
<1>1. ASSUME Types, Rows PROVE PostedInFull
  <2>1. ASSUME NEW d \in Docs
        PROVE  Revenue(d) = (voucher[d]["main"].ar + voucher[d]["main"].cash)
                            + (voucher[d]["paid"].ar + voucher[d]["paid"].cash)
    <3>1. /\ voucher[d]["main"].ar \in Int /\ voucher[d]["main"].cash \in Int
          /\ voucher[d]["paid"].ar \in Int /\ voucher[d]["paid"].cash \in Int
      BY <1>1 DEF Types, RowsOK, Legs
    <3> QED BY <3>1 DEF Revenue
  <2>2. \A s \in Sales : SaleRow(s) /\ s \in Docs
    BY <1>1, Apart DEF Rows
  <2>3. \A x \in Returns : ReturnRow(x) /\ x \in Docs
    BY <1>1, Apart DEF Rows
  <2>4. \A s \in Sales :
          (voucher[s]["main"].ar + voucher[s]["main"].cash)
            + (voucher[s]["paid"].ar + voucher[s]["paid"].cash) = IF Posted(s) THEN sale[s].qty ELSE 0
    BY <2>1, <2>2 DEF SaleRow
  <2>5. ASSUME NEW s \in Sales, ~Posted(s) PROVE voucher[s] = NoVouchers
    <3>1. voucher[s] \in [Legs -> Money]
      BY <1>1, <2>2 DEF Types, RowsOK
    <3>2. owed[s].receipt = NoEntry
      BY <2>2, <2>5 DEF SaleRow, NoOwed
    <3>3. /\ voucher[s]["main"] = Blank /\ voucher[s]["paid"] = Blank
          /\ voucher[s]["account"] = Blank /\ voucher[s]["discount"] = Blank
          /\ voucher[s]["stray"] = Blank
      BY <2>2, <2>5, <3>2 DEF SaleRow, ReceiptBooks
    <3>4. \A l \in Legs : voucher[s][l] = Blank
      BY <3>3 DEF Legs
    <3> QED BY <3>1, <3>4 DEF NoVouchers
  <2>6. \A x \in Returns :
          (voucher[x]["main"].ar + voucher[x]["main"].cash)
            + (voucher[x]["paid"].ar + voucher[x]["paid"].cash) = IF Kept(x) THEN -ret[x].qty ELSE 0
    BY <2>1, <2>3 DEF ReturnRow
  <2> QED BY <2>4, <2>5, <2>6 DEF PostedInFull
<1>2. Settled => PostedInFull
  BY <1>1 DEF Settled
<1> QED BY <1>2, SpecSettled, PTL

(***************************************************************************)
(* What comes back of each sale.                                           *)
(***************************************************************************)
Of(x, s) == IF Keeps(x, s) THEN ret[x].qty ELSE 0
BackOf(s) == [x \in Returns |-> Of(x, s)]
Comes(s) == SumFunctionOnSet(BackOf(s), Returns)

LEMMA OfType == Types => \A x \in Returns, s \in Sales : Of(x, s) \in Nat
BY DEF Types, RowsOK, Return, Of

LEMMA HeldType == Types => \A s \in Sales : Held(s) \in Nat
BY DEF Types, RowsOK, Sale, Held

LEMMA NextTypes ==
    Types' => /\ \A x \in Returns, s \in Sales : Of(x, s)' \in Nat
              /\ \A s \in Sales : Held(s)' \in Nat
<1>1. Types' => (\A s \in Sales : Held(s)' \in Nat)
  BY DEF Types, RowsOK, Sale, Held, Posted
<1>2. Types' => (\A x \in Returns, s \in Sales : Of(x, s)' \in Nat)
  BY DEF Types, RowsOK, Return, Of, Keeps
<1> QED BY <1>1, <1>2

\* A sum over the kept returns of a sale is one over all of them.
LEMMA KeptSums ==
    ASSUME Types, NEW s \in Sales, NEW T \in SUBSET Returns
    PROVE  SumFunctionOnSet([x \in Returns |-> ret[x].qty], {x \in T : Keeps(x, s)})
             = SumFunctionOnSet(BackOf(s), T)
<1> DEFINE f == [x \in Returns |-> ret[x].qty]  P == {x \in T : Keeps(x, s)}  g == BackOf(s)
<1>1. IsFiniteSet(T) /\ P \in SUBSET T
  BY DocumentsAreFinite, FS_Subset
<1>2. \A x \in T : f[x] \in Int
  BY DEF Types, RowsOK, Return
<1>3. \A x \in T : g[x] = IF x \in P THEN f[x] ELSE 0
  BY DEF BackOf, Of
<1> HIDE DEF f, g, P
<1>4. SumFunctionOnSet(f, P) = SumFunctionOnSet(g, T)
  BY <1>1, <1>2, <1>3, SumOverPart
<1> QED BY <1>4 DEF f, g, P

LEMMA ReturnedTwiceMeans ==
    Types => (NothingReturnedTwice <=> \A s \in Sales : Comes(s) <= Held(s))
BY KeptSums DEF NothingReturnedTwice, Comes, Held

Bounded == \A s \in Sales : Comes(s) <= Held(s)

LEMMA StepBounded ==
    ASSUME SalesApart, SoldFirst, Settled, Types', Bounded, [Next]_vars PROVE Bounded'
<1> USE DEF Settled
<1>0. /\ \A x \in Returns, s \in Sales : Of(x, s) \in Nat /\ Of(x, s)' \in Nat
      /\ \A s \in Sales : Held(s) \in Nat /\ Held(s)' \in Nat
      /\ \A s \in Sales : Comes(s)' = SumFunctionOnSet(BackOf(s)', Returns)
  BY OfType, HeldType, NextTypes DEF Comes
<1>1. ASSUME NEW s \in Sales, BackOf(s)' = BackOf(s), Held(s)' = Held(s)
      PROVE  Comes(s)' <= Held(s)'
  BY <1>0, <1>1 DEF Bounded, Comes
<1>2. ASSUME NEW s \in Sales, SaleStep(s), NEW t \in Sales PROVE Comes(t)' <= Held(t)'
  <2>1. BackOf(t)' = BackOf(t)
    BY <1>2 DEF SaleStep, KeepsReturns, BackOf, Of, Keeps
  <2>2. CASE sale'[t] = sale[t]
    <3>1. Held(t)' = Held(t)
      BY <2>2 DEF Held, Posted
    <3> QED BY <1>1, <2>1, <3>1
  <2>3. CASE sale'[t] # sale[t]
    <3>1. OfSale(t) = {}
      BY <1>2, <2>3 DEF SaleStep, KeepsReturns
    <3>2. \A x \in Returns : BackOf(t)[x] = 0
      BY <3>1 DEF OfSale, BackOf, Of, Keeps
    <3>3. SumFunctionOnSet(BackOf(t), Returns) = 0
      BY <3>2, SumOfZeros, DocumentsAreFinite
    <3> QED BY <1>0, <2>1, <3>3
  <2> QED BY <2>2, <2>3
<1>3. ASSUME NEW x \in Returns, ReturnStep(x), NEW t \in Sales PROVE Comes(t)' <= Held(t)'
  <2> DEFINE others == Returns \ {x}
  <2>1. PICK f, g : f = BackOf(t) /\ g = BackOf(t)'
    OBVIOUS
  <2>2. /\ \A y \in Returns : f[y] = Of(y, t) /\ g[y] = Of(y, t)'
        /\ \A y \in Returns : f[y] \in Int /\ g[y] \in Int
    BY <1>0, <2>1 DEF BackOf
  <2>3. Held(t)' = Held(t) /\ \A y \in others : g[y] = f[y]
    BY <1>3, <2>2 DEF ReturnStep, Held, Posted, Of, Keeps
  <2>4. CASE g[x] <= f[x]
    <3>1. \A y \in Returns : g[y] <= f[y]
      BY <2>2, <2>3, <2>4
    <3>2. SumFunctionOnSet(g, Returns) <= SumFunctionOnSet(f, Returns)
      BY <2>2, <3>1, SumsCompare, DocumentsAreFinite
    <3>3. SumFunctionOnSet(g, Returns) \in Int /\ SumFunctionOnSet(f, Returns) \in Int
      BY <2>2, SumIsInt, DocumentsAreFinite
    <3>4. SumFunctionOnSet(f, Returns) <= Held(t)
      BY <2>1 DEF Bounded, Comes
    <3> QED BY <1>0, <2>1, <2>3, <3>2, <3>3, <3>4
  <2>5. CASE ~(g[x] <= f[x])
    <3>1. Keeps(x, t)' /\ g[x] = ret'[x].qty
      BY <1>0, <2>2, <2>5 DEF Of
    <3>2. Kept(x)' /\ ret'[x].sale = t
      BY <3>1 DEF Keeps, Kept
    <3>3. ~(Keeps(x, t) /\ ret'[x].qty = ret[x].qty)
      BY <2>2, <2>5, <3>1 DEF Of
    <3>4. ret'[x].qty <= OpenOf(t, others)
      BY <1>3, <3>2, <3>3 DEF ReturnStep
    <3>5. Posted(t)
      BY <1>3, <3>2 DEF ReturnStep, ReturnRow, Posted
    <3>6. OpenOf(t, others) = Held(t) - SumFunctionOnSet(f, others)
      <4>1. {y \in others : Keeps(y, t) /\ ret[y].linked} = {y \in others : Keeps(y, t)}
        BY DEF Rows, ReturnRow, Keeps, Kept
      <4>2. SumFunctionOnSet([y \in Returns |-> ret[y].qty], {y \in others : Keeps(y, t)})
              = SumFunctionOnSet(f, others)
        BY <2>1, KeptSums
      <4> QED BY <3>5, <4>1, <4>2 DEF OpenOf, Held
    <3>7. SumFunctionOnSet(g, Returns) = g[x] + SumFunctionOnSet(g, others)
      BY <2>2, SumTakesOut, DocumentsAreFinite
    <3>8. IsFiniteSet(others)
      BY DocumentsAreFinite, FS_Subset
    <3>9. /\ SumFunctionOnSet(g, others) = SumFunctionOnSet(f, others)
          /\ SumFunctionOnSet(f, others) \in Int
      BY <2>2, <2>3, <3>8, SumsAgree, SumIsInt
    <3> HIDE DEF others
    <3> QED BY <1>0, <2>1, <2>2, <2>3, <3>1, <3>4, <3>6, <3>7, <3>9
  <2> QED BY <2>4, <2>5
<1>4. ASSUME ret' = ret, sale' = sale, NEW t \in Sales PROVE Comes(t)' <= Held(t)'
  BY <1>1, <1>4 DEF BackOf, Of, Keeps, Held, Posted
<1>5. (\E e \in Entries : EntryStep(e)) \/ NoStep => ret' = ret /\ sale' = sale
  BY DEF EntryStep, NoStep
<1> QED BY <1>2, <1>3, <1>4, <1>5, OneDocument DEF Bounded

\* No more comes back of a sale than it sold, whichever returns are saved, edited and
\* taken back in whatever order, if returns are of completed sales and a sale that has
\* returns is not edited.
THEOREM ReturnsBounded ==
    ASSUME SalesApart, SoldFirst PROVE Spec => []NothingReturnedTwice
<1>1. Init => Bounded
  <2>1. ASSUME Init, NEW s \in Sales PROVE Comes(s) = 0 /\ Held(s) = 0
    <3>1. \A x \in Returns : BackOf(s)[x] = 0
      BY <2>1 DEF Init, BackOf, Of, Keeps, NoReturn
    <3> QED BY <2>1, <3>1, SumOfZeros, DocumentsAreFinite DEF Init, Comes, Held, Posted, NoSale
  <2> QED BY <2>1 DEF Bounded
<1>2. Settled /\ Types' /\ Bounded /\ [Next]_vars => Bounded'
  BY StepBounded
<1>3. Types /\ Bounded => NothingReturnedTwice
  BY ReturnedTwiceMeans DEF Bounded
<1> QED BY <1>1, <1>2, <1>3, SpecSettled, SpecTypes, PTL DEF Spec

=============================================================================
