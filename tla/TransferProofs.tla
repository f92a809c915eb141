--------------------------- MODULE TransferProofs ---------------------------
(***************************************************************************)
(* What is proved of warehouse transfers for any number of requests,       *)
(* transfers, warehouses and products, and any quantities.                 *)
(***************************************************************************)
EXTENDS TransferProperties, TLAPS

(***************************************************************************)
(* Types.                                                                  *)
(***************************************************************************)
LEMMA StockedAreProducts == Stocked \subseteq Products
BY DEF Stocked

LEMMA NewItemsType ==
    ASSUME NEW lines \in [Products -> 0..MaxQuantity], NEW id \in Nat
    PROVE  NewItems(lines, id) \in [Products -> Item]
BY ConstantsAssumption DEF NewItems, Item

LEMMA NoLinesType == NoLines \in [Products -> 0..MaxQuantity]
BY ConstantsAssumption DEF NoLines

LEMMA NoRowType == NoRow \in Row /\ DeletedRow \in Row
<1> DEFINE w == CHOOSE w \in Warehouses : TRUE
<1>1. w \in Warehouses
  BY ConstantsAssumption
<1>2. NewItems(NoLines, 0) \in [Products -> Item]
  BY NewItemsType, NoLinesType
<1>3. NoRow \in Row
  BY <1>1, <1>2 DEF NoRow, Row, Status
<1>4. DeletedRow \in Row
  BY <1>3 DEF DeletedRow, Row, Status
<1> QED BY <1>3, <1>4

LEMMA IdleRequestType == IdleRequest \in Request
BY NoRowType, NoLinesType DEF IdleRequest, Request, Kinds, Stages

RequestsOK ==
    /\ request \in [Requests -> Request]
    /\ \A r \in Requests : Busy(r) => request[r].t \in Transfers

LEMMA IdleType ==
    ASSUME TypeOK, NEW r \in Requests, request' = Idle(r)
    PROVE  RequestsOK'
<1>1. request' \in [Requests -> Request]
  BY IdleRequestType DEF TypeOK, Idle
<1>2. request'[r].stage = "idle"
  BY DEF Idle, IdleRequest, TypeOK
<1>3. \A q \in Requests \ {r} : request'[q] = request[q]
  BY DEF Idle, TypeOK
<1> QED BY <1>1, <1>2, <1>3 DEF RequestsOK, TypeOK, Busy

LEMMA TakeOutType ==
    ASSUME TypeOK, NEW t \in Transfers, NEW w \in Warehouses,
           NEW qty \in [Products -> Nat], TakeOut(t, w, qty)
    PROVE  /\ stock' \in [Warehouses -> [Stocked -> Nat]]
           /\ moved' \in [Transfers -> [Warehouses -> [Stocked -> Int]]]
<1>1. [p \in Stocked |-> stock[w][p] - qty[p]] \in [Stocked -> Nat]
  <2> SUFFICES ASSUME NEW p \in Stocked PROVE stock[w][p] - qty[p] \in Nat
    OBVIOUS
  <2>1. stock[w][p] \in Nat /\ qty[p] \in Nat
    BY StockedAreProducts DEF TypeOK
  <2>2. qty[p] > 0 => qty[p] <= stock[w][p]
    BY DEF TakeOut
  <2> QED BY <2>1, <2>2
<1>2. [p \in Stocked |-> moved[t][w][p] - qty[p]] \in [Stocked -> Int]
  BY StockedAreProducts DEF TypeOK
<1> QED BY <1>1, <1>2 DEF TakeOut, TypeOK

LEMMA PutInType ==
    ASSUME TypeOK, NEW t \in Transfers, NEW w \in Warehouses,
           NEW qty \in [Products -> Nat], PutIn(t, w, qty)
    PROVE  /\ stock' \in [Warehouses -> [Stocked -> Nat]]
           /\ moved' \in [Transfers -> [Warehouses -> [Stocked -> Int]]]
<1>1. [p \in Stocked |-> stock[w][p] + qty[p]] \in [Stocked -> Nat]
  BY StockedAreProducts DEF TypeOK
<1>2. [p \in Stocked |-> moved[t][w][p] + qty[p]] \in [Stocked -> Int]
  BY StockedAreProducts DEF TypeOK
<1> QED BY <1>1, <1>2 DEF PutIn, TypeOK

LEMMA SentType == ASSUME NEW row \in Row PROVE Sent(row) \in [Products -> Nat]
BY DEF Sent, Row, Item

\* The parts of a request in flight.
LEMMA RequestType ==
    ASSUME TypeOK, NEW r \in Requests, Busy(r)
    PROVE  /\ request[r].t \in Transfers
           /\ request[r].snap \in Row
           /\ request[r].lines \in [Products -> 0..MaxQuantity]
BY DEF TypeOK, Request, Busy

LEMMA DispatchType ==
    ASSUME TypeOK, NEW t \in Transfers, NEW snap \in Row, NEW approved \in BOOLEAN,
           Dispatch(t, snap, approved)
    PROVE  /\ stock' \in [Warehouses -> [Stocked -> Nat]]
           /\ moved' \in [Transfers -> [Warehouses -> [Stocked -> Int]]]
           /\ transfer' \in [Transfers -> Row]
<1>1. snap.src \in Warehouses /\ snap.dst \in Warehouses
  BY DEF Row
<1>2. TakeOut(t, snap.src, Sent(snap))
  BY DEF Dispatch
<1>3. transfer' \in [Transfers -> Row]
  <2>1. CrossBranch(snap.src, snap.dst) \in BOOLEAN
    BY DEF CrossBranch
  <2>2. PICK cross \in BOOLEAN : cross = CrossBranch(snap.src, snap.dst)
    BY <2>1
  <2> DEFINE row == [transfer[t] EXCEPT !.status = "SENT", !.cross = cross, !.approved = approved]
  <2>3. transfer' = [transfer EXCEPT ![t] = row]
    BY <2>2 DEF Dispatch
  <2>4. transfer \in [Transfers -> Row]
    BY DEF TypeOK
  <2>5. row \in Row
    BY <2>4 DEF Row, Status, Moving
  <2> HIDE DEF row
  <2> QED BY <2>3, <2>4, <2>5
<1> QED BY <1>1, <1>2, <1>3, SentType, TakeOutType

LEMMA InitTypeOK == Init => TypeOK
<1> SUFFICES ASSUME Init PROVE TypeOK
  OBVIOUS
<1>1. stock \in [Warehouses -> [Stocked -> Nat]]
  BY ConstantsAssumption DEF Init
<1>2. edits \in [Transfers -> 0..MaxEdits]
  BY ConstantsAssumption DEF Init
<1>3. request \in [Requests -> Request] /\ \A r \in Requests : ~Busy(r)
  BY IdleRequestType DEF Init, Busy, IdleRequest
<1> QED BY <1>1, <1>2, <1>3, NoRowType DEF Init, TypeOK

LEMMA StoreType ==
    ASSUME TypeOK, NEW t \in Transfers, NEW src \in Warehouses, NEW dst \in Warehouses,
           NEW ask \in {"DRAFT", "SENT"}, NEW approved \in BOOLEAN,
           NEW items \in [Products -> Item], NEW lines \in Lines,
           Store(t, src, dst, ask, approved, items, lines)
    PROVE  /\ transfer' \in [Transfers -> Row]
           /\ stock' \in [Warehouses -> [Stocked -> Nat]]
           /\ moved' \in [Transfers -> [Warehouses -> [Stocked -> Int]]]
<1>1. CrossBranch(src, dst) \in BOOLEAN
  BY DEF CrossBranch
<1>2. WrittenStatus(src, dst, ask) \in Status
  BY DEF WrittenStatus, Status, Moving
<1>3. transfer' \in [Transfers -> Row]
  BY <1>1, <1>2 DEF Store, TypeOK, Row
<1>4. lines \in [Products -> Nat]
  BY ConstantsAssumption DEF Lines
<1>5. CASE TakeOut(t, src, lines)
  BY <1>3, <1>4, <1>5, TakeOutType
<1>6. CASE UNCHANGED <<stock, moved>>
  BY <1>3, <1>6 DEF TypeOK
<1> QED BY <1>5, <1>6 DEF Store

LEMMA CreateType == ASSUME TypeOK, NEW t \in Transfers, Create(t) PROVE TypeOK'
<1>1. PICK src \in Warehouses, dst \in Warehouses, lines \in Lines, ask \in {"DRAFT", "SENT"} :
        Store(t, src, dst, ask, FALSE, NewItems(lines, 0), lines)
  BY DEF Create
<1>2. NewItems(lines, 0) \in [Products -> Item]
  BY NewItemsType DEF Lines
<1>3. /\ transfer' \in [Transfers -> Row]
      /\ stock' \in [Warehouses -> [Stocked -> Nat]]
      /\ moved' \in [Transfers -> [Warehouses -> [Stocked -> Int]]]
  BY <1>1, <1>2, StoreType
<1> QED BY <1>3 DEF Create, TypeOK, Busy

LEMMA BeginType ==
    ASSUME TypeOK, NEW r \in Requests, NEW k \in Kinds, NEW t \in Transfers, Begin(r, k, t)
    PROVE  TypeOK'
<1> DEFINE started == [kind |-> k, t |-> t, stage |-> "read", snap |-> transfer[t],
                       lines |-> NoLines, full |-> FALSE]
<1>1. started \in Request
  BY NoLinesType DEF TypeOK, Request, Stages
<1>2. request' = [request EXCEPT ![r] = started]
  BY DEF Begin
<1>3. RequestsOK'
  BY <1>1, <1>2 DEF RequestsOK, TypeOK, Busy
<1> QED BY <1>3 DEF Begin, TypeOK, RequestsOK

LEMMA SendType == ASSUME TypeOK, NEW r \in Requests, Send(r) PROVE TypeOK'
<1> DEFINE t == request[r].t
           snap == request[r].snap
<1>1. t \in Transfers /\ snap \in Row
  BY RequestType DEF Send, Ready, Busy
<1>2. RequestsOK'
  BY IdleType DEF Send
<1>3. CASE /\ transfer' = [transfer EXCEPT ![t].status = "PENDING_APPROVAL"]
           /\ UNCHANGED <<stock, moved>>
  <2>1. transfer' \in [Transfers -> Row]
    BY <1>1, <1>3 DEF TypeOK, Row, Status
  <2> QED BY <1>2, <1>3, <2>1 DEF Send, TypeOK, RequestsOK
<1>4. CASE Dispatch(t, snap, transfer[t].approved)
  <2>1. transfer[t].approved \in BOOLEAN
    BY <1>1 DEF TypeOK, Row
  <2> QED BY <1>1, <1>2, <1>4, <2>1, DispatchType DEF Send, TypeOK, RequestsOK
<1> QED BY <1>3, <1>4 DEF Send

LEMMA ApproveType == ASSUME TypeOK, NEW r \in Requests, Approve(r) PROVE TypeOK'
<1>1. request[r].t \in Transfers /\ request[r].snap \in Row
  BY RequestType DEF Approve, Ready, Busy
<1>2. RequestsOK'
  BY IdleType DEF Approve
<1> QED BY <1>1, <1>2, DispatchType DEF Approve, TypeOK, RequestsOK

LEMMA SetStatusType ==
    ASSUME TypeOK, NEW t \in Transfers, NEW s \in Status,
           transfer' = [transfer EXCEPT ![t].status = s]
    PROVE  transfer' \in [Transfers -> Row]
<1>1. [transfer[t] EXCEPT !.status = s] \in Row
  BY DEF TypeOK, Row
<1> QED BY <1>1 DEF TypeOK

LEMMA RejectType == ASSUME TypeOK, NEW r \in Requests, Reject(r) PROVE TypeOK'
<1>1. request[r].t \in Transfers
  BY RequestType DEF Reject, Ready, Busy
<1>2. RequestsOK'
  BY IdleType DEF Reject
<1>3. transfer' = [transfer EXCEPT ![request[r].t].status = "REJECTED"]
  BY DEF Reject
<1>4. transfer' \in [Transfers -> Row]
  BY <1>1, <1>3, SetStatusType DEF Status
<1> QED BY <1>2, <1>4 DEF Reject, TypeOK, RequestsOK

LEMMA RemoveType == ASSUME TypeOK, NEW r \in Requests, Remove(r) PROVE TypeOK'
<1>1. RequestsOK'
  BY IdleType DEF Remove
<1>2. transfer' \in [Transfers -> Row]
  BY NoRowType DEF Remove, TypeOK
<1> QED BY <1>1, <1>2 DEF Remove, TypeOK, RequestsOK

\* The lines a rewrite may leave are the new ones or a merge with the old.
LEMMA RewrittenType ==
    ASSUME TypeOK, NEW t \in Transfers, NEW snap \in Row,
           NEW lines \in [Products -> 0..MaxQuantity], NEW id \in Nat,
           NEW items \in Rewritten(t, snap, lines, id)
    PROVE  items \in [Products -> Item]
<1>1. NewItems(lines, id) \in [Products -> Item]
  BY NewItemsType
<1>2. transfer[t].items \in [Products -> Item]
  BY DEF TypeOK, Row
<1>3. [p \in Products |-> IF lines[p] > 0 THEN NewItems(lines, id)[p]
                          ELSE transfer[t].items[p]] \in [Products -> Item]
  BY <1>1, <1>2
<1> QED BY <1>1, <1>3 DEF Rewritten

LEMMA UpdateType == ASSUME TypeOK, NEW r \in Requests, Update(r) PROVE TypeOK'
<1> DEFINE t == request[r].t
           snap == request[r].snap
<1>1. t \in Transfers /\ snap \in Row
  BY RequestType DEF Update, Ready, Busy
<1>2. RequestsOK'
  BY IdleType DEF Update
<1>3. edits[t] + 1 \in Nat /\ edits' \in [Transfers -> 0..MaxEdits]
  BY <1>1, ConstantsAssumption DEF Update, TypeOK
<1>4. PICK src \in Warehouses, dst \in Warehouses, lines \in Lines, ask \in {"DRAFT", "SENT"} :
        \E items \in Rewritten(t, snap, lines, edits[t] + 1) :
          Store(t, src, dst, ask, transfer[t].approved, items, lines)
  BY DEF Update
<1>5. PICK items \in Rewritten(t, snap, lines, edits[t] + 1) :
        Store(t, src, dst, ask, transfer[t].approved, items, lines)
  BY <1>4
<1>6. lines \in [Products -> 0..MaxQuantity]
  BY DEF Lines
<1>7. items \in [Products -> Item]
  BY <1>1, <1>3, <1>6, RewrittenType
<1>8. transfer[t].approved \in BOOLEAN
  BY <1>1 DEF TypeOK, Row
<1>9. /\ transfer' \in [Transfers -> Row]
      /\ stock' \in [Warehouses -> [Stocked -> Nat]]
      /\ moved' \in [Transfers -> [Warehouses -> [Stocked -> Int]]]
  BY <1>1, <1>5, <1>7, <1>8, StoreType
<1> QED BY <1>2, <1>3, <1>9 DEF TypeOK, RequestsOK

LEMMA ReceiveLinesType == ASSUME TypeOK, NEW r \in Requests, ReceiveLines(r) PROVE TypeOK'
<1>1. request[r].t \in Transfers
  BY RequestType DEF ReceiveLines, Ready, Busy
<1>2. PICK lines \in Lines :
        request' = [request EXCEPT ![r] = [@ EXCEPT !.stage = "applied", !.lines = lines]]
  BY DEF ReceiveLines
<1>3. [request[r] EXCEPT !.stage = "applied", !.lines = lines] \in Request
  BY DEF Lines, TypeOK, Request, Stages
<1>4. RequestsOK'
  BY <1>1, <1>2, <1>3 DEF RequestsOK, TypeOK, Busy, Request
<1> QED BY <1>4 DEF ReceiveLines, TypeOK, RequestsOK

LEMMA ReceiveRefreshType == ASSUME TypeOK, NEW r \in Requests, ReceiveRefresh(r) PROVE TypeOK'
<1>1. request[r].t \in Transfers
  BY RequestType DEF ReceiveRefresh, Busy
<1>2. PICK full \in BOOLEAN :
        request' = [request EXCEPT ![r] = [@ EXCEPT !.stage = "refreshed", !.full = full]]
  BY DEF ReceiveRefresh, AllArrived
<1>3. [request[r] EXCEPT !.stage = "refreshed", !.full = full] \in Request
  BY DEF TypeOK, Request, Stages
<1>4. RequestsOK'
  BY <1>1, <1>2, <1>3 DEF RequestsOK, TypeOK, Busy, Request
<1> QED BY <1>4 DEF ReceiveRefresh, TypeOK, RequestsOK

LEMMA ReceivedType ==
    ASSUME NEW items \in [Products -> Item], NEW lines \in [Products -> Nat]
    PROVE  Received(items, lines) \in [Products -> Item]
<1>1. ASSUME NEW p \in Products
      PROVE  [items[p] EXCEPT !.received = @ + lines[p]] \in Item
  BY DEF Item
<1> QED BY <1>1 DEF Received

LEMMA ReceiveCommitType == ASSUME TypeOK, NEW r \in Requests, ReceiveCommit(r) PROVE TypeOK'
<1> DEFINE t == request[r].t
           lines == request[r].lines
<1>1. /\ t \in Transfers /\ request[r].snap.dst \in Warehouses
      /\ lines \in [Products -> Nat]
  BY RequestType, ConstantsAssumption DEF ReceiveCommit, Busy, Row
<1>2. RequestsOK'
  BY IdleType DEF ReceiveCommit
<1>3. transfer[t].items \in [Products -> Item]
  BY <1>1 DEF TypeOK, Row
<1>4. Received(transfer[t].items, lines) \in [Products -> Item]
  BY <1>1, <1>3, ReceivedType
<1>5. PICK s \in Status : transfer' = [transfer EXCEPT ![t] =
        [@ EXCEPT !.status = s, !.items = Received(transfer[t].items, lines)]]
  BY DEF ReceiveCommit, Status, Moving
<1>6. transfer' \in [Transfers -> Row]
  BY <1>1, <1>4, <1>5 DEF TypeOK, Row
<1> QED BY <1>1, <1>2, <1>6, PutInType DEF ReceiveCommit, TypeOK, RequestsOK

LEMMA StepTypeOK == TypeOK /\ [Next]_vars => TypeOK'
<1> SUFFICES ASSUME TypeOK, [Next]_vars PROVE TypeOK'
  OBVIOUS
<1>1. ASSUME NEW r \in Requests, Step(r) PROVE TypeOK'
  BY <1>1, SendType, ApproveType, RejectType, RemoveType, UpdateType,
     ReceiveLinesType, ReceiveRefreshType, ReceiveCommitType DEF Step
<1>2. ASSUME NEW r \in Requests, Abort(r) PROVE TypeOK'
  BY <1>2, IdleType DEF Abort, TypeOK, RequestsOK
<1>3. CASE UNCHANGED vars
  BY <1>3 DEF vars, TypeOK, Busy
<1> QED BY <1>1, <1>2, <1>3, CreateType, BeginType DEF Next

\* Types hold for any instance, and with them that no interleaving of dispatches
\* takes a warehouse's stock below zero (applyInventoryMovement).
THEOREM TypesHold == Spec => []TypeOK
BY InitTypeOK, StepTypeOK, PTL DEF Spec

(***************************************************************************)
(* Approvals, the ledger and receipts, when nothing but decisions overlaps *)
(* on a transfer.  The inductive invariant says of each row all that the   *)
(* theorems do and that its branch columns are those of its warehouses, and*)
(* of each request that what it read still holds: for a decision as long as*)
(* the transfer is waiting, for any other request until it commits.        *)
(***************************************************************************)
Decisions == {"approve", "reject"}

OnlyDecisionsOverlap == Kinds \ Decisions \subseteq Serial

RowOK(t) ==
    /\ Exists(t) =>
         /\ transfer[t].src # transfer[t].dst
         /\ transfer[t].requires = CrossBranch(transfer[t].src, transfer[t].dst)
    /\ ~InMotion(t) => \A p \in Products : transfer[t].items[p].received = 0
    /\ InMotion(t) /\ CrossBranch(transfer[t].src, transfer[t].dst)
         => transfer[t].approved
    /\ \A w \in Warehouses, p \in Stocked : moved[t][w][p] = Documented(t, w, p)
    /\ \A p \in Products : transfer[t].items[p].received <= transfer[t].items[p].sent

Exclusive ==
    \A q, r \in Requests :
        q # r /\ Busy(q) /\ Busy(r) /\ request[q].t = request[r].t =>
            request[q].kind \in Decisions /\ request[r].kind \in Decisions

ReadHolds(r) ==
    LET t == request[r].t
        snap == request[r].snap
        k == request[r].kind
    IN  /\ snap.status \in Accepts(k)
        /\ transfer[t].status # "NONE"
        /\ k \in Decisions /\ transfer[t].status = "PENDING_APPROVAL" => transfer[t] = snap
        /\ k \notin Decisions => transfer[t] = snap
        /\ request[r].stage # "read" =>
             /\ k = "receive"
             /\ \A p \in Products :
                  snap.items[p].received + request[r].lines[p] <= snap.items[p].sent

IInv == /\ TypeOK
        /\ \A t \in Transfers : RowOK(t)
        /\ Exclusive
        /\ \A r \in Requests : Busy(r) => ReadHolds(r)

LEMMA InitIInv == Init => IInv
<1> SUFFICES ASSUME Init PROVE IInv
  OBVIOUS
<1>1. \A t \in Transfers : RowOK(t)
  <2> SUFFICES ASSUME NEW t \in Transfers PROVE RowOK(t)
    OBVIOUS
  <2>1. transfer[t].status = "NONE"
    BY DEF Init, NoRow
  <2>2. \A p \in Products : transfer[t].items[p].received = 0 /\ transfer[t].items[p].sent = 0
    BY DEF Init, NoRow, NewItems, NoLines
  <2>3. \A w \in Warehouses, p \in Stocked : moved[t][w][p] = 0
    BY DEF Init
  <2> QED BY <2>1, <2>2, <2>3 DEF RowOK, Exists, InMotion, Moving, Documented
<1>2. \A r \in Requests : ~Busy(r)
  BY DEF Init, Busy, IdleRequest
<1> QED BY <1>1, <1>2, InitTypeOK DEF IInv, Exclusive

\* A row that no step touches stays right.
LEMMA RowKept ==
    ASSUME NEW t \in Transfers, RowOK(t), transfer'[t] = transfer[t], moved'[t] = moved[t]
    PROVE  RowOK(t)'
BY DEF RowOK, Exists, InMotion, Documented

\* The accepted statuses are those of rows that are there, and only a receive
\* accepts goods on their way.
LEMMA AcceptedStatus ==
    ASSUME NEW k \in Kinds, NEW s \in Accepts(k)
    PROVE  /\ s \notin {"NONE", "DELETED"}
           /\ k # "receive" => s \notin Moving
           /\ k = "receive" => s \in Moving
           /\ k \in {"approve", "reject"} => s = "PENDING_APPROVAL"
BY DEF Accepts, Kinds, Moving

(***************************************************************************)
(* What each kind of write does to its row.                                *)
(***************************************************************************)
LEMMA TakenOut ==
    ASSUME TypeOK, NEW t \in Transfers, NEW w \in Warehouses,
           NEW qty \in [Products -> Nat], TakeOut(t, w, qty)
    PROVE  /\ \A u \in Transfers \ {t} : moved'[u] = moved[u]
           /\ \A v \in Warehouses, p \in Stocked :
                moved'[t][v][p] = IF v = w THEN moved[t][v][p] - qty[p] ELSE moved[t][v][p]
<1> DEFINE after == [p \in Stocked |-> moved[t][w][p] - qty[p]]
<1>1. moved' = [moved EXCEPT ![t] = [@ EXCEPT ![w] = after]]
  BY DEF TakeOut
<1>2. \A u \in Transfers \ {t} : moved'[u] = moved[u]
  BY <1>1 DEF TypeOK
<1>3. moved'[t] = [moved[t] EXCEPT ![w] = after]
  BY <1>1 DEF TypeOK
<1>4. moved[t] \in [Warehouses -> [Stocked -> Int]]
  BY DEF TypeOK
<1>5. ASSUME NEW v \in Warehouses, NEW p \in Stocked
      PROVE  moved'[t][v][p] = IF v = w THEN moved[t][v][p] - qty[p] ELSE moved[t][v][p]
  <2>1. CASE v = w
    <3>1. moved'[t][v] = after
      BY <1>3, <1>4, <2>1
    <3> QED BY <2>1, <3>1
  <2>2. CASE v # w
    <3>1. moved'[t][v] = moved[t][v]
      BY <1>3, <1>4, <2>2
    <3> QED BY <2>2, <3>1
  <2> QED BY <2>1, <2>2
<1> QED BY <1>2, <1>5

LEMMA PutInto ==
    ASSUME TypeOK, NEW t \in Transfers, NEW w \in Warehouses,
           NEW qty \in [Products -> Nat], PutIn(t, w, qty)
    PROVE  /\ \A u \in Transfers \ {t} : moved'[u] = moved[u]
           /\ \A v \in Warehouses, p \in Stocked :
                moved'[t][v][p] = IF v = w THEN moved[t][v][p] + qty[p] ELSE moved[t][v][p]
<1> DEFINE after == [p \in Stocked |-> moved[t][w][p] + qty[p]]
<1>1. moved' = [moved EXCEPT ![t] = [@ EXCEPT ![w] = after]]
  BY DEF PutIn
<1>2. \A u \in Transfers \ {t} : moved'[u] = moved[u]
  BY <1>1 DEF TypeOK
<1>3. moved'[t] = [moved[t] EXCEPT ![w] = after]
  BY <1>1 DEF TypeOK
<1>4. moved[t] \in [Warehouses -> [Stocked -> Int]]
  BY DEF TypeOK
<1>5. ASSUME NEW v \in Warehouses, NEW p \in Stocked
      PROVE  moved'[t][v][p] = IF v = w THEN moved[t][v][p] + qty[p] ELSE moved[t][v][p]
  <2>1. CASE v = w
    <3>1. moved'[t][v] = after
      BY <1>3, <1>4, <2>1
    <3> QED BY <2>1, <3>1
  <2>2. CASE v # w
    <3>1. moved'[t][v] = moved[t][v]
      BY <1>3, <1>4, <2>2
    <3> QED BY <2>2, <3>1
  <2> QED BY <2>1, <2>2
<1> QED BY <1>2, <1>5

\* Goods leave a row that has moved nothing, from the warehouse on it.
LEMMA LeavingKeepsLedger ==
    ASSUME TypeOK, NEW t \in Transfers, NEW w \in Warehouses,
           NEW qty \in [Products -> Nat], TakeOut(t, w, qty),
           RowOK(t), ~InMotion(t), transfer'[t] \in Row,
           transfer'[t].status \in Moving, transfer'[t].src = w, transfer'[t].dst # w,
           \A p \in Products : /\ transfer'[t].items[p].sent = qty[p]
                               /\ transfer'[t].items[p].received = 0
    PROVE  \A v \in Warehouses, p \in Stocked : moved'[t][v][p] = Documented(t, v, p)'
<1> SUFFICES ASSUME NEW v \in Warehouses, NEW p \in Stocked
             PROVE  moved'[t][v][p] = Documented(t, v, p)'
  OBVIOUS
<1>1. moved[t][v][p] = 0
  BY DEF RowOK, Documented
<1>2. moved'[t][v][p] = IF v = w THEN 0 - qty[p] ELSE 0
  <2>1. moved'[t][v][p] = IF v = w THEN moved[t][v][p] - qty[p] ELSE moved[t][v][p]
    BY TakenOut
  <2> QED BY <1>1, <2>1
<1>3. p \in Products /\ qty[p] \in Nat
  BY StockedAreProducts
<1>4. InMotion(t)'
  BY DEF InMotion
<1>5. CASE v = w
  BY <1>2, <1>3, <1>4, <1>5 DEF Documented
<1>6. CASE v # w
  BY <1>2, <1>3, <1>4, <1>6 DEF Documented
<1> QED BY <1>5, <1>6

\* A transfer that is dispatched as it was read is right afterwards, provided it
\* was waiting, and has been approved if it goes to another branch.
LEMMA DispatchKeepsRow ==
    ASSUME TypeOK, NEW t \in Transfers, NEW snap \in Row, NEW approved \in BOOLEAN,
           Dispatch(t, snap, approved), transfer[t] = snap,
           RowOK(t), Exists(t), ~InMotion(t),
           approved \/ ~CrossBranch(snap.src, snap.dst)
    PROVE  /\ RowOK(t)'
           /\ transfer'[t].status = "SENT"
           /\ \A u \in Transfers \ {t} : transfer'[u] = transfer[u] /\ moved'[u] = moved[u]
<1>1. /\ transfer'[t].status = "SENT" /\ transfer'[t].approved = approved
      /\ transfer'[t].src = snap.src /\ transfer'[t].dst = snap.dst
      /\ transfer'[t].requires = snap.requires /\ transfer'[t].items = snap.items
      /\ \A u \in Transfers \ {t} : transfer'[u] = transfer[u]
  BY DEF Dispatch, TypeOK, Row
<1>2. /\ snap.src # snap.dst /\ snap.requires = CrossBranch(snap.src, snap.dst)
      /\ \A p \in Products : snap.items[p].received = 0
      /\ \A p \in Products : snap.items[p].received <= snap.items[p].sent
  BY DEF RowOK
<1>3. TakeOut(t, snap.src, Sent(snap)) /\ snap.src \in Warehouses
      /\ Sent(snap) \in [Products -> Nat] /\ transfer'[t] \in Row
  BY SentType, DispatchType DEF Dispatch, Row
<1>4. \A p \in Products : Sent(snap)[p] = snap.items[p].sent
  BY DEF Sent
<1>5. \A v \in Warehouses, p \in Stocked : moved'[t][v][p] = Documented(t, v, p)'
  BY <1>1, <1>2, <1>3, <1>4, LeavingKeepsLedger DEF Moving
<1>6. \A u \in Transfers \ {t} : moved'[u] = moved[u]
  BY <1>3, TakenOut
<1>7. RowOK(t)'
  BY <1>1, <1>2, <1>5 DEF RowOK, Exists, InMotion, Moving
<1> QED BY <1>1, <1>6, <1>7

\* So is one that is stored with the lines that were asked for.
LEMMA StoreKeepsRow ==
    ASSUME TypeOK, NEW t \in Transfers, NEW src \in Warehouses, NEW dst \in Warehouses,
           NEW ask \in {"DRAFT", "SENT"}, NEW approved \in BOOLEAN, NEW lines \in Lines,
           NEW id \in Nat,
           Store(t, src, dst, ask, approved, NewItems(lines, id), lines),
           RowOK(t), ~InMotion(t)
    PROVE  /\ RowOK(t)'
           /\ transfer'[t].status # "NONE"
           /\ \A u \in Transfers \ {t} : transfer'[u] = transfer[u] /\ moved'[u] = moved[u]
<1> DEFINE status == WrittenStatus(src, dst, ask)
<1>1. /\ transfer'[t].status = status /\ transfer'[t].approved = approved
      /\ transfer'[t].src = src /\ transfer'[t].dst = dst /\ src # dst
      /\ transfer'[t].requires = CrossBranch(src, dst)
      /\ transfer'[t].items = NewItems(lines, id)
      /\ \A u \in Transfers \ {t} : transfer'[u] = transfer[u]
  BY DEF Store, TypeOK
<1>2. \A p \in Products : /\ transfer'[t].items[p].sent = lines[p]
                          /\ transfer'[t].items[p].received = 0
  BY <1>1 DEF NewItems
<1>3. lines \in [Products -> 0..MaxQuantity] /\ lines \in [Products -> Nat]
  BY ConstantsAssumption DEF Lines
<1>4. NewItems(lines, id) \in [Products -> Item]
  BY <1>3, NewItemsType
<1>5. transfer'[t] \in Row
  BY <1>4, StoreType
<1>6. CASE status = "SENT"
  <2>1. TakeOut(t, src, lines) /\ ~CrossBranch(src, dst)
    BY <1>6 DEF Store, WrittenStatus
  <2>2. \A v \in Warehouses, p \in Stocked : moved'[t][v][p] = Documented(t, v, p)'
    BY <1>1, <1>2, <1>3, <1>5, <1>6, <2>1, LeavingKeepsLedger DEF Moving
  <2>3. \A u \in Transfers \ {t} : moved'[u] = moved[u]
    BY <1>3, <2>1, TakenOut
  <2>4. \A p \in Products : lines[p] >= 0
    BY <1>3
  <2>5. RowOK(t)'
    BY <1>1, <1>2, <1>6, <2>1, <2>2, <2>4 DEF RowOK, Exists, InMotion, Moving
  <2> QED BY <1>1, <1>6, <2>3, <2>5
<1>7. CASE status # "SENT"
  <2>1. UNCHANGED moved /\ status \in {"DRAFT", "PENDING_APPROVAL"}
    BY <1>7 DEF Store, WrittenStatus
  <2>2. ~InMotion(t)'
    BY <1>1, <2>1 DEF InMotion, Moving
  <2>3. \A v \in Warehouses, p \in Stocked : moved'[t][v][p] = Documented(t, v, p)'
    BY <2>1, <2>2 DEF RowOK, Documented
  <2>4. \A p \in Products : lines[p] >= 0
    BY <1>3
  <2>5. RowOK(t)'
    BY <1>1, <1>2, <2>2, <2>3, <2>4 DEF RowOK, Exists
  <2> QED BY <1>1, <2>1, <2>5
<1> QED BY <1>6, <1>7

\* So is one whose status changes to another in which nothing has moved.
LEMMA StatusKeepsRow ==
    ASSUME TypeOK, NEW t \in Transfers, NEW s \in {"PENDING_APPROVAL", "REJECTED"},
           transfer' = [transfer EXCEPT ![t].status = s], UNCHANGED moved,
           RowOK(t), Exists(t), ~InMotion(t)
    PROVE  /\ RowOK(t)'
           /\ transfer'[t].status = s
           /\ \A u \in Transfers \ {t} : transfer'[u] = transfer[u] /\ moved'[u] = moved[u]
<1>1. /\ transfer'[t].status = s
      /\ transfer'[t].src = transfer[t].src /\ transfer'[t].dst = transfer[t].dst
      /\ transfer'[t].requires = transfer[t].requires
      /\ transfer'[t].items = transfer[t].items
      /\ \A u \in Transfers \ {t} : transfer'[u] = transfer[u]
  BY DEF TypeOK, Row
<1>2. ~InMotion(t)'
  BY <1>1 DEF InMotion, Moving
<1>3. \A v \in Warehouses, p \in Stocked : moved'[t][v][p] = Documented(t, v, p)'
  BY <1>2 DEF RowOK, Documented
<1> QED BY <1>1, <1>2, <1>3 DEF RowOK, Exists

(***************************************************************************)
(* What a write does to the requests in flight.                            *)
(***************************************************************************)
LEMMA WriteKeepsReads ==
    ASSUME IInv, NEW r \in Requests, Busy(r), request' = Idle(r),
           NEW t \in Transfers, t = request[r].t,
           \A u \in Transfers \ {t} : transfer'[u] = transfer[u],
           request[r].kind \in Decisions =>
               transfer'[t].status \notin {"PENDING_APPROVAL", "NONE"}
    PROVE  /\ Exclusive'
           /\ \A q \in Requests : Busy(q)' => ReadHolds(q)'
<1>1. ~Busy(r)' /\ \A q \in Requests \ {r} : request'[q] = request[q]
  BY DEF Idle, IdleRequest, Busy, IInv, TypeOK
<1>2. Exclusive'
  BY <1>1 DEF IInv, Exclusive, Busy
<1>3. ASSUME NEW q \in Requests, Busy(q)' PROVE ReadHolds(q)'
  <2>1. q # r /\ request'[q] = request[q] /\ Busy(q)
    BY <1>1, <1>3 DEF Busy
  <2>2. ReadHolds(q) /\ request[q].t \in Transfers
    BY <2>1 DEF IInv, TypeOK
  <2>3. CASE request[q].t = t
    <3>1. request[q].kind \in Decisions /\ request[r].kind \in Decisions
      BY <2>1, <2>3 DEF IInv, Exclusive
    <3> QED BY <2>1, <2>2, <2>3, <3>1 DEF ReadHolds
  <2>4. CASE request[q].t # t
    BY <2>1, <2>2, <2>4 DEF ReadHolds
  <2> QED BY <2>3, <2>4
<1> QED BY <1>2, <1>3

LEMMA WriteKeepsIInv ==
    ASSUME IInv, TypeOK', NEW r \in Requests, Busy(r), request' = Idle(r),
           NEW t \in Transfers, t = request[r].t, RowOK(t)',
           \A u \in Transfers \ {t} : transfer'[u] = transfer[u] /\ moved'[u] = moved[u],
           request[r].kind \in Decisions =>
               transfer'[t].status \notin {"PENDING_APPROVAL", "NONE"}
    PROVE  IInv'
<1>1. \A u \in Transfers : RowOK(u)'
  <2> SUFFICES ASSUME NEW u \in Transfers, u # t PROVE RowOK(u)'
    OBVIOUS
  <2> QED BY RowKept DEF IInv
<1>2. Exclusive' /\ \A q \in Requests : Busy(q)' => ReadHolds(q)'
  BY WriteKeepsReads
<1> QED BY <1>1, <1>2 DEF IInv

(***************************************************************************)
(* The steps.                                                              *)
(***************************************************************************)
\* What a request that has not committed may rely on when it does.
LEMMA AboutToWrite ==
    ASSUME IInv, NEW r \in Requests, Busy(r)
    PROVE  /\ request[r].t \in Transfers /\ request[r].snap \in Row
           /\ RowOK(request[r].t) /\ ReadHolds(r)
           /\ request[r].kind \in Kinds
           /\ request[r].kind \notin Decisions => transfer[request[r].t] = request[r].snap
BY RequestType DEF IInv, ReadHolds, TypeOK, Request

LEMMA SendKeepsIInv == ASSUME IInv, NEW r \in Requests, Send(r) PROVE IInv'
<1>1. Busy(r) /\ request[r].kind = "send" /\ request' = Idle(r) /\ TypeOK'
  BY SendType DEF Send, Ready, Busy, IInv
<1>2. PICK t \in Transfers, snap \in Row : t = request[r].t /\ snap = request[r].snap
  BY <1>1, AboutToWrite
<1>3. /\ RowOK(t) /\ transfer[t] = snap /\ snap.status \in Accepts("send")
      /\ request[r].kind \notin Decisions
  BY <1>1, <1>2, AboutToWrite DEF ReadHolds, Decisions
<1>4. ~InMotion(t) /\ Exists(t)
  BY <1>3, AcceptedStatus DEF InMotion, Exists, Kinds
<1>5. CASE transfer' = [transfer EXCEPT ![t].status = "PENDING_APPROVAL"]
             /\ UNCHANGED <<stock, moved>>
  <2>1. /\ RowOK(t)'
        /\ \A u \in Transfers \ {t} : transfer'[u] = transfer[u] /\ moved'[u] = moved[u]
    BY <1>3, <1>4, <1>5, StatusKeepsRow DEF IInv
  <2> QED BY <1>1, <1>2, <1>3, <2>1, WriteKeepsIInv
<1>6. CASE ~snap.requires /\ Dispatch(t, snap, transfer[t].approved)
  <2>1. PICK approved \in BOOLEAN : Dispatch(t, snap, approved)
    BY <1>6 DEF IInv, TypeOK, Row
  <2>2. ~CrossBranch(snap.src, snap.dst)
    BY <1>3, <1>4, <1>6 DEF RowOK
  <2>3. /\ RowOK(t)'
        /\ \A u \in Transfers \ {t} : transfer'[u] = transfer[u] /\ moved'[u] = moved[u]
    BY <1>3, <1>4, <2>1, <2>2, DispatchKeepsRow DEF IInv
  <2> QED BY <1>1, <1>2, <1>3, <2>3, WriteKeepsIInv
<1> QED BY <1>2, <1>5, <1>6 DEF Send

\* A decision acts only on a transfer that is still waiting, and then on the row
\* it read.
LEMMA AboutToDecide ==
    ASSUME IInv, NEW r \in Requests, Busy(r), request[r].kind \in Decisions,
           transfer[request[r].t].status = "PENDING_APPROVAL"
    PROVE  /\ transfer[request[r].t] = request[r].snap
           /\ Exists(request[r].t) /\ ~InMotion(request[r].t)
BY AboutToWrite DEF ReadHolds, Exists, InMotion, Moving

LEMMA ApproveKeepsIInv == ASSUME IInv, NEW r \in Requests, Approve(r) PROVE IInv'
<1>1. /\ Busy(r) /\ request[r].kind = "approve" /\ request' = Idle(r) /\ TypeOK'
      /\ transfer[request[r].t].status = "PENDING_APPROVAL"
      /\ Dispatch(request[r].t, request[r].snap, TRUE)
  BY ApproveType DEF Approve, Ready, Busy, IInv
<1>2. PICK t \in Transfers, snap \in Row : t = request[r].t /\ snap = request[r].snap
  BY <1>1, AboutToWrite
<1>3. RowOK(t) /\ transfer[t] = snap /\ Exists(t) /\ ~InMotion(t)
  BY <1>1, <1>2, AboutToWrite, AboutToDecide DEF Decisions
<1>4. /\ RowOK(t)' /\ transfer'[t].status = "SENT"
      /\ \A u \in Transfers \ {t} : transfer'[u] = transfer[u] /\ moved'[u] = moved[u]
  BY <1>1, <1>2, <1>3, DispatchKeepsRow DEF IInv
<1> QED BY <1>1, <1>2, <1>4, WriteKeepsIInv

LEMMA RejectKeepsIInv == ASSUME IInv, NEW r \in Requests, Reject(r) PROVE IInv'
<1>1. /\ Busy(r) /\ request[r].kind = "reject" /\ request' = Idle(r) /\ TypeOK'
      /\ transfer[request[r].t].status = "PENDING_APPROVAL" /\ UNCHANGED moved
      /\ transfer' = [transfer EXCEPT ![request[r].t].status = "REJECTED"]
  BY RejectType DEF Reject, Ready, Busy, IInv
<1>2. PICK t \in Transfers : t = request[r].t
  BY <1>1, AboutToWrite
<1>3. RowOK(t) /\ Exists(t) /\ ~InMotion(t)
  BY <1>1, <1>2, AboutToWrite, AboutToDecide DEF Decisions
<1>4. /\ RowOK(t)' /\ transfer'[t].status = "REJECTED"
      /\ \A u \in Transfers \ {t} : transfer'[u] = transfer[u] /\ moved'[u] = moved[u]
  BY <1>1, <1>2, <1>3, StatusKeepsRow DEF IInv
<1> QED BY <1>1, <1>2, <1>4, WriteKeepsIInv

LEMMA RemoveKeepsIInv == ASSUME IInv, NEW r \in Requests, Remove(r) PROVE IInv'
<1>1. /\ Busy(r) /\ request[r].kind = "remove" /\ request' = Idle(r) /\ TypeOK'
      /\ transfer' = [transfer EXCEPT ![request[r].t] = DeletedRow] /\ UNCHANGED moved
  BY RemoveType DEF Remove, Ready, Busy, IInv
<1>2. PICK t \in Transfers : t = request[r].t
  BY <1>1, AboutToWrite
<1>3. RowOK(t) /\ ~InMotion(t) /\ request[r].kind \notin Decisions
  BY <1>1, <1>2, AboutToWrite, AcceptedStatus DEF ReadHolds, Decisions, InMotion, Kinds
<1>4. /\ transfer'[t] = DeletedRow
      /\ \A u \in Transfers \ {t} : transfer'[u] = transfer[u] /\ moved'[u] = moved[u]
  BY <1>1, <1>2 DEF IInv, TypeOK
<1>5. /\ DeletedRow.status = "DELETED"
      /\ \A p \in Products : DeletedRow.items[p].received = 0 /\ DeletedRow.items[p].sent = 0
  BY DEF DeletedRow, NoRow, NewItems, NoLines
<1>6. ~InMotion(t)' /\ ~Exists(t)'
  BY <1>4, <1>5 DEF InMotion, Exists, Moving
<1>7. \A w \in Warehouses, p \in Stocked : moved'[t][w][p] = Documented(t, w, p)'
  BY <1>1, <1>3, <1>6 DEF RowOK, Documented
<1>8. RowOK(t)'
  BY <1>4, <1>5, <1>6, <1>7 DEF RowOK
<1> QED BY <1>1, <1>2, <1>3, <1>4, <1>8, WriteKeepsIInv

\* A rewrite that nothing raced leaves exactly the lines it was given.
LEMMA UpdateKeepsIInv == ASSUME IInv, NEW r \in Requests, Update(r) PROVE IInv'
<1>1. Busy(r) /\ request[r].kind = "update" /\ request' = Idle(r) /\ TypeOK'
  BY UpdateType DEF Update, Ready, Busy, IInv
<1>2. PICK t \in Transfers, snap \in Row : t = request[r].t /\ snap = request[r].snap
  BY <1>1, AboutToWrite
<1>3. /\ RowOK(t) /\ transfer[t] = snap /\ snap.status \in Accepts("update")
      /\ request[r].kind \notin Decisions
  BY <1>1, <1>2, AboutToWrite DEF ReadHolds, Decisions
<1>4. PICK id \in Nat, approved \in BOOLEAN :
        id = edits[t] + 1 /\ approved = transfer[t].approved
  BY <1>3, ConstantsAssumption DEF IInv, TypeOK, Row
<1>5. ~InMotion(t)
  BY <1>3, AcceptedStatus DEF InMotion, Kinds
<1>6. PICK src \in Warehouses, dst \in Warehouses, lines \in Lines, ask \in {"DRAFT", "SENT"} :
        \E items \in Rewritten(t, snap, lines, id) :
          Store(t, src, dst, ask, approved, items, lines)
  BY <1>2, <1>4 DEF Update
<1>7. Rewritten(t, snap, lines, id) = {NewItems(lines, id)}
  BY <1>3 DEF Rewritten
<1>8. Store(t, src, dst, ask, approved, NewItems(lines, id), lines)
  BY <1>6, <1>7
<1>9. /\ RowOK(t)'
      /\ \A u \in Transfers \ {t} : transfer'[u] = transfer[u] /\ moved'[u] = moved[u]
  BY <1>3, <1>5, <1>8, StoreKeepsRow DEF IInv
<1> QED BY <1>1, <1>2, <1>3, <1>9, WriteKeepsIInv

\* A receipt adds to its lines no more than was still to come.
LEMMA ReceiveCommitKeepsIInv ==
    ASSUME IInv, NEW r \in Requests, ReceiveCommit(r) PROVE IInv'
<1>1. /\ Busy(r) /\ request[r].stage # "read" /\ request' = Idle(r) /\ TypeOK'
      /\ Exists(request[r].t)
  BY ReceiveCommitType DEF ReceiveCommit, Busy, IInv
<1>2. PICK t \in Transfers, snap \in Row, lines \in [Products -> 0..MaxQuantity] :
        t = request[r].t /\ snap = request[r].snap /\ lines = request[r].lines
  BY <1>1, AboutToWrite, RequestType DEF IInv
<1>3. /\ RowOK(t) /\ request[r].kind = "receive" /\ request[r].kind \notin Decisions
      /\ snap.status \in Accepts("receive")
      /\ \A p \in Products : snap.items[p].received + lines[p] <= snap.items[p].sent
  BY <1>1, <1>2, AboutToWrite DEF ReadHolds, Decisions
<1>4. transfer[t] = snap /\ InMotion(t) /\ Exists(t)
  BY <1>1, <1>2, <1>3, AboutToWrite, AcceptedStatus DEF InMotion, Kinds
<1>5. PICK s \in {"RECEIVED", "PARTIALLY_RECEIVED"} : transfer' = [transfer EXCEPT ![t] =
        [@ EXCEPT !.status = s, !.items = Received(transfer[t].items, lines)]]
  BY <1>2 DEF ReceiveCommit
<1>6. /\ transfer'[t].status = s /\ transfer'[t].src = snap.src
      /\ transfer'[t].dst = snap.dst /\ transfer'[t].requires = snap.requires
      /\ transfer'[t].approved = snap.approved
      /\ transfer'[t].items = Received(snap.items, lines)
      /\ \A u \in Transfers \ {t} : transfer'[u] = transfer[u]
  BY <1>4, <1>5 DEF IInv, TypeOK, Row
<1>7. \A p \in Products : /\ transfer'[t].items[p].sent = snap.items[p].sent
                          /\ transfer'[t].items[p].received = snap.items[p].received + lines[p]
  BY <1>6 DEF Received, Row, Item
<1>8. lines \in [Products -> Nat] /\ snap.dst \in Warehouses /\ PutIn(t, snap.dst, lines)
  BY <1>2, ConstantsAssumption DEF ReceiveCommit, Row
<1>9. \A u \in Transfers \ {t} : transfer'[u] = transfer[u] /\ moved'[u] = moved[u]
  BY <1>6, <1>8, PutInto DEF IInv
<1>10. /\ snap.src # snap.dst /\ InMotion(t)' /\ Exists(t)'
  BY <1>3, <1>4, <1>6 DEF RowOK, InMotion, Exists, Moving
<1>11. ASSUME NEW v \in Warehouses, NEW p \in Stocked
       PROVE  moved'[t][v][p] = Documented(t, v, p)'
  <2>1. moved'[t][v][p] = IF v = snap.dst THEN moved[t][v][p] + lines[p] ELSE moved[t][v][p]
    BY <1>8, PutInto DEF IInv
  <2>2. moved[t][v][p] = Documented(t, v, p)
    BY <1>3 DEF RowOK
  <2>3. p \in Products
    BY StockedAreProducts
  <2>4. CASE v = snap.dst
    BY <1>4, <1>6, <1>7, <1>10, <2>1, <2>2, <2>3, <2>4 DEF Documented
  <2>5. CASE v # snap.dst
    BY <1>4, <1>6, <1>7, <1>10, <2>1, <2>2, <2>3, <2>5 DEF Documented
  <2> QED BY <2>4, <2>5
<1>12. RowOK(t)'
  BY <1>3, <1>4, <1>6, <1>7, <1>10, <1>11 DEF RowOK
<1> QED BY <1>1, <1>2, <1>3, <1>9, <1>12, WriteKeepsIInv

\* A row that is created is new, so no request is about it.
LEMMA CreateKeepsIInv == ASSUME IInv, NEW t \in Transfers, Create(t) PROVE IInv'
<1>1. PICK src \in Warehouses, dst \in Warehouses, lines \in Lines, ask \in {"DRAFT", "SENT"} :
        Store(t, src, dst, ask, FALSE, NewItems(lines, 0), lines)
  BY DEF Create
<1>2. RowOK(t) /\ ~InMotion(t) /\ transfer[t].status = "NONE"
  BY DEF Create, IInv, InMotion, Moving
<1>3. /\ RowOK(t)'
      /\ \A u \in Transfers \ {t} : transfer'[u] = transfer[u] /\ moved'[u] = moved[u]
  BY <1>1, <1>2, StoreKeepsRow DEF IInv
<1>4. \A u \in Transfers : RowOK(u)'
  <2> SUFFICES ASSUME NEW u \in Transfers, u # t PROVE RowOK(u)'
    BY <1>3
  <2> QED BY <1>3, RowKept DEF IInv
<1>5. ASSUME NEW q \in Requests, Busy(q)' PROVE ReadHolds(q)'
  <2>1. Busy(q) /\ request'[q] = request[q]
    BY <1>5 DEF Create, Busy
  <2>2. ReadHolds(q) /\ request[q].t \in Transfers /\ request[q].t # t
    BY <1>2, <2>1 DEF IInv, TypeOK, ReadHolds
  <2> QED BY <1>3, <2>1, <2>2 DEF ReadHolds
<1>6. Exclusive'
  BY DEF Create, IInv, Exclusive, Busy
<1> QED BY <1>4, <1>5, <1>6, CreateType DEF IInv

\* A request begins alone on its transfer, or as one decision among others.
LEMMA BeginKeepsIInv ==
    ASSUME OnlyDecisionsOverlap, IInv, NEW r \in Requests, NEW k \in Kinds,
           NEW t \in Transfers, Begin(r, k, t)
    PROVE  IInv'
<1>1. /\ ~Busy(r) /\ Admitted(r, k, t) /\ transfer[t].status \in Accepts(k)
      /\ UNCHANGED <<transfer, moved>>
  BY DEF Begin
<1>2. /\ request'[r] = [kind |-> k, t |-> t, stage |-> "read", snap |-> transfer[t],
                       lines |-> NoLines, full |-> FALSE]
      /\ \A q \in Requests \ {r} : request'[q] = request[q]
  BY DEF Begin, IInv, TypeOK
<1>3. ASSUME NEW q \in Requests \ {r}, Busy(q), request[q].t = t
      PROVE  k \in Decisions /\ request[q].kind \in Decisions
  <2>1. q \in Overlaps(r, t) /\ request[q].kind \in Kinds
    BY <1>3 DEF Overlaps, IInv, TypeOK, Request
  <2>2. k \notin Serial /\ request[q].kind \notin Serial
    BY <1>1, <2>1 DEF Admitted
  <2> QED BY <2>1, <2>2 DEF OnlyDecisionsOverlap
<1>4. Exclusive'
  <2> SUFFICES ASSUME NEW p \in Requests, NEW q \in Requests, p # q, Busy(p)', Busy(q)',
                      request'[p].t = request'[q].t
               PROVE  request'[p].kind \in Decisions /\ request'[q].kind \in Decisions
    BY DEF Exclusive
  <2>1. CASE p = r
    BY <1>2, <1>3, <2>1 DEF Busy
  <2>2. CASE q = r
    BY <1>2, <1>3, <2>2 DEF Busy
  <2>3. CASE p # r /\ q # r
    BY <1>2, <2>3 DEF Busy, IInv, Exclusive
  <2> QED BY <2>1, <2>2, <2>3
<1>5. ReadHolds(r)'
  BY <1>1, <1>2, AcceptedStatus DEF ReadHolds
<1>6. \A q \in Requests : Busy(q)' => ReadHolds(q)'
  <2> SUFFICES ASSUME NEW q \in Requests, q # r, Busy(q)' PROVE ReadHolds(q)'
    BY <1>5
  <2> QED BY <1>1, <1>2 DEF IInv, ReadHolds, Busy
<1>7. \A u \in Transfers : RowOK(u)'
  BY <1>1, RowKept DEF IInv
<1> QED BY <1>4, <1>6, <1>7, BeginType DEF IInv

LEMMA AbortKeepsIInv == ASSUME IInv, NEW r \in Requests, Abort(r) PROVE IInv'
<1>1. /\ UNCHANGED <<transfer, moved>> /\ ~Busy(r)'
      /\ \A q \in Requests \ {r} : request'[q] = request[q]
  BY DEF Abort, Idle, IdleRequest, Busy, IInv, TypeOK
<1>2. TypeOK'
  BY IdleType DEF Abort, IInv, TypeOK, RequestsOK
<1>3. \A u \in Transfers : RowOK(u)'
  BY <1>1, RowKept DEF IInv
<1>4. Exclusive'
  BY <1>1 DEF IInv, Exclusive, Busy
<1>5. \A q \in Requests : Busy(q)' => ReadHolds(q)'
  BY <1>1 DEF IInv, ReadHolds, Busy
<1> QED BY <1>2, <1>3, <1>4, <1>5 DEF IInv

\* The steps a receive takes before it commits.
LEMMA ReceiveLinesKeepsIInv ==
    ASSUME IInv, NEW r \in Requests, ReceiveLines(r)
    PROVE  IInv'
<1>1. /\ Busy(r) /\ request[r].kind = "receive" /\ UNCHANGED <<transfer, moved>> /\ TypeOK'
  BY ReceiveLinesType DEF ReceiveLines, Ready, Busy, IInv
<1>2. PICK t \in Transfers, snap \in Row : t = request[r].t /\ snap = request[r].snap
  BY <1>1, AboutToWrite
<1>3. RowOK(t) /\ transfer[t] = snap /\ ReadHolds(r)
  BY <1>1, <1>2, AboutToWrite DEF Decisions
<1>4. PICK lines \in Lines :
        /\ \A p \in Products : lines[p] > 0 => lines[p] <= snap.items[p].sent - snap.items[p].received
        /\ request' = [request EXCEPT ![r] = [@ EXCEPT !.stage = "applied", !.lines = lines]]
  BY <1>2 DEF ReceiveLines
<1>5. /\ request'[r].stage = "applied" /\ request'[r].lines = lines
      /\ request'[r].kind = "receive" /\ request'[r].t = t /\ request'[r].snap = snap
      /\ \A q \in Requests \ {r} : request'[q] = request[q]
  BY <1>1, <1>2, <1>4 DEF IInv, TypeOK, Request
<1>6. \A p \in Products : snap.items[p].received + lines[p] <= snap.items[p].sent
  <2> SUFFICES ASSUME NEW p \in Products
               PROVE  snap.items[p].received + lines[p] <= snap.items[p].sent
    OBVIOUS
  <2>1. lines[p] \in Nat /\ snap.items[p].received \in Nat /\ snap.items[p].sent \in Nat
    BY ConstantsAssumption DEF Lines, Row, Item
  <2>2. snap.items[p].received <= snap.items[p].sent
    BY <1>3 DEF RowOK
  <2> QED BY <1>4, <2>1, <2>2
<1>7. \A u \in Transfers : RowOK(u)'
  BY <1>1, RowKept DEF IInv
<1>8. Exclusive'
  BY <1>1, <1>2, <1>5 DEF IInv, Exclusive, Busy
<1>9. ReadHolds(r)'
  BY <1>1, <1>2, <1>3, <1>5, <1>6 DEF ReadHolds, Decisions
<1>10. \A q \in Requests : Busy(q)' => ReadHolds(q)'
  <2> SUFFICES ASSUME NEW q \in Requests, q # r, Busy(q)' PROVE ReadHolds(q)'
    BY <1>9
  <2> QED BY <1>1, <1>5 DEF IInv, ReadHolds, Busy
<1> QED BY <1>1, <1>7, <1>8, <1>10 DEF IInv

LEMMA ReceiveRefreshKeepsIInv ==
    ASSUME IInv, NEW r \in Requests, ReceiveRefresh(r)
    PROVE  IInv'
<1>1. /\ Busy(r) /\ request[r].stage # "read" /\ UNCHANGED <<transfer, moved>> /\ TypeOK'
  BY ReceiveRefreshType DEF ReceiveRefresh, Busy, IInv
<1>2. PICK full \in BOOLEAN :
        request' = [request EXCEPT ![r] = [@ EXCEPT !.stage = "refreshed", !.full = full]]
  BY DEF ReceiveRefresh, AllArrived
<1>3. /\ request'[r].stage = "refreshed" /\ request'[r].lines = request[r].lines
      /\ request'[r].kind = request[r].kind /\ request'[r].t = request[r].t
      /\ request'[r].snap = request[r].snap
      /\ \A q \in Requests \ {r} : request'[q] = request[q]
  BY <1>2 DEF IInv, TypeOK, Request
<1>4. \A u \in Transfers : RowOK(u)'
  BY <1>1, RowKept DEF IInv
<1>5. Exclusive'
  BY <1>1, <1>3 DEF IInv, Exclusive, Busy
<1>6. ReadHolds(r)'
  BY <1>1, <1>3, AboutToWrite DEF ReadHolds
<1>7. \A q \in Requests : Busy(q)' => ReadHolds(q)'
  <2> SUFFICES ASSUME NEW q \in Requests, q # r, Busy(q)' PROVE ReadHolds(q)'
    BY <1>6
  <2> QED BY <1>1, <1>3 DEF IInv, ReadHolds, Busy
<1> QED BY <1>1, <1>4, <1>5, <1>7 DEF IInv

LEMMA StepIInv == ASSUME OnlyDecisionsOverlap, IInv, [Next]_vars PROVE IInv'
<1>1. ASSUME NEW r \in Requests, Step(r) PROVE IInv'
  BY <1>1, SendKeepsIInv, ApproveKeepsIInv, RejectKeepsIInv, RemoveKeepsIInv,
     UpdateKeepsIInv, ReceiveLinesKeepsIInv, ReceiveRefreshKeepsIInv,
     ReceiveCommitKeepsIInv DEF Step
<1>2. CASE UNCHANGED vars
  <2>1. TypeOK'
    BY <1>2, StepTypeOK DEF IInv
  <2>2. \A u \in Transfers : RowOK(u)'
    BY <1>2, RowKept DEF vars, IInv
  <2> QED BY <1>2, <2>1, <2>2 DEF vars, IInv, Exclusive, ReadHolds, Busy
<1> QED BY <1>1, <1>2, CreateKeepsIInv, BeginKeepsIInv, AbortKeepsIInv DEF Next

\* The inductive invariant, as long as only approvals and rejections overlap.
THEOREM InvariantHolds == ASSUME OnlyDecisionsOverlap PROVE Spec => []IInv
<1>1. IInv /\ [Next]_vars => IInv'
  BY StepIInv
<1> QED BY <1>1, InitIInv, PTL DEF Spec

\* "Nothing moves until someone with APPROVE_GOODS_TRANSFER approves it": however
\* approvals and rejections race (claimForDecision), no goods of a transfer
\* between branches leave unapproved.
THEOREM NothingLeavesUnapproved ==
    ASSUME OnlyDecisionsOverlap PROVE Spec => []ApprovalBeforeDispatch
<1>1. IInv => ApprovalBeforeDispatch
  BY DEF IInv, RowOK, ApprovalBeforeDispatch
<1> QED BY <1>1, InvariantHolds, PTL

\* The movements of every transfer add up to what its row says, so the goods of
\* a transfer leave once and arrive once (dispatch, receive).
THEOREM LedgerIsTrue == ASSUME OnlyDecisionsOverlap PROVE Spec => []LedgerMatchesDocument
<1>1. IInv => LedgerMatchesDocument
  BY DEF IInv, RowOK, LedgerMatchesDocument
<1> QED BY <1>1, InvariantHolds, PTL

\* "The API blocks over-receipt" (receive), when receipts do not overlap.
THEOREM NothingIsOverReceived == ASSUME OnlyDecisionsOverlap PROVE Spec => []NoOverReceipt
<1>1. IInv => NoOverReceipt
  BY DEF IInv, RowOK, NoOverReceipt
<1> QED BY <1>1, InvariantHolds, PTL
=============================================================================
