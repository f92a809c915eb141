------------------------- MODULE WarehouseTransfers -------------------------
(***************************************************************************)
(* Stock transfers between warehouses: WarehouseTransfersService, with the *)
(* stock movements of applyInventoryMovement it is built on.               *)
(*                                                                         *)
(* A request runs in a READ COMMITTED transaction: it reads the transfer   *)
(* without a lock, decides from what it read, and later writes and commits.*)
(* Begin is the read and the refusals that follow it; the commit actions   *)
(* are the writes.  A row lock is held until commit, so all the writes of a*)
(* transaction are one step, except in receive, which reads again between  *)
(* its writes: its lines are applied (and locked), read back and committed *)
(* in three steps.  Abort is every way a transaction is rolled back.       *)
(***************************************************************************)
EXTENDS Integers, FiniteSets

CONSTANTS
    Requests,       \* API requests that may be in flight at the same time
    Transfers,      \* ids of the transfers that can be created
    NoTransfer,     \* not an id
    Warehouses, Products,
    Services,       \* products of type SERVICE, whose stock is not tracked
    Branch,         \* the store_id of each warehouse
    OpeningStock,   \* the quantity every stocked product has in each warehouse
    MaxQuantity,    \* bound: the largest quantity on a line
    MaxEdits,       \* bound: the rewrites of one transfer
    Serial          \* kinds of request that never overlap another on a transfer

Kinds == {"update", "remove", "send", "approve", "reject", "receive"}
Stocked == Products \ Services

ASSUME ConstantsAssumption ==
    /\ IsFiniteSet(Transfers) /\ NoTransfer \notin Transfers
    /\ IsFiniteSet(Warehouses) /\ Warehouses # {}
    /\ Services \subseteq Products
    /\ OpeningStock \in [Warehouses -> Nat]
    /\ MaxQuantity \in Nat \ {0}
    /\ MaxEdits \in Nat
    /\ Serial \subseteq Kinds

VARIABLES
    transfer,       \* the warehouse_transfers row of each id, with its lines
    stock,          \* product_stocks.quantity by warehouse and product
    moved,          \* sum of the inventory_movements a transfer wrote
    edits,          \* rewrites so far, which also name the line ids
    request         \* the requests in flight

vars == <<transfer, stock, moved, edits, request>>

(***************************************************************************)
(* Rows.                                                                   *)
(***************************************************************************)
Moving == {"SENT", "PARTIALLY_RECEIVED", "RECEIVED"}
Status == Moving \cup {"NONE", "DRAFT", "PENDING_APPROVAL", "REJECTED", "DELETED"}

\* A line; sent = 0 stands for a product the transfer has no line for.
Item == [sent : Nat, received : Nat, id : Nat]

Row == [status : Status, src : Warehouses, dst : Warehouses,
        cross : BOOLEAN, requires : BOOLEAN, approved : BOOLEAN,
        items : [Products -> Item]]

Exists(t) == transfer[t].status \notin {"NONE", "DELETED"}

\* The lines a DTO may carry: distinct products, quantities of at least one.
Lines == [Products -> 0..MaxQuantity] \ {[p \in Products |-> 0]}

NoLines == [p \in Products |-> 0]

CrossBranch(src, dst) == Branch[src] # Branch[dst]

NewItems(lines, id) ==
    [p \in Products |-> [sent |-> lines[p], received |-> 0, id |-> id]]

NoRow == LET w == CHOOSE w \in Warehouses : TRUE
         IN  [status |-> "NONE", src |-> w, dst |-> w, cross |-> FALSE,
              requires |-> FALSE, approved |-> FALSE, items |-> NewItems(NoLines, 0)]

DeletedRow == [NoRow EXCEPT !.status = "DELETED"]

\* Broken: the requested status is stored as it is.
AskedStatus(src, dst, ask) == ask

\* What create and update store: the branch columns and the approval flag are
\* derived from the warehouses, and a cross-branch "send now" is parked.
WrittenStatus(src, dst, ask) ==
    IF ask = "SENT" /\ CrossBranch(src, dst) THEN "PENDING_APPROVAL" ELSE ask

(***************************************************************************)
(* Requests in flight and the row locks they hold.                         *)
(***************************************************************************)
Stages == {"idle", "read", "applied", "refreshed"}

Request == [kind : Kinds, t : Transfers \cup {NoTransfer}, stage : Stages, snap : Row,
            lines : [Products -> 0..MaxQuantity], full : BOOLEAN]

Busy(r) == request[r].stage # "idle"

IdleRequest == [kind |-> "send", t |-> NoTransfer,
                stage |-> "idle", snap |-> NoRow, lines |-> NoLines, full |-> FALSE]

Idle(r) == [request EXCEPT ![r] = IdleRequest]

\* A receive that has written its lines holds their rows, and the rows of the
\* stock they landed in, until it commits.
HoldsLine(q, t, p) ==
    /\ request[q].stage \in {"applied", "refreshed"}
    /\ request[q].t = t
    /\ request[q].lines[p] > 0

HoldsStock(q, w, p) ==
    /\ request[q].stage \in {"applied", "refreshed"}
    /\ request[q].snap.dst = w
    /\ request[q].lines[p] > 0
    /\ p \in Stocked

LinesFree(t, ps) == \A q \in Requests, p \in ps : ~HoldsLine(q, t, p)
StockFree(w, ps) == \A q \in Requests, p \in ps : ~HoldsStock(q, w, p)

Overlaps(r, t) == {q \in Requests \ {r} : Busy(q) /\ request[q].t = t}

\* The assumption on the environment that Serial names.
Admitted(r, k, t) ==
    \A q \in Overlaps(r, t) : k \notin Serial /\ request[q].kind \notin Serial

(***************************************************************************)
(* Stock movements: applyInventoryMovement, for TRANSFER_OUT and           *)
(* TRANSFER_IN.  A decrement is guarded by the balance in the same         *)
(* statement, and a transfer is never allowed to take it below zero.       *)
(***************************************************************************)
\* Broken: the balance is not looked at.
TakeOutUnguarded(t, w, qty) ==
    /\ stock' = [stock EXCEPT ![w] = [p \in Stocked |-> stock[w][p] - qty[p]]]
    /\ moved' = [moved EXCEPT ![t][w] = [p \in Stocked |-> moved[t][w][p] - qty[p]]]

TakeOut(t, w, qty) ==
    /\ \A p \in Stocked : qty[p] > 0 => qty[p] <= stock[w][p]
    /\ StockFree(w, {p \in Stocked : qty[p] > 0})
    /\ stock' = [stock EXCEPT ![w] =
                    [p \in Stocked |-> stock[w][p] - qty[p]]]
    /\ moved' = [moved EXCEPT ![t][w] =
                    [p \in Stocked |-> moved[t][w][p] - qty[p]]]

PutIn(t, w, qty) ==
    /\ stock' = [stock EXCEPT ![w] =
                    [p \in Stocked |-> stock[w][p] + qty[p]]]
    /\ moved' = [moved EXCEPT ![t][w] =
                    [p \in Stocked |-> moved[t][w][p] + qty[p]]]

Sent(row) == [p \in Products |-> row.items[p].sent]

(***************************************************************************)
(* Operations.                                                             *)
(***************************************************************************)
Store(t, src, dst, ask, approved, items, lines) ==
    /\ src # dst
    /\ transfer' = [transfer EXCEPT ![t] =
         [status |-> WrittenStatus(src, dst, ask), src |-> src, dst |-> dst,
          cross |-> CrossBranch(src, dst), requires |-> CrossBranch(src, dst),
          approved |-> approved, items |-> items]]
    /\ IF WrittenStatus(src, dst, ask) = "SENT" THEN TakeOut(t, src, lines)
                                                ELSE UNCHANGED <<stock, moved>>

Create(t) ==
    /\ transfer[t].status = "NONE"
    /\ \E src, dst \in Warehouses, lines \in Lines, ask \in {"DRAFT", "SENT"} :
          Store(t, src, dst, ask, FALSE, NewItems(lines, 0), lines)
    /\ UNCHANGED <<edits, request>>

\* Broken: any transfer that is there can be removed.
AcceptsAnyRemoval(k) ==
    CASE k \in {"update", "send"}     -> {"DRAFT"}
      [] k = "remove"                 -> Status \ {"NONE", "DELETED"}
      [] k \in {"approve", "reject"}  -> {"PENDING_APPROVAL"}
      [] k = "receive"                -> {"SENT", "PARTIALLY_RECEIVED"}

\* The statuses in which each kind of request is not refused after its read.
Accepts(k) ==
    CASE k \in {"update", "send"}     -> {"DRAFT"}
      [] k = "remove"                 -> {"DRAFT", "PENDING_APPROVAL", "REJECTED"}
      [] k \in {"approve", "reject"}  -> {"PENDING_APPROVAL"}
      [] k = "receive"                -> {"SENT", "PARTIALLY_RECEIVED"}

Begin(r, k, t) ==
    /\ ~Busy(r)
    /\ Admitted(r, k, t)
    /\ transfer[t].status \in Accepts(k)
    /\ request' = [request EXCEPT ![r] =
         [kind |-> k, t |-> t, stage |-> "read", snap |-> transfer[t],
          lines |-> NoLines, full |-> FALSE]]
    /\ UNCHANGED <<transfer, stock, moved, edits>>

\* Insufficient stock, a claim that matched no row, a row that is gone, a
\* deadlock victim, a locked period, a crash: nothing was written.
Abort(r) ==
    /\ Busy(r)
    /\ request' = Idle(r)
    /\ UNCHANGED <<transfer, stock, moved, edits>>

Ready(r, k) == request[r].stage = "read" /\ request[r].kind = k

\* dispatch: the lines and warehouses are those the request read, and so are
\* the branch columns it writes back.
Dispatch(t, snap, approved) ==
    /\ TakeOut(t, snap.src, Sent(snap))
    /\ transfer' = [transfer EXCEPT ![t].status = "SENT",
                                    ![t].cross = CrossBranch(snap.src, snap.dst),
                                    ![t].approved = approved]

Send(r) ==
    LET t == request[r].t
        snap == request[r].snap
    IN  /\ Ready(r, "send")
        /\ Exists(t)
        /\ \/ /\ snap.requires
              /\ transfer' = [transfer EXCEPT ![t].status = "PENDING_APPROVAL"]
              /\ UNCHANGED <<stock, moved>>
           \/ /\ ~snap.requires
              /\ Dispatch(t, snap, transfer[t].approved)
        /\ request' = Idle(r)
        /\ UNCHANGED edits

\* Broken: it does not.
ApproveUnclaimed(r) ==
    /\ Ready(r, "approve")
    /\ Exists(request[r].t)
    /\ Dispatch(request[r].t, request[r].snap, TRUE)
    /\ request' = Idle(r)
    /\ UNCHANGED edits

\* claimForDecision matches the status again when it gets the row.
Approve(r) ==
    LET t == request[r].t
    IN  /\ Ready(r, "approve")
        /\ transfer[t].status = "PENDING_APPROVAL"
        /\ Dispatch(t, request[r].snap, TRUE)
        /\ request' = Idle(r)
        /\ UNCHANGED edits

\* Broken: the status is not matched again.
RejectUnclaimed(r) ==
    /\ Ready(r, "reject")
    /\ Exists(request[r].t)
    /\ transfer' = [transfer EXCEPT ![request[r].t].status = "REJECTED"]
    /\ request' = Idle(r)
    /\ UNCHANGED <<stock, moved, edits>>

Reject(r) ==
    LET t == request[r].t
    IN  /\ Ready(r, "reject")
        /\ transfer[t].status = "PENDING_APPROVAL"
        /\ transfer' = [transfer EXCEPT ![t].status = "REJECTED"]
        /\ request' = Idle(r)
        /\ UNCHANGED <<stock, moved, edits>>

\* deleteMany by id alone; the lines go with the row.
Remove(r) ==
    LET t == request[r].t
    IN  /\ Ready(r, "remove")
        /\ LinesFree(t, Products)
        /\ transfer' = [transfer EXCEPT ![t] = DeletedRow]
        /\ request' = Idle(r)
        /\ UNCHANGED <<stock, moved, edits>>

\* The lines left by deleteMany + createMany.  When another rewrite committed
\* since this one read, its new lines may have been invisible to deleteMany:
\* they stay beside these (the same product twice is refused as a duplicate).
Rewritten(t, snap, lines, id) ==
    LET new == NewItems(lines, id)
        old == transfer[t].items
        disjoint == \A p \in Products : lines[p] = 0 \/ old[p].sent = 0
        merged == [p \in Products |-> IF lines[p] > 0 THEN new[p] ELSE old[p]]
        raced == \E p \in Products : old[p].id # snap.items[p].id
    IN  {new} \cup (IF raced /\ disjoint THEN {merged} ELSE {})

Update(r) ==
    LET t == request[r].t
        snap == request[r].snap
    IN  /\ Ready(r, "update")
        /\ Exists(t)
        /\ LinesFree(t, Products)
        /\ edits[t] < MaxEdits
        /\ edits' = [edits EXCEPT ![t] = @ + 1]
        /\ \E src, dst \in Warehouses, lines \in Lines, ask \in {"DRAFT", "SENT"} :
            \E items \in Rewritten(t, snap, lines, edits[t] + 1) :
                Store(t, src, dst, ask, transfer[t].approved, items, lines)
        /\ request' = Idle(r)

\* Broken: what has already arrived is forgotten.
ReceiveLinesUncapped(r) ==
    LET t == request[r].t
        snap == request[r].snap
    IN  /\ Ready(r, "receive")
        /\ \E lines \in Lines :
            /\ \A p \in Products : lines[p] <= snap.items[p].sent
            /\ request' = [request EXCEPT ![r] =
                              [@ EXCEPT !.stage = "applied", !.lines = lines]]
        /\ UNCHANGED <<transfer, stock, moved, edits>>

\* receive, first half: every line is checked against what was read, put into
\* stock and added to its line, whose row must still be there.
ReceiveLines(r) ==
    LET t == request[r].t
        snap == request[r].snap
    IN  /\ Ready(r, "receive")
        /\ \E lines \in Lines :
            LET taken == {p \in Products : lines[p] > 0}
            IN  /\ \A p \in taken :
                     /\ lines[p] <= snap.items[p].sent - snap.items[p].received
                     /\ transfer[t].items[p].sent > 0
                     /\ transfer[t].items[p].id = snap.items[p].id
                /\ Exists(t)
                /\ LinesFree(t, taken)
                /\ StockFree(snap.dst, taken \cap Stocked)
                /\ request' = [request EXCEPT ![r] =
                                  [@ EXCEPT !.stage = "applied", !.lines = lines]]
        /\ UNCHANGED <<transfer, stock, moved, edits>>

\* The lines once a receipt is added to them, and whether all is there.
Received(items, lines) ==
    [p \in Products |-> [items[p] EXCEPT !.received = @ + lines[p]]]

\* Broken: one line in full is enough.
SomeArrived(items) ==
    \E p \in Products : items[p].sent > 0 /\ items[p].received >= items[p].sent

AllArrived(items) == \A p \in Products : items[p].received >= items[p].sent

\* receive, the read back: its own lines and what others have committed.
ReceiveRefresh(r) ==
    /\ request[r].stage = "applied"
    /\ request' = [request EXCEPT ![r] = [@ EXCEPT !.stage = "refreshed",
          !.full = AllArrived(Received(transfer[request[r].t].items, request[r].lines))]]
    /\ UNCHANGED <<transfer, stock, moved, edits>>

\* Broken: the goods are put back where they came from.
ReceiveCommitAtSource(r) ==
    LET t == request[r].t
        lines == request[r].lines
    IN  /\ request[r].stage = "refreshed"
        /\ PutIn(t, request[r].snap.src, lines)
        /\ transfer' = [transfer EXCEPT ![t] = [@ EXCEPT
             !.status = IF request[r].full THEN "RECEIVED" ELSE "PARTIALLY_RECEIVED",
             !.items = Received(transfer[t].items, lines)]]
        /\ request' = Idle(r)
        /\ UNCHANGED edits

\* receive, second half: the status, and the commit of everything written.
ReceiveCommit(r) ==
    LET t == request[r].t
        lines == request[r].lines
    IN  /\ request[r].stage = "refreshed"
        /\ Exists(t)
        /\ PutIn(t, request[r].snap.dst, lines)
        /\ transfer' = [transfer EXCEPT ![t] = [@ EXCEPT
             !.status = IF request[r].full THEN "RECEIVED" ELSE "PARTIALLY_RECEIVED",
             !.items = Received(transfer[t].items, lines)]]
        /\ request' = Idle(r)
        /\ UNCHANGED edits

(***************************************************************************)
(* The specification.                                                      *)
(***************************************************************************)
Init ==
    /\ transfer = [t \in Transfers |-> NoRow]
    /\ stock = [w \in Warehouses |-> [p \in Stocked |-> OpeningStock[w]]]
    /\ moved = [t \in Transfers |-> [w \in Warehouses |-> [p \in Stocked |-> 0]]]
    /\ edits = [t \in Transfers |-> 0]
    /\ request = [r \in Requests |-> IdleRequest]

Step(r) ==
    \/ Send(r) \/ Approve(r) \/ Reject(r) \/ Remove(r) \/ Update(r)
    \/ ReceiveLines(r) \/ ReceiveRefresh(r) \/ ReceiveCommit(r)

Next ==
    \/ \E t \in Transfers : Create(t)
    \/ \E r \in Requests, k \in Kinds, t \in Transfers : Begin(r, k, t)
    \/ \E r \in Requests : Step(r) \/ Abort(r)

Spec == Init /\ [][Next]_vars
=============================================================================
