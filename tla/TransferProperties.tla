------------------------- MODULE TransferProperties -------------------------
(***************************************************************************)
(* What warehouse transfers must guarantee.                                *)
(***************************************************************************)
EXTENDS WarehouseTransfers, Functions

CONSTANT Nowhere

\* Every variable keeps its type: stock is never below zero (the guarded decrement
\* of applyInventoryMovement), and a request in flight is about a transfer.
TypeOK ==
    /\ transfer \in [Transfers -> Row]
    /\ stock \in [Warehouses -> [Stocked -> Nat]]
    /\ moved \in [Transfers -> [Warehouses -> [Stocked -> Int]]]
    /\ edits \in [Transfers -> 0..MaxEdits]
    /\ request \in [Requests -> Request]
    /\ \A r \in Requests : Busy(r) => request[r].t \in Transfers

InMotion(t) == transfer[t].status \in Moving

\* What the movements of a transfer must add up to at w, going by its row.
Documented(t, w, p) ==
    LET row == transfer[t]
        item == row.items[p]
    IN  CASE ~InMotion(t)  -> 0
          [] InMotion(t) /\ w = row.src -> -item.sent
          [] InMotion(t) /\ w = row.dst -> item.received
          [] InMotion(t) /\ w \notin {row.src, row.dst} -> 0

\* The stock ledger tells the same story as the document: everything on the
\* lines has left the source named on the row exactly once, what was received
\* is in the destination, and a transfer that is still a draft, is waiting,
\* was refused or was deleted has moved nothing.
LedgerMatchesDocument ==
    \A t \in Transfers, w \in Warehouses, p \in Stocked :
        moved[t][w][p] = Documented(t, w, p)

\* "Nothing moves until someone with APPROVE_GOODS_TRANSFER approves it": the
\* goods of a transfer between branches have not left unless it was approved.
ApprovalBeforeDispatch ==
    \A t \in Transfers :
        InMotion(t) /\ CrossBranch(transfer[t].src, transfer[t].dst)
            => transfer[t].approved

\* "The API blocks over-receipt": no line has more received than was sent.
NoOverReceipt ==
    \A t \in Transfers, p \in Products :
        transfer[t].items[p].received <= transfer[t].items[p].sent

\* A transfer is RECEIVED exactly when every line has arrived in full (receive).
ReceivedWhenAllArrived ==
    \A t \in Transfers : InMotion(t) =>
        (transfer[t].status = "RECEIVED" <=>
            \A p \in Products :
                transfer[t].items[p].received = transfer[t].items[p].sent)

\* Goods are neither made nor lost: what every warehouse holds, with what has
\* been sent and not received, is what there was at the start.
GoodsConserved ==
    \A p \in Stocked :
        SumFunction([w \in Warehouses |-> stock[w][p]])
          + SumFunction([t \in Transfers |->
                IF InMotion(t)
                THEN transfer[t].items[p].sent - transfer[t].items[p].received
                ELSE 0])
        = SumFunction(OpeningStock)

\* A step never takes a transfer back: goods under way stay under way, a
\* refused transfer can only be deleted, a received one is final, and an
\* approval is never undone.
ForwardOnly ==
    [][\A t \in Transfers :
        LET old == transfer[t].status
            new == transfer'[t].status
        IN  /\ old \in Moving => new \in Moving
            /\ old = "REJECTED" => new \in {"REJECTED", "DELETED"}
            /\ old = "RECEIVED" => new = "RECEIVED"
            /\ old = "PENDING_APPROVAL" => new # "DRAFT"
            /\ transfer[t].approved => transfer'[t].approved]_transfer

\* The promise, read off the rows.
Phase(t) == CASE InMotion(t) -> "shipped"
              [] transfer[t].status \in {"REJECTED", "DELETED"} -> "dropped"
              [] OTHER -> "held"

Transit(t) == [p \in Stocked |->
                 IF InMotion(t)
                 THEN transfer[t].items[p].sent - transfer[t].items[p].received
                 ELSE 0]

Promise == INSTANCE GoodsInTransit WITH
    phase <- [t \in Transfers |-> Phase(t)],
    dest <- [t \in Transfers |-> IF InMotion(t) THEN transfer[t].dst ELSE Nowhere],
    transit <- [t \in Transfers |-> Transit(t)]

\* Transfers implement the promise of GoodsInTransit.
KeepsPromise == Promise!Spec

\* "Drop a transfer that never moved stock": a deleted transfer has no stock
\* movement against it.
DeletedNeverMoved ==
    \A t \in Transfers : transfer[t].status = "DELETED" =>
        \A w \in Warehouses, p \in Stocked : moved[t][w][p] = 0
=============================================================================
