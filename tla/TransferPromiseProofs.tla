------------------------ MODULE TransferPromiseProofs ------------------------
(***************************************************************************)
(* That transfers keep the promise of GoodsInTransit, never go back, and   *)
(* are received exactly when everything has arrived; for any number of     *)
(* requests, transfers, warehouses and products, and any quantities, as    *)
(* long as only approvals and rejections overlap.                          *)
(***************************************************************************)
EXTENDS TransferProofs, SumLemmas

(***************************************************************************)
(* Lines and flags.                                                        *)
(***************************************************************************)
\* Lines as they are written: of one product at least, nothing received.
Fresh(items) ==
    /\ \E p \in Products : items[p].sent > 0
    /\ \A p \in Products : items[p].sent \in 0..MaxQuantity /\ items[p].received = 0

\* A transfer that is there has lines, one that has not moved is not approved,
\* and the status says whether all of a transfer on its way has arrived.
Sound(t) ==
    /\ Exists(t) => \E p \in Products : transfer[t].items[p].sent > 0
    /\ \A p \in Products : transfer[t].items[p].sent \in 0..MaxQuantity
    /\ ~InMotion(t) => ~transfer[t].approved
    /\ InMotion(t) => (transfer[t].status = "RECEIVED" <=> AllArrived(transfer[t].items))

\* A receive that has read its lines back knows whether all is there.
FullIsTrue(r) ==
    request[r].stage = "refreshed" =>
        (request[r].full <=> AllArrived(Received(request[r].snap.items, request[r].lines)))

Complete == /\ IInv
            /\ \A t \in Transfers : Sound(t)
            /\ \A r \in Requests : FullIsTrue(r)

LEMMA InitComplete == Init => Complete
<1> SUFFICES ASSUME Init PROVE Complete
  OBVIOUS
<1>1. ASSUME NEW t \in Transfers PROVE Sound(t)
  <2>1. transfer[t].status = "NONE" /\ ~transfer[t].approved
    BY DEF Init, NoRow
  <2>2. \A p \in Products : transfer[t].items[p].sent = 0
    BY DEF Init, NoRow, NewItems, NoLines
  <2> QED BY <2>1, <2>2, ConstantsAssumption DEF Sound, Exists, InMotion, Moving
<1>2. \A r \in Requests : FullIsTrue(r)
  BY DEF Init, FullIsTrue, IdleRequest
<1> QED BY <1>1, <1>2, InitIInv DEF Complete

(***************************************************************************)
(* What a step does to a row and to the stock: paperwork, goods that leave *)
(* or goods that arrive.                                                   *)
(***************************************************************************)
Alone(t) == \A u \in Transfers \ {t} : transfer'[u] = transfer[u]

Paperwork(t) ==
    /\ ~InMotion(t) /\ ~InMotion(t)' /\ UNCHANGED stock
    /\ transfer[t].status # "DELETED"
    /\ transfer[t].status = "REJECTED" => transfer'[t].status = "DELETED"
    /\ transfer[t].status = "PENDING_APPROVAL" => transfer'[t].status # "DRAFT"
    /\ transfer'[t].approved => transfer[t].approved
    /\ Fresh(transfer'[t].items) \/ transfer'[t] = DeletedRow

Leaves(t) ==
    /\ ~InMotion(t) /\ transfer[t].status \notin {"REJECTED", "DELETED"}
    /\ transfer'[t].status = "SENT" /\ transfer'[t].src # transfer'[t].dst
    /\ Fresh(transfer'[t].items)
    /\ \A p \in Stocked : transfer'[t].items[p].sent <= stock[transfer'[t].src][p]
    /\ stock' = [stock EXCEPT ![transfer'[t].src] =
                    [p \in Stocked |-> stock[transfer'[t].src][p] - transfer'[t].items[p].sent]]

Arrives(t) ==
    \E lines \in [Products -> 0..MaxQuantity], items \in [Products -> Item] :
        /\ InMotion(t) /\ transfer[t].status # "RECEIVED"
        /\ items = Received(transfer[t].items, lines)
        /\ \A p \in Products :
              transfer[t].items[p].received + lines[p] <= transfer[t].items[p].sent
        /\ transfer'[t] = [transfer[t] EXCEPT
              !.status = IF AllArrived(items) THEN "RECEIVED" ELSE "PARTIALLY_RECEIVED",
              !.items = items]
        /\ stock' = [stock EXCEPT ![transfer[t].dst] =
                        [p \in Stocked |-> stock[transfer[t].dst][p] + lines[p]]]

Moves(t) == Alone(t) /\ (Paperwork(t) \/ Leaves(t) \/ Arrives(t))

LEMMA LinesAreFresh ==
    ASSUME NEW lines \in Lines, NEW id \in Nat
    PROVE  /\ Fresh(NewItems(lines, id))
           /\ \A p \in Products : NewItems(lines, id)[p].sent = lines[p]
<1>1. lines \in [Products -> 0..MaxQuantity] /\ lines # [p \in Products |-> 0]
  BY DEF Lines
<1>2. \E p \in Products : lines[p] # 0
  BY <1>1
<1>3. \A p \in Products : lines[p] \in 0..MaxQuantity
  BY <1>1
<1> QED BY <1>2, <1>3, ConstantsAssumption DEF Fresh, NewItems

LEMMA StoreMoves ==
    ASSUME TypeOK, NEW t \in Transfers, NEW src \in Warehouses, NEW dst \in Warehouses,
           NEW ask \in {"DRAFT", "SENT"}, NEW approved \in BOOLEAN, NEW lines \in Lines,
           NEW id \in Nat, approved => transfer[t].approved,
           transfer[t].status \in {"NONE", "DRAFT"},
           Store(t, src, dst, ask, approved, NewItems(lines, id), lines)
    PROVE  Moves(t)
<1> DEFINE items == NewItems(lines, id)
           s == WrittenStatus(src, dst, ask)
<1>1. Fresh(items) /\ \A p \in Products : items[p].sent = lines[p]
  BY LinesAreFresh
<1>2. s \in {"DRAFT", "SENT", "PENDING_APPROVAL"}
  BY DEF WrittenStatus
<1> HIDE DEF items, s
<1>3. /\ transfer'[t].status = s /\ transfer'[t].src = src /\ transfer'[t].dst = dst
      /\ transfer'[t].approved = approved /\ transfer'[t].items = items /\ src # dst
      /\ Alone(t)
  BY DEF Store, TypeOK, Alone, items, s
<1>4. CASE s = "SENT"
  <2>1. TakeOut(t, src, lines)
    BY <1>4 DEF Store, s
  <2>2. \A p \in Stocked : lines[p] \in Nat /\ stock[src][p] \in Nat /\ p \in Products
    BY StockedAreProducts, ConstantsAssumption DEF TypeOK, Lines
  <2>3. \A p \in Stocked : items[p].sent <= stock[src][p]
    BY <1>1, <2>1, <2>2 DEF TakeOut
  <2>4. [p \in Stocked |-> stock[src][p] - lines[p]]
          = [p \in Stocked |-> stock[src][p] - items[p].sent]
    BY <1>1, <2>2
  <2>5. stock' = [stock EXCEPT ![src] = [p \in Stocked |-> stock[src][p] - items[p].sent]]
    BY <2>1, <2>4 DEF TakeOut
  <2>6. Leaves(t)
    BY <1>1, <1>3, <1>4, <2>3, <2>5 DEF Leaves, InMotion, Moving
  <2> QED BY <1>3, <2>6 DEF Moves
<1>5. CASE s # "SENT"
  <2>1. UNCHANGED stock
    BY <1>5 DEF Store, s
  <2>2. Paperwork(t)
    BY <1>1, <1>2, <1>3, <1>5, <2>1 DEF Paperwork, InMotion, Moving
  <2> QED BY <1>3, <2>2 DEF Moves
<1> QED BY <1>4, <1>5

LEMMA DispatchMoves ==
    ASSUME TypeOK, NEW t \in Transfers, NEW snap \in Row, NEW approved \in BOOLEAN,
           Dispatch(t, snap, approved), transfer[t] = snap, RowOK(t), Sound(t),
           transfer[t].status \in {"DRAFT", "PENDING_APPROVAL"}
    PROVE  Moves(t)
<1>1. /\ transfer'[t].status = "SENT" /\ transfer'[t].src = snap.src
      /\ transfer'[t].dst = snap.dst /\ transfer'[t].items = snap.items
      /\ Alone(t)
  BY DEF Dispatch, TypeOK, Row, Alone
<1>2. Exists(t) /\ ~InMotion(t)
  BY DEF Exists, InMotion, Moving
<1>3. Fresh(snap.items) /\ snap.src # snap.dst
  BY <1>2 DEF RowOK, Sound, Fresh
<1>4. TakeOut(t, snap.src, Sent(snap)) /\ snap.src \in Warehouses
  BY DEF Dispatch, Row
<1>5. \A p \in Stocked : /\ p \in Products /\ Sent(snap)[p] = snap.items[p].sent
                         /\ snap.items[p].sent \in Nat /\ stock[snap.src][p] \in Nat
  BY <1>4, StockedAreProducts DEF TypeOK, Sent, Row, Item
<1>6. \A p \in Stocked : snap.items[p].sent <= stock[snap.src][p]
  BY <1>4, <1>5 DEF TakeOut
<1>7. [p \in Stocked |-> stock[snap.src][p] - Sent(snap)[p]]
        = [p \in Stocked |-> stock[snap.src][p] - snap.items[p].sent]
  BY <1>5
<1>8. stock' = [stock EXCEPT ![snap.src] =
                  [p \in Stocked |-> stock[snap.src][p] - snap.items[p].sent]]
  BY <1>4, <1>7 DEF TakeOut
<1>9. Leaves(t)
  BY <1>1, <1>2, <1>3, <1>6, <1>8 DEF Leaves
<1> QED BY <1>1, <1>9 DEF Moves

\* A status that is written alone.
LEMMA StatusMoves ==
    ASSUME TypeOK, NEW t \in Transfers, RowOK(t), Sound(t),
           NEW s \in {"PENDING_APPROVAL", "REJECTED"},
           transfer[t].status \in {"DRAFT", "PENDING_APPROVAL"},
           transfer' = [transfer EXCEPT ![t].status = s], UNCHANGED stock
    PROVE  Moves(t)
<1>1. /\ transfer'[t].status = s /\ transfer'[t].items = transfer[t].items
      /\ transfer'[t].approved = transfer[t].approved /\ Alone(t)
  BY DEF TypeOK, Row, Alone
<1>2. Exists(t) /\ ~InMotion(t) /\ ~InMotion(t)'
  BY <1>1 DEF Exists, InMotion, Moving
<1>3. Fresh(transfer'[t].items)
  BY <1>1, <1>2 DEF RowOK, Sound, Fresh
<1>4. Paperwork(t)
  BY <1>1, <1>2, <1>3 DEF Paperwork
<1> QED BY <1>1, <1>4 DEF Moves

LEMMA StepMoves ==
    ASSUME Complete, [Next]_vars
    PROVE  UNCHANGED <<transfer, stock>> \/ \E t \in Transfers : Moves(t)
<1> DEFINE Goal == UNCHANGED <<transfer, stock>> \/ \E t \in Transfers : Moves(t)
<1>0. IInv /\ TypeOK /\ \A t \in Transfers : RowOK(t) /\ Sound(t)
  BY DEF Complete, IInv
<1>1. ASSUME NEW t \in Transfers, Create(t) PROVE Goal
  <2>1. PICK src \in Warehouses, dst \in Warehouses, lines \in Lines, ask \in {"DRAFT", "SENT"} :
          Store(t, src, dst, ask, FALSE, NewItems(lines, 0), lines)
    BY <1>1 DEF Create
  <2> QED BY <1>0, <1>1, <2>1, StoreMoves DEF Create
<1>2. ASSUME NEW r \in Requests, Send(r) PROVE Goal
  <2>1. Busy(r) /\ request[r].kind = "send"
    BY <1>2 DEF Send, Ready, Busy
  <2>2. PICK t \in Transfers, snap \in Row : t = request[r].t /\ snap = request[r].snap
    BY <1>0, <2>1, AboutToWrite
  <2>3. transfer[t] = snap /\ transfer[t].status = "DRAFT"
    BY <1>0, <2>1, <2>2, AboutToWrite DEF ReadHolds, Decisions, Accepts
  <2>4. PICK approved \in BOOLEAN : approved = transfer[t].approved
    BY <1>0 DEF TypeOK, Row
  <2>5. CASE transfer' = [transfer EXCEPT ![t].status = "PENDING_APPROVAL"] /\ UNCHANGED stock
    BY <1>0, <2>3, <2>5, StatusMoves
  <2>6. CASE Dispatch(t, snap, approved)
    BY <1>0, <2>3, <2>6, DispatchMoves
  <2> QED BY <1>2, <2>2, <2>4, <2>5, <2>6 DEF Send
<1>3. ASSUME NEW r \in Requests, Approve(r) PROVE Goal
  <2>1. /\ Busy(r) /\ request[r].kind \in Decisions
        /\ transfer[request[r].t].status = "PENDING_APPROVAL"
    BY <1>3 DEF Approve, Ready, Busy, Decisions
  <2>2. PICK t \in Transfers, snap \in Row : t = request[r].t /\ snap = request[r].snap
    BY <1>0, <2>1, AboutToWrite
  <2>3. transfer[t] = snap
    BY <1>0, <2>1, <2>2, AboutToDecide
  <2>4. Dispatch(t, snap, TRUE)
    BY <1>3, <2>2 DEF Approve
  <2> QED BY <1>0, <2>1, <2>2, <2>3, <2>4, DispatchMoves
<1>4. ASSUME NEW r \in Requests, Reject(r) PROVE Goal
  <2>1. Busy(r)
    BY <1>4 DEF Reject, Ready, Busy
  <2>2. PICK t \in Transfers : t = request[r].t
    BY <1>0, <2>1, AboutToWrite
  <2>3. /\ transfer' = [transfer EXCEPT ![t].status = "REJECTED"] /\ UNCHANGED stock
        /\ transfer[t].status = "PENDING_APPROVAL"
    BY <1>4, <2>2 DEF Reject
  <2> QED BY <1>0, <2>3, StatusMoves
<1>5. ASSUME NEW r \in Requests, Remove(r) PROVE Goal
  <2>1. Busy(r) /\ request[r].kind = "remove"
    BY <1>5 DEF Remove, Ready, Busy
  <2>2. PICK t \in Transfers : t = request[r].t
    BY <1>0, <2>1, AboutToWrite
  <2>3. transfer[t].status \in {"DRAFT", "PENDING_APPROVAL", "REJECTED"}
    BY <1>0, <2>1, <2>2, AboutToWrite DEF ReadHolds, Decisions, Accepts
  <2>4. transfer'[t] = DeletedRow /\ Alone(t) /\ UNCHANGED stock
    BY <1>0, <1>5, <2>2 DEF Remove, TypeOK, Alone
  <2>5. DeletedRow.status = "DELETED" /\ ~DeletedRow.approved
    BY DEF DeletedRow, NoRow
  <2>6. Paperwork(t)
    BY <2>3, <2>4, <2>5 DEF Paperwork, InMotion, Moving
  <2> QED BY <2>4, <2>6 DEF Moves
<1>6. ASSUME NEW r \in Requests, Update(r) PROVE Goal
  <2>1. Busy(r) /\ request[r].kind = "update"
    BY <1>6 DEF Update, Ready, Busy
  <2>2. PICK t \in Transfers, snap \in Row : t = request[r].t /\ snap = request[r].snap
    BY <1>0, <2>1, AboutToWrite
  <2>3. transfer[t] = snap /\ transfer[t].status = "DRAFT"
    BY <1>0, <2>1, <2>2, AboutToWrite DEF ReadHolds, Decisions, Accepts
  <2>4. PICK id \in Nat, approved \in BOOLEAN :
          id = edits[t] + 1 /\ approved = transfer[t].approved
    <3>1. edits[t] + 1 \in Nat
      BY <1>0, <2>2, ConstantsAssumption DEF TypeOK
    <3>2. transfer[t].approved \in BOOLEAN
      BY <2>2, <2>3 DEF Row
    <3> QED BY <3>1, <3>2
  <2>5. PICK src \in Warehouses, dst \in Warehouses, lines \in Lines, ask \in {"DRAFT", "SENT"} :
          \E items \in Rewritten(t, snap, lines, id) :
            Store(t, src, dst, ask, approved, items, lines)
    BY <1>6, <2>2, <2>4 DEF Update
  <2>6. Rewritten(t, snap, lines, id) = {NewItems(lines, id)}
    BY <2>3 DEF Rewritten
  <2>7. Store(t, src, dst, ask, approved, NewItems(lines, id), lines)
    BY <2>5, <2>6
  <2> QED BY <1>0, <2>3, <2>4, <2>7, StoreMoves
<1>7. ASSUME NEW r \in Requests, ReceiveCommit(r) PROVE Goal
  <2>1. Busy(r) /\ request[r].stage = "refreshed"
    BY <1>7 DEF ReceiveCommit, Busy
  <2>2. PICK t \in Transfers, snap \in Row, lines \in [Products -> 0..MaxQuantity] :
          t = request[r].t /\ snap = request[r].snap /\ lines = request[r].lines
    BY <1>0, <2>1, AboutToWrite, RequestType
  <2>3. /\ request[r].kind = "receive"
        /\ transfer[t] = snap /\ transfer[t].status \in {"SENT", "PARTIALLY_RECEIVED"}
        /\ \A p \in Products : snap.items[p].received + lines[p] <= snap.items[p].sent
    BY <1>0, <2>1, <2>2, AboutToWrite DEF ReadHolds, Decisions, Accepts
  <2> DEFINE items == Received(transfer[t].items, lines)
  <2>4. items \in [Products -> Item]
    BY <2>3, ConstantsAssumption DEF Received, Row, Item
  <2>5. request[r].full <=> AllArrived(items)
    BY <2>1, <2>2, <2>3 DEF Complete, FullIsTrue
  <2>6. transfer' = [transfer EXCEPT ![t] = [transfer[t] EXCEPT
            !.status = IF request[r].full THEN "RECEIVED" ELSE "PARTIALLY_RECEIVED",
            !.items = items]]
    BY <1>7, <2>2 DEF ReceiveCommit
  <2>7. PutIn(t, snap.dst, lines)
    BY <1>7, <2>2 DEF ReceiveCommit
  <2> HIDE DEF items
  <2>8. /\ Alone(t)
        /\ transfer'[t] = [transfer[t] EXCEPT
            !.status = IF AllArrived(items) THEN "RECEIVED" ELSE "PARTIALLY_RECEIVED",
            !.items = items]
    BY <1>0, <2>5, <2>6 DEF TypeOK, Alone
  <2>9. stock' = [stock EXCEPT ![transfer[t].dst] =
                    [p \in Stocked |-> stock[transfer[t].dst][p] + lines[p]]]
    BY <2>3, <2>7 DEF PutIn
  <2>10. Arrives(t)
    <3>1. InMotion(t) /\ transfer[t].status # "RECEIVED"
      BY <2>3 DEF InMotion, Moving
    <3>2. items = Received(transfer[t].items, lines)
      BY DEF items
    <3> QED BY <2>3, <2>4, <2>8, <2>9, <3>1, <3>2 DEF Arrives
  <2> QED BY <2>8, <2>10 DEF Moves
<1>8. CASE UNCHANGED <<transfer, stock>>
  BY <1>8
<1> QED BY <1>1, <1>2, <1>3, <1>4, <1>5, <1>6, <1>7, <1>8
        DEF Next, Step, Begin, Abort, ReceiveLines, ReceiveRefresh, vars

(***************************************************************************)
(* The invariant.                                                          *)
(***************************************************************************)
LEMMA MovedIsSound ==
    ASSUME TypeOK, TypeOK', NEW t \in Transfers, RowOK(t), Sound(t), Moves(t)
    PROVE  Sound(t)'
<1>1. CASE Paperwork(t)
  <2>1. ~transfer'[t].approved
    BY <1>1 DEF Paperwork, Sound
  <2>2. DeletedRow.status = "DELETED" /\ \A p \in Products : DeletedRow.items[p].sent = 0
    BY DEF DeletedRow, NoRow, NewItems, NoLines
  <2> QED BY <1>1, <2>1, <2>2, ConstantsAssumption
          DEF Paperwork, Sound, Fresh, Exists, InMotion
<1>2. CASE Leaves(t)
  <2>1. InMotion(t)'
    BY <1>2 DEF Leaves, InMotion, Moving
  <2>2. ~AllArrived(transfer'[t].items)
    BY <1>2 DEF Leaves, Fresh, AllArrived
  <2> QED BY <1>2, <2>1, <2>2 DEF Leaves, Sound, Fresh, InMotion
<1>3. CASE Arrives(t)
  <2>1. PICK lines \in [Products -> 0..MaxQuantity], items \in [Products -> Item] :
          /\ InMotion(t) /\ items = Received(transfer[t].items, lines)
          /\ transfer'[t] = [transfer[t] EXCEPT
                !.status = IF AllArrived(items) THEN "RECEIVED" ELSE "PARTIALLY_RECEIVED",
                !.items = items]
    BY <1>3 DEF Arrives
  <2>2. \A p \in Products : items[p].sent = transfer[t].items[p].sent
    <3>1. transfer[t].items \in [Products -> Item]
      BY DEF TypeOK, Row
    <3>2. ASSUME NEW p \in Products PROVE items[p].sent = transfer[t].items[p].sent
      <4>1. transfer[t].items[p] \in Item
        BY <3>1
      <4>2. items[p] = [transfer[t].items[p] EXCEPT !.received = @ + lines[p]]
        BY <2>1 DEF Received
      <4> QED BY <4>1, <4>2 DEF Item
    <3> QED BY <3>2
  <2>3. /\ transfer'[t].items = items
        /\ transfer'[t].status =
              IF AllArrived(items) THEN "RECEIVED" ELSE "PARTIALLY_RECEIVED"
    BY <2>1 DEF TypeOK, Row
  <2>4. InMotion(t)' /\ Exists(t)
    BY <2>1, <2>3 DEF InMotion, Moving, Exists
  <2>5. AllArrived(transfer[t].items)' <=> AllArrived(items)
    BY <2>3 DEF AllArrived
  <2> QED BY <2>2, <2>3, <2>4, <2>5 DEF Sound, Exists
<1> QED BY <1>1, <1>2, <1>3 DEF Moves

LEMMA RowStaysSound ==
    ASSUME NEW t \in Transfers, Sound(t), transfer'[t] = transfer[t]
    PROVE  Sound(t)'
BY DEF Sound, Exists, InMotion, AllArrived

LEMMA StepFull ==
    ASSUME Complete, [Next]_vars, NEW q \in Requests PROVE FullIsTrue(q)'
<1>0. TypeOK /\ IInv /\ FullIsTrue(q)
  BY DEF Complete, IInv
<1>1. request'[q] = request[q] => FullIsTrue(q)'
  BY <1>0 DEF FullIsTrue, AllArrived, Received
<1>2. request'[q].stage # "refreshed" => FullIsTrue(q)'
  BY DEF FullIsTrue
<1>3. ASSUME NEW r \in Requests, request' = Idle(r) PROVE FullIsTrue(q)'
  BY <1>0, <1>1, <1>2, <1>3 DEF Idle, IdleRequest, TypeOK
<1>4. ASSUME NEW r \in Requests, NEW k \in Kinds, NEW t \in Transfers, Begin(r, k, t)
      PROVE  FullIsTrue(q)'
  BY <1>0, <1>1, <1>2, <1>4 DEF Begin, TypeOK
<1>5. ASSUME NEW r \in Requests, ReceiveLines(r) PROVE FullIsTrue(q)'
  <2>1. r # q => request'[q] = request[q]
    BY <1>0, <1>5 DEF ReceiveLines, TypeOK
  <2>2. request'[r].stage = "applied"
    BY <1>0, <1>5 DEF ReceiveLines, TypeOK, Request
  <2> QED BY <1>1, <1>2, <2>1, <2>2
<1>6. ASSUME NEW r \in Requests, ReceiveRefresh(r) PROVE FullIsTrue(q)'
  <2>1. r # q => request'[q] = request[q]
    BY <1>0, <1>6 DEF ReceiveRefresh, TypeOK
  <2>2. CASE r = q
    <3>1. Busy(q) /\ request[q].stage = "applied"
      BY <1>6, <2>2 DEF ReceiveRefresh, Busy
    <3>2. request[q].kind = "receive" /\ transfer[request[q].t] = request[q].snap
      BY <1>0, <3>1, AboutToWrite DEF ReadHolds, Decisions
    <3>3. /\ request'[q].full = AllArrived(Received(transfer[request[q].t].items, request[q].lines))
          /\ request'[q].snap = request[q].snap /\ request'[q].lines = request[q].lines
      BY <1>0, <1>6, <2>2 DEF ReceiveRefresh, TypeOK, Request
    <3> QED BY <3>2, <3>3 DEF FullIsTrue, AllArrived, Received
  <2> QED BY <1>1, <2>1, <2>2
<1>7. CASE UNCHANGED request
  BY <1>1, <1>7
<1> QED BY <1>3, <1>4, <1>5, <1>6, <1>7
        DEF Next, Step, Create, Abort, Send, Approve, Reject, Remove, Update,
            ReceiveCommit, vars

LEMMA StepComplete == ASSUME OnlyDecisionsOverlap, Complete, [Next]_vars PROVE Complete'
<1>1. IInv' /\ TypeOK /\ TypeOK'
  BY StepIInv DEF Complete, IInv
<1>2. ASSUME NEW t \in Transfers PROVE Sound(t)'
  <2>1. Sound(t) /\ RowOK(t)
    BY DEF Complete, IInv
  <2>2. CASE UNCHANGED <<transfer, stock>>
    BY <2>1, <2>2, RowStaysSound
  <2>3. ASSUME NEW u \in Transfers, Moves(u) PROVE Sound(t)'
    BY <1>1, <2>1, <2>3, MovedIsSound, RowStaysSound DEF Moves, Alone
  <2> QED BY <2>2, <2>3, StepMoves
<1> QED BY <1>1, <1>2, StepFull DEF Complete

LEMMA AlwaysComplete == ASSUME OnlyDecisionsOverlap PROVE Spec => []Complete
<1>1. Complete /\ [Next]_vars => Complete'
  BY StepComplete
<1> QED BY <1>1, InitComplete, PTL DEF Spec

\* A transfer is RECEIVED exactly when every line has arrived in full: what
\* receive reads back in the middle of its transaction is what it commits.
THEOREM ReceivedIsComplete == ASSUME OnlyDecisionsOverlap PROVE Spec => []ReceivedWhenAllArrived
<1>1. Complete => ReceivedWhenAllArrived
  <2> SUFFICES ASSUME Complete, NEW t \in Transfers, InMotion(t)
               PROVE  transfer[t].status = "RECEIVED" <=>
                        \A p \in Products :
                          transfer[t].items[p].received = transfer[t].items[p].sent
    BY DEF ReceivedWhenAllArrived
  <2>1. \A p \in Products : /\ transfer[t].items[p].received <= transfer[t].items[p].sent
                            /\ transfer[t].items[p].received \in Nat
                            /\ transfer[t].items[p].sent \in Nat
    BY DEF Complete, IInv, RowOK, TypeOK, Row, Item
  <2>2. transfer[t].status = "RECEIVED" <=> AllArrived(transfer[t].items)
    BY DEF Complete, Sound
  <2> QED BY <2>1, <2>2 DEF AllArrived
<1> QED BY <1>1, AlwaysComplete, PTL

\* No step takes a transfer back, however decisions race: goods under way stay
\* under way, a refusal and a receipt are final, an approval is never undone.
THEOREM TransfersGoForward == ASSUME OnlyDecisionsOverlap PROVE Spec => ForwardOnly
<1> DEFINE Forward(t) ==
             LET old == transfer[t].status
                 new == transfer'[t].status
             IN  /\ old \in Moving => new \in Moving
                 /\ old = "REJECTED" => new \in {"REJECTED", "DELETED"}
                 /\ old = "RECEIVED" => new = "RECEIVED"
                 /\ old = "PENDING_APPROVAL" => new # "DRAFT"
                 /\ transfer[t].approved => transfer'[t].approved
<1>1. ASSUME Complete, [Next]_vars, NEW t \in Transfers PROVE Forward(t)
  <2>1. CASE transfer'[t] = transfer[t]
    BY <2>1
  <2>2. CASE Paperwork(t)
    BY <1>1, <2>2 DEF Complete, Paperwork, Sound, InMotion, Moving
  <2>3. CASE Leaves(t)
    BY <1>1, <2>3 DEF Complete, Leaves, Sound, InMotion, Moving
  <2>4. CASE Arrives(t)
    <3>1. /\ transfer[t].status \in Moving \ {"RECEIVED"}
          /\ transfer'[t].status \in {"RECEIVED", "PARTIALLY_RECEIVED"}
          /\ transfer'[t].approved = transfer[t].approved
      BY <1>1, <2>4 DEF Complete, IInv, TypeOK, Row, Arrives, InMotion
    <3> QED BY <3>1 DEF Moving
  <2> QED BY <1>1, <2>1, <2>2, <2>3, <2>4, StepMoves DEF Moves, Alone
<1>2. Complete /\ [Next]_vars => [\A t \in Transfers : Forward(t)]_transfer
  BY <1>1
<1> QED BY <1>2, AlwaysComplete, PTL DEF Spec, ForwardOnly

(***************************************************************************)
(* Conservation: what leaves one place arrives in another.                 *)
(***************************************************************************)
OnShelf(p) == [w \in Warehouses |-> stock[w][p]]

OnTheWay(p) == [t \in Transfers |->
                  IF InMotion(t)
                  THEN transfer[t].items[p].sent - transfer[t].items[p].received ELSE 0]

Conserved(p) == SumFunctionOnSet(OnShelf(p), Warehouses)
                  + SumFunctionOnSet(OnTheWay(p), Transfers)
                = SumFunctionOnSet(OpeningStock, Warehouses)

LEMMA SumsOfGoods ==
    ASSUME TypeOK, NEW p \in Stocked
    PROVE  /\ \A w \in Warehouses : OnShelf(p)[w] \in Int
           /\ \A t \in Transfers : OnTheWay(p)[t] \in Int
           /\ SumFunctionOnSet(OnShelf(p), Warehouses) \in Int
           /\ SumFunctionOnSet(OnTheWay(p), Transfers) \in Int
<1>1. \A w \in Warehouses : OnShelf(p)[w] \in Int
  BY DEF TypeOK, OnShelf
<1>2. \A t \in Transfers : OnTheWay(p)[t] \in Int
  BY StockedAreProducts DEF TypeOK, Row, Item, OnTheWay
<1> QED BY <1>1, <1>2, SumIsInt, ConstantsAssumption

\* A step that moves n from one warehouse to a transfer, n being negative when
\* it arrives, changes no total.
LEMMA Exchange ==
    ASSUME TypeOK, TypeOK', NEW p \in Stocked, Conserved(p),
           NEW w \in Warehouses, NEW t \in Transfers, NEW n \in Int,
           \A v \in Warehouses : OnShelf(p)'[v] = IF v = w THEN OnShelf(p)[v] - n ELSE OnShelf(p)[v],
           \A u \in Transfers : OnTheWay(p)'[u] = IF u = t THEN OnTheWay(p)[u] + n
                                                  ELSE OnTheWay(p)[u]
    PROVE  Conserved(p)'
<1>1. /\ \A v \in Warehouses : OnShelf(p)[v] \in Int
      /\ \A u \in Transfers : OnTheWay(p)[u] \in Int
      /\ SumFunctionOnSet(OnShelf(p), Warehouses) \in Int
      /\ SumFunctionOnSet(OnTheWay(p), Transfers) \in Int
  BY SumsOfGoods
<1>2. SumFunctionOnSet(OnShelf(p)', Warehouses)
        = SumFunctionOnSet(OnShelf(p), Warehouses) + OnShelf(p)'[w] - OnShelf(p)[w]
  BY <1>1, SumChanges, ConstantsAssumption
<1>3. SumFunctionOnSet(OnTheWay(p)', Transfers)
        = SumFunctionOnSet(OnTheWay(p), Transfers) + OnTheWay(p)'[t] - OnTheWay(p)[t]
  BY <1>1, SumChanges, ConstantsAssumption
<1>4. OnShelf(p)'[w] = OnShelf(p)[w] - n /\ OnTheWay(p)'[t] = OnTheWay(p)[t] + n
  OBVIOUS
<1>5. OnShelf(p)[w] \in Int /\ OnTheWay(p)[t] \in Int
  BY <1>1
<1>6. SumFunctionOnSet(OnShelf(p)', Warehouses) + SumFunctionOnSet(OnTheWay(p)', Transfers)
        = SumFunctionOnSet(OnShelf(p), Warehouses) + SumFunctionOnSet(OnTheWay(p), Transfers)
  BY <1>1, <1>2, <1>3, <1>4, <1>5
<1> QED BY <1>6 DEF Conserved

LEMMA StepConserved ==
    ASSUME Complete, Complete', [Next]_vars, NEW p \in Stocked, Conserved(p)
    PROVE  Conserved(p)'
<1>1. TypeOK /\ TypeOK' /\ p \in Products
  BY StockedAreProducts DEF Complete, IInv
<1>2. CASE UNCHANGED <<transfer, stock>>
  <2>1. OnShelf(p)' = OnShelf(p) /\ OnTheWay(p)' = OnTheWay(p)
    BY <1>2 DEF OnShelf, OnTheWay, InMotion
  <2> QED BY <2>1 DEF Conserved
<1>3. ASSUME NEW t \in Transfers, Moves(t) PROVE Conserved(p)'
  <2>0. \A u \in Transfers \ {t} : OnTheWay(p)'[u] = OnTheWay(p)[u]
    BY <1>3 DEF Moves, Alone, OnTheWay, InMotion
  <2>1. CASE Paperwork(t)
    <3>1. OnShelf(p)' = OnShelf(p)
      BY <2>1 DEF Paperwork, OnShelf
    <3>2. OnTheWay(p)'[t] = 0 /\ OnTheWay(p)[t] = 0
      BY <2>1 DEF Paperwork, OnTheWay
    <3>3. OnTheWay(p)' = OnTheWay(p)
      BY <2>0, <3>2 DEF OnTheWay
    <3> QED BY <3>1, <3>3 DEF Conserved
  <2>2. CASE Leaves(t)
    <3> DEFINE n == transfer'[t].items[p].sent
               w == transfer'[t].src
    <3>1. n \in Int /\ w \in Warehouses
      BY <1>1 DEF TypeOK, Row, Item
    <3>2. transfer'[t].items[p].received = 0 /\ ~InMotion(t) /\ InMotion(t)'
      BY <1>1, <2>2 DEF Leaves, Fresh, InMotion, Moving
    <3>3. OnTheWay(p)[t] = 0 /\ OnTheWay(p)'[t] = n
      BY <3>1, <3>2 DEF OnTheWay
    <3>4. \A v \in Warehouses : OnShelf(p)'[v] = IF v = w THEN OnShelf(p)[v] - n ELSE OnShelf(p)[v]
      BY <1>1, <2>2 DEF Leaves, OnShelf, TypeOK
    <3> HIDE DEF n, w
    <3>5. OnTheWay(p)'[t] = OnTheWay(p)[t] + n
      BY <3>1, <3>3
    <3> QED BY <1>1, <2>0, <3>1, <3>4, <3>5, Exchange
  <2>3. CASE Arrives(t)
    <3>1. PICK lines \in [Products -> 0..MaxQuantity], items \in [Products -> Item] :
            /\ InMotion(t) /\ items = Received(transfer[t].items, lines)
            /\ transfer'[t] = [transfer[t] EXCEPT
                  !.status = IF AllArrived(items) THEN "RECEIVED" ELSE "PARTIALLY_RECEIVED",
                  !.items = items]
            /\ stock' = [stock EXCEPT ![transfer[t].dst] =
                            [q \in Stocked |-> stock[transfer[t].dst][q] + lines[q]]]
      BY <2>3 DEF Arrives
    <3> DEFINE n == -lines[p]
               w == transfer[t].dst
    <3>2. lines[p] \in Int /\ n \in Int /\ w \in Warehouses
      BY <1>1, ConstantsAssumption DEF TypeOK, Row
    <3>3. transfer[t].items[p] \in Item /\ transfer'[t].items[p] \in Item
      BY <1>1 DEF TypeOK, Row
    <3>4. transfer'[t].items = items /\ transfer'[t].status \in Moving
      BY <1>1, <3>1 DEF TypeOK, Row, Moving
    <3>5. /\ items[p].sent = transfer[t].items[p].sent
          /\ items[p].received = transfer[t].items[p].received + lines[p]
      BY <1>1, <3>1, <3>3 DEF Received, Item
    <3>6. /\ OnTheWay(p)[t] = transfer[t].items[p].sent - transfer[t].items[p].received
          /\ OnTheWay(p)'[t] = items[p].sent - items[p].received
      BY <3>1, <3>4 DEF OnTheWay, InMotion
    <3>7. OnTheWay(p)'[t] = OnTheWay(p)[t] + n
      BY <3>2, <3>3, <3>5, <3>6 DEF Item
    <3>8. \A v \in Warehouses : OnShelf(p)'[v] = IF v = w THEN OnShelf(p)[v] - n ELSE OnShelf(p)[v]
      BY <1>1, <3>1, <3>2 DEF OnShelf, TypeOK
    <3> HIDE DEF n, w
    <3> QED BY <1>1, <2>0, <3>2, <3>7, <3>8, Exchange
  <2> QED BY <1>3, <2>1, <2>2, <2>3 DEF Moves
<1> QED BY <1>2, <1>3, StepMoves

\* What the warehouses hold, with what is on the way, is what there was at the
\* start, of every product, however decisions race.
THEOREM NothingMadeOrLost == ASSUME OnlyDecisionsOverlap PROVE Spec => []GoodsConserved
<1> DEFINE Goods == \A p \in Stocked : Conserved(p)
<1>1. Init => Goods
  <2> SUFFICES ASSUME Init, NEW p \in Stocked PROVE Conserved(p)
    OBVIOUS
  <2>1. \A t \in Transfers : OnTheWay(p)[t] = 0
    BY DEF Init, NoRow, OnTheWay, InMotion, Moving
  <2>2. SumFunctionOnSet(OnTheWay(p), Transfers) = 0
    BY <2>1, SumOfZeros, ConstantsAssumption
  <2>3. \A w \in Warehouses : OnShelf(p)[w] = OpeningStock[w]
    BY DEF Init, OnShelf
  <2>4. SumFunctionOnSet(OnShelf(p), Warehouses) = SumFunctionOnSet(OpeningStock, Warehouses)
    BY <2>3, SumsAgree, ConstantsAssumption
  <2>5. SumFunctionOnSet(OpeningStock, Warehouses) \in Int
    <3>1. \A w \in Warehouses : OpeningStock[w] \in Int
      BY ConstantsAssumption
    <3> QED BY <3>1, SumIsInt, ConstantsAssumption
  <2> QED BY <2>2, <2>4, <2>5 DEF Conserved
<1>2. Complete /\ Complete' /\ Goods /\ [Next]_vars => Goods'
  BY StepConserved
<1>3. Goods => GoodsConserved
  <2>1. DOMAIN OpeningStock = Warehouses
    BY ConstantsAssumption
  <2> QED BY <2>1 DEF GoodsConserved, Conserved, OnShelf, OnTheWay, SumFunction
<1> HIDE DEF Goods
<1> QED BY <1>1, <1>2, <1>3, AlwaysComplete, PTL DEF Spec

(***************************************************************************)
(* The promise.  Goods that leave are a Ship, goods that arrive an Arrive, *)
(* a refusal or a deletion a Drop; all other paperwork promises nothing.   *)
(***************************************************************************)
PhaseOf == [t \in Transfers |-> Phase(t)]
Destination(t) == IF InMotion(t) THEN transfer[t].dst ELSE Nowhere
DestOf == [t \in Transfers |-> Destination(t)]
TransitOf == [t \in Transfers |-> Transit(t)]

\* A transfer whose row stays stays where it is in the promise.
LEMMA OthersStay ==
    ASSUME NEW t \in Transfers, transfer'[t] = transfer[t]
    PROVE  Phase(t)' = Phase(t) /\ Destination(t)' = Destination(t) /\ Transit(t)' = Transit(t)
BY DEF Phase, Destination, Transit, InMotion

LEMMA PromiseInit == Init => Promise!Init
<1> SUFFICES ASSUME Init PROVE Promise!Init
  OBVIOUS
<1>1. stock \in [Warehouses -> [Stocked -> Nat]]
  BY InitIInv DEF IInv, TypeOK
<1>2. ASSUME NEW t \in Transfers
      PROVE  /\ Phase(t) = "held" /\ Destination(t) = Nowhere
             /\ Transit(t) = [p \in Stocked |-> 0]
  <2>1. transfer[t].status = "NONE"
    BY DEF Init, NoRow
  <2>2. ~InMotion(t)
    BY <2>1 DEF InMotion, Moving
  <2> QED BY <2>1, <2>2 DEF Phase, Destination, Transit
<1> QED BY <1>1, <1>2 DEF Promise!Init, Destination

LEMMA PaperworkPromise ==
    ASSUME TypeOK', NEW t \in Transfers, Alone(t), Paperwork(t)
    PROVE  Promise!Drop(t) \/ UNCHANGED Promise!promised
<1>1. /\ Destination(t)' = Destination(t) /\ Transit(t)' = Transit(t)
  BY DEF Paperwork, Destination, Transit
<1>2. DestOf' = DestOf /\ TransitOf' = TransitOf
  BY <1>1, OthersStay DEF Alone, DestOf, TransitOf
<1>3. Phase(t) \in {"held", "dropped"} /\ Phase(t)' \in {"held", "dropped"}
  BY DEF Paperwork, Phase
<1>4. Phase(t) = "dropped" => Phase(t)' = "dropped"
  BY DEF Paperwork, Phase
<1>5. CASE Phase(t)' = Phase(t)
  <2>1. PhaseOf' = PhaseOf
    BY <1>5, OthersStay DEF Alone, PhaseOf
  <2> QED BY <1>2, <2>1 DEF Promise!promised, Paperwork, PhaseOf, DestOf, TransitOf, Destination
<1>6. CASE Phase(t)' # Phase(t)
  <2>1. Phase(t) = "held" /\ Phase(t)' = "dropped"
    BY <1>3, <1>4, <1>6
  <2>2. PhaseOf[t] = "held" /\ PhaseOf' = [PhaseOf EXCEPT ![t] = "dropped"]
    BY <2>1, OthersStay DEF Alone, PhaseOf
  <2> QED BY <1>2, <2>2 DEF Promise!Drop, Paperwork, PhaseOf, DestOf, TransitOf, Destination
<1> QED BY <1>5, <1>6

LEMMA LeavesPromise ==
    ASSUME TypeOK, TypeOK', NEW t \in Transfers, Alone(t), Leaves(t)
    PROVE  Promise!Ship(t)
<1> DEFINE from == transfer'[t].src
           to == transfer'[t].dst
           load == [p \in Stocked |-> transfer'[t].items[p].sent]
<1>1. from \in Warehouses /\ to \in Warehouses /\ from # to
  BY DEF Leaves, TypeOK, Row
<1>2. load \in [Stocked -> 0..MaxQuantity]
  BY StockedAreProducts DEF Leaves, Fresh
<1>3. /\ \A p \in Stocked : load[p] <= stock[from][p]
      /\ stock' = [stock EXCEPT ![from] = [p \in Stocked |-> stock[from][p] - load[p]]]
  BY DEF Leaves
<1>4. InMotion(t)' /\ ~InMotion(t) /\ transfer[t].status \notin {"REJECTED", "DELETED"}
  BY DEF Leaves, InMotion, Moving
<1>5. PhaseOf[t] = "held" /\ PhaseOf' = [PhaseOf EXCEPT ![t] = "shipped"]
  <2>1. Phase(t) = "held" /\ Phase(t)' = "shipped"
    BY <1>4 DEF Phase, Leaves
  <2> QED BY <2>1, OthersStay DEF Alone, PhaseOf
<1>6. DestOf' = [DestOf EXCEPT ![t] = to]
  <2>1. Destination(t)' = to
    BY <1>4 DEF Destination
  <2> QED BY <2>1, OthersStay DEF Alone, DestOf
<1>7. TransitOf' = [TransitOf EXCEPT ![t] = load]
  <2>1. \A p \in Stocked : transfer'[t].items[p].sent - transfer'[t].items[p].received = load[p]
    BY <1>2, StockedAreProducts DEF Leaves, Fresh
  <2>2. Transit(t)' = load
    BY <1>4, <2>1 DEF Transit
  <2> QED BY <2>2, OthersStay DEF Alone, TransitOf
<1> HIDE DEF from, to, load
<1>8. \E f, g \in Warehouses, q \in [Stocked -> 0..MaxQuantity] :
        /\ f # g
        /\ \A p \in Stocked : q[p] <= stock[f][p]
        /\ stock' = [stock EXCEPT ![f] = [p \in Stocked |-> stock[f][p] - q[p]]]
        /\ DestOf' = [DestOf EXCEPT ![t] = g]
        /\ TransitOf' = [TransitOf EXCEPT ![t] = q]
  BY <1>1, <1>2, <1>3, <1>6, <1>7
<1> QED BY <1>5, <1>8
        DEF Promise!Ship, PhaseOf, DestOf, TransitOf, Destination

LEMMA ArrivesPromise ==
    ASSUME TypeOK, TypeOK', NEW t \in Transfers, Alone(t), Arrives(t)
    PROVE  Promise!Arrive(t)
<1>1. PICK lines \in [Products -> 0..MaxQuantity], items \in [Products -> Item] :
        /\ InMotion(t) /\ items = Received(transfer[t].items, lines)
        /\ \A p \in Products :
              transfer[t].items[p].received + lines[p] <= transfer[t].items[p].sent
        /\ transfer'[t] = [transfer[t] EXCEPT
              !.status = IF AllArrived(items) THEN "RECEIVED" ELSE "PARTIALLY_RECEIVED",
              !.items = items]
        /\ stock' = [stock EXCEPT ![transfer[t].dst] =
                        [p \in Stocked |-> stock[transfer[t].dst][p] + lines[p]]]
  BY DEF Arrives
<1> DEFINE load == [p \in Stocked |-> lines[p]]
<1>2. load \in [Stocked -> 0..MaxQuantity]
  BY StockedAreProducts
<1>3. /\ transfer'[t].items = items /\ transfer'[t].dst = transfer[t].dst
      /\ transfer'[t].status \in Moving
  BY <1>1 DEF TypeOK, Row, Moving
<1>4. InMotion(t) /\ InMotion(t)'
  BY <1>1, <1>3 DEF InMotion
<1>5. PhaseOf[t] = "shipped" /\ PhaseOf' = PhaseOf
  <2>1. transfer[t].status \notin {"REJECTED", "DELETED"}
    BY <1>4 DEF InMotion, Moving
  <2>2. transfer'[t].status \notin {"REJECTED", "DELETED"}
    BY <1>3 DEF Moving
  <2>3. Phase(t) = "shipped" /\ Phase(t)' = "shipped"
    BY <1>4, <2>1, <2>2 DEF Phase
  <2> QED BY <2>3, OthersStay DEF Alone, PhaseOf
<1>6. DestOf' = DestOf /\ DestOf[t] = transfer[t].dst
  <2>1. Destination(t)' = transfer[t].dst /\ Destination(t) = transfer[t].dst
    BY <1>3, <1>4 DEF Destination
  <2> QED BY <2>1, OthersStay DEF Alone, DestOf
<1>7. ASSUME NEW p \in Stocked
      PROVE  /\ load[p] <= TransitOf[t][p]
             /\ Transit(t)'[p] = TransitOf[t][p] - load[p]
  <2>1. p \in Products /\ transfer[t].items[p] \in Item /\ lines[p] \in Nat
    BY <1>7, StockedAreProducts, ConstantsAssumption DEF TypeOK, Row
  <2>2. items[p] = [transfer[t].items[p] EXCEPT !.received = @ + lines[p]]
    BY <1>1, <2>1 DEF Received
  <2>3. /\ items[p].sent = transfer[t].items[p].sent
        /\ items[p].received = transfer[t].items[p].received + lines[p]
    BY <2>1, <2>2 DEF Item
  <2>4. TransitOf[t][p] = transfer[t].items[p].sent - transfer[t].items[p].received
    BY <1>4 DEF TransitOf, Transit
  <2>5. Transit(t)'[p] = items[p].sent - items[p].received
    BY <1>3, <1>4 DEF Transit
  <2>6. transfer[t].items[p].sent \in Nat /\ transfer[t].items[p].received \in Nat
    BY <2>1 DEF Item
  <2>7. transfer[t].items[p].received + lines[p] <= transfer[t].items[p].sent
    BY <1>1, <2>1
  <2> QED BY <2>1, <2>3, <2>4, <2>5, <2>6, <2>7
<1>8. TransitOf' = [TransitOf EXCEPT ![t] = [p \in Stocked |-> TransitOf[t][p] - load[p]]]
  <2>1. Transit(t)' = [p \in Stocked |-> TransitOf[t][p] - load[p]]
    BY <1>7 DEF Transit
  <2> QED BY <2>1, OthersStay DEF Alone, TransitOf
<1>9. stock' = [stock EXCEPT ![DestOf[t]] =
                   [p \in Stocked |-> stock[DestOf[t]][p] + load[p]]]
  BY <1>1, <1>6
<1>10. \A p \in Stocked : load[p] <= TransitOf[t][p]
  BY <1>7
<1> HIDE DEF load
<1> QED BY <1>2, <1>5, <1>6, <1>8, <1>9, <1>10
        DEF Promise!Arrive, PhaseOf, DestOf, TransitOf, Destination

LEMMA StepPromise ==
    ASSUME OnlyDecisionsOverlap, Complete, Complete', [Next]_vars
    PROVE  [Promise!Next]_(Promise!promised)
<1>1. TypeOK /\ TypeOK'
  BY DEF Complete, IInv
<1>2. CASE UNCHANGED <<transfer, stock>>
  <2>1. PhaseOf' = PhaseOf /\ DestOf' = DestOf /\ TransitOf' = TransitOf
    BY <1>2, OthersStay DEF PhaseOf, DestOf, TransitOf
  <2> QED BY <1>2, <2>1 DEF Promise!promised, PhaseOf, DestOf, TransitOf, Destination
<1>3. ASSUME NEW t \in Transfers, Moves(t) PROVE [Promise!Next]_(Promise!promised)
  BY <1>1, <1>3, PaperworkPromise, LeavesPromise, ArrivesPromise DEF Moves, Promise!Next
<1> QED BY <1>2, <1>3, StepMoves

\* Transfers implement GoodsInTransit: whatever the drafts, edits, approvals
\* and refusals, goods leave once and whole, travel in nobody's stock, arrive
\* where they were sent, and a dropped transfer never moved anything.
THEOREM TransfersKeepThePromise == ASSUME OnlyDecisionsOverlap PROVE Spec => KeepsPromise
<1>1. Complete /\ Complete' /\ [Next]_vars => [Promise!Next]_(Promise!promised)
  BY StepPromise
<1> QED BY <1>1, PromiseInit, AlwaysComplete, PTL DEF Spec, KeepsPromise, Promise!Spec
=============================================================================
