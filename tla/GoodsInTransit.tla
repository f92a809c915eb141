--------------------------- MODULE GoodsInTransit ---------------------------
(***************************************************************************)
(* What a stock transfer promises, whatever its paperwork: the goods leave *)
(* the source once and all together, and only if they are there; while they*)
(* travel they are in nobody's stock; they arrive at the one warehouse they*)
(* were sent to, never more of them than left; and a transfer that is      *)
(* dropped never moved anything.                                           *)
(***************************************************************************)
EXTENDS Integers

CONSTANTS Transfers, Warehouses, Stocked, Nowhere, MaxQuantity

VARIABLES
    stock,      \* quantity by warehouse and product
    phase,      \* "held" until the goods leave, then "shipped"; or "dropped"
    dest,       \* where the goods of a shipped transfer are going
    transit     \* what has left and not arrived

promised == <<stock, phase, dest, transit>>

Init ==
    /\ stock \in [Warehouses -> [Stocked -> Nat]]
    /\ phase = [t \in Transfers |-> "held"]
    /\ dest = [t \in Transfers |-> Nowhere]
    /\ transit = [t \in Transfers |-> [p \in Stocked |-> 0]]

Ship(t) ==
    /\ phase[t] = "held"
    /\ \E from, to \in Warehouses, load \in [Stocked -> 0..MaxQuantity] :
        /\ from # to
        /\ \A p \in Stocked : load[p] <= stock[from][p]
        /\ stock' = [stock EXCEPT ![from] =
                        [p \in Stocked |-> stock[from][p] - load[p]]]
        /\ dest' = [dest EXCEPT ![t] = to]
        /\ transit' = [transit EXCEPT ![t] = load]
    /\ phase' = [phase EXCEPT ![t] = "shipped"]

Arrive(t) ==
    /\ phase[t] = "shipped"
    /\ \E load \in [Stocked -> 0..MaxQuantity] :
        /\ \A p \in Stocked : load[p] <= transit[t][p]
        /\ stock' = [stock EXCEPT ![dest[t]] =
                        [p \in Stocked |-> stock[dest[t]][p] + load[p]]]
        /\ transit' = [transit EXCEPT ![t] =
                        [p \in Stocked |-> transit[t][p] - load[p]]]
    /\ UNCHANGED <<phase, dest>>

Drop(t) ==
    /\ phase[t] = "held"
    /\ phase' = [phase EXCEPT ![t] = "dropped"]
    /\ UNCHANGED <<stock, dest, transit>>

Next == \E t \in Transfers : Ship(t) \/ Arrive(t) \/ Drop(t)

Spec == Init /\ [][Next]_promised
=============================================================================
