------------------------------ MODULE MCSales ------------------------------
(* Small instances of CustomerSales for TLC. *)
EXTENDS SalesProperties, TLC

CONSTANTS r1, r2, s1, s2, x1, x2, e1, q1

C(q, p) == [qty |-> q, paid |-> p]
MCCarts == {C(1, 0), C(1, 1), C(2, 1), C(1, 2)}

\* A receipt stays a payment, and no discount is given on it.
MCReceiptEdits == [type : {"PAYMENT"}, amount : {1, 2}, discount : {0}]

Symmetry == Permutations(Requests) \cup Permutations(Sales) \cup Permutations(Returns)

=============================================================================
