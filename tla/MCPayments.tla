----------------------------- MODULE MCPayments -----------------------------
(* Small instances of ManualPayments for TLC. *)
EXTENDS PaymentProperties, TLC

CONSTANTS w1, w2, q1, q2, a1, a2, x1, x2

Symmetry == Permutations(Workers) \cup Permutations(Topups) \cup Permutations(Activations)
            \cup Permutations(Receipts)
=============================================================================
