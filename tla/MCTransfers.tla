---------------------------- MODULE MCTransfers ----------------------------
(* Small instances of WarehouseTransfers for TLC. *)
EXTENDS TransferProperties, TLC

CONSTANTS r1, r2, t1, t2, shop, annex, depot, cloth, hemming, b1, b2

MCBranch == (shop :> b1) @@ (annex :> b1) @@ (depot :> b2)
MCStock == (shop :> 1) @@ (annex :> 0) @@ (depot :> 1)

Symmetry == Permutations(Requests) \cup Permutations(Transfers)
=============================================================================
