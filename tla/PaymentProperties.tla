------------------------- MODULE PaymentProperties -------------------------
(***************************************************************************)
(* What manual payments and the prepaid balance must guarantee.            *)
(***************************************************************************)
EXTENDS ManualPayments, Functions

\* Every variable keeps its type; a balance is never below zero, whatever sends
\* race for the last credits (SmsCreditService.consume).
TypeOK ==
    /\ balance \in Nat
    /\ booked \in Int
    /\ topup \in [Topups -> Topup]
    /\ granted \in [Topups -> Nat]
    /\ activation \in [Activations -> Activation]
    /\ subscription \in {"PAST_DUE", "ACTIVE"}
    /\ posted \subseteq Topups \cup Activations
    /\ grants \in 0..MaxGrants
    /\ lost \in Int
    /\ call \in [Workers -> Call]
    /\ \A w \in Workers :
         /\ call[w].op \in {"approve", "reject"} => call[w].id \in Topups
         /\ call[w].op \in {"verify", "refuse"} => call[w].id \in Activations

\* The ledger explains the balance: it differs from the sum of the ledger rows
\* by what calls in flight have yet to book and dead calls never will.
WalletReconciles ==
    balance = booked + lost + SumFunction([w \in Workers |-> call[w].delta])

\* "Two admins approving at once cannot both grant": a top-up has been granted
\* one package's worth of credits if it is APPROVED and none if it is not, and
\* a payment is on record for no other top-up.
GrantedIffApproved ==
    \A q \in Topups :
        /\ topup[q].status = "APPROVED" => granted[q] \in Credits
        /\ topup[q].status # "APPROVED" => granted[q] = 0 /\ q \notin posted

\* "One receipt buys one package", and activates one workspace, however the
\* submissions race.
ReceiptBuysOnce ==
    /\ \A p, q \in Topups :
        topup[p].receipt = topup[q].receipt /\ topup[p].status # "NONE" => p = q
    /\ \A a, b \in Activations :
        activation[a].receipt = activation[b].receipt
            /\ activation[a].status # "NONE" => a = b

\* A workspace is switched on only by a review that found the payment and put
\* it in the books first.
SwitchedOnByReview ==
    subscription = "ACTIVE" =>
        \E a \in Activations : activation[a].status = "VERIFIED" /\ a \in posted

\* A decision is final, what was claimed is never rewritten, and a workspace is
\* never switched off by this flow.
DecisionsFinal ==
    [][/\ \A q \in Topups :
            /\ topup[q].status \in {"APPROVED", "REJECTED"} =>
                    topup'[q] = topup[q] /\ granted'[q] = granted[q]
            /\ topup[q].status # "NONE" =>
                    /\ topup'[q].receipt = topup[q].receipt
                    /\ topup'[q].credits = topup[q].credits
       /\ \A a \in Activations :
            /\ activation[a].status \in {"VERIFIED", "REJECTED"} =>
                    activation'[a] = activation[a]
            /\ activation[a].status # "NONE" =>
                    activation'[a].receipt = activation[a].receipt
       /\ subscription = "ACTIVE" => subscription' = "ACTIVE"]_vars

\* "A TrxID is one payment": a receipt a shop has used for a top-up is not also
\* claimed for its activation.
ReceiptServesOnePurpose ==
    \A q \in Topups, a \in Activations :
        topup[q].receipt = activation[a].receipt => topup[q].receipt = NoReceipt
=============================================================================
