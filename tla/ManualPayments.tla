--------------------------- MODULE ManualPayments ---------------------------
(***************************************************************************)
(* Payments made out of band and confirmed by hand: CreditTopupService,    *)
(* ActivationService and the prepaid balance of SmsCreditService, for one  *)
(* tenant and one messaging channel.                                       *)
(*                                                                         *)
(* A call is handled by a worker.  Only approving and rejecting a top-up,  *)
(* and creating its row, run in a database transaction; every other        *)
(* statement commits on its own, and the worker may die between two of them*)
(* (or the statement may throw, which ends the call the same way).         *)
(* Workers read without locks, so what a call read may be stale when it    *)
(* acts on it.  Every payment is by bKash, the one method both kinds of    *)
(* claim share.                                                            *)
(***************************************************************************)
EXTENDS Integers, FiniteSets

CONSTANTS
    Workers,        \* calls that may be in flight at the same time
    Topups,         \* ids of the top-up requests that can be created
    Activations,    \* ids of the activation requests that can be created
    Receipts,       \* bKash TrxIDs
    NoReceipt,      \* the TrxID of a row that does not exist
    NoId,           \* the row of a call that is about none
    MaxCredits,     \* bound: the most credits one grant or send is for
    MaxPending,     \* MAX_PENDING_PER_TENANT
    MaxGrants       \* bound: the grants made outside a top-up

ASSUME ConstantsAssumption ==
    /\ IsFiniteSet(Workers)
    /\ NoReceipt \notin Receipts
    /\ NoId \notin Topups \cup Activations
    /\ Topups \cap Activations = {}
    /\ MaxCredits \in Nat \ {0}
    /\ MaxPending \in Nat \ {0}
    /\ MaxGrants \in Nat

VARIABLES
    balance,        \* the tenant's credits on the channel
    booked,         \* sum of the credits of its sms_transactions rows
    topup,          \* credit_topup_requests
    granted,        \* the credits the ledger rows of a top-up add up to
    activation,     \* activation_requests
    subscription,   \* status of the tenant's subscription
    posted,         \* the claims whose payment is a billing event
    grants,         \* grants made outside a top-up so far
    lost,           \* what calls that died moved and never booked
    call            \* the calls in flight

vars == <<balance, booked, topup, granted, activation, subscription, posted,
          grants, lost, call>>

Credits == 1..MaxCredits

TopupStatus == {"NONE", "PENDING", "APPROVED", "REJECTED"}
ActivationStatus == {"NONE", "PENDING", "VERIFIED", "REJECTED"}

Topup == [status : TopupStatus, receipt : Receipts \cup {NoReceipt},
          credits : 0..MaxCredits]
Activation == [status : ActivationStatus, receipt : Receipts \cup {NoReceipt}]

Ops == {"none", "buy", "activate", "approve", "reject", "verify", "refuse",
        "send", "grant"}
Stages == {"start", "checked", "claimed", "posted", "moved"}

Call == [op : Ops, stage : Stages, id : Topups \cup Activations \cup {NoId},
         receipt : Receipts \cup {NoReceipt}, delta : Int]

NoCall == [op |-> "none", stage |-> "start", id |-> NoId,
           receipt |-> NoReceipt, delta |-> 0]

Idle(w) == call[w].op = "none"
At(w, op, stage) == call[w].op = op /\ call[w].stage = stage

Starts(w, op, id, receipt) ==
    /\ Idle(w)
    /\ call' = [call EXCEPT ![w] = [op |-> op, stage |-> "start", id |-> id,
                                    receipt |-> receipt, delta |-> 0]]

Advances(w, stage) == call' = [call EXCEPT ![w].stage = stage]
Ends(w) == call' = [call EXCEPT ![w] = NoCall]

wallet == <<balance, booked, granted, grants, lost>>
claims == <<topup, activation, subscription, posted>>

(***************************************************************************)
(* Claims of payment.                                                      *)
(***************************************************************************)
Pending == {q \in Topups : topup[q].status = "PENDING"}

\* CreditTopupService.submitRequest: the count of what is waiting, ...
BeginTopup(w) ==
    /\ Cardinality(Pending) < MaxPending
    /\ \E x \in Receipts : Starts(w, "buy", NoId, x)
    /\ UNCHANGED <<wallet, claims>>

\* ... the look for an activation that claims the same receipt, ...
CheckActivations(w) ==
    /\ At(w, "buy", "start")
    /\ \A a \in Activations : activation[a].receipt # call[w].receipt
    /\ Advances(w, "checked")
    /\ UNCHANGED <<wallet, claims>>

\* Broken: there is no unique index.
CreateTopupAnyway(w) ==
    /\ At(w, "buy", "checked")
    /\ \E q \in Topups, n \in Credits :
        /\ topup[q].status = "NONE"
        /\ topup' = [topup EXCEPT ![q] = [status |-> "PENDING", credits |-> n,
                                          receipt |-> call[w].receipt]]
    /\ Ends(w)
    /\ UNCHANGED <<wallet, activation, subscription, posted>>

\* ... and the row, unless the unique index on the receipt refuses it.
CreateTopup(w) ==
    /\ At(w, "buy", "checked")
    /\ \A q \in Topups : topup[q].receipt # call[w].receipt
    /\ \E q \in Topups, n \in Credits :
        /\ topup[q].status = "NONE"
        /\ topup' = [topup EXCEPT ![q] = [status |-> "PENDING", credits |-> n,
                                          receipt |-> call[w].receipt]]
    /\ Ends(w)
    /\ UNCHANGED <<wallet, activation, subscription, posted>>

\* ActivationService.submitRequest, whose checks are of the subscription and of
\* the activations that are waiting.
BeginActivation(w) ==
    /\ subscription = "PAST_DUE"
    /\ \A a \in Activations : activation[a].status # "PENDING"
    /\ \E x \in Receipts : Starts(w, "activate", NoId, x)
    /\ UNCHANGED <<wallet, claims>>

CreateActivation(w) ==
    /\ At(w, "activate", "start")
    /\ \A a \in Activations : activation[a].receipt # call[w].receipt
    /\ \E a \in Activations :
        /\ activation[a].status = "NONE"
        /\ activation' = [activation EXCEPT ![a] =
                            [status |-> "PENDING", receipt |-> call[w].receipt]]
    /\ Ends(w)
    /\ UNCHANGED <<wallet, topup, subscription, posted>>

(***************************************************************************)
(* The admin's decisions.                                                  *)
(***************************************************************************)
\* findPendingOrThrow
BeginDecision(w, q) ==
    /\ topup[q].status = "PENDING"
    /\ \E op \in {"approve", "reject"} : Starts(w, op, q, NoReceipt)
    /\ UNCHANGED <<wallet, claims>>

\* Broken: the row is not claimed, as read is good enough.
ApproveUnclaimed(w) ==
    LET q == call[w].id
    IN  /\ At(w, "approve", "start")
        /\ topup' = [topup EXCEPT ![q].status = "APPROVED"]
        /\ \E n \in Credits :
            /\ balance' = balance + n
            /\ booked' = booked + n
            /\ granted' = [granted EXCEPT ![q] = @ + n]
        /\ posted' = posted \cup {q}
        /\ Ends(w)
        /\ UNCHANGED <<activation, subscription, grants, lost>>

\* One transaction: the claim of the row, the grant with its ledger row, and
\* the billing event unless the admin says that no money arrived.
ApproveTopup(w) ==
    LET q == call[w].id
    IN  /\ At(w, "approve", "start")
        /\ topup[q].status = "PENDING"
        /\ topup' = [topup EXCEPT ![q].status = "APPROVED"]
        /\ \E n \in Credits :
            /\ balance' = balance + n
            /\ booked' = booked + n
            /\ granted' = [granted EXCEPT ![q] = @ + n]
        /\ \E money \in BOOLEAN :
            posted' = IF money THEN posted \cup {q} ELSE posted
        /\ Ends(w)
        /\ UNCHANGED <<activation, subscription, grants, lost>>

\* Broken: the status is not matched again.
RejectUnclaimed(w) ==
    /\ At(w, "reject", "start")
    /\ topup' = [topup EXCEPT ![call[w].id].status = "REJECTED"]
    /\ Ends(w)
    /\ UNCHANGED <<wallet, activation, subscription, posted>>

RejectTopup(w) ==
    LET q == call[w].id
    IN  /\ At(w, "reject", "start")
        /\ topup[q].status = "PENDING"
        /\ topup' = [topup EXCEPT ![q].status = "REJECTED"]
        /\ Ends(w)
        /\ UNCHANGED <<wallet, activation, subscription, posted>>

BeginReview(w, a) ==
    /\ activation[a].status = "PENDING"
    /\ \E op \in {"verify", "refuse"} : Starts(w, op, a, NoReceipt)
    /\ UNCHANGED <<wallet, claims>>

\* ActivationService.approve: three statements, no transaction.
ClaimActivation(w) ==
    LET a == call[w].id
    IN  /\ At(w, "verify", "start")
        /\ activation[a].status = "PENDING"
        /\ activation' = [activation EXCEPT ![a].status = "VERIFIED"]
        /\ Advances(w, "claimed")
        /\ UNCHANGED <<wallet, topup, subscription, posted>>

PostPayment(w) ==
    /\ At(w, "verify", "claimed")
    /\ posted' = posted \cup {call[w].id}
    /\ Advances(w, "posted")
    /\ UNCHANGED <<wallet, topup, activation, subscription>>

\* Broken: the workspace is switched on before its payment is posted.
SwitchOnEarly(w) ==
    /\ At(w, "verify", "claimed")
    /\ subscription' = "ACTIVE"
    /\ Ends(w)
    /\ UNCHANGED <<wallet, topup, activation, posted>>

SwitchOn(w) ==
    /\ At(w, "verify", "posted")
    /\ subscription' = "ACTIVE"
    /\ Ends(w)
    /\ UNCHANGED <<wallet, topup, activation, posted>>

RefuseActivation(w) ==
    LET a == call[w].id
    IN  /\ At(w, "refuse", "start")
        /\ activation[a].status = "PENDING"
        /\ activation' = [activation EXCEPT ![a].status = "REJECTED"]
        /\ Ends(w)
        /\ UNCHANGED <<wallet, topup, subscription, posted>>

(***************************************************************************)
(* The balance: a metered send takes credits, an admin sale adds some.  The*)
(* ledger row is a statement of its own.  The balance_after that the row   *)
(* repeats is left out.                                                    *)
(***************************************************************************)
Moves(w, op, delta) ==
    /\ Idle(w)
    /\ balance' = balance + delta
    /\ call' = [call EXCEPT ![w] = [NoCall EXCEPT !.op = op, !.stage = "moved",
                                                  !.delta = delta]]

\* Broken: the decrement does not look at the balance.
ConsumeUnguarded(w) ==
    /\ \E n \in Credits : Moves(w, "send", -n)
    /\ UNCHANGED <<booked, granted, grants, lost, claims>>

Consume(w) ==
    /\ \E n \in Credits : n <= balance /\ Moves(w, "send", -n)
    /\ UNCHANGED <<booked, granted, grants, lost, claims>>

AdminGrant(w) ==
    /\ grants < MaxGrants
    /\ grants' = grants + 1
    /\ \E n \in Credits : Moves(w, "grant", n)
    /\ UNCHANGED <<booked, granted, lost, claims>>

\* Broken: a usage row is written without its sign.
BookUnsigned(w) ==
    /\ call[w].stage = "moved"
    /\ booked' = booked + (IF call[w].delta < 0 THEN -call[w].delta ELSE call[w].delta)
    /\ Ends(w)
    /\ UNCHANGED <<balance, granted, grants, lost, claims>>

Book(w) ==
    /\ call[w].stage = "moved"
    /\ booked' = booked + call[w].delta
    /\ Ends(w)
    /\ UNCHANGED <<balance, granted, grants, lost, claims>>

\* The call is refused by what it finds, throws, or its worker dies: what it
\* has committed stays.
GiveUp(w) ==
    /\ ~Idle(w)
    /\ lost' = lost + call[w].delta
    /\ Ends(w)
    /\ UNCHANGED <<balance, booked, granted, grants, claims>>

(***************************************************************************)
(* The specification.                                                      *)
(***************************************************************************)
Init ==
    /\ balance = 0
    /\ booked = 0
    /\ topup = [q \in Topups |-> [status |-> "NONE", receipt |-> NoReceipt,
                                  credits |-> 0]]
    /\ granted = [q \in Topups |-> 0]
    /\ activation = [a \in Activations |-> [status |-> "NONE",
                                            receipt |-> NoReceipt]]
    /\ subscription = "PAST_DUE"
    /\ posted = {}
    /\ grants = 0
    /\ lost = 0
    /\ call = [w \in Workers |-> NoCall]

Submit(w) ==
    \/ BeginTopup(w) \/ CheckActivations(w) \/ CreateTopup(w)
    \/ BeginActivation(w) \/ CreateActivation(w)

Decide(w) ==
    \/ \E q \in Topups : BeginDecision(w, q)
    \/ ApproveTopup(w) \/ RejectTopup(w)
    \/ \E a \in Activations : BeginReview(w, a)
    \/ ClaimActivation(w) \/ PostPayment(w) \/ SwitchOn(w) \/ RefuseActivation(w)

Meter(w) == Consume(w) \/ AdminGrant(w) \/ Book(w)

Next == \E w \in Workers : Submit(w) \/ Decide(w) \/ Meter(w) \/ GiveUp(w)

Spec == Init /\ [][Next]_vars
=============================================================================
