--------------------------- MODULE PaymentProofs ---------------------------
(***************************************************************************)
(* What is proved of manual payments for any number of workers, top-ups,   *)
(* activations and receipts.                                               *)
(***************************************************************************)
EXTENDS PaymentProperties, SumLemmas

\* The credits a grant or send is for.
LEMMA CreditsArePositive == Credits \subseteq Nat \ {0} /\ 0 \notin Credits
BY ConstantsAssumption DEF Credits

LEMMA NoCallIsCall == NoCall \in Call
BY DEF NoCall, Call, Ops, Stages

(***************************************************************************)
(* Types.                                                                  *)
(***************************************************************************)
LEMMA InitTypeOK == Init => TypeOK
<1> SUFFICES ASSUME Init PROVE TypeOK
  OBVIOUS
<1>1. topup \in [Topups -> Topup]
  BY ConstantsAssumption DEF Init, Topup, TopupStatus
<1>2. activation \in [Activations -> Activation]
  BY DEF Init, Activation, ActivationStatus
<1>3. call \in [Workers -> Call] /\ \A w \in Workers : call[w].op = "none"
  BY NoCallIsCall DEF Init, NoCall
<1>4. grants \in 0..MaxGrants
  BY ConstantsAssumption DEF Init
<1> QED BY <1>1, <1>2, <1>3, <1>4 DEF Init, TypeOK

\* A call that is started, moved on or ended is a call about the right row.
CallsOK ==
    /\ call \in [Workers -> Call]
    /\ \A w \in Workers :
         /\ call[w].op \in {"approve", "reject"} => call[w].id \in Topups
         /\ call[w].op \in {"verify", "refuse"} => call[w].id \in Activations

LEMMA StartsType ==
    ASSUME TypeOK, NEW w \in Workers, NEW op \in Ops,
           NEW id \in Topups \cup Activations \cup {NoId},
           NEW x \in Receipts \cup {NoReceipt}, Starts(w, op, id, x),
           op \in {"approve", "reject"} => id \in Topups,
           op \in {"verify", "refuse"} => id \in Activations
    PROVE  CallsOK'
BY DEF CallsOK, TypeOK, Starts, Call, Stages

LEMMA AdvancesType ==
    ASSUME TypeOK, NEW w \in Workers, NEW stage \in Stages, Advances(w, stage)
    PROVE  CallsOK'
BY DEF CallsOK, TypeOK, Advances, Call

LEMMA EndsType ==
    ASSUME TypeOK, NEW w \in Workers, Ends(w)
    PROVE  CallsOK'
BY NoCallIsCall DEF CallsOK, TypeOK, Ends, NoCall

LEMMA MovesType ==
    ASSUME TypeOK, NEW w \in Workers, NEW op \in Ops, NEW delta \in Int,
           op \notin {"approve", "reject", "verify", "refuse"},
           Moves(w, op, delta)
    PROVE  CallsOK'
BY DEF CallsOK, TypeOK, Moves, NoCall, Call, Stages

LEMMA StepTypeOK == TypeOK /\ [Next]_vars => TypeOK'
<1> SUFFICES ASSUME TypeOK, [Next]_vars PROVE TypeOK'
  OBVIOUS
<1> USE DEF wallet, claims, CallsOK
<1>1. ASSUME NEW w \in Workers, Submit(w) PROVE TypeOK'
  <2>1. CASE BeginTopup(w)
    BY <2>1, StartsType DEF BeginTopup, TypeOK, Ops
  <2>2. CASE CheckActivations(w)
    BY <2>2, AdvancesType DEF CheckActivations, TypeOK, Stages
  <2>3. CASE CreateTopup(w)
    <3>1. CallsOK'
      BY <2>3, EndsType DEF CreateTopup
    <3>2. call[w].receipt \in Receipts \cup {NoReceipt}
      BY DEF TypeOK, Call
    <3>3. topup' \in [Topups -> Topup]
      BY <2>3, <3>2 DEF CreateTopup, TypeOK, Topup, TopupStatus, Credits
    <3> QED BY <2>3, <3>1, <3>3 DEF CreateTopup, TypeOK
  <2>4. CASE BeginActivation(w)
    BY <2>4, StartsType DEF BeginActivation, TypeOK, Ops
  <2>5. CASE CreateActivation(w)
    <3>1. CallsOK'
      BY <2>5, EndsType DEF CreateActivation
    <3>2. call[w].receipt \in Receipts \cup {NoReceipt}
      BY DEF TypeOK, Call
    <3>3. activation' \in [Activations -> Activation]
      BY <2>5, <3>2 DEF CreateActivation, TypeOK, Activation, ActivationStatus
    <3> QED BY <2>5, <3>1, <3>3 DEF CreateActivation, TypeOK
  <2> QED BY <1>1, <2>1, <2>2, <2>3, <2>4, <2>5 DEF Submit
<1>2. ASSUME NEW w \in Workers, Decide(w) PROVE TypeOK'
  <2>1. ASSUME NEW q \in Topups, BeginDecision(w, q) PROVE TypeOK'
    BY <2>1, StartsType DEF BeginDecision, TypeOK, Ops
  <2>2. CASE ApproveTopup(w)
    <3> DEFINE q == call[w].id
    <3>1. q \in Topups
      BY <2>2 DEF ApproveTopup, At, TypeOK
    <3>2. topup' \in [Topups -> Topup]
      BY <2>2, <3>1 DEF ApproveTopup, TypeOK, Topup, TopupStatus
    <3>3. PICK n \in Credits : /\ balance' = balance + n
                              /\ booked' = booked + n
                              /\ granted' = [granted EXCEPT ![q] = @ + n]
      BY <2>2 DEF ApproveTopup
    <3>4. balance' \in Nat /\ booked' \in Int /\ granted' \in [Topups -> Nat]
      BY <3>1, <3>3, CreditsArePositive DEF TypeOK
    <3>5. posted' \subseteq Topups \cup Activations
      BY <2>2, <3>1 DEF ApproveTopup, TypeOK
    <3>6. CallsOK'
      BY <2>2, EndsType DEF ApproveTopup
    <3> QED BY <2>2, <3>2, <3>4, <3>5, <3>6 DEF ApproveTopup, TypeOK
  <2>3. CASE RejectTopup(w)
    BY <2>3, EndsType DEF RejectTopup, TypeOK, Topup, TopupStatus
  <2>4. ASSUME NEW a \in Activations, BeginReview(w, a) PROVE TypeOK'
    BY <2>4, StartsType DEF BeginReview, TypeOK, Ops
  <2>5. CASE ClaimActivation(w)
    <3>1. CallsOK'
      BY <2>5, AdvancesType DEF ClaimActivation, Stages
    <3>2. activation' \in [Activations -> Activation]
      BY <2>5 DEF ClaimActivation, TypeOK, Activation, ActivationStatus
    <3> QED BY <2>5, <3>1, <3>2 DEF ClaimActivation, TypeOK
  <2>6. CASE PostPayment(w)
    <3>1. CallsOK'
      BY <2>6, AdvancesType DEF PostPayment, Stages
    <3>2. call[w].id \in Activations
      BY <2>6 DEF PostPayment, At, TypeOK
    <3> QED BY <2>6, <3>1, <3>2 DEF PostPayment, TypeOK
  <2>7. CASE SwitchOn(w)
    BY <2>7, EndsType DEF SwitchOn, TypeOK
  <2>8. CASE RefuseActivation(w)
    BY <2>8, EndsType DEF RefuseActivation, TypeOK, Activation, ActivationStatus
  <2> QED BY <1>2, <2>1, <2>2, <2>3, <2>4, <2>5, <2>6, <2>7, <2>8 DEF Decide
<1>3. ASSUME NEW w \in Workers, Meter(w) PROVE TypeOK'
  <2>1. CASE Consume(w)
    <3>1. PICK n \in Credits : n <= balance /\ Moves(w, "send", -n)
      BY <2>1 DEF Consume
    <3>2. balance' \in Nat
      BY <3>1, CreditsArePositive DEF Moves, TypeOK
    <3>3. CallsOK'
      BY <3>1, MovesType, CreditsArePositive DEF Ops
    <3> QED BY <2>1, <3>2, <3>3 DEF Consume, TypeOK
  <2>2. CASE AdminGrant(w)
    <3>1. PICK n \in Credits : Moves(w, "grant", n)
      BY <2>2 DEF AdminGrant
    <3>2. balance' \in Nat
      BY <3>1, CreditsArePositive DEF Moves, TypeOK
    <3>3. CallsOK'
      BY <3>1, MovesType, CreditsArePositive DEF Ops
    <3>4. grants' \in 0..MaxGrants
      BY <2>2, ConstantsAssumption DEF AdminGrant, TypeOK
    <3> QED BY <2>2, <3>2, <3>3, <3>4 DEF AdminGrant, TypeOK
  <2>3. CASE Book(w)
    BY <2>3, EndsType DEF Book, TypeOK, Call
  <2> QED BY <1>3, <2>1, <2>2, <2>3 DEF Meter
<1>4. ASSUME NEW w \in Workers, GiveUp(w) PROVE TypeOK'
  BY <1>4, EndsType DEF GiveUp, TypeOK, Call
<1>5. CASE UNCHANGED vars
  BY <1>5 DEF vars, TypeOK
<1> QED BY <1>1, <1>2, <1>3, <1>4, <1>5 DEF Next

\* Types hold for any number of calls, and with them that no interleaving of
\* sends takes the balance below zero (SmsCreditService.consume).
THEOREM TypesHold == Spec => []TypeOK
BY InitTypeOK, StepTypeOK, PTL DEF Spec

(***************************************************************************)
(* Frames: the steps that can touch a top-up or an activation.             *)
(***************************************************************************)
TopupsLeftAlone ==
    /\ UNCHANGED <<topup, granted>>
    /\ \A q \in Topups : q \in posted' => q \in posted

LEMMA TopupFrame ==
    ASSUME TypeOK, [Next]_vars
    PROVE  \/ TopupsLeftAlone
           \/ \E w \in Workers : CreateTopup(w) \/ ApproveTopup(w) \/ RejectTopup(w)
<1> USE DEF wallet, claims
<1>1. ASSUME NEW w \in Workers, Submit(w), ~CreateTopup(w) PROVE TopupsLeftAlone
  BY <1>1 DEF Submit, BeginTopup, CheckActivations, BeginActivation,
              CreateActivation, TopupsLeftAlone
<1>2. ASSUME NEW w \in Workers, Decide(w), ~ApproveTopup(w), ~RejectTopup(w)
      PROVE  TopupsLeftAlone
  <2>1. CASE PostPayment(w)
    <3>1. call[w].id \in Activations
      BY <2>1 DEF PostPayment, At, TypeOK
    <3>2. call[w].id \notin Topups
      BY <3>1, ConstantsAssumption
    <3> QED BY <2>1, <3>2 DEF PostPayment, TopupsLeftAlone
  <2>2. CASE ~PostPayment(w)
    BY <1>2, <2>2 DEF Decide, BeginDecision, BeginReview, ClaimActivation,
                      SwitchOn, RefuseActivation, TopupsLeftAlone
  <2> QED BY <2>1, <2>2
<1>3. ASSUME NEW w \in Workers, Meter(w) \/ GiveUp(w) PROVE TopupsLeftAlone
  BY <1>3 DEF Meter, Consume, AdminGrant, Book, GiveUp, TopupsLeftAlone
<1>4. CASE UNCHANGED vars
  BY <1>4 DEF vars, TopupsLeftAlone
<1> QED BY <1>1, <1>2, <1>3, <1>4 DEF Next

ActivationsLeftAlone == UNCHANGED <<activation, subscription>> /\ posted \subseteq posted'

LEMMA ActivationFrame ==
    ASSUME [Next]_vars
    PROVE  \/ ActivationsLeftAlone
           \/ \E w \in Workers : \/ CreateActivation(w) \/ ClaimActivation(w)
                                \/ SwitchOn(w) \/ RefuseActivation(w)
<1> USE DEF wallet, claims
<1>1. ASSUME NEW w \in Workers, Submit(w), ~CreateActivation(w)
      PROVE  ActivationsLeftAlone
  BY <1>1 DEF Submit, BeginTopup, CheckActivations, CreateTopup, BeginActivation,
              ActivationsLeftAlone
<1>2. ASSUME NEW w \in Workers, Decide(w), ~ClaimActivation(w), ~SwitchOn(w),
             ~RefuseActivation(w)
      PROVE  ActivationsLeftAlone
  BY <1>2 DEF Decide, BeginDecision, ApproveTopup, RejectTopup, BeginReview,
              PostPayment, ActivationsLeftAlone
<1>3. ASSUME NEW w \in Workers, Meter(w) \/ GiveUp(w) PROVE ActivationsLeftAlone
  BY <1>3 DEF Meter, Consume, AdminGrant, Book, GiveUp, ActivationsLeftAlone
<1>4. CASE UNCHANGED vars
  BY <1>4 DEF vars, ActivationsLeftAlone
<1> QED BY <1>1, <1>2, <1>3, <1>4 DEF Next

(***************************************************************************)
(* A top-up is granted once, and only by its approval.                     *)
(***************************************************************************)
LEMMA StepGranted == TypeOK /\ GrantedIffApproved /\ [Next]_vars => GrantedIffApproved'
<1> SUFFICES ASSUME TypeOK, GrantedIffApproved, [Next]_vars
             PROVE  GrantedIffApproved'
  OBVIOUS
<1>1. CASE TopupsLeftAlone
  BY <1>1 DEF TopupsLeftAlone, GrantedIffApproved
<1>2. ASSUME NEW w \in Workers, CreateTopup(w) PROVE GrantedIffApproved'
  <2>1. PICK q \in Topups, n \in Credits :
          /\ topup[q].status = "NONE"
          /\ topup' = [topup EXCEPT ![q] = [status |-> "PENDING", credits |-> n,
                                            receipt |-> call[w].receipt]]
    BY <1>2 DEF CreateTopup
  <2>2. UNCHANGED <<granted, posted>>
    BY <1>2 DEF CreateTopup, wallet
  <2> QED BY <2>1, <2>2 DEF GrantedIffApproved, TypeOK
<1>3. ASSUME NEW w \in Workers, ApproveTopup(w) PROVE GrantedIffApproved'
  <2> DEFINE q == call[w].id
  <2>1. q \in Topups /\ topup[q].status = "PENDING"
    BY <1>3 DEF ApproveTopup, At, TypeOK
  <2>2. topup' = [topup EXCEPT ![q].status = "APPROVED"]
    BY <1>3 DEF ApproveTopup
  <2>3. PICK n \in Credits : granted' = [granted EXCEPT ![q] = @ + n]
    BY <1>3 DEF ApproveTopup
  <2>4. granted[q] = 0
    BY <2>1 DEF GrantedIffApproved
  <2>5. granted'[q] \in Credits
    BY <2>1, <2>3, <2>4, CreditsArePositive DEF TypeOK
  <2>6. posted' \subseteq posted \cup {q}
    BY <1>3 DEF ApproveTopup
  <2>7. ASSUME NEW p \in Topups, p # q
        PROVE  topup'[p] = topup[p] /\ granted'[p] = granted[p]
                 /\ (p \in posted' => p \in posted)
    BY <2>2, <2>3, <2>6, <2>7 DEF TypeOK
  <2>8. topup'[q].status = "APPROVED"
    BY <2>1, <2>2 DEF TypeOK, Topup
  <2> HIDE DEF q
  <2> QED BY <2>1, <2>5, <2>7, <2>8 DEF GrantedIffApproved
<1>4. ASSUME NEW w \in Workers, RejectTopup(w) PROVE GrantedIffApproved'
  <2>1. call[w].id \in Topups /\ topup[call[w].id].status = "PENDING"
    BY <1>4 DEF RejectTopup, At, TypeOK
  <2>2. topup' = [topup EXCEPT ![call[w].id].status = "REJECTED"]
    BY <1>4 DEF RejectTopup
  <2>3. UNCHANGED <<granted, posted>>
    BY <1>4 DEF RejectTopup, wallet
  <2> QED BY <2>1, <2>2, <2>3 DEF GrantedIffApproved, TypeOK, Topup
<1> QED BY <1>1, <1>2, <1>3, <1>4, TopupFrame

\* For any number of admins and calls: "two admins approving at once cannot
\* both grant" (CreditTopupService), and nothing else grants or records a sale.
THEOREM GrantsOnce == Spec => []GrantedIffApproved
<1>1. Init => GrantedIffApproved
  BY DEF Init, GrantedIffApproved
<1> QED BY <1>1, TypesHold, StepGranted, PTL DEF Spec

(***************************************************************************)
(* A receipt backs one claim of each kind.                                 *)
(***************************************************************************)
LEMMA StepReceipts == TypeOK /\ ReceiptBuysOnce /\ [Next]_vars => ReceiptBuysOnce'
<1> SUFFICES ASSUME TypeOK, ReceiptBuysOnce, [Next]_vars PROVE ReceiptBuysOnce'
  OBVIOUS
<1> DEFINE TopupsOnce ==
             \A p, q \in Topups :
               topup[p].receipt = topup[q].receipt /\ topup[p].status # "NONE" => p = q
           ActivationsOnce ==
             \A a, b \in Activations :
               activation[a].receipt = activation[b].receipt
                 /\ activation[a].status # "NONE" => a = b
<1>1. TopupsOnce'
  <2>1. CASE TopupsLeftAlone
    BY <2>1 DEF TopupsLeftAlone, ReceiptBuysOnce
  <2>2. ASSUME NEW w \in Workers, CreateTopup(w) PROVE TopupsOnce'
    <3>1. PICK q \in Topups, n \in Credits :
            topup' = [topup EXCEPT ![q] = [status |-> "PENDING", credits |-> n,
                                           receipt |-> call[w].receipt]]
      BY <2>2 DEF CreateTopup
    <3>2. \A p \in Topups : topup[p].receipt # call[w].receipt
      BY <2>2 DEF CreateTopup
    <3> QED BY <3>1, <3>2 DEF ReceiptBuysOnce, TypeOK
  <2>3. ASSUME NEW w \in Workers, ApproveTopup(w) \/ RejectTopup(w) PROVE TopupsOnce'
    <3>1. call[w].id \in Topups /\ topup[call[w].id].status = "PENDING"
      BY <2>3 DEF ApproveTopup, RejectTopup, At, TypeOK
    <3>2. PICK s \in TopupStatus : topup' = [topup EXCEPT ![call[w].id].status = s]
      BY <2>3 DEF ApproveTopup, RejectTopup, TopupStatus
    <3> QED BY <3>1, <3>2 DEF ReceiptBuysOnce, TypeOK, Topup
  <2> QED BY <2>1, <2>2, <2>3, TopupFrame
<1>2. ActivationsOnce'
  <2>1. CASE ActivationsLeftAlone
    BY <2>1 DEF ActivationsLeftAlone, ReceiptBuysOnce
  <2>2. ASSUME NEW w \in Workers, CreateActivation(w) PROVE ActivationsOnce'
    <3>1. PICK a \in Activations :
            activation' = [activation EXCEPT ![a] =
                             [status |-> "PENDING", receipt |-> call[w].receipt]]
      BY <2>2 DEF CreateActivation
    <3>2. \A b \in Activations : activation[b].receipt # call[w].receipt
      BY <2>2 DEF CreateActivation
    <3> QED BY <3>1, <3>2 DEF ReceiptBuysOnce, TypeOK
  <2>3. ASSUME NEW w \in Workers, ClaimActivation(w) \/ RefuseActivation(w)
        PROVE  ActivationsOnce'
    <3>1. call[w].id \in Activations /\ activation[call[w].id].status = "PENDING"
      BY <2>3 DEF ClaimActivation, RefuseActivation, At, TypeOK
    <3>2. PICK s \in ActivationStatus :
            activation' = [activation EXCEPT ![call[w].id].status = s]
      BY <2>3 DEF ClaimActivation, RefuseActivation, ActivationStatus
    <3> QED BY <3>1, <3>2 DEF ReceiptBuysOnce, TypeOK, Activation
  <2>4. ASSUME NEW w \in Workers, SwitchOn(w) PROVE ActivationsOnce'
    BY <2>4 DEF SwitchOn, ReceiptBuysOnce
  <2> QED BY <2>1, <2>2, <2>3, <2>4, ActivationFrame
<1> QED BY <1>1, <1>2 DEF ReceiptBuysOnce

\* "One receipt buys one package", and activates one workspace, however many
\* submissions of it race (the unique indexes of both tables).
THEOREM ReceiptsBackOneClaim == Spec => []ReceiptBuysOnce
<1>1. Init => ReceiptBuysOnce
  BY DEF Init, ReceiptBuysOnce
<1> QED BY <1>1, TypesHold, StepReceipts, PTL DEF Spec

(***************************************************************************)
(* A workspace is switched on by a review that found the payment.  What is *)
(* inductive is that a review that has got so far keeps its activation     *)
(* VERIFIED, and from its second statement on has the payment posted.      *)
(***************************************************************************)
ReviewsInOrder ==
    \A w \in Workers : call[w].op = "verify" =>
        LET a == call[w].id
        IN  /\ call[w].stage \in {"claimed", "posted"} => activation[a].status = "VERIFIED"
            /\ call[w].stage = "posted" => a \in posted

\* A VERIFIED activation stays as it is: every write of one matches PENDING, and
\* a new one takes a row that is not there.
LEMMA VerifiedStays ==
    ASSUME TypeOK, [Next]_vars,
           NEW a \in Activations, activation[a].status = "VERIFIED"
    PROVE  activation'[a] = activation[a]
<1>1. ASSUME NEW w \in Workers, CreateActivation(w) PROVE activation'[a] = activation[a]
  BY <1>1 DEF CreateActivation, TypeOK
<1>2. ASSUME NEW w \in Workers, ClaimActivation(w) \/ RefuseActivation(w)
      PROVE  activation'[a] = activation[a]
  BY <1>2 DEF ClaimActivation, RefuseActivation, TypeOK
<1> QED BY <1>1, <1>2, ActivationFrame DEF ActivationsLeftAlone, SwitchOn

LEMMA PostedGrows == ASSUME [Next]_vars PROVE posted \subseteq posted'
BY ActivationFrame DEF ActivationsLeftAlone, CreateActivation, ClaimActivation,
                       SwitchOn, RefuseActivation

\* How the verify calls move: a step of another kind leaves them where they are,
\* ends them, or starts them.
LEMMA CallFrame ==
    ASSUME TypeOK, [Next]_vars, NEW w \in Workers, call'[w].op = "verify"
    PROVE  \/ call'[w] = call[w]
           \/ call'[w].stage = "start"
           \/ ClaimActivation(w) \/ PostPayment(w)
<1> USE DEF NoCall, TypeOK
<1>1. ASSUME NEW v \in Workers, Submit(v), call'[w] # call[w] PROVE FALSE
  BY <1>1 DEF Submit, BeginTopup, CheckActivations, CreateTopup, BeginActivation,
              CreateActivation, Starts, Advances, Ends, At, Call
<1>2. ASSUME NEW v \in Workers, Decide(v), call'[w] # call[w]
      PROVE  call'[w].stage = "start" \/ ClaimActivation(w) \/ PostPayment(w)
  <2>1. CASE ClaimActivation(v) \/ PostPayment(v)
    BY <1>2, <2>1 DEF ClaimActivation, PostPayment, Advances
  <2>2. CASE ~(ClaimActivation(v) \/ PostPayment(v))
    BY <1>2, <2>2 DEF Decide, BeginDecision, ApproveTopup, RejectTopup,
                      BeginReview, SwitchOn, RefuseActivation, Starts, Ends
  <2> QED BY <2>1, <2>2
<1>3. ASSUME NEW v \in Workers, Meter(v) \/ GiveUp(v), call'[w] # call[w] PROVE FALSE
  <2>1. CASE Consume(v) \/ AdminGrant(v)
    <3>1. PICK op \in {"send", "grant"}, delta \in Int : Moves(v, op, delta)
      BY <2>1, CreditsArePositive DEF Consume, AdminGrant
    <3> QED BY <1>3, <3>1 DEF Moves
  <2>2. CASE Book(v) \/ GiveUp(v)
    BY <1>3, <2>2 DEF Book, GiveUp, Ends
  <2> QED BY <1>3, <2>1, <2>2 DEF Meter
<1>4. CASE UNCHANGED vars
  BY <1>4 DEF vars
<1> QED BY <1>1, <1>2, <1>3, <1>4 DEF Next

LEMMA StepReviews == TypeOK /\ ReviewsInOrder /\ [Next]_vars => ReviewsInOrder'
<1> SUFFICES ASSUME TypeOK, ReviewsInOrder, [Next]_vars,
                    NEW w \in Workers, call'[w].op = "verify"
             PROVE  LET a == call'[w].id
                    IN  /\ call'[w].stage \in {"claimed", "posted"} =>
                              activation'[a].status = "VERIFIED"
                        /\ call'[w].stage = "posted" => a \in posted'
  BY DEF ReviewsInOrder
<1>1. CASE call'[w] = call[w]
  <2>1. call[w].id \in Activations
    BY <1>1 DEF TypeOK
  <2> QED BY <1>1, <2>1, VerifiedStays, PostedGrows DEF ReviewsInOrder
<1>2. CASE call'[w].stage = "start"
  BY <1>2
<1>3. CASE ClaimActivation(w)
  <2>1. call[w].id \in Activations
    BY <1>3 DEF ClaimActivation, At, TypeOK
  <2>2. call'[w].id = call[w].id /\ call'[w].stage = "claimed"
    BY <1>3 DEF ClaimActivation, Advances, TypeOK, Call
  <2> QED BY <1>3, <2>1, <2>2 DEF ClaimActivation, TypeOK, Activation
<1>4. CASE PostPayment(w)
  <2>1. call[w].id \in Activations /\ call[w].op = "verify" /\ call[w].stage = "claimed"
    BY <1>4 DEF PostPayment, At, TypeOK
  <2>2. call'[w].id = call[w].id /\ call[w].id \in posted'
    BY <1>4 DEF PostPayment, Advances, TypeOK, Call
  <2> QED BY <2>1, <2>2, VerifiedStays DEF ReviewsInOrder
<1> QED BY <1>1, <1>2, <1>3, <1>4, CallFrame

LEMMA StepSwitchedOn ==
    TypeOK /\ ReviewsInOrder /\ SwitchedOnByReview /\ [Next]_vars => SwitchedOnByReview'
<1> SUFFICES ASSUME TypeOK, ReviewsInOrder, SwitchedOnByReview, [Next]_vars,
                    subscription' = "ACTIVE"
             PROVE  \E a \in Activations : activation'[a].status = "VERIFIED" /\ a \in posted'
  BY DEF SwitchedOnByReview
<1>1. CASE subscription = "ACTIVE"
  BY <1>1, VerifiedStays, PostedGrows DEF SwitchedOnByReview
<1>2. CASE subscription # "ACTIVE"
  <2>1. PICK w \in Workers : SwitchOn(w)
    BY <1>2, ActivationFrame DEF ActivationsLeftAlone, CreateActivation,
                                 ClaimActivation, RefuseActivation
  <2>2. call[w].id \in Activations /\ call[w].op = "verify" /\ call[w].stage = "posted"
    BY <2>1 DEF SwitchOn, At, TypeOK
  <2> QED BY <2>2, VerifiedStays, PostedGrows DEF ReviewsInOrder
<1> QED BY <1>1, <1>2

\* However calls interleave and wherever they die, no workspace is ACTIVE that
\* was not verified with its payment in the books (ActivationService.approve).
THEOREM SwitchedOnOnlyByReview == Spec => []SwitchedOnByReview
<1>1. Init => ReviewsInOrder /\ SwitchedOnByReview
  BY DEF Init, ReviewsInOrder, SwitchedOnByReview, NoCall
<1> QED BY <1>1, TypesHold, StepReviews, StepSwitchedOn, PTL DEF Spec

(***************************************************************************)
(* Decisions are final.                                                    *)
(***************************************************************************)
LEMMA TopupsAreFinal ==
    ASSUME TypeOK, [Next]_vars, NEW q \in Topups
    PROVE  /\ topup[q].status \in {"APPROVED", "REJECTED"} =>
                   topup'[q] = topup[q] /\ granted'[q] = granted[q]
           /\ topup[q].status # "NONE" =>
                   /\ topup'[q].receipt = topup[q].receipt
                   /\ topup'[q].credits = topup[q].credits
<1>1. CASE TopupsLeftAlone
  BY <1>1 DEF TopupsLeftAlone
<1>2. ASSUME NEW w \in Workers, CreateTopup(w)
      PROVE  granted' = granted /\ (topup[q].status # "NONE" => topup'[q] = topup[q])
  BY <1>2 DEF CreateTopup, wallet, TypeOK
<1>3. ASSUME NEW w \in Workers, ApproveTopup(w) \/ RejectTopup(w)
      PROVE  \/ q = call[w].id /\ topup[q].status = "PENDING"
                /\ topup'[q].receipt = topup[q].receipt
                /\ topup'[q].credits = topup[q].credits
             \/ topup'[q] = topup[q] /\ granted'[q] = granted[q]
  <2>1. topup[call[w].id].status = "PENDING"
    BY <1>3 DEF ApproveTopup, RejectTopup
  <2>2. PICK s \in TopupStatus : topup' = [topup EXCEPT ![call[w].id].status = s]
    BY <1>3 DEF ApproveTopup, RejectTopup, TopupStatus
  <2>3. CASE q = call[w].id
    BY <2>1, <2>2, <2>3 DEF TypeOK, Topup
  <2>4. CASE q # call[w].id
    <3>1. topup'[q] = topup[q]
      BY <2>2, <2>4 DEF TypeOK
    <3>2. granted'[q] = granted[q]
      BY <1>3, <2>4 DEF ApproveTopup, RejectTopup, wallet, TypeOK
    <3> QED BY <3>1, <3>2
  <2> QED BY <2>3, <2>4
<1> QED BY <1>1, <1>2, <1>3, TopupFrame

LEMMA ActivationsAreFinal ==
    ASSUME TypeOK, [Next]_vars, NEW a \in Activations
    PROVE  /\ activation[a].status \in {"VERIFIED", "REJECTED"} =>
                   activation'[a] = activation[a]
           /\ activation[a].status # "NONE" =>
                   activation'[a].receipt = activation[a].receipt
<1>1. CASE ActivationsLeftAlone
  BY <1>1 DEF ActivationsLeftAlone
<1>2. ASSUME NEW w \in Workers, CreateActivation(w)
      PROVE  activation[a].status # "NONE" => activation'[a] = activation[a]
  BY <1>2 DEF CreateActivation, TypeOK
<1>3. ASSUME NEW w \in Workers, ClaimActivation(w) \/ RefuseActivation(w)
      PROVE  \/ activation[a].status = "PENDING"
                /\ activation'[a].receipt = activation[a].receipt
             \/ activation'[a] = activation[a]
  <2>1. activation[call[w].id].status = "PENDING"
    BY <1>3 DEF ClaimActivation, RefuseActivation
  <2>2. PICK s \in ActivationStatus :
          activation' = [activation EXCEPT ![call[w].id].status = s]
    BY <1>3 DEF ClaimActivation, RefuseActivation, ActivationStatus
  <2> QED BY <2>1, <2>2 DEF TypeOK, Activation
<1>4. ASSUME NEW w \in Workers, SwitchOn(w) PROVE activation'[a] = activation[a]
  BY <1>4 DEF SwitchOn
<1> QED BY <1>1, <1>2, <1>3, <1>4, ActivationFrame

\* No reviewer overturns or repeats a decision, a claim stays as it was made,
\* and an active workspace stays active, whatever two admins do at once.
THEOREM DecisionsAreFinal == Spec => DecisionsFinal
<1> DEFINE Final ==
             /\ \A q \in Topups :
                  /\ topup[q].status \in {"APPROVED", "REJECTED"} =>
                          topup'[q] = topup[q] /\ granted'[q] = granted[q]
                  /\ topup[q].status # "NONE" =>
                          /\ topup'[q].receipt = topup[q].receipt
                          /\ topup'[q].credits = topup[q].credits
             /\ \A a \in Activations :
                  /\ activation[a].status \in {"VERIFIED", "REJECTED"} =>
                          activation'[a] = activation[a]
                  /\ activation[a].status # "NONE" =>
                          activation'[a].receipt = activation[a].receipt
             /\ subscription = "ACTIVE" => subscription' = "ACTIVE"
<1>1. TypeOK /\ [Next]_vars => [Final]_vars
  <2> SUFFICES ASSUME TypeOK, [Next]_vars PROVE Final
    OBVIOUS
  <2>1. subscription = "ACTIVE" => subscription' = "ACTIVE"
    BY ActivationFrame DEF ActivationsLeftAlone, CreateActivation, ClaimActivation,
                           SwitchOn, RefuseActivation
  <2> QED BY <2>1, TopupsAreFinal, ActivationsAreFinal
<1> QED BY <1>1, TypesHold, PTL DEF Spec, DecisionsFinal

(***************************************************************************)
(* The ledger and the balance.                                             *)
(***************************************************************************)
\* What a call has moved and not booked is only what it moved last.
Unbooked(w) == call[w].op = "none" \/ call[w].stage # "moved" => call[w].delta = 0

Delta == [w \in Workers |-> call[w].delta]

\* A step touches one call, and moves the balance, the ledger or what is lost
\* by what that call's delta changes.
Balanced(w) ==
    /\ \A u \in Workers \ {w} : call'[u] = call[u]
    /\ Unbooked(w)'
    /\ balance' - booked' - lost' - call'[w].delta = balance - booked - lost - call[w].delta

LEMMA EndsBalanced ==
    ASSUME TypeOK, NEW w \in Workers, Ends(w)
    PROVE  /\ \A u \in Workers \ {w} : call'[u] = call[u]
           /\ Unbooked(w)' /\ call'[w].delta = 0
BY DEF TypeOK, Ends, NoCall, Unbooked

LEMMA StartsBalanced ==
    ASSUME TypeOK, NEW w \in Workers, Unbooked(w), NEW op, NEW id, NEW x, Starts(w, op, id, x)
    PROVE  /\ \A u \in Workers \ {w} : call'[u] = call[u]
           /\ Unbooked(w)' /\ call'[w].delta = 0 /\ call[w].delta = 0
BY DEF TypeOK, Starts, Idle, Unbooked

LEMMA AdvancesBalanced ==
    ASSUME TypeOK, NEW w \in Workers, Unbooked(w), NEW stage, Advances(w, stage),
           call[w].op # "none", call[w].stage # "moved"
    PROVE  /\ \A u \in Workers \ {w} : call'[u] = call[u]
           /\ Unbooked(w)' /\ call'[w].delta = 0 /\ call[w].delta = 0
BY DEF TypeOK, Advances, Unbooked, Call

LEMMA MovesBalanced ==
    ASSUME TypeOK, NEW w \in Workers, Unbooked(w), NEW op \in {"send", "grant"}, NEW delta \in Int,
           Moves(w, op, delta)
    PROVE  /\ \A u \in Workers \ {w} : call'[u] = call[u]
           /\ Unbooked(w)' /\ call'[w].delta = delta /\ call[w].delta = 0
           /\ balance' = balance + delta
BY DEF TypeOK, Moves, Idle, Unbooked, NoCall, Call

LEMMA StepBalanced ==
    ASSUME TypeOK, \A u \in Workers : Unbooked(u), NEW w \in Workers,
           Submit(w) \/ Decide(w) \/ Meter(w) \/ GiveUp(w)
    PROVE  Balanced(w)
<1>0. /\ balance \in Int /\ booked \in Int /\ lost \in Int /\ call[w].delta \in Int
      /\ Unbooked(w)
  BY DEF TypeOK, Call
<1> USE DEF wallet, claims
<1>1. CASE Submit(w)
  <2>1. CASE BeginTopup(w) \/ BeginActivation(w)
    BY <1>0, <2>1, StartsBalanced DEF BeginTopup, BeginActivation, Balanced
  <2>2. CASE CheckActivations(w)
    BY <1>0, <2>2, AdvancesBalanced DEF CheckActivations, At, Balanced
  <2>3. CASE CreateTopup(w) \/ CreateActivation(w)
    <3>1. call[w].delta = 0
      BY <1>0, <2>3 DEF CreateTopup, CreateActivation, At, Unbooked
    <3> QED BY <1>0, <2>3, <3>1, EndsBalanced DEF CreateTopup, CreateActivation, Balanced
  <2> QED BY <1>1, <2>1, <2>2, <2>3 DEF Submit
<1>2. CASE Decide(w)
  <2>1. ASSUME NEW q, BeginDecision(w, q) \/ BeginReview(w, q) PROVE Balanced(w)
    BY <1>0, <2>1, StartsBalanced DEF BeginDecision, BeginReview, Balanced
  <2>2. CASE ApproveTopup(w)
    <3>1. call[w].delta = 0
      BY <1>0, <2>2 DEF ApproveTopup, At, Unbooked
    <3>2. PICK n \in Credits : balance' = balance + n /\ booked' = booked + n
      BY <2>2 DEF ApproveTopup
    <3>3. n \in Int
      BY CreditsArePositive
    <3>4. Ends(w) /\ lost' = lost
      BY <2>2 DEF ApproveTopup
    <3> QED BY <1>0, <3>1, <3>2, <3>3, <3>4, EndsBalanced DEF Balanced
  <2>3. CASE RejectTopup(w) \/ SwitchOn(w) \/ RefuseActivation(w)
    <3>1. call[w].delta = 0
      BY <1>0, <2>3 DEF RejectTopup, SwitchOn, RefuseActivation, At, Unbooked
    <3> QED BY <1>0, <2>3, <3>1, EndsBalanced
            DEF RejectTopup, SwitchOn, RefuseActivation, Balanced
  <2>4. CASE ClaimActivation(w) \/ PostPayment(w)
    BY <1>0, <2>4, AdvancesBalanced DEF ClaimActivation, PostPayment, At, Balanced
  <2> QED BY <1>2, <2>1, <2>2, <2>3, <2>4 DEF Decide
<1>3. CASE Meter(w)
  <2>1. CASE Consume(w)
    <3>1. PICK n \in Credits : Moves(w, "send", -n)
      BY <2>1 DEF Consume
    <3>2. -n \in Int
      BY CreditsArePositive
    <3> HIDE DEF Credits
    <3> DEFINE m == -n
    <3>3. m \in Int /\ Moves(w, "send", m)
      BY <3>1, <3>2
    <3> HIDE DEF m
    <3> QED BY <1>0, <2>1, <3>3, MovesBalanced DEF Consume, Balanced
  <2>2. CASE AdminGrant(w)
    <3>1. PICK n \in Credits : Moves(w, "grant", n)
      BY <2>2 DEF AdminGrant
    <3>2. n \in Int
      BY CreditsArePositive
    <3> QED BY <1>0, <2>2, <3>1, <3>2, MovesBalanced DEF AdminGrant, Balanced
  <2>3. CASE Book(w)
    BY <1>0, <2>3, EndsBalanced DEF Book, Balanced
  <2> QED BY <1>3, <2>1, <2>2, <2>3 DEF Meter
<1>4. CASE GiveUp(w)
  BY <1>0, <1>4, EndsBalanced DEF GiveUp, Balanced
<1> QED BY <1>1, <1>2, <1>3, <1>4

LEMMA StepWallet ==
    TypeOK /\ TypeOK' /\ (\A u \in Workers : Unbooked(u)) /\ WalletReconciles /\ [Next]_vars
        => (\A u \in Workers : Unbooked(u))' /\ WalletReconciles'
<1> SUFFICES ASSUME TypeOK, TypeOK', \A u \in Workers : Unbooked(u), WalletReconciles, [Next]_vars
             PROVE  (\A u \in Workers : Unbooked(u))' /\ WalletReconciles'
  OBVIOUS
<1>1. CASE UNCHANGED vars
  BY <1>1 DEF vars, Unbooked, WalletReconciles
<1>2. ASSUME NEW w \in Workers, Balanced(w)
      PROVE  (\A u \in Workers : Unbooked(u))' /\ WalletReconciles'
  <2>1. \A u \in Workers : Unbooked(u)'
    BY <1>2 DEF Balanced, Unbooked
  <2>2. /\ \A u \in Workers : Delta[u] \in Int /\ Delta'[u] \in Int
        /\ \A u \in Workers \ {w} : Delta'[u] = Delta[u]
        /\ Delta[w] = call[w].delta /\ Delta'[w] = call'[w].delta
    BY <1>2 DEF TypeOK, Call, Delta, Balanced
  <2>3. SumFunctionOnSet(Delta', Workers)
          = SumFunctionOnSet(Delta, Workers) + Delta'[w] - Delta[w]
    BY <2>2, SumChanges, ConstantsAssumption
  <2>4. /\ balance \in Int /\ booked \in Int /\ lost \in Int
        /\ balance' \in Int /\ booked' \in Int /\ lost' \in Int
    BY DEF TypeOK
  <2>5. SumFunctionOnSet(Delta, Workers) \in Int
    BY <2>2, SumIsInt, ConstantsAssumption
  <2>6. balance = booked + lost + SumFunctionOnSet(Delta, Workers)
    BY DEF WalletReconciles, SumFunction, Delta
  <2>7. balance' = booked' + lost' + SumFunctionOnSet(Delta', Workers)
    BY <1>2, <2>2, <2>3, <2>4, <2>5, <2>6 DEF Balanced
  <2> QED BY <2>1, <2>7 DEF WalletReconciles, SumFunction, Delta
<1> QED BY <1>1, <1>2, StepBalanced DEF Next

\* The balance is what the ledger rows add up to, but for what calls in flight
\* have yet to book and calls that died never will.
THEOREM WalletIsExplained == Spec => []WalletReconciles
<1>1. Init => (\A u \in Workers : Unbooked(u)) /\ WalletReconciles
  <2> SUFFICES ASSUME Init PROVE (\A u \in Workers : Unbooked(u)) /\ WalletReconciles
    OBVIOUS
  <2>1. \A u \in Workers : Delta[u] = 0 /\ Unbooked(u)
    BY DEF Init, NoCall, Delta, Unbooked
  <2>2. SumFunctionOnSet(Delta, Workers) = 0
    BY <2>1, SumOfZeros, ConstantsAssumption
  <2> QED BY <2>1, <2>2 DEF Init, WalletReconciles, SumFunction, Delta
<1> QED BY <1>1, TypesHold, StepWallet, PTL DEF Spec
=============================================================================
