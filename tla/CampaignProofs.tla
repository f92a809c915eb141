--------------------------- MODULE CampaignProofs ---------------------------
(***************************************************************************)
(* What is proved of sending a campaign for any number of drain passes,    *)
(* callers and recipients, any batch size and any number of crashes.       *)
(***************************************************************************)
EXTENDS CampaignProperties, FiniteSetTheorems, WellFoundedInduction, TLAPS

(***************************************************************************)
(* Types, and the helpers steps are built from.                            *)
(***************************************************************************)
Row == [status : RowStatuses, owner : Passes \cup {NoPass}, age : 0..(Stale + 1)]
Pass == [at : PassSteps, queued : SUBSET Rows, todo : SUBSET Rows,
         beat : Nat, slow : Nat, counts : Counts]
Caller == [at : UserSteps, counts : Counts]

LEMMA RowsAreNumbers == Rows \subseteq Nat /\ IsFiniteSet(Rows)
BY ConstantsAssumption, FS_Interval DEF Rows

LEMMA CountsNowType == CountsNow \in Counts
<1>1. \A S \in SUBSET Rows : Cardinality(S) \in Nat
  BY RowsAreNumbers, FS_Subset, FS_CardinalityType
<1>2. \A S : InStatus(S) \in SUBSET Rows
  BY DEF InStatus
<1> QED BY <1>1, <1>2 DEF CountsNow, Counts

LEMMA SmallestExists ==
    ASSUME NEW S \in SUBSET Nat, S # {}
    PROVE  \E r \in S : \A q \in S : r <= q
<1> DEFINE R == OpToRel(<, Nat)
<1>1. PICK r \in S : \A q \in S : <<q, r>> \notin R
  <2> HIDE DEF R
  <2>1. IsWellFoundedOn(R, Nat)
    BY NatLessThanWellFounded DEF R
  <2> QED BY <2>1, WFMin
<1>2. \A q \in S : ~(q < r)
  BY <1>1 DEF OpToRel
<1> QED BY <1>2

\* The recipient a pass turns to is one it has yet to send to.
LEMMA CurrentIsNext ==
    ASSUME TypeOK, NEW p \in Passes, pass[p].todo # {}
    PROVE  Current(p) \in pass[p].todo
<1>1. pass[p].todo \subseteq Nat
  BY RowsAreNumbers DEF TypeOK
<1>2. \E r \in pass[p].todo : \A q \in pass[p].todo : r <= q
  BY <1>1, SmallestExists
<1> QED BY <1>2 DEF Current

LEMMA ConstantTypes ==
    /\ NoRow \in Row /\ NewRow \in Row
    /\ OffPass \in Pass /\ IdleUser \in Caller /\ NoCounts \in Counts
    /\ \A p \in Passes : [status |-> "SENDING", owner |-> p, age |-> 0] \in Row
    /\ \A s \in RowStatuses : [status |-> s, owner |-> NoPass, age |-> 0] \in Row
BY ConstantsAssumption
   DEF NoRow, NewRow, OffPass, IdleUser, NoCounts, Row, Pass, Caller, Counts,
       RowStatuses, PassSteps, UserSteps

LEMMA SetRowsType ==
    ASSUME TypeOK, NEW S, NEW value \in Row, SetRows(S, value)
    PROVE  row' \in [Rows -> Row]
BY DEF TypeOK, SetRows, Row

LEMMA GotoType ==
    ASSUME TypeOK, NEW p \in Passes, NEW s \in PassSteps, Goto(p, s)
    PROVE  pass' \in [Passes -> Pass]
BY DEF TypeOK, Goto, Pass

\* A step that replaces the record of one pass.
LEMMA PassType ==
    ASSUME TypeOK, NEW p \in Passes, NEW v \in Pass, pass' = [pass EXCEPT ![p] = v]
    PROVE  pass' \in [Passes -> Pass]
BY DEF TypeOK, Pass

LEMMA StopType ==
    ASSUME TypeOK, NEW p \in Passes, Stop(p)
    PROVE  pass' \in [Passes -> Pass]
BY ConstantTypes DEF TypeOK, Stop, Pass

LEMMA CallerType ==
    ASSUME TypeOK, NEW u \in Callers, Finished(u) \/ \E s \in UserSteps : Then(u, s)
    PROVE  user' \in [Callers -> Caller]
BY ConstantTypes DEF TypeOK, Finished, Then, Caller

LEMMA InitTypes == Init => TypeOK
<1> SUFFICES ASSUME Init PROVE TypeOK
  OBVIOUS
<1>1. \A r \in Rows : row[r] \in Row
  BY ConstantTypes DEF Init
<1>2. row \in [Rows -> Row]
  BY <1>1 DEF Init
<1> QED BY <1>2, ConstantTypes, ConstantsAssumption
        DEF Init, TypeOK, Row, Pass, Caller, Statuses

LEMMA PassTypes ==
    ASSUME TypeOK, NEW p \in Passes,
           StartPass(p) \/ PassStep(p) \/ SentWriteThrows(p) \/ Die(p)
    PROVE  TypeOK'
<1> USE DEF PassSteps
<1> DEFINE Rest == UNCHANGED <<campaign, out, user, deaths>>
<1>0. /\ UNCHANGED campaign => campaign' \in [source : Sources, status : Statuses, counts : Counts]
      /\ UNCHANGED row => row' \in [Rows -> Row]
      /\ UNCHANGED out => out' \in [Rows -> Nat]
      /\ UNCHANGED user => user' \in [Callers -> Caller]
      /\ UNCHANGED deaths => deaths' \in 0..MaxDeaths
  BY DEF TypeOK, Row, Caller
<1>a. ASSUME row' \in [Rows -> Row], pass' \in [Passes -> Pass], Rest PROVE TypeOK'
  BY <1>0, <1>a DEF TypeOK, Row, Pass, Caller
<1>1. CASE StartPass(p) \/ SentWriteThrows(p)
  BY <1>0, <1>1, <1>a, GotoType DEF StartPass, SentWriteThrows
<1>2. CASE Sweep(p)
  BY <1>0, <1>2, <1>a, GotoType, SetRowsType, ConstantTypes DEF Sweep
<1>3. CASE ReadQueue(p)
  <2>1. FirstRows(InStatus({"PENDING"})) \in SUBSET Rows
    BY DEF FirstRows, InStatus
  <2>2. PICK Q \in SUBSET Rows, s \in PassSteps :
          pass' = [pass EXCEPT ![p].queued = Q, ![p].at = s]
    BY <1>3, <2>1 DEF ReadQueue
  <2>3. pass' = [pass EXCEPT ![p] = [pass[p] EXCEPT !.queued = Q, !.at = s]]
    BY <2>2 DEF TypeOK
  <2>4. [pass[p] EXCEPT !.queued = Q, !.at = s] \in Pass
    BY DEF TypeOK, Pass
  <2>5. pass' \in [Passes -> Pass]
    BY <2>3, <2>4, PassType
  <2> QED BY <1>0, <1>3, <1>a, <2>5 DEF ReadQueue
<1>4. CASE Claim(p)
  <2>1. row' \in [Rows -> Row]
    BY <1>4, SetRowsType, ConstantTypes DEF Claim
  <2>2. pass' \in [Passes -> Pass]
    BY <1>4, GotoType, StopType DEF Claim
  <2> QED BY <1>4, <1>a, <2>1, <2>2 DEF Claim
<1>5. CASE ReadBatch(p)
  <2> DEFINE v == [pass[p] EXCEPT !.todo = pass[p].queued \cap Held(p), !.at = "check"]
  <2>1. pass[p].queued \cap Held(p) \in SUBSET Rows
    BY DEF Held
  <2>2. v \in Pass
    BY <2>1 DEF TypeOK, Pass
  <2>3. pass' = [pass EXCEPT ![p] = v]
    BY <1>5 DEF ReadBatch, TypeOK
  <2>4. pass' \in [Passes -> Pass]
    BY <2>2, <2>3, PassType
  <2> QED BY <1>0, <1>5, <1>a, <2>4 DEF ReadBatch
<1>6. CASE EndOfBatch(p) \/ StopWhenNotSending(p)
  BY <1>0, <1>6, <1>a, GotoType, StopType DEF EndOfBatch, StopWhenNotSending
<1>7. CASE Proceed(p)
  <2>1. row' \in [Rows -> Row]
    BY <1>0, <1>7, SetRowsType, ConstantTypes DEF Proceed
  <2>2. pass' \in [Passes -> Pass]
    <3>1. CASE Stop(p)
      BY <3>1, StopType
    <3>2. ASSUME NEW b \in Nat, pass' = [pass EXCEPT ![p] =
                   [pass[p] EXCEPT !.at = "deliver", !.slow = 0, !.beat = b]]
          PROVE  pass' \in [Passes -> Pass]
      <4>1. [pass[p] EXCEPT !.at = "deliver", !.slow = 0, !.beat = b] \in Pass
        BY DEF TypeOK, Pass
      <4> QED BY <3>2, <4>1, PassType
    <3>3. CASE pass' = [pass EXCEPT ![p].at = "deliver", ![p].slow = 0]
      <4>1. pass' = [pass EXCEPT ![p] =
                [pass[p] EXCEPT !.at = "deliver", !.slow = 0, !.beat = pass[p].beat]]
        BY <3>3 DEF TypeOK
      <4>2. pass[p].beat \in Nat
        BY DEF TypeOK
      <4> QED BY <3>2, <4>1, <4>2
    <3>4. CASE pass' = [pass EXCEPT ![p].at = "deliver", ![p].slow = 0, ![p].beat = 0]
      <4>1. pass' = [pass EXCEPT ![p] =
                [pass[p] EXCEPT !.at = "deliver", !.slow = 0, !.beat = 0]]
        BY <3>4 DEF TypeOK
      <4> QED BY <3>2, <4>1
    <3> QED BY <1>7, <3>1, <3>3, <3>4 DEF Proceed
  <2> QED BY <1>7, <1>a, <2>1, <2>2 DEF Proceed
<1>8. CASE Deliver(p)
  <2>1. pass' \in [Passes -> Pass]
    BY <1>8, GotoType DEF Deliver
  <2>2. out' \in [Rows -> Nat]
    BY <1>8 DEF Deliver, TypeOK
  <2> QED BY <1>0, <1>8, <2>1, <2>2 DEF Deliver, TypeOK, Row, Pass, Caller
<1>9. CASE RecordSent(p) \/ RecordFailed(p)
  <2>1. PICK step \in PassSteps, outcome \in {"SENT", "FAILED"} : Record(p, step, outcome)
    BY <1>9 DEF RecordSent, RecordFailed
  <2>2. row' \in [Rows -> Row]
    BY <2>1, SetRowsType, ConstantTypes DEF Record, RowStatuses
  <2> DEFINE v == [pass[p] EXCEPT !.todo = pass[p].todo \ {Current(p)}, !.at = "check"]
  <2>3. v \in Pass
    BY DEF TypeOK, Pass
  <2>4. pass' = [pass EXCEPT ![p] = v]
    BY <2>1 DEF Record, TypeOK
  <2>5. pass' \in [Passes -> Pass]
    BY <2>3, <2>4, PassType
  <2> QED BY <1>a, <2>1, <2>2, <2>5 DEF Record
<1>10. CASE CountOutcomes(p)
  <2>1. pass' \in [Passes -> Pass]
    <3>1. CASE Stop(p)
      BY <3>1, StopType
    <3>2. CASE pass' = [pass EXCEPT ![p].at = "finish", ![p].counts = CountsNow]
      <4> DEFINE v == [pass[p] EXCEPT !.at = "finish", !.counts = CountsNow]
      <4>1. v \in Pass
        BY CountsNowType DEF TypeOK, Pass
      <4>2. pass' = [pass EXCEPT ![p] = v]
        BY <3>2 DEF TypeOK
      <4> QED BY <4>1, <4>2, PassType
    <3> QED BY <1>10, <3>1, <3>2 DEF CountOutcomes
  <2> QED BY <1>0, <1>10, <1>a, <2>1 DEF CountOutcomes
<1>11. CASE Complete(p)
  <2>1. pass' \in [Passes -> Pass]
    BY <1>11, StopType DEF Complete
  <2>2. campaign' \in [source : Sources, status : Statuses, counts : Counts]
    BY <1>11 DEF Complete, TypeOK, Statuses
  <2> QED BY <1>0, <1>11, <2>1, <2>2 DEF Complete, TypeOK, Row, Pass, Caller
<1>12. CASE Die(p)
  <2>1. row' \in [Rows -> Row]
    <3>1. ASSUME NEW r \in Rows PROVE row'[r] \in Row
      BY <1>12 DEF Die, TypeOK, Row
    <3> QED BY <1>12, <3>1 DEF Die
  <2>2. pass' \in [Passes -> Pass]
    BY <1>12, StopType DEF Die
  <2>3. deaths' \in 0..MaxDeaths
    BY <1>12, ConstantsAssumption DEF Die, TypeOK
  <2> QED BY <1>0, <1>12, <2>1, <2>2, <2>3 DEF Die, TypeOK, Row, Pass, Caller
<1> QED BY <1>1, <1>2, <1>3, <1>4, <1>5, <1>6, <1>7, <1>8, <1>9, <1>10, <1>11, <1>12
        DEF PassStep

LEMMA CallTypes ==
    ASSUME TypeOK, NEW u \in Callers,
           Ask(u) \/ FireDue(u) \/ CallStep(u) \/ CallDies(u)
    PROVE  TypeOK'
<1> USE DEF UserSteps
<1> DEFINE Rest == UNCHANGED <<out, pass>>
<1>0. /\ UNCHANGED campaign => campaign' \in [source : Sources, status : Statuses, counts : Counts]
      /\ UNCHANGED row => row' \in [Rows -> Row]
      /\ UNCHANGED deaths => deaths' \in 0..MaxDeaths
  BY DEF TypeOK, Row
<1>a. ASSUME campaign' \in [source : Sources, status : Statuses, counts : Counts],
             row' \in [Rows -> Row], user' \in [Callers -> Caller],
             deaths' \in 0..MaxDeaths, Rest
      PROVE  TypeOK'
  BY <1>a DEF TypeOK, Row, Pass, Caller
<1>1. CASE Ask(u) \/ FireDue(u)
  <2>1. ASSUME NEW S, NEW step \in UserSteps, Asks(u, S, step) PROVE TypeOK'
    BY <1>0, <1>a, <2>1, CallerType DEF Asks
  <2> QED BY <1>1, <2>1 DEF Ask, FireDue, AskQueue, AskCancel, AskEdit, AskRemove
<1>2. CASE WriteRecipients(u)
  <2>1. row' \in [Rows -> Row]
    BY <1>2, SetRowsType, ConstantTypes DEF WriteRecipients
  <2>2. user' \in [Callers -> Caller]
    BY <1>2, CallerType DEF WriteRecipients
  <2> QED BY <1>0, <1>2, <1>a, <2>1, <2>2 DEF WriteRecipients
<1>3. CASE MarkSending(u) \/ CancelScheduled(u) \/ CancelCampaign(u) \/ Edit(u)
  <2>1. user[u].counts \in Counts
    BY DEF TypeOK
  <2>2. campaign' \in [source : Sources, status : Statuses, counts : Counts]
    BY <1>3, <2>1 DEF MarkSending, CancelScheduled, CancelCampaign, Edit, TypeOK, Statuses
  <2>3. user' \in [Callers -> Caller]
    BY <1>3, CallerType DEF MarkSending, CancelScheduled, CancelCampaign, Edit
  <2> QED BY <1>0, <1>3, <1>a, <2>2, <2>3
          DEF MarkSending, CancelScheduled, CancelCampaign, Edit
<1>4. CASE CancelRows(u)
  BY <1>0, <1>4, <1>a, SetRowsType, CallerType, ConstantTypes DEF CancelRows, RowStatuses
<1>5. CASE CancelProgress(u)
  <2>1. user' \in [Callers -> Caller]
    BY <1>5, CountsNowType DEF CancelProgress, TypeOK, Caller
  <2> QED BY <1>0, <1>5, <1>a, <2>1 DEF CancelProgress
<1>6. CASE RemoveCampaign(u)
  <2>1. campaign' \in [source : Sources, status : Statuses, counts : Counts]
    BY <1>6 DEF RemoveCampaign, TypeOK, Statuses
  <2>2. row' \in [Rows -> Row]
    BY <1>6, SetRowsType, ConstantTypes DEF RemoveCampaign
  <2> QED BY <1>0, <1>6, <1>a, <2>1, <2>2, CallerType DEF RemoveCampaign
<1>7. CASE Refused(u)
  BY <1>0, <1>7, <1>a, CallerType DEF Refused
<1>8. CASE CallDies(u)
  <2>1. deaths' \in 0..MaxDeaths
    BY <1>8, ConstantsAssumption DEF CallDies, TypeOK
  <2> QED BY <1>0, <1>8, <1>a, <2>1, CallerType DEF CallDies
<1> QED BY <1>1, <1>2, <1>3, <1>4, <1>5, <1>6, <1>7, <1>8 DEF CallStep

LEMMA TickTypes == ASSUME TypeOK, Tick PROVE TypeOK'
<1>1. ASSUME NEW r \in Rows PROVE row'[r] \in Row
  <2>1. row[r] \in Row
    BY DEF TypeOK, Row
  <2>2. CASE row[r].status = "SENDING" /\ row[r].age <= Stale
    <3>1. row'[r] = [row[r] EXCEPT !.age = row[r].age + 1]
      BY <2>2 DEF Tick
    <3>2. row[r].age + 1 \in 0..(Stale + 1)
      BY <2>1, <2>2, ConstantsAssumption DEF Row
    <3> QED BY <2>1, <3>1, <3>2 DEF Row
  <2> QED BY <2>1, <2>2 DEF Tick
<1>2. ASSUME NEW p \in Passes PROVE pass'[p] \in Pass
  <2>1. CASE Working(p)
    <3>1. PICK s \in Nat, b \in Nat : s = pass[p].slow + 1 /\ b = pass[p].beat + 1
      BY DEF TypeOK
    <3>2. pass'[p] = [pass[p] EXCEPT !.slow = s, !.beat = b]
      BY <2>1, <3>1 DEF Tick
    <3>3. [pass[p] EXCEPT !.slow = s, !.beat = b] \in Pass
      BY DEF TypeOK, Pass
    <3> QED BY <3>2, <3>3
  <2>2. CASE ~Working(p)
    BY <2>2 DEF Tick, TypeOK, Pass
  <2> QED BY <2>1, <2>2
<1>3. row' \in [Rows -> Row] /\ pass' \in [Passes -> Pass]
  BY <1>1, <1>2 DEF Tick
<1> QED BY <1>3 DEF Tick, TypeOK, Row, Pass

LEMMA StepTypes == TypeOK /\ [Next]_vars => TypeOK'
<1> SUFFICES ASSUME TypeOK, [Next]_vars PROVE TypeOK'
  OBVIOUS
<1>1. CASE Next
  BY <1>1, PassTypes, CallTypes, TickTypes DEF Next, Callers
<1>2. CASE UNCHANGED vars
  BY <1>2 DEF vars, TypeOK
<1> QED BY <1>1, <1>2

\* Every variable keeps its type, however passes and callers interleave and
\* wherever they die.
THEOREM TypesHold == Spec => []TypeOK
BY InitTypes, StepTypes, PTL DEF Spec

(***************************************************************************)
(* What one step may do to a recipient's row, to the campaign and to the   *)
(* passes and callers that are not the ones taking it.                     *)
(***************************************************************************)
PassAction(p) == StartPass(p) \/ PassStep(p) \/ SentWriteThrows(p) \/ Die(p)
CallAction(u) == Ask(u) \/ FireDue(u) \/ CallStep(u) \/ CallDies(u)

LEMMA Actors ==
    ASSUME [Next]_vars
    PROVE  \/ \E p \in Passes : PassAction(p)
           \/ \E u \in Callers : CallAction(u)
           \/ Tick
           \/ UNCHANGED vars
BY DEF Next, PassAction, CallAction, Callers

\* Time changes the age of claims and how long passes have been at them.
LEMMA TickFrame ==
    ASSUME TypeOK, Tick
    PROVE  /\ \A p \in Passes :
                /\ pass'[p].at = pass[p].at /\ pass'[p].todo = pass[p].todo
                /\ pass'[p].queued = pass[p].queued /\ pass'[p].counts = pass[p].counts
                /\ Working(p) => /\ pass'[p].beat = pass[p].beat + 1
                                 /\ pass'[p].slow = pass[p].slow + 1
                                 /\ pass[p].slow < MaxDelivery
                /\ ~Working(p) => pass'[p] = pass[p]
           /\ \A r \in Rows :
                /\ row'[r].status = row[r].status /\ row'[r].owner = row[r].owner
                /\ row'[r].age <= row[r].age + 1
                /\ row[r].age \in Nat /\ row'[r].age \in Nat
<1>1. ASSUME NEW p \in Passes
      PROVE  /\ pass'[p].at = pass[p].at /\ pass'[p].todo = pass[p].todo
             /\ pass'[p].queued = pass[p].queued /\ pass'[p].counts = pass[p].counts
             /\ Working(p) => /\ pass'[p].beat = pass[p].beat + 1
                              /\ pass'[p].slow = pass[p].slow + 1
                              /\ pass[p].slow < MaxDelivery
             /\ ~Working(p) => pass'[p] = pass[p]
  BY DEF Tick, TypeOK
<1>2. ASSUME NEW r \in Rows
      PROVE  /\ row'[r].status = row[r].status /\ row'[r].owner = row[r].owner
             /\ row'[r].age <= row[r].age + 1
             /\ row[r].age \in Nat /\ row'[r].age \in Nat
  <2>1. row[r].age \in Nat
    BY ConstantsAssumption DEF TypeOK
  <2>2. row'[r] = IF row[r].status = "SENDING" /\ row[r].age <= Stale
                  THEN [row[r] EXCEPT !.age = row[r].age + 1] ELSE row[r]
    BY DEF Tick
  <2> QED BY <2>1, <2>2 DEF TypeOK
<1> QED BY <1>1, <1>2

\* The moves of a row's status.
Moves(r) ==
    \/ row'[r].status = row[r].status
    \/ row[r].status = "SENDING" /\ row'[r].status \in {"PENDING", "SENT", "FAILED"}
    \/ row[r].status = "PENDING" /\ row'[r].status = "SENDING"
    \/ row[r].status \in Open /\ row'[r].status = "CANCELLED"
    \/ row[r].status = "ABSENT" /\ row'[r].status = "PENDING" /\ campaign.status # "GONE"
    \/ row'[r].status = "ABSENT" /\ campaign'.status = "GONE"

LEMMA RowSteps ==
    ASSUME TypeOK, [Next]_vars, NEW r \in Rows
    PROVE  Moves(r)
<1>0. UNCHANGED row => Moves(r)
  BY DEF Moves
<1>1. ASSUME NEW p \in Passes, PassAction(p) PROVE Moves(r)
  <2>1. CASE Sweep(p)
    BY <2>1 DEF Sweep, SetRows, InStatus, NewRow, Moves
  <2>2. CASE Claim(p)
    BY <2>2 DEF Claim, SetRows, InStatus, Moves
  <2>3. CASE Proceed(p)
    BY <1>0, <2>3 DEF Proceed, SetRows, Held, Moves
  <2>4. CASE RecordSent(p) \/ RecordFailed(p)
    BY <2>4 DEF RecordSent, RecordFailed, Record, SetRows, Held, Moves
  <2>5. CASE Die(p)
    <3>1. row'[r] = IF r \in Held(p) THEN [row[r] EXCEPT !.owner = NoPass] ELSE row[r]
      BY <2>5 DEF Die
    <3> QED BY <3>1 DEF TypeOK, Moves
  <2>6. CASE UNCHANGED row
    BY <1>0, <2>6
  <2> QED BY <1>1, <2>1, <2>2, <2>3, <2>4, <2>5, <2>6
          DEF PassAction, PassStep, StartPass, ReadQueue, ReadBatch, EndOfBatch,
              StopWhenNotSending, Deliver, CountOutcomes, Complete, SentWriteThrows
<1>2. ASSUME NEW u \in Callers, CallAction(u) PROVE Moves(r)
  <2>1. CASE WriteRecipients(u)
    BY <2>1 DEF WriteRecipients, SetRows, InStatus, NewRow, Moves
  <2>2. CASE CancelRows(u)
    BY <2>2 DEF CancelRows, SetRows, InStatus, Moves
  <2>3. CASE RemoveCampaign(u)
    BY <2>3 DEF RemoveCampaign, SetRows, NoRow, Moves, TypeOK
  <2>4. CASE UNCHANGED row
    BY <1>0, <2>4
  <2> QED BY <1>2, <2>1, <2>2, <2>3, <2>4
          DEF CallAction, CallStep, Ask, FireDue, AskQueue, AskCancel, AskEdit, AskRemove,
              Asks, MarkSending, CancelScheduled, CancelProgress, CancelCampaign, Edit,
              Refused, CallDies
<1>3. CASE Tick
  BY <1>3, TickFrame DEF Moves
<1> QED BY <1>0, <1>1, <1>2, <1>3, Actors DEF vars

\* The outcome of a recipient is written once: a sent, failed or cancelled row
\* changes no more, whatever pass still holds it in memory (the updateMany of
\* deliver, matched on status and claim).
THEOREM OutcomesAreFinal == Spec => OutcomeIsFinal
<1>1. TypeOK /\ [Next]_vars =>
        [\A r \in Rows : row[r].status \in {"SENT", "FAILED", "CANCELLED"} =>
            row'[r].status \in {row[r].status, "ABSENT"}]_row
  BY RowSteps DEF Moves, Open
<1> QED BY <1>1, TypesHold, PTL DEF Spec, OutcomeIsFinal

\* Who writes the campaign's row.
LEMMA CampaignSteps ==
    ASSUME TypeOK, [Next]_vars
    PROVE  /\ campaign'.source = campaign.source
           /\ campaign.status = "GONE" => campaign'.status = "GONE"
           /\ \/ UNCHANGED campaign
              \/ campaign'.status \in {"DRAFT", "SCHEDULED", "CANCELLED", "GONE"}
              \/ campaign'.status = "SENDING" /\ campaign.status # "GONE"
                   /\ UNCHANGED row /\ \E u \in Callers : Doing(u, "mark")
              \/ campaign'.status = "COMPLETED" /\ campaign.status = "SENDING"
                   /\ UNCHANGED row /\ \E p \in Passes :
                        At(p, "finish") /\ campaign'.counts = pass[p].counts
<1>1. ASSUME NEW p \in Passes, PassAction(p), ~UNCHANGED campaign
      PROVE  /\ At(p, "finish") /\ campaign.status = "SENDING" /\ UNCHANGED row
             /\ campaign' = [campaign EXCEPT !.status = "COMPLETED", !.counts = pass[p].counts]
  BY <1>1 DEF PassAction, PassStep, StartPass, ReadQueue, ReadBatch, EndOfBatch, Sweep,
              Claim, Proceed, RecordSent, RecordFailed, Record, Die,
              StopWhenNotSending, Deliver, CountOutcomes, Complete, SentWriteThrows
<1>2. ASSUME NEW u \in Callers, CallAction(u), ~UNCHANGED campaign
      PROVE  MarkSending(u) \/ CancelScheduled(u) \/ CancelCampaign(u) \/ Edit(u)
                \/ RemoveCampaign(u)
  BY <1>2 DEF CallAction, CallStep, Ask, FireDue, AskQueue, AskCancel, AskEdit, AskRemove,
              Asks, WriteRecipients, CancelRows, CancelProgress, Refused, CallDies
<1>3. CASE \E p \in Passes : PassAction(p)
  BY <1>1, <1>3 DEF TypeOK
<1>4. CASE \E u \in Callers : CallAction(u)
  <2>1. CASE UNCHANGED campaign
    BY <2>1
  <2>2. PICK u \in Callers : CallAction(u)
    BY <1>4
  <2>3. CASE ~UNCHANGED campaign
    BY <1>2, <2>2, <2>3
       DEF TypeOK, MarkSending, CancelScheduled, CancelCampaign, Edit, RemoveCampaign
  <2> QED BY <2>1, <2>3
<1>5. CASE Tick \/ UNCHANGED vars
  BY <1>5 DEF Tick, vars
<1> QED BY <1>3, <1>4, <1>5, Actors

(***************************************************************************)
(* Once a campaign has been queued, every customer has a row.              *)
(***************************************************************************)
Written == \A r \in Rows : row[r].status # "ABSENT"
Ready == Written \/ campaign.status = "GONE"

Queueing ==
    /\ campaign.source = "UPLOAD" => Ready
    /\ campaign.status \in {"SENDING", "COMPLETED"} => Written
    /\ \A u \in Callers : Doing(u, "mark") => Ready
    /\ \A p \in Passes : ~At(p, "off") => Ready

LEMMA InitQueueing == Init => Queueing
<1> SUFFICES ASSUME Init PROVE Queueing
  OBVIOUS
<1>1. campaign.status \in {"DRAFT", "SCHEDULED"}
  BY DEF Init
<1>2. campaign.source = "UPLOAD" => Written
  BY DEF Init, Written, NewRow
<1>3. /\ \A u \in Callers : ~Doing(u, "mark")
      /\ \A p \in Passes : At(p, "off")
  BY DEF Init, Doing, IdleUser, At, OffPass
<1> QED BY <1>1, <1>2, <1>3 DEF Queueing, Ready

LEMMA ReadyStays ==
    ASSUME TypeOK, [Next]_vars, Ready
    PROVE  Ready'
<1>1. CASE campaign.status = "GONE"
  BY <1>1, CampaignSteps DEF Ready
<1>2. CASE Written /\ campaign'.status # "GONE"
  BY <1>2, RowSteps DEF Written, Ready, Moves, Open
<1> QED BY <1>1, <1>2 DEF Ready

LEMMA MarkerWritten ==
    ASSUME TypeOK, Queueing, NEW u \in Callers, CallAction(u), Doing(u, "mark")'
    PROVE  Ready \/ Written'
<1>1. CASE WriteRecipients(u)
  <2>1. CASE campaign.source = "UPLOAD"
    BY <2>1 DEF Queueing
  <2>2. CASE campaign.source = "SEGMENT"
    BY <1>1, <2>2 DEF WriteRecipients, SetRows, InStatus, NewRow, Written
  <2> QED BY <2>1, <2>2, ConstantsAssumption DEF TypeOK
<1>2. CASE ~WriteRecipients(u)
  <2>1. ASSUME Finished(u) PROVE ~Doing(u, "mark")'
    BY <2>1 DEF Finished, Doing, IdleUser, TypeOK
  <2>2. ASSUME NEW s, s # "mark", Then(u, s) PROVE ~Doing(u, "mark")'
    BY <2>2 DEF Then, Doing, TypeOK
  <2>3. ~CancelProgress(u)
    BY DEF CancelProgress, Doing, TypeOK
  <2> QED BY <1>2, <2>1, <2>2, <2>3
          DEF CallAction, CallStep, Ask, FireDue, AskQueue, AskCancel, AskEdit, AskRemove,
              Asks, MarkSending, CancelScheduled, CancelRows, CancelCampaign, Edit,
              RemoveCampaign, Refused, CallDies
<1> QED BY <1>1, <1>2

\* Another caller's place is left alone.
LEMMA OtherCallers ==
    ASSUME TypeOK, NEW u \in Callers, CallAction(u), NEW v \in Callers \ {u}
    PROVE  user'[v] = user[v]
BY DEF TypeOK, CallAction, CallStep, Ask, FireDue, AskQueue, AskCancel, AskEdit, AskRemove,
       Asks, WriteRecipients, MarkSending, CancelScheduled, CancelRows, CancelProgress,
       CancelCampaign, Edit, RemoveCampaign, Refused, CallDies, Then, Finished

LEMMA PassKeepsCallers ==
    ASSUME NEW p \in Passes, PassAction(p) PROVE UNCHANGED user
BY DEF PassAction, PassStep, StartPass, ReadQueue, ReadBatch, EndOfBatch, Sweep, Claim,
       Proceed, RecordSent, RecordFailed, Record, Die, StopWhenNotSending, Deliver,
       CountOutcomes, Complete, SentWriteThrows

LEMMA CallKeepsPasses ==
    ASSUME NEW u \in Callers, CallAction(u) PROVE UNCHANGED pass
BY DEF CallAction, CallStep, Ask, FireDue, AskQueue, AskCancel, AskEdit, AskRemove,
       Asks, WriteRecipients, MarkSending, CancelScheduled, CancelRows, CancelProgress,
       CancelCampaign, Edit, RemoveCampaign, Refused, CallDies

LEMMA OtherPasses ==
    ASSUME TypeOK, NEW p \in Passes, PassAction(p), NEW q \in Passes \ {p}
    PROVE  pass'[q] = pass[q]
<1> USE DEF TypeOK, Goto, Stop
<1>1. CASE StartPass(p) \/ SentWriteThrows(p) \/ Die(p)
  BY <1>1 DEF StartPass, SentWriteThrows, Die
<1>2. CASE Sweep(p) \/ ReadQueue(p) \/ Claim(p) \/ ReadBatch(p)
  BY <1>2 DEF Sweep, ReadQueue, Claim, ReadBatch
<1>3. CASE EndOfBatch(p) \/ StopWhenNotSending(p) \/ Proceed(p) \/ Deliver(p)
  BY <1>3 DEF EndOfBatch, StopWhenNotSending, Proceed, Deliver
<1>4. CASE RecordSent(p) \/ RecordFailed(p) \/ CountOutcomes(p) \/ Complete(p)
  BY <1>4 DEF RecordSent, RecordFailed, Record, CountOutcomes, Complete
<1> QED BY <1>1, <1>2, <1>3, <1>4 DEF PassAction, PassStep

LEMMA StartsWhenSending ==
    ASSUME TypeOK, NEW p \in Passes, PassAction(p), At(p, "off"), ~At(p, "off")'
    PROVE  campaign.status = "SENDING"
BY DEF PassAction, PassStep, StartPass, ReadQueue, ReadBatch, EndOfBatch, Sweep, Claim,
       Proceed, RecordSent, RecordFailed, Record, Die, StopWhenNotSending, Deliver,
       CountOutcomes, Complete, SentWriteThrows, At

LEMMA StepQueueing ==
    ASSUME TypeOK, Queueing, [Next]_vars PROVE Queueing'
<1>0. Ready => Ready'
  BY ReadyStays
<1>1. (campaign.source = "UPLOAD" => Ready)'
  BY <1>0, CampaignSteps DEF Queueing
<1>2. (campaign.status \in {"SENDING", "COMPLETED"} => Written)'
  <2>1. CASE UNCHANGED campaign
    BY <1>0, <2>1 DEF Queueing, Ready
  <2>2. CASE ~UNCHANGED campaign
    BY <1>0, <2>2, CampaignSteps DEF Queueing, Ready
  <2> QED BY <2>1, <2>2
<1>3. ASSUME NEW v \in Callers, Doing(v, "mark")' PROVE Ready'
  <2>1. CASE UNCHANGED user
    BY <1>0, <1>3, <2>1 DEF Doing, Queueing
  <2>2. CASE \E u \in Callers : CallAction(u)
    <3>1. PICK u \in Callers : CallAction(u)
      BY <2>2
    <3>2. CASE u = v
      BY <1>0, <1>3, <3>1, <3>2, MarkerWritten DEF Ready
    <3>3. CASE u # v
      BY <1>0, <1>3, <3>1, <3>3, OtherCallers DEF Doing, Queueing
    <3> QED BY <3>2, <3>3
  <2> QED BY <2>1, <2>2, Actors, PassKeepsCallers DEF Tick, vars
<1>4. ASSUME NEW q \in Passes, ~At(q, "off")' PROVE Ready'
  <2>1. CASE \E p \in Passes : PassAction(p)
    <3>1. PICK p \in Passes : PassAction(p)
      BY <2>1
    <3>2. CASE p = q
      BY <1>0, <1>4, <3>1, <3>2, StartsWhenSending DEF Queueing, Ready
    <3>3. CASE p # q
      BY <1>0, <1>4, <3>1, <3>3, OtherPasses DEF At, Queueing
    <3> QED BY <3>2, <3>3
  <2>2. CASE Tick
    <3>1. pass'[q].at = pass[q].at
      BY <2>2, TickFrame
    <3> QED BY <1>0, <1>4, <3>1 DEF At, Queueing
  <2>3. CASE UNCHANGED pass
    BY <1>0, <1>4, <2>3 DEF At, Queueing
  <2> QED BY <2>1, <2>2, <2>3, Actors, CallKeepsPasses DEF vars
<1> QED BY <1>1, <1>2, <1>3, <1>4 DEF Queueing

(***************************************************************************)
(* Claims.  A pass that comes back to its heartbeat in time holds what it  *)
(* has yet to send: its claims are no older than the time since its last   *)
(* beat, so no sweep finds them stale.                                     *)
(***************************************************************************)
\* STALE_CLAIM_MS leaves room for one heartbeat interval and one delivery.
InTime == Heartbeat + MaxDelivery <= Stale + 1

Sending(p) == pass[p].at \in {"deliver", "delivered", "failed"}

\* The rows a pass has still to claim or to send.
Ahead(p) == IF pass[p].at \in {"claim", "batch"} THEN pass[p].queued ELSE pass[p].todo

Shape(p) ==
    /\ pass[p].at \in {"off", "sweep", "read", "claim"} =>
          pass[p].beat = 0 /\ pass[p].slow = 0
    /\ ~At(p, "check") /\ ~Sending(p) => pass[p].todo = {}
    /\ Sending(p) => pass[p].todo # {}
    /\ Working(p) => /\ pass[p].beat < Heartbeat + pass[p].slow
                     /\ pass[p].slow <= MaxDelivery

ClaimsAreFresh(p) ==
    /\ At(p, "claim") => Ahead(p) \cap Held(p) = {}
    /\ Working(p) => \A r \in Ahead(p) \cap Held(p) : row[r].age <= pass[p].beat

Lost(r) == row[r].status \in {"CANCELLED", "ABSENT"}
HoldsRest(p) == \A r \in pass[p].todo : r \in Held(p) \/ Lost(r)

Claims ==
    /\ \A p \in Passes : Shape(p) /\ ClaimsAreFresh(p) /\ HoldsRest(p)
    /\ \A p, q \in Passes : p # q => pass[p].todo \cap pass[q].todo = {}

LEMMA InitClaims == Init => Claims
BY DEF Init, Claims, Shape, ClaimsAreFresh, HoldsRest, OffPass, Working, Sending, At

\* What a pass does not hold it is not given by others; what it holds and has
\* yet to send, others take from it only by cancelling or deleting.
LEMMA OthersGrantNothing ==
    ASSUME TypeOK, NEW q \in Passes, NEW r \in Rows, r \in Held(q)',
           \/ \E p \in Passes \ {q} : PassAction(p)
           \/ \E u \in Callers : CallAction(u)
    PROVE  row'[r] = row[r]
<1>0. row'[r].status = "SENDING" /\ row'[r].owner = q /\ q # NoPass
  BY ConstantsAssumption DEF Held
<1>1. ASSUME NEW p \in Passes \ {q}, PassAction(p) PROVE row'[r] = row[r]
  <2>1. CASE Sweep(p)
    BY <1>0, <2>1 DEF Sweep, SetRows, NewRow
  <2>2. CASE Claim(p)
    BY <1>0, <2>2 DEF Claim, SetRows
  <2>3. CASE Proceed(p)
    BY <1>0, <2>3 DEF Proceed, SetRows
  <2>4. CASE RecordSent(p) \/ RecordFailed(p)
    BY <1>0, <2>4 DEF RecordSent, RecordFailed, Record, SetRows
  <2>5. CASE Die(p)
    <3>1. row'[r] = IF r \in Held(p) THEN [row[r] EXCEPT !.owner = NoPass] ELSE row[r]
      BY <2>5 DEF Die
    <3>2. [row[r] EXCEPT !.owner = NoPass].owner = NoPass
      BY DEF TypeOK
    <3> QED BY <1>0, <3>1, <3>2
  <2>6. CASE UNCHANGED row
    BY <2>6
  <2> QED BY <1>1, <2>1, <2>2, <2>3, <2>4, <2>5, <2>6
          DEF PassAction, PassStep, StartPass, ReadQueue, ReadBatch, EndOfBatch,
              StopWhenNotSending, Deliver, CountOutcomes, Complete, SentWriteThrows
<1>2. ASSUME NEW u \in Callers, CallAction(u) PROVE row'[r] = row[r]
  <2>1. CASE WriteRecipients(u) \/ CancelRows(u) \/ RemoveCampaign(u)
    BY <1>0, <2>1 DEF WriteRecipients, CancelRows, RemoveCampaign, SetRows, NewRow, NoRow
  <2>2. CASE UNCHANGED row
    BY <2>2
  <2> QED BY <1>2, <2>1, <2>2
          DEF CallAction, CallStep, Ask, FireDue, AskQueue, AskCancel, AskEdit, AskRemove,
              Asks, MarkSending, CancelScheduled, CancelProgress, CancelCampaign, Edit,
              Refused, CallDies
<1> QED BY <1>1, <1>2

LEMMA OthersTakeNothing ==
    ASSUME TypeOK, InTime, Claims, NEW q \in Passes, Working(q),
           NEW r \in Ahead(q) \cap Held(q),
           \/ \E p \in Passes \ {q} : PassAction(p)
           \/ \E u \in Callers : CallAction(u)
    PROVE  row'[r] = row[r] \/ Lost(r)'
<1>0. /\ r \in Rows /\ row[r].status = "SENDING" /\ row[r].owner = q /\ q # NoPass
      /\ \A p \in Passes \ {q} : r \notin Held(p)
  BY ConstantsAssumption DEF Held
<1>1. row[r].age <= Stale
  <2>1. row[r].age <= pass[q].beat /\ pass[q].beat < Heartbeat + pass[q].slow
        /\ pass[q].slow <= MaxDelivery
    BY DEF Claims, ClaimsAreFresh, Shape
  <2>2. row[r].age \in Nat /\ pass[q].beat \in Nat /\ pass[q].slow \in Nat
    BY <1>0, ConstantsAssumption DEF TypeOK
  <2> QED BY <2>1, <2>2, ConstantsAssumption DEF InTime
<1>2. ASSUME NEW p \in Passes \ {q}, PassAction(p) PROVE row'[r] = row[r]
  <2>1. CASE Sweep(p)
    <3>1. row[r].age \in Nat
      BY <1>0, ConstantsAssumption DEF TypeOK
    <3> QED BY <1>0, <1>1, <2>1, <3>1, ConstantsAssumption DEF Sweep, SetRows
  <2>2. CASE Claim(p)
    BY <1>0, <2>2 DEF Claim, SetRows, InStatus
  <2>3. CASE Proceed(p)
    BY <1>0, <2>3 DEF Proceed, SetRows
  <2>4. CASE RecordSent(p) \/ RecordFailed(p)
    BY <1>0, <2>4 DEF RecordSent, RecordFailed, Record, SetRows
  <2>5. CASE Die(p)
    BY <1>0, <2>5 DEF Die
  <2>6. CASE UNCHANGED row
    BY <2>6
  <2> QED BY <1>2, <2>1, <2>2, <2>3, <2>4, <2>5, <2>6
          DEF PassAction, PassStep, StartPass, ReadQueue, ReadBatch, EndOfBatch,
              StopWhenNotSending, Deliver, CountOutcomes, Complete, SentWriteThrows
<1>3. ASSUME NEW u \in Callers, CallAction(u) PROVE row'[r] = row[r] \/ Lost(r)'
  <2>1. CASE WriteRecipients(u)
    BY <1>0, <2>1 DEF WriteRecipients, SetRows, InStatus
  <2>2. CASE CancelRows(u) \/ RemoveCampaign(u)
    BY <1>0, <2>2 DEF CancelRows, RemoveCampaign, SetRows, NoRow, Lost
  <2>3. CASE UNCHANGED row
    BY <2>3
  <2> QED BY <1>3, <2>1, <2>2, <2>3
          DEF CallAction, CallStep, Ask, FireDue, AskQueue, AskCancel, AskEdit, AskRemove,
              Asks, MarkSending, CancelScheduled, CancelProgress, CancelCampaign, Edit,
              Refused, CallDies
<1> QED BY <1>2, <1>3

\* A row that was cancelled or deleted does not come back to a running pass.
LEMMA LostStaysLost ==
    ASSUME TypeOK, Queueing, [Next]_vars, NEW p \in Passes, ~At(p, "off"),
           NEW r \in Rows, Lost(r)
    PROVE  Lost(r)'
<1>1. row[r].status = "ABSENT" => campaign.status = "GONE"
  BY DEF Queueing, Ready, Written
<1> QED BY <1>1, RowSteps DEF Moves, Lost, Open

LEMMA Bystander ==
    ASSUME TypeOK, InTime, Queueing, Claims, [Next]_vars, NEW q \in Passes,
           \/ \E p \in Passes \ {q} : PassAction(p)
           \/ \E u \in Callers : CallAction(u)
    PROVE  /\ pass'[q] = pass[q]
           /\ Shape(q)' /\ ClaimsAreFresh(q)' /\ HoldsRest(q)'
<1>1. pass'[q] = pass[q]
  BY OtherPasses, CallKeepsPasses
<1>2. Shape(q)'
  BY <1>1 DEF Claims, Shape, At, Sending, Working
<1>3. ClaimsAreFresh(q)'
  <2>1. ASSUME NEW r \in Held(q)' PROVE r \in Held(q) /\ row'[r] = row[r]
    <3>1. r \in Rows
      BY DEF Held
    <3> QED BY <3>1, OthersGrantNothing DEF Held
  <2> QED BY <1>1, <2>1 DEF Claims, ClaimsAreFresh, Ahead, At, Working
<1>4. HoldsRest(q)'
  <2> SUFFICES ASSUME NEW r \in pass[q].todo PROVE r \in Held(q)' \/ Lost(r)'
    BY <1>1 DEF HoldsRest
  <2>1. /\ At(q, "check") \/ Sending(q)
        /\ r \in Rows /\ (r \in Held(q) \/ Lost(r))
    BY DEF Claims, Shape, HoldsRest, TypeOK
  <2>2. Working(q) /\ r \in Ahead(q) /\ ~At(q, "off")
    BY <2>1 DEF Working, Ahead, At, Sending
  <2>3. CASE r \in Held(q)
    BY <2>2, <2>3, OthersTakeNothing DEF Held
  <2>4. CASE Lost(r)
    BY <2>1, <2>2, <2>4, LostStaysLost
  <2> QED BY <2>1, <2>3, <2>4
<1> QED BY <1>1, <1>2, <1>3, <1>4

(***************************************************************************)
(* The pass that takes the step.                                           *)
(***************************************************************************)
LEMMA StoppedPass ==
    ASSUME TypeOK, NEW p \in Passes, Stop(p)
    PROVE  Shape(p)' /\ ClaimsAreFresh(p)' /\ HoldsRest(p)' /\ pass'[p].todo = {}
<1>1. pass'[p] = OffPass
  BY DEF Stop, TypeOK
<1> QED BY <1>1 DEF OffPass, Shape, ClaimsAreFresh, HoldsRest, At, Sending, Working

\* A step that leaves the rows, the time and what is to be sent alone.
LEMMA MovedOn ==
    ASSUME TypeOK, Claims, NEW p \in Passes, NEW s \in PassSteps, Goto(p, s),
           UNCHANGED row,
           \/ pass[p].at \in {"off", "sweep"} /\ s \in {"sweep", "read"}
           \/ ~At(p, "off") /\ pass[p].todo = {} /\ s = "count"
           \/ Sending(p) /\ s \in {"delivered", "failed"}
    PROVE  Shape(p)' /\ ClaimsAreFresh(p)' /\ HoldsRest(p)'
<1>1. /\ pass'[p].at = s /\ pass'[p].todo = pass[p].todo
      /\ pass'[p].beat = pass[p].beat /\ pass'[p].slow = pass[p].slow
  BY DEF Goto, TypeOK
<1>2. Held(p)' = Held(p)
  BY DEF Held
<1>3. Shape(p) /\ ClaimsAreFresh(p) /\ HoldsRest(p)
  BY DEF Claims
<1>4. Shape(p)'
  BY <1>1, <1>3 DEF Shape, At, Sending, Working
<1>5. ClaimsAreFresh(p)'
  BY <1>1, <1>2, <1>3 DEF ClaimsAreFresh, Ahead, At, Sending, Working
<1>6. HoldsRest(p)'
  BY <1>1, <1>2, <1>3 DEF HoldsRest, Lost
<1> QED BY <1>4, <1>5, <1>6

LEMMA SweepShape ==
    ASSUME TypeOK, Claims, NEW p \in Passes, Sweep(p)
    PROVE  Shape(p)' /\ ClaimsAreFresh(p)' /\ HoldsRest(p)'
<1>1. /\ pass'[p].at = "read" /\ pass'[p].todo = {}
      /\ pass'[p].beat = 0 /\ pass'[p].slow = 0
  BY DEF Sweep, Goto, TypeOK, Claims, Shape, At, Sending
<1> QED BY <1>1 DEF Shape, ClaimsAreFresh, HoldsRest, At, Sending, Working

LEMMA ReadShape ==
    ASSUME TypeOK, Claims, NEW p \in Passes, ReadQueue(p)
    PROVE  Shape(p)' /\ ClaimsAreFresh(p)' /\ HoldsRest(p)'
<1>1. /\ pass'[p].at \in {"count", "claim"} /\ pass'[p].todo = {}
      /\ pass'[p].beat = 0 /\ pass'[p].slow = 0
      /\ pass'[p].queued = FirstRows(InStatus({"PENDING"}))
  BY DEF ReadQueue, TypeOK, Claims, Shape, At, Sending
<1>2. pass'[p].queued \cap Held(p)' = {}
  BY <1>1 DEF ReadQueue, FirstRows, InStatus, Held
<1>3. Shape(p)'
  BY <1>1 DEF Shape, At, Sending, Working
<1>4. ClaimsAreFresh(p)'
  BY <1>1, <1>2 DEF ClaimsAreFresh, Ahead, At, Working
<1>5. HoldsRest(p)'
  BY <1>1 DEF HoldsRest
<1> QED BY <1>3, <1>4, <1>5

LEMMA ClaimShape ==
    ASSUME TypeOK, Claims, NEW p \in Passes, Claim(p)
    PROVE  Shape(p)' /\ ClaimsAreFresh(p)' /\ HoldsRest(p)'
<1> DEFINE mine == pass[p].queued \cap InStatus({"PENDING"})
<1>1. CASE mine = {}
  BY <1>1, StoppedPass DEF Claim
<1>2. CASE mine # {}
  <2>0. pass[p].todo = {} /\ pass[p].beat = 0 /\ pass[p].slow = 0
    BY DEF Claim, Claims, Shape, At, Sending
  <2>a. Goto(p, "batch")
    BY <1>2 DEF Claim
  <2>1. /\ pass'[p].at = "batch" /\ pass'[p].todo = {}
        /\ pass'[p].beat = 0 /\ pass'[p].slow = 0
        /\ pass'[p].queued = pass[p].queued
    BY <2>0, <2>a DEF Goto, TypeOK
  <2>2. Shape(p)'
    BY <2>1, ConstantsAssumption DEF Shape, At, Sending, Working
  <2>3. ClaimsAreFresh(p)'
    <3> SUFFICES ASSUME NEW r \in pass[p].queued, r \in Held(p)'
                 PROVE  row'[r].age <= pass'[p].beat
      BY <2>1 DEF ClaimsAreFresh, Ahead, At
    <3>1. r \in Rows
      BY DEF Held
    <3>2. CASE r \in mine
      BY <2>1, <3>1, <3>2 DEF Claim, SetRows
    <3>3. CASE r \notin mine
      <4>1. row'[r] = row[r]
        BY <3>1, <3>3 DEF Claim, SetRows
      <4>2. r \in Held(p)
        BY <4>1 DEF Held
      <4> QED BY <4>2 DEF Claim, Claims, ClaimsAreFresh, Ahead, At
    <3> QED BY <3>2, <3>3
  <2>4. HoldsRest(p)'
    BY <2>1 DEF HoldsRest
  <2> QED BY <2>2, <2>3, <2>4
<1> QED BY <1>1, <1>2

LEMMA BatchShape ==
    ASSUME TypeOK, Claims, NEW p \in Passes, ReadBatch(p)
    PROVE  Shape(p)' /\ ClaimsAreFresh(p)' /\ HoldsRest(p)'
<1>1. /\ pass'[p].at = "check" /\ pass'[p].todo = pass[p].queued \cap Held(p)
      /\ pass'[p].beat = pass[p].beat /\ pass'[p].slow = pass[p].slow
  BY DEF ReadBatch, TypeOK
<1>2. Held(p)' = Held(p) /\ UNCHANGED row
  BY DEF ReadBatch, Held
<1>3. At(p, "batch") /\ Shape(p) /\ ClaimsAreFresh(p)
  BY DEF ReadBatch, Claims
<1>4. Shape(p)'
  BY <1>1, <1>3 DEF Shape, At, Sending, Working
<1>5. ClaimsAreFresh(p)'
  BY <1>1, <1>2, <1>3 DEF ClaimsAreFresh, Ahead, At, Working
<1>6. HoldsRest(p)'
  BY <1>1, <1>2 DEF HoldsRest
<1> QED BY <1>4, <1>5, <1>6

LEMMA ProceedShape ==
    ASSUME TypeOK, Claims, NEW p \in Passes, Proceed(p)
    PROVE  Shape(p)' /\ ClaimsAreFresh(p)' /\ HoldsRest(p)'
<1> DEFINE tail == pass[p].todo \cap Held(p)
<1>0. /\ At(p, "check") /\ pass[p].todo # {}
      /\ Shape(p) /\ ClaimsAreFresh(p) /\ HoldsRest(p)
  BY DEF Proceed, Claims
<1>1. CASE ~BeatDue(p)
  <2>1. /\ pass'[p].at = "deliver" /\ pass'[p].todo = pass[p].todo
        /\ pass'[p].beat = pass[p].beat /\ pass'[p].slow = 0
    BY <1>1 DEF Proceed, TypeOK
  <2>2. UNCHANGED row /\ Held(p)' = Held(p)
    BY <1>1 DEF Proceed, Held
  <2>3. pass[p].beat < Heartbeat
    BY <1>1, ConstantsAssumption DEF BeatDue, TypeOK
  <2>4. Shape(p)'
    BY <1>0, <2>1, <2>3, ConstantsAssumption DEF Shape, At, Sending, Working
  <2>5. ClaimsAreFresh(p)'
    BY <1>0, <2>1, <2>2 DEF ClaimsAreFresh, Ahead, At, Working
  <2>6. HoldsRest(p)'
    BY <1>0, <2>1, <2>2 DEF HoldsRest, Lost
  <2> QED BY <2>4, <2>5, <2>6
<1>2. CASE BeatDue(p) /\ tail = {}
  BY <1>2, StoppedPass DEF Proceed
<1>3. CASE BeatDue(p) /\ tail # {}
  <2>1. /\ pass'[p].at = "deliver" /\ pass'[p].todo = pass[p].todo
        /\ pass'[p].beat = 0 /\ pass'[p].slow = 0
    BY <1>3 DEF Proceed, TypeOK
  <2>2. \A r \in Rows : row'[r] = IF r \in tail
            THEN [status |-> "SENDING", owner |-> p, age |-> 0] ELSE row[r]
    BY <1>3 DEF Proceed, SetRows
  <2>3. Shape(p)'
    BY <1>0, <2>1, ConstantsAssumption DEF Shape, At, Sending, Working
  <2>4. ClaimsAreFresh(p)'
    <3> SUFFICES ASSUME NEW r \in pass[p].todo, r \in Held(p)'
                 PROVE  row'[r].age <= pass'[p].beat
      BY <2>1 DEF ClaimsAreFresh, Ahead, At
    <3>1. r \in tail
      BY <2>2 DEF Held
    <3> QED BY <2>1, <2>2, <3>1 DEF Held
  <2>5. HoldsRest(p)'
    BY <1>0, <2>1, <2>2 DEF HoldsRest, Held, Lost, TypeOK
  <2> QED BY <2>3, <2>4, <2>5
<1> QED BY <1>1, <1>2, <1>3

LEMMA RecordShape ==
    ASSUME TypeOK, Claims, NEW p \in Passes, RecordSent(p) \/ RecordFailed(p)
    PROVE  Shape(p)' /\ ClaimsAreFresh(p)' /\ HoldsRest(p)'
<1>0. Sending(p) /\ Shape(p) /\ ClaimsAreFresh(p) /\ HoldsRest(p)
  BY DEF Claims, RecordSent, RecordFailed, Record, Sending, At
<1>1. /\ pass'[p].at = "check" /\ pass'[p].todo = pass[p].todo \ {Current(p)}
      /\ pass'[p].beat = pass[p].beat /\ pass'[p].slow = pass[p].slow
  BY DEF RecordSent, RecordFailed, Record, TypeOK
<1>2. \A r \in Rows : r # Current(p) => row'[r] = row[r]
  BY DEF RecordSent, RecordFailed, Record, SetRows
<1>3. Shape(p)'
  BY <1>0, <1>1 DEF Shape, At, Sending, Working
<1>4. ClaimsAreFresh(p)'
  BY <1>0, <1>1, <1>2 DEF ClaimsAreFresh, Ahead, At, Sending, Working, Held
<1>5. HoldsRest(p)'
  BY <1>0, <1>1, <1>2 DEF HoldsRest, Held, Lost, TypeOK
<1> QED BY <1>3, <1>4, <1>5

LEMMA ActingPass ==
    ASSUME TypeOK, Claims, NEW p \in Passes, PassAction(p)
    PROVE  Shape(p)' /\ ClaimsAreFresh(p)' /\ HoldsRest(p)'
<1>1. CASE StartPass(p) \/ SentWriteThrows(p) \/ Deliver(p)
  BY <1>1, MovedOn DEF StartPass, SentWriteThrows, Deliver, At, Sending, PassSteps
<1>2. CASE EndOfBatch(p)
  BY <1>2, MovedOn, StoppedPass DEF EndOfBatch, At, PassSteps
<1>3. CASE StopWhenNotSending(p) \/ Complete(p) \/ Die(p)
  BY <1>3, StoppedPass DEF StopWhenNotSending, Complete, Die
<1>4. CASE CountOutcomes(p)
  <2>1. CASE Stop(p)
    BY <2>1, StoppedPass
  <2>2. CASE ~Stop(p)
    <3>1. pass'[p].at = "finish" /\ pass'[p].todo = pass[p].todo /\ pass[p].todo = {}
      BY <1>4, <2>2 DEF CountOutcomes, TypeOK, Claims, Shape, At, Sending
    <3> QED BY <3>1 DEF Shape, ClaimsAreFresh, HoldsRest, At, Sending, Working
  <2> QED BY <2>1, <2>2
<1> QED BY <1>1, <1>2, <1>3, <1>4, SweepShape, ReadShape, ClaimShape, BatchShape,
           ProceedShape, RecordShape DEF PassAction, PassStep

LEMMA TickClaims == ASSUME TypeOK, Claims, Tick PROVE Claims'
<1>1. \A p \in Passes : Held(p)' = Held(p)
  BY TickFrame DEF Held
<1>2. ASSUME NEW p \in Passes PROVE Shape(p)'
  <2>1. pass[p].beat \in Nat /\ pass[p].slow \in Nat /\ Heartbeat \in Nat /\ MaxDelivery \in Nat
    BY ConstantsAssumption DEF TypeOK
  <2>2. Shape(p)
    BY DEF Claims
  <2> QED BY TickFrame, <2>1, <2>2 DEF Shape, At, Sending, Working
<1>3. ASSUME NEW p \in Passes PROVE ClaimsAreFresh(p)'
  <2>1. (At(p, "claim") => Ahead(p) \cap Held(p) = {})'
    BY TickFrame, <1>1 DEF Claims, ClaimsAreFresh, Ahead, At
  <2>2. ASSUME Working(p)', NEW r \in (Ahead(p) \cap Held(p))'
        PROVE  row'[r].age <= pass'[p].beat
    <3>1. Working(p) /\ r \in Ahead(p) \cap Held(p) /\ r \in Rows
      BY TickFrame, <1>1, <2>2 DEF Working, Ahead, Held
    <3>2. row[r].age <= pass[p].beat /\ pass[p].beat \in Nat
      BY <3>1 DEF Claims, ClaimsAreFresh, TypeOK
    <3> QED BY TickFrame, <3>1, <3>2
  <2> QED BY <2>1, <2>2 DEF ClaimsAreFresh
<1>4. ASSUME NEW p \in Passes PROVE HoldsRest(p)'
  BY TickFrame, <1>1 DEF Claims, HoldsRest, Lost, TypeOK
<1>5. (\A p, q \in Passes : p # q => pass[p].todo \cap pass[q].todo = {})'
  BY TickFrame DEF Claims
<1> QED BY <1>2, <1>3, <1>4, <1>5 DEF Claims

\* A pass only gets more to send by reading its batch, which it then holds.
LEMMA RestShrinks ==
    ASSUME TypeOK, Claims, NEW p \in Passes, PassAction(p)
    PROVE  pass'[p].todo \subseteq pass[p].todo \/ pass'[p].todo \subseteq Held(p)
<1>1. CASE ReadBatch(p)
  BY <1>1 DEF ReadBatch, TypeOK
<1>2. CASE Stop(p)
  BY <1>2, StoppedPass
<1> QED BY <1>1, <1>2
        DEF PassAction, PassStep, StartPass, ReadQueue, EndOfBatch, Sweep, Claim,
            Proceed, RecordSent, RecordFailed, Record, Die, StopWhenNotSending, Deliver,
            CountOutcomes, Complete, SentWriteThrows, Goto, TypeOK

LEMMA StepClaims ==
    ASSUME TypeOK, InTime, Queueing, Claims, [Next]_vars PROVE Claims'
<1>1. ASSUME NEW p \in Passes, PassAction(p) PROVE Claims'
  <2>1. \A q \in Passes \ {p} :
          pass'[q] = pass[q] /\ Shape(q)' /\ ClaimsAreFresh(q)' /\ HoldsRest(q)'
    BY <1>1, Bystander
  <2>2. Shape(p)' /\ ClaimsAreFresh(p)' /\ HoldsRest(p)'
    BY <1>1, ActingPass
  <2>3. ASSUME NEW q \in Passes \ {p} PROVE pass'[p].todo \cap pass[q].todo = {}
    <3>1. pass[p].todo \cap pass[q].todo = {}
      BY DEF Claims
    <3>2. Held(p) \cap pass[q].todo = {}
      BY ConstantsAssumption DEF Claims, HoldsRest, Held, Lost
    <3> QED BY <1>1, <3>1, <3>2, RestShrinks
  <2> QED BY <2>1, <2>2, <2>3 DEF Claims
<1>2. ASSUME NEW u \in Callers, CallAction(u) PROVE Claims'
  BY <1>2, Bystander DEF Claims
<1>3. CASE UNCHANGED vars
  BY <1>3 DEF vars, Claims, Shape, ClaimsAreFresh, HoldsRest, Ahead, Held, Lost, At,
              Sending, Working
<1> QED BY <1>1, <1>2, <1>3, TickClaims, Actors

\* "A live pass never looks abandoned": however many passes run side by side,
\* one that is back at its heartbeat in time (renewClaim) keeps what it has yet
\* to send, and neither requeueStaleClaims nor another pass takes it.
THEOREM LiveClaimsAreHeld == ASSUME InTime PROVE Spec => []LiveClaimIsHeld
<1>1. Init => TypeOK /\ Queueing /\ Claims
  BY InitTypes, InitQueueing, InitClaims
<1>2. TypeOK /\ Queueing /\ Claims /\ [Next]_vars => TypeOK' /\ Queueing' /\ Claims'
  BY StepTypes, StepQueueing, StepClaims
<1>3. Claims => LiveClaimIsHeld
  BY DEF Claims, HoldsRest, Lost, LiveClaimIsHeld
<1> QED BY <1>1, <1>2, <1>3, PTL DEF Spec

\* "Send what we claimed, not what we read": however many passes run side by
\* side, no two of them have the same recipient left to send to, even when one
\* of them claimed from a read the other has overtaken.
THEOREM RecipientsAreNotShared == ASSUME InTime PROVE Spec => []SoleSender
<1>1. Init => TypeOK /\ Queueing /\ Claims
  BY InitTypes, InitQueueing, InitClaims
<1>2. TypeOK /\ Queueing /\ Claims /\ [Next]_vars => TypeOK' /\ Queueing' /\ Claims'
  BY StepTypes, StepQueueing, StepClaims
<1>3. Claims => SoleSender
  BY DEF Claims, SoleSender
<1> QED BY <1>1, <1>2, <1>3, PTL DEF Spec

(***************************************************************************)
(* Nobody is sent to twice.  A recipient is due while a message to it may  *)
(* still go out; it is handed over from the provider's answer to the write *)
(* of the outcome.  Due and not handed over, it has had no more messages   *)
(* than there were crashes.                                                *)
(***************************************************************************)
Due(r) ==
    \/ row[r].status \in Open
    \/ row[r].status = "ABSENT" /\ campaign.status # "GONE"
    \/ \E p \in Passes : r \in pass[p].todo

HandedBy(p, r) ==
    pass[p].at \in {"delivered", "failed"} /\ r \in pass[p].todo /\ r = Current(p)
Handed(r) == \E p \in Passes : HandedBy(p, r)

SentOnce(r) ==
    /\ out[r] <= 1 + deaths
    /\ Due(r) /\ ~Handed(r) => out[r] <= deaths

LEMMA InitSentOnce == Init => \A r \in Rows : SentOnce(r)
BY DEF Init, SentOnce

\* A recipient that is no longer due does not become due again.
LEMMA DueStays ==
    ASSUME TypeOK, Claims, [Next]_vars, NEW r \in Rows, Due(r)'
    PROVE  Due(r)
<1>1. ASSUME NEW p \in Passes, r \in pass'[p].todo PROVE Due(r)
  <2>1. ASSUME NEW q \in Passes, PassAction(q) PROVE r \in pass[p].todo \/ r \in Held(p)
    BY <1>1, <2>1, OtherPasses, RestShrinks
  <2>2. ASSUME NEW u \in Callers, CallAction(u) PROVE r \in pass[p].todo
    BY <1>1, <2>2, CallKeepsPasses
  <2>3. Tick => pass'[p].todo = pass[p].todo
    BY TickFrame
  <2>4. UNCHANGED vars => pass'[p].todo = pass[p].todo
    BY DEF vars
  <2>5. r \in pass[p].todo \/ r \in Held(p)
    BY <1>1, <2>1, <2>2, <2>3, <2>4, Actors
  <2> QED BY <2>5 DEF Due, Held, Open
<1>2. CASE row'[r].status \in Open
  BY <1>2, RowSteps DEF Moves, Due, Open
<1>3. CASE row'[r].status = "ABSENT" /\ campaign'.status # "GONE"
  BY <1>3, RowSteps, CampaignSteps DEF Moves, Due, Open
<1> QED BY <1>1, <1>2, <1>3 DEF Due

\* A recipient handed over stays so until the pass records the outcome or dies.
LEMMA HandedStays ==
    ASSUME TypeOK, [Next]_vars, NEW p \in Passes, NEW r \in Rows, HandedBy(p, r)
    PROVE  HandedBy(p, r)' \/ RecordSent(p) \/ RecordFailed(p) \/ Die(p)
<1>1. ASSUME pass'[p].todo = pass[p].todo, pass'[p].at \in {"delivered", "failed"}
      PROVE  HandedBy(p, r)'
  BY <1>1 DEF HandedBy, Current
<1>2. ASSUME NEW q \in Passes \ {p}, PassAction(q) PROVE HandedBy(p, r)'
  BY <1>1, <1>2, OtherPasses DEF HandedBy
<1>3. CASE PassAction(p)
  <2>1. CASE SentWriteThrows(p)
    BY <1>1, <2>1 DEF SentWriteThrows, Goto, TypeOK
  <2> QED BY <1>3, <2>1
          DEF PassAction, PassStep, StartPass, ReadQueue, ReadBatch, EndOfBatch, Sweep,
              Claim, Proceed, StopWhenNotSending, Deliver, CountOutcomes, Complete,
              HandedBy, At
<1>4. ASSUME NEW u \in Callers, CallAction(u) PROVE HandedBy(p, r)'
  BY <1>1, <1>4, CallKeepsPasses DEF HandedBy
<1>5. CASE Tick
  <2>1. pass'[p].todo = pass[p].todo /\ pass'[p].at = pass[p].at
    BY <1>5, TickFrame
  <2> QED BY <1>1, <2>1 DEF HandedBy
<1>6. CASE UNCHANGED vars
  BY <1>1, <1>6 DEF vars, HandedBy
<1> QED BY <1>2, <1>3, <1>4, <1>5, <1>6, Actors

\* Once the outcome is recorded the recipient is not due any more.
LEMMA RecordedIsDone ==
    ASSUME TypeOK, Queueing, Claims, NEW p \in Passes, NEW r \in Rows, HandedBy(p, r),
           RecordSent(p) \/ RecordFailed(p)
    PROVE  ~Due(r)'
<1>1. /\ pass'[p].todo = pass[p].todo \ {r} /\ r \in pass[p].todo /\ r = Current(p)
      /\ UNCHANGED campaign /\ ~At(p, "off")
  BY DEF RecordSent, RecordFailed, Record, TypeOK, HandedBy, At
<1>2. \A q \in Passes : r \notin pass'[q].todo
  BY <1>1, OtherPasses DEF Claims, PassAction, PassStep
<1>3. row'[r].status \notin Open
      /\ (row'[r].status = "ABSENT" => campaign.status = "GONE")
  <2>1. CASE r \in Held(p)
    <3>1. row'[r].status \in {"SENT", "FAILED"}
      BY <1>1, <2>1 DEF RecordSent, RecordFailed, Record, SetRows
    <3> QED BY <3>1 DEF Open
  <2>2. CASE r \notin Held(p)
    <3>1. row'[r] = row[r]
      BY <1>1, <2>2 DEF RecordSent, RecordFailed, Record, SetRows
    <3>2. Lost(r)
      BY <1>1, <2>2 DEF Claims, HoldsRest
    <3> QED BY <1>1, <3>1, <3>2 DEF Lost, Open, Queueing, Ready, Written
  <2> QED BY <2>1, <2>2
<1> QED BY <1>1, <1>2, <1>3 DEF Due

LEMMA StepSentOnce ==
    ASSUME TypeOK, Queueing, Claims, [Next]_vars, NEW r \in Rows, SentOnce(r)
    PROVE  SentOnce(r)'
<1>0. out[r] \in Nat /\ deaths \in Nat /\ deaths' \in Nat /\ deaths' >= deaths
  <2>1. deaths' = deaths \/ deaths' = deaths + 1
    BY DEF Next, PassStep, StartPass, ReadQueue, ReadBatch, EndOfBatch, Sweep, Claim,
           Proceed, RecordSent, RecordFailed, Record, Die, StopWhenNotSending, Deliver,
           CountOutcomes, Complete, SentWriteThrows, Ask, FireDue, AskQueue, AskCancel,
           AskEdit, AskRemove, Asks, CallStep, WriteRecipients, MarkSending,
           CancelScheduled, CancelRows, CancelProgress, CancelCampaign, Edit,
           RemoveCampaign, Refused, CallDies, Tick, vars
  <2> QED BY <2>1, ConstantsAssumption DEF TypeOK
<1>1. ASSUME NEW p \in Passes, Deliver(p), r = Current(p), out'[r] # out[r]
      PROVE  SentOnce(r)'
  <2>1. pass[p].todo # {} /\ At(p, "deliver")
    BY <1>1 DEF Deliver, Claims, Shape, Sending, At
  <2>2. r \in pass[p].todo
    BY <1>1, <2>1, CurrentIsNext
  <2>3. Due(r) /\ ~Handed(r)
    BY <2>1, <2>2 DEF Due, Handed, HandedBy, At, Claims
  <2>4. out'[r] = out[r] + 1 /\ deaths' = deaths
    BY <1>1 DEF Deliver, TypeOK
  <2>5. pass'[p].at \in {"delivered", "failed"} /\ pass'[p].todo = pass[p].todo
    BY <1>1 DEF Deliver, Goto, TypeOK
  <2>6. Handed(r)'
    BY <1>1, <2>2, <2>5 DEF Handed, HandedBy, Current
  <2> QED BY <1>0, <2>3, <2>4, <2>6 DEF SentOnce
<1>2. CASE out'[r] = out[r]
  <2>1. out'[r] <= 1 + deaths'
    BY <1>0, <1>2 DEF SentOnce
  <2>2. ASSUME Due(r)', ~Handed(r)' PROVE out'[r] <= deaths'
    <3>1. Due(r)
      BY <2>2, DueStays
    <3>2. CASE ~Handed(r)
      BY <1>0, <1>2, <3>1, <3>2 DEF SentOnce
    <3>3. CASE Handed(r)
      <4>1. PICK p \in Passes : HandedBy(p, r)
        BY <3>3 DEF Handed
      <4>2. Die(p)
        BY <2>2, <4>1, HandedStays, RecordedIsDone DEF Handed
      <4>3. deaths' = deaths + 1
        BY <4>2 DEF Die
      <4> QED BY <1>0, <1>2, <4>3 DEF SentOnce
    <3> QED BY <3>2, <3>3
  <2> QED BY <2>1, <2>2 DEF SentOnce
<1>3. UNCHANGED out \/ \E p \in Passes : Deliver(p)
  BY DEF Next, PassStep, StartPass, ReadQueue, ReadBatch, EndOfBatch, Sweep, Claim,
         Proceed, RecordSent, RecordFailed, Record, Die, StopWhenNotSending,
         CountOutcomes, Complete, SentWriteThrows, Ask, FireDue, AskQueue, AskCancel,
         AskEdit, AskRemove, Asks, CallStep, WriteRecipients, MarkSending,
         CancelScheduled, CancelRows, CancelProgress, CancelCampaign, Edit,
         RemoveCampaign, Refused, CallDies, Tick, vars
<1>4. ASSUME NEW p \in Passes, Deliver(p), out'[r] # out[r] PROVE r = Current(p)
  BY <1>4 DEF Deliver, TypeOK
<1> QED BY <1>1, <1>2, <1>3, <1>4

\* "Nobody is emailed twice": whatever passes run side by side, a recipient is
\* sent a second message only if a pass died between sending and recording.
THEOREM NobodyIsSentTwice == ASSUME InTime PROVE Spec => []NobodySentTwice
<1>1. Init => TypeOK /\ Queueing /\ Claims /\ \A r \in Rows : SentOnce(r)
  BY InitTypes, InitQueueing, InitClaims, InitSentOnce
<1>2. TypeOK /\ Queueing /\ Claims /\ (\A r \in Rows : SentOnce(r)) /\ [Next]_vars
        => TypeOK' /\ Queueing' /\ Claims' /\ (\A r \in Rows : SentOnce(r))'
  BY StepTypes, StepQueueing, StepClaims, StepSentOnce
<1>3. (\A r \in Rows : SentOnce(r)) => NobodySentTwice
  BY DEF SentOnce, NobodySentTwice
<1> QED BY <1>1, <1>2, <1>3, PTL DEF Spec

(***************************************************************************)
(* The totals add up.                                                      *)
(***************************************************************************)
Settled == InStatus(Open) = {}

\* A pass about to complete the campaign has counted it with nothing outstanding.
Totals ==
    /\ CompletedAddsUp
    /\ campaign.status # "GONE" =>
          \A p \in Passes : At(p, "finish") => Settled /\ pass[p].counts = CountsNow

LEMMA SettledStays ==
    ASSUME TypeOK, [Next]_vars, Written, campaign'.status # "GONE", Settled
    PROVE  Settled' /\ CountsNow' = CountsNow
<1>1. \A r \in Rows : row'[r].status = row[r].status
  BY RowSteps DEF Written, Settled, InStatus, Moves, Open
<1>2. \A S : InStatus(S)' = InStatus(S)
  BY <1>1 DEF InStatus
<1> QED BY <1>2 DEF Settled, CountsNow

LEMMA SameRows == UNCHANGED row => (Settled' <=> Settled) /\ CountsNow' = CountsNow
<1>1. UNCHANGED row => \A S : InStatus(S)' = InStatus(S)
  BY DEF InStatus
<1> QED BY <1>1 DEF Settled, CountsNow

\* A pass is at its last write only after it counted with nothing outstanding.
LEMMA FinishAfterCount ==
    ASSUME TypeOK, [Next]_vars, NEW p \in Passes, At(p, "finish")'
    PROVE  \/ At(p, "finish") /\ pass'[p].counts = pass[p].counts
           \/ UNCHANGED row /\ Settled /\ pass'[p].counts = CountsNow
<1>1. CASE PassAction(p)
  <2>1. CASE CountOutcomes(p)
    <3>1. ~Stop(p)
      BY <2>1 DEF Stop, OffPass, At, TypeOK
    <3>2. Settled /\ pass'[p].counts = CountsNow /\ UNCHANGED row
      BY <2>1, <3>1 DEF CountOutcomes, TypeOK, Settled
    <3> QED BY <3>2
  <2>2. CASE ~CountOutcomes(p)
    BY <1>1, <2>2
       DEF PassAction, PassStep, StartPass, ReadQueue, ReadBatch, EndOfBatch, Sweep, Claim,
           Proceed, RecordSent, RecordFailed, Record, Die, StopWhenNotSending, Deliver,
           Complete, SentWriteThrows, Goto, Stop, OffPass, TypeOK, At
  <2> QED BY <2>1, <2>2
<1>2. ASSUME NEW q \in Passes \ {p}, PassAction(q)
      PROVE  At(p, "finish") /\ pass'[p].counts = pass[p].counts
  BY <1>2, OtherPasses DEF At
<1>3. ASSUME NEW u \in Callers, CallAction(u)
      PROVE  At(p, "finish") /\ pass'[p].counts = pass[p].counts
  BY <1>3, CallKeepsPasses DEF At
<1>4. Tick => pass'[p].at = pass[p].at /\ pass'[p].counts = pass[p].counts
  BY TickFrame
<1> QED BY <1>1, <1>2, <1>3, <1>4, Actors DEF At, vars

LEMMA StepTotals ==
    ASSUME TypeOK, Queueing, Totals, [Next]_vars PROVE Totals'
<1>0. campaign.status = "GONE" => campaign'.status = "GONE"
  BY CampaignSteps
<1>1. CompletedAddsUp'
  <2> SUFFICES ASSUME campaign'.status = "COMPLETED"
               PROVE  Settled' /\ campaign'.counts = CountsNow'
    BY DEF CompletedAddsUp, Settled
  <2>1. CASE UNCHANGED campaign
    <3>1. Written /\ Settled /\ campaign.counts = CountsNow
      BY <2>1 DEF Queueing, Totals, CompletedAddsUp, Settled
    <3> QED BY <2>1, <3>1, SettledStays
  <2>2. CASE ~UNCHANGED campaign
    <3>1. PICK p \in Passes : At(p, "finish") /\ campaign'.counts = pass[p].counts
      BY <2>2, CampaignSteps
    <3>2. UNCHANGED row /\ campaign.status = "SENDING"
      BY <2>2, CampaignSteps
    <3>3. Settled /\ pass[p].counts = CountsNow
      BY <3>1, <3>2 DEF Totals
    <3> QED BY <3>1, <3>2, <3>3, SameRows
  <2> QED BY <2>1, <2>2
<1>2. ASSUME campaign'.status # "GONE", NEW p \in Passes, At(p, "finish")'
      PROVE  Settled' /\ pass'[p].counts = CountsNow'
  <2>1. CASE At(p, "finish") /\ pass'[p].counts = pass[p].counts
    <3>1. Written
      BY <1>0, <1>2, <2>1 DEF Queueing, Ready, At
    <3>2. Settled /\ pass[p].counts = CountsNow
      BY <1>0, <1>2, <2>1 DEF Totals
    <3> QED BY <1>2, <2>1, <3>1, <3>2, SettledStays
  <2>2. CASE UNCHANGED row /\ Settled /\ pass'[p].counts = CountsNow
    BY <2>2, SameRows
  <2> QED BY <1>2, <2>1, <2>2, FinishAfterCount
<1> QED BY <1>1, <1>2 DEF Totals

\* "The totals add up": a completed campaign has no recipient outstanding and
\* its counts are those of its rows, whoever queued, cancelled or edited it in
\* the meantime and whichever pass completed it.
THEOREM CompletedTotalsAddUp == Spec => []CompletedAddsUp
<1>1. Init => TypeOK /\ Queueing /\ Totals
  <2>1. Init => Totals
    BY DEF Init, Totals, CompletedAddsUp, OffPass, At
  <2> QED BY <2>1, InitTypes, InitQueueing
<1>2. TypeOK /\ Queueing /\ Totals /\ [Next]_vars => TypeOK' /\ Queueing' /\ Totals'
  BY StepTypes, StepQueueing, StepTotals
<1>3. Totals => CompletedAddsUp
  BY DEF Totals
<1> QED BY <1>1, <1>2, <1>3, PTL DEF Spec

(***************************************************************************)
(* A cancelled campaign stays cancelled while one caller works on it: no   *)
(* other holds a read from before the cancellation, whatever passes run.   *)
(***************************************************************************)
OneCaller == \A u, v \in Callers : u = v

NobodyGoesOn ==
    campaign.status = "CANCELLED" => \A u \in Callers : user[u].at \in {"idle", "delete"}

\* What a call leaves of a campaign it finds cancelled, or cancels.
LEMMA CallEnds ==
    ASSUME TypeOK, OneCaller, NobodyGoesOn, NEW u \in Callers, CallAction(u)
    PROVE  /\ NobodyGoesOn'
           /\ campaign.status = "CANCELLED" => campaign'.status \in {"CANCELLED", "GONE"}
<1>1. \A step : Then(u, step) => user'[u].at = step
  BY DEF Then, TypeOK
<1>2. Finished(u) => user'[u].at = "idle"
  BY DEF Finished, IdleUser, TypeOK
<1>3. \A v \in Callers : v = u
  BY DEF OneCaller
<1>4. CASE Ask(u) \/ FireDue(u)
  <2>1. PICK accepted, step :
          /\ Asks(u, accepted, step)
          /\ "CANCELLED" \in accepted => step = "delete"
    BY <1>4 DEF Ask, FireDue, AskQueue, AskCancel, AskEdit, AskRemove
  <2> QED BY <1>1, <1>3, <2>1 DEF Asks, NobodyGoesOn
<1>5. CASE WriteRecipients(u) \/ CancelRows(u) \/ CancelProgress(u)
  <2>1. campaign.status # "CANCELLED" /\ UNCHANGED campaign
    BY <1>5 DEF WriteRecipients, CancelRows, CancelProgress, Doing, NobodyGoesOn
  <2> QED BY <2>1 DEF NobodyGoesOn
<1>6. CASE MarkSending(u) \/ Edit(u)
  <2>1. campaign.status # "CANCELLED"
    BY <1>6 DEF MarkSending, Edit, Doing, NobodyGoesOn
  <2>2. campaign'.status \in {"SENDING", "DRAFT", "SCHEDULED"}
    BY <1>6 DEF MarkSending, Edit, TypeOK
  <2> QED BY <2>1, <2>2 DEF NobodyGoesOn
<1>7. CASE CancelScheduled(u) \/ CancelCampaign(u) \/ RemoveCampaign(u)
  <2>1. campaign'.status \in {"CANCELLED", "GONE"} /\ Finished(u)
    BY <1>7 DEF CancelScheduled, CancelCampaign, RemoveCampaign, TypeOK
  <2> QED BY <1>2, <1>3, <2>1 DEF NobodyGoesOn
<1>8. CASE Refused(u) \/ CallDies(u)
  <2>1. UNCHANGED campaign /\ Finished(u)
    BY <1>8 DEF Refused, CallDies
  <2> QED BY <1>2, <1>3, <2>1 DEF NobodyGoesOn
<1> QED BY <1>4, <1>5, <1>6, <1>7, <1>8 DEF CallAction, CallStep

LEMMA StepCancelled ==
    ASSUME TypeOK, OneCaller, NobodyGoesOn, [Next]_vars
    PROVE  /\ NobodyGoesOn'
           /\ campaign.status = "CANCELLED" => campaign'.status \in {"CANCELLED", "GONE"}
<1>1. ASSUME NEW p \in Passes, PassAction(p)
      PROVE  /\ UNCHANGED user
             /\ \/ UNCHANGED campaign
                \/ campaign.status = "SENDING" /\ campaign'.status = "COMPLETED"
  <2>1. CASE Complete(p)
    BY <2>1 DEF Complete, TypeOK
  <2>2. CASE ~Complete(p)
    BY <1>1, <2>2 DEF PassAction, PassStep, StartPass, ReadQueue, ReadBatch, EndOfBatch, Sweep,
                      Claim, Proceed, RecordSent, RecordFailed, Record, Die,
                      StopWhenNotSending, Deliver, CountOutcomes, SentWriteThrows
  <2> QED BY <2>1, <2>2
<1>2. CASE \E p \in Passes : PassAction(p)
  BY <1>1, <1>2 DEF NobodyGoesOn
<1>3. CASE Tick \/ UNCHANGED vars
  BY <1>3 DEF Tick, vars, NobodyGoesOn
<1> QED BY <1>2, <1>3, CallEnds, Actors

\* Cancelling stops a campaign before or part-way through its send: while one
\* caller at a time works on it, no pass that is sending, or about to complete
\* it, and no later call sends, completes or schedules it again.
THEOREM CancelledIsFinal == ASSUME OneCaller PROVE Spec => CancelledStaysCancelled
<1>1. Init => NobodyGoesOn
  BY DEF Init, NobodyGoesOn
<1>2. TypeOK /\ NobodyGoesOn /\ [Next]_vars => NobodyGoesOn'
  BY StepCancelled
<1>3. TypeOK /\ NobodyGoesOn /\ [Next]_vars =>
        [campaign.status = "CANCELLED" => campaign'.status \in {"CANCELLED", "GONE"}]_campaign
  BY StepCancelled
<1> QED BY <1>1, <1>2, <1>3, TypesHold, PTL DEF Spec, CancelledStaysCancelled
=============================================================================
