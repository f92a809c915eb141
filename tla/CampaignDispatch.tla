-------------------------- MODULE CampaignDispatch --------------------------
(***************************************************************************)
(* Sending one CRM campaign: CampaignDispatchService and the operations of *)
(* CrmCampaignsService that change what it works on.                       *)
(*                                                                         *)
(* Drain passes run side by side, because the cron fires every five minutes*)
(* whether or not the last one has ended, and because queueing a campaign  *)
(* starts a pass of its own.  A pass claims a batch of recipient rows,     *)
(* sends to each, and writes the outcome; it can die at any point.  Every  *)
(* database call is a step.  Users queue, cancel, edit and delete the      *)
(* campaign, reading it first and writing it later.                        *)
(*                                                                         *)
(* Time is counted in units of CLAIM_HEARTBEAT_MS.  Instead of timestamps  *)
(* a row carries the age of its claimed_at, and its owner: the pass whose  *)
(* stamp it holds.                                                         *)
(***************************************************************************)
EXTENDS Integers, FiniteSets

CONSTANTS
    Users,          \* users working on the campaign at once
    Crons,          \* cron ticks that may be firing due campaigns at once
    Passes,         \* drain passes that can run at once
    Customers,      \* how many customers the campaign addresses
    Sources,        \* the values recipient_source may take
    BatchSize,      \* CAMPAIGN_BATCH_SIZE
    Heartbeat,      \* CLAIM_HEARTBEAT_MS
    Stale,          \* STALE_CLAIM_MS
    MaxDelivery,    \* bound on the time between two heartbeat checks of a pass
    MaxDeaths,      \* bound: passes and calls that die
    NoPass

Statuses == {"DRAFT", "SCHEDULED", "SENDING", "COMPLETED", "CANCELLED", "GONE"}
RowStatuses == {"ABSENT", "PENDING", "SENDING", "SENT", "FAILED", "CANCELLED"}
Open == {"PENDING", "SENDING"}

Rows == 1..Customers
Callers == Users \cup Crons

ASSUME ConstantsAssumption ==
    /\ Customers \in Nat \ {0} /\ BatchSize \in Nat \ {0}
    /\ Heartbeat \in Nat \ {0} /\ Stale \in Nat /\ MaxDelivery \in Nat \ {0}
    /\ MaxDeaths \in Nat
    /\ Sources \subseteq {"UPLOAD", "SEGMENT"}
    /\ NoPass \notin Passes
    /\ Users \cap Crons = {}

VARIABLES
    campaign,       \* the crm_campaigns row: source, status and counts
    row,            \* the crm_campaign_recipients row of each customer
    out,            \* messages a provider took for each row
    pass,           \* the drain passes
    user,           \* what each caller is in the middle of
    deaths          \* passes and calls that died

vars == <<campaign, row, out, pass, user, deaths>>

PassSteps == {"off", "sweep", "read", "claim", "batch", "check", "deliver",
              "delivered", "failed", "count", "finish"}
UserSteps == {"idle", "write", "mark", "cancelScheduled", "flip", "progress",
              "close", "edit", "delete"}

Counts == [delivered : Nat, failed : Nat]
NoCounts == [delivered |-> 0, failed |-> 0]

NoRow == [status |-> "ABSENT", owner |-> NoPass, age |-> 0]
NewRow == [status |-> "PENDING", owner |-> NoPass, age |-> 0]

OffPass == [at |-> "off", queued |-> {}, todo |-> {}, beat |-> 0, slow |-> 0,
            counts |-> NoCounts]
IdleUser == [at |-> "idle", counts |-> NoCounts]

InStatus(S) == {r \in Rows : row[r].status \in S}
CountsNow == [delivered |-> Cardinality(InStatus({"SENT"})),
              failed |-> Cardinality(InStatus({"FAILED"}))]

\* The rows a pass still owns: its conditional updates match these.
Held(p) == {r \in Rows : row[r].status = "SENDING" /\ row[r].owner = p}

\* The lowest ids of a set of rows, and the next recipient of a pass.
FirstRows(S) == {r \in S : Cardinality({q \in S : q < r}) < BatchSize}
Current(p) == CHOOSE r \in pass[p].todo : \A q \in pass[p].todo : r <= q

At(p, step) == pass[p].at = step
Goto(p, step) == pass' = [pass EXCEPT ![p].at = step]
Stop(p) == pass' = [pass EXCEPT ![p] = OffPass]

SetRows(S, value) == row' = [r \in Rows |-> IF r \in S THEN value ELSE row[r]]

(***************************************************************************)
(* drainCampaign.                                                          *)
(***************************************************************************)
\* Called by queue and by the cron, for a campaign that is SENDING.
StartPass(p) ==
    /\ At(p, "off")
    /\ campaign.status = "SENDING"
    /\ Goto(p, "sweep")
    /\ UNCHANGED <<campaign, row, out, user, deaths>>

\* Broken: a claim is stale as soon as its first heartbeat is due.
SweepYoung(p) ==
    /\ At(p, "sweep")
    /\ SetRows({r \in InStatus({"SENDING"}) : row[r].age >= Heartbeat}, NewRow)
    /\ Goto(p, "read")
    /\ UNCHANGED <<campaign, out, user, deaths>>

\* Broken: orphaned rows are left where they are.
SweepNothing(p) ==
    /\ At(p, "sweep")
    /\ Goto(p, "read")
    /\ UNCHANGED <<campaign, row, out, user, deaths>>

\* requeueStaleClaims.
Sweep(p) ==
    /\ At(p, "sweep")
    /\ SetRows({r \in InStatus({"SENDING"}) : row[r].age > Stale}, NewRow)
    /\ Goto(p, "read")
    /\ UNCHANGED <<campaign, out, user, deaths>>

ReadQueue(p) ==
    /\ At(p, "read")
    /\ LET queued == FirstRows(InStatus({"PENDING"}))
       IN  pass' = [pass EXCEPT ![p].queued = queued,
                                ![p].at = IF queued = {} THEN "count" ELSE "claim"]
    /\ UNCHANGED <<campaign, row, out, user, deaths>>

\* Broken: the rows that were read are claimed, whoever has them by now.
ClaimBlindly(p) ==
    /\ At(p, "claim")
    /\ SetRows(pass[p].queued, [status |-> "SENDING", owner |-> p, age |-> 0])
    /\ Goto(p, "batch")
    /\ UNCHANGED <<campaign, out, user, deaths>>

\* Rows that are no longer PENDING are not claimed; none claimed ends the pass.
Claim(p) ==
    LET mine == pass[p].queued \cap InStatus({"PENDING"})
    IN  /\ At(p, "claim")
        /\ SetRows(mine, [status |-> "SENDING", owner |-> p, age |-> 0])
        /\ IF mine = {} THEN Stop(p) ELSE Goto(p, "batch")
        /\ UNCHANGED <<campaign, out, user, deaths>>

\* "Send what we claimed, not what we read."
ReadBatch(p) ==
    /\ At(p, "batch")
    /\ pass' = [pass EXCEPT ![p].todo = pass[p].queued \cap Held(p),
                            ![p].at = "check"]
    /\ UNCHANGED <<campaign, row, out, user, deaths>>

\* The head of the loop: the end of the batch, a campaign no longer SENDING,
\* a heartbeat that is due and finds the claim gone, or one more recipient.
EndOfBatch(p) ==
    /\ At(p, "check")
    /\ pass[p].todo = {}
    /\ IF Cardinality(pass[p].queued) < BatchSize THEN Goto(p, "count") ELSE Stop(p)
    /\ UNCHANGED <<campaign, row, out, user, deaths>>

\* isStillSending.
StopWhenNotSending(p) ==
    /\ At(p, "check")
    /\ pass[p].todo # {}
    /\ campaign.status # "SENDING"
    /\ Stop(p)
    /\ UNCHANGED <<campaign, row, out, user, deaths>>

BeatDue(p) == pass[p].beat >= Heartbeat

\* Broken: there is no heartbeat.
ProceedWithoutBeat(p) ==
    /\ At(p, "check")
    /\ pass[p].todo # {}
    /\ campaign.status = "SENDING"
    /\ pass' = [pass EXCEPT ![p].at = "deliver", ![p].slow = 0]
    /\ UNCHANGED <<campaign, row, out, user, deaths>>

\* renewClaim.
Proceed(p) ==
    LET tail == pass[p].todo \cap Held(p)
    IN  /\ At(p, "check")
        /\ pass[p].todo # {}
        /\ campaign.status = "SENDING"
        /\ IF ~BeatDue(p)
           THEN /\ pass' = [pass EXCEPT ![p].at = "deliver", ![p].slow = 0]
                /\ UNCHANGED row
           ELSE /\ SetRows(tail, [status |-> "SENDING", owner |-> p, age |-> 0])
                /\ IF tail = {} THEN Stop(p)
                   ELSE pass' = [pass EXCEPT ![p].at = "deliver", ![p].slow = 0,
                                             ![p].beat = 0]
        /\ UNCHANGED <<campaign, out, user, deaths>>

\* deliver: whether the provider takes the message and whether the call returns
\* are two things.  sendSms answers "sent" without a key, with the breaker open
\* and when the request fails; and a call may time out on a message that went.
Deliver(p) ==
    /\ At(p, "deliver")
    /\ \/ out' = [out EXCEPT ![Current(p)] = @ + 1]
       \/ UNCHANGED out
    /\ Goto(p, "delivered") \/ Goto(p, "failed")
    /\ UNCHANGED <<campaign, row, user, deaths>>

\* Broken: the row is found by its id alone.
RecordById(p, step, outcome) ==
    /\ At(p, step)
    /\ SetRows({Current(p)}, [status |-> outcome, owner |-> NoPass, age |-> 0])
    /\ pass' = [pass EXCEPT ![p].todo = @ \ {Current(p)}, ![p].at = "check"]
    /\ UNCHANGED <<campaign, out, user, deaths>>

\* The outcome is written only to a row this pass still owns.
Record(p, step, outcome) ==
    LET r == Current(p)
    IN  /\ At(p, step)
        /\ SetRows({r} \cap Held(p),
                   [status |-> outcome, owner |-> NoPass, age |-> 0])
        /\ pass' = [pass EXCEPT ![p].todo = @ \ {r}, ![p].at = "check"]
        /\ UNCHANGED <<campaign, out, user, deaths>>

\* Broken: a status nothing else knows.
RecordMisspelt(p) == Record(p, "delivered", "DELIVERED")

RecordSent(p) == Record(p, "delivered", "SENT")
RecordFailed(p) == Record(p, "failed", "FAILED")

\* The write of SENT is inside the try: when it throws, the catch writes FAILED.
SentWriteThrows(p) ==
    /\ At(p, "delivered")
    /\ Goto(p, "failed")
    /\ UNCHANGED <<campaign, row, out, user, deaths>>

\* Broken: outstanding rows are not looked for.
CountUnchecked(p) ==
    /\ At(p, "count")
    /\ pass' = [pass EXCEPT ![p].at = "finish", ![p].counts = CountsNow]
    /\ UNCHANGED <<campaign, row, out, user, deaths>>

\* complete: nothing outstanding, then the counts, then the guarded update.
CountOutcomes(p) ==
    /\ At(p, "count")
    /\ IF InStatus(Open) # {} THEN Stop(p)
       ELSE pass' = [pass EXCEPT ![p].at = "finish", ![p].counts = CountsNow]
    /\ UNCHANGED <<campaign, row, out, user, deaths>>

\* Broken: the campaign is completed whatever its status.
CompleteAnyway(p) ==
    /\ At(p, "finish")
    /\ campaign' = [campaign EXCEPT !.status = "COMPLETED",
                                        !.counts = pass[p].counts]
    /\ Stop(p)
    /\ UNCHANGED <<row, out, user, deaths>>

Complete(p) ==
    /\ At(p, "finish")
    /\ campaign' = IF campaign.status = "SENDING"
                   THEN [campaign EXCEPT !.status = "COMPLETED",
                                         !.counts = pass[p].counts]
                   ELSE campaign
    /\ Stop(p)
    /\ UNCHANGED <<row, out, user, deaths>>

\* A crash, a redeploy or a database error ends a pass and leaves its rows
\* claimed by nobody.
Die(p) ==
    /\ ~At(p, "off")
    /\ deaths < MaxDeaths
    /\ deaths' = deaths + 1
    /\ row' = [r \in Rows |-> IF r \in Held(p) THEN [row[r] EXCEPT !.owner = NoPass]
                                               ELSE row[r]]
    /\ Stop(p)
    /\ UNCHANGED <<campaign, out, user>>

\* Time passes while claims age.  A pass that has claimed comes back to its
\* heartbeat check within MaxDelivery.
Working(p) == pass[p].at \in {"batch", "check", "deliver", "delivered", "failed"}

Tick ==
    /\ \A p \in Passes : Working(p) => pass[p].slow < MaxDelivery
    /\ pass' = [p \in Passes |-> IF Working(p)
                  THEN [pass[p] EXCEPT !.slow = @ + 1, !.beat = @ + 1] ELSE pass[p]]
    /\ row' = [r \in Rows |-> IF row[r].status = "SENDING" /\ row[r].age <= Stale
                  THEN [row[r] EXCEPT !.age = @ + 1] ELSE row[r]]
    /\ UNCHANGED <<campaign, out, user, deaths>>

(***************************************************************************)
(* Callers: queue, cancel, update, remove.  The read and its refusal come  *)
(* first; no later write looks at the status again.                        *)
(***************************************************************************)
Doing(u, step) == user[u].at = step
Then(u, step) == user' = [user EXCEPT ![u].at = step]
Finished(u) == user' = [user EXCEPT ![u] = IdleUser]

Asks(u, accepted, step) ==
    /\ Doing(u, "idle")
    /\ campaign.status \in accepted
    /\ Then(u, step)
    /\ UNCHANGED <<campaign, row, out, pass, deaths>>

AskQueue(u) == Asks(u, {"DRAFT", "SCHEDULED"}, "write")

\* processCampaigns: the campaigns that are due.
FireDue(c) == Asks(c, {"SCHEDULED"}, "write")

AskCancel(u) == Asks(u, {"SCHEDULED"}, "cancelScheduled") \/ Asks(u, {"SENDING"}, "flip")
AskEdit(u) == Asks(u, {"DRAFT", "SCHEDULED"}, "edit")
AskRemove(u) == Asks(u, Statuses \ {"SENDING", "GONE"}, "delete")

\* Broken: a customer the campaign already has gets a fresh row.
WriteDuplicates(u) ==
    /\ Doing(u, "write")
    /\ campaign.status # "GONE"
    /\ SetRows(IF campaign.source = "SEGMENT" THEN Rows ELSE {}, NewRow)
    /\ Then(u, "mark")
    /\ UNCHANGED <<campaign, out, pass, deaths>>

\* queue: the recipients of a segment are written, those of an upload counted.
\* skipDuplicates drops a customer the campaign already has; writing none is
\* "No eligible recipients found".
WriteRecipients(u) ==
    LET new == IF campaign.source = "SEGMENT" THEN InStatus({"ABSENT"}) ELSE {}
    IN  /\ Doing(u, "write")
        /\ campaign.status # "GONE"
        /\ SetRows(new, NewRow)
        /\ IF campaign.source = "SEGMENT" /\ new = {} THEN Finished(u) ELSE Then(u, "mark")
        /\ UNCHANGED <<campaign, out, pass, deaths>>

MarkSending(u) ==
    /\ Doing(u, "mark")
    /\ campaign.status # "GONE"
    /\ campaign' = [campaign EXCEPT !.status = "SENDING"]
    /\ Finished(u)
    /\ UNCHANGED <<row, out, pass, deaths>>

CancelScheduled(u) ==
    /\ Doing(u, "cancelScheduled")
    /\ campaign.status # "GONE"
    /\ campaign' = [campaign EXCEPT !.status = "CANCELLED"]
    /\ Finished(u)
    /\ UNCHANGED <<row, out, pass, deaths>>

CancelRows(u) ==
    /\ Doing(u, "flip")
    /\ SetRows(InStatus(Open), [status |-> "CANCELLED", owner |-> NoPass, age |-> 0])
    /\ Then(u, "progress")
    /\ UNCHANGED <<campaign, out, pass, deaths>>

CancelProgress(u) ==
    /\ Doing(u, "progress")
    /\ user' = [user EXCEPT ![u] = [at |-> "close", counts |-> CountsNow]]
    /\ UNCHANGED <<campaign, row, out, pass, deaths>>

CancelCampaign(u) ==
    /\ Doing(u, "close")
    /\ campaign.status # "GONE"
    /\ campaign' = [campaign EXCEPT !.status = "CANCELLED",
                                    !.counts = user[u].counts]
    /\ Finished(u)
    /\ UNCHANGED <<row, out, pass, deaths>>

\* update: setting or clearing scheduled_at sets the status with it.
Edit(u) ==
    /\ Doing(u, "edit")
    /\ campaign.status # "GONE"
    /\ \E s \in {"DRAFT", "SCHEDULED"} : campaign' = [campaign EXCEPT !.status = s]
    /\ Finished(u)
    /\ UNCHANGED <<row, out, pass, deaths>>

RemoveCampaign(u) ==
    /\ Doing(u, "delete")
    /\ campaign' = [campaign EXCEPT !.status = "GONE"]
    /\ SetRows(Rows, NoRow)
    /\ Finished(u)
    /\ UNCHANGED <<out, pass, deaths>>

\* A write to a campaign that is gone throws.
Refused(u) ==
    /\ user[u].at \in {"write", "mark", "cancelScheduled", "close", "edit", "delete"}
    /\ campaign.status = "GONE"
    /\ Finished(u)
    /\ UNCHANGED <<campaign, row, out, pass, deaths>>

\* A crash, a redeploy or a database error between two statements.
CallDies(u) ==
    /\ ~Doing(u, "idle")
    /\ deaths < MaxDeaths
    /\ deaths' = deaths + 1
    /\ Finished(u)
    /\ UNCHANGED <<campaign, row, out, pass>>

(***************************************************************************)
(* The specification.                                                      *)
(***************************************************************************)
Init ==
    /\ \E s \in {"DRAFT", "SCHEDULED"}, source \in Sources :
          campaign = [source |-> source, status |-> s, counts |-> NoCounts]
    /\ row = [r \in Rows |-> IF campaign.source = "UPLOAD" THEN NewRow ELSE NoRow]
    /\ out = [r \in Rows |-> 0]
    /\ pass = [p \in Passes |-> OffPass]
    /\ user = [u \in Callers |-> IdleUser]
    /\ deaths = 0

PassStep(p) ==
    \/ Sweep(p) \/ ReadQueue(p) \/ Claim(p) \/ ReadBatch(p)
    \/ EndOfBatch(p) \/ StopWhenNotSending(p) \/ Proceed(p) \/ Deliver(p)
    \/ RecordSent(p) \/ RecordFailed(p) \/ CountOutcomes(p) \/ Complete(p)

Ask(u) == AskQueue(u) \/ AskCancel(u) \/ AskEdit(u) \/ AskRemove(u)

CallStep(u) ==
    \/ WriteRecipients(u) \/ MarkSending(u) \/ CancelScheduled(u)
    \/ CancelRows(u) \/ CancelProgress(u) \/ CancelCampaign(u)
    \/ Edit(u) \/ RemoveCampaign(u) \/ Refused(u)

Next ==
    \/ \E p \in Passes : StartPass(p) \/ PassStep(p) \/ SentWriteThrows(p) \/ Die(p)
    \/ \E u \in Users : Ask(u)
    \/ \E c \in Crons : FireDue(c)
    \/ \E u \in Callers : CallStep(u) \/ CallDies(u)
    \/ Tick

\* The cron keeps firing due campaigns and starting passes, a pass and a call
\* keep going, and time goes on.
Fairness ==
    /\ \A p \in Passes : WF_vars(StartPass(p)) /\ WF_vars(PassStep(p))
    /\ \A c \in Crons : WF_vars(FireDue(c)) /\ WF_vars(CallStep(c))
    /\ WF_vars(Tick)

Spec == Init /\ [][Next]_vars /\ Fairness
=============================================================================
