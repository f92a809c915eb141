------------------------- MODULE CampaignProperties -------------------------
(***************************************************************************)
(* What sending a campaign must guarantee.                                 *)
(***************************************************************************)
EXTENDS CampaignDispatch

\* Every variable keeps its type: the statuses are those of the enum and of the
\* code, and a claim's age is known up to the moment it turns stale.
TypeOK ==
    /\ campaign \in [source : Sources, status : Statuses, counts : Counts]
    /\ row \in [Rows -> [status : RowStatuses, owner : Passes \cup {NoPass},
                         age : 0..(Stale + 1)]]
    /\ out \in [Rows -> Nat]
    /\ pass \in [Passes -> [at : PassSteps, queued : SUBSET Rows, todo : SUBSET Rows,
                            beat : Nat, slow : Nat, counts : Counts]]
    /\ user \in [Callers -> [at : UserSteps, counts : Counts]]
    /\ deaths \in 0..MaxDeaths

\* "Nobody is emailed twice": while passes come back to their heartbeat in
\* time, a recipient gets a second message only when a pass died in between.
NobodySentTwice == \A r \in Rows : out[r] <= 1 + deaths

\* "A live pass never looks abandoned": what a running pass has yet to send is
\* its own, or was cancelled; no sweep and no other pass has taken it.
LiveClaimIsHeld ==
    \A p \in Passes : \A r \in pass[p].todo :
        r \in Held(p) \/ row[r].status \in {"CANCELLED", "ABSENT"}

\* "The totals add up": a completed campaign has no recipient outstanding, and
\* its counts are those of its rows.
CompletedAddsUp ==
    campaign.status = "COMPLETED" =>
        InStatus(Open) = {} /\ campaign.counts = CountsNow

\* "Send what we claimed, not what we read": two passes that run side by side
\* never have the same recipient left to send to.
SoleSender ==
    \A p, q \in Passes : p # q => pass[p].todo \cap pass[q].todo = {}

\* The outcome of a recipient is written once: a sent, failed or cancelled row
\* changes no more, whatever pass still holds it in memory.
OutcomeIsFinal ==
    [][\A r \in Rows : row[r].status \in {"SENT", "FAILED", "CANCELLED"} =>
          row'[r].status \in {row[r].status, "ABSENT"}]_row

\* Cancelling "stops a campaign before, or part-way through, its send": a
\* cancelled campaign is not sent, completed or scheduled again.
CancelledStaysCancelled ==
    [][campaign.status = "CANCELLED" => campaign'.status \in {"CANCELLED", "GONE"}]_campaign

\* "The drain really is resumable": a campaign that is SENDING does not stay so,
\* whatever passes die, because orphaned rows go back to the queue.
DrainEnds == campaign.status = "SENDING" ~> campaign.status # "SENDING"

\* "Cron: fire due scheduled campaigns": a campaign does not stay SCHEDULED for
\* ever once the cron finds it due.
ScheduledIsFired == campaign.status = "SCHEDULED" ~> campaign.status # "SCHEDULED"
=============================================================================
