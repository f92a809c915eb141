----------------------------- MODULE MCCampaign -----------------------------
(* Small instances of CampaignDispatch for TLC. *)
EXTENDS CampaignProperties, TLC

CONSTANTS p1, p2, u1, u2, c1
=============================================================================
