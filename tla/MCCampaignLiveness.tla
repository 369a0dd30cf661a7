-------------------------- MODULE MCCampaignLiveness --------------------------
(* CampaignLiveness for TLC; the .cfg files give the constants.                *)
EXTENDS CampaignLiveness

=============================================================================
