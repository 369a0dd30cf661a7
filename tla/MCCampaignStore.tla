--------------------------- MODULE MCCampaignStore ---------------------------
(* The campaign store for TLC; MCCampaignStore.cfg gives the constants.       *)
EXTENDS CampaignStore

=============================================================================
