-------------------------- MODULE MCCampaignProposal --------------------------
(* Two pods, two cycles, two candidates. *)
EXTENDS CampaignProposal
=============================================================================
