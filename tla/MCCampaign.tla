------------------------------ MODULE MCCampaign ------------------------------
(* Campaign for TLC; the .cfg files give the constants.                        *)
EXTENDS Campaign

=============================================================================
