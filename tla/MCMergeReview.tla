---------------------------- MODULE MCMergeReview ----------------------------
(* One pull request whose branch moves under two overlapping passes. *)
EXTENDS MergeReview
=============================================================================
