---------------------------- MODULE MCFeatureLoop ----------------------------
(* A specification in two slices, and two overlapping reconciler passes. *)
EXTENDS FeatureLoop
=============================================================================
