----------------------------- MODULE MCRateLimit -----------------------------
(* Instances of RateLimit for TLC; the constants are in the .cfg files. *)
EXTENDS RateLimit
=============================================================================
