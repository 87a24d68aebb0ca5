----------------------------- MODULE MCService -----------------------------
(***************************************************************************)
(* Instances of ServiceProperties for TLC: a booking and a newsletter      *)
(* change that share a pool of one connection.                             *)
(***************************************************************************)
EXTENDS ServiceProperties, SampleRequests

CONSTANTS booking, other
=============================================================================
