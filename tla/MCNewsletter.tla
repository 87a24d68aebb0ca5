---------------------------- MODULE MCNewsletter ----------------------------
(***************************************************************************)
(* Instances of NewsletterForm for TLC: a customer and a second identity   *)
(* whose names do not match the stored ones.                               *)
(***************************************************************************)
EXTENDS NewsletterForm

CONSTANTS ann, eve
=============================================================================
