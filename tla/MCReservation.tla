---------------------------- MODULE MCReservation ----------------------------
(***************************************************************************)
(* The instance of ReservationForm for TLC: one customer, who may book     *)
(* twice, and two party sizes, which nothing tells apart.                  *)
(***************************************************************************)
EXTENDS ReservationForm, TLC

CONSTANTS ann, pair, party, noon

PartySymmetry == Permutations({pair, party})
=============================================================================
