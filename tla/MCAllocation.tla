---------------------------- MODULE MCAllocation ----------------------------
(***************************************************************************)
(* All calls of select_table_allocation with up to five free tables.       *)
(***************************************************************************)
EXTENDS TableAllocation

MCTables == 1..5
MCSeatChoices == 1..3
MCParties == 0..12
MCTieRanks == {NoRank, 0, 2, 4}
=============================================================================
