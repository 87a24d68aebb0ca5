---------------------------- MODULE TableChoice ----------------------------
(***************************************************************************)
(* Which tables a party may be given: the contract of                      *)
(* select_table_allocation (migration 011), independent of how it searches.*)
(***************************************************************************)
EXTENDS Integers, FiniteSets, FiniteSetsExt

CONSTANT Tables        \* restaurant table numbers

ASSUME TablesAssumption == IsFiniteSet(Tables)

Capacities == [Tables -> Nat \ {0}]

SeatsIn(tables, cap) == MapThenSumSet(LAMBDA t : cap[t], tables)

\* What select_table_allocation may answer: a sufficient combination of the
\* free tables with the fewest tables and, among those, the fewest seats.
\* Every tie is possible, since the rank is drawn at random.
BestAllocations(free, cap, party) ==
    LET sufficient == {S \in SUBSET free : SeatsIn(S, cap) >= party}
        fewest     == {S \in sufficient :
                         \A T \in sufficient : Cardinality(S) <= Cardinality(T)}
    IN  {S \in fewest :
            \A T \in fewest : SeatsIn(S, cap) <= SeatsIn(T, cap)}

=============================================================================
