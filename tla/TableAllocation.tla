-------------------------- MODULE TableAllocation --------------------------
(***************************************************************************)
(* How select_table_allocation (migration 011) finds its answer: a fast    *)
(* path for one table, one for all tables, and a search that splits the    *)
(* free tables in two halves, finds the best number of tables and of seats *)
(* and then walks to the combination of the drawn rank.                    *)
(*                                                                         *)
(* One behaviour is one call.  Sets of tables stand for the masks and the  *)
(* ascending arrays of the temporary tables.  The caller passes distinct   *)
(* positive table numbers in order and positive capacities (008: 454-467). *)
(***************************************************************************)
EXTENDS TableChoice

CONSTANTS
    SeatChoices,     \* the capacities a table may have
    Parties,         \* p_party_size of the calls
    TieRanks,        \* p_tie_rank of the calls
    NoRank           \* p_tie_rank left out: the rank is drawn at random

ASSUME AllocationAssumption ==
    /\ Tables \subseteq Nat \ {0}
    /\ SeatChoices \subseteq Nat \ {0}
    /\ Parties \subseteq Int
    /\ TieRanks \subseteq Int \cup {NoRank}
    /\ NoRank \notin Int

VARIABLES
    free, seats, party, tieRank,   \* the arguments
    stage,
    best,        \* best_table_count, best_capacity and best_tie_count
    rank,        \* chosen_rank
    remaining,   \* remaining_rank
    passed,      \* the left halves the walk is done with
    winner,
    outcome

arguments == <<free, seats, party, tieRank>>
walk == <<remaining, passed>>
callVars == <<arguments, stage, best, rank, walk, winner, outcome>>

Init ==
    /\ free \in SUBSET Tables
    /\ seats \in [free -> SeatChoices]
    /\ party \in Parties
    /\ tieRank \in TieRanks
    /\ stage = "check"
    /\ best = [count |-> 0, seats |-> 0, ties |-> 0]
    /\ rank = 0 /\ remaining = 0
    /\ passed = {}
    /\ winner = {}
    /\ outcome = "none"

-----------------------------------------------------------------------------
(* The halves and their subsets *)

Position(t) == Cardinality({u \in free : u <= t})

LeftHalf  == {t \in free : Position(t) <= Cardinality(free) \div 2}
RightHalf == free \ LeftHalf

\* ORDER BY an ascending array: the first difference decides, and a prefix
\* comes first.
ArrayBefore(S, T) ==
    /\ S # T
    /\ LET first == Min(SymDiff(S, T))
       IN  IF first \in S THEN \E t \in T : t > first
                          ELSE ~\E t \in S : t > first

\* ORDER BY ... OFFSET k - 1 LIMIT 1.
Nth(Before(_, _), S, k) ==
    CHOOSE x \in S : Cardinality({y \in S : Before(y, x)}) = k - 1

\* Mutant of Completions: a group that seats exactly the rest is not enough.
Completions_Strict(left, count) ==
    {right \in SUBSET RightHalf :
        /\ Cardinality(right) = count - Cardinality(left)
        /\ SeatsIn(right, seats) > party - SeatsIn(left, seats)}

\* Right subsets that complete `left` to `count` tables and enough seats.
Completions(left, count) ==
    {right \in SUBSET RightHalf :
        /\ Cardinality(right) = count - Cardinality(left)
        /\ SeatsIn(right, seats) >= party - SeatsIn(left, seats)}

\* The right group joined to `left` once the best numbers are known.
Group(left) ==
    {right \in SUBSET RightHalf :
        /\ Cardinality(right) = best.count - Cardinality(left)
        /\ SeatsIn(left, seats) + SeatsIn(right, seats) = best.seats}

-----------------------------------------------------------------------------
(* Control *)

GoOn(next) == stage' = next /\ UNCHANGED <<winner, outcome>>

Answer(tables) ==
    /\ winner' = tables
    /\ stage' = "done"
    /\ outcome' = "allocated"

Give(what) ==
    /\ stage' = "done"
    /\ outcome' = what
    /\ UNCHANGED winner

\* COALESCE(p_tie_rank, floor(random() * ties) + 1)
Ranks(ties) == IF tieRank = NoRank THEN 1..ties ELSE {tieRank}

Seats(t) == seats[t]

Sufficient == {t \in free : Seats(t) >= party}

\* Mutant of Check: a party that needs every seat is turned away.
Check_AllSeatsRefused ==
    /\ stage = "check"
    /\ IF party <= 0 THEN Give("raised")
       ELSE IF free = {} \/ SeatsIn(free, seats) <= party THEN Give("no_rows")
       ELSE GoOn(CASE Sufficient # {}               -> "single"
                   [] SeatsIn(free, seats) = party  -> "all"
                   [] OTHER                         -> "count")
    /\ UNCHANGED <<arguments, best, rank, walk>>

Check ==
    /\ stage = "check"
    /\ IF party <= 0 THEN Give("raised")
       ELSE IF free = {} \/ SeatsIn(free, seats) < party THEN Give("no_rows")
       ELSE GoOn(CASE Sufficient # {}               -> "single"
                   [] SeatsIn(free, seats) = party  -> "all"
                   [] OTHER                         -> "count")
    /\ UNCHANGED <<arguments, best, rank, walk>>

-----------------------------------------------------------------------------
(* The fast paths *)

\* Mutant of SingleBefore: plain order of the table numbers.
SingleBefore_Plain(t, u) == t < u

\* Single tables of the right half come first, as in the general search.
SingleBefore(t, u) ==
    \/ t \in RightHalf /\ u \in LeftHalf
    \/ t < u /\ (t \in LeftHalf <=> u \in LeftHalf)

PickSingle ==
    LET least == Min({Seats(t) : t \in Sufficient})
        tied  == {t \in free : Seats(t) = least}
        ties  == Cardinality(tied)
    IN
    /\ stage = "single"
    /\ best' = [count |-> 1, seats |-> least, ties |-> ties]
    /\ \E r \in Ranks(ties) :
        /\ rank' = r
        /\ IF r \in 1..ties THEN Answer({Nth(SingleBefore, tied, r)})
                            ELSE Give("raised")
    /\ UNCHANGED <<arguments, walk>>

TakeAll ==
    /\ stage = "all"
    /\ best' = [count |-> Cardinality(free), seats |-> SeatsIn(free, seats), ties |-> 1]
    /\ rank' = 1
    /\ IF tieRank \in {NoRank, 1} THEN Answer(free) ELSE Give("raised")
    /\ UNCHANGED <<arguments, walk>>

-----------------------------------------------------------------------------
(* The search *)

CountTables ==
    /\ stage = "count"
    /\ best' = [best EXCEPT !.count =
          Min({c \in 1..Cardinality(free) :
                  \E left \in SUBSET LeftHalf : Completions(left, c) # {}})]
    /\ GoOn("seats")
    /\ UNCHANGED <<arguments, rank, walk>>

CountSeats ==
    /\ stage = "seats"
    /\ best' = [best EXCEPT !.seats =
          Min(UNION {{SeatsIn(left \cup right, seats) :
                         right \in Completions(left, best.count)} :
                     left \in SUBSET LeftHalf})]
    /\ GoOn("ties")
    /\ UNCHANGED <<arguments, rank, walk>>

CountTies ==
    LET ties == MapThenSumSet(LAMBDA left : Cardinality(Group(left)), SUBSET LeftHalf)
    IN
    /\ stage = "ties"
    /\ best' = [best EXCEPT !.ties = ties]
    /\ IF ties <= 0 THEN Give("invariant_failed") /\ UNCHANGED <<rank, remaining>>
       ELSE \E r \in Ranks(ties) :
               /\ rank' = r
               /\ remaining' = r
               /\ IF r \in 1..ties THEN GoOn("walk") ELSE Give("raised")
    /\ UNCHANGED <<arguments, passed>>

\* The candidate rows of the loop: left halves with a group, in array order.
CandidateHalves == {left \in (SUBSET LeftHalf) \ passed : Group(left) # {}}

\* Mutant of Walk: a group whose size is the remaining rank is passed over.
Walk_PassesLast ==
    /\ stage = "walk"
    /\ IF CandidateHalves = {} THEN Give("invariant_failed") /\ UNCHANGED walk
       ELSE LET left == Nth(ArrayBefore, CandidateHalves, 1) IN
            IF remaining >= Cardinality(Group(left))
            THEN /\ remaining' = remaining - Cardinality(Group(left))
                 /\ passed' = passed \cup {left}
                 /\ UNCHANGED <<stage, winner, outcome>>
            ELSE /\ Answer(left \cup Nth(ArrayBefore, Group(left), remaining))
                 /\ UNCHANGED walk
    /\ UNCHANGED <<arguments, best, rank>>

Walk ==
    /\ stage = "walk"
    /\ IF CandidateHalves = {} THEN Give("invariant_failed") /\ UNCHANGED walk
       ELSE LET left == Nth(ArrayBefore, CandidateHalves, 1) IN
            IF remaining > Cardinality(Group(left))
            THEN /\ remaining' = remaining - Cardinality(Group(left))
                 /\ passed' = passed \cup {left}
                 /\ UNCHANGED <<stage, winner, outcome>>
            ELSE LET chosen == left \cup Nth(ArrayBefore, Group(left), remaining) IN
                 /\ IF Cardinality(chosen) = best.count
                    THEN Answer(chosen) ELSE Give("invariant_failed")
                 /\ UNCHANGED walk
    /\ UNCHANGED <<arguments, best, rank>>

Next == Check \/ PickSingle \/ TakeAll
        \/ CountTables \/ CountSeats \/ CountTies \/ Walk

Spec == Init /\ [][Next]_callVars

-----------------------------------------------------------------------------
(* The function as migration 006 created it, without the fast paths *)

OriginalCount ==
    Min({c \in 1..Cardinality(free) :
            \E left \in SUBSET LeftHalf : Completions(left, c) # {}})

OriginalSeats ==
    Min(UNION {{SeatsIn(left \cup right, seats) :
                   right \in Completions(left, OriginalCount)} :
               left \in SUBSET LeftHalf})

\* The loop over the candidate rows ends at the left half whose group holds
\* the rank once the groups before it have been passed.
OriginalWinner(r) ==
    LET rights == [left \in SUBSET LeftHalf |->
                     {right \in Completions(left, OriginalCount) :
                         SeatsIn(left \cup right, seats) = OriginalSeats}]
        before == [left \in SUBSET LeftHalf |->
                     MapThenSumSet(LAMBDA l : Cardinality(rights[l]),
                                   {l \in SUBSET LeftHalf : ArrayBefore(l, left)})]
        left   == CHOOSE l \in SUBSET LeftHalf :
                     before[l] < r /\ r <= before[l] + Cardinality(rights[l])
    IN  left \cup Nth(ArrayBefore, rights[left], r - before[left])

-----------------------------------------------------------------------------
(* What the answer is worth *)

Best == BestAllocations(free, seats, party)

\* Every path answers with a combination of the fewest tables and then the
\* fewest seats, and reports its seats and the number of ties truly.  The
\* booking transaction relies on it (011: 69-219, 008: 469-490).
AllocationIsBest ==
    outcome = "allocated" =>
        /\ winner \in Best
        /\ best.seats = SeatsIn(winner, seats)
        /\ best.ties = Cardinality(Best)

\* The order of the general search: left half first, then right half.
AllocatedBefore(S, T) ==
    \/ ArrayBefore(S \cap LeftHalf, T \cap LeftHalf)
    \/ /\ S \cap LeftHalf = T \cap LeftHalf
       /\ ArrayBefore(S \cap RightHalf, T \cap RightHalf)

\* All paths number the ties in one order: the answer for a rank is the same
\* whichever path finds it, and distinct ranks give distinct answers, so a
\* uniform rank is a uniform choice (011: 84-93 "preserve the approved
\* general-path deterministic rank ordering", 193-216).
RankIsPosition ==
    outcome = "allocated" =>
        Cardinality({S \in Best : AllocatedBefore(S, winner)}) = rank - 1

\* Migration 011 changes no answer: for every rank, its fast paths give the
\* tables, the seats and the ties that the search of migration 006 gives
\* ("semantics-preserving", database/README.md:64).
SameAsOriginal ==
    outcome = "allocated" /\ (best.count = 1 \/ winner = free) =>
        /\ winner = OriginalWinner(rank)
        /\ best.count = OriginalCount /\ best.seats = OriginalSeats

\* No answer means that none exists, an error that the arguments were wrong;
\* the internal invariant errors P6502 are never raised (011: 43-72, 186-190,
\* 217-219).
RefusalsAreRight ==
    /\ outcome = "no_rows" => Best = {}
    /\ outcome = "raised" => party <= 0 \/ tieRank \notin {NoRank} \cup 1..Cardinality(Best)
    /\ outcome # "invariant_failed"
=============================================================================
