---------------------------- MODULE StatusLookup ----------------------------
(***************************************************************************)
(* The newsletter status look-up that both forms of the web site run       *)
(* (useNewsletterLookup.js), with the identity fields and the checkbox it  *)
(* serves.  A form EXTENDS this module and adds its own variables.  An     *)
(* effect sets a timer, the timer sends a query, the server reads, and the *)
(* answer arrives: late, out of order, or never.                           *)
(***************************************************************************)
EXTENDS Naturals, FiniteSets

CONSTANTS
    Identities,   \* identities that pass validateIdentity, normalised
    Strangers,    \* those whose names do not match the stored customer
    Incomplete,   \* field values that do not pass
    MaxEffects    \* bound: runs of the effect that the customer causes

ASSUME LookupAssumption ==
    /\ Strangers \subseteq Identities
    /\ Incomplete \notin Identities

VARIABLES
    values,     \* the identity the fields hold
    checked,    \* the checkbox
    choice,     \* choiceVersion
    edits,      \* history: clicks on the checkbox so far
    lookup,     \* what the look-up shows, and about whom
    sequence,   \* sequence.current
    queries,    \* OP-03: timers and requests
    stored      \* the server: "none", "on" or "off" for each customer

box     == <<checked, choice, edits>>
looking == <<lookup, sequence, queries>>

Nobody == [state |-> "not_checked", about |-> Incomplete]

LookupInit ==
    /\ values = Incomplete
    /\ checked = FALSE
    /\ choice = 0 /\ edits = 0
    /\ lookup = Nobody
    /\ sequence = 0
    /\ queries = {}
    /\ stored \in [Identities -> {"none", "on", "off"}]
    /\ \A i \in Strangers : stored[i] # "none"

\* The effect: the timer of the run before is cleared, a new one is set.
RunEffect(identity) ==
    /\ sequence' = sequence + 1
    /\ IF identity = Incomplete
       THEN /\ queries' = {q \in queries : q.stage # "waiting"}
            /\ lookup' = Nobody
       ELSE /\ queries' = {q \in queries : q.stage # "waiting"} \cup
                 {[sequence |-> sequence + 1, about |-> identity,
                   choice |-> choice, edits |-> edits, stage |-> "waiting"]}
            /\ lookup' = [state |-> "waiting", about |-> identity]

Becomes(q, stage) == queries' = (queries \ {q}) \cup {[q EXCEPT !.stage = stage]}

TimerFires(q) ==
    /\ q.stage = "waiting"
    /\ Becomes(q, "sent")
    /\ lookup' = [lookup EXCEPT !.state = "checking"]
    /\ UNCHANGED <<values, box, sequence, stored>>

\* OP-03 reads one committed row, or fails: indeterminate and read_failure
\* offer a retry, any other error does not.
ServerReads(q) ==
    /\ q.stage = "sent"
    /\ \/ Becomes(q, CASE q.about \in Strangers      -> "conflict"
                       [] stored[q.about] = "none"   -> "not_found"
                       [] stored[q.about] = "on"     -> "matched_on"
                       [] stored[q.about] = "off"    -> "matched_off")
       \/ \E failure \in {"indeterminate", "error"} : Becomes(q, failure)
    /\ UNCHANGED <<values, box, lookup, sequence, stored>>

\* The answer counts if no later effect has run and the fields still hold the
\* identity it was asked for.
Current(q) == q.sequence = sequence /\ q.about = values

\* onUntouchedResult, the same in both forms.
Synchronized(answer) ==
    CASE answer = "matched_on"                   -> TRUE
      [] answer \in {"matched_off", "not_found"} -> FALSE
      [] OTHER                                   -> checked

\* Mutant of LookupAnswered: the sequence and the identity are not compared.
LookupAnswered_AnyAnswer(q) ==
    /\ q.stage \notin {"waiting", "sent"}
    /\ queries' = queries \ {q}
    /\ lookup' = [state |-> q.stage, about |-> q.about]
    /\ checked' = IF q.choice = 0 /\ choice = 0 THEN Synchronized(q.stage) ELSE checked
    /\ UNCHANGED <<values, choice, edits, sequence, stored>>

\* Mutant of LookupAnswered: the choice version at the answer is not compared.
LookupAnswered_AnyChoice(q) ==
    /\ q.stage \notin {"waiting", "sent"}
    /\ queries' = queries \ {q}
    /\ IF Current(q)
       THEN /\ lookup' = [state |-> q.stage, about |-> q.about]
            /\ checked' = IF q.choice = 0 THEN Synchronized(q.stage) ELSE checked
       ELSE UNCHANGED <<lookup, checked>>
    /\ UNCHANGED <<values, choice, edits, sequence, stored>>

LookupAnswered(q) ==
    /\ q.stage \notin {"waiting", "sent"}
    /\ queries' = queries \ {q}
    /\ IF Current(q)
       THEN /\ lookup' = [state |-> q.stage, about |-> q.about]
            /\ checked' = IF q.choice = 0 /\ choice = 0
                          THEN Synchronized(q.stage) ELSE checked
       ELSE UNCHANGED <<lookup, checked>>
    /\ UNCHANGED <<values, choice, edits, sequence, stored>>

LookupNext == \E q \in queries : TimerFires(q) \/ ServerReads(q) \/ LookupAnswered(q)

\* The customer's share, guarded by the form: typing runs the effect, and so
\* does the retry button; a click on the box makes the choice deliberate.
TypeIdentity(identity) ==
    /\ sequence < MaxEffects
    /\ values' = identity
    /\ RunEffect(identity)

RetryLookup ==
    /\ sequence < MaxEffects
    /\ lookup.state = "indeterminate"
    /\ RunEffect(values)

ClickBox ==
    /\ checked' = ~checked
    /\ choice' = choice + 1
    /\ edits' = edits + 1

-----------------------------------------------------------------------------
(* What a form may rely on *)

\* What the look-up shows is about the person the fields name, whatever order
\* the answers come in (useNewsletterLookup.js:24-33).
LookupIsCurrent == lookup.state # "not_checked" => lookup.about = values

\* A box the customer has clicked and not yet saved is changed only by the
\* next click or by the answer to a save (useNewsletterLookup.js:27).
DirtyChoiceKept ==
    [][choice > 0 /\ choice' = choice => checked' = checked]_<<checked, choice>>

\* An answer to a look-up that began before the customer's last click never
\* changes the box: "A user edit always wins over a late lookup" (REACT-02,
\* section 12.2), and the edit version is monotonic (section 11.2).
EditWins ==
    [][\A q \in queries :
          q \notin queries' /\ q.stage \notin {"waiting", "sent"} /\ q.edits < edits
          => checked' = checked]_<<queries, checked, edits>>
=============================================================================
