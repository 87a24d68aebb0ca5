--------------------------- MODULE NewsletterForm ---------------------------
(***************************************************************************)
(* The newsletter form of the web site: NewsletterPreferences.jsx around   *)
(* the status look-up, and the requests it has under way.  Each step is    *)
(* one event of the browser with the render and the effects it causes: the *)
(* customer types or clicks, a timer fires, an answer arrives.  A request  *)
(* whose answer was lost may still reach the server afterwards.            *)
(***************************************************************************)
EXTENDS StatusLookup

CONSTANTS
    NoBody,
    MaxEdits,     \* bound: clicks on the checkbox
    MaxSaves      \* bound: OP-04 requests

ASSUME FormAssumption == NoBody \notin [about : Identities, subscribed : BOOLEAN]

VARIABLES
    pending, recovery, result,
    save,       \* the OP-04 request under way
    saves,      \* how many there have been
    unresolved, \* history: bodies sent since the form last held no recovery
    late        \* requests the server may still carry out

saving == <<pending, recovery, result, save, saves, unresolved, late>>
vars   == <<values, box, looking, stored, saving>>

NoSave == [body |-> NoBody, answer |-> "none"]

Init ==
    /\ LookupInit
    /\ pending = FALSE /\ recovery = NoBody /\ result = "none"
    /\ save = NoSave /\ saves = 0 /\ unresolved = {}
    /\ late = {}

locked == pending \/ recovery # NoBody

Type(identity) ==
    /\ ~locked
    /\ result' = "none"
    /\ TypeIdentity(identity)
    /\ UNCHANGED <<box, stored, pending, recovery, save, saves, unresolved, late>>

Retry == ~locked /\ RetryLookup /\ UNCHANGED <<values, box, stored, saving>>

Toggle ==
    /\ ~locked
    /\ edits < MaxEdits
    /\ ClickBox
    /\ result' = "none"
    /\ UNCHANGED <<values, looking, stored, pending, recovery, save, saves, unresolved, late>>

\* sendPreference, up to the await.
Send(body) ==
    /\ ~pending
    /\ saves < MaxSaves
    /\ saves' = saves + 1
    /\ pending' = TRUE
    /\ result' = "none"
    /\ save' = [body |-> body, answer |-> "none"]
    /\ unresolved' = unresolved \cup {body}
    /\ UNCHANGED <<values, box, looking, stored, recovery, late>>

Displayed == [about |-> values, subscribed |-> checked]

\* The submit button is there only without a recovery; an incomplete identity
\* is turned back by the form.
Submit == values # Incomplete /\ recovery = NoBody /\ Send(Displayed)

\* Mutant of Resend: the body is built again from the form.
Resend_FromForm == recovery # NoBody /\ Send(Displayed)

Resend == recovery # NoBody /\ Send(recovery)

\* "Leave unresolved", also while a resend is under way.
Abandon ==
    /\ recovery # NoBody
    /\ recovery' = NoBody
    /\ result' = "none"
    /\ unresolved' = IF pending THEN {save.body} ELSE {}
    /\ UNCHANGED <<values, box, looking, stored, pending, save, saves, late>>

\* What set_newsletter_preference leaves behind.
After(body) ==
    IF stored[body.about] = "none" /\ ~body.subscribed THEN stored
    ELSE [stored EXCEPT ![body.about] = IF body.subscribed THEN "on" ELSE "off"]

\* OP-04 at the server: carried out and answered, refused (validation or
\* identity), failed with nothing done, or the answer lost; then the change
\* may be made now, later or never.
ServerSaves ==
    /\ pending /\ save.answer = "none"
    /\ \/ /\ save.body.about \notin Strangers
          /\ stored' = After(save.body)
          /\ save' = [save EXCEPT !.answer = "set"]
          /\ UNCHANGED late
       \/ /\ \E failure \in {"refused", "temporary_failure", "internal_error"} :
                save' = [save EXCEPT !.answer = failure]
          /\ UNCHANGED <<stored, late>>
       \/ /\ save' = [save EXCEPT !.answer = "unknown"]
          /\ late' = late \cup ({save.body} \ [about : Strangers, subscribed : BOOLEAN])
          /\ UNCHANGED stored
    /\ UNCHANGED <<values, box, looking, pending, recovery, result, saves, unresolved>>

ServerCatchesUp(body) ==
    /\ stored' = After(body)
    /\ late' = late \ {body}
    /\ UNCHANGED <<values, box, looking, pending, recovery, result, save, saves, unresolved>>

\* The rest of sendPreference, after the await.
SaveAnswered ==
    /\ pending /\ save.answer # "none"
    /\ pending' = FALSE
    /\ save' = NoSave
    /\ IF save.answer = "set"
       THEN /\ checked' = save.body.subscribed
            /\ choice' = 0
            /\ recovery' = NoBody
            /\ result' = "saved"
       ELSE /\ recovery' = IF save.answer \in {"unknown", "temporary_failure"}
                           THEN save.body ELSE NoBody
            /\ result' = IF save.answer = "refused" THEN "none" ELSE "error"
            /\ UNCHANGED <<checked, choice>>
    /\ unresolved' = IF recovery' = NoBody THEN {} ELSE unresolved
    /\ UNCHANGED <<values, edits, looking, stored, saves, late>>

-----------------------------------------------------------------------------
Next ==
    \/ \E identity \in Identities \cup {Incomplete} : Type(identity)
    \/ Retry
    \/ LookupNext /\ UNCHANGED saving
    \/ Toggle
    \/ Submit \/ Resend \/ Abandon \/ ServerSaves \/ SaveAnswered
    \/ \E body \in late : ServerCatchesUp(body)

Spec == Init /\ [][Next]_vars

-----------------------------------------------------------------------------
(* What the customer may rely on, besides the properties of StatusLookup *)

\* While the outcome of a save is open, every request sent asks for the same:
\* the lock, the resend and the look-up answers that arrive meanwhile never
\* put a second, different change on its way (NewsletterPreferences.jsx:39,
\* 81 and 132).
OneUnresolvedBody == Cardinality(unresolved) <= 1
=============================================================================
