--------------------------- MODULE ReservationForm ---------------------------
(***************************************************************************)
(* The reservation page of the web site: ReservationFeature.jsx around the *)
(* status look-up.  The context is loaded; the customer chooses a date and *)
(* a party size, checks availability, selects a start, fills in the        *)
(* details and reserves.  Availability answers and look-up answers arrive  *)
(* in any order; the answer to a booking may be lost, and the booking may  *)
(* then still be made.                                                     *)
(***************************************************************************)
EXTENDS StatusLookup

CONSTANTS
    Keys,          \* pairs of a date and a party size within the limits
    NoKey,         \* fields that are empty or outside them
    Starts, NoStart,
    NoBody,
    MaxRequests,   \* bound: availabilitySequence, while the customer chooses
    MaxEdits,      \* bound: clicks on the checkbox
    MaxSends       \* bound: OP-05 requests

NewsletterActions == {"no_change", "subscribe", "unsubscribe"}

Bodies == [about : Identities, key : Keys, start : Starts,
           newsletter_action : NewsletterActions]

ASSUME ReservationFormAssumption ==
    /\ NoKey \notin Keys /\ NoStart \notin Starts
    /\ NoBody \notin Bodies

VARIABLES
    context,              \* "loading", "ready" or "error"
    key,                  \* the date and the party size in the fields
    availability,         \* the slots shown, and the check they come from
    selectedStart,
    availabilitySequence,
    checks,               \* OP-02 requests without an answer
    pending, recovery, confirmation,
    feedback,             \* "none", "shown" or "refresh" with its button
    booking,              \* the OP-05 request under way
    sends,                \* how many there have been
    unresolved,           \* history: bodies sent since there was no recovery
    chosen,               \* history: the last click since the form was emptied
    booked,               \* the server: reservations
    late                  \* requests the server may still carry out

schedule == <<availability, selectedStart, availabilitySequence, checks>>
sending  == <<pending, recovery, confirmation, feedback, booking, sends, unresolved>>
server   == <<booked, late>>
form     == <<context, key, schedule, sending, chosen, server>>
vars     == <<values, box, looking, stored, form>>

Idle == [status |-> "idle", key |-> NoKey, request |-> 0, available |-> {}]
NoBooking == [body |-> NoBody, answer |-> "none"]

Init ==
    /\ LookupInit
    /\ context = "loading"
    /\ key = NoKey
    /\ availability = Idle /\ selectedStart = NoStart
    /\ availabilitySequence = 0 /\ checks = {}
    /\ pending = FALSE /\ recovery = NoBody /\ confirmation = FALSE
    /\ feedback = "none"
    /\ booking = NoBooking /\ sends = 0 /\ unresolved = {}
    /\ chosen = "none"
    /\ booked = {} /\ late = {}

\* ReservationContextBoundary: the form is there once the context is; the
\* retry button is there once a load has failed.
ContextAnswered ==
    /\ context = "loading"
    /\ context' \in {"ready", "error"}
    /\ UNCHANGED <<values, box, looking, stored, key, schedule, sending, chosen, server>>

LoadAgain ==
    /\ context = "error"
    /\ context' = "loading"
    /\ UNCHANGED <<values, box, looking, stored, key, schedule, sending, chosen, server>>

locked == pending \/ recovery # NoBody

\* The fields take input: the confirmation replaces the form.
Open == context = "ready" /\ ~confirmation /\ ~locked

-----------------------------------------------------------------------------
(* Date, party size and start *)

\* changeDate, changeParty, with invalidateAvailability.
ChangeKey(k) ==
    /\ Open
    /\ availabilitySequence < MaxRequests
    /\ key' = k
    /\ availabilitySequence' = availabilitySequence + 1
    /\ availability' = Idle
    /\ selectedStart' = NoStart
    /\ UNCHANGED <<values, box, looking, stored, context, checks, sending, chosen, server>>

\* checkAvailability up to the await, from any of its three buttons.
CheckAvailability ==
    /\ Open
    /\ key # NoKey
    /\ availability.status # "loading"
    /\ availabilitySequence < MaxRequests
    /\ availabilitySequence' = availabilitySequence + 1
    /\ selectedStart' = NoStart
    /\ availability' = [status |-> "loading", key |-> key,
                        request |-> availabilitySequence + 1, available |-> {}]
    /\ checks' = checks \cup {[request |-> availabilitySequence + 1, key |-> key]}
    /\ UNCHANGED <<values, box, looking, stored, context, key, sending, chosen, server>>

\* What the answer to check c, a list of starts or a failure, puts on display.
Display(c) ==
    \/ \E available \in SUBSET Starts :
          availability' = [status |-> "ready", key |-> c.key, request |-> c.request,
                           available |-> available]
    \/ availability' = [status |-> "error", key |-> c.key, request |-> c.request,
                        available |-> {}]

\* Mutant of CheckAnswered: only the date and the party size are compared.
CheckAnswered_SameKey(c) ==
    /\ checks' = checks \ {c}
    /\ IF c.key = key THEN Display(c) ELSE UNCHANGED availability
    /\ UNCHANGED <<values, box, looking, stored, context, key, selectedStart,
                   availabilitySequence, sending, chosen, server>>

\* The rest of checkAvailability.
CheckAnswered(c) ==
    /\ checks' = checks \ {c}
    /\ IF c.request = availabilitySequence /\ c.key = key
       THEN Display(c) ELSE UNCHANGED availability
    /\ UNCHANGED <<values, box, looking, stored, context, key, selectedStart,
                   availabilitySequence, sending, chosen, server>>

SelectStart(start) ==
    /\ Open
    /\ availability.status = "ready"
    /\ start \in availability.available
    /\ selectedStart' = start
    /\ UNCHANGED <<values, box, looking, stored, context, key, availability,
                   availabilitySequence, checks, sending, chosen, server>>

-----------------------------------------------------------------------------
(* Details and newsletter preference *)

\* Mutant of Type: the fields stay enabled while the form is locked.
Type_WhileLocked(identity) ==
    /\ context = "ready" /\ ~confirmation
    /\ TypeIdentity(identity)
    /\ feedback' = "none"
    /\ UNCHANGED <<box, stored, context, key, schedule, pending, recovery, confirmation,
                   booking, sends, unresolved, chosen, server>>

Type(identity) ==
    /\ Open
    /\ TypeIdentity(identity)
    /\ feedback' = "none"
    /\ UNCHANGED <<box, stored, context, key, schedule, pending, recovery, confirmation,
                   booking, sends, unresolved, chosen, server>>

Retry == Open /\ RetryLookup /\ UNCHANGED <<values, box, stored, form>>

Toggle ==
    /\ Open
    /\ edits < MaxEdits
    /\ ClickBox
    /\ chosen' = IF checked' THEN "subscribe" ELSE "unsubscribe"
    /\ UNCHANGED <<values, looking, stored, context, key, schedule, sending, server>>

\* A choice counts only while a look-up about the person shown has succeeded.
newsletterAction ==
    IF lookup.state \notin {"matched_on", "matched_off", "not_found"} \/ choice = 0
    THEN "no_change"
    ELSE IF checked THEN "subscribe" ELSE "unsubscribe"

-----------------------------------------------------------------------------
(* Submission *)

\* sendReservation up to the await.
Send(body) ==
    /\ ~pending
    /\ sends < MaxSends
    /\ sends' = sends + 1
    /\ pending' = TRUE
    /\ feedback' = "none"
    /\ booking' = [body |-> body, answer |-> "none"]
    /\ unresolved' = unresolved \cup {body}
    /\ UNCHANGED <<values, box, looking, stored, context, key, schedule, recovery,
                   confirmation, chosen, server>>

selectedSlot == availability.status = "ready" /\ selectedStart \in availability.available

eligible ==
    /\ key # NoKey /\ selectedSlot
    /\ values # Incomplete
    /\ lookup.state # "conflict"

reservationBody == [about |-> values, key |-> key, start |-> selectedStart,
                    newsletter_action |-> newsletterAction]

Submit == Open /\ eligible /\ Send(reservationBody)

\* The two buttons are part of the feedback.
Unresolved == ~confirmation /\ recovery # NoBody /\ feedback # "none"

\* Mutant of Resend: the body is built again, with the look-up of now.
Resend_FromForm == Unresolved /\ Send(reservationBody)

Resend == Unresolved /\ Send(recovery)

LeaveUnresolved ==
    /\ Unresolved
    /\ recovery' = NoBody
    /\ feedback' = "none"
    /\ unresolved' = {}
    /\ UNCHANGED <<values, box, looking, stored, context, key, schedule, pending,
                   confirmation, booking, sends, chosen, server>>

\* A reservation is recognised by its customer, its start and its party size.
Reservation(body) == [about |-> body.about, key |-> body.key, start |-> body.start]

\* A booking of the server: a repeated one leaves the preference alone.
Book(body) ==
    /\ booked' = booked \cup {Reservation(body)}
    /\ stored' = IF Reservation(body) \in booked THEN stored
                 ELSE [stored EXCEPT ![body.about] =
                         CASE body.newsletter_action = "subscribe"   -> "on"
                           [] body.newsletter_action = "unsubscribe" -> "off"
                           [] OTHER -> IF @ = "none" THEN "off" ELSE @]

\* OP-05 at the server: booked, with or without a confirmation; refused, or
\* failed with nothing done; or the answer is lost, and the booking is made
\* now, later or never.
ServerBooks ==
    /\ pending /\ booking.answer = "none"
    /\ LET body == booking.body
           known == Reservation(body) \in booked IN
       \/ /\ body.about \notin Strangers
          /\ Book(body)
          /\ \E answer \in {"created", "confirmation_unavailable"} :
                booking' = [booking EXCEPT !.answer = answer]
          /\ UNCHANGED late
       \/ /\ \E answer \in {"invalid_start", "refused", "temporary_failure"} \cup
                           IF known THEN {} ELSE {"overlap", "unavailable"} :
                booking' = [booking EXCEPT !.answer = answer]
          /\ UNCHANGED <<booked, stored, late>>
       \/ /\ booking' = [booking EXCEPT !.answer = "unknown"]
          /\ late' = IF body.about \in Strangers THEN late ELSE late \cup {body}
          /\ UNCHANGED <<booked, stored>>
    /\ UNCHANGED <<values, box, looking, context, key, schedule, pending, recovery,
                   confirmation, feedback, sends, unresolved, chosen>>

ServerCatchesUp(body) ==
    /\ Book(body)
    /\ late' = late \ {body}
    /\ UNCHANGED <<values, box, looking, context, key, schedule, sending, chosen>>

Settled ==
    /\ pending' = FALSE
    /\ booking' = NoBooking
    /\ UNCHANGED <<stored, context, sends, server>>

\* Mutant of Confirmed: the choice version outlives the booking.
Confirmed_KeepsChoice ==
    /\ pending /\ booking.answer = "created"
    /\ Settled
    /\ recovery' = NoBody /\ unresolved' = {}
    /\ confirmation' = TRUE
    /\ values' = Incomplete /\ RunEffect(Incomplete)
    /\ key' = NoKey /\ availability' = Idle /\ selectedStart' = NoStart
    /\ checked' = FALSE /\ chosen' = "none"
    /\ UNCHANGED <<choice, edits, feedback, availabilitySequence, checks>>

\* Mutant of Confirmed: the details stay for the next reservation.
Confirmed_KeepsCustomer ==
    /\ pending /\ booking.answer = "created"
    /\ Settled
    /\ recovery' = NoBody /\ unresolved' = {}
    /\ confirmation' = TRUE
    /\ key' = NoKey /\ availability' = Idle /\ selectedStart' = NoStart
    /\ checked' = FALSE /\ choice' = 0 /\ chosen' = "none"
    /\ UNCHANGED <<values, looking, edits, feedback, availabilitySequence, checks>>

\* sendReservation after the await: the booking is confirmed and the form
\* emptied, which runs the look-up effect.
Confirmed ==
    /\ pending /\ booking.answer = "created"
    /\ Settled
    /\ recovery' = NoBody /\ unresolved' = {}
    /\ confirmation' = TRUE
    /\ values' = Incomplete /\ RunEffect(Incomplete)
    /\ key' = NoKey /\ availability' = Idle /\ selectedStart' = NoStart
    /\ checked' = FALSE /\ choice' = 0 /\ chosen' = "none"
    /\ UNCHANGED <<edits, feedback, availabilitySequence, checks>>

\* ... or refused: the start is deselected, or the whole schedule dropped.
Refused ==
    /\ pending
    /\ booking.answer \in {"invalid_start", "overlap", "unavailable", "refused"}
    /\ Settled
    /\ recovery' = NoBody /\ unresolved' = {}
    /\ feedback' = IF booking.answer = "unavailable" THEN "refresh" ELSE "shown"
    /\ selectedStart' = IF booking.answer = "refused" THEN selectedStart ELSE NoStart
    /\ availability' = IF booking.answer \in {"invalid_start", "unavailable"}
                       THEN Idle ELSE availability
    /\ availabilitySequence' = IF booking.answer = "invalid_start"
                               THEN availabilitySequence + 1 ELSE availabilitySequence
    /\ UNCHANGED <<values, box, looking, key, checks, confirmation, chosen>>

\* ... or to be repeated unchanged.
Recoverable ==
    /\ pending
    /\ booking.answer \in {"unknown", "temporary_failure", "confirmation_unavailable"}
    /\ Settled
    /\ recovery' = booking.body
    /\ feedback' = "shown"
    /\ UNCHANGED <<values, box, looking, key, schedule, confirmation, unresolved, chosen>>

\* "Make another reservation".
NewReservation ==
    /\ confirmation
    /\ confirmation' = FALSE
    /\ UNCHANGED <<values, box, looking, stored, context, key, schedule, pending,
                   recovery, feedback, booking, sends, unresolved, chosen, server>>

-----------------------------------------------------------------------------
Next ==
    \/ ContextAnswered \/ LoadAgain
    \/ \E k \in Keys \cup {NoKey} : ChangeKey(k)
    \/ CheckAvailability
    \/ \E c \in checks : CheckAnswered(c)
    \/ \E start \in Starts : SelectStart(start)
    \/ \E identity \in Identities \cup {Incomplete} : Type(identity)
    \/ Retry \/ Toggle
    \/ LookupNext /\ UNCHANGED form
    \/ Submit \/ Resend \/ LeaveUnresolved
    \/ ServerBooks \/ Confirmed \/ Refused \/ Recoverable
    \/ \E body \in late : ServerCatchesUp(body)
    \/ NewReservation

Spec == Init /\ [][Next]_vars

-----------------------------------------------------------------------------
(* What the customer may rely on, besides the properties of StatusLookup *)

\* Times on display come from the latest check and belong to the date and the
\* party size in the fields, and a start that is still selected is one of
\* them: an older check, also one for the same choices, never brings back
\* what it saw (ReservationFeature.jsx:106, 131 and 136).
SlotsAreCurrent ==
    /\ availability.status # "idle" =>
          availability.key = key /\ availability.request = availabilitySequence
    /\ selectedStart # NoStart => selectedSlot

\* While the outcome of a booking is open, every request sent is the same
\* booking (ReservationFeature.jsx:82, 257 and 306).
OneUnresolvedBooking == Cardinality(unresolved) <= 1

\* A booking whose outcome is open is either under way or on display with its
\* two buttons, so a locked form can always be left: nothing that happens
\* meanwhile takes the feedback away (ReservationFeature.jsx:152, 291, 398).
UnresolvedIsShown == recovery # NoBody => pending \/ feedback # "none"

\* A booking changes the newsletter preference only as the customer's last
\* click since the form was emptied says, whatever the look-ups answered since
\* (ReservationFeature.jsx:161 and 225).
NewsletterIsChosen ==
    pending => booking.body.newsletter_action \in {"no_change", chosen}
=============================================================================
