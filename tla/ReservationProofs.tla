-------------------------- MODULE ReservationProofs --------------------------
(***************************************************************************)
(* Theorems about the reservation page, for any dates, party sizes, starts *)
(* and customers, and any number of checks, clicks, look-ups and bookings. *)
(***************************************************************************)
EXTENDS ReservationForm, FiniteSetTheorems, TLAPS

PageTypeOK ==
    /\ values \in Identities \cup {Incomplete}
    /\ choice \in Nat /\ edits \in Nat /\ sequence \in Nat
    /\ key \in Keys \cup {NoKey}
    /\ availabilitySequence \in Nat
    /\ pending \in BOOLEAN
    /\ recovery \in Bodies \cup {NoBody}
    /\ \A c \in checks : c.request \in Nat

\* A look-up of the latest effect and the fields count the same clicks: the
\* choice version is reset only together with a new effect.
QueryOK(q) ==
    /\ q = [sequence |-> q.sequence, about |-> q.about, choice |-> q.choice,
            edits |-> q.edits, stage |-> q.stage]
    /\ q.sequence \in Nat /\ q.choice \in Nat /\ q.edits \in Nat
    /\ q.sequence =< sequence
    /\ q.sequence = sequence => q.edits + choice = q.choice + edits

QueriesOK == \A q \in queries : QueryOK(q)

\* The box and the last click agree for as long as the choice is deliberate.
ChosenOK == choice > 0 => chosen = IF checked THEN "subscribe" ELSE "unsubscribe"

\* The answer to the latest check finds the form loading; once it is there,
\* and for as long as the form is locked, no answer that counts is missing.
CheckOK(c) ==
    /\ c.request =< availabilitySequence
    /\ c.request = availabilitySequence =>
          availability.status = "loading" /\ ~pending /\ recovery = NoBody

ChecksOK ==
    /\ \A c \in checks : CheckOK(c)
    /\ \A c, d \in checks : c.request = d.request => c = d
    /\ availability.available \subseteq Starts

\* A body is made from the fields only when nothing is unresolved.
OnlyOpen(body) == unresolved = {body} /\ body.newsletter_action \in {"no_change", chosen}

BookingOK ==
    /\ pending => /\ booking.body \in Bodies /\ OnlyOpen(booking.body)
                  /\ recovery # NoBody => recovery = booking.body
                  /\ feedback = "none"
    /\ ~pending /\ recovery # NoBody => OnlyOpen(recovery) /\ feedback # "none"
    /\ ~pending /\ recovery = NoBody => unresolved = {}
    /\ booking = [body |-> booking.body, answer |-> booking.answer]

PageInv == PageTypeOK /\ QueriesOK /\ ChosenOK /\ ChecksOK /\ SlotsAreCurrent /\ BookingOK

\* The parts of the invariant a step leaves alone.
LEMMA KeepsLooking ==
    ASSUME QueriesOK, ChosenOK,
           UNCHANGED <<checked, choice, edits, sequence, queries, chosen>>
    PROVE  QueriesOK' /\ ChosenOK'
BY DEF QueriesOK, QueryOK, ChosenOK

LEMMA KeepsSchedule ==
    ASSUME ChecksOK, SlotsAreCurrent, UNCHANGED <<key, schedule>>,
           \A c \in checks : c.request = availabilitySequence => ~pending' /\ recovery' = NoBody
    PROVE  ChecksOK' /\ SlotsAreCurrent'
BY DEF ChecksOK, CheckOK, SlotsAreCurrent, selectedSlot, schedule

LEMMA KeepsBooking ==
    ASSUME BookingOK, UNCHANGED <<sending, chosen>>
    PROVE  BookingOK'
BY DEF BookingOK, OnlyOpen, sending

LEMMA KeepsTypes ==
    ASSUME PageTypeOK,
           UNCHANGED <<values, choice, edits, sequence, key, availabilitySequence, pending,
                       recovery, checks>>
    PROVE  PageTypeOK'
BY DEF PageTypeOK

\* What is on display stays, and no answer that counts is missing, as long as
\* the form does not lock itself.
LEMMA KeepsAll ==
    ASSUME PageInv, UNCHANGED <<values, box, looking, key, schedule, sending, chosen>>
    PROVE  PageInv'
<1>1. PageTypeOK' /\ QueriesOK' /\ ChosenOK' /\ BookingOK'
  BY KeepsTypes, KeepsLooking, KeepsBooking DEF PageInv, box, looking, schedule, sending
<1>2. ChecksOK' /\ SlotsAreCurrent'
  BY KeepsSchedule DEF PageInv, ChecksOK, CheckOK, sending
<1> QED  BY <1>1, <1>2 DEF PageInv

-----------------------------------------------------------------------------
(* The look-up *)

LEMMA EffectKeeps ==
    ASSUME PageTypeOK, QueriesOK, NEW identity, RunEffect(identity), UNCHANGED <<choice, edits>>
    PROVE  sequence' \in Nat /\ QueriesOK'
<1>1. sequence' = sequence + 1 /\ sequence' \in Nat
  BY DEF RunEffect, PageTypeOK
<1>2. \A q \in queries' : q \in queries \/
          q = [sequence |-> sequence + 1, about |-> identity,
               choice |-> choice, edits |-> edits, stage |-> "waiting"]
  BY DEF RunEffect
<1>3. ASSUME NEW q \in queries  PROVE QueryOK(q)'
  BY <1>1, <1>3 DEF QueriesOK, QueryOK, PageTypeOK
<1>4. ASSUME NEW q, q = [sequence |-> sequence + 1, about |-> identity,
                         choice |-> choice, edits |-> edits, stage |-> "waiting"]
      PROVE  QueryOK(q)'
  BY <1>1, <1>4 DEF QueryOK, PageTypeOK
<1> QED  BY <1>1, <1>2, <1>3, <1>4 DEF QueriesOK

LEMMA BecomesKeeps ==
    ASSUME QueriesOK, NEW q \in queries, NEW stage, Becomes(q, stage),
           UNCHANGED <<choice, edits, sequence>>
    PROVE  QueriesOK'
<1>1. ASSUME NEW d, d = [q EXCEPT !.stage = stage]  PROVE QueryOK(d)'
  <2>1. QueryOK(q)
    BY DEF QueriesOK
  <2>2. d = [sequence |-> q.sequence, about |-> q.about, choice |-> q.choice,
             edits |-> q.edits, stage |-> stage]
    BY <1>1, <2>1 DEF QueryOK
  <2> QED  BY <2>1, <2>2 DEF QueryOK
<1>2. \A d \in queries' : d \in queries \/ d = [q EXCEPT !.stage = stage]
  BY DEF Becomes
<1>3. ASSUME NEW d \in queries  PROVE QueryOK(d)'
  BY DEF QueriesOK, QueryOK
<1> QED  BY <1>1, <1>2, <1>3 DEF QueriesOK

LEMMA LookupKeeps ==
    ASSUME PageInv, LookupNext, UNCHANGED form
    PROVE  PageInv'
<1>1. PICK q \in queries : TimerFires(q) \/ ServerReads(q) \/ LookupAnswered(q)
  BY DEF LookupNext
<1>2. UNCHANGED <<values, choice, edits, sequence>>
  BY <1>1 DEF TimerFires, ServerReads, LookupAnswered, box
<1>3. QueriesOK'
  <2>1. CASE \E stage : Becomes(q, stage)
    BY <1>2, <2>1, BecomesKeeps DEF PageInv
  <2>2. CASE queries' = queries \ {q}
    BY <1>2, <2>2 DEF PageInv, QueriesOK, QueryOK
  <2> QED  BY <1>1, <2>1, <2>2 DEF TimerFires, ServerReads, LookupAnswered
<1>4. ChosenOK'
  <2>1. checked' = checked \/ choice = 0
    BY <1>1 DEF TimerFires, ServerReads, LookupAnswered, box
  <2>2. chosen' = chosen /\ choice' = choice
    BY <1>2 DEF form
  <2> QED  BY <2>1, <2>2 DEF PageInv, ChosenOK
<1>5. PageTypeOK'
  BY <1>2, KeepsTypes DEF PageInv, form, schedule, sending
<1>6. ChecksOK' /\ SlotsAreCurrent' /\ BookingOK'
  <2>1. \A c \in checks : c.request = availabilitySequence => ~pending' /\ recovery' = NoBody
    BY DEF PageInv, ChecksOK, CheckOK, form, sending
  <2> QED  BY <2>1, KeepsSchedule, KeepsBooking DEF PageInv, form
<1> QED  BY <1>3, <1>4, <1>5, <1>6 DEF PageInv

LEMMA TypeKeeps ==
    ASSUME PageInv, NEW identity \in Identities \cup {Incomplete}, Type(identity)
    PROVE  PageInv'
<1>1. RunEffect(identity) /\ values' = identity
  BY DEF Type, TypeIdentity
<1>2. UNCHANGED <<checked, choice, edits, key, schedule, pending, recovery, booking,
                  unresolved, chosen>>
      /\ feedback' = "none" /\ ~pending /\ recovery = NoBody
  BY DEF Type, box, Open, locked
<1>3. sequence' \in Nat /\ QueriesOK'
  BY <1>1, <1>2, EffectKeeps DEF PageInv
<1>4. PageTypeOK' /\ ChosenOK'
  BY <1>1, <1>2, <1>3 DEF PageInv, PageTypeOK, ChosenOK, schedule
<1>5. ChecksOK' /\ SlotsAreCurrent'
  BY <1>2, KeepsSchedule DEF PageInv
<1>6. BookingOK'
  BY <1>2 DEF PageInv, BookingOK
<1> QED  BY <1>3, <1>4, <1>5, <1>6 DEF PageInv

LEMMA RetryKeeps ==
    ASSUME PageInv, Retry
    PROVE  PageInv'
<1>1. RunEffect(values) /\ UNCHANGED <<values, checked, choice, edits, form>>
  BY DEF Retry, RetryLookup, box
<1>2. sequence' \in Nat /\ QueriesOK'
  BY <1>1, EffectKeeps DEF PageInv
<1>3. PageTypeOK' /\ ChosenOK'
  BY <1>1, <1>2 DEF PageInv, PageTypeOK, ChosenOK, form, schedule, sending
<1>4. ChecksOK' /\ SlotsAreCurrent' /\ BookingOK'
  <2>1. \A c \in checks : c.request = availabilitySequence => ~pending' /\ recovery' = NoBody
    BY <1>1 DEF PageInv, ChecksOK, CheckOK, form, sending
  <2> QED  BY <1>1, <2>1, KeepsSchedule, KeepsBooking DEF PageInv, form
<1> QED  BY <1>2, <1>3, <1>4 DEF PageInv

LEMMA ToggleKeeps ==
    ASSUME PageInv, Toggle
    PROVE  PageInv'
<1>1. /\ checked' = ~checked /\ choice' = choice + 1 /\ edits' = edits + 1
      /\ chosen' = IF checked' THEN "subscribe" ELSE "unsubscribe"
      /\ UNCHANGED <<values, looking, key, schedule, sending>>
      /\ ~pending /\ recovery = NoBody
  BY DEF Toggle, ClickBox, Open, locked
<1>2. PageTypeOK'
  BY <1>1 DEF PageInv, PageTypeOK, looking, schedule, sending
<1>3. QueriesOK'
  BY <1>1 DEF PageInv, PageTypeOK, QueriesOK, QueryOK, looking
<1>4. ChosenOK'
  BY <1>1 DEF ChosenOK
<1>5. ChecksOK' /\ SlotsAreCurrent'
  BY <1>1, KeepsSchedule DEF PageInv, sending
<1>6. BookingOK'
  BY <1>1 DEF PageInv, BookingOK, sending
<1> QED  BY <1>2, <1>3, <1>4, <1>5, <1>6 DEF PageInv

-----------------------------------------------------------------------------
(* Date, party size and start *)

LEMMA ChangeKeyKeeps ==
    ASSUME PageInv, NEW k \in Keys \cup {NoKey}, ChangeKey(k)
    PROVE  PageInv'
<1>1. /\ key' = k /\ availabilitySequence' = availabilitySequence + 1
      /\ availability' = Idle /\ selectedStart' = NoStart
      /\ UNCHANGED <<values, box, looking, checks, sending, chosen>>
  BY DEF ChangeKey
<1>2. PageTypeOK'
  BY <1>1 DEF PageInv, PageTypeOK, box, looking, sending
<1>3. QueriesOK' /\ ChosenOK' /\ BookingOK'
  BY <1>1, KeepsLooking, KeepsBooking DEF PageInv, box, looking
<1>4. ChecksOK'
  BY <1>1 DEF PageInv, PageTypeOK, ChecksOK, CheckOK, Idle
<1>5. SlotsAreCurrent'
  BY <1>1 DEF SlotsAreCurrent, Idle
<1> QED  BY <1>2, <1>3, <1>4, <1>5 DEF PageInv

LEMMA CheckKeeps ==
    ASSUME PageInv, CheckAvailability
    PROVE  PageInv'
<1>1. /\ availabilitySequence' = availabilitySequence + 1 /\ selectedStart' = NoStart
      /\ availability' = [status |-> "loading", key |-> key,
                          request |-> availabilitySequence + 1, available |-> {}]
      /\ checks' = checks \cup {[request |-> availabilitySequence + 1, key |-> key]}
      /\ UNCHANGED <<values, box, looking, key, sending, chosen>>
      /\ ~pending /\ recovery = NoBody
  BY DEF CheckAvailability, Open, locked
<1>2. availabilitySequence \in Nat /\ \A c \in checks : c.request \in Nat
  BY DEF PageInv, PageTypeOK
<1>3. PageTypeOK'
  BY <1>1, <1>2 DEF PageInv, PageTypeOK, box, looking, sending
<1>4. QueriesOK' /\ ChosenOK' /\ BookingOK'
  BY <1>1, KeepsLooking, KeepsBooking DEF PageInv, box, looking
<1>5. ChecksOK'
  <2>1. \A c \in checks : c.request =< availabilitySequence
    BY DEF PageInv, ChecksOK, CheckOK
  <2>2. \A c \in checks : CheckOK(c)'
    BY <1>1, <1>2, <2>1 DEF CheckOK
  <2>3. PICK new : /\ new = [request |-> availabilitySequence + 1, key |-> key]
                   /\ checks' = checks \cup {new}
    BY <1>1
  <2>4. CheckOK(new)'
    BY <1>1, <1>2, <2>3 DEF CheckOK, sending
  <2>5. \A c \in checks : c.request # new.request
    BY <1>2, <2>1, <2>3
  <2>6. \A c, d \in checks : c.request = d.request => c = d
    BY DEF PageInv, ChecksOK
  <2>7. availability'.available \subseteq Starts
    BY <1>1
  <2> QED  BY <2>2, <2>3, <2>4, <2>5, <2>6, <2>7 DEF ChecksOK
<1>6. SlotsAreCurrent'
  BY <1>1 DEF SlotsAreCurrent
<1> QED  BY <1>3, <1>4, <1>5, <1>6 DEF PageInv

LEMMA CheckAnsweredKeeps ==
    ASSUME PageInv, NEW c \in checks, CheckAnswered(c)
    PROVE  PageInv'
<1>1. /\ checks' = checks \ {c}
      /\ UNCHANGED <<values, box, looking, key, selectedStart, availabilitySequence,
                     sending, chosen>>
  BY DEF CheckAnswered
<1>2. PageTypeOK'
  BY <1>1 DEF PageInv, PageTypeOK, box, looking, sending
<1>3. QueriesOK' /\ ChosenOK' /\ BookingOK'
  BY <1>1, KeepsLooking, KeepsBooking DEF PageInv, box, looking
<1>4. CASE c.request = availabilitySequence /\ c.key = key
  <2>1. Display(c)
    BY <1>4 DEF CheckAnswered
  <2>2. availability'.key = key /\ availability'.request = availabilitySequence
    BY <1>4, <2>1 DEF Display
  <2>3. selectedStart = NoStart
    BY <1>4 DEF PageInv, ChecksOK, CheckOK, SlotsAreCurrent, selectedSlot
  <2>4. \A d \in checks' : d.request # availabilitySequence
    BY <1>1, <1>4 DEF PageInv, ChecksOK
  <2>5. ChecksOK'
    <3>1. availability'.available \subseteq Starts
      BY <2>1 DEF Display
    <3> QED  BY <1>1, <2>4, <3>1 DEF PageInv, ChecksOK, CheckOK
  <2>6. SlotsAreCurrent'
    BY <1>1, <2>2, <2>3 DEF SlotsAreCurrent
  <2> QED  BY <1>2, <1>3, <2>5, <2>6 DEF PageInv
<1>5. CASE ~(c.request = availabilitySequence /\ c.key = key)
  <2>1. UNCHANGED availability
    BY <1>5 DEF CheckAnswered
  <2>2. ChecksOK' /\ SlotsAreCurrent'
    BY <1>1, <2>1 DEF PageInv, ChecksOK, CheckOK, SlotsAreCurrent, selectedSlot, sending
  <2> QED  BY <1>2, <1>3, <2>2 DEF PageInv
<1> QED  BY <1>4, <1>5

LEMMA SelectKeeps ==
    ASSUME PageInv, NEW start \in Starts, SelectStart(start)
    PROVE  PageInv'
<1>1. /\ selectedStart' = start
      /\ availability.status = "ready" /\ start \in availability.available
      /\ UNCHANGED <<values, box, looking, key, availability, availabilitySequence, checks,
                     sending, chosen>>
  BY DEF SelectStart
<1>2. PageTypeOK' /\ QueriesOK' /\ ChosenOK' /\ BookingOK'
  BY <1>1, KeepsTypes, KeepsLooking, KeepsBooking DEF PageInv, box, looking, sending
<1>3. ChecksOK' /\ SlotsAreCurrent'
  BY <1>1 DEF PageInv, ChecksOK, CheckOK, SlotsAreCurrent, selectedSlot, sending
<1> QED  BY <1>2, <1>3 DEF PageInv

-----------------------------------------------------------------------------
(* Submission *)

\* A body is sent from an open form, or is the one to be repeated.
LEMMA SendKeeps ==
    ASSUME PageInv, NEW body \in Bodies, Send(body),
           recovery # NoBody => body = recovery,
           body.newsletter_action \in {"no_change", chosen},
           \A c \in checks : c.request # availabilitySequence
    PROVE  PageInv'
<1>1. /\ ~pending /\ pending' = TRUE /\ feedback' = "none"
      /\ booking' = [body |-> body, answer |-> "none"]
      /\ unresolved' = unresolved \cup {body}
      /\ UNCHANGED <<values, box, looking, key, schedule, recovery, chosen>>
  BY DEF Send
<1>2. PageTypeOK'
  BY <1>1 DEF PageInv, PageTypeOK, box, looking, schedule
<1>3. QueriesOK' /\ ChosenOK'
  BY <1>1, KeepsLooking DEF PageInv, box, looking
<1>4. ChecksOK' /\ SlotsAreCurrent'
  BY <1>1, KeepsSchedule DEF PageInv
<1>5. unresolved' = {body}
  BY <1>1 DEF PageInv, BookingOK, OnlyOpen
<1>6. BookingOK'
  BY <1>1, <1>5 DEF BookingOK, OnlyOpen
<1> QED  BY <1>2, <1>3, <1>4, <1>6 DEF PageInv

LEMMA SubmitKeeps ==
    ASSUME PageInv, Submit
    PROVE  PageInv'
<1>1. /\ key \in Keys /\ values \in Identities /\ availability.status = "ready"
      /\ recovery = NoBody /\ Send(reservationBody)
  BY DEF Submit, Open, locked, eligible, selectedSlot, PageInv, PageTypeOK
<1>2. newsletterAction \in NewsletterActions /\ newsletterAction \in {"no_change", chosen}
  <2>1. choice \in Nat
    BY DEF PageInv, PageTypeOK
  <2>2. choice # 0 => chosen = IF checked THEN "subscribe" ELSE "unsubscribe"
    BY <2>1 DEF PageInv, ChosenOK
  <2> QED  BY <2>2 DEF newsletterAction, NewsletterActions
<1>3. reservationBody \in Bodies
  <2>1. selectedStart \in Starts
    BY DEF Submit, eligible, selectedSlot, PageInv, ChecksOK
  <2> QED  BY <1>1, <1>2, <2>1 DEF reservationBody, Bodies
<1>4. reservationBody.newsletter_action \in {"no_change", chosen}
  BY <1>2 DEF reservationBody
<1>5. \A c \in checks : c.request # availabilitySequence
  BY <1>1 DEF PageInv, ChecksOK, CheckOK
<1> QED  BY <1>1, <1>3, <1>4, <1>5, SendKeeps

LEMMA ResendKeeps ==
    ASSUME PageInv, Resend
    PROVE  PageInv'
<1>1. recovery \in Bodies /\ ~pending /\ Send(recovery) /\ recovery # NoBody
  BY DEF Resend, Unresolved, Send, PageInv, PageTypeOK
<1>2. recovery.newsletter_action \in {"no_change", chosen}
  BY <1>1 DEF PageInv, BookingOK, OnlyOpen
<1>3. \A c \in checks : c.request # availabilitySequence
  BY <1>1 DEF PageInv, ChecksOK, CheckOK
<1> QED  BY <1>1, <1>2, <1>3, SendKeeps

LEMMA LeaveKeeps ==
    ASSUME PageInv, LeaveUnresolved
    PROVE  PageInv'
<1>1. /\ recovery # NoBody /\ feedback # "none"
      /\ recovery' = NoBody /\ unresolved' = {}
      /\ UNCHANGED <<values, box, looking, key, schedule, pending, booking, chosen>>
  BY DEF LeaveUnresolved, Unresolved
<1>2. ~pending
  BY <1>1 DEF PageInv, BookingOK
<1>3. PageTypeOK' /\ QueriesOK' /\ ChosenOK'
  BY <1>1, KeepsLooking DEF PageInv, PageTypeOK, box, looking, schedule
<1>4. ChecksOK' /\ SlotsAreCurrent'
  BY <1>1, <1>2, KeepsSchedule DEF PageInv
<1>5. BookingOK'
  BY <1>1, <1>2 DEF PageInv, BookingOK
<1> QED  BY <1>3, <1>4, <1>5 DEF PageInv

LEMMA ServerBooksKeeps ==
    ASSUME PageInv, ServerBooks
    PROVE  PageInv'
<1>1. UNCHANGED <<values, box, looking, key, schedule, pending, recovery, feedback,
                  unresolved, chosen>>
  BY DEF ServerBooks
<1>2. \E answer : booking' = [booking EXCEPT !.answer = answer]
  BY DEF ServerBooks
<1>3. booking'.body = booking.body /\ booking' = [body |-> booking'.body, answer |-> booking'.answer]
  BY <1>2 DEF PageInv, BookingOK
<1>4. BookingOK'
  BY <1>1, <1>3 DEF PageInv, BookingOK, OnlyOpen
<1>5. PageTypeOK' /\ QueriesOK' /\ ChosenOK'
  BY <1>1, KeepsTypes, KeepsLooking DEF PageInv, box, looking, schedule
<1>6. ChecksOK' /\ SlotsAreCurrent'
  BY <1>1, KeepsSchedule DEF PageInv, ChecksOK, CheckOK
<1> QED  BY <1>4, <1>5, <1>6 DEF PageInv

\* While a booking is under way, no answer that counts is missing.
LEMMA NoCheckMissing ==
    ASSUME PageInv, pending
    PROVE  \A c \in checks : c.request # availabilitySequence
BY DEF PageInv, ChecksOK, CheckOK

LEMMA ConfirmedKeeps ==
    ASSUME PageInv, Confirmed
    PROVE  PageInv'
<1>1. /\ pending /\ pending' = FALSE /\ booking' = NoBooking
      /\ recovery' = NoBody /\ unresolved' = {}
      /\ values' = Incomplete /\ RunEffect(Incomplete)
      /\ key' = NoKey /\ availability' = Idle /\ selectedStart' = NoStart
      /\ choice' = 0
      /\ UNCHANGED <<edits, availabilitySequence, checks>>
  BY DEF Confirmed, Settled
<1>2. sequence' = sequence + 1 /\ queries' \subseteq queries
  BY <1>1 DEF RunEffect
<1>3. QueriesOK'
  BY <1>1, <1>2 DEF PageInv, PageTypeOK, QueriesOK, QueryOK
<1>4. PageTypeOK' /\ ChosenOK'
  <2>1. PageTypeOK'
    <3>1. choice' \in Nat /\ sequence' \in Nat /\ edits' \in Nat
      BY <1>1, <1>2 DEF PageInv, PageTypeOK
    <3> QED  BY <1>1, <3>1, Zenon DEF PageInv, PageTypeOK
  <2>2. ~(choice' > 0)
    BY <1>1
  <2> QED  BY <2>1, <2>2 DEF ChosenOK
<1>5. ChecksOK'
  BY <1>1, NoCheckMissing DEF PageInv, ChecksOK, CheckOK, Idle
<1>6. SlotsAreCurrent' /\ BookingOK'
  BY <1>1 DEF SlotsAreCurrent, Idle, BookingOK, NoBooking
<1> QED  BY <1>3, <1>4, <1>5, <1>6 DEF PageInv

LEMMA RefusedKeeps ==
    ASSUME PageInv, Refused
    PROVE  PageInv'
<1>1. /\ pending /\ pending' = FALSE /\ booking' = NoBooking
      /\ recovery' = NoBody /\ unresolved' = {}
      /\ UNCHANGED <<values, box, looking, key, checks, chosen>>
  BY DEF Refused, Settled
<1>2. \/ /\ availability' = Idle /\ selectedStart' = NoStart
         /\ availabilitySequence' \in {availabilitySequence, availabilitySequence + 1}
      \/ /\ UNCHANGED <<availability, availabilitySequence>>
         /\ selectedStart' \in {selectedStart, NoStart}
  BY DEF Refused
<1>3. PageTypeOK'
  <2>1. availabilitySequence' \in Nat
    BY <1>2 DEF PageInv, PageTypeOK
  <2>2. /\ UNCHANGED <<values, choice, edits, sequence, key, checks>>
        /\ pending' \in BOOLEAN /\ recovery' \in Bodies \cup {NoBody}
    BY <1>1 DEF box, looking
  <2> QED  BY <2>1, <2>2 DEF PageInv, PageTypeOK
<1>4. QueriesOK' /\ ChosenOK'
  BY <1>1, KeepsLooking DEF PageInv, box, looking
<1>5. ChecksOK'
  <2>1. \A c \in checks : c.request =< availabilitySequence /\ c.request # availabilitySequence
    BY <1>1, NoCheckMissing DEF PageInv, ChecksOK, CheckOK
  <2>2. \A c \in checks : c.request =< availabilitySequence' /\ c.request # availabilitySequence'
    BY <1>2, <2>1 DEF PageInv, PageTypeOK
  <2>3. availability'.available \subseteq Starts
    BY <1>2 DEF PageInv, ChecksOK, Idle
  <2> QED  BY <1>1, <2>2, <2>3 DEF PageInv, ChecksOK, CheckOK
<1>6. SlotsAreCurrent'
  <2>1. CASE availability' = Idle /\ selectedStart' = NoStart
    BY <2>1 DEF SlotsAreCurrent, Idle
  <2>2. CASE /\ UNCHANGED <<availability, availabilitySequence>>
             /\ selectedStart' \in {selectedStart, NoStart}
    BY <1>1, <2>2 DEF PageInv, SlotsAreCurrent, selectedSlot
  <2> QED  BY <1>2, <2>1, <2>2
<1>7. BookingOK'
  BY <1>1 DEF BookingOK, NoBooking
<1> QED  BY <1>3, <1>4, <1>5, <1>6, <1>7 DEF PageInv

LEMMA RecoverableKeeps ==
    ASSUME PageInv, Recoverable
    PROVE  PageInv'
<1>1. /\ pending /\ pending' = FALSE /\ booking' = NoBooking
      /\ recovery' = booking.body /\ feedback' = "shown"
      /\ UNCHANGED <<values, box, looking, key, schedule, unresolved, chosen>>
  BY DEF Recoverable, Settled
<1>2. booking.body \in Bodies /\ OnlyOpen(booking.body)
  BY <1>1 DEF PageInv, BookingOK
<1>3. PageTypeOK'
  BY <1>1, <1>2 DEF PageInv, PageTypeOK, box, looking, schedule
<1>4. QueriesOK' /\ ChosenOK'
  BY <1>1, KeepsLooking DEF PageInv, box, looking
<1>5. ChecksOK' /\ SlotsAreCurrent'
  BY <1>1, NoCheckMissing, KeepsSchedule DEF PageInv
<1>6. BookingOK'
  BY <1>1, <1>2, ReservationFormAssumption DEF BookingOK, OnlyOpen, NoBooking
<1> QED  BY <1>3, <1>4, <1>5, <1>6 DEF PageInv

LEMMA InitPage == Init => PageInv
<1> SUFFICES ASSUME Init  PROVE PageInv
  OBVIOUS
<1>1. PageTypeOK /\ QueriesOK /\ ChecksOK
  BY DEF Init, LookupInit, Idle, PageTypeOK, QueriesOK, ChecksOK
<1>2. ChosenOK
  <2>1. ~(choice > 0)
    BY DEF Init, LookupInit
  <2> QED  BY <2>1 DEF ChosenOK
<1>3. SlotsAreCurrent /\ BookingOK
  BY DEF Init, Idle, NoBooking, SlotsAreCurrent, BookingOK
<1> QED  BY <1>1, <1>2, <1>3 DEF PageInv

LEMMA Inductive == PageInv /\ [Next]_vars => PageInv'
<1> SUFFICES ASSUME PageInv, [Next]_vars  PROVE PageInv'
  OBVIOUS
<1>1. CASE ContextAnswered \/ LoadAgain
  BY <1>1, KeepsAll DEF ContextAnswered, LoadAgain
<1>2. CASE NewReservation
  <2>1. UNCHANGED <<values, box, looking, key, schedule, pending, recovery, feedback, booking,
                    unresolved, chosen>>
    BY <1>2 DEF NewReservation
  <2>2. PageTypeOK' /\ QueriesOK' /\ ChosenOK'
    BY <2>1, KeepsTypes, KeepsLooking DEF PageInv, box, looking, schedule
  <2>3. ChecksOK' /\ SlotsAreCurrent'
    BY <2>1, KeepsSchedule DEF PageInv, ChecksOK, CheckOK
  <2>4. BookingOK'
    BY <2>1 DEF PageInv, BookingOK, OnlyOpen
  <2> QED  BY <2>2, <2>3, <2>4 DEF PageInv
<1>3. ASSUME NEW body \in late, ServerCatchesUp(body)  PROVE PageInv'
  BY <1>3, KeepsAll DEF ServerCatchesUp
<1>4. CASE UNCHANGED vars
  BY <1>4, KeepsAll DEF vars, form
<1> QED
  BY <1>1, <1>2, <1>3, <1>4, LookupKeeps, TypeKeeps, RetryKeeps, ToggleKeeps, ChangeKeyKeeps,
     CheckKeeps, CheckAnsweredKeeps, SelectKeeps, SubmitKeeps, ResendKeeps, LeaveKeeps,
     ServerBooksKeeps, ConfirmedKeeps, RefusedKeeps, RecoverableKeeps DEF Next

LEMMA PageInvariant == Spec => []PageInv
BY InitPage, Inductive, PTL DEF Spec

-----------------------------------------------------------------------------
(* The theorems *)

\* The times on display come from the latest check of the choices in the
\* fields, and a selected start is one of them, in whatever order the answers
\* arrive (ReservationFeature.jsx:106, 131 and 136).
THEOREM CurrentSlots == Spec => []SlotsAreCurrent
BY PageInvariant, PTL DEF PageInv

\* As long as the outcome of a booking is open, every request is that booking
\* (ReservationFeature.jsx:82, 257 and 306).
THEOREM OnlyRepeated == Spec => []OneUnresolvedBooking
<1>1. PageInv => OneUnresolvedBooking
  <2> SUFFICES ASSUME PageInv  PROVE Cardinality(unresolved) =< 1
    BY DEF OneUnresolvedBooking
  <2>1. unresolved = {} \/ \E body : unresolved = {body}
    BY DEF PageInv, PageTypeOK, BookingOK, OnlyOpen
  <2>2. CASE unresolved = {}
    <3>1. Cardinality(unresolved) = 0
      BY <2>2, FS_EmptySet
    <3> QED  BY <3>1
  <2>3. ASSUME NEW body, unresolved = {body}  PROVE Cardinality(unresolved) =< 1
    <3>1. Cardinality({body}) = 1
      BY FS_Singleton
    <3> QED  BY <2>3, <3>1
  <2> QED  BY <2>1, <2>2, <2>3
<1> QED  BY <1>1, PageInvariant, PTL

\* An open booking is under way, or on display with the buttons that settle it
\* (ReservationFeature.jsx:152, 291, 398).
THEOREM NeverStuck == Spec => []UnresolvedIsShown
<1>1. PageInv => UnresolvedIsShown
  BY DEF PageInv, PageTypeOK, BookingOK, UnresolvedIsShown
<1> QED  BY <1>1, PageInvariant, PTL

\* A booking carries no other newsletter choice than the customer's last
\* click (ReservationFeature.jsx:161 and 225).
THEOREM ChoiceSent == Spec => []NewsletterIsChosen
<1>1. PageInv => NewsletterIsChosen
  BY DEF PageInv, BookingOK, OnlyOpen, NewsletterIsChosen
<1> QED  BY <1>1, PageInvariant, PTL

\* A look-up from before the last click never changes the box: the choice
\* version is reset only with a new effect, which outdates every look-up
\* (useNewsletterLookup.js:24-33, ReservationFeature.jsx:216-226).
THEOREM ClickWins == Spec => EditWins
<1> DEFINE Late(q) == q \notin queries' /\ q.stage \notin {"waiting", "sent"} /\ q.edits < edits
<1>1. ASSUME PageInv, Next, NEW q \in queries, Late(q)  PROVE checked' = checked
  <2>1. QueryOK(q) /\ choice \in Nat /\ edits \in Nat /\ sequence \in Nat
    BY <1>1 DEF PageInv, QueriesOK, PageTypeOK
  <2>2. CASE LookupNext
    <3>1. PICK d \in queries : TimerFires(d) \/ ServerReads(d) \/ LookupAnswered(d)
      BY <2>2 DEF LookupNext
    <3>2. CASE TimerFires(d) \/ ServerReads(d)
      BY <3>2 DEF TimerFires, ServerReads, box
    <3>3. CASE LookupAnswered(d) /\ ~(Current(d) /\ d.choice = 0 /\ choice = 0)
      BY <3>3 DEF LookupAnswered
    <3>4. CASE LookupAnswered(d) /\ Current(d) /\ d.choice = 0 /\ choice = 0
      <4>1. d = q
        BY <1>1, <3>4 DEF LookupAnswered
      <4>2. q.sequence = sequence /\ q.choice = 0 /\ choice = 0
        BY <3>4, <4>1 DEF Current
      <4>3. q.edits = edits
        BY <2>1, <4>2 DEF QueryOK
      <4> QED  BY <1>1, <2>1, <4>3
    <3> QED  BY <3>1, <3>2, <3>3, <3>4
  <2>3. CASE Toggle
    <3>1. queries' = queries
      BY <2>3 DEF Toggle, looking
    <3> QED  BY <1>1, <3>1
  <2>4. CASE Confirmed
    <3>1. q.stage # "waiting" => q \in queries'
      BY <2>4 DEF Confirmed, RunEffect
    <3> QED  BY <1>1, <3>1
  <2>5. CASE ~(LookupNext \/ Toggle \/ Confirmed)
    <3>1. UNCHANGED box
      BY <1>1, <2>5 DEF Next, ContextAnswered, LoadAgain, ChangeKey, CheckAvailability,
          CheckAnswered, SelectStart, Type, Retry, Submit, Resend, Send, LeaveUnresolved,
          ServerBooks, Refused, Recoverable, ServerCatchesUp, NewReservation
    <3> QED  BY <3>1 DEF box
  <2> QED  BY <2>2, <2>3, <2>4, <2>5
<1>2. PageInv /\ [Next]_vars =>
        [\A q \in queries : Late(q) => checked' = checked]_<<queries, checked, edits>>
  BY <1>1 DEF vars, box, looking
<1> QED  BY <1>2, PageInvariant, PTL DEF Spec, EditWins

=============================================================================
