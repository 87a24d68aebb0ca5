---------------------------- MODULE RequestRules ----------------------------
(***************************************************************************)
(* What a well-formed request is, said four times in the code: by the web  *)
(* form (forms/validation.js), by the validators of the service            *)
(* (validation/*.py), by the guards at the head of the database functions  *)
(* (migrations 007 and 008) and by the CHECKs of the customers table.      *)
(*                                                                         *)
(* A text is a record of what these rules ask of it: its length, whether   *)
(* it has a letter, whether its white space is collapsed, and so on.       *)
(* `given` says what the JSON object has under the field's name: nothing,  *)
(* null, a value of another type, or a value of the field's own type.      *)
(***************************************************************************)
EXTENDS Integers

Given == {"absent", "null", "other", "value"}
MaxParty == 2147483647
SmallInts == -32768..32767            \* PostgreSQL's smallint
WholeInts == (-MaxParty - 1)..MaxParty \* and its integer

\* length and letter are those of the collapsed text.
Names == [given : Given, length : Nat, letter : BOOLEAN, tidy : BOOLEAN]

\* What strip() leaves: nothing, one letter that is upper or lower case, has
\* no case, or grows to two when raised (sharp s), or anything else.
Initials == [given : Given,
             letters : {"none", "upper", "lower", "caseless", "expanding", "other"}]

\* mailbox is the address in lower case; a long label has over 63 characters.
Emails == [given : Given, length : Nat, form : {"plain", "long_label", "broken"},
           mailbox : Nat, lower : BOOLEAN, tidy : BOOLEAN]

\* length is that of the stripped text; plain: only digits, blanks and +().-
Phones == [given : Given, length : Nat, plain : BOOLEAN, digits : Nat]

\* real: the digits name a date, a time and an offset that exist.
Starts == [given : Given, pattern : BOOLEAN, real : BOOLEAN, offset : Int]
Numbers == [given : Given, whole : BOOLEAN, value : Int]
Actions == [given : Given, value : {"subscribe", "unsubscribe", "no_change", "unknown"}]
Flags == [given : Given]

Identities == [first_name : Names, middle_initial : Initials, last_name : Names,
               email : Emails, confirmation_email : Emails]
BookingPayloads ==
    [first_name : Names, middle_initial : Initials, last_name : Names, email : Emails,
     confirmation_email : Emails, phone : Phones, starts_at_local : Starts,
     utc_offset_minutes : Numbers, party_size : Numbers, newsletter_action : Actions]
PreferencePayloads ==
    [first_name : Names, middle_initial : Initials, last_name : Names, email : Emails,
     confirmation_email : Emails, subscribed : Flags]

-----------------------------------------------------------------------------
(* The validators of the service *)

Value(field) == field.given = "value"

ValidName(name) == Value(name) /\ name.length \in 1..100 /\ name.letter

ValidInitial(initial) ==
    \/ initial.given = "absent"
    \/ Value(initial) /\ initial.letters \in {"none", "upper", "lower", "caseless"}

ValidEmail(email) == Value(email) /\ email.length \in 1..254 /\ email.form # "broken"

\* Told of the confirmation only, and only when both addresses are valid.
SameMailbox(p) ==
    ValidEmail(p.email) /\ ValidEmail(p.confirmation_email)
        => p.email.mailbox = p.confirmation_email.mailbox

ValidPhone(phone) ==
    \/ phone.given = "absent"
    \/ /\ Value(phone) /\ phone.length \in 1..32
       /\ phone.plain /\ phone.digits \in 7..15

ReadsAsTime(start) == Value(start) /\ start.pattern /\ start.real
ValidStart(start) == ReadsAsTime(start) /\ start.offset \in -840..840

ValidNumber(n, low, high) == Value(n) /\ n.whole /\ n.value \in low..high

\* Compared even with an offset that is itself out of range.
ValidOffset(n, start) ==
    /\ ValidNumber(n, -840, 840)
    /\ ReadsAsTime(start) => n.value = start.offset

ValidAction(action) == Value(action) /\ action.value # "unknown"

\* validate_newsletter_status_identity: the fields with an error.
IdentityErrors(p) ==
    {f \in {"first_name", "last_name"} : ~ValidName(p[f])}
    \cup {f \in {"middle_initial"} : ~ValidInitial(p[f])}
    \cup {f \in {"email", "confirmation_email"} : ~ValidEmail(p[f])}
    \cup {f \in {"confirmation_email"} : ~SameMailbox(p)}

\* validate_reservation
BookingErrors(p) ==
    IdentityErrors(p)
    \cup {f \in {"phone"} : ~ValidPhone(p[f])}
    \cup {f \in {"starts_at_local"} : ~ValidStart(p[f])}
    \cup {f \in {"utc_offset_minutes"} : ~ValidOffset(p[f], p.starts_at_local)}
    \cup {f \in {"party_size"} : ~ValidNumber(p[f], 1, MaxParty)}
    \cup {f \in {"newsletter_action"} : ~ValidAction(p[f])}

\* validate_newsletter_preference
PreferenceErrors(p) == IdentityErrors(p) \cup {f \in {"subscribed"} : ~Value(p[f])}

\* validate_availability_query
QueryErrors(q) ==
    {f \in {"local_date"} : ~(q[f].pattern /\ q[f].real)}
    \cup {f \in {"party_size"} : ~(q[f].digits /\ q[f].value \in 1..MaxParty)}

-----------------------------------------------------------------------------
(* What the validators pass on *)

\* Mutant of NormalInitial: the letter is passed on as it was typed.
NormalInitial_AsTyped(initial) ==
    IF initial.given = "absent" THEN "none" ELSE initial.letters

\* upper() leaves a letter without case as it is.
NormalInitial(initial) ==
    CASE initial.given = "absent" -> "none"
      [] initial.given # "absent" /\ initial.letters = "lower" -> "upper"
      [] OTHER -> initial.letters

NormalName(name) == [name EXCEPT !.tidy = TRUE]
NormalEmail(email) == [email EXCEPT !.tidy = TRUE, !.lower = TRUE]

\* CustomerIdentity, which the two commands extend.
Identity(p) ==
    [first_name |-> NormalName(p.first_name),
     middle_initial |-> NormalInitial(p.middle_initial),
     last_name |-> NormalName(p.last_name),
     email |-> NormalEmail(p.email)]

-----------------------------------------------------------------------------
(* What the database asks of its arguments *)

StorableName(name) == name.length \in 1..100 /\ name.tidy
StorableEmail(email) == email.length \in 1..254 /\ email.tidy /\ email.lower

\* What the guard of set_newsletter_preference objects to: the fields it
\* refuses; for the middle initial, what it is instead of an upper case letter.
PreferenceObjections(i) ==
    {f \in {"first_name", "last_name"} : ~StorableName(i[f])}
    \cup {f \in {"email"} : ~StorableEmail(i[f])}
    \cup ({i.middle_initial} \ {"none", "upper"})

\* The same of book_reservation; the offset goes through a smallint.
BookingObjections(i, p) ==
    PreferenceObjections(i)
    \cup {f \in {"first_name", "last_name"} : ~i[f].letter}
    \cup {f \in {"phone"} : p[f].given # "absent"
                             /\ ~(p[f].plain /\ p[f].digits \in 7..15)}
    \cup {f \in {"newsletter_action"} :
              p[f].value \notin {"subscribe", "unsubscribe", "no_change"}}
    \cup {f \in {"utc_offset_minutes"} : p[f].value \notin SmallInts}
    \cup {f \in {"party_size"} : p[f].value \notin WholeInts}

\* The CHECKs of the customers table on a row of these values.
CustomerStorable(i) ==
    /\ PreferenceObjections(i) = {}
    /\ i.first_name.letter /\ i.last_name.letter

-----------------------------------------------------------------------------
(* The web form: its fields always hold texts; for the telephone, `absent` *)
(* is the empty field *)

FormFields == [first_name : Names, middle_initial : Initials, last_name : Names,
               email : Emails, confirmation_email : Emails, phone : Phones]

FormValidEmail(email) == email.length \in 1..254 /\ email.form = "plain"

\* validateIdentity; a telephone field that is not empty must be valid.
FormAccepts(v) ==
    /\ \A f \in {"first_name", "last_name"} : v[f].length \in 1..100 /\ v[f].letter
    /\ v.middle_initial.letters # "other"
    /\ FormValidEmail(v.email) /\ FormValidEmail(v.confirmation_email)
    /\ v.email.mailbox = v.confirmation_email.mailbox
    /\ v.phone.given # "absent" =>
          v.phone.length \in 1..32 /\ v.phone.plain /\ v.phone.digits \in 7..15

\* identityBody: white space collapsed, addresses in lower case, and a field
\* that is left blank is left out of the object.
BodyOf(v) ==
    [first_name |-> [NormalName(v.first_name) EXCEPT !.given = "value"],
     middle_initial |-> [v.middle_initial EXCEPT
         !.given = IF v.middle_initial.letters = "none" THEN "absent" ELSE "value"],
     last_name |-> [NormalName(v.last_name) EXCEPT !.given = "value"],
     email |-> [NormalEmail(v.email) EXCEPT !.given = "value"],
     confirmation_email |-> [NormalEmail(v.confirmation_email) EXCEPT !.given = "value"]]

\* reservationBody, without the slot and the choices beside it.
PhoneOf(v) == [v.phone EXCEPT !.given = IF v.phone.length = 0 THEN "absent" ELSE @]
=============================================================================
