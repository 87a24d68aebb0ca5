--------------------------- MODULE SampleRequests ---------------------------
(***************************************************************************)
(* The requests of the runs: for each operation one that is well formed    *)
(* and every request that differs from it in one field, or in one respect  *)
(* of HTTP, at the boundaries of the rules.  A middle initial without case,     *)
(* which only the database refuses, is among the bookings; for a           *)
(* preference it takes the same way, and the theorems have both.           *)
(***************************************************************************)
EXTENDS HttpBoundary, TLC

Name    == [given |-> "value", length |-> 3, letter |-> TRUE, tidy |-> FALSE]
Mail    == [given |-> "value", length |-> 15, form |-> "plain", mailbox |-> 1,
            lower |-> FALSE, tidy |-> FALSE]
NoPhone == [given |-> "absent", length |-> 0, plain |-> TRUE, digits |-> 0]
Monday  == [given |-> "value", pattern |-> TRUE, real |-> TRUE, offset |-> -240]
Number(n)  == [given |-> "value", whole |-> TRUE, value |-> n]
Initial(l) == [given |-> "value", letters |-> l]
Choice(a)  == [given |-> "value", value |-> a]

Identified ==
    [first_name |-> Name, middle_initial |-> Initial("upper"), last_name |-> Name,
     email |-> Mail, confirmation_email |-> Mail]
Preference == Identified @@ [subscribed |-> [given |-> "value"]]
Booking ==
    Identified @@
    [phone |-> NoPhone, starts_at_local |-> Monday, utc_offset_minutes |-> Number(-240),
     party_size |-> Number(4), newsletter_action |-> Choice("subscribe")]
Caseless == [Booking EXCEPT !.middle_initial = Initial("caseless")]
Query == [complete |-> TRUE, local_date |-> [pattern |-> TRUE, real |-> TRUE],
          party_size |-> [digits |-> TRUE, value |-> 4]]

Variants(f) ==
    CASE f \in {"first_name", "last_name"} ->
           {[Name EXCEPT !.length = n] : n \in {100, 101}}
             \cup {[Name EXCEPT !.length = 0, !.letter = FALSE],
                   [Name EXCEPT !.letter = FALSE]}
      [] f = "middle_initial" ->
           {Initial(l) : l \in {"none", "lower", "expanding", "other"}}
      [] f \in {"email", "confirmation_email"} ->
           {[Mail EXCEPT !.length = n] : n \in {254, 255}}
             \cup {[Mail EXCEPT !.form = form] : form \in {"broken", "long_label"}}
             \cup {[Mail EXCEPT !.mailbox = 2]}
      [] f = "phone" ->
           {[given |-> "value", length |-> l, plain |-> p, digits |-> d] :
               l \in {32, 33}, p \in BOOLEAN, d \in {6, 7, 15, 16}}
      [] f = "starts_at_local" ->
           {[Monday EXCEPT !.pattern = FALSE], [Monday EXCEPT !.real = FALSE],
            [Monday EXCEPT !.offset = 841]}
      [] f = "utc_offset_minutes" -> {Number(n) : n \in {-841, -300, 841}}
      [] f = "party_size" ->
           {Number(n) : n \in {0, 1, MaxParty}} \cup {[Number(4) EXCEPT !.whole = FALSE]}
      [] f = "newsletter_action" ->
           {Choice(a) : a \in {"unsubscribe", "no_change", "unknown"}}
      [] OTHER -> {}

OneChanged(p) ==
    {p} \cup UNION {{[p EXCEPT ![f] = v] :
                        v \in Variants(f) \cup {[p[f] EXCEPT !.given = g] : g \in Given}} :
                    f \in DOMAIN p}

Queries ==
    {Query, [Query EXCEPT !.complete = FALSE]}
    \cup {[Query EXCEPT !.local_date = [pattern |-> p, real |-> FALSE]] : p \in BOOLEAN}
    \cup {[Query EXCEPT !.party_size = [digits |-> d, value |-> n]] :
             d \in BOOLEAN, n \in {0, MaxParty}}

Payloads(op) ==
    CASE op = "book" -> OneChanged(Booking) \cup {Caseless}
      [] op = "set_preference" -> OneChanged(Preference)
      [] op = "status" -> OneChanged(Identified)
      [] op = "availability" -> Queries
      [] OTHER -> {[complete |-> FALSE]}

Proper(op, payload) ==
    [target |-> op, method |-> Method(op), query |-> op = "availability", media |-> "json",
     body |-> IF op \in Posts THEN "object" ELSE "empty", unknown_field |-> FALSE,
     payload |-> payload]

Improper(r) ==
    {[r EXCEPT !.target = "unknown"], [r EXCEPT !.query = ~@], [r EXCEPT !.media = "other"],
     [r EXCEPT !.unknown_field = TRUE]}
    \cup {[r EXCEPT !.method = m] : m \in {"GET", "HEAD", "POST"}}
    \cup {[r EXCEPT !.body = b] : b \in {"empty", "too_large", "broken"}}

HttpRequests ==
    [op \in Posts \cup Gets |->
        LET proper == {Proper(op, payload) : payload \in Payloads(op)}
        IN  proper \cup Improper(CHOOSE r \in proper : Refusal(r) = "none")]
=============================================================================
