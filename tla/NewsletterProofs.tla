-------------------------- MODULE NewsletterProofs --------------------------
(***************************************************************************)
(* Theorems about the newsletter form: what is shown is about the person   *)
(* the fields name, a choice that was not saved is kept, and an unresolved *)
(* change is only repeated; for any customers, and any number of clicks,   *)
(* look-ups and saves.                                                     *)
(***************************************************************************)
EXTENDS NewsletterForm, FiniteSetTheorems, TLAPS

Stages == {"waiting", "sent", "conflict", "not_found", "matched_on", "matched_off",
           "indeterminate", "error"}
Queries == [sequence : Nat, about : Identities, choice : Nat, edits : Nat, stage : Stages]
States == Stages \cup {"checking", "not_checked"}
Bodies == [about : Identities, subscribed : BOOLEAN]

FormTypeOK ==
    /\ values \in Identities \cup {Incomplete}
    /\ checked \in BOOLEAN /\ choice \in Nat /\ edits \in Nat /\ sequence \in Nat
    /\ queries \subseteq Queries
    /\ pending \in BOOLEAN
    /\ recovery \in Bodies \cup {NoBody}
    /\ stored \in [Identities -> {"none", "on", "off"}]

\* The look-up follows the fields: whoever changes them runs the effect.
LookupOK == lookup \in [state : States, about : {values}]

\* A body is sent from the fields only when nothing is unresolved.
SaveOK ==
    /\ pending => /\ save.body \in Bodies /\ unresolved = {save.body}
                  /\ recovery # NoBody => recovery = save.body
    /\ ~pending => unresolved = IF recovery = NoBody THEN {} ELSE {recovery}
    /\ save \in [body : Bodies \cup {NoBody}, answer : {"none", "set", "refused",
                    "temporary_failure", "internal_error", "unknown"}]

FormInv == FormTypeOK /\ LookupOK /\ SaveOK

-----------------------------------------------------------------------------
(* The look-up *)

LEMMA EffectOK ==
    ASSUME FormInv, NEW identity \in Identities \cup {Incomplete}, RunEffect(identity)
    PROVE  /\ sequence' \in Nat /\ queries' \subseteq Queries
           /\ lookup' \in [state : States, about : {identity}]
<1>1. sequence' \in Nat
  BY DEF RunEffect, FormInv, FormTypeOK
<1>2. CASE identity = Incomplete
  BY <1>1, <1>2 DEF RunEffect, Nobody, States, FormInv, FormTypeOK
<1>3. CASE identity # Incomplete
  <2> DEFINE new == [sequence |-> sequence + 1, about |-> identity,
                     choice |-> choice, edits |-> edits, stage |-> "waiting"]
  <2>1. new \in Queries
    BY <1>3 DEF Queries, Stages, FormInv, FormTypeOK
  <2>2. queries' = {q \in queries : q.stage # "waiting"} \cup {new}
    BY <1>3 DEF RunEffect
  <2>3. lookup' = [state |-> "waiting", about |-> identity]
    BY <1>3 DEF RunEffect
  <2> QED  BY <1>1, <2>1, <2>2, <2>3 DEF States, Stages, FormInv, FormTypeOK
<1> QED  BY <1>2, <1>3

LEMMA BecomesOK ==
    ASSUME FormInv, NEW q \in queries, NEW stage \in Stages, Becomes(q, stage)
    PROVE  queries' \subseteq Queries
<1>1. q \in Queries
  BY DEF FormInv, FormTypeOK
<1>2. [q EXCEPT !.stage = stage] \in Queries
  BY <1>1 DEF Queries
<1> QED  BY <1>2 DEF Becomes, FormInv, FormTypeOK

LEMMA LookupOKStep ==
    ASSUME FormInv, LookupNext
    PROVE  /\ queries' \subseteq Queries /\ lookup' \in [state : States, about : {values}]
           /\ checked' \in BOOLEAN
           /\ UNCHANGED <<values, choice, edits, sequence, stored>>
           /\ choice > 0 => checked' = checked
<1> USE DEF FormInv, FormTypeOK
<1>1. PICK q \in queries : TimerFires(q) \/ ServerReads(q) \/ LookupAnswered(q)
  BY DEF LookupNext
<1>2. CASE TimerFires(q)
  <2>1. queries' \subseteq Queries
    BY <1>2, BecomesOK DEF TimerFires, Stages
  <2>2. lookup' \in [state : States, about : {values}]
    BY <1>2 DEF TimerFires, LookupOK, States
  <2> QED  BY <1>2, <2>1, <2>2 DEF TimerFires, box
<1>3. CASE ServerReads(q)
  <2> DEFINE row == CASE q.about \in Strangers      -> "conflict"
                      [] stored[q.about] = "none"   -> "not_found"
                      [] stored[q.about] = "on"     -> "matched_on"
                      [] stored[q.about] = "off"    -> "matched_off"
  <2>1. PICK stage \in Stages : Becomes(q, stage)
    <3>1. stored[q.about] \in {"none", "on", "off"}
      BY DEF Queries
    <3>2. row \in Stages
      BY <3>1, Zenon DEF Stages
    <3>3. row \in Stages => (Becomes(q, row) => \E stage \in Stages : Becomes(q, stage))
      OBVIOUS
    <3>4. \A failure \in {"indeterminate", "error"} : failure \in Stages
      BY DEF Stages
    <3> QED  BY <1>3, <3>2, <3>3, <3>4 DEF ServerReads
  <2> QED  BY <1>3, <2>1, BecomesOK DEF ServerReads, box, LookupOK
<1>4. CASE LookupAnswered(q)
  <2>1. queries' \subseteq Queries /\ UNCHANGED <<values, choice, edits, sequence, stored>>
    BY <1>4 DEF LookupAnswered
  <2>2. lookup' \in [state : States, about : {values}]
    <3>1. q.stage \in States
      BY DEF Queries, States
    <3> QED  BY <1>4, <3>1 DEF LookupAnswered, Current, LookupOK
  <2>3. checked' \in BOOLEAN /\ (choice > 0 => checked' = checked)
    <3>1. Synchronized(q.stage) \in BOOLEAN
      BY Zenon DEF Synchronized
    <3>2. checked' = checked \/ (choice = 0 /\ checked' = Synchronized(q.stage))
      BY <1>4, Zenon DEF LookupAnswered
    <3>3. choice = 0 => ~(choice > 0)
      OBVIOUS
    <3> QED  BY <3>1, <3>2, <3>3, Zenon
  <2> QED  BY <2>1, <2>2, <2>3
<1> QED  BY <1>1, <1>2, <1>3, <1>4
-----------------------------------------------------------------------------
(* The steps *)

LEMMA InitForm == Init => FormInv
<1> SUFFICES ASSUME Init  PROVE FormInv
  OBVIOUS
<1>1. FormTypeOK
  BY DEF Init, LookupInit, FormTypeOK
<1>2. LookupOK
  BY DEF Init, LookupInit, Nobody, LookupOK, States
<1>3. SaveOK
  BY DEF Init, NoSave, SaveOK
<1> QED  BY <1>1, <1>2, <1>3 DEF FormInv

LEMMA AfterOK ==
    ASSUME stored \in [Identities -> {"none", "on", "off"}], NEW body, stored' = After(body)
    PROVE  stored' \in [Identities -> {"none", "on", "off"}]
BY DEF After

LEMMA SendOK ==
    ASSUME FormInv, NEW body \in Bodies, Send(body), recovery # NoBody => body = recovery
    PROVE  FormInv'
<1> USE DEF FormInv
<1>1. FormTypeOK' /\ LookupOK'
  BY DEF Send, FormTypeOK, LookupOK, box, looking
<1>2. ~pending /\ pending' = TRUE /\ recovery' = recovery
      /\ save' = [body |-> body, answer |-> "none"] /\ unresolved' = unresolved \cup {body}
  BY DEF Send
<1>3. unresolved' = {body}
  BY <1>2 DEF SaveOK
<1> QED  BY <1>1, <1>2, <1>3 DEF SaveOK

LEMMA SaveAnsweredOK ==
    ASSUME FormInv, SaveAnswered
    PROVE  FormInv'
<1> USE DEF FormInv
<1>1. save.body \in Bodies /\ unresolved = {save.body} /\ save.body # NoBody
  BY FormAssumption DEF SaveAnswered, SaveOK, Bodies
<1>2. CASE save.answer = "set"
  <2>1. recovery' = NoBody /\ choice' = 0 /\ checked' = save.body.subscribed
        /\ pending' = FALSE /\ save' = NoSave /\ unresolved' = {}
        /\ UNCHANGED <<values, edits, lookup, sequence, queries, stored>>
    BY <1>2 DEF SaveAnswered, looking
  <2>2. checked' \in BOOLEAN
    BY <1>1, <2>1 DEF Bodies
  <2>3. FormTypeOK' /\ LookupOK'
    BY <2>1, <2>2 DEF FormTypeOK, LookupOK
  <2> QED  BY <2>1, <2>3 DEF SaveOK, NoSave
<1>3. CASE save.answer # "set"
  <2>1. /\ recovery' \in {save.body, NoBody} /\ pending' = FALSE /\ save' = NoSave
        /\ unresolved' = IF recovery' = NoBody THEN {} ELSE unresolved
        /\ UNCHANGED <<values, box, looking, stored>>
    BY <1>3 DEF SaveAnswered, box
  <2>2. FormTypeOK' /\ LookupOK'
    BY <1>1, <2>1 DEF FormTypeOK, LookupOK, box, looking
  <2> QED  BY <1>1, <2>1, <2>2 DEF SaveOK, NoSave
<1> QED  BY <1>2, <1>3

LEMMA Inductive == FormInv /\ [Next]_vars => FormInv'
<1> SUFFICES ASSUME FormInv, [Next]_vars  PROVE FormInv'
  OBVIOUS
<1> USE DEF FormInv
<1>1. ASSUME NEW identity \in Identities \cup {Incomplete}, Type(identity)  PROVE FormInv'
  <2>1. RunEffect(identity) /\ values' = identity
    BY <1>1 DEF Type, TypeIdentity
  <2>2. FormTypeOK' /\ LookupOK'
    BY <1>1, <2>1, EffectOK DEF Type, FormTypeOK, LookupOK, box
  <2>3. SaveOK'
    BY <1>1 DEF Type, SaveOK
  <2> QED  BY <2>2, <2>3
<1>2. CASE Retry
  <2>1. RunEffect(values) /\ values \in Identities \cup {Incomplete}
    BY <1>2 DEF Retry, RetryLookup, FormTypeOK
  <2>2. FormTypeOK' /\ LookupOK'
    BY <1>2, <2>1, EffectOK DEF Retry, FormTypeOK, LookupOK, box, saving
  <2>3. SaveOK'
    BY <1>2 DEF Retry, SaveOK, saving
  <2> QED  BY <2>2, <2>3
<1>3. CASE LookupNext /\ UNCHANGED saving
  <2>1. FormTypeOK' /\ LookupOK'
    BY <1>3, LookupOKStep DEF FormTypeOK, LookupOK, saving
  <2>2. SaveOK'
    BY <1>3 DEF SaveOK, saving
  <2> QED  BY <2>1, <2>2
<1>4. CASE Toggle
  <2>1. FormTypeOK' /\ LookupOK'
    BY <1>4 DEF Toggle, ClickBox, FormTypeOK, LookupOK, looking
  <2>2. SaveOK'
    BY <1>4 DEF Toggle, SaveOK
  <2> QED  BY <2>1, <2>2
<1>5. CASE Submit
  <2>1. Displayed \in Bodies
    BY <1>5 DEF Submit, Displayed, Bodies, FormTypeOK
  <2> QED  BY <1>5, <2>1, SendOK DEF Submit
<1>6. CASE Resend
  <2>1. recovery \in Bodies
    BY <1>6 DEF Resend, FormTypeOK
  <2> QED  BY <1>6, <2>1, SendOK DEF Resend
<1>7. CASE Abandon
  <2>1. FormTypeOK' /\ LookupOK'
    BY <1>7 DEF Abandon, FormTypeOK, LookupOK, box, looking
  <2>2. SaveOK'
    BY <1>7 DEF Abandon, SaveOK, FormTypeOK
  <2> QED  BY <2>1, <2>2
<1>8. CASE ServerSaves
  <2>1. stored' \in [Identities -> {"none", "on", "off"}]
    BY <1>8, AfterOK DEF ServerSaves, FormTypeOK
  <2>2. FormTypeOK' /\ LookupOK'
    BY <1>8, <2>1 DEF ServerSaves, FormTypeOK, LookupOK, box, looking
  <2>3. PICK answer \in {"set", "refused", "temporary_failure", "internal_error", "unknown"} :
            save' = [save EXCEPT !.answer = answer]
    BY <1>8 DEF ServerSaves
  <2>4. SaveOK'
    BY <1>8, <2>3 DEF ServerSaves, SaveOK
  <2> QED  BY <2>2, <2>4
<1>9. CASE SaveAnswered
  BY <1>9, SaveAnsweredOK
<1>10. ASSUME NEW body \in late, ServerCatchesUp(body)  PROVE FormInv'
  <2>1. stored' \in [Identities -> {"none", "on", "off"}]
    BY <1>10, AfterOK DEF ServerCatchesUp, FormTypeOK
  <2>2. FormTypeOK' /\ LookupOK' /\ SaveOK'
    BY <1>10, <2>1 DEF ServerCatchesUp, FormTypeOK, LookupOK, SaveOK, box, looking
  <2> QED  BY <2>2
<1>11. CASE UNCHANGED vars
  BY <1>11 DEF vars, saving, box, looking, FormTypeOK, LookupOK, SaveOK
<1> QED  BY <1>1, <1>2, <1>3, <1>4, <1>5, <1>6, <1>7, <1>8, <1>9, <1>10, <1>11 DEF Next

LEMMA FormInvariant == Spec => []FormInv
BY InitForm, Inductive, PTL DEF Spec

-----------------------------------------------------------------------------
(* The theorems *)

\* Whatever order timers and answers come in, what the look-up shows is about
\* the person the fields name (useNewsletterLookup.js:20-44).
THEOREM CurrentLookup == Spec => []LookupIsCurrent
<1>1. FormInv => LookupIsCurrent
  BY DEF FormInv, LookupOK, LookupIsCurrent
<1> QED  BY <1>1, FormInvariant, PTL

\* While a save is unresolved, every request asks for the same change
\* (NewsletterPreferences.jsx:39, 81 and 132).
THEOREM OnlyRepeated == Spec => []OneUnresolvedBody
<1>1. FormInv => OneUnresolvedBody
  <2> SUFFICES ASSUME FormInv  PROVE Cardinality(unresolved) =< 1
    BY DEF OneUnresolvedBody
  <2>1. unresolved = {} \/ \E body : unresolved = {body}
    BY DEF FormInv, FormTypeOK, SaveOK
  <2>2. CASE unresolved = {}
    <3>1. Cardinality(unresolved) = 0
      BY <2>2, FS_EmptySet
    <3> QED  BY <3>1
  <2>3. ASSUME NEW body, unresolved = {body}  PROVE Cardinality(unresolved) =< 1
    <3>1. Cardinality({body}) = 1
      BY FS_Singleton
    <3> QED  BY <2>3, <3>1
  <2> QED  BY <2>1, <2>2, <2>3
<1> QED  BY <1>1, FormInvariant, PTL

\* A choice that was not saved changes only by a click or by the answer to a
\* save (useNewsletterLookup.js:27).
THEOREM ChoiceKept == Spec => DirtyChoiceKept
<1>1. FormInv /\ [Next]_vars =>
        [choice > 0 /\ choice' = choice => checked' = checked]_<<checked, choice>>
  <2> SUFFICES ASSUME FormInv, [Next]_vars, choice > 0, choice' = choice
               PROVE  checked' = checked
    OBVIOUS
  <2>1. choice \in Nat
    BY DEF FormInv, FormTypeOK
  <2>2. CASE LookupNext
    BY <2>2, LookupOKStep
  <2>3. CASE Toggle
    BY <2>1, <2>3 DEF Toggle, ClickBox
  <2>4. CASE SaveAnswered
    <3>1. choice' # 0
      BY <2>1
    <3> QED  BY <2>4, <3>1 DEF SaveAnswered
  <2>5. CASE ~(LookupNext \/ Toggle \/ SaveAnswered)
    <3>1. UNCHANGED box
      BY <2>5 DEF Next, vars, Type, Retry, Submit, Resend, Send, Abandon, ServerSaves,
          ServerCatchesUp
    <3> QED  BY <3>1 DEF box
  <2> QED  BY <2>2, <2>3, <2>4, <2>5
<1> QED  BY <1>1, FormInvariant, PTL DEF Spec, DirtyChoiceKept
=============================================================================
