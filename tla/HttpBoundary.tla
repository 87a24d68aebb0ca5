---------------------------- MODULE HttpBoundary ----------------------------
(***************************************************************************)
(* The HTTP edge of the service: which requests are refused before an      *)
(* operation is called (http/blueprint.py, http/parsing.py, http/routes),  *)
(* what an outcome or an exception becomes on the wire (serialization,     *)
(* http/error_handlers.py, http/responses.py), and how the two forms read  *)
(* such an answer.                                                         *)
(***************************************************************************)
EXTENDS Integers, Sequences, FiniteSetsExt, RequestRules

Posts == {"book", "set_preference", "status"}
Gets == {"context", "availability", "liveness", "readiness"}

\* One path per operation.
Method(target) == IF target \in Posts THEN "POST" ELSE "GET"

-----------------------------------------------------------------------------
(* A request is a record of
     target         an operation, or "unknown" for any other path
     method         the HTTP method
     query          it has a query string
     media          "json", or "other" for another type or charset
     body           "empty", "too_large", "broken" or "object"
     unknown_field  the object has a field the operation does not know
     payload        the fields, or the parameters of the query             *)

\* A code with the reason to answer it; the first that holds is answered.
FirstOf(checks) ==
    LET failed == {i \in DOMAIN checks : checks[i][1]}
    IN  IF failed = {} THEN "none" ELSE checks[Min(failed)][2]

\* The URL map, and before_request, which refuses HEAD on every path.
RoutingError(r) ==
    FirstOf(<< <<r.target \notin Posts \cup Gets, "route_not_found">>,
               <<r.method # Method(r.target), "method_not_allowed">> >>)

\* parse_post_json_object; a body over MAX_CONTENT_LENGTH is found when it is read.
PostError(r) ==
    FirstOf(<< <<r.query, "invalid_request">>,
               <<r.media # "json", "unsupported_media_type">>,
               <<r.body = "too_large", "invalid_request">>,
               <<r.body = "empty", "request_body_required">>,
               <<r.body = "broken", "invalid_json">>,
               <<r.unknown_field, "invalid_request">> >>)

\* require_empty_health_get, and the guards of reservation_availability, which
\* wants both parameters, each once and not empty, and no other.
GetError(r) ==
    FirstOf(<< <<r.body # "empty", "invalid_request">>,
               <<r.target # "availability" /\ r.query, "invalid_request">>,
               <<r.target = "availability" /\ ~r.payload.complete, "invalid_request">> >>)

FieldErrors(r) ==
    CASE r.target = "book" -> BookingErrors(r.payload)
      [] r.target = "set_preference" -> PreferenceErrors(r.payload)
      [] r.target = "status" -> IdentityErrors(r.payload)
      [] r.target = "availability" -> QueryErrors(r.payload)
      [] OTHER -> {}

\* The code a request is refused with before its service is called.
Refusal(r) ==
    LET routing  == RoutingError(r)
        protocol == IF r.target \in Posts THEN PostError(r) ELSE GetError(r)
    IN  CASE routing # "none" -> routing
          [] routing = "none" /\ protocol # "none" -> protocol
          [] OTHER -> IF FieldErrors(r) = {} THEN "none" ELSE "validation_failed"

-----------------------------------------------------------------------------
(* Answers *)

Answer(status, code, retryable, unknown) ==
    [status |-> status, code |-> code, retryable |-> retryable, outcome_unknown |-> unknown]

Success(status) == Answer(status, "none", FALSE, FALSE)

Status(code) ==
    CASE code \in {"invalid_json", "request_body_required", "invalid_request"} -> 400
      [] code = "route_not_found" -> 404
      [] code = "method_not_allowed" -> 405
      [] code \in {"customer_identity_conflict", "middle_initial_conflict",
                   "reservation_overlap", "reservation_unavailable"} -> 409
      [] code = "unsupported_media_type" -> 415
      [] code = "validation_failed" -> 422
      [] code = "internal_error" -> 500
      [] OTHER -> 503

UnknownCodes == {"newsletter_preference_outcome_unknown", "reservation_outcome_unknown"}

\* ERRORS, and error_response for a code without a status of its own.
Envelope(code) ==
    Answer(Status(code), code, Status(code) = 503, code \in UnknownCodes)

\* A status that is not the code's raises, and ends in the last handler.
ErrorResponse(code, status) ==
    Envelope(IF status = Status(code) THEN code ELSE "internal_error")

\* The decoded outcomes of the operations on customers.
Conflicts == {"customer_identity_conflict", "middle_initial_conflict"}

\* serialize_reservation_booking; detail is the code of a refused request.
BookingResponse(outcome, detail) ==
    CASE outcome \in {"booked", "booked_phone_notice"} -> Success(201)
      [] outcome = "exact_retry" -> Success(200)
      [] outcome \in Conflicts -> ErrorResponse(outcome, 409)
      [] outcome = "same_customer_overlap" -> ErrorResponse("reservation_overlap", 409)
      [] outcome = "unavailable" -> ErrorResponse("reservation_unavailable", 409)
      [] outcome = "invalid_request" ->
            IF detail = "time_boundary_crossed_during_booking"
            THEN ErrorResponse("reservation_unavailable", 409)
            ELSE IF detail = "requires_read_committed"
                 THEN Envelope("internal_error")
                 ELSE ErrorResponse("validation_failed", 422)

\* serialize_newsletter_status and serialize_newsletter_preference
CustomerResponse(outcome) ==
    CASE outcome \in {"matched", "not_found", "subscribed", "unsubscribed",
                      "no_customer_no_change"} -> Success(200)
      [] outcome \in Conflicts -> ErrorResponse(outcome, 409)
      [] outcome = "invalid_request" -> ErrorResponse("validation_failed", 422)

\* serialize_reservation_availability and serialize_reservation_context
ScheduleResponse(outcome) ==
    IF outcome = "invalid_request" THEN ErrorResponse("validation_failed", 422) ELSE Success(200)

\* Mutant of FailureResponse: nobody handles an unknown outcome.
FailureResponse_Unhandled(op, failure) ==
    CASE failure = "temporary_failure" -> ErrorResponse("temporary_failure", 503)
      [] failure = "confirmation_unavailable" ->
            ErrorResponse("reservation_confirmation_unavailable", 503)
      [] failure = "service_unavailable" -> ErrorResponse("service_unavailable", 503)
      [] OTHER -> ErrorResponse("internal_error", 500)

\* The handlers of the exceptions the services raise.
FailureResponse(op, failure) ==
    CASE failure = "temporary_failure" -> ErrorResponse("temporary_failure", 503)
      [] failure = "outcome_unknown" ->
            ErrorResponse(IF op = "book" THEN "reservation_outcome_unknown"
                          ELSE "newsletter_preference_outcome_unknown", 503)
      [] failure = "confirmation_unavailable" ->
            ErrorResponse("reservation_confirmation_unavailable", 503)
      [] failure = "service_unavailable" -> ErrorResponse("service_unavailable", 503)
      [] failure = "indeterminate" -> ErrorResponse("newsletter_status_indeterminate", 503)
      [] failure = "not_ready" -> ErrorResponse("service_not_ready", 503)
      [] OTHER -> ErrorResponse("internal_error", 500)

-----------------------------------------------------------------------------
(* The forms *)

\* Codes the forms treat as a final refusal.
Final == Conflicts \cup {"validation_failed", "reservation_overlap", "reservation_unavailable"}

\* The form keeps the body of the request, to send it once more unchanged.
KeepsBody(a) ==
    /\ a.code \notin Final
    /\ \/ a.outcome_unknown \/ a.retryable
       \/ a.code = "reservation_confirmation_unavailable"
=============================================================================
