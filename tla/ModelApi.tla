------------------------------ MODULE ModelApi ------------------------------
(***************************************************************************)
(* What a call of the Model API can end in and the error this backend      *)
(* raises for it (shared/integrations/model-api.client), and the HTTP      *)
(* status of every error class (core/errors).                              *)
(***************************************************************************)
EXTENDS Naturals

\* How a call fails: the connection, the deadline before the headers or in
\* the middle of the body, an HTTP error, a body that is no JSON or of
\* another shape.
Failures == {"refused", "timeout", "cut", "server", "client", "garbled", "shape"}

\* parseJsonBody: an unreadable body was turned into "" by readResponseBody,
\* and "" parses to null, which no response schema accepts.
ParseJsonBody(failure) == IF failure = "garbled" THEN "Downstream" ELSE "ZodError"

\* mapModelApiHttpError: only the status decides.
MapModelApiHttpError(failure) == IF failure = "server" THEN "Unavailable" ELSE "Downstream"

\* What the try block of requestModelApi and requestMultipartModelApi throws.
Thrown(failure) ==
    CASE failure \in {"server", "client"} -> MapModelApiHttpError(failure)
      [] failure \in {"garbled", "shape", "cut"} -> ParseJsonBody(failure)
      [] failure = "timeout" -> "AbortError"
      [] failure = "refused" -> "TypeError"

\* What the catch block of both makes of it.
Caught(thrown) ==
    CASE thrown \in {"Downstream", "Unavailable"} -> thrown
      [] thrown = "ZodError" -> "Downstream"
      [] thrown \in {"AbortError", "TypeError"} -> "Unavailable"

RequestError(failure) == Caught(Thrown(failure))

StatusOf == [NotFound |-> 404, Conflict |-> 409, Validation |-> 422,
             Downstream |-> 502, Unavailable |-> 503]

\* normalizeError: whatever is no AppError answers 500.
Normalized(class) == IF class \in DOMAIN StatusOf THEN StatusOf[class] ELSE 500
=============================================================================
