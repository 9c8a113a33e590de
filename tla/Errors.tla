------------------------------- MODULE Errors -------------------------------
(***************************************************************************)
(* How an error becomes an answer and metrics.  An error is named by its   *)
(* class; a class that is not in BaseErrors is foreign: a jose or AWS      *)
(* error, or a plain Error.  Messages are left out but for one thing,      *)
(* whether the client sees the error's own.                                *)
(***************************************************************************)
EXTENDS Naturals, Sequences

Answer(status, code) == [status |-> status, code |-> code]

\* The classes derived from BaseError: statusCode, and the code if there is one.
BaseErrors ==
    [InvalidAccessToken       |-> Answer(403, "1026"),
     InvalidRequest           |-> Answer(400, ""),
     InvalidPayload           |-> Answer(400, ""),
     Server                   |-> Answer(500, ""),
     JweDecrypter             |-> Answer(403, ""),
     GenericServer            |-> Answer(500, "1025"),
     JwtSignatureValidation   |-> Answer(403, "1013"),
     SessionNotFound          |-> Answer(400, "1029"),
     SessionValidation        |-> Answer(400, "1019"),
     AuthorizationCodeExpired |-> Answer(403, "1027"),
     SessionExpired           |-> Answer(403, "1028"),
     AccessDenied             |-> Answer(403, "access_denied")]

IsBaseError(error) == error \in DOMAIN BaseErrors

\* A slip: no status for foreign errors, which API Gateway answers with 502.
NoDefaultStatus(error) ==
    LET status == IF IsBaseError(error) THEN BaseErrors[error].status ELSE 502
    IN  [status |-> status, code |-> "", ownMessage |-> TRUE]

\* errorPayload: what a lambda answers when it ends in this error.
ErrorPayload(error) ==
    LET status == IF IsBaseError(error) THEN BaseErrors[error].status ELSE 500
    IN  [status     |-> status,
         code       |-> IF IsBaseError(error) THEN BaseErrors[error].code ELSE "",
         ownMessage |-> status < 500]

\* A metric as captureMetric records it.
Metric(name, value) == [name |-> name, value |-> value]

\* The metrics hold one of this name, and it has this value.
CountedAs(metrics, name, value) ==
    \E i \in DOMAIN metrics :
        /\ metrics[i] = Metric(name, value)
        /\ \A j \in DOMAIN metrics \ {i} : metrics[j].name # name

\* A slip: a refused request counted, but not what it was refused for.
OutcomeOnly(metric, error, details) == <<Metric(metric, 0)>>

\* onError of the error middleware: the metrics of a request of a lambda whose
\* outcome metric is `metric', for an error with these details.
ErrorMetrics(metric, error, details) ==
    <<Metric(metric, 0)>> \o
    (IF error = "SessionValidation" /\ metric = "session_created"
     THEN IF details = "ERR_JWT_EXPIRED"
          THEN <<Metric("jwt_expired", 1)>>
          ELSE <<Metric("jwt_verification_failed", 1)>>
     ELSE <<>>)
=============================================================================
