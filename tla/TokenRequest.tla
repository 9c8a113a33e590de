---------------------------- MODULE TokenRequest ----------------------------
(***************************************************************************)
(* POST /token from the form to the answer, in one warm container, and     *)
(* what POST /session has to do with it: the client's redirect URI.  Each  *)
(* of the two lambdas keeps its own copy of the client's configuration for *)
(* the life of its container; the session lambda checks the authorization  *)
(* request against its copy, the token lambda the token request against    *)
(* its own, and nobody compares the two requests.                          *)
(*                                                                         *)
(* A session's code is named by the session.  Whether the reads find it    *)
(* and the update's condition holds is AuthorizationCode's matter: here    *)
(* every outcome is possible.                                              *)
(***************************************************************************)
EXTENDS Errors

CONSTANTS Client, Uri, Session, None

\* What this lambda uses of a session item.
Item == [client : Client, redirectUri : Uri]

ASSUME TokenAssumption == None \notin Client \cup Uri \cup Session \cup Item

VARIABLES
    redirect,  \* the clients' parameter jwtAuthentication/redirectUri
    ever,      \* history: the values it has had
    known,     \* the clientConfigs of a container of each lambda
    made,      \* the sessions POST /session has saved
    job        \* the token request in progress in the container, or the last

vars == <<redirect, ever, known, made, job>>

Lambda == {"session", "token"}

\* Steps of a token request; those before "redirect" are middlewares.
Step == {"query", "config", "read", "redirect", "assertion", "store"}

\* The metrics of this lambda.
MetricName == {"accesstoken", "jwt_verification_failed"}

\* The request: the session its code is in, its redirect URI, and the client
\* its assertion was issued by and for if all else is right with it; body is
\* what the middlewares have made of it.
NoJob == [step |-> "none", session |-> None, redirectUri |-> None, assertion |-> None,
          body |-> None, took |-> FALSE, failed |-> "", status |-> 0, metrics |-> <<>>]

TypeOK ==
    /\ redirect \in [Client -> Uri]
    /\ ever \in [Client -> SUBSET Uri]
    /\ known \in [Lambda -> [Client -> Uri \cup {None}]]
    /\ made \in [Session -> Item \cup {None}]
    /\ job \in [step : Step \cup {"none", "done"}, session : Session \cup {None},
                redirectUri : Uri \cup {None}, assertion : Client \cup {None},
                body : Item \cup {None}, took : BOOLEAN, failed : Step \cup {"", "form"},
                status : {0, 200, 400, 403, 500},
                metrics : Seq([name : MetricName, value : {0, 1}])]

Init ==
    /\ redirect \in [Client -> Uri]
    /\ ever = [c \in Client |-> {redirect[c]}]
    /\ known = [l \in Lambda |-> [c \in Client |-> None]]
    /\ made = [s \in Session |-> None]
    /\ job = NoJob

-----------------------------------------------------------------------------
(* The client configurations of the two containers.                        *)

\* initClientConfig, skipped when hasClientConfig: it is never read again.  The
\* parameter provider may serve a value it has kept (ContainerConfig says for
\* how long).
MayLoad(l, c) == IF known[l][c] = None THEN ever[c] ELSE {known[l][c]}

ChangeRedirect(c, u) ==
    /\ redirect' = [redirect EXCEPT ![c] = u]
    /\ ever' = [ever EXCEPT ![c] = @ \cup {u}]
    /\ UNCHANGED <<known, made, job>>

\* A container is replaced, and the request in it with it.
ColdStart(l) ==
    /\ known' = [known EXCEPT ![l] = [c \in Client |-> None]]
    /\ job' = IF l = "token" THEN NoJob ELSE job
    /\ UNCHANGED <<redirect, ever, made>>

\* The session lambda loads the configuration of the request's client.
SessionConfig(c) ==
    /\ \E u \in MayLoad("session", c) : known' = [known EXCEPT !["session"][c] = u]
    /\ UNCHANGED <<redirect, ever, made, job>>

\* A slip: the request's redirect URI taken as it is.
SaveUnchecked(s, c, u) ==
    /\ made[s] = None
    /\ known["session"][c] # None
    /\ made' = [made EXCEPT ![s] = [client |-> c, redirectUri |-> u]]
    /\ UNCHANGED <<redirect, ever, known, job>>

\* POST /session saves the redirect URI of the authorization request, which
\* is the configured one (SessionRequest has the rest of that lambda).
SaveSession(s, c, u) ==
    /\ made[s] = None
    /\ known["session"][c] = u
    /\ made' = [made EXCEPT ![s] = [client |-> c, redirectUri |-> u]]
    /\ UNCHANGED <<redirect, ever, known, job>>

-----------------------------------------------------------------------------
(* Ends of a token request.                                                *)

\* A slip: an error that reaches both the handler's catch and the middleware.
CountedTwice(error, step) ==
    <<Metric("accesstoken", 0)>> \o ErrorMetrics("accesstoken", error, "")

\* The handler's catch: only verifyJwtSignature itself throws the
\* InvalidRequestError it looks for, and not when jose does.
HandlerMetrics(error, step) ==
    (IF error = "InvalidRequest" /\ step = "assertion"
     THEN <<Metric("jwt_verification_failed", 1)>> ELSE <<>>)
    \o <<Metric("accesstoken", 0)>>

\* An error in this step: in a middleware it goes to the error middleware.
Refused(request, step, error) ==
    [request EXCEPT
        !.step = "done", !.failed = step,
        !.status = ErrorPayload(error).status,
        !.metrics = IF step \in {"redirect", "assertion", "store"}
                    THEN HandlerMetrics(error, step)
                    ELSE ErrorMetrics("accesstoken", error, "")]

Granted(request) ==
    [request EXCEPT !.step = "done", !.took = TRUE, !.status = 200,
                    !.metrics = <<Metric("accesstoken", 1)>>]

UnchangedOthers == UNCHANGED <<redirect, ever, known, made>>

-----------------------------------------------------------------------------
(* The steps.                                                              *)

\* init, which may fail, and validatePayload, whose checks all end alike.
Receive(s, u, a) ==
    LET request == [NoJob EXCEPT !.step = "query", !.session = s,
                                 !.redirectUri = u, !.assertion = a]
    IN  /\ job.step \in {"none", "done"}
        /\ job' \in {request, Refused(request, "form", "Error"),
                     Refused(request, "form", "InvalidRequest")}
        /\ UnchangedOthers

\* A slip: the index item spread last, over the request.
MergedLast(s) == made[s]

\* {...sessionItem, ...requestPayload}: of the two redirect URIs the
\* request's stays, of everything else the item's.
Merged(s) == [made[s] EXCEPT !.redirectUri = job.redirectUri]

\* getSessionByAuthorizationCode; the query itself may fail.
Query ==
    /\ job.step = "query"
    /\ \/ /\ made[job.session] # None
          /\ job' = [job EXCEPT !.step = "config", !.body = Merged(job.session)]
       \/ job' \in {Refused(job, "query", "InvalidAccessToken"),
                    Refused(job, "query", "Error")}
    /\ UnchangedOthers

\* A slip: a configuration that cannot be loaded is passed over.
ConfigOptional ==
    LET c == job.body.client
    IN  /\ job.step = "config"
        /\ \E u \in MayLoad("token", c) \cup {None} :
               known' = [known EXCEPT !["token"][c] = u]
        /\ job' = [job EXCEPT !.step = "read"]
        /\ UNCHANGED <<redirect, ever, made>>

\* initialiseClientConfig for the client of the item.
ClientConfig ==
    LET c == job.body.client
    IN  /\ job.step = "config"
        /\ \/ /\ \E u \in MayLoad("token", c) : known' = [known EXCEPT !["token"][c] = u]
              /\ job' = [job EXCEPT !.step = "read"]
           \/ /\ known["token"][c] = None
              /\ known' = known
              /\ job' = Refused(job, "config", "Error")
        /\ UNCHANGED <<redirect, ever, made>>

\* getSession and its expiry checks.  {...sessionItem, ...event.body} again
\* leaves what is there: the request's redirect URI, the index's code.
ReadSession ==
    /\ job.step = "read"
    /\ \/ job' = [job EXCEPT !.step = "redirect"]
       \/ \E error \in {"SessionNotFound", "SessionExpired",
                        "AuthorizationCodeExpired", "Error"} :
            job' = Refused(job, "read", error)
    /\ UnchangedOthers

\* validateTokenRequestToRecord.  Its comparison of codes is one of the code
\* with itself, by the merges above.
CheckRedirect ==
    /\ job.step = "redirect"
    /\ job' = IF known["token"][job.body.client] = job.body.redirectUri
              THEN [job EXCEPT !.step = "assertion"]
              ELSE Refused(job, "redirect", "InvalidRequest")
    /\ UnchangedOthers

\* A slip: an assertion of any client will do.
AnyAssertion ==
    /\ job.step = "assertion"
    /\ \/ /\ job.assertion # None
          /\ job' = [job EXCEPT !.step = "store"]
       \/ job' = Refused(job, "assertion", "JOSEError")
    /\ UnchangedOthers

\* verifyJwtSignature: issuer and subject must be the item's client, the key
\* one of its JWKS endpoint, which may fail to answer.  All that jwtVerify or
\* verifyMandatoryClaims object to is thrown as it is.
VerifyAssertion ==
    /\ job.step = "assertion"
    /\ \/ /\ job.assertion = job.body.client
          /\ job' = [job EXCEPT !.step = "store"]
       \/ /\ job.assertion # job.body.client
          /\ job' = Refused(job, "assertion", "JOSEError")
       \/ job' = Refused(job, "assertion", "Error")
    /\ UnchangedOthers

\* createAccessTokenCodeAndRemoveAuthCode.  The answer to an update that took
\* effect may be lost, and the SDK's repeat of it is refused if it is answered.
StoreToken ==
    /\ job.step = "store"
    /\ \/ job' = Granted(job)
       \/ \E request \in {job, [job EXCEPT !.took = TRUE]},
             error \in {"InvalidAccessToken", "Error"} :
            job' = Refused(request, "store", error)
    /\ UnchangedOthers

-----------------------------------------------------------------------------
Next ==
    \/ \E c \in Client : SessionConfig(c) \/ \E u \in Uri : ChangeRedirect(c, u)
    \/ \E l \in Lambda : ColdStart(l)
    \/ \E s \in Session, c \in Client, u \in Uri : SaveSession(s, c, u)
    \/ \E s \in Session, u \in Uri, a \in Client \cup {None} : Receive(s, u, a)
    \/ Query \/ ClientConfig \/ ReadSession
    \/ CheckRedirect \/ VerifyAssertion \/ StoreToken

Spec == Init /\ [][Next]_vars

-----------------------------------------------------------------------------
(* Properties.                                                             *)

\* While a client's redirect URI has never been changed, the token request
\* passes the redirect check exactly when it repeats the redirect URI of its
\* session's authorization request, although the two are never compared and
\* each lambda compares with a copy of its own.
RedirectAgrees ==
    \A s \in Session, u \in Uri :
        job.session = s /\ job.body # None /\ ever[job.body.client] = {u} =>
            /\ job.took => job.redirectUri = made[s].redirectUri
            /\ job.failed = "redirect" => job.redirectUri # made[s].redirectUri

\* A token is stored only for a request with a redirect URI and a session with
\* one that the session's client was configured with at some time, however
\* stale the configuration of either container.
RedirectsConfigured ==
    job.took => LET item == made[job.session]
                IN  {job.redirectUri, item.redirectUri} \subseteq ever[item.client]

\* A token is stored only for a request that the client whose session it is has
\* signed: the client named by the index item, through two merges, decides
\* which configuration and which keys the assertion is verified with.
AssertedByOwner ==
    job.took => job.assertion = made[job.session].client

\* An answered request is counted once, by the handler or by the middleware:
\* as a success if it was answered 200, and as a failure otherwise.
CountedOnce ==
    job.step = "done" =>
        CountedAs(job.metrics, "accesstoken", IF job.status = 200 THEN 1 ELSE 0)

\* A request refused for its client assertion is answered 400
\* (access-token-handler.test.ts: "should error when jwt verify fails").
FailedAssertionIs400 ==
    job.failed = "assertion" /\ job.assertion # job.body.client => job.status = 400

-----------------------------------------------------------------------------
(* The invariants these rest on.                                           *)

\* Every copy of a redirect URI is a value that the parameter has had.
CopiesInv ==
    /\ \A c \in Client : redirect[c] \in ever[c]
    /\ \A l \in Lambda, c \in Client : known[l][c] \in ever[c] \cup {None}
    /\ \A s \in Session : made[s] # None => made[s].redirectUri \in ever[made[s].client]

\* What holds of a request by the step it has come to or has failed in.
JobInv ==
    /\ job.step \in Step => /\ job.session \in Session /\ job.redirectUri \in Uri
                           /\ ~job.took /\ job.failed = ""
    /\ job.body # None => /\ job.session \in Session
                          /\ made[job.session] # None
                          /\ job.body = Merged(job.session)
    /\ job.step \in Step \ {"query"} \/ job.took \/ job.failed = "redirect" => job.body # None
    /\ job.step \in Step \ {"query", "config"} => known["token"][job.body.client] # None
    /\ job.step \in {"assertion", "store"} \/ job.took => job.redirectUri \in ever[job.body.client]
    /\ job.step = "store" \/ job.took => job.assertion = job.body.client
    /\ job.failed = "redirect" => \E u \in ever[job.body.client] : u # job.redirectUri

\* Inductive.
RequestInv == TypeOK /\ CopiesInv /\ JobInv
=============================================================================
