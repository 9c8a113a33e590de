--------------------------- MODULE SessionRequest ---------------------------
(***************************************************************************)
(* POST /session from the encrypted request to the answer: the middlewares *)
(* that decrypt it, load the client's configuration and validate the JWT,  *)
(* and the handler's effects in their order.  The body names one client,   *)
(* whose keys the JWT is verified with; the JWT names a client of its own. *)
(* Claims are validated in one place and read again in another when the    *)
(* session is made of them.                                                *)
(***************************************************************************)
EXTENDS Errors, PersonIdentity

CONSTANTS Client,
          Requests    \* the requests to try it with

Token(signature, alg) == [signature |-> signature, alg |-> alg]
Jwt == [signature : BOOLEAN, alg : STRING \cup {None}]

\* What verifying a JWT ends in when it fails.
VerifyErrors == {"ERR_JWT", "ERR_JWT_EXPIRED", "JWT verification failure"}

ASSUME AbsentAssumption ==
    /\ None # Null
    /\ \A absent \in {None, Null} :
           /\ absent \notin Client /\ absent \notin VerifyErrors
           /\ absent \notin Jwt /\ absent # "ES256"
           /\ absent # <<"P2">> /\ absent # <<Token(TRUE, "ES256")>>
           /\ absent # [verificationScore |-> 0]

\* Absent, or a list of addresses, each a text or of another kind.
PermitsAreTexts(permits) ==
    permits = None \/ /\ permits \in Seq(Range(permits))
                      /\ \A text \in Range(permits) : text = Null \/ text \in Seq(Range(text))

\* client: the body's client_id; signer: whose key signed the JWT, issued by
\* and for the right parties, if anyone's; timely and complete: exp not past,
\* and sub, nbf, state there; redirects: it asks for the client's redirect URI;
\* headers: those it has twice.
ASSUME RequestsAssumption ==
    \A r \in Requests :
        /\ DOMAIN r = {"client", "jwe", "signer", "timely", "complete", "client_id",
                      "redirects", "evidence_requested", "vtr", "storage",
                      "shared_claims", "headers"}
        /\ r.client_id \in Client /\ {r.client, r.signer} \subseteq Client \cup {None}
        /\ {r.timely, r.complete, r.redirects} \subseteq BOOLEAN
        /\ r.vtr \in {None, Null} \cup Seq(STRING)
        /\ r.storage \in {None, Null} \cup Seq(Jwt)
        /\ r.shared_claims = None \/ PermitsAreTexts(r.shared_claims.drivingPermit)

VARIABLES
    ipvClaimsRequired,  \* the stack's authorization request type is IPV
    request,            \* the request in progress, or None
    step,               \* the middleware or the effect that is next
    answer,             \* its status, 0 while there is none
    metrics,            \* the metrics it has recorded
    outage,             \* history: the client's JWKS endpoint failed
    stored,             \* what of it is in the session table, or None
    addresses           \* those in the person identity table, {} for no item

vars == <<ipvClaimsRequired, request, step, answer, metrics, outage, stored, addresses>>

-----------------------------------------------------------------------------
(* The schemas of the claims.                                              *)

Scores == [scoringPolicy |-> {"gpg45"}, strengthScore |-> 1 .. 4,
           validityScore |-> 0 .. 4, verificationScore |-> 0 .. 4,
           activityHistoryScore |-> 0 .. 4, identityFraudScore |-> 0 .. 3]

\* A slip: a score of zero taken for none.
ZeroIsNoScore(e) ==
    /\ e # Null /\ DOMAIN e # {} /\ DOMAIN e \subseteq DOMAIN Scores
    /\ \A f \in DOMAIN e : e[f] \in Scores[f] /\ (f # "scoringPolicy" => e[f] > 0)

\* A strict object: no other fields, and at least one of these.
EvidenceRequestSchema(e) ==
    /\ e # Null /\ DOMAIN e # {} /\ DOMAIN e \subseteq DOMAIN Scores
    /\ \A f \in DOMAIN e : e[f] \in Scores[f]

VtrSchema(vtr) ==
    vtr # Null /\ Len(vtr) > 0 /\ \A i \in DOMAIN vtr : vtr[i] \in {"P1", "P2", "P3", "P4"}

\* A slip: a signature is all that is looked for.
HasSignature(token) == token.signature

\* isSignedJwt: a signature, and an algorithm that is a name other than none.
IsSignedJwt(token) == token.signature /\ token.alg \notin {None, "", "none"}

StorageAccessTokenSchema(claim) ==
    claim # Null /\ Len(claim) = 1 /\ IsSignedJwt(claim[1])

\* getStorageAccessToken parses the claim once more.
StorageAccessToken(claim) ==
    IF claim # None /\ StorageAccessTokenSchema(claim) THEN claim[1] ELSE None

\* getClientIpAddress and getEncodedDeviceInformation.
HeadersRead == {"x-forwarded-for", "txma-audit-encoded"}

\* getHeaderValue, of a request's headers that are given more than once.
HeaderError(headers) == headers \cap HeadersRead # {}

-----------------------------------------------------------------------------
(* validateJwt.                                                            *)

\* jwtVerify compares issuer and audience before the times; the claims that
\* must be there are looked at last.  None: the JWT is verified.
VerifyError(r) ==
    IF r.signer # r.client THEN "ERR_JWT"
    ELSE IF ~r.timely THEN "ERR_JWT_EXPIRED"
    ELSE IF ~r.complete THEN "JWT verification failure"
    ELSE None

\* validateIpvClaim.
IpvClaim(claim, valid) ==
    IF claim = None THEN ~ipvClaimsRequired ELSE valid

\* A slip: the two names of the client not compared.
ClaimsWithoutClient(r) ==
    /\ r.evidence_requested = None \/ EvidenceRequestSchema(r.evidence_requested)
    /\ IpvClaim(r.vtr, VtrSchema(r.vtr))
    /\ IpvClaim(r.storage, StorageAccessTokenSchema(r.storage))
    /\ r.redirects

\* What validateJwt asks of a verified JWT; all failures are answered alike.
ClaimsAccepted(r) ==
    /\ r.evidence_requested = None \/ EvidenceRequestSchema(r.evidence_requested)
    /\ IpvClaim(r.vtr, VtrSchema(r.vtr))
    /\ IpvClaim(r.storage, StorageAccessTokenSchema(r.storage))
    /\ r.client_id = r.client
    /\ r.redirects

-----------------------------------------------------------------------------
Init ==
    /\ ipvClaimsRequired \in BOOLEAN
    /\ request = None /\ step = "none" /\ answer = 0 /\ metrics = <<>>
    /\ outage = FALSE /\ stored = None /\ addresses = {}

\* A middleware fails, and the error middleware answers.
Refuse(error, details) ==
    /\ step' = "answered" /\ answer' = ErrorPayload(error).status
    /\ metrics' = ErrorMetrics("session_created", error, details)

\* The handler's catch, which counts no failed verification.
HandlerFails(error) ==
    /\ step' = "answered" /\ answer' = ErrorPayload(error).status
    /\ metrics' = <<Metric("session_created", 0)>>

GoOn(next) == step' = next /\ UNCHANGED <<answer, metrics>>

\* API Gateway lets nothing through without client_id and request.
Receive(r) ==
    /\ step = "none"
    /\ request' = r /\ step' = "init"
    /\ UNCHANGED <<ipvClaimsRequired, answer, metrics, outage, stored, addresses>>

\* The answer goes out, and nothing of the request is kept by the container.
Deliver ==
    /\ step = "answered"
    /\ request' = None /\ step' = "none" /\ answer' = 0 /\ metrics' = <<>>
    /\ outage' = FALSE /\ stored' = None /\ addresses' = {}
    /\ UNCHANGED ipvClaimsRequired

\* initialiseConfig.
InitConfig ==
    /\ step = "init"
    /\ GoOn("decrypt") \/ Refuse("Error", "")
    /\ UNCHANGED <<ipvClaimsRequired, request, outage, stored, addresses>>

\* decryptJwe: JweDecrypterError is what it throws when the content does not
\* open; a JWE it cannot take apart or gets no key for is a plain Error.
DecryptJwe ==
    /\ step = "decrypt"
    /\ \/ request.jwe = "opens" /\ GoOn("config")
       \/ request.jwe = "refused" /\ Refuse("JweDecrypter", "")
       \/ Refuse("Error", "")
    /\ UNCHANGED <<ipvClaimsRequired, request, outage, stored, addresses>>

\* initialiseClientConfig: no parameters for a client that is not configured.
ClientConfig ==
    /\ step = "config"
    /\ (request.client # None /\ GoOn("validate")) \/ Refuse("Error", "")
    /\ UNCHANGED <<ipvClaimsRequired, request, outage, stored, addresses>>

\* validateJwt: whatever verify throws becomes a SessionValidationError, an
\* endpoint that does not answer too.
ValidateJwt ==
    /\ step = "validate"
    /\ \/ /\ outage' = TRUE
          /\ Refuse("SessionValidation", "JWT verification failure")
       \/ /\ outage' = FALSE
          /\ IF VerifyError(request) # None
             THEN Refuse("SessionValidation", VerifyError(request))
             ELSE IF ClaimsAccepted(request) THEN GoOn("save")
             ELSE Refuse("SessionValidation", "Invalid request")
    /\ UNCHANGED <<ipvClaimsRequired, request, stored, addresses>>

\* What createSessionRequestSummary makes of the verified payload.
Summary(r) ==
    [clientId |-> r.client_id, evidenceRequest |-> r.evidence_requested,
     vtr |-> r.vtr, storageAccessToken |-> StorageAccessToken(r.storage)]

\* A slip: the headers looked up for the audit event, after the save.
SaveThenHeaders ==
    /\ step = "save"
    /\ stored' = Summary(request)
    /\ IF HeaderError(request.headers) THEN HandlerFails("InvalidRequest") ELSE GoOn("identity")
    /\ UNCHANGED <<ipvClaimsRequired, request, outage, addresses>>

\* The handler's first part: two header lookups, which refuse a header given
\* twice, then saveSession, which may fail with or without effect.
SaveSession ==
    /\ step = "save"
    /\ IF HeaderError(request.headers)
       THEN HandlerFails("InvalidRequest") /\ UNCHANGED stored
       ELSE \/ GoOn("identity") /\ stored' = Summary(request)
            \/ HandlerFails("Error") /\ stored' \in {None, Summary(request)}
    /\ UNCHANGED <<ipvClaimsRequired, request, outage, addresses>>

\* savePersonIdentity, if there are shared claims: what cannot be mapped throws
\* after the session was saved; the put may fail with or without effect.
SaveIdentity ==
    /\ step = "identity"
    /\ IF request.shared_claims = None THEN GoOn("audit") /\ UNCHANGED addresses
       ELSE IF ~Mappable(request.shared_claims)
       THEN HandlerFails("Error") /\ UNCHANGED addresses
       ELSE LET saved == {Addresses(request.shared_claims)}
            IN  \/ GoOn("audit") /\ addresses' = saved
                \/ HandlerFails("Error") /\ addresses' \in {{}, saved}
    /\ UNCHANGED <<ipvClaimsRequired, request, outage, stored>>

\* buildAndSendAuditEvent, then the answer.
Audit ==
    /\ step = "audit"
    /\ \/ /\ step' = "answered" /\ answer' = 201
          /\ metrics' = <<Metric("session_created", 1)>>
       \/ HandlerFails("Error")
    /\ UNCHANGED <<ipvClaimsRequired, request, outage, stored, addresses>>

-----------------------------------------------------------------------------
Next ==
    \/ \E r \in Requests : Receive(r)
    \/ InitConfig \/ DecryptJwe \/ ClientConfig \/ ValidateJwt
    \/ SaveSession \/ SaveIdentity \/ Audit \/ Deliver

Spec == Init /\ [][Next]_vars

-----------------------------------------------------------------------------
(* Properties.                                                             *)

\* A session is stored only for a client that has signed the request itself,
\* not too long ago and with its own redirect URI: the name that picks the
\* keys and the name that the session is stored under are the same client's.
SignedByOwnClient ==
    stored # None => /\ request.signer = stored.clientId
                     /\ request.client = stored.clientId
                     /\ request.timely /\ request.redirects

\* What is stored of the claims is what was validated: levels of confidence
\* that exist, a token that is signed, scores that exist; and on an IPV stack
\* neither of the first two is missing.  The token is parsed twice, and a claim
\* that only one parse accepts would be stored unseen or lost.
StoredClaimsValid ==
    stored # None =>
        LET vtr      == stored.vtr
            token    == stored.storageAccessToken
            evidence == stored.evidenceRequest
        IN  /\ vtr # None => vtr # <<>> /\ Range(vtr) \subseteq {"P1", "P2", "P3", "P4"}
            /\ token # None => token.signature /\ token.alg \notin {None, "", "none"}
            /\ token = None <=> request.storage = None
            /\ None \in {vtr, token} => ~ipvClaimsRequired
            /\ evidence # None => /\ DOMAIN evidence # {}
                                 /\ \A f \in DOMAIN evidence : evidence[f] \in Scores[f]

\* A request with nothing wrong in it is not answered 400 while the client's
\* endpoint works: a score of zero, claims that this stack does not ask for
\* and shared claims of any kind are no reason.
FlawlessNotRefused ==
    /\ answer = 400 /\ ~outage
    /\ request.headers = {} /\ request.timely /\ request.complete /\ request.redirects
    /\ request.signer = request.client /\ request.client_id = request.client
    /\ request.evidence_requested \in {None, [verificationScore |-> 0]}
    => \/ request.vtr \notin {<<"P2">>} \cup IF ipvClaimsRequired THEN {} ELSE {None}
       \/ request.storage \notin
            {<<Token(TRUE, "ES256")>>} \cup IF ipvClaimsRequired THEN {} ELSE {None}

\* A request answered with a client's error has left nothing behind, although
\* the handler undoes none of its effects.
RefusedLeavesNothing ==
    answer \in 400 .. 499 => stored = None /\ addresses = {}

\* The identity of a person with driving permits has an address for each permit
\* that ends in a postal code, in their order, whatever the lengths.  It is the
\* code alone exactly if nothing but blanks and one comma in front of them comes
\* before it in the last eight characters: not if the address goes on before a
\* code of six characters and one separator, or before one of five and two.
\* Permits of blanks leave the shared addresses, unless one has one to six
\* blanks: those are kept as a code and take their place.
PostalCodeFound ==
    LET claims  == request.shared_claims
        permits == claims.drivingPermit
    IN  addresses # {} /\ permits # None =>
            /\ LeaveNothing(permits) => addresses = {claims.address}
            /\ WithCode(permits) # {} => \E list \in addresses : HasCodesOf(list, permits)

\* A request is counted once, as a success exactly if it was answered 201.  It is
\* counted as expired exactly if its JWT was signed by the body's client and is
\* past its time, whatever else is wrong with it; and as a failed verification
\* if it was answered 400 for anything else about its JWT or for an outage of the
\* client's endpoint, but not if it was for its headers.
MetricsTell ==
    answer # 0 =>
        /\ CountedAs(metrics, "session_created", IF answer = 201 THEN 1 ELSE 0)
        /\ Metric("jwt_expired", 1) \in Range(metrics) <=>
             /\ answer = 400 /\ ~outage
             /\ request.signer = request.client /\ ~request.timely
        /\ Metric("jwt_verification_failed", 1) \in Range(metrics) <=>
             /\ answer = 400 /\ Metric("jwt_expired", 1) \notin Range(metrics)
             /\ outage \/ VerifyError(request) # None \/ ~ClaimsAccepted(request)

-----------------------------------------------------------------------------
(* The invariant these rest on.                                            *)

Verified(r) == VerifyError(r) = None /\ ClaimsAccepted(r)

\* What a JWT fails for that is counted as expired.
OnlyExpired(r) == r.signer = r.client /\ ~r.timely

\* What holds of a request on its way.
OnItsWay ==
    /\ step \notin {"none", "answered"} =>
         /\ request \in Requests /\ answer = 0 /\ ~outage
         /\ step \in {"save", "identity", "audit"} => Verified(request)
         /\ stored = IF step \in {"identity", "audit"} THEN Summary(request) ELSE None
         /\ step # "audit" => addresses = {}
    /\ step = "none" => /\ request = None /\ answer = 0 /\ ~outage
                       /\ stored = None /\ addresses = {}

\* What an answer says of the request, and of what it has left behind.
AnswerInv ==
    step = "answered" =>
        /\ request \in Requests /\ answer \in {201, 400, 403, 500}
        /\ stored \in {None, Summary(request)}
        /\ stored # None => Verified(request)
        /\ stored # None \/ addresses # {} => answer \in {201, 500}
        /\ answer = 400 /\ ~outage => ~Verified(request) \/ HeaderError(request.headers)
        /\ CountedAs(metrics, "session_created", IF answer = 201 THEN 1 ELSE 0)
        /\ Metric("jwt_expired", 1) \in Range(metrics) <=>
             answer = 400 /\ ~outage /\ OnlyExpired(request)
        /\ Metric("jwt_verification_failed", 1) \in Range(metrics) <=>
             answer = 400 /\ (outage \/ ~Verified(request)) /\ (outage \/ ~OnlyExpired(request))

\* Inductive.
HandlingInv ==
    /\ ipvClaimsRequired \in BOOLEAN
    /\ step \in {"none", "init", "decrypt", "config", "validate", "save",
                 "identity", "audit", "answered"}
    /\ OnItsWay
    /\ AnswerInv

\* Inductive together with HandlingInv: where an identity comes from.
IdentityInv ==
    addresses # {} => LET claims == request.shared_claims
                      IN  /\ request \in Requests /\ claims # None
                          /\ Mappable(claims) /\ addresses = {Addresses(claims)}
=============================================================================
