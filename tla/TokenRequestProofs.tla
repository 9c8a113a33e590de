------------------------- MODULE TokenRequestProofs -------------------------
(***************************************************************************)
(* Proofs about TokenRequest, for any clients, redirect URIs and sessions. *)
(***************************************************************************)
EXTENDS TokenRequest, SequenceTheorems, TLAPS

-----------------------------------------------------------------------------
(* Types.                                                                  *)
MetricType == [name : MetricName, value : {0, 1}]
Status == {0, 200, 400, 403, 500}

\* Every error is answered with a status that an error may have.
LEMMA ErrorStatus == \A error : ErrorPayload(error).status \in {400, 403, 500}
<1>1. DOMAIN BaseErrors = {"InvalidAccessToken", "InvalidRequest", "InvalidPayload",
          "Server", "JweDecrypter", "GenericServer", "JwtSignatureValidation",
          "SessionNotFound", "SessionValidation", "AuthorizationCodeExpired",
          "SessionExpired", "AccessDenied"}
  BY DEF BaseErrors
<1>2. /\ BaseErrors["InvalidRequest"].status = 400
      /\ BaseErrors["InvalidPayload"].status = 400
      /\ BaseErrors["SessionNotFound"].status = 400
      /\ BaseErrors["SessionValidation"].status = 400
  BY DEF BaseErrors, Answer
<1>3. /\ BaseErrors["InvalidAccessToken"].status = 403
      /\ BaseErrors["JweDecrypter"].status = 403
      /\ BaseErrors["JwtSignatureValidation"].status = 403
      /\ BaseErrors["AuthorizationCodeExpired"].status = 403
      /\ BaseErrors["SessionExpired"].status = 403
      /\ BaseErrors["AccessDenied"].status = 403
  BY DEF BaseErrors, Answer
<1>4. BaseErrors["Server"].status = 500 /\ BaseErrors["GenericServer"].status = 500
  BY DEF BaseErrors, Answer
<1>. QED  BY <1>1, <1>2, <1>3, <1>4 DEF ErrorPayload, IsBaseError

\* What the handler or the middleware counts are metrics.
LEMMA MetricsTyped ==
  \A error, step : /\ HandlerMetrics(error, step) \in Seq(MetricType)
                   /\ ErrorMetrics("accesstoken", error, "") \in Seq(MetricType)
<1> SUFFICES ASSUME NEW error, NEW step
             PROVE  /\ HandlerMetrics(error, step) \in Seq(MetricType)
                    /\ ErrorMetrics("accesstoken", error, "") \in Seq(MetricType)
  OBVIOUS
<1>1. /\ Metric("accesstoken", 0) \in MetricType
      /\ Metric("jwt_verification_failed", 1) \in MetricType
  BY DEF Metric, MetricType, MetricName
<1>2. HandlerMetrics(error, step) \in Seq(MetricType)
  BY <1>1 DEF HandlerMetrics
<1>3. ErrorMetrics("accesstoken", error, "") \in Seq(MetricType)
  BY <1>1 DEF ErrorMetrics
<1>. QED  BY <1>2, <1>3

\* The job record, named so that the lemmas below stay short.
JobType == [step : Step \cup {"none", "done"}, session : Session \cup {None},
            redirectUri : Uri \cup {None}, assertion : Client \cup {None},
            body : Item \cup {None}, took : BOOLEAN, failed : Step \cup {"", "form"},
            status : Status, metrics : Seq(MetricType)]

LEMMA JobTypeIsTyped == TypeOK <=> /\ redirect \in [Client -> Uri]
                                   /\ ever \in [Client -> SUBSET Uri]
                                   /\ known \in [Lambda -> [Client -> Uri \cup {None}]]
                                   /\ made \in [Session -> Item \cup {None}]
                                   /\ job \in JobType
  BY DEF TypeOK, JobType, Status, MetricType

LEMMA NoJobTyped == NoJob \in JobType
  BY DEF NoJob, JobType, Status, Step

\* What no step but the merge changes of a request.
SameRequest(a, b) == /\ a.session = b.session /\ a.redirectUri = b.redirectUri
                     /\ a.assertion = b.assertion /\ a.body = b.body

\* The ends of a request keep what is known of it.
LEMMA RefusedTyped ==
  ASSUME NEW request \in JobType, NEW step \in Step \cup {"form"}, NEW error
  PROVE  /\ Refused(request, step, error) \in JobType
         /\ Refused(request, step, error).step = "done"
         /\ Refused(request, step, error).failed = step
         /\ Refused(request, step, error).took = request.took
         /\ SameRequest(Refused(request, step, error), request)
<1>1. ErrorPayload(error).status \in Status
  BY ErrorStatus DEF Status
<1>2. (IF step \in {"redirect", "assertion", "store"}
       THEN HandlerMetrics(error, step)
       ELSE ErrorMetrics("accesstoken", error, "")) \in Seq(MetricType)
  BY MetricsTyped
<1>. QED  BY <1>1, <1>2 DEF Refused, JobType, SameRequest

LEMMA GrantedTyped ==
  ASSUME NEW request \in JobType
  PROVE  /\ Granted(request) \in JobType
         /\ Granted(request).step = "done" /\ Granted(request).took
         /\ Granted(request).failed = request.failed
         /\ SameRequest(Granted(request), request)
<1>1. <<Metric("accesstoken", 1)>> \in Seq(MetricType) /\ 200 \in Status
  BY DEF Metric, MetricType, MetricName, Status
<1>2. ASSUME NEW m \in Seq(MetricType), NEW status \in Status
      PROVE  [request EXCEPT !.step = "done", !.took = TRUE, !.status = status,
                             !.metrics = m] \in JobType
  BY Zenon DEF JobType
<1>3. Granted(request) \in JobType
  BY <1>1, <1>2 DEF Granted
<1>4. Granted(request).step = "done" /\ Granted(request).took
  BY DEF Granted, JobType
<1>5. Granted(request).failed = request.failed /\ SameRequest(Granted(request), request)
  BY DEF Granted, JobType, SameRequest
<1>. QED  BY <1>3, <1>4, <1>5

-----------------------------------------------------------------------------
(* The inductive invariant.                                                *)

LEMMA RequestInvInit == Init => RequestInv
<1> SUFFICES ASSUME Init PROVE RequestInv
  OBVIOUS
<1>. USE DEF Init
<1>1. TypeOK
  <2>1. job \in JobType
    BY NoJobTyped
  <2>2. /\ ever \in [Client -> SUBSET Uri]
        /\ known \in [Lambda -> [Client -> Uri \cup {None}]]
        /\ made \in [Session -> Item \cup {None}]
    OBVIOUS
  <2>. QED  BY <2>1, <2>2, JobTypeIsTyped
<1>2. CopiesInv
  BY DEF CopiesInv
<1>3. JobInv
  BY DEF JobInv, NoJob, Step
<1>. QED  BY <1>1, <1>2, <1>3 DEF RequestInv

\* A step that leaves the request as it is: what it knows stays known, and
\* what it was checked against only grows.
LEMMA OutsideStep ==
  ASSUME RequestInv, job' = job,
         redirect' \in [Client -> Uri],
         ever' \in [Client -> SUBSET Uri],
         known' \in [Lambda -> [Client -> Uri \cup {None}]],
         made' \in [Session -> Item \cup {None}],
         CopiesInv',
         \A c \in Client : ever[c] \subseteq ever'[c],
         \A c \in Client : known["token"][c] # None => known'["token"][c] # None,
         \A s \in Session : made[s] # None => made'[s] = made[s]
  PROVE  RequestInv'
<1>. USE DEF RequestInv
<1>1. /\ job \in JobType /\ known \in [Lambda -> [Client -> Uri \cup {None}]]
      /\ made \in [Session -> Item \cup {None}]
  BY JobTypeIsTyped
<1>. job' \in JobType
  BY <1>1
<1>2. TypeOK'
  BY <1>1 DEF TypeOK, JobType, Status, MetricType
<1>3. job.body # None => job.body \in Item /\ job.body.client \in Client
  BY <1>1 DEF JobType, Item
<1>4. job.body # None =>
        /\ made'[job.session] # None /\ job.body = Merged(job.session)'
        /\ ever[job.body.client] \subseteq ever'[job.body.client]
        /\ known["token"][job.body.client] # None => known'["token"][job.body.client] # None
  BY <1>1, <1>3 DEF JobInv, Merged
<1>5. CASE job.body = None
  <2>1. JobInv'
    BY <1>5 DEF JobInv, Step
  <2>. QED  BY <1>2, <2>1
<1>6. CASE job.body # None
  <2>1. JobInv'
    BY <1>3, <1>4, <1>6 DEF JobInv
  <2>. QED  BY <1>2, <2>1
<1>. QED  BY <1>5, <1>6

\* A step of the request: the conditions of JobInv that it has to establish.
LEMMA InsideStep ==
  ASSUME RequestInv, UNCHANGED <<redirect, ever, made>>,
         known' \in [Lambda -> [Client -> Uri \cup {None}]],
         \A l \in Lambda, c \in Client : known'[l][c] \in ever[c] \cup {None},
         job' \in JobType, job.step \in Step,
         job'.step \in Step => ~job'.took /\ job'.failed = "",
         job'.step \in Step \ {"query"} \/ job'.took \/ job'.failed = "redirect" =>
             job.body # None,
         SameRequest(job', job),
         job'.step \in Step \ {"query", "config"} => known'["token"][job.body.client] # None,
         job'.step \in {"assertion", "store"} \/ job'.took =>
             job.redirectUri \in ever[job.body.client],
         job'.step = "store" \/ job'.took => job.assertion = job.body.client,
         job'.failed = "redirect" => \E u \in ever[job.body.client] : u # job.redirectUri
  PROVE  RequestInv'
<1>. USE DEF RequestInv
<1>0. /\ redirect \in [Client -> Uri] /\ ever \in [Client -> SUBSET Uri]
      /\ made \in [Session -> Item \cup {None}] /\ job \in JobType
  BY JobTypeIsTyped
<1>1. TypeOK'
  BY <1>0 DEF TypeOK, JobType, Status, MetricType
<1>2. CopiesInv'
  BY DEF CopiesInv
<1>3. /\ job'.session = job.session /\ job'.redirectUri = job.redirectUri
      /\ job'.assertion = job.assertion /\ job'.body = job.body
  BY DEF SameRequest
<1>4. job.body # None => job'.body = Merged(job.session)' /\ made'[job'.session] # None
  BY <1>3 DEF JobInv, Merged
<1>5. CASE job.body = None
  <2>1. JobInv'
    BY <1>3, <1>5 DEF JobInv, Step
  <2>. QED  BY <1>1, <1>2, <2>1
<1>6. CASE job.body # None
  <2>1. JobInv'
    BY <1>3, <1>4, <1>6 DEF JobInv
  <2>. QED  BY <1>1, <1>2, <2>1
<1>. QED  BY <1>5, <1>6

LEMMA RefusedPreserves ==
  ASSUME RequestInv, UnchangedOthers, job.step \in Step,
         NEW step \in Step, NEW error, job' = Refused(job, step, error),
         step = "redirect" => /\ job.body # None
                              /\ \E u \in ever[job.body.client] : u # job.redirectUri
  PROVE  RequestInv'
<1>1. /\ job \in JobType /\ known \in [Lambda -> [Client -> Uri \cup {None}]]
  BY JobTypeIsTyped DEF RequestInv
<1>2. /\ job' \in JobType /\ job'.step = "done" /\ job'.failed = step
      /\ job'.took = job.took /\ SameRequest(job', job)
  BY <1>1, RefusedTyped
<1>3. job'.step \notin Step
  BY <1>2 DEF Step
<1>. QED
  BY <1>1, <1>2, <1>3, InsideStep DEF UnchangedOthers, RequestInv, CopiesInv, JobInv, Step

-----------------------------------------------------------------------------
(* One lemma for the actions around the request, one for its steps.        *)
LEMMA AroundPreserves ==
  ASSUME RequestInv,
         \/ \E c \in Client : SessionConfig(c) \/ \E u \in Uri : ChangeRedirect(c, u)
         \/ ColdStart("session")
         \/ \E s \in Session, c \in Client, u \in Uri : SaveSession(s, c, u)
         \/ UNCHANGED vars
  PROVE  RequestInv'
<1>. USE DEF RequestInv
<1>0. /\ redirect \in [Client -> Uri] /\ ever \in [Client -> SUBSET Uri]
      /\ known \in [Lambda -> [Client -> Uri \cup {None}]]
      /\ made \in [Session -> Item \cup {None}]
  BY JobTypeIsTyped
<1>1. ASSUME NEW c \in Client, SessionConfig(c)  PROVE RequestInv'
  <2>. USE <1>1 DEF SessionConfig
  <2>1. PICK u \in MayLoad("session", c) : known' = [known EXCEPT !["session"][c] = u]
    OBVIOUS
  <2>2. u \in ever[c] \cup {None} /\ u \in Uri \cup {None}
    BY <1>0 DEF MayLoad, CopiesInv, Lambda
  <2>3. known' \in [Lambda -> [Client -> Uri \cup {None}]]
    BY <1>0, <2>1, <2>2
  <2>4. \A l \in Lambda, d \in Client :
          known'[l][d] = IF l = "session" /\ d = c THEN u ELSE known[l][d]
    BY <1>0, <2>1
  <2>5. CopiesInv'
    BY <2>2, <2>4 DEF CopiesInv
  <2>6. \A d \in Client : known'["token"][d] = known["token"][d]
    BY <2>4 DEF Lambda
  <2>. QED  BY <1>0, <2>3, <2>5, <2>6, OutsideStep
<1>2. ASSUME NEW c \in Client, NEW u \in Uri, ChangeRedirect(c, u)  PROVE RequestInv'
  <2>. USE <1>2 DEF ChangeRedirect
  <2>1. redirect' \in [Client -> Uri] /\ ever' \in [Client -> SUBSET Uri]
    BY <1>0
  <2>2. \A d \in Client : ever'[d] = IF d = c THEN ever[d] \cup {u} ELSE ever[d]
    BY <1>0
  <2>3. \A s \in Session : made[s] # None => made[s].client \in Client
    BY <1>0 DEF Item
  <2>4. CopiesInv'
    BY <1>0, <2>2, <2>3 DEF CopiesInv
  <2>. QED  BY <1>0, <2>1, <2>2, <2>4, OutsideStep
<1>3. CASE ColdStart("session")
  <2>. USE <1>3 DEF ColdStart
  <2>1. known' \in [Lambda -> [Client -> Uri \cup {None}]]
    BY <1>0
  <2>2. \A d \in Client : known'["token"][d] = known["token"][d]
    BY <1>0 DEF Lambda
  <2>3. CopiesInv'
    BY <1>0 DEF CopiesInv
  <2>. QED  BY <1>0, <2>1, <2>2, <2>3, OutsideStep
<1>4. ASSUME NEW s \in Session, NEW c \in Client, NEW u \in Uri, SaveSession(s, c, u)
      PROVE  RequestInv'
  <2>. USE <1>4 DEF SaveSession
  <2>1. [client |-> c, redirectUri |-> u] \in Item
    BY DEF Item
  <2>2. made' \in [Session -> Item \cup {None}]
    BY <1>0, <2>1
  <2>3. \A x \in Session : made'[x] = IF x = s THEN [client |-> c, redirectUri |-> u] ELSE made[x]
    BY <1>0
  <2>4. u \in ever[c]
    BY TokenAssumption DEF CopiesInv, Lambda
  <2>5. CopiesInv'
    BY <2>3, <2>4 DEF CopiesInv
  <2>. QED  BY <1>0, <2>2, <2>3, <2>5, OutsideStep
<1>5. CASE UNCHANGED vars
  BY <1>0, <1>5, OutsideStep DEF vars, CopiesInv
<1>. QED  BY <1>1, <1>2, <1>3, <1>4, <1>5

LEMMA StepPreserves ==
  ASSUME RequestInv,
         \/ ColdStart("token")
         \/ \E s \in Session, u \in Uri, a \in Client \cup {None} : Receive(s, u, a)
         \/ Query \/ ClientConfig \/ ReadSession
         \/ CheckRedirect \/ VerifyAssertion \/ StoreToken
  PROVE  RequestInv'
<1>. USE DEF RequestInv
<1>0. /\ redirect \in [Client -> Uri] /\ ever \in [Client -> SUBSET Uri]
      /\ known \in [Lambda -> [Client -> Uri \cup {None}]]
      /\ made \in [Session -> Item \cup {None}] /\ job \in JobType
      /\ job.body # None => job.body \in Item
  BY JobTypeIsTyped DEF JobType
<1>1. job.body # None => /\ job.body.client \in Client
                        /\ job.body.redirectUri = job.redirectUri
  BY <1>0 DEF JobInv, Merged, Item
<1>2. CASE ColdStart("token")
  <2>. USE <1>2 DEF ColdStart
  <2>1. known' \in [Lambda -> [Client -> Uri \cup {None}]]
    BY <1>0
  <2>2. TypeOK'
    BY <1>0, <2>1, NoJobTyped DEF TypeOK, JobType, Status, MetricType
  <2>3. CopiesInv'
    BY <1>0 DEF CopiesInv
  <2>4. JobInv'
    BY DEF JobInv, NoJob, Step
  <2>. QED  BY <2>2, <2>3, <2>4
<1>3. ASSUME NEW s \in Session, NEW u \in Uri, NEW a \in Client \cup {None},
             Receive(s, u, a)
      PROVE  RequestInv'
  <2>. DEFINE request == [NoJob EXCEPT !.step = "query", !.session = s,
                                       !.redirectUri = u, !.assertion = a]
  <2>1. request \in JobType
    BY NoJobTyped DEF JobType, Step
  <2>2. \E e : job' \in {request, Refused(request, "form", e)}
    BY <1>3 DEF Receive
  <2>3. job' \in JobType
    BY <2>1, <2>2, RefusedTyped
  <2>4. /\ job'.step \in {"query", "done"} /\ job'.failed \in {"", "form"}
        /\ job'.step = "query" => job'.failed = ""
        /\ job'.session = s /\ job'.redirectUri = u /\ job'.assertion = a
        /\ job'.body = None /\ ~job'.took
    <3>1. /\ request.step = "query" /\ request.failed = "" /\ request.session = s
          /\ request.redirectUri = u /\ request.assertion = a
          /\ request.body = None /\ ~request.took
      BY DEF NoJob
    <3>. HIDE DEF request
    <3>2. CASE job' = request
      BY <3>1, <3>2
    <3>3. ASSUME NEW e, job' = Refused(request, "form", e)
          PROVE  /\ job'.step = "done" /\ job'.failed = "form"
                 /\ job'.took = request.took /\ SameRequest(job', request)
      BY <2>1, <3>3, RefusedTyped
    <3>. QED  BY <2>2, <3>1, <3>2, <3>3 DEF SameRequest
  <2>5. TypeOK'
    BY <1>0, <1>3, <2>3 DEF TypeOK, JobType, Status, MetricType, Receive, UnchangedOthers
  <2>6. CopiesInv'
    BY <1>3 DEF CopiesInv, Receive, UnchangedOthers
  <2>7. JobInv'
    BY <2>4 DEF JobInv, Step
  <2>. QED  BY <2>5, <2>6, <2>7
<1>4. CASE Query
  <2>1. /\ job.step = "query" /\ job.session \in Session /\ job.redirectUri \in Uri
        /\ ~job.took /\ UnchangedOthers
    BY <1>4 DEF Query, JobInv, Step
  <2>2. ASSUME NEW e, job' = Refused(job, "query", e)  PROVE RequestInv'
    BY <2>1, <2>2, RefusedPreserves DEF Step
  <2>3. ASSUME made[job.session] # None,
               job' = [job EXCEPT !.step = "config", !.body = Merged(job.session)]
        PROVE  RequestInv'
    <3>1. Merged(job.session) \in Item
      BY <1>0, <2>1, <2>3 DEF Merged, Item
    <3>2. job' \in JobType
      BY <1>0, <2>3, <3>1 DEF JobType, Step
    <3>3. /\ job'.step = "config" /\ job'.failed = job.failed /\ job'.took = job.took
          /\ job'.session = job.session /\ job'.redirectUri = job.redirectUri
          /\ job'.body = Merged(job.session) /\ job'.body # None
      BY <1>0, <2>3, <3>1, TokenAssumption DEF JobType
    <3>4. TypeOK'
      BY <1>0, <2>1, <3>2 DEF TypeOK, JobType, Status, MetricType, UnchangedOthers
    <3>5. CopiesInv'
      BY <2>1 DEF CopiesInv, UnchangedOthers
    <3>6. job'.body = Merged(job.session)'
      BY <2>1, <3>3 DEF Merged, UnchangedOthers
    <3>7. JobInv'
      BY <2>1, <2>3, <3>3, <3>6 DEF JobInv, Step, UnchangedOthers
    <3>. QED  BY <3>4, <3>5, <3>7
  <2>. QED  BY <1>4, <2>2, <2>3 DEF Query
<1>5. CASE ClientConfig
  <2>1. job.step = "config" /\ job.body # None /\ ~job.took /\ job.failed = ""
    BY <1>5 DEF ClientConfig, JobInv, Step
  <2>. DEFINE c == job.body.client
  <2>2. CASE job' = Refused(job, "config", "Error") /\ known' = known
    BY <1>5, <2>1, <2>2, RefusedPreserves DEF Step, ClientConfig, UnchangedOthers
  <2>3. ASSUME NEW u \in MayLoad("token", c), known' = [known EXCEPT !["token"][c] = u],
               job' = [job EXCEPT !.step = "read"]
        PROVE  RequestInv'
    <3>1. c \in Client
      BY <1>1, <2>1
    <3>2. u \in ever[c] /\ u \in Uri /\ u # None
      BY <1>0, <2>3, <3>1, TokenAssumption DEF MayLoad, CopiesInv, Lambda
    <3>3. known' \in [Lambda -> [Client -> Uri \cup {None}]]
      BY <1>0, <2>3, <3>1, <3>2 DEF Lambda
    <3>4. /\ \A d \in Client : known'["token"][d] = IF d = c THEN u ELSE known["token"][d]
          /\ known'["session"] = known["session"]
      BY <1>0, <2>3, <3>1 DEF Lambda
    <3>5. \A l \in Lambda, d \in Client : known'[l][d] \in ever[d] \cup {None}
      BY <3>2, <3>4 DEF CopiesInv, Lambda
    <3>6. /\ job' \in JobType /\ job'.step = "read" /\ job'.took = job.took
          /\ job'.failed = job.failed /\ SameRequest(job', job)
      BY <1>0, <2>3 DEF JobType, Step, SameRequest
    <3>7. known'["token"][job.body.client] # None
      BY <3>1, <3>2, <3>4
    <3>. QED
      BY <1>5, <2>1, <3>3, <3>5, <3>6, <3>7, InsideStep DEF ClientConfig, Step
  <2>. QED  BY <1>5, <2>2, <2>3 DEF ClientConfig
<1>6. ASSUME NEW next \in {"redirect", "assertion", "store"},
             UnchangedOthers, job' = [job EXCEPT !.step = next],
             job.step \in Step \ {"query", "config"},
             next \in {"assertion", "store"} => job.redirectUri \in ever[job.body.client],
             next = "store" => job.assertion = job.body.client
      PROVE  RequestInv'
  <2>1. /\ job' \in JobType /\ job'.step = next /\ job'.took = job.took
        /\ job'.failed = job.failed /\ SameRequest(job', job)
    BY <1>0, <1>6 DEF JobType, Step, SameRequest
  <2>2. ~job.took /\ job.failed = "" /\ job.body # None
    BY <1>6 DEF JobInv, Step
  <2>3. known["token"][job.body.client] # None
    BY <1>6 DEF JobInv, Step
  <2>. QED
    BY <1>0, <1>6, <2>1, <2>2, <2>3, InsideStep DEF UnchangedOthers, CopiesInv
<1>7. CASE ReadSession
  <2>1. job.step = "read" /\ job.step \in Step \ {"query", "config"} /\ UnchangedOthers
    BY <1>7 DEF ReadSession, Step
  <2>2. ASSUME NEW e, job' = Refused(job, "read", e)  PROVE RequestInv'
    BY <2>1, <2>2, RefusedPreserves DEF Step
  <2>3. CASE job' = [job EXCEPT !.step = "redirect"]
    BY <1>6, <2>1, <2>3
  <2>. QED  BY <1>7, <2>2, <2>3 DEF ReadSession
<1>8. CASE CheckRedirect
  <2>1. job.step = "redirect" /\ job.step \in Step \ {"query", "config"} /\ UnchangedOthers
    BY <1>8 DEF CheckRedirect, Step
  <2>2. /\ job.body # None /\ job.body.client \in Client
        /\ job.body.redirectUri = job.redirectUri
    BY <1>1, <2>1 DEF JobInv, Step
  <2>3. /\ known["token"][job.body.client] # None
        /\ known["token"][job.body.client] \in ever[job.body.client]
    BY <2>1, <2>2 DEF JobInv, CopiesInv, Step, Lambda
  <2>4. CASE known["token"][job.body.client] = job.body.redirectUri
    BY <1>6, <1>8, <2>1, <2>2, <2>3, <2>4 DEF CheckRedirect
  <2>5. CASE known["token"][job.body.client] # job.body.redirectUri
    BY <1>8, <2>1, <2>2, <2>3, <2>5, RefusedPreserves DEF CheckRedirect, Step
  <2>. QED  BY <2>4, <2>5
<1>9. CASE VerifyAssertion
  <2>1. /\ job.step = "assertion" /\ job.step \in Step \ {"query", "config"}
        /\ UnchangedOthers /\ job.redirectUri \in ever[job.body.client]
    BY <1>9 DEF VerifyAssertion, Step, JobInv
  <2>2. ASSUME NEW e, job' = Refused(job, "assertion", e)  PROVE RequestInv'
    BY <2>1, <2>2, RefusedPreserves DEF Step
  <2>3. CASE job.assertion = job.body.client /\ job' = [job EXCEPT !.step = "store"]
    BY <1>6, <2>1, <2>3
  <2>. QED  BY <1>9, <2>2, <2>3 DEF VerifyAssertion
<1>10. CASE StoreToken
  <2>1. /\ job.step = "store" /\ job.step \in Step /\ UnchangedOthers
        /\ job.failed = "" /\ job.body # None
        /\ job.redirectUri \in ever[job.body.client] /\ job.assertion = job.body.client
    BY <1>10 DEF StoreToken, JobInv, Step
  <2>2. ASSUME NEW e, job' = Refused(job, "store", e)  PROVE RequestInv'
    BY <2>1, <2>2, RefusedPreserves DEF Step
  <2>. DEFINE tookIt == [job EXCEPT !.took = TRUE]
  <2>3. /\ tookIt \in JobType /\ tookIt.failed = "" /\ SameRequest(tookIt, job)
    BY <1>0, <2>1, Zenon DEF JobType, SameRequest
  <2>. HIDE DEF tookIt
  <2>4. ASSUME NEW e, job' = Granted(job) \/ job' = Refused(tookIt, "store", e)
        PROVE  RequestInv'
    <3>1. /\ job' \in JobType /\ job'.step = "done" /\ job'.failed \in {"", "store"}
          /\ SameRequest(job', job)
      <4>1. CASE job' = Granted(job)
        BY <1>0, <2>1, <4>1, GrantedTyped DEF SameRequest
      <4>2. CASE job' = Refused(tookIt, "store", e)
        <5>1. /\ job' \in JobType /\ job'.step = "done" /\ job'.failed = "store"
              /\ SameRequest(job', tookIt)
          <6>1. "store" \in Step \cup {"form"}
            BY DEF Step
          <6>. QED  BY <2>3, <4>2, <6>1, RefusedTyped, Zenon
        <5>. QED  BY <2>3, <5>1 DEF SameRequest
      <4>. QED  BY <2>4, <4>1, <4>2
    <3>2. job'.step \notin Step
      BY <3>1 DEF Step
    <3>. QED
      BY <1>0, <2>1, <3>1, <3>2, InsideStep DEF UnchangedOthers, CopiesInv
  <2>. QED  BY <1>10, <2>2, <2>4 DEF StoreToken, tookIt
<1>. QED  BY <1>2, <1>3, <1>4, <1>5, <1>7, <1>8, <1>9, <1>10

\* The invariant holds throughout: all copies of a redirect URI are values it
\* has had, and every step of a request rests on what the ones before it checked.
THEOREM RequestsAreChecked == Spec => []RequestInv
<1>1. RequestInv /\ [Next]_vars => RequestInv'
  <2> SUFFICES ASSUME RequestInv, [Next]_vars PROVE RequestInv'
    OBVIOUS
  <2>1. ASSUME NEW l \in Lambda, ColdStart(l)
        PROVE  ColdStart("session") \/ ColdStart("token")
    BY <2>1 DEF Lambda
  <2>. QED  BY <2>1, AroundPreserves, StepPreserves DEF Next
<1>. QED  BY RequestInvInit, <1>1, PTL DEF Spec

-----------------------------------------------------------------------------
(* Theorems.                                                               *)

\* Every state of a token request is well typed: in particular the status and
\* the metrics of every answer, whatever error it ends in.
THEOREM TypeCorrect == Spec => []TypeOK
  BY RequestsAreChecked, PTL DEF RequestInv

\* The invariant makes a session that a token was stored for the item that the
\* request was merged with.
LEMMA TokenNeedsSession ==
  ASSUME RequestInv, job.body # None
  PROVE  /\ job.session \in Session /\ made[job.session] \in Item
         /\ job.body.client = made[job.session].client
         /\ made[job.session].client \in Client
         /\ made[job.session].redirectUri \in ever[made[job.session].client]
<1>1. made[job.session] \in Item /\ job.session \in Session
  BY JobTypeIsTyped DEF RequestInv, JobInv
<1>. QED
  BY <1>1 DEF RequestInv, JobInv, CopiesInv, Merged, Item

\* No container's stale configuration lets a token be stored for a redirect URI
\* that the session's client has never been configured with.
THEOREM OnlyConfiguredRedirects == Spec => []RedirectsConfigured
<1>1. RequestInv => RedirectsConfigured
  BY TokenNeedsSession DEF RequestInv, JobInv, RedirectsConfigured
<1>. QED  BY <1>1, RequestsAreChecked, PTL

\* Only the client whose session it is can have signed a request that a token
\* is stored for, through both merges of the index item and the request.
THEOREM TokensAreAssertedByOwner == Spec => []AssertedByOwner
<1>1. RequestInv => AssertedByOwner
  BY TokenNeedsSession DEF RequestInv, JobInv, AssertedByOwner
<1>. QED  BY <1>1, RequestsAreChecked, PTL

\* For clients whose redirect URI was never changed the two requests' redirect
\* URIs are compared in effect, though no code compares them.
THEOREM RedirectsAgree == Spec => []RedirectAgrees
<1>1. ASSUME RequestInv  PROVE RedirectAgrees
  <2> SUFFICES ASSUME job.body # None, NEW u \in Uri, ever[job.body.client] = {u}
               PROVE  /\ job.took => job.redirectUri = made[job.session].redirectUri
                      /\ job.failed = "redirect" =>
                           job.redirectUri # made[job.session].redirectUri
    BY DEF RedirectAgrees
  <2>. QED  BY <1>1, TokenNeedsSession DEF RequestInv, JobInv
<1>. QED  BY <1>1, RequestsAreChecked, PTL
-----------------------------------------------------------------------------
(* CountedOnce: what the two ends of a request count.                      *)

\* Two metrics, one after the other.
LEMMA TwoMetrics ==
  ASSUME NEW a, NEW b
  PROVE  LET both == <<a>> \o <<b>>
         IN  DOMAIN both = 1 .. 2 /\ both[1] = a /\ both[2] = b
<1>. DEFINE x == <<a>>
            y == <<b>>
<1>1. /\ x \in Seq({a, b}) /\ Len(x) = 1 /\ x[1] = a
      /\ y \in Seq({a, b}) /\ Len(y) = 1 /\ y[1] = b
  OBVIOUS
<1>. HIDE DEF x, y
<1>2. /\ x \o y \in Seq({a, b}) /\ Len(x \o y) = 2
      /\ \A i \in 1 .. 2 : (x \o y)[i] = IF i <= 1 THEN x[i] ELSE y[i - 1]
  BY <1>1, ConcatProperties
<1>3. DOMAIN (x \o y) = 1 .. 2
  BY <1>2
<1>4. (x \o y)[1] = x[1] /\ (x \o y)[2] = y[1]
  BY <1>2
<1>. QED  BY <1>1, <1>3, <1>4 DEF x, y

LEMMA FailuresCounted ==
  ASSUME NEW error, NEW step
  PROVE  /\ CountedAs(HandlerMetrics(error, step), "accesstoken", 0)
         /\ CountedAs(ErrorMetrics("accesstoken", error, ""), "accesstoken", 0)
<1>. DEFINE failed == Metric("accesstoken", 0)
            jwt == Metric("jwt_verification_failed", 1)
<1>1. failed.name = "accesstoken" /\ jwt.name # "accesstoken"
  BY DEF Metric
<1>2. CountedAs(<<failed>>, "accesstoken", 0)
  BY DEF CountedAs
<1>3. CountedAs(<<jwt>> \o <<failed>>, "accesstoken", 0)
  <2>. HIDE DEF failed, jwt
  <2>1. LET both == <<jwt>> \o <<failed>>
        IN  DOMAIN both = 1 .. 2 /\ both[1] = jwt /\ both[2] = failed
    BY TwoMetrics
  <2>. DEFINE both == <<jwt>> \o <<failed>>
  <2>2. 2 \in DOMAIN both /\ both[2] = failed
    BY <2>1
  <2>3. \A j \in DOMAIN both \ {2} : both[j].name # "accesstoken"
    <3>1. \A j \in 1 .. 2 : j # 2 => j = 1
      OBVIOUS
    <3>. QED  BY <1>1, <2>1, <3>1
  <2>. HIDE DEF both
  <2>4. CountedAs(both, "accesstoken", 0)
    BY <2>2, <2>3 DEF CountedAs, failed
  <2>. QED  BY <2>4 DEF both
<1>4. <<>> \o <<failed>> = <<failed>> /\ <<failed>> \o <<>> = <<failed>>
  OBVIOUS
<1>5. CountedAs(HandlerMetrics(error, step), "accesstoken", 0)
  BY <1>2, <1>3, <1>4 DEF HandlerMetrics
<1>6. CountedAs(ErrorMetrics("accesstoken", error, ""), "accesstoken", 0)
  BY <1>2, <1>4 DEF ErrorMetrics
<1>. QED  BY <1>5, <1>6

LEMMA EndsCounted ==
  ASSUME NEW request \in JobType
  PROVE  /\ Granted(request).status = 200
         /\ CountedAs(Granted(request).metrics, "accesstoken", 1)
         /\ \A step, error :
              /\ Refused(request, step, error).status # 200
              /\ CountedAs(Refused(request, step, error).metrics, "accesstoken", 0)
<1>1. /\ Granted(request).status = 200
      /\ Granted(request).metrics = <<Metric("accesstoken", 1)>>
  BY DEF Granted, JobType
<1>2. CountedAs(<<Metric("accesstoken", 1)>>, "accesstoken", 1)
  BY DEF CountedAs
<1>3. ASSUME NEW step, NEW error
      PROVE  /\ Refused(request, step, error).status # 200
             /\ CountedAs(Refused(request, step, error).metrics, "accesstoken", 0)
  <2>1. /\ Refused(request, step, error).status = ErrorPayload(error).status
        /\ Refused(request, step, error).metrics \in
             {HandlerMetrics(error, step), ErrorMetrics("accesstoken", error, "")}
    BY DEF Refused, JobType
  <2>2. ErrorPayload(error).status # 200
    BY ErrorStatus
  <2>3. /\ CountedAs(HandlerMetrics(error, step), "accesstoken", 0)
        /\ CountedAs(ErrorMetrics("accesstoken", error, ""), "accesstoken", 0)
    BY FailuresCounted
  <2>. DEFINE metrics == Refused(request, step, error).metrics
  <2>4. CountedAs(metrics, "accesstoken", 0)
    <3>1. \/ metrics = HandlerMetrics(error, step)
          \/ metrics = ErrorMetrics("accesstoken", error, "")
      BY <2>1
    <3>. HIDE DEF metrics
    <3>. QED  BY <2>3, <3>1
  <2>. QED  BY <2>1, <2>2, <2>4
<1>. QED  BY <1>1, <1>2, <1>3

LEMMA CountStep == TypeOK /\ CountedOnce /\ [Next]_vars => CountedOnce'
<1> SUFFICES ASSUME TypeOK, CountedOnce, [Next]_vars  PROVE CountedOnce'
  OBVIOUS
<1>0. job \in JobType
  BY JobTypeIsTyped
<1>1. ASSUME NEW request \in JobType,
             \/ job' = Granted(request)
             \/ \E step, error : job' = Refused(request, step, error)
      PROVE  CountedOnce'
  <2>. DEFINE status == job'.status
              metrics == job'.metrics
  <2>1. \/ status = 200 /\ CountedAs(metrics, "accesstoken", 1)
        \/ status # 200 /\ CountedAs(metrics, "accesstoken", 0)
    BY <1>1, EndsCounted
  <2>. HIDE DEF status, metrics
  <2>2. CountedAs(metrics, "accesstoken", IF status = 200 THEN 1 ELSE 0)
    BY <2>1
  <2>. QED  BY <2>2 DEF CountedOnce, CountedAs, status, metrics
<1>2. ASSUME job'.step # "done"  PROVE CountedOnce'
  BY <1>2 DEF CountedOnce
<1>3. CASE job' = job
  BY <1>3 DEF CountedOnce, CountedAs
<1>4. ASSUME NEW next \in Step, job' = [job EXCEPT !.step = next]  PROVE CountedOnce'
  BY <1>0, <1>2, <1>4 DEF JobType, Step
<1>5. ASSUME NEW l \in Lambda, ColdStart(l)  PROVE CountedOnce'
  BY <1>2, <1>3, <1>5 DEF ColdStart, NoJob
<1>6. ASSUME NEW s \in Session, NEW u \in Uri, NEW a \in Client \cup {None},
             Receive(s, u, a)
      PROVE  CountedOnce'
  <2>. DEFINE request == [NoJob EXCEPT !.step = "query", !.session = s,
                                       !.redirectUri = u, !.assertion = a]
  <2>1. request \in JobType /\ request.step # "done"
    BY NoJobTyped DEF JobType, Step, NoJob
  <2>2. job' = request \/ \E error : job' = Refused(request, "form", error)
    BY <1>6 DEF Receive
  <2>. HIDE DEF request
  <2>. QED  BY <1>1, <1>2, <2>1, <2>2
<1>7. CASE Query
  <2>1. ASSUME job' = [job EXCEPT !.step = "config", !.body = Merged(job.session)]
        PROVE  CountedOnce'
    BY <1>0, <1>2, <2>1 DEF JobType
  <2>. QED  BY <1>0, <1>1, <1>7, <2>1 DEF Query
<1>8. CASE ClientConfig \/ ReadSession \/ CheckRedirect \/ VerifyAssertion
  BY <1>0, <1>1, <1>4, <1>8
  DEF ClientConfig, ReadSession, CheckRedirect, VerifyAssertion, Step
<1>9. CASE StoreToken
  <2>1. [job EXCEPT !.took = TRUE] \in JobType
    BY <1>0, Zenon DEF JobType
  <2>. QED  BY <1>0, <1>1, <1>9, <2>1 DEF StoreToken
<1>. QED
  BY <1>3, <1>5, <1>6, <1>7, <1>8, <1>9
  DEF Next, SessionConfig, ChangeRedirect, SaveSession, vars

\* Every answered token request is counted exactly once, whichever of the
\* handler and the error middleware it ends in and whatever error it is.
THEOREM RequestsAreCountedOnce == Spec => []CountedOnce
<1>1. Init => CountedOnce
  <2>1. NoJob.step # "done"
    BY DEF NoJob
  <2>. QED  BY <2>1 DEF Init, CountedOnce
<1>. QED  BY <1>1, CountStep, TypeCorrect, PTL DEF Spec
=============================================================================
