-------------------------- MODULE AuthorizationCode --------------------------
(***************************************************************************)
(* The life of an authorization code: POST /create-auth-code puts one in   *)
(* the session, GET /authorization hands it to the client, POST /token     *)
(* exchanges it for an access token, DELETE /session removes the session   *)
(* it is in.  Each request is a lambda invocation of several asynchronous  *)
(* steps, and the invocations interleave.  What they share is the session  *)
(* table, its authorizationCode-index, and the lagging replica that the    *)
(* GetCommands (none asks for ConsistentRead) may read.                    *)
(*                                                                         *)
(* An invocation is made once, so its identity also names the one random   *)
(* value it draws: codeCall[c] is the invocation that drew code c, and     *)
(* tokenCall[t] the one that drew token t.  Time is in whole seconds, as   *)
(* msToSeconds makes it.  A command's time values are fixed when the       *)
(* lambda builds it (`at') and used by DynamoDB later, and again by every  *)
(* retry of the AWS SDK.                                                   *)
(***************************************************************************)
EXTENDS SessionTable, FiniteSets

CONSTANTS DeleteCall,                                \* DELETE /session requests
          AuthCodeTtl, AccessTokenTtl, SessionTtl,   \* seconds
          CreateAttempts, RedeemAttempts, DeleteAttempts, \* SDK maxAttempts
          MaxClock                                   \* bound on the clock

ASSUME TimesAreNatural ==
    /\ AuthCodeTtl \in Nat /\ AccessTokenTtl \in Nat /\ SessionTtl \in Nat
    /\ MaxClock \in Nat

ASSUME SomeAttempt ==
    /\ CreateAttempts \in Nat \ {0}
    /\ RedeemAttempts \in Nat \ {0}
    /\ DeleteAttempts \in Nat \ {0}

ASSUME NoneIsNoOffer == None \notin [code : Code, deadline : Int]

ASSUME NoneIsNoAnswer == None \notin {"200", "201"}

VARIABLES
    clock,      \* seconds
    table,      \* the session table, as a write sees it
    replica,    \* what an eventually consistent read may still return
    index,      \* authorizationCode-index: the code a session is filed under
    born,       \* sessions POST /session has created
    handed,     \* codes GET /authorization has given to the client
    codeCall,   \* the POST /create-auth-code invocations
    tokenCall,  \* the POST /token invocations
    deleteCall  \* the DELETE /session invocations

vars == <<clock, table, replica, index, born, handed,
          codeCall, tokenCall, deleteCall>>

-----------------------------------------------------------------------------
CodeCallState ==
    [pc      : {"idle", "sent", "done"},
     session : Session \cup {None},
     at      : 0 .. MaxClock,
     tries   : 0 .. CreateAttempts - 1,
     took    : BOOLEAN,      \* some attempt wrote the code to the table
     resp    : {None, "201", "200", "404", "500"}]

TokenCallState ==
    [pc      : {"idle", "read", "verify", "sent", "done"},
     session : Session \cup {None},
     code    : Code \cup {None},
     at      : 0 .. MaxClock,
     tries   : 0 .. RedeemAttempts - 1,
     took    : BOOLEAN,      \* some attempt wrote the token to the table
     resp    : {None, "200", "InvalidAccessToken", "SessionNotFound",
                "SessionExpired", "AuthorizationCodeExpired",
                "unverified", "500"}]

DeleteCallState ==
    [pc      : {"idle", "sent", "done"},
     session : Session \cup {None},
     tries   : 0 .. DeleteAttempts - 1,
     resp    : {None, "200", "404", "500"}]

TypeOK ==
    /\ clock \in 0 .. MaxClock
    /\ table \in [Session -> SessionItem]
    /\ replica \in [Session -> SessionItem]
    /\ index \in [Session -> Code \cup {None}]
    /\ born \in SUBSET Session
    /\ handed \in SUBSET Code
    /\ codeCall \in [Code -> CodeCallState]
    /\ tokenCall \in [Token -> TokenCallState]
    /\ deleteCall \in [DeleteCall -> DeleteCallState]

Init ==
    /\ clock = 0
    /\ table = [s \in Session |-> NoItem]
    /\ replica = table
    /\ index = [s \in Session |-> None]
    /\ born = {}
    /\ handed = {}
    /\ codeCall = [c \in Code |->
           [pc |-> "idle", session |-> None, at |-> 0, tries |-> 0,
            took |-> FALSE, resp |-> None]]
    /\ tokenCall = [t \in Token |->
           [pc |-> "idle", session |-> None, code |-> None, at |-> 0,
            tries |-> 0, took |-> FALSE, resp |-> None]]
    /\ deleteCall = [d \in DeleteCall |->
           [pc |-> "idle", session |-> None, tries |-> 0, resp |-> None]]

-----------------------------------------------------------------------------
(* What the steps of every invocation share.                               *)

\* An eventually consistent GetCommand returns the item or an older copy.
MayRead(s) == {table[s], replica[s]}

Ended(call, resp) == [call EXCEPT !.pc = "done", !.resp = resp]

\* A slip: never giving up.
NeverGivesUp(call, attempts) == [call EXCEPT !.tries = (@ + 1) % attempts]

\* No answer came back: the SDK sends the same command again until it has
\* used its attempts, then the lambda answers with a server error.
Unanswered(call, attempts) ==
    IF call.tries + 1 < attempts THEN [call EXCEPT !.tries = @ + 1]
                                 ELSE Ended(call, "500")

-----------------------------------------------------------------------------
(* POST /session, as far as this protocol goes: the item and its expiry.   *)
(* The bound keeps the expiry of every session within the clock's reach.   *)
CreateSession(s) ==
    /\ s \notin born
    /\ clock + SessionTtl < MaxClock
    /\ born' = born \cup {s}
    /\ table' = [table EXCEPT ![s] = NewSessionItem(s, clock + SessionTtl)]
    /\ UNCHANGED <<clock, replica, index, handed,
                   codeCall, tokenCall, deleteCall>>

(* POST /create-auth-code builds its one conditional update.               *)
CreateAuthCodeSend(c, s) ==
    /\ codeCall[c].pc = "idle"
    /\ codeCall' = [codeCall EXCEPT
           ![c].pc = "sent", ![c].session = s, ![c].at = clock]
    /\ UNCHANGED <<clock, table, replica, index, born, handed,
                   tokenCall, deleteCall>>

(* DynamoDB serves the update.  A failed condition returns the old item    *)
(* (ALL_OLD): with one the code stands, without one there is no session.   *)
CreateAuthCodeWrite(c) ==
    LET call   == codeCall[c]
        s      == call.session
        took   == CreateAuthCodeCondition(table[s], call.at)
        answer == IF took THEN "201"
                  ELSE IF AttributeExists(table[s].sessionId) THEN "200"
                  ELSE "404"
        served == [call EXCEPT !.took = @ \/ took]
    IN  /\ call.pc = "sent"
        /\ table' = IF took
                    THEN [table EXCEPT ![s] =
                            WithAuthCode(@, s, c, call.at + AuthCodeTtl)]
                    ELSE table
        /\ \/ codeCall' = [codeCall EXCEPT ![c] = Ended(served, answer)]
           \/ codeCall' = [codeCall EXCEPT ![c] =
                             Unanswered(served, CreateAttempts)]
        /\ UNCHANGED <<clock, replica, index, born, handed,
                       tokenCall, deleteCall>>

(* An attempt of it never reaches the table.                               *)
CreateAuthCodeLost(c) ==
    /\ codeCall[c].pc = "sent"
    /\ codeCall' = [codeCall EXCEPT ![c] = Unanswered(@, CreateAttempts)]
    /\ UNCHANGED <<clock, table, replica, index, born, handed,
                   tokenCall, deleteCall>>

(* GET /authorization reads the session and hands over whatever code the   *)
(* item has: it checks neither the expiry of the code nor the session's.   *)
Authorize(s) ==
    /\ \E item \in MayRead(s) :
           /\ AttributeExists(item.sessionId)
           /\ AttributeExists(item.authorizationCode)
           /\ handed' = handed \cup {item.authorizationCode}
    /\ UNCHANGED <<clock, table, replica, index, born,
                   codeCall, tokenCall, deleteCall>>

-----------------------------------------------------------------------------
(* POST /token, first read: the index must file one session under a code.  *)
TokenQuery(t, c) ==
    LET found == {s \in Session : index[s] = c}
    IN  /\ tokenCall[t].pc = "idle"
        /\ c \in handed
        /\ \/ \E s \in Session :
                 /\ found = {s}
                 /\ tokenCall' = [tokenCall EXCEPT
                        ![t].pc = "read", ![t].session = s, ![t].code = c]
           \/ /\ \A s \in Session : found # {s}
              /\ tokenCall' = [tokenCall EXCEPT
                     ![t] = Ended([@ EXCEPT !.code = c], "InvalidAccessToken")]
        /\ UNCHANGED <<clock, table, replica, index, born, handed,
                       codeCall, deleteCall>>

\* validateSessionAndAuthorizationCodeExpiry; None: nothing has expired.
ExpiryError(item) ==
    IF HasDateExpired(item.expiryDate, clock) THEN "SessionExpired"
    ELSE IF HasDateExpired(item.authorizationCodeExpiryDate, clock)
    THEN "AuthorizationCodeExpired"
    ELSE None

(* Second read: the session, for its expiry dates.  Its code is not used:  *)
(* the code in the request overrides it when the two are merged.           *)
TokenReadSession(t) ==
    /\ tokenCall[t].pc = "read"
    /\ \E item \in MayRead(tokenCall[t].session) :
           LET problem == IF ~AttributeExists(item.sessionId)
                          THEN "SessionNotFound" ELSE ExpiryError(item)
           IN  tokenCall' = [tokenCall EXCEPT ![t] =
                   IF problem = None THEN [@ EXCEPT !.pc = "verify"]
                                     ELSE Ended(@, problem)]
    /\ UNCHANGED <<clock, table, replica, index, born, handed,
                   codeCall, deleteCall>>

\* A slip: the update sent without waiting for the verification to end.
SendThenVerify(t) ==
    /\ \/ /\ tokenCall[t].pc = "verify"
          /\ tokenCall' = [tokenCall EXCEPT ![t].pc = "sent", ![t].at = clock]
       \/ /\ tokenCall[t].pc \in {"verify", "sent"}
          /\ tokenCall' = [tokenCall EXCEPT ![t] = Ended(@, "unverified")]
    /\ UNCHANGED <<clock, table, replica, index, born, handed,
                   codeCall, deleteCall>>

(* The redirect URI and the client assertion are checked, the latter with  *)
(* a call to the client's JWKS endpoint; then the update is built.         *)
TokenVerify(t) ==
    /\ tokenCall[t].pc = "verify"
    /\ \/ tokenCall' = [tokenCall EXCEPT ![t].pc = "sent", ![t].at = clock]
       \/ tokenCall' = [tokenCall EXCEPT ![t] = Ended(@, "unverified")]
    /\ UNCHANGED <<clock, table, replica, index, born, handed,
                   codeCall, deleteCall>>

(* A read or a call of the verification fails, or the lambda times out.    *)
TokenFail(t) ==
    /\ tokenCall[t].pc \in {"read", "verify"}
    /\ tokenCall' = [tokenCall EXCEPT ![t] = Ended(@, "500")]
    /\ UNCHANGED <<clock, table, replica, index, born, handed,
                   codeCall, deleteCall>>

(* DynamoDB serves the update that swaps the code for the token.           *)
TokenWrite(t) ==
    LET call   == tokenCall[t]
        s      == call.session
        took   == RedeemCondition(table[s], call.code, call.at)
        answer == IF took THEN "200" ELSE "InvalidAccessToken"
        served == [call EXCEPT !.took = @ \/ took]
    IN  /\ call.pc = "sent"
        /\ table' = IF took
                    THEN [table EXCEPT ![s] =
                            WithAccessToken(@, s, t, call.at + AccessTokenTtl)]
                    ELSE table
        /\ \/ tokenCall' = [tokenCall EXCEPT ![t] = Ended(served, answer)]
           \/ tokenCall' = [tokenCall EXCEPT ![t] =
                              Unanswered(served, RedeemAttempts)]
        /\ UNCHANGED <<clock, replica, index, born, handed,
                       codeCall, deleteCall>>

(* An attempt of it never reaches the table.                               *)
TokenLost(t) ==
    /\ tokenCall[t].pc = "sent"
    /\ tokenCall' = [tokenCall EXCEPT ![t] = Unanswered(@, RedeemAttempts)]
    /\ UNCHANGED <<clock, table, replica, index, born, handed,
                   codeCall, deleteCall>>

-----------------------------------------------------------------------------
(* DELETE /session reads first, only to tell 404 from 200.                 *)
DeleteSend(d, s) ==
    /\ deleteCall[d].pc = "idle"
    /\ \E item \in MayRead(s) :
           deleteCall' = [deleteCall EXCEPT ![d] =
               IF AttributeExists(item.sessionId)
               THEN [@ EXCEPT !.pc = "sent", !.session = s]
               ELSE Ended([@ EXCEPT !.session = s], "404")]
    /\ UNCHANGED <<clock, table, replica, index, born, handed,
                   codeCall, tokenCall>>

(* The transaction deletes the item whether or not it is still there.      *)
DeleteWrite(d) ==
    /\ deleteCall[d].pc = "sent"
    /\ table' = [table EXCEPT ![deleteCall[d].session] = NoItem]
    /\ \/ deleteCall' = [deleteCall EXCEPT ![d] = Ended(@, "200")]
       \/ deleteCall' = [deleteCall EXCEPT ![d] =
                           Unanswered(@, DeleteAttempts)]
    /\ UNCHANGED <<clock, replica, index, born, handed, codeCall, tokenCall>>

(* An attempt of it never reaches the table.                               *)
DeleteLost(d) ==
    /\ deleteCall[d].pc = "sent"
    /\ deleteCall' = [deleteCall EXCEPT ![d] = Unanswered(@, DeleteAttempts)]
    /\ UNCHANGED <<clock, table, replica, index, born, handed,
                   codeCall, tokenCall>>

-----------------------------------------------------------------------------
(* DynamoDB on its own: replicas and index catch up, TTL removes items.    *)
Replicate(s) ==
    /\ replica[s] # table[s]
    /\ replica' = [replica EXCEPT ![s] = table[s]]
    /\ UNCHANGED <<clock, table, index, born, handed,
                   codeCall, tokenCall, deleteCall>>

UpdateIndex(s) ==
    /\ index[s] # table[s].authorizationCode
    /\ index' = [index EXCEPT ![s] = table[s].authorizationCode]
    /\ UNCHANGED <<clock, table, replica, born, handed,
                   codeCall, tokenCall, deleteCall>>

Sweep(s) ==
    /\ SweepDue(table[s], clock)
    /\ table' = [table EXCEPT ![s] = NoItem]
    /\ UNCHANGED <<clock, replica, index, born, handed,
                   codeCall, tokenCall, deleteCall>>

Tick ==
    /\ clock < MaxClock
    /\ clock' = clock + 1
    /\ UNCHANGED <<table, replica, index, born, handed,
                   codeCall, tokenCall, deleteCall>>

\* Every request has been answered, no item is left and nothing is in
\* flight.  Only this state may stop; any other that cannot go on is a bug.
Finished ==
    /\ clock = MaxClock
    /\ \A s \in Session : /\ table[s] = NoItem
                          /\ replica[s] = table[s]
                          /\ index[s] = None
    /\ \A c \in Code : codeCall[c].pc = "done"
    /\ \A t \in Token : tokenCall[t].pc \in {"idle", "done"}
    /\ \A d \in DeleteCall : deleteCall[d].pc = "done"
    /\ UNCHANGED vars

-----------------------------------------------------------------------------
CodeStep(c)   == CreateAuthCodeWrite(c) \/ CreateAuthCodeLost(c)
TokenStep(t)  == \/ TokenReadSession(t) \/ TokenVerify(t) \/ TokenFail(t)
                 \/ TokenWrite(t) \/ TokenLost(t)
DeleteStep(d) == DeleteWrite(d) \/ DeleteLost(d)

Next ==
    \/ \E s \in Session :
         \/ CreateSession(s)
         \/ Authorize(s)
         \/ Replicate(s)
         \/ UpdateIndex(s)
         \/ Sweep(s)
         \/ \E c \in Code : CreateAuthCodeSend(c, s)
         \/ \E d \in DeleteCall : DeleteSend(d, s)
    \/ \E c \in Code : CodeStep(c)
    \/ \E t \in Token :
         \/ \E c \in Code : TokenQuery(t, c)
         \/ TokenStep(t)
    \/ \E d \in DeleteCall : DeleteStep(d)
    \/ Tick
    \/ Finished

Spec == Init /\ [][Next]_vars

\* Time passes and DynamoDB does its own work; a lambda that was started
\* goes on, or is cut off by its timeout (its last attempt is then lost).
\* No client is obliged to send anything.
Fairness ==
    /\ WF_vars(Tick)
    /\ \A s \in Session :
         WF_vars(Sweep(s)) /\ WF_vars(Replicate(s)) /\ WF_vars(UpdateIndex(s))
    /\ \A c \in Code : WF_vars(CodeStep(c))
    /\ \A t \in Token : WF_vars(TokenStep(t))
    /\ \A d \in DeleteCall : WF_vars(DeleteStep(d))

FairSpec == Spec /\ Fairness

-----------------------------------------------------------------------------
(* Properties.                                                             *)

\* The codes some invocation of POST /token has exchanged for a token.
Redeemed(t, c) == tokenCall[t].took /\ tokenCall[t].code = c

\* The tokens bought with a code, and the attempts of its create command that
\* were served or lost.
Bought(c) == {t \in Token : Redeemed(t, c)}
InTable(c) == \E s \in Session : table[s].authorizationCode = c
AttemptsMade(c) ==
    codeCall[c].tries + (IF codeCall[c].pc = "done" THEN 1 ELSE 0)

\* An authorization code is exchanged for at most one access token, however
\* many requests carry it and however late each one's update is served: the
\* reads before it may all be stale, only the update's condition decides.
CodeRedeemedOnce ==
    \A c \in Code : \A t, u \in Token :
        Redeemed(t, c) /\ Redeemed(u, c) => t = u

\* A code buys a token only for the session it was created for, and only in
\* a request whose update was built before the code's own expiry: not with
\* the expiry of a code that replaced it, nor with one read from a replica.
RedeemedInTime ==
    \A t \in Token : tokenCall[t].took =>
        LET created == codeCall[tokenCall[t].code]
        IN  /\ created.took
            /\ tokenCall[t].session = created.session
            /\ created.at <= tokenCall[t].at
            /\ tokenCall[t].at < created.at + AuthCodeTtl

\* A client told that its session or code has expired or that its assertion
\* failed has no token stored in its name, and one told that its code is no
\* good has one only if its update was sent before and the answer got lost:
\* the update's own repeat then finds the code gone.
RefusedNotMinted ==
    \A t \in Token :
        tokenCall[t].resp \notin {None, "200", "500"} /\ tokenCall[t].took =>
            tokenCall[t].resp = "InvalidAccessToken" /\ tokenCall[t].tries > 0

\* Once a session's item is gone, by DELETE /session or by its TTL, no write
\* that was already on its way brings any part of it back.
ErasedForGood ==
    [][\A s \in born : table[s] = NoItem => table'[s] = NoItem]_vars

\* An access token goes on working until its session is gone or another code
\* of the session is redeemed: neither a new code nor a late or repeated
\* request with the old one takes it away.  The old code can only if its create
\* command was sent again and has put it back.
TokenReplacedByToken ==
    [][\A s \in Session :
         LET token == table[s].accessToken  next == table'[s].accessToken
             code  == tokenCall[next].code
         IN  token # None /\ token # next /\ table'[s] # NoItem =>
               /\ next # None
               /\ code = tokenCall[token].code => AttemptsMade(code) > 1]_vars

\* When POST /create-auth-code answers 200 or 201 the session has a code that
\* had not lapsed when the request was made, whichever request created it.
AnswerMeansCode ==
    [][\A c \in Code :
         /\ codeCall[c].pc = "sent"
         /\ codeCall'[c].resp \in {"200", "201"}
         => LET item == table'[codeCall[c].session]
            IN  /\ item.authorizationCode # None
                /\ item.authorizationCodeExpiryDate >= codeCall[c].at]_vars

\* Once DELETE /session has answered 200, GET /authorization gives out no code
\* of that session (DeleteSessionAPI.feature: a deleted session cannot be
\* authorized).  A replica that lags behind the deletion breaks it.
DeletedNotAuthorized ==
    [][\A d \in DeleteCall : deleteCall[d].resp = "200" =>
         \A c \in handed' \ handed :
             codeCall[c].session # deleteCall[d].session]_vars

\* Every session is in the end removed from the table, and then from every
\* replica and from the index, and stays so: nothing outlives its TTL.
EventuallyErased ==
    \A s \in Session :
        s \in born ~> [](table[s] = NoItem /\ replica[s] = NoItem
                          /\ index[s] = None)

\* In the end no request is left unanswered, whatever is lost on the way (every
\* invocation is begun once at most).
RequestsAnswered ==
    <>[](/\ \A c \in Code : codeCall[c].pc \in {"idle", "done"}
         /\ \A t \in Token : tokenCall[t].pc \in {"idle", "done"}
         /\ \A d \in DeleteCall : deleteCall[d].pc \in {"idle", "done"})

-----------------------------------------------------------------------------
(* The invariants these rest on.                                           *)

\* The code an item holds was written by the request that drew it, for that
\* session, with that request's expiry.
FileInv ==
    \A s \in Session : table[s].authorizationCode # None =>
        LET created == codeCall[table[s].authorizationCode]
        IN  /\ created.took
            /\ created.session = s
            /\ table[s].authorizationCodeExpiryDate = created.at + AuthCodeTtl

\* Whatever a stale read returns, or a client holds, was once in the table.
SeenInv ==
    /\ \A s \in Session : replica[s].authorizationCode # None =>
           codeCall[replica[s].authorizationCode].took
    /\ \A c \in handed : codeCall[c].took

\* What a request in flight has done so far.
CallInv ==
    /\ \A c \in Code : /\ codeCall[c].pc = "idle" => ~codeCall[c].took
                       /\ codeCall[c].at <= clock
    /\ \A t \in Token :
         /\ tokenCall[t].pc \in {"idle", "read", "verify"} => ~tokenCall[t].took
         /\ tokenCall[t].took => tokenCall[t].code \in Code
         /\ tokenCall[t].pc \in {"read", "verify", "sent"} =>
               /\ tokenCall[t].session \in Session
               /\ tokenCall[t].code \in Code
               /\ codeCall[tokenCall[t].code].took
         /\ tokenCall[t].pc = "sent" =>
               codeCall[tokenCall[t].code].at <= tokenCall[t].at

\* Inductive for any number of attempts.
TimeInv == TypeOK /\ FileInv /\ SeenInv /\ CallInv /\ RedeemedInTime

\* A code is redeemed while it is not in the table: no redeemed code is in
\* it, and no request can still write one.  The last needs a create command
\* that is sent once.
OnceInv ==
    /\ \A c \in Code : codeCall[c].pc = "sent" => ~codeCall[c].took
    /\ \A s \in Session, t \in Token :
         table[s].authorizationCode # None =>
             ~Redeemed(t, table[s].authorizationCode)
    /\ CodeRedeemedOnce

\* A code buys no more tokens than its create command was sent, however often
\* the SDK may repeat it: each token has used up an attempt that put the code
\* into the table, and a code that is in the table has used up one more.
BudgetInv ==
    \A c \in Code :
        /\ IsFiniteSet(Bought(c))
        /\ Cardinality(Bought(c)) + (IF InTable(c) THEN 1 ELSE 0)
             <= AttemptsMade(c)

\* A session has no item before it was created.
BornInv == \A s \in Session : s \notin born => table[s] = NoItem

\* A create command in flight names its session; only its end answers it.
SentInv ==
    \A c \in Code :
        /\ codeCall[c].pc = "sent" => codeCall[c].session \in Session
        /\ codeCall[c].pc # "done" => codeCall[c].resp = None

\* A token in the table is one that some request has bought.
MintInv ==
    \A s \in Session : table[s].accessToken # None =>
        tokenCall[table[s].accessToken].took

\* A request in flight has no answer yet, and has bought a token only if its
\* redeem command was sent before.
RefusedInv ==
    /\ \A t \in Token : tokenCall[t].pc # "done" =>
         /\ tokenCall[t].resp = None
         /\ tokenCall[t].took => tokenCall[t].tries > 0
    /\ RefusedNotMinted

-----------------------------------------------------------------------------
(* What the table promises, see AuthorizationCodeGrant.                    *)
status == [s \in Session |-> IF s \notin born THEN "new"
                             ELSE IF table[s] = NoItem THEN "closed"
                             ELSE "open"]
offer == [s \in Session |->
            IF table[s].authorizationCode = None THEN None
            ELSE [code     |-> table[s].authorizationCode,
                  deadline |-> table[s].authorizationCodeExpiryDate]]
used == [c \in Code |-> AttemptsMade(c)]
sold == [c \in Code |-> Cardinality(Bought(c))]

Grant == INSTANCE AuthorizationCodeGrant
           WITH Ttl <- AuthCodeTtl, Tries <- CreateAttempts, now <- clock

\* The interleaved requests, with their stale reads, lost answers, retries,
\* sweeps and deletions, implement the grant of AuthorizationCodeGrant: one
\* offer at a time for a session, one for each attempt at a create command, and
\* one token for each offer.
ImplementsGrant == Grant!Spec
=============================================================================
