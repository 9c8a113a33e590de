---------------------- MODULE AuthorizationCodeProofs ----------------------
(***************************************************************************)
(* Theorems about AuthorizationCode for every number of sessions, codes,   *)
(* tokens and requests, every TTL and every clock.                         *)
(***************************************************************************)
EXTENDS AuthorizationCode, TLAPS

USE DEF vars

-----------------------------------------------------------------------------
(* Type correctness.                                                       *)

\* The helper every lambda ends with keeps the records of the calls typed.
LEMMA CodeCallTypes ==
    ASSUME NEW call \in CodeCallState
    PROVE  /\ \A r \in {"201", "200", "404", "500"} :
                Ended(call, r) \in CodeCallState
           /\ Unanswered(call, CreateAttempts) \in CodeCallState
           /\ \A b \in BOOLEAN : [call EXCEPT !.took = b] \in CodeCallState
<1>1. \A r \in {"201", "200", "404", "500"} : Ended(call, r) \in CodeCallState
  BY DEF CodeCallState, Ended
<1>2. ASSUME call.tries + 1 < CreateAttempts
      PROVE  Unanswered(call, CreateAttempts) \in CodeCallState
  <2>1. call.tries + 1 \in 0 .. CreateAttempts - 1
    BY <1>2, SomeAttempt DEF CodeCallState
  <2>2. [call EXCEPT !.tries = @ + 1] \in CodeCallState
    BY <2>1 DEF CodeCallState
  <2> QED BY <1>2, <2>2 DEF Unanswered
<1>3. ASSUME ~(call.tries + 1 < CreateAttempts)
      PROVE  Unanswered(call, CreateAttempts) \in CodeCallState
  BY <1>1, <1>3 DEF Unanswered
<1>4. \A b \in BOOLEAN : [call EXCEPT !.took = b] \in CodeCallState
  BY DEF CodeCallState
<1> QED BY <1>1, <1>2, <1>3, <1>4

LEMMA TokenCallTypes ==
    ASSUME NEW call \in TokenCallState
    PROVE  /\ \A r \in {"200", "InvalidAccessToken", "SessionNotFound",
                        "SessionExpired", "AuthorizationCodeExpired",
                        "unverified", "500"} :
                Ended(call, r) \in TokenCallState
           /\ Unanswered(call, RedeemAttempts) \in TokenCallState
           /\ \A b \in BOOLEAN : [call EXCEPT !.took = b] \in TokenCallState
           /\ \A c \in Code : [call EXCEPT !.code = c] \in TokenCallState
<1>1. \A r \in {"200", "InvalidAccessToken", "SessionNotFound",
              "SessionExpired", "AuthorizationCodeExpired",
              "unverified", "500"} : Ended(call, r) \in TokenCallState
  BY DEF TokenCallState, Ended
<1>2. ASSUME call.tries + 1 < RedeemAttempts
      PROVE  Unanswered(call, RedeemAttempts) \in TokenCallState
  <2>1. call.tries + 1 \in 0 .. RedeemAttempts - 1
    BY <1>2, SomeAttempt DEF TokenCallState
  <2>2. [call EXCEPT !.tries = @ + 1] \in TokenCallState
    BY <2>1 DEF TokenCallState
  <2> QED BY <1>2, <2>2 DEF Unanswered
<1>3. ASSUME ~(call.tries + 1 < RedeemAttempts)
      PROVE  Unanswered(call, RedeemAttempts) \in TokenCallState
  BY <1>1, <1>3 DEF Unanswered
<1>4. \A b \in BOOLEAN : [call EXCEPT !.took = b] \in TokenCallState
  BY DEF TokenCallState
<1>5. \A c \in Code : [call EXCEPT !.code = c] \in TokenCallState
  BY DEF TokenCallState
<1> QED BY <1>1, <1>2, <1>3, <1>4, <1>5

LEMMA DeleteCallTypes ==
    ASSUME NEW call \in DeleteCallState
    PROVE  /\ \A r \in {"200", "404", "500"} : Ended(call, r) \in DeleteCallState
           /\ Unanswered(call, DeleteAttempts) \in DeleteCallState
           /\ \A s \in Session : [call EXCEPT !.session = s] \in DeleteCallState
<1>1. \A r \in {"200", "404", "500"} : Ended(call, r) \in DeleteCallState
  BY DEF DeleteCallState, Ended
<1>2. ASSUME call.tries + 1 < DeleteAttempts
      PROVE  Unanswered(call, DeleteAttempts) \in DeleteCallState
  <2>1. call.tries + 1 \in 0 .. DeleteAttempts - 1
    BY <1>2, SomeAttempt DEF DeleteCallState
  <2>2. [call EXCEPT !.tries = @ + 1] \in DeleteCallState
    BY <2>1 DEF DeleteCallState
  <2> QED BY <1>2, <2>2 DEF Unanswered
<1>3. ASSUME ~(call.tries + 1 < DeleteAttempts)
      PROVE  Unanswered(call, DeleteAttempts) \in DeleteCallState
  BY <1>1, <1>3 DEF Unanswered
<1>4. \A s \in Session : [call EXCEPT !.session = s] \in DeleteCallState
  BY DEF DeleteCallState
<1> QED BY <1>1, <1>2, <1>3, <1>4

\* The items the commands write are items.
LEMMA ItemTypes ==
    /\ NoItem \in SessionItem
    /\ \A s \in Session, e \in Int : NewSessionItem(s, e) \in SessionItem
    /\ \A i \in SessionItem, s \in Session, c \in Code, e \in Int :
         WithAuthCode(i, s, c, e) \in SessionItem
    /\ \A i \in SessionItem, s \in Session, t \in Token, e \in Int :
         WithAccessToken(i, s, t, e) \in SessionItem
  BY DEF SessionItem, NoItem, NewSessionItem, WithAuthCode, WithAccessToken

LEMMA TypeStep == TypeOK /\ [Next]_vars => TypeOK'
<1> SUFFICES ASSUME TypeOK, [Next]_vars PROVE TypeOK'
    OBVIOUS
<1> USE DEF TypeOK
<1>1. ASSUME NEW s \in Session, CreateSession(s) PROVE TypeOK'
  <2>1. NewSessionItem(s, clock + SessionTtl) \in SessionItem
    BY TimesAreNatural, ItemTypes
  <2> QED BY <1>1, <2>1 DEF CreateSession
<1>2. ASSUME NEW s \in Session, Authorize(s) PROVE TypeOK'
  <2>1. PICK item \in MayRead(s) :
          /\ item.authorizationCode # None
          /\ handed' = handed \cup {item.authorizationCode}
    BY <1>2 DEF Authorize, AttributeExists
  <2>2. item.authorizationCode \in Code
    BY <2>1 DEF MayRead, SessionItem
  <2> QED BY <1>2, <2>1, <2>2 DEF Authorize
<1>3. ASSUME NEW s \in Session, Replicate(s) PROVE TypeOK'
  BY <1>3 DEF Replicate
<1>4. ASSUME NEW s \in Session, UpdateIndex(s) PROVE TypeOK'
  BY <1>4 DEF UpdateIndex, SessionItem
<1>5. ASSUME NEW s \in Session, Sweep(s) PROVE TypeOK'
  BY <1>5, ItemTypes DEF Sweep
<1>6. ASSUME NEW s \in Session, NEW c \in Code, CreateAuthCodeSend(c, s)
      PROVE  TypeOK'
  <2>1. [codeCall[c] EXCEPT !.pc = "sent", !.session = s, !.at = clock]
          \in CodeCallState
    BY DEF CodeCallState
  <2> QED BY <1>6, <2>1 DEF CreateAuthCodeSend
<1>7. ASSUME NEW s \in Session, NEW d \in DeleteCall, DeleteSend(d, s)
      PROVE  TypeOK'
  <2>1. deleteCall' \in [DeleteCall -> DeleteCallState]
    <3> DEFINE asked == [deleteCall[d] EXCEPT !.session = s]
    <3>1. asked \in DeleteCallState /\ Ended(asked, "404") \in DeleteCallState
      BY DeleteCallTypes
    <3>2. [deleteCall[d] EXCEPT !.pc = "sent", !.session = s] \in DeleteCallState
      BY DEF DeleteCallState
    <3> QED BY <1>7, <3>1, <3>2 DEF DeleteSend
  <2> QED BY <1>7, <2>1 DEF DeleteSend
<1>8. ASSUME NEW c \in Code, CreateAuthCodeWrite(c) PROVE TypeOK'
  <2> DEFINE call == codeCall[c]
             s == call.session
             took == CreateAuthCodeCondition(table[s], call.at)
             served == [call EXCEPT !.took = @ \/ took]
  <2>1. codeCall' \in [Code -> CodeCallState]
    <3>1. served \in CodeCallState
      BY CodeCallTypes DEF CodeCallState
    <3>2. /\ Ended(served, "201") \in CodeCallState
          /\ Ended(served, "200") \in CodeCallState
          /\ Ended(served, "404") \in CodeCallState
          /\ Unanswered(served, CreateAttempts) \in CodeCallState
      BY <3>1, CodeCallTypes
    <3> QED BY <1>8, <3>2 DEF CreateAuthCodeWrite
  <2>2. table' \in [Session -> SessionItem]
    <3>1. CASE s \in Session
      <4>1. WithAuthCode(table[s], s, c, call.at + AuthCodeTtl) \in SessionItem
        BY <3>1, ItemTypes, TimesAreNatural DEF CodeCallState
      <4> QED BY <1>8, <4>1 DEF CreateAuthCodeWrite
    <3>2. CASE s \notin Session
      BY <1>8, <3>2 DEF CreateAuthCodeWrite
    <3> QED BY <3>1, <3>2
  <2> QED BY <1>8, <2>1, <2>2 DEF CreateAuthCodeWrite
<1>9. ASSUME NEW c \in Code, CreateAuthCodeLost(c) PROVE TypeOK'
  BY <1>9, CodeCallTypes DEF CreateAuthCodeLost
<1>10. ASSUME NEW t \in Token, NEW c \in Code, TokenQuery(t, c) PROVE TypeOK'
  <2>1. tokenCall' \in [Token -> TokenCallState]
    <3>1. Ended([tokenCall[t] EXCEPT !.code = c], "InvalidAccessToken")
            \in TokenCallState
      BY TokenCallTypes
    <3>2. \A s \in Session :
            [tokenCall[t] EXCEPT !.pc = "read", !.session = s, !.code = c]
              \in TokenCallState
      BY DEF TokenCallState
    <3> QED BY <1>10, <3>1, <3>2 DEF TokenQuery
  <2> QED BY <1>10, <2>1 DEF TokenQuery
<1>11. ASSUME NEW t \in Token, TokenReadSession(t) PROVE TypeOK'
  <2>1. tokenCall' \in [Token -> TokenCallState]
    <3>1. [tokenCall[t] EXCEPT !.pc = "verify"] \in TokenCallState
      BY DEF TokenCallState
    <3>2. /\ Ended(tokenCall[t], "SessionNotFound") \in TokenCallState
          /\ \A item : ExpiryError(item) = None
                       \/ Ended(tokenCall[t], ExpiryError(item)) \in TokenCallState
      BY TokenCallTypes DEF ExpiryError
    <3> QED BY <1>11, <3>1, <3>2 DEF TokenReadSession
  <2> QED BY <1>11, <2>1 DEF TokenReadSession
<1>12. ASSUME NEW t \in Token, TokenVerify(t) PROVE TypeOK'
  <2>1. Ended(tokenCall[t], "unverified") \in TokenCallState
    BY TokenCallTypes
  <2> QED BY <1>12, <2>1 DEF TokenVerify, TokenCallState
<1>13. ASSUME NEW t \in Token, TokenFail(t) PROVE TypeOK'
  BY <1>13, TokenCallTypes DEF TokenFail
<1>14. ASSUME NEW t \in Token, TokenWrite(t) PROVE TypeOK'
  <2> DEFINE call == tokenCall[t]
             s == call.session
             took == RedeemCondition(table[s], call.code, call.at)
             served == [call EXCEPT !.took = @ \/ took]
  <2>1. tokenCall' \in [Token -> TokenCallState]
    <3>1. served \in TokenCallState
      <4>1. (call.took \/ took) \in BOOLEAN
        OBVIOUS
      <4> QED BY <4>1, TokenCallTypes
    <3>2. /\ Ended(served, "200") \in TokenCallState
          /\ Ended(served, "InvalidAccessToken") \in TokenCallState
          /\ Unanswered(served, RedeemAttempts) \in TokenCallState
      BY <3>1, TokenCallTypes
    <3> QED BY <1>14, <3>2 DEF TokenWrite
  <2>2. table' \in [Session -> SessionItem]
    <3>1. CASE s \in Session
      <4>1. WithAccessToken(table[s], s, t, call.at + AccessTokenTtl) \in SessionItem
        BY <3>1, ItemTypes, TimesAreNatural DEF TokenCallState
      <4> QED BY <1>14, <4>1 DEF TokenWrite
    <3>2. CASE s \notin Session
      BY <1>14, <3>2 DEF TokenWrite
    <3> QED BY <3>1, <3>2
  <2> QED BY <1>14, <2>1, <2>2 DEF TokenWrite
<1>15. ASSUME NEW t \in Token, TokenLost(t) PROVE TypeOK'
  BY <1>15, TokenCallTypes DEF TokenLost
<1>16. ASSUME NEW d \in DeleteCall, DeleteWrite(d) PROVE TypeOK'
  <2>1. deleteCall' \in [DeleteCall -> DeleteCallState]
    BY <1>16, DeleteCallTypes DEF DeleteWrite
  <2>2. table' \in [Session -> SessionItem]
    BY <1>16, ItemTypes DEF DeleteWrite
  <2> QED BY <1>16, <2>1, <2>2 DEF DeleteWrite
<1>17. ASSUME NEW d \in DeleteCall, DeleteLost(d) PROVE TypeOK'
  BY <1>17, DeleteCallTypes DEF DeleteLost
<1>18. CASE Tick
  BY <1>18, TimesAreNatural DEF Tick
<1>19. CASE Finished \/ UNCHANGED vars
  BY <1>19 DEF Finished
<1> QED
  BY <1>1, <1>2, <1>3, <1>4, <1>5, <1>6, <1>7, <1>8, <1>9, <1>10, <1>11,
     <1>12, <1>13, <1>14, <1>15, <1>16, <1>17, <1>18, <1>19
  DEF Next, CodeStep, TokenStep, DeleteStep

\* In every state the program reaches, the table, its copies and the requests
\* in flight hold the kinds of values their types declare.
THEOREM TypeCorrect == Spec => []TypeOK
<1>1. Init => TypeOK
  BY TimesAreNatural, SomeAttempt, ItemTypes
  DEF Init, TypeOK, CodeCallState, TokenCallState, DeleteCallState
<1> QED BY <1>1, TypeStep, PTL DEF Spec

-----------------------------------------------------------------------------
(* What the common endings of a request leave alone.                       *)

LEMMA CodeCallKept ==
    ASSUME NEW call \in CodeCallState
    PROVE  /\ \A r : LET e == Ended(call, r)
                   IN  /\ e.pc = "done" /\ e.took = call.took
                       /\ e.session = call.session /\ e.at = call.at
           /\ LET e == Unanswered(call, CreateAttempts)
              IN  /\ e.pc \in {call.pc, "done"} /\ e.took = call.took
                  /\ e.session = call.session /\ e.at = call.at
           /\ \A b \in BOOLEAN : LET e == [call EXCEPT !.took = b]
                               IN  /\ e.pc = call.pc /\ e.took = b
                                   /\ e.session = call.session /\ e.at = call.at
  BY DEF CodeCallState, Ended, Unanswered

LEMMA TokenCallKept ==
    ASSUME NEW call \in TokenCallState
    PROVE  /\ \A r : LET e == Ended(call, r)
                   IN  /\ e.pc = "done" /\ e.took = call.took
                       /\ e.code = call.code
                       /\ e.session = call.session /\ e.at = call.at
           /\ LET e == Unanswered(call, RedeemAttempts)
              IN  /\ e.pc \in {call.pc, "done"} /\ e.took = call.took
                  /\ e.code = call.code
                  /\ e.session = call.session /\ e.at = call.at
           /\ \A b \in BOOLEAN : LET e == [call EXCEPT !.took = b]
                               IN  /\ e.pc = call.pc /\ e.took = b
                                   /\ e.code = call.code
                                   /\ e.session = call.session /\ e.at = call.at
  BY DEF TokenCallState, Ended, Unanswered

-----------------------------------------------------------------------------
(* RedeemedInTime: TimeInv is inductive.                                   *)

\* Steps that leave the requests for codes and tokens as they are, and write
\* to the table at most an item without a code.
LEMMA QuietStep ==
    ASSUME TimeInv, TypeOK', clock <= clock',
           UNCHANGED <<codeCall, tokenCall>>,
           \A s \in Session :
               table'[s] = table[s] \/ table'[s].authorizationCode = None,
           \A s \in Session :
               replica'[s] = replica[s] \/ replica'[s] = table[s],
           \A c \in handed' \ handed : codeCall[c].took
    PROVE  TimeInv'
<1> USE DEF TimeInv
<1>1. FileInv'
  BY DEF FileInv
<1>2. SeenInv'
  BY DEF SeenInv, FileInv
<1>3. CallInv'
  <2>1. \A c \in Code : codeCall[c].at <= clock /\ codeCall[c].at \in Int
    BY DEF CallInv, TypeOK, CodeCallState
  <2>2. clock \in Int /\ clock' \in Int
    BY DEF TypeOK
  <2>3. \A c \in Code : codeCall'[c].at <= clock'
    BY <2>1, <2>2
  <2> QED BY <2>3 DEF CallInv
<1>4. RedeemedInTime'
  BY DEF RedeemedInTime
<1> QED BY <1>1, <1>2, <1>3, <1>4

\* Steps of one request for a token that do not reach the table.
LEMMA TokenProgress ==
    ASSUME TimeInv, TypeOK', NEW t \in Token,
           UNCHANGED <<clock, table, replica, handed, codeCall>>,
           NEW call,
           tokenCall' = [tokenCall EXCEPT ![t] = call],
           call.took <=> tokenCall[t].took,
           call.took => /\ call.code = tokenCall[t].code
                        /\ call.session = tokenCall[t].session
                        /\ call.at = tokenCall[t].at,
           call.pc \in {"idle", "read", "verify"} => ~call.took,
           call.pc \in {"read", "verify", "sent"} =>
               /\ call.session \in Session
               /\ call.code \in Code /\ codeCall[call.code].took,
           call.pc = "sent" => codeCall[call.code].at <= call.at
    PROVE  TimeInv'
<1> USE DEF TimeInv
<1>1. tokenCall'[t] = call /\ \A u \in Token \ {t} : tokenCall'[u] = tokenCall[u]
  BY DEF TypeOK
<1>2. FileInv' /\ SeenInv'
  BY DEF FileInv, SeenInv
<1>3. CallInv'
  BY <1>1 DEF CallInv
<1>4. RedeemedInTime'
  BY <1>1 DEF RedeemedInTime
<1> QED BY <1>2, <1>3, <1>4

\* Steps of one request for a code: once its code is in the table, neither
\* its session nor its time changes.
LEMMA CodeProgress ==
    ASSUME TimeInv, TypeOK', NEW c \in Code,
           UNCHANGED <<clock, replica, handed, tokenCall>>,
           NEW call,
           codeCall' = [codeCall EXCEPT ![c] = call],
           codeCall[c].took => /\ call.took
                               /\ call.session = codeCall[c].session
                               /\ call.at = codeCall[c].at,
           call.pc = "idle" => ~call.took,
           call.at <= clock,
           \A s \in Session : \/ table'[s] = table[s]
                              \/ /\ table'[s].authorizationCode = c
                                 /\ table'[s].authorizationCodeExpiryDate
                                      = call.at + AuthCodeTtl
                                 /\ call.session = s
                                 /\ call.took
    PROVE  TimeInv'
<1> USE DEF TimeInv
<1>1. codeCall'[c] = call /\ \A d \in Code \ {c} : codeCall'[d] = codeCall[d]
  BY DEF TypeOK
<1>2. \A d \in Code : codeCall[d].took =>
        /\ codeCall'[d].took
        /\ codeCall'[d].session = codeCall[d].session
        /\ codeCall'[d].at = codeCall[d].at
  BY <1>1
<1>3. FileInv'
  <2> SUFFICES ASSUME NEW s \in Session, table'[s].authorizationCode # None
      PROVE  /\ codeCall'[table'[s].authorizationCode].took
             /\ codeCall'[table'[s].authorizationCode].session = s
             /\ table'[s].authorizationCodeExpiryDate
                  = codeCall'[table'[s].authorizationCode].at + AuthCodeTtl
    BY DEF FileInv
  <2>1. CASE table'[s] = table[s]
    <3>1. table[s].authorizationCode \in Code
      BY <2>1 DEF TypeOK, SessionItem
    <3> QED BY <1>2, <2>1, <3>1 DEF FileInv
  <2>2. CASE table'[s] # table[s]
    BY <1>1, <2>2
  <2> QED BY <2>1, <2>2
<1>4. SeenInv'
  <2>1. \A s \in Session : replica[s].authorizationCode # None =>
                              replica[s].authorizationCode \in Code
    BY DEF TypeOK, SessionItem
  <2> QED BY <1>2, <2>1 DEF SeenInv, TypeOK
<1>5. CallInv'
  BY <1>1, <1>2 DEF CallInv
<1>6. RedeemedInTime'
  <2>1. \A t \in Token : tokenCall[t].took => tokenCall[t].code \in Code
    BY DEF CallInv
  <2> QED BY <1>2, <2>1 DEF RedeemedInTime
<1> QED BY <1>3, <1>4, <1>5, <1>6

LEMMA TimeStep == TimeInv /\ TypeOK' /\ [Next]_vars => TimeInv'
<1> SUFFICES ASSUME TimeInv, TypeOK', [Next]_vars PROVE TimeInv'
    OBVIOUS
<1>0. TypeOK
  BY DEF TimeInv
<1>a. clock \in Int /\ \A c \in Code : codeCall[c] \in CodeCallState
  BY <1>0 DEF TypeOK
<1>b. \A t \in Token : tokenCall[t] \in TokenCallState
  BY <1>0 DEF TypeOK
<1>1. ASSUME NEW s \in Session,
             CreateSession(s) \/ Replicate(s) \/ UpdateIndex(s) \/ Sweep(s)
      PROVE  TimeInv'
  <2>1. /\ clock <= clock' /\ handed' = handed
        /\ UNCHANGED <<codeCall, tokenCall>>
    BY <1>1, <1>a DEF CreateSession, Replicate, UpdateIndex, Sweep
  <2>2. \A r \in Session :
          table'[r] = table[r] \/ table'[r].authorizationCode = None
    <3>1. /\ NoItem.authorizationCode = None
          /\ \A e : NewSessionItem(s, e).authorizationCode = None
      BY DEF NewSessionItem, NoItem
    <3> QED BY <1>1, <1>0, <3>1
            DEF CreateSession, Replicate, UpdateIndex, Sweep, TypeOK
  <2>3. \A r \in Session : replica'[r] = replica[r] \/ replica'[r] = table[r]
    BY <1>1, <1>0 DEF CreateSession, Replicate, UpdateIndex, Sweep, TypeOK
  <2> QED BY <2>1, <2>2, <2>3, QuietStep
<1>2. ASSUME NEW s \in Session, Authorize(s) PROVE TimeInv'
  <2>1. PICK item \in MayRead(s) :
          /\ item.authorizationCode # None
          /\ handed' = handed \cup {item.authorizationCode}
    BY <1>2 DEF Authorize, AttributeExists
  <2>2. codeCall[item.authorizationCode].took
    BY <2>1 DEF MayRead, TimeInv, FileInv, SeenInv
  <2> QED BY <1>2, <1>a, <2>1, <2>2, QuietStep DEF Authorize
<1>3. ASSUME NEW d \in DeleteCall,
             (\E s \in Session : DeleteSend(d, s)) \/ DeleteLost(d)
      PROVE  TimeInv'
  <2>1. UNCHANGED <<clock, table, replica, handed, codeCall, tokenCall>>
    BY <1>3 DEF DeleteSend, DeleteLost
  <2> QED BY <2>1, <1>a, QuietStep
<1>4. ASSUME NEW d \in DeleteCall, DeleteWrite(d) PROVE TimeInv'
  <2>1. \A r \in Session :
          table'[r] = table[r] \/ table'[r].authorizationCode = None
    BY <1>4, <1>0 DEF DeleteWrite, TypeOK, NoItem
  <2> QED BY <1>4, <1>a, <2>1, QuietStep DEF DeleteWrite
<1>5. CASE Tick
  BY <1>5, <1>a, QuietStep DEF Tick
<1>6. CASE Finished \/ UNCHANGED vars
  BY <1>6, <1>a, QuietStep DEF Finished
<1>7. ASSUME NEW c \in Code, NEW s \in Session, CreateAuthCodeSend(c, s)
      PROVE  TimeInv'
  <2> DEFINE call == [codeCall[c] EXCEPT !.pc = "sent", !.session = s, !.at = clock]
  <2>1. ~codeCall[c].took
    BY <1>7 DEF CreateAuthCodeSend, TimeInv, CallInv
  <2>2. /\ codeCall' = [codeCall EXCEPT ![c] = call]
        /\ UNCHANGED <<clock, table, replica, handed, tokenCall>>
    BY <1>7 DEF CreateAuthCodeSend
  <2>3. call.pc = "sent" /\ call.at <= clock
    BY <1>a DEF CodeCallState
  <2> HIDE DEF call
  <2> QED BY <2>1, <2>2, <2>3, CodeProgress
<1>8. ASSUME NEW c \in Code, CreateAuthCodeWrite(c) PROVE TimeInv'
  <2> DEFINE s == codeCall[c].session
             took == CreateAuthCodeCondition(table[s], codeCall[c].at)
             stored == codeCall[c].took \/ took
             served == [codeCall[c] EXCEPT !.took = stored]
             call == codeCall'[c]
  <2>1. /\ served \in CodeCallState
        /\ served.pc = "sent"
        /\ served.took = stored
        /\ served.session = s /\ served.at = codeCall[c].at
    <3>1. stored \in BOOLEAN
      OBVIOUS
    <3>2. codeCall[c].pc = "sent"
      BY <1>8 DEF CreateAuthCodeWrite
    <3> HIDE DEF stored
    <3>3. codeCall[c] \in CodeCallState
      BY <1>a
    <3>4. served \in CodeCallState
      BY <3>1, <3>3, CodeCallTypes
    <3> QED BY <3>1, <3>2, <3>3, <3>4 DEF CodeCallState
  <2>2. /\ codeCall' = [codeCall EXCEPT ![c] = call]
        /\ \/ \E r : call = Ended(served, r)
           \/ call = Unanswered(served, CreateAttempts)
    BY <1>8, <1>0 DEF TypeOK, CreateAuthCodeWrite
  <2>3. /\ call.took = stored
        /\ call.session = s /\ call.at = codeCall[c].at
        /\ call.pc # "idle"
    <3> HIDE DEF stored, served, s, call
    <3> QED BY <2>1, <2>2, CodeCallKept
  <2>a. codeCall[c].took \/ took => call.took
    BY <2>3
  <2>4. \A r \in Session : \/ table'[r] = table[r]
                           \/ /\ table'[r].authorizationCode = c
                              /\ table'[r].authorizationCodeExpiryDate
                                   = codeCall[c].at + AuthCodeTtl
                              /\ s = r
                              /\ took
    <3>1. \A r \in Session : table[r] \in SessionItem
      BY <1>0 DEF TypeOK
    <3> QED BY <1>8, <1>0, <3>1
            DEF CreateAuthCodeWrite, WithAuthCode, SessionItem, TypeOK
  <2>5. UNCHANGED <<clock, replica, handed, tokenCall>>
    BY <1>8 DEF CreateAuthCodeWrite
  <2>6. call.at <= clock
    BY <2>3 DEF TimeInv, CallInv
  <2>7. call.session = codeCall[c].session
    BY <2>3
  <2>8. \A r \in Session : \/ table'[r] = table[r]
                           \/ /\ table'[r].authorizationCode = c
                              /\ table'[r].authorizationCodeExpiryDate
                                   = call.at + AuthCodeTtl
                              /\ call.session = r
                              /\ call.took
    BY <2>3, <2>a, <2>4
  <2> HIDE DEF s, took, stored, served, call
  <2> QED BY <2>2, <2>3, <2>a, <2>5, <2>6, <2>7, <2>8, CodeProgress
<1>9. ASSUME NEW c \in Code, CreateAuthCodeLost(c) PROVE TimeInv'
  <2> DEFINE call == codeCall'[c]
  <2>1. /\ codeCall' = [codeCall EXCEPT ![c] = call]
        /\ call.took = codeCall[c].took
        /\ call.session = codeCall[c].session /\ call.at = codeCall[c].at
        /\ call.pc # "idle"
    BY <1>9, <1>0, <1>a DEF TypeOK, CreateAuthCodeLost, CodeCallState, Ended, Unanswered
  <2>2. call.at <= clock
    BY <2>1 DEF TimeInv, CallInv
  <2>3. UNCHANGED <<clock, table, replica, handed, tokenCall>>
    BY <1>9 DEF CreateAuthCodeLost
  <2> HIDE DEF call
  <2> QED BY <2>1, <2>2, <2>3, CodeProgress
<1>10. ASSUME NEW t \in Token, NEW c \in Code, TokenQuery(t, c) PROVE TimeInv'
  <2> DEFINE call == tokenCall'[t]
             asked == [tokenCall[t] EXCEPT !.code = c]
  <2>1. ~tokenCall[t].took /\ codeCall[c].took
    BY <1>10 DEF TokenQuery, TimeInv, CallInv, SeenInv
  <2>2. /\ asked \in TokenCallState
        /\ asked.code = c
        /\ asked.took = tokenCall[t].took
    <3>1. tokenCall[t] \in TokenCallState
      BY <1>b
    <3> QED BY <3>1, TokenCallTypes DEF TokenCallState
  <2>3. \/ \E s \in Session : tokenCall' = [tokenCall EXCEPT
                ![t].pc = "read", ![t].session = s, ![t].code = c]
       \/ tokenCall' = [tokenCall EXCEPT ![t] = Ended(asked, "InvalidAccessToken")]
    BY <1>10 DEF TokenQuery
  <2>4. tokenCall' = [tokenCall EXCEPT ![t] = call]
    BY <2>3, <1>0 DEF TypeOK
  <2>6. /\ call.took = tokenCall[t].took
        /\ call.code = c
        /\ \/ call.pc = "read" /\ call.session \in Session
           \/ call.pc = "done"
    <3>1. CASE call = Ended(asked, "InvalidAccessToken")
      <4> HIDE DEF call, asked
      <4> QED BY <3>1, <2>2, TokenCallKept
    <3>2. ASSUME NEW s \in Session,
                 call = [tokenCall[t] EXCEPT !.pc = "read", !.session = s, !.code = c]
          PROVE  /\ call.took = tokenCall[t].took
                 /\ call.code = c
                 /\ call.pc = "read" /\ call.session \in Session
      <4> HIDE DEF call
      <4> QED BY <3>2, <1>b DEF TokenCallState
    <3> QED BY <2>3, <1>0, <3>1, <3>2 DEF TypeOK
  <2>5. UNCHANGED <<clock, table, replica, handed, codeCall>>
    BY <1>10 DEF TokenQuery
  <2> HIDE DEF call
  <2> QED BY <2>1, <2>4, <2>5, <2>6, TokenProgress
<1>11. ASSUME NEW t \in Token, TokenReadSession(t) \/ TokenFail(t)
       PROVE  TimeInv'
  <2> DEFINE call == tokenCall'[t]
  <2>1. /\ ~tokenCall[t].took
        /\ tokenCall[t].session \in Session
        /\ tokenCall[t].code \in Code /\ codeCall[tokenCall[t].code].took
    BY <1>11 DEF TokenReadSession, TokenFail, TimeInv, CallInv
  <2>2. /\ tokenCall' = [tokenCall EXCEPT ![t] = call]
        /\ \/ call = [tokenCall[t] EXCEPT !.pc = "verify"]
           \/ \E r : call = Ended(tokenCall[t], r)
    BY <1>11, <1>0 DEF TypeOK, TokenReadSession, TokenFail
  <2>3. /\ call.took = tokenCall[t].took
        /\ call.code = tokenCall[t].code /\ call.session = tokenCall[t].session
        /\ call.pc \in {"verify", "done"}
    BY <2>2, <1>b, TokenCallKept DEF TokenCallState
  <2>4. UNCHANGED <<clock, table, replica, handed, codeCall>>
    BY <1>11 DEF TokenReadSession, TokenFail
  <2> HIDE DEF call
  <2> QED BY <2>1, <2>2, <2>3, <2>4, TokenProgress
<1>12. ASSUME NEW t \in Token, TokenVerify(t) PROVE TimeInv'
  <2> DEFINE call == tokenCall'[t]
  <2>1. /\ ~tokenCall[t].took
        /\ tokenCall[t].session \in Session
        /\ tokenCall[t].code \in Code /\ codeCall[tokenCall[t].code].took
        /\ codeCall[tokenCall[t].code].at <= clock
    BY <1>12 DEF TokenVerify, TimeInv, CallInv
  <2>2. /\ tokenCall' = [tokenCall EXCEPT ![t] = call]
        /\ \/ call = [tokenCall[t] EXCEPT !.pc = "sent", !.at = clock]
           \/ call = Ended(tokenCall[t], "unverified")
    BY <1>12, <1>0 DEF TypeOK, TokenVerify
  <2>3. /\ call.took = tokenCall[t].took
        /\ call.code = tokenCall[t].code /\ call.session = tokenCall[t].session
        /\ call.pc = "done" \/ (call.pc = "sent" /\ call.at = clock)
    <3> HIDE DEF call
    <3>1. CASE call = [tokenCall[t] EXCEPT !.pc = "sent", !.at = clock]
      BY <3>1, <1>b DEF TokenCallState
    <3>2. CASE call = Ended(tokenCall[t], "unverified")
      BY <3>2, <1>b, TokenCallKept
    <3> QED BY <2>2, <3>1, <3>2
  <2>4. UNCHANGED <<clock, table, replica, handed, codeCall>>
    BY <1>12 DEF TokenVerify
  <2> HIDE DEF call
  <2> QED BY <2>1, <2>2, <2>3, <2>4, TokenProgress
<1>13. ASSUME NEW t \in Token, TokenLost(t) PROVE TimeInv'
  <2> DEFINE call == tokenCall'[t]
  <2>1. /\ tokenCall' = [tokenCall EXCEPT ![t] = call]
        /\ call.took <=> tokenCall[t].took
        /\ call.code = tokenCall[t].code
        /\ call.session = tokenCall[t].session /\ call.at = tokenCall[t].at
        /\ call.pc \in {"sent", "done"}
    BY <1>13, <1>0, <1>b DEF TypeOK, TokenLost, TokenCallState, Ended, Unanswered
  <2>2. tokenCall[t].pc = "sent"
    BY <1>13 DEF TokenLost
  <2>3. UNCHANGED <<clock, table, replica, handed, codeCall>>
    BY <1>13 DEF TokenLost
  <2> HIDE DEF call
  <2> QED BY <2>1, <2>2, <2>3, TokenProgress DEF TimeInv, CallInv
<1>14. ASSUME NEW t \in Token, TokenWrite(t) PROVE TimeInv'
  <2> DEFINE c == tokenCall[t].code
             s == tokenCall[t].session
             took == RedeemCondition(table[s], c, tokenCall[t].at)
             stored == tokenCall[t].took \/ took
             served == [tokenCall[t] EXCEPT !.took = stored]
             call == tokenCall'[t]
  <2>1. /\ served \in TokenCallState
        /\ served.pc = "sent"
        /\ served.took = stored
        /\ served.code = c
        /\ served.session = s /\ served.at = tokenCall[t].at
    <3>1. stored \in BOOLEAN
      OBVIOUS
    <3>2. tokenCall[t].pc = "sent"
      BY <1>14 DEF TokenWrite
    <3> HIDE DEF stored
    <3>3. tokenCall[t] \in TokenCallState
      BY <1>b
    <3>4. served \in TokenCallState
      BY <3>1, <3>3, TokenCallTypes
    <3> QED BY <3>1, <3>2, <3>3, <3>4 DEF TokenCallState
  <2>2. /\ tokenCall' = [tokenCall EXCEPT ![t] = call]
        /\ \/ \E r : call = Ended(served, r)
           \/ call = Unanswered(served, RedeemAttempts)
    BY <1>14, <1>0 DEF TypeOK, TokenWrite
  <2>3. /\ call.took = stored
        /\ call.code = c
        /\ call.session = s /\ call.at = tokenCall[t].at
        /\ call.pc \in {"sent", "done"}
    <3> HIDE DEF stored, served, c, s, call
    <3> QED BY <2>1, <2>2, TokenCallKept
  <2>a. call.took <=> tokenCall[t].took \/ took
    BY <2>3
  <2>4. \A r \in Session : \/ table'[r] = table[r]
                           \/ table'[r].authorizationCode = None
    <3>1. \A r \in Session : table[r] \in SessionItem
      BY <1>0 DEF TypeOK
    <3> QED BY <1>14, <1>0, <3>1
            DEF TokenWrite, WithAccessToken, SessionItem, TypeOK
  <2>5. UNCHANGED <<clock, replica, handed, codeCall>>
    BY <1>14 DEF TokenWrite
  <2>6. /\ c \in Code /\ codeCall[c].took
        /\ codeCall[c].at <= tokenCall[t].at
    BY <1>14 DEF TokenWrite, TimeInv, CallInv
  <2>7. took /\ s \in Session =>
          /\ codeCall[c].session = s
          /\ tokenCall[t].at < codeCall[c].at + AuthCodeTtl
    BY DEF RedeemCondition, AttributeExists, TimeInv, FileInv
  <2>8. s \in Session
    BY <1>14 DEF TokenWrite, TimeInv, CallInv
  <2>9. tokenCall'[t] = call /\ \A u \in Token \ {t} : tokenCall'[u] = tokenCall[u]
    BY <2>2, <1>0 DEF TypeOK
  <2>10. tokenCall[t].took => /\ call.session = tokenCall[t].session
                              /\ call.code = tokenCall[t].code
                              /\ call.at = tokenCall[t].at
    BY <2>3
  <2>11. tokenCall[t] \in TokenCallState
    BY <1>b
  <2> HIDE DEF c, s, took, stored, served, call
  <2>12. FileInv'
    BY <2>4, <2>5 DEF TimeInv, FileInv
  <2>13. SeenInv'
    BY <2>5 DEF TimeInv, SeenInv
  <2>14. CallInv'
    BY <2>3, <2>5, <2>6, <2>8, <2>9 DEF TimeInv, CallInv
  <2>15. RedeemedInTime'
    <3> SUFFICES ASSUME NEW u \in Token, tokenCall'[u].took
        PROVE  /\ codeCall[tokenCall'[u].code].took
               /\ tokenCall'[u].session = codeCall[tokenCall'[u].code].session
               /\ codeCall[tokenCall'[u].code].at <= tokenCall'[u].at
               /\ tokenCall'[u].at < codeCall[tokenCall'[u].code].at + AuthCodeTtl
      BY <2>5 DEF RedeemedInTime
    <3>1. CASE u # t
      BY <3>1, <2>9 DEF TimeInv, RedeemedInTime
    <3>2. CASE u = t /\ took
      BY <3>2, <2>3, <2>6, <2>7, <2>8, <2>9
    <3>3. CASE u = t /\ tokenCall[t].took
      BY <3>3, <2>9, <2>10 DEF TimeInv, RedeemedInTime
    <3> QED BY <2>a, <2>9, <3>1, <3>2, <3>3
  <2> QED BY <2>12, <2>13, <2>14, <2>15 DEF TimeInv
<1> QED
  BY <1>1, <1>2, <1>3, <1>4, <1>5, <1>6, <1>7, <1>8, <1>9, <1>10, <1>11,
     <1>12, <1>13, <1>14
  DEF Next, CodeStep, TokenStep, DeleteStep

LEMMA TimeInit == Init => TimeInv
<1> SUFFICES ASSUME Init PROVE TimeInv
    OBVIOUS
<1>1. TypeOK
  BY TimesAreNatural, SomeAttempt, ItemTypes
  DEF Init, TypeOK, CodeCallState, TokenCallState, DeleteCallState
<1>2. FileInv /\ SeenInv /\ CallInv /\ RedeemedInTime
  BY DEF Init, NoItem, FileInv, SeenInv, CallInv, RedeemedInTime
<1> QED BY <1>1, <1>2 DEF TimeInv

\* For any number of retries of any command, what a code is filed with is what
\* the request that drew it was built with, and no stale read or late attempt
\* gets past it: the invariant that TokensAreBoughtInTime rests on.
THEOREM CodesAreFiledAsCreated == Spec => []TimeInv
<1>1. TimeInv /\ [Next]_vars => TimeInv'
  BY TypeStep, TimeStep DEF TimeInv
<1> QED BY TimeInit, <1>1, PTL DEF Spec

\* Every token the service stores was bought in time with a code of the
\* session it is stored in, for any number of retries of any command.
THEOREM TokensAreBoughtInTime == Spec => []RedeemedInTime
<1>1. TimeInv => RedeemedInTime
  BY DEF TimeInv
<1> QED BY <1>1, CodesAreFiledAsCreated, PTL

-----------------------------------------------------------------------------
(* ErasedForGood: neither condition holds on a missing item.               *)

LEMMA NothingToUpdate ==
    /\ \A now : ~CreateAuthCodeCondition(NoItem, now)
    /\ \A c, now : ~RedeemCondition(NoItem, c, now)
  BY DEF NoItem, CreateAuthCodeCondition, RedeemCondition, Earlier,
         AttributeExists

\* No interleaving of requests, retries and sweeps brings back a session that
\* was deleted or swept.
THEOREM ErasedStaysErased == Spec => ErasedForGood
<1> DEFINE Erased == \A s \in born : table[s] = NoItem => table'[s] = NoItem
<1>1. TypeOK /\ [Next]_vars => Erased
  <2> SUFFICES ASSUME TypeOK, [Next]_vars, NEW s \in born, table[s] = NoItem
      PROVE  table'[s] = NoItem
    OBVIOUS
  <2> USE DEF TypeOK
  <2>1. ASSUME NEW r \in Session, CreateSession(r) PROVE table'[s] = NoItem
    BY <2>1 DEF CreateSession
  <2>2. ASSUME NEW r \in Session, Sweep(r) PROVE table'[s] = NoItem
    BY <2>2 DEF Sweep
  <2>3. ASSUME NEW c \in Code, CreateAuthCodeWrite(c) PROVE table'[s] = NoItem
    BY <2>3, NothingToUpdate DEF CreateAuthCodeWrite
  <2>4. ASSUME NEW t \in Token, TokenWrite(t) PROVE table'[s] = NoItem
    BY <2>4, NothingToUpdate DEF TokenWrite
  <2>5. ASSUME NEW d \in DeleteCall, DeleteWrite(d) PROVE table'[s] = NoItem
    BY <2>5 DEF DeleteWrite
  <2>6. CASE UNCHANGED table
    BY <2>6
  <2> QED
    BY <2>1, <2>2, <2>3, <2>4, <2>5, <2>6
    DEF Next, CodeStep, TokenStep, DeleteStep, Authorize, Replicate,
        UpdateIndex, CreateAuthCodeSend, DeleteSend, CreateAuthCodeLost,
        TokenQuery, TokenReadSession, TokenVerify, TokenFail, TokenLost,
        DeleteLost, Tick, Finished
<1> QED BY <1>1, TypeCorrect, PTL DEF Spec, ErasedForGood

-----------------------------------------------------------------------------
(* CodeRedeemedOnce, for a create command that is sent once.               *)

\* Steps that store no token: the codes in the table stay as they were, go,
\* or are written by a request that had not written its code before.
LEMMA NothingRedeemed ==
    ASSUME TimeInv, TypeOK', OnceInv,
           \A t \in Token, c \in Code : Redeemed(t, c)' => Redeemed(t, c),
           \A c \in Code : codeCall'[c].pc = "sent" => ~codeCall'[c].took,
           \A s \in Session :
               \/ table'[s].authorizationCode = table[s].authorizationCode
               \/ table'[s].authorizationCode = None
               \/ ~codeCall[table'[s].authorizationCode].took
    PROVE  OnceInv'
<1>1. \A s \in Session : table'[s].authorizationCode # None =>
                            table'[s].authorizationCode \in Code
  BY DEF TypeOK, SessionItem
<1>2. \A t \in Token, c \in Code : Redeemed(t, c) => codeCall[c].took
  BY DEF TimeInv, RedeemedInTime, Redeemed
<1>3. ASSUME NEW s \in Session, NEW t \in Token,
             table'[s].authorizationCode # None
      PROVE  ~(/\ tokenCall'[t].took
               /\ tokenCall'[t].code = table'[s].authorizationCode)
  BY <1>1, <1>2, <1>3 DEF OnceInv, Redeemed
<1>4. CodeRedeemedOnce'
  BY DEF OnceInv, CodeRedeemedOnce
<1> QED BY <1>3, <1>4 DEF OnceInv, Redeemed

\* A request whose command is sent once is answered by its first attempt.
LEMMA OneAttempt ==
    ASSUME CreateAttempts = 1, NEW call \in CodeCallState
    PROVE  Unanswered(call, CreateAttempts) = Ended(call, "500")
  BY DEF CodeCallState, Unanswered

LEMMA OnceStep ==
    ASSUME CreateAttempts = 1, TimeInv, TypeOK', OnceInv, [Next]_vars
    PROVE  OnceInv'
<1>0. TypeOK
  BY DEF TimeInv
<1>a. \A c \in Code : codeCall[c] \in CodeCallState
  BY <1>0 DEF TypeOK
<1>b. \A t \in Token : tokenCall[t] \in TokenCallState
  BY <1>0 DEF TypeOK
<1>c. \A s \in Session : table[s] \in SessionItem
  BY <1>0 DEF TypeOK
<1>1. ASSUME UNCHANGED <<codeCall, tokenCall>>,
             \A s \in Session : \/ table'[s] = table[s]
                                \/ table'[s].authorizationCode = None
      PROVE  OnceInv'
  BY <1>1, NothingRedeemed DEF OnceInv, Redeemed
<1>2. ASSUME NEW s \in Session, CreateSession(s) \/ Sweep(s) PROVE OnceInv'
  <2>1. \A r \in Session :
          table'[r] = table[r] \/ table'[r].authorizationCode = None
    <3>1. /\ NoItem.authorizationCode = None
          /\ \A e : NewSessionItem(s, e).authorizationCode = None
      BY DEF NewSessionItem, NoItem
    <3> QED BY <1>2, <1>0, <3>1 DEF CreateSession, Sweep, TypeOK
  <2> QED BY <1>1, <1>2, <2>1 DEF CreateSession, Sweep
<1>3. ASSUME NEW d \in DeleteCall, DeleteWrite(d) PROVE OnceInv'
  <2>1. \A r \in Session :
          table'[r] = table[r] \/ table'[r].authorizationCode = None
    BY <1>3, <1>0 DEF DeleteWrite, TypeOK, NoItem
  <2> QED BY <1>1, <1>3, <2>1 DEF DeleteWrite
<1>4. ASSUME NEW c \in Code,
             \/ \E s \in Session : CreateAuthCodeSend(c, s)
             \/ CreateAuthCodeWrite(c)
             \/ CreateAuthCodeLost(c)
      PROVE  OnceInv'
  <2>1. UNCHANGED tokenCall
    BY <1>4 DEF CreateAuthCodeSend, CreateAuthCodeWrite, CreateAuthCodeLost
  <2>2. ~codeCall[c].took
    BY <1>4 DEF CreateAuthCodeSend, CreateAuthCodeWrite, CreateAuthCodeLost,
                OnceInv, TimeInv, CallInv
  <2>3. \A e \in Code : codeCall'[e].pc = "sent" => ~codeCall'[e].took
    <3>1. ASSUME NEW s \in Session, CreateAuthCodeSend(c, s)
          PROVE  \A e \in Code : codeCall'[e].took = codeCall[e].took
      BY <3>1, <1>0, <1>a DEF CreateAuthCodeSend, TypeOK, CodeCallState
    <3>2. CASE CreateAuthCodeWrite(c)
      <4> DEFINE took == CreateAuthCodeCondition(
                           table[codeCall[c].session], codeCall[c].at)
                 stored == codeCall[c].took \/ took
                 served == [codeCall[c] EXCEPT !.took = stored]
      <4>1. served \in CodeCallState
        <5>1. stored \in BOOLEAN
          OBVIOUS
        <5>2. codeCall[c] \in CodeCallState
          BY <1>a
        <5> HIDE DEF stored
        <5> QED BY <5>1, <5>2, CodeCallTypes
      <4>2. \E r : codeCall' = [codeCall EXCEPT ![c] = Ended(served, r)]
        BY <3>2, <4>1, OneAttempt DEF CreateAuthCodeWrite
      <4>3. \A r : Ended(served, r).pc = "done"
        <5> HIDE DEF served
        <5> QED BY <4>1, CodeCallKept
      <4> HIDE DEF served
      <4> QED BY <4>2, <4>3, <1>0 DEF OnceInv, TypeOK
    <3>3. CASE CreateAuthCodeLost(c)
      <4>1. codeCall' = [codeCall EXCEPT ![c] = Ended(codeCall[c], "500")]
        BY <3>3, <1>a, OneAttempt DEF CreateAuthCodeLost
      <4>2. Ended(codeCall[c], "500").pc = "done"
        BY <1>a, CodeCallKept
      <4> QED BY <4>1, <4>2, <1>0 DEF OnceInv, TypeOK
    <3>4. CASE \E s \in Session : CreateAuthCodeSend(c, s)
      <4>1. \A e \in Code \ {c} : codeCall'[e] = codeCall[e]
        BY <3>4, <1>0 DEF CreateAuthCodeSend, TypeOK
      <4> QED BY <3>1, <3>4, <4>1, <2>2 DEF OnceInv
    <3> QED BY <1>4, <3>2, <3>3, <3>4
  <2>4. \A s \in Session :
          \/ table'[s].authorizationCode = table[s].authorizationCode
          \/ table'[s].authorizationCode = c
    <3>1. CASE CreateAuthCodeWrite(c)
      <4>1. \A r, e : \A i \in SessionItem :
              WithAuthCode(i, r, c, e).authorizationCode = c
        BY DEF WithAuthCode, SessionItem
      <4> QED BY <3>1, <4>1, <1>0, <1>c DEF CreateAuthCodeWrite, TypeOK
    <3>2. CASE \/ CreateAuthCodeLost(c)
               \/ \E s \in Session : CreateAuthCodeSend(c, s)
      BY <3>2 DEF CreateAuthCodeSend, CreateAuthCodeLost
    <3> QED BY <1>4, <3>1, <3>2
  <2> QED BY <2>1, <2>2, <2>3, <2>4, NothingRedeemed DEF Redeemed
<1>5. ASSUME NEW t \in Token,
             \/ \E c \in Code : TokenQuery(t, c)
             \/ TokenReadSession(t) \/ TokenVerify(t) \/ TokenFail(t)
             \/ TokenLost(t)
      PROVE  OnceInv'
  <2>1. UNCHANGED <<table, codeCall>>
    BY <1>5 DEF TokenQuery, TokenReadSession, TokenVerify, TokenFail, TokenLost
  <2>2. \A u \in Token, c \in Code : Redeemed(u, c)' => Redeemed(u, c)
    <3>1. \A u \in Token \ {t} : tokenCall'[u] = tokenCall[u]
      BY <1>5, <1>0 DEF TokenQuery, TokenReadSession, TokenVerify, TokenFail,
                        TokenLost, TypeOK
    <3>2. CASE \/ \E c \in Code : TokenQuery(t, c)
               \/ TokenReadSession(t) \/ TokenVerify(t) \/ TokenFail(t)
      <4>1. ~tokenCall[t].took
        BY <3>2 DEF TokenQuery, TokenReadSession, TokenVerify, TokenFail,
                    TimeInv, CallInv
      <4>2. tokenCall'[t].took = tokenCall[t].took
        <5>1. tokenCall[t] \in TokenCallState
          BY <1>b
        <5>2. \A r : Ended(tokenCall[t], r).took = tokenCall[t].took
          BY <5>1, TokenCallKept
        <5>3. ASSUME NEW c \in Code, TokenQuery(t, c)
              PROVE  tokenCall'[t].took = tokenCall[t].took
          <6> DEFINE asked == [tokenCall[t] EXCEPT !.code = c]
          <6>1. asked \in TokenCallState /\ asked.took = tokenCall[t].took
            BY <5>1, TokenCallTypes DEF TokenCallState
          <6>2. \A r : Ended(asked, r).took = tokenCall[t].took
            <7> HIDE DEF asked
            <7> QED BY <6>1, TokenCallKept
          <6>3. \/ tokenCall'[t] = Ended(asked, "InvalidAccessToken")
                \/ \E s \in Session : tokenCall'[t] =
                     [tokenCall[t] EXCEPT !.pc = "read", !.session = s, !.code = c]
            BY <5>3, <1>0 DEF TokenQuery, TypeOK
          <6>4. ASSUME NEW s \in Session
                PROVE  [tokenCall[t] EXCEPT !.pc = "read", !.session = s,
                                            !.code = c].took = tokenCall[t].took
            BY <5>1 DEF TokenCallState
          <6> HIDE DEF asked
          <6> QED BY <6>2, <6>3, <6>4
        <5>4. CASE TokenReadSession(t) \/ TokenVerify(t) \/ TokenFail(t)
          BY <5>1, <5>2, <5>4, <1>0
          DEF TokenReadSession, TokenVerify, TokenFail, TypeOK, TokenCallState
        <5> QED BY <3>2, <5>3, <5>4
      <4> QED BY <3>1, <4>1, <4>2 DEF Redeemed
    <3>3. CASE TokenLost(t)
      <4>1. tokenCall'[t] = Unanswered(tokenCall[t], RedeemAttempts)
        BY <3>3, <1>0 DEF TokenLost, TypeOK
      <4>2. /\ tokenCall'[t].took = tokenCall[t].took
            /\ tokenCall'[t].code = tokenCall[t].code
        BY <4>1, <1>b, TokenCallKept
      <4> QED BY <3>1, <4>2 DEF Redeemed
    <3> QED BY <1>5, <3>2, <3>3
  <2> QED BY <2>1, <2>2, NothingRedeemed DEF OnceInv
<1>6. ASSUME NEW t \in Token, TokenWrite(t) PROVE OnceInv'
  <2> DEFINE c == tokenCall[t].code
             s == tokenCall[t].session
             took == RedeemCondition(table[s], c, tokenCall[t].at)
             stored == tokenCall[t].took \/ took
             served == [tokenCall[t] EXCEPT !.took = stored]
  <2>1. UNCHANGED codeCall /\ s \in Session /\ c \in Code
    BY <1>6 DEF TokenWrite, TimeInv, CallInv
  <2>2. /\ tokenCall'[t].took <=> tokenCall[t].took \/ took
        /\ tokenCall'[t].code = c
    <3>1. /\ served \in TokenCallState
          /\ served.took = stored /\ served.code = c
      <4>1. stored \in BOOLEAN
        OBVIOUS
      <4>2. tokenCall[t] \in TokenCallState
        BY <1>b
      <4> HIDE DEF stored
      <4>3. served \in TokenCallState
        BY <4>1, <4>2, TokenCallTypes
      <4> QED BY <4>1, <4>2, <4>3 DEF TokenCallState
    <3>2. \/ \E r : tokenCall'[t] = Ended(served, r)
          \/ tokenCall'[t] = Unanswered(served, RedeemAttempts)
      BY <1>6, <1>0 DEF TokenWrite, TypeOK
    <3>3. tokenCall'[t].took = stored /\ tokenCall'[t].code = c
      <4> HIDE DEF stored, served, c
      <4> QED BY <3>1, <3>2, TokenCallKept
    <3> QED BY <3>3
  <2>3. \A u \in Token \ {t} : tokenCall'[u] = tokenCall[u]
    BY <1>6, <1>0 DEF TokenWrite, TypeOK
  <2>4. CASE ~took
    <3>1. UNCHANGED table
      BY <1>6, <2>4 DEF TokenWrite
    <3>2. \A u \in Token, e \in Code : Redeemed(u, e)' => Redeemed(u, e)
      BY <2>2, <2>3, <2>4 DEF Redeemed
    <3> QED BY <2>1, <3>1, <3>2, NothingRedeemed DEF OnceInv
  <2>5. CASE took
    <3>1. /\ table[s].authorizationCode = c /\ c # None
          /\ codeCall[c].session = s
      BY <2>1, <2>5
      DEF RedeemCondition, AttributeExists, TimeInv, FileInv
    <3>2. table'[s].authorizationCode = None
      <4>1. \A r, e : \A i \in SessionItem :
              WithAccessToken(i, r, t, e).authorizationCode = None
        BY DEF WithAccessToken, SessionItem
      <4> QED BY <1>6, <2>1, <2>5, <4>1, <1>0, <1>c DEF TokenWrite, TypeOK
    <3>3. \A r \in Session \ {s} :
            table'[r] = table[r] /\ table[r].authorizationCode # c
      <4>1. \A r \in Session \ {s} : table'[r] = table[r]
        BY <1>6, <1>0 DEF TokenWrite, TypeOK
      <4>2. \A r \in Session \ {s} : table[r].authorizationCode # c
        BY <3>1 DEF TimeInv, FileInv
      <4> QED BY <4>1, <4>2
    <3>4. \A u \in Token : ~Redeemed(u, c)
      BY <2>1, <3>1 DEF OnceInv
    <3>5. \A u \in Token, e \in Code :
            Redeemed(u, e)' => Redeemed(u, e) \/ (u = t /\ e = c)
      <4> HIDE DEF c, took
      <4> QED BY <2>2, <2>3 DEF Redeemed
    <3> HIDE DEF c, s, took, stored, served
    <3>6. CodeRedeemedOnce'
      BY <3>4, <3>5 DEF OnceInv, CodeRedeemedOnce
    <3>7. ASSUME NEW r \in Session, NEW u \in Token,
                 table'[r].authorizationCode # None
          PROVE  ~(/\ tokenCall'[u].took
                   /\ tokenCall'[u].code = table'[r].authorizationCode)
      <4>1. r # s /\ table'[r] = table[r] /\ table[r].authorizationCode # c
        BY <3>2, <3>3, <3>7
      <4>2. table[r].authorizationCode \in Code
        BY <4>1, <3>7, <1>c DEF SessionItem
      <4> QED BY <4>1, <4>2, <3>5, <3>7 DEF OnceInv, Redeemed
    <3> QED BY <2>1, <3>6, <3>7 DEF OnceInv, Redeemed
  <2> QED BY <2>4, <2>5
<1>7. CASE \/ \E s \in Session : Authorize(s) \/ Replicate(s) \/ UpdateIndex(s)
           \/ \E d \in DeleteCall :
                DeleteLost(d) \/ \E s \in Session : DeleteSend(d, s)
           \/ Tick \/ Finished \/ UNCHANGED vars
  <2>1. UNCHANGED <<table, codeCall, tokenCall>>
    BY <1>7 DEF Authorize, Replicate, UpdateIndex, DeleteLost, DeleteSend,
                Tick, Finished
  <2> QED BY <2>1, <1>1
<1> QED
  BY <1>2, <1>3, <1>4, <1>5, <1>6, <1>7
  DEF Next, CodeStep, TokenStep, DeleteStep

\* With a create command that is sent once, no code that bought a token is in
\* the table or on its way there.
THEOREM SpentCodesStayOut ==
    ASSUME CreateAttempts = 1
    PROVE  Spec => []OnceInv
<1>1. Init => TimeInv /\ OnceInv
  BY TimeInit DEF Init, NoItem, OnceInv, Redeemed, CodeRedeemedOnce
<1>2. TimeInv /\ OnceInv /\ [Next]_vars => (TimeInv /\ OnceInv)'
  BY TypeStep, TimeStep, OnceStep DEF TimeInv
<1> QED BY <1>1, <1>2, PTL DEF Spec

\* Hence a code is exchanged for at most one token, however the redemptions
\* interleave and are retried.
THEOREM CodesAreRedeemedOnce ==
    ASSUME CreateAttempts = 1
    PROVE  Spec => []CodeRedeemedOnce
<1>1. OnceInv => CodeRedeemedOnce
  BY DEF OnceInv
<1> QED BY <1>1, SpentCodesStayOut, PTL
=============================================================================
