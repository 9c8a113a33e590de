-------------------- MODULE AuthorizationCodeGrantProofs --------------------
(***************************************************************************)
(* AuthorizationCode implements AuthorizationCodeGrant, what a code can    *)
(* buy, and what the answers tell a client.  For every number of sessions, *)
(* codes, tokens, requests and attempts, every TTL and every clock.        *)
(***************************************************************************)
EXTENDS AuthorizationCodeProofs, FiniteSetTheorems

USE DEF vars

-----------------------------------------------------------------------------
(* What the specification of the grant sees of a step.                     *)

\* No code is tried and none is sold.
Kept ==
    /\ \A c \in Code : AttemptsMade(c)' = AttemptsMade(c)
    /\ \A t \in Token, c \in Code : Redeemed(t, c)' <=> Redeemed(t, c)

\* No token is bought.
LEMMA NothingSold ==
    ASSUME \A t \in Token, c \in Code : Redeemed(t, c)' <=> Redeemed(t, c)
    PROVE  sold' = sold
<1>1. \A c \in Code : Bought(c)' = Bought(c)
  BY DEF Bought
<1> QED BY <1>1 DEF sold

LEMMA KeptSets == ASSUME Kept PROVE used' = used /\ sold' = sold
  BY NothingSold DEF Kept, used

\* A step that writes nothing to the table.
LEMMA Stutter ==
    ASSUME Kept, UNCHANGED <<clock, table, born>>
    PROVE  UNCHANGED Grant!vars
<1>1. status' = status /\ offer' = offer
  BY DEF status, offer
<1> QED BY <1>1, KeptSets DEF Grant!vars

LEMMA TokenKept ==
    ASSUME TimeInv, NEW t \in Token, UNCHANGED codeCall,
           \A u \in Token \ {t} : tokenCall'[u] = tokenCall[u],
           \A c \in Code : Redeemed(t, c)' <=> Redeemed(t, c)
    PROVE  Kept
  BY DEF Kept, Redeemed, AttemptsMade

\* The steps of a request for a token before its update, and a lost update.
LEMMA TokenQuiet ==
    ASSUME TimeInv, NEW t \in Token,
           \/ \E c \in Code : TokenQuery(t, c)
           \/ TokenReadSession(t) \/ TokenVerify(t) \/ TokenFail(t) \/ TokenLost(t)
    PROVE  Kept /\ UNCHANGED <<clock, table, born>>
<1>0. TypeOK /\ tokenCall[t] \in TokenCallState
  BY DEF TimeInv, TypeOK
<1>1. UNCHANGED <<clock, table, born, codeCall>>
  BY DEF TokenQuery, TokenReadSession, TokenVerify, TokenFail, TokenLost
<1>2. \A u \in Token \ {t} : tokenCall'[u] = tokenCall[u]
  BY <1>0 DEF TokenQuery, TokenReadSession, TokenVerify, TokenFail, TokenLost, TypeOK
<1>3. \A c \in Code : Redeemed(t, c)' <=> Redeemed(t, c)
  <2>1. CASE TokenLost(t)
    <3>1. tokenCall'[t] = Unanswered(tokenCall[t], RedeemAttempts)
      BY <2>1, <1>0 DEF TokenLost, TypeOK
    <3> QED BY <1>0, <3>1, TokenCallKept DEF Redeemed
  <2>2. CASE TokenReadSession(t) \/ TokenVerify(t) \/ TokenFail(t)
    <3>1. \A r : /\ Ended(tokenCall[t], r).took = tokenCall[t].took
                 /\ Ended(tokenCall[t], r).code = tokenCall[t].code
      BY <1>0, TokenCallKept
    <3>2. /\ tokenCall'[t].took = tokenCall[t].took
          /\ tokenCall'[t].code = tokenCall[t].code
      BY <1>0, <2>2, <3>1
      DEF TokenReadSession, TokenVerify, TokenFail, TypeOK, TokenCallState
    <3> QED BY <3>2 DEF Redeemed
  <2>3. ASSUME NEW c \in Code, TokenQuery(t, c)
        PROVE  ~tokenCall[t].took /\ ~tokenCall'[t].took
    <3> DEFINE asked == [tokenCall[t] EXCEPT !.code = c]
    <3>1. ~tokenCall[t].took
      BY <2>3 DEF TokenQuery, TimeInv, CallInv
    <3>2. asked \in TokenCallState /\ asked.took = tokenCall[t].took
      BY <1>0, TokenCallTypes DEF TokenCallState
    <3>3. \A r : Ended(asked, r).took = tokenCall[t].took
      <4> HIDE DEF asked
      <4> QED BY <3>2, TokenCallKept
    <3>4. ASSUME NEW s \in Session
          PROVE  [tokenCall[t] EXCEPT !.pc = "read", !.session = s,
                                      !.code = c].took = tokenCall[t].took
      BY <1>0 DEF TokenCallState
    <3>5. \/ tokenCall'[t] = Ended(asked, "InvalidAccessToken")
          \/ \E s \in Session : tokenCall'[t] =
               [tokenCall[t] EXCEPT !.pc = "read", !.session = s, !.code = c]
      BY <2>3, <1>0 DEF TokenQuery, TypeOK
    <3> HIDE DEF asked
    <3> QED BY <3>1, <3>3, <3>4, <3>5
  <2> QED BY <2>1, <2>2, <2>3 DEF Redeemed
<1> QED BY <1>1, <1>2, <1>3, TokenKept

LEMMA SendQuiet ==
    ASSUME TimeInv, NEW c \in Code, NEW s \in Session, CreateAuthCodeSend(c, s)
    PROVE  Kept /\ UNCHANGED <<clock, table, born>>
<1>1. UNCHANGED <<clock, table, born, tokenCall>>
  BY DEF CreateAuthCodeSend
<1>2. \A e \in Code \ {c} : codeCall'[e] = codeCall[e]
  BY DEF CreateAuthCodeSend, TimeInv, TypeOK
<1>3. /\ codeCall[c].pc = "idle" /\ codeCall'[c].pc = "sent"
      /\ codeCall'[c].tries = codeCall[c].tries
  BY DEF CreateAuthCodeSend, TimeInv, TypeOK, CodeCallState
<1> QED BY <1>1, <1>2, <1>3 DEF Kept, Redeemed, AttemptsMade

-----------------------------------------------------------------------------
(* Invariants, and what the updates write.                                 *)

\* Only a creation makes an item of nothing, and only of a new session.
LEMMA BornStep == TypeOK /\ BornInv /\ [Next]_vars => BornInv'
<1> SUFFICES ASSUME TypeOK, BornInv, [Next]_vars PROVE BornInv'
  OBVIOUS
<1>1. ASSUME NEW s \in Session, CreateSession(s) PROVE BornInv'
  BY <1>1 DEF CreateSession, BornInv, TypeOK
<1>2. ASSUME NEW s \in Session, Sweep(s) PROVE BornInv'
  BY <1>2 DEF Sweep, BornInv, TypeOK
<1>3. ASSUME NEW c \in Code, CreateAuthCodeWrite(c) PROVE BornInv'
  BY <1>3, NothingToUpdate DEF CreateAuthCodeWrite, BornInv, TypeOK
<1>4. ASSUME NEW t \in Token, TokenWrite(t) PROVE BornInv'
  BY <1>4, NothingToUpdate DEF TokenWrite, BornInv, TypeOK
<1>5. ASSUME NEW d \in DeleteCall, DeleteWrite(d) PROVE BornInv'
  BY <1>5 DEF DeleteWrite, BornInv, TypeOK
<1>6. ASSUME NEW c \in Code,
             CreateAuthCodeLost(c) \/ \E s \in Session : CreateAuthCodeSend(c, s)
      PROVE  BornInv'
  BY <1>6 DEF CreateAuthCodeLost, CreateAuthCodeSend, BornInv
<1>7. ASSUME NEW t \in Token,
             \/ \E c \in Code : TokenQuery(t, c)
             \/ TokenReadSession(t) \/ TokenVerify(t) \/ TokenFail(t) \/ TokenLost(t)
      PROVE  BornInv'
  <2>1. UNCHANGED <<table, born>>
    BY <1>7 DEF TokenQuery, TokenReadSession, TokenVerify, TokenFail, TokenLost
  <2> QED BY <2>1 DEF BornInv
<1>8. CASE \/ \E s \in Session : Authorize(s) \/ Replicate(s) \/ UpdateIndex(s)
           \/ \E d \in DeleteCall :
                DeleteLost(d) \/ \E s \in Session : DeleteSend(d, s)
           \/ Tick \/ Finished \/ UNCHANGED vars
  <2>1. UNCHANGED <<table, born>>
    BY <1>8 DEF Authorize, Replicate, UpdateIndex, DeleteLost, DeleteSend,
                Tick, Finished
  <2> QED BY <2>1 DEF BornInv
<1> QED
  BY <1>1, <1>2, <1>3, <1>4, <1>5, <1>6, <1>7, <1>8
  DEF Next, CodeStep, TokenStep, DeleteStep

LEMMA SentStep == TypeOK /\ SentInv /\ [Next]_vars => SentInv'
<1> SUFFICES ASSUME TypeOK, SentInv, [Next]_vars PROVE SentInv'
  OBVIOUS
<1>0. codeCall \in [Code -> CodeCallState]
  BY DEF TypeOK
<1>1. ASSUME NEW c \in Code, NEW s \in Session, CreateAuthCodeSend(c, s)
      PROVE  SentInv'
  <2>1. codeCall[c].resp = None
    BY <1>1 DEF CreateAuthCodeSend, SentInv
  <2> QED BY <1>0, <1>1, <2>1 DEF CreateAuthCodeSend, SentInv, CodeCallState
<1>2. ASSUME NEW c \in Code, CreateAuthCodeWrite(c) \/ CreateAuthCodeLost(c)
      PROVE  SentInv'
  <2>1. PICK b \in BOOLEAN :
          LET served == [codeCall[c] EXCEPT !.took = b]
          IN  \/ \E r : codeCall'[c] = Ended(served, r)
              \/ codeCall'[c] = Unanswered(served, CreateAttempts)
    <3>1. CASE CreateAuthCodeWrite(c)
      <4> DEFINE took == CreateAuthCodeCondition(
                           table[codeCall[c].session], codeCall[c].at)
                 stored == codeCall[c].took \/ took
      <4>1. stored \in BOOLEAN
        OBVIOUS
      <4> QED BY <1>0, <3>1, <4>1 DEF CreateAuthCodeWrite
    <3>2. CASE CreateAuthCodeLost(c)
      <4>1. /\ codeCall[c] = [codeCall[c] EXCEPT !.took = codeCall[c].took]
            /\ codeCall[c].took \in BOOLEAN
        BY <1>0 DEF CodeCallState
      <4> QED BY <1>0, <3>2, <4>1 DEF CreateAuthCodeLost
    <3> QED BY <1>2, <3>1, <3>2
  <2>2. /\ codeCall[c].pc = "sent"
        /\ \A e \in Code \ {c} : codeCall'[e] = codeCall[e]
    BY <1>0, <1>2 DEF CreateAuthCodeWrite, CreateAuthCodeLost
  <2>3. \/ codeCall'[c].pc = "done"
        \/ /\ codeCall'[c].pc = "sent"
           /\ codeCall'[c].session = codeCall[c].session
           /\ codeCall'[c].resp = codeCall[c].resp
    BY <1>0, <2>1, <2>2 DEF CodeCallState, Ended, Unanswered
  <2> QED BY <2>2, <2>3 DEF SentInv
<1>3. CASE UNCHANGED codeCall
  BY <1>3 DEF SentInv
<1>4. ASSUME NEW t \in Token,
             (\E c \in Code : TokenQuery(t, c)) \/ TokenStep(t)
      PROVE  UNCHANGED codeCall
  BY <1>4 DEF TokenQuery, TokenStep, TokenReadSession, TokenVerify, TokenFail,
              TokenLost, TokenWrite
<1>5. ASSUME NEW d \in DeleteCall,
             (\E s \in Session : DeleteSend(d, s)) \/ DeleteStep(d)
      PROVE  UNCHANGED codeCall
  BY <1>5 DEF DeleteSend, DeleteStep, DeleteWrite, DeleteLost
<1>6. ASSUME \/ \E s \in Session : \/ CreateSession(s) \/ Authorize(s)
                                  \/ Replicate(s) \/ UpdateIndex(s) \/ Sweep(s)
             \/ Tick \/ Finished \/ UNCHANGED vars
      PROVE  UNCHANGED codeCall
  BY <1>6 DEF CreateSession, Authorize, Replicate, UpdateIndex, Sweep, Tick,
              Finished
<1> QED
  BY <1>1, <1>2, <1>3, <1>4, <1>5, <1>6 DEF Next, CodeStep

\* No item that a command wrote is missing.
LEMMA Items ==
    /\ NoItem.authorizationCode = None
    /\ \A s \in Session : \A e :
         /\ NewSessionItem(s, e) # NoItem
         /\ NewSessionItem(s, e).authorizationCode = None
    /\ \A i \in SessionItem, s \in Session : \A c, e :
         /\ WithAuthCode(i, s, c, e) # NoItem
         /\ WithAuthCode(i, s, c, e).authorizationCode = c
         /\ WithAuthCode(i, s, c, e).authorizationCodeExpiryDate = e
    /\ \A i \in SessionItem, s \in Session : \A t, e :
         /\ WithAccessToken(i, s, t, e) # NoItem
         /\ WithAccessToken(i, s, t, e).authorizationCode = None
<1>1. \A s \in Session : s # None
  BY NoneAssumption
<1>2. NoItem.sessionId = None /\ NoItem.authorizationCode = None
  BY DEF NoItem
<1>3. \A s \in Session : \A e :
         /\ NewSessionItem(s, e).sessionId = s
         /\ NewSessionItem(s, e).authorizationCode = None
  BY DEF NewSessionItem, NoItem
<1>4. \A i \in SessionItem, s \in Session : \A c, e :
         /\ WithAuthCode(i, s, c, e).sessionId = s
         /\ WithAuthCode(i, s, c, e).authorizationCode = c
         /\ WithAuthCode(i, s, c, e).authorizationCodeExpiryDate = e
  BY DEF WithAuthCode, SessionItem
<1>5. \A i \in SessionItem, s \in Session : \A t, e :
         /\ WithAccessToken(i, s, t, e).sessionId = s
         /\ WithAccessToken(i, s, t, e).authorizationCode = None
  BY DEF WithAccessToken, SessionItem
<1> QED BY <1>1, <1>2, <1>3, <1>4, <1>5

-----------------------------------------------------------------------------
(* What the answers of POST /create-auth-code and POST /token tell a       *)
(* client, and how long its token lasts.  First, AnswerMeansCode.          *)

LEMMA AnswerStep ==
    ASSUME TimeInv, SentInv, NEW c \in Code, CreateAuthCodeWrite(c),
           codeCall'[c].resp \in {"200", "201"}
    PROVE  LET item == table'[codeCall[c].session]
           IN  /\ item.authorizationCode # None
               /\ item.authorizationCodeExpiryDate >= codeCall[c].at
<1> DEFINE s == codeCall[c].session
           at == codeCall[c].at
           took == CreateAuthCodeCondition(table[s], at)
<1>1. /\ table \in [Session -> SessionItem]
      /\ codeCall \in [Code -> CodeCallState]
      /\ s \in Session /\ at \in Int
      /\ codeCall[c].resp = None
  BY DEF CreateAuthCodeWrite, TimeInv, TypeOK, SentInv, CodeCallState
<1>2. CASE took
  <2>1. table' = [table EXCEPT ![s] =
                    WithAuthCode(table[s], s, c, at + AuthCodeTtl)]
    BY <1>2 DEF CreateAuthCodeWrite
  <2>2. /\ table'[s].authorizationCode = c
        /\ table'[s].authorizationCodeExpiryDate = at + AuthCodeTtl
    BY <1>1, <2>1, Items
  <2>3. c # None
    BY NoneAssumption
  <2> HIDE DEF at, took
  <2>4. at + AuthCodeTtl >= at
    BY <1>1, TimesAreNatural
  <2>5. QED BY <2>2, <2>3, <2>4 DEF at
<1>3. CASE ~took
  <2>1. table' = table
    BY <1>3 DEF CreateAuthCodeWrite
  <2>2. table[s].sessionId # None
    <3>1. ASSUME table[s].sessionId = None PROVE FALSE
      <4> DEFINE stored == codeCall[c].took \/ took
                 served == [codeCall[c] EXCEPT !.took = stored]
      <4>1. served \in CodeCallState /\ served.resp = None
        <5>1. stored \in BOOLEAN
          OBVIOUS
        <5> HIDE DEF stored
        <5> QED BY <1>1, <5>1 DEF CodeCallState
      <4>2. \/ codeCall'[c] = Ended(served, "404")
            \/ codeCall'[c] = Unanswered(served, CreateAttempts)
        BY <1>1, <1>3, <3>1 DEF CreateAuthCodeWrite, AttributeExists
      <4>3. codeCall'[c].resp \in {None, "404", "500"}
        <5> HIDE DEF served
        <5> QED BY <4>1, <4>2 DEF CodeCallState, Ended, Unanswered
      <4> QED BY <4>3, NoneIsNoAnswer
    <3> QED BY <3>1
  <2>3. /\ table[s].authorizationCode # None
        /\ ~Earlier(table[s].authorizationCodeExpiryDate, at)
    BY <1>3, <2>2 DEF CreateAuthCodeCondition, AttributeExists
  <2>4. table[s].authorizationCodeExpiryDate \in Int
    <3>1. /\ table[s].authorizationCode \in Code
          /\ table[s].authorizationCodeExpiryDate
               = codeCall[table[s].authorizationCode].at + AuthCodeTtl
      BY <1>1, <2>3 DEF TimeInv, FileInv, SessionItem
    <3>2. codeCall[table[s].authorizationCode].at \in Int
      BY <1>1, <3>1 DEF CodeCallState
    <3> QED BY <3>1, <3>2, TimesAreNatural
  <2>5. table[s].authorizationCodeExpiryDate >= at
    <3> HIDE DEF s, at
    <3> QED BY <1>1, <2>3, <2>4, NoneAssumption DEF Earlier, AttributeExists
  <2> QED BY <2>1, <2>3, <2>5
<1> QED BY <1>2, <1>3

\* Only its own update answers a request for a code.
LEMMA OwnAnswer ==
    ASSUME TimeInv, SentInv, [Next]_vars, NEW c \in Code,
           codeCall[c].pc = "sent", codeCall'[c].resp \in {"200", "201"}
    PROVE  CreateAuthCodeWrite(c)
<1>1. codeCall \in [Code -> CodeCallState] /\ codeCall[c].resp = None
  BY DEF TimeInv, TypeOK, SentInv
<1>2. codeCall'[c] # codeCall[c]
  BY <1>1, NoneIsNoAnswer
<1>3. ~CreateAuthCodeLost(c)
  <2> SUFFICES ASSUME CreateAuthCodeLost(c) PROVE FALSE
    OBVIOUS
  <2>1. codeCall'[c] = Unanswered(codeCall[c], CreateAttempts)
    BY <1>1 DEF CreateAuthCodeLost
  <2>2. codeCall'[c].resp \in {None, "500"}
    BY <1>1, <2>1 DEF CodeCallState, Ended, Unanswered
  <2> QED BY <2>2, NoneIsNoAnswer
<1>4. ASSUME NEW e \in Code \ {c}, CodeStep(e) PROVE FALSE
  BY <1>1, <1>2, <1>4 DEF CodeStep, CreateAuthCodeWrite, CreateAuthCodeLost
<1>5. ASSUME NEW e \in Code, NEW s \in Session, CreateAuthCodeSend(e, s)
      PROVE  FALSE
  <2>1. e # c
    BY <1>5 DEF CreateAuthCodeSend
  <2> QED BY <1>1, <1>2, <1>5, <2>1 DEF CreateAuthCodeSend
<1>6. ASSUME NEW t \in Token,
             (\E e \in Code : TokenQuery(t, e)) \/ TokenStep(t)
      PROVE  FALSE
  <2>1. UNCHANGED codeCall
    BY <1>6 DEF TokenQuery, TokenStep, TokenReadSession, TokenVerify,
                TokenFail, TokenLost, TokenWrite
  <2> QED BY <1>2, <2>1
<1>7. ASSUME NEW d \in DeleteCall,
             (\E s \in Session : DeleteSend(d, s)) \/ DeleteStep(d)
      PROVE  FALSE
  <2>1. UNCHANGED codeCall
    BY <1>7 DEF DeleteSend, DeleteStep, DeleteWrite, DeleteLost
  <2> QED BY <1>2, <2>1
<1>8. ASSUME \/ \E s \in Session : \/ CreateSession(s) \/ Authorize(s)
                                  \/ Replicate(s) \/ UpdateIndex(s) \/ Sweep(s)
             \/ Tick \/ Finished \/ UNCHANGED vars
      PROVE  FALSE
  <2>1. UNCHANGED codeCall
    BY <1>8 DEF CreateSession, Authorize, Replicate, UpdateIndex, Sweep, Tick,
                Finished
  <2> QED BY <1>2, <2>1
<1> QED
  BY <1>3, <1>4, <1>5, <1>6, <1>7, <1>8 DEF Next, CodeStep

\* Whoever is told 200 or 201 can go on: the session has a live code, whether
\* this request's or another's, with any number of attempts.
THEOREM AnswersAreBacked == Spec => AnswerMeansCode
<1> DEFINE Inv == TimeInv /\ SentInv
           Backed == \A c \in Code :
             /\ codeCall[c].pc = "sent"
             /\ codeCall'[c].resp \in {"200", "201"}
             => LET item == table'[codeCall[c].session]
                IN  /\ item.authorizationCode # None
                    /\ item.authorizationCodeExpiryDate >= codeCall[c].at
<1>1. Init => Inv
  BY TimeInit DEF Init, SentInv
<1>2. Inv /\ [Next]_vars => Inv'
  BY TypeStep, TimeStep, SentStep DEF TimeInv
<1>3. Inv /\ [Next]_vars => Backed
  BY OwnAnswer, AnswerStep
<1> QED BY <1>1, <1>2, <1>3, PTL DEF Spec, AnswerMeansCode

-----------------------------------------------------------------------------
(* RefusedNotMinted.                                                       *)

\* What RefusedInv says of one request.
Answerable(call) ==
    /\ call.pc # "done" => /\ call.resp = None
                           /\ call.took => call.tries > 0
    /\ call.resp \notin {None, "200", "500"} /\ call.took =>
           call.resp = "InvalidAccessToken" /\ call.tries > 0

\* An answer that denies a token goes to a request without one, or to one
\* whose update was sent before.
LEMMA EndedAnswerable ==
    ASSUME NEW call \in TokenCallState, NEW r,
           \/ r \in {"200", "500"}
           \/ ~call.took
           \/ r = "InvalidAccessToken" /\ call.tries > 0
    PROVE  Answerable(Ended(call, r))
<1>1. LET e == Ended(call, r)
      IN  /\ e.pc = "done" /\ e.resp = r
          /\ e.took = call.took /\ e.tries = call.tries
  BY DEF TokenCallState, Ended
<1> QED BY <1>1 DEF Answerable

\* A repeat is counted; the last one ends in a server error.
LEMMA RepeatAnswerable ==
    ASSUME NEW call \in TokenCallState, call.resp = None
    PROVE  Answerable(Unanswered(call, RedeemAttempts))
<1>1. CASE Unanswered(call, RedeemAttempts) = [call EXCEPT !.tries = @ + 1]
  <2>1. call.tries \in Nat
    BY SomeAttempt DEF TokenCallState
  <2>2. LET e == [call EXCEPT !.tries = @ + 1]
        IN  e.resp = None /\ e.tries = call.tries + 1
    BY DEF TokenCallState
  <2> QED BY <1>1, <2>1, <2>2 DEF Answerable
<1>2. CASE Unanswered(call, RedeemAttempts) = Ended(call, "500")
  BY <1>2, EndedAnswerable
<1> QED BY <1>1, <1>2 DEF Unanswered

\* What a step may do to one request for a token.
LEMMA TokenMoves ==
    ASSUME TimeInv, RefusedInv,
           NEW t \in Token, (\E c \in Code : TokenQuery(t, c)) \/ TokenStep(t)
    PROVE  Answerable(tokenCall'[t])
<1>0. tokenCall \in [Token -> TokenCallState] /\ tokenCall[t] \in TokenCallState
  BY DEF TimeInv, TypeOK
<1>1. /\ tokenCall[t].pc # "done" => /\ tokenCall[t].resp = None
                                     /\ tokenCall[t].took => tokenCall[t].tries > 0
      /\ tokenCall[t].pc \in {"idle", "read", "verify"} => ~tokenCall[t].took
  BY DEF TimeInv, CallInv, RefusedInv
<1>2. CASE TokenWrite(t)
  <2> DEFINE took == RedeemCondition(table[tokenCall[t].session],
                                     tokenCall[t].code, tokenCall[t].at)
             stored == tokenCall[t].took \/ took
             served == [tokenCall[t] EXCEPT !.took = stored]
  <2>1. stored \in BOOLEAN /\ (stored /\ ~took => tokenCall[t].tries > 0)
    BY <1>0, <1>1, <1>2 DEF TokenWrite
  <2>2. /\ served \in TokenCallState
        /\ served.took = stored /\ served.tries = tokenCall[t].tries
        /\ served.resp = None
    <3>1. tokenCall[t].resp = None
      BY <1>1, <1>2 DEF TokenWrite
    <3> HIDE DEF stored
    <3>2. served \in TokenCallState
      BY <1>0, <2>1, TokenCallTypes
    <3>3. /\ served.took = stored /\ served.tries = tokenCall[t].tries
          /\ served.resp = tokenCall[t].resp
      BY <1>0 DEF TokenCallState
    <3> QED BY <3>1, <3>2, <3>3
  <2>3. \/ tokenCall'[t] = Ended(served, IF took THEN "200" ELSE "InvalidAccessToken")
        \/ tokenCall'[t] = Unanswered(served, RedeemAttempts)
    BY <1>0, <1>2 DEF TokenWrite
  <2> HIDE DEF took, stored, served
  <2>4. Answerable(Unanswered(served, RedeemAttempts))
    BY <2>2, RepeatAnswerable
  <2>5. Answerable(Ended(served, IF took THEN "200" ELSE "InvalidAccessToken"))
    <3>1. CASE took
      BY <2>2, <3>1, EndedAnswerable
    <3>2. CASE ~took
      BY <2>1, <2>2, <3>2, EndedAnswerable
    <3> QED BY <3>1, <3>2
  <2> QED BY <2>3, <2>4, <2>5
<1>3. CASE TokenLost(t)
  <2>1. tokenCall'[t] = Unanswered(tokenCall[t], RedeemAttempts)
    BY <1>0, <1>3 DEF TokenLost
  <2> QED BY <1>0, <1>1, <1>3, <2>1, RepeatAnswerable DEF TokenLost
<1>4. CASE TokenReadSession(t) \/ TokenVerify(t) \/ TokenFail(t)
  <2>1. ~tokenCall[t].took /\ tokenCall[t].resp = None
    BY <1>1, <1>4 DEF TokenReadSession, TokenVerify, TokenFail
  <2>2. \/ \E r : tokenCall'[t] = Ended(tokenCall[t], r)
        \/ /\ tokenCall'[t].resp = tokenCall[t].resp
           /\ tokenCall'[t].took = tokenCall[t].took
    BY <1>0, <1>4 DEF TokenReadSession, TokenVerify, TokenFail, TokenCallState
  <2>3. \A r : Answerable(Ended(tokenCall[t], r))
    BY <1>0, <2>1, EndedAnswerable
  <2> QED BY <2>1, <2>2, <2>3 DEF Answerable
<1>5. ASSUME NEW c \in Code, TokenQuery(t, c) PROVE Answerable(tokenCall'[t])
  <2> DEFINE asked == [tokenCall[t] EXCEPT !.code = c]
  <2>1. ~tokenCall[t].took /\ tokenCall[t].resp = None
    BY <1>1, <1>5 DEF TokenQuery
  <2>2. asked \in TokenCallState /\ ~asked.took
    <3>1. asked \in TokenCallState
      BY <1>0, TokenCallTypes
    <3>2. asked.took = tokenCall[t].took
      BY <1>0 DEF TokenCallState
    <3> QED BY <2>1, <3>1, <3>2
  <2>3. \/ tokenCall'[t] = Ended(asked, "InvalidAccessToken")
        \/ \E s \in Session : tokenCall'[t] =
             [tokenCall[t] EXCEPT !.pc = "read", !.session = s, !.code = c]
    BY <1>5, <1>0 DEF TokenQuery
  <2>4. ASSUME NEW s \in Session
        PROVE  LET e == [tokenCall[t] EXCEPT !.pc = "read", !.session = s, !.code = c]
               IN  e.took = tokenCall[t].took /\ e.resp = tokenCall[t].resp
    BY <1>0 DEF TokenCallState
  <2> HIDE DEF asked
  <2>5. Answerable(Ended(asked, "InvalidAccessToken"))
    BY <2>2, EndedAnswerable
  <2> QED BY <2>1, <2>3, <2>4, <2>5 DEF Answerable
<1> QED BY <1>2, <1>3, <1>4, <1>5 DEF TokenStep

LEMMA RefusedStep == TimeInv /\ RefusedInv /\ [Next]_vars => RefusedInv'
<1> SUFFICES ASSUME TimeInv, RefusedInv, [Next]_vars PROVE RefusedInv'
  OBVIOUS
<1>1. ASSUME NEW t \in Token, (\E c \in Code : TokenQuery(t, c)) \/ TokenStep(t)
      PROVE  RefusedInv'
  <2>1. \A u \in Token \ {t} : tokenCall'[u] = tokenCall[u]
    BY <1>1 DEF TokenQuery, TokenStep, TokenReadSession, TokenVerify,
                TokenFail, TokenLost, TokenWrite, TimeInv, TypeOK
  <2>2. Answerable(tokenCall'[t])
    BY <1>1, TokenMoves
  <2> QED BY <2>1, <2>2 DEF RefusedInv, RefusedNotMinted, Answerable
<1>2. CASE UNCHANGED tokenCall
  BY <1>2 DEF RefusedInv, RefusedNotMinted
<1>3. ASSUME NEW c \in Code,
             (\E s \in Session : CreateAuthCodeSend(c, s)) \/ CodeStep(c)
      PROVE  UNCHANGED tokenCall
  BY <1>3 DEF CreateAuthCodeSend, CodeStep, CreateAuthCodeWrite, CreateAuthCodeLost
<1>4. ASSUME NEW d \in DeleteCall,
             (\E s \in Session : DeleteSend(d, s)) \/ DeleteStep(d)
      PROVE  UNCHANGED tokenCall
  BY <1>4 DEF DeleteSend, DeleteStep, DeleteWrite, DeleteLost
<1>5. ASSUME \/ \E s \in Session : \/ CreateSession(s) \/ Authorize(s)
                                  \/ Replicate(s) \/ UpdateIndex(s) \/ Sweep(s)
             \/ Tick \/ Finished \/ UNCHANGED vars
      PROVE  UNCHANGED tokenCall
  BY <1>5 DEF CreateSession, Authorize, Replicate, UpdateIndex, Sweep, Tick,
              Finished
<1> QED BY <1>1, <1>2, <1>3, <1>4, <1>5 DEF Next

\* A refused client has no token, for any number of attempts, unless the
\* refusal is that of a repeat: it may have found its own redemption.
THEOREM RefusalsMintNothing == Spec => []RefusedNotMinted
<1>1. Init => TimeInv /\ RefusedInv
  <2>1. Init => RefusedInv
    BY DEF Init, RefusedInv, RefusedNotMinted
  <2> QED BY <2>1, TimeInit
<1>2. TimeInv /\ RefusedInv /\ [Next]_vars => (TimeInv /\ RefusedInv)'
  BY TypeStep, TimeStep, RefusedStep DEF TimeInv
<1>3. RefusedInv => RefusedNotMinted
  BY DEF RefusedInv
<1> QED BY <1>1, <1>2, <1>3, PTL DEF Spec

-----------------------------------------------------------------------------
(* TokenReplacedByToken.                                                   *)

\* A token in the table is replaced by one its code has just bought, or goes
\* with the item.
LEMMA TableTokens ==
    ASSUME TimeInv, BornInv, [Next]_vars, NEW s \in Session
    PROVE  \/ table'[s].accessToken = table[s].accessToken
           \/ table'[s] = NoItem
           \/ \E t \in Token : /\ table'[s].accessToken = t
                               /\ tokenCall'[t].took
                               /\ tokenCall[t].code \in Code
                               /\ tokenCall[t].code = table[s].authorizationCode
<1>0. TypeOK /\ table \in [Session -> SessionItem]
  BY DEF TimeInv, TypeOK
<1>1. ASSUME NEW r \in Session, CreateSession(r)
      PROVE  table'[s].accessToken = table[s].accessToken
  <2>1. /\ table[r] = NoItem /\ NoItem.accessToken = None
        /\ \A e : NewSessionItem(r, e).accessToken = None
    BY <1>1 DEF CreateSession, BornInv, NoItem, NewSessionItem
  <2> QED BY <1>0, <1>1, <2>1 DEF CreateSession
<1>2. ASSUME NEW r \in Session, Sweep(r)
      PROVE  table'[s] = table[s] \/ table'[s] = NoItem
  BY <1>0, <1>2 DEF Sweep
<1>3. ASSUME NEW d \in DeleteCall, DeleteWrite(d)
      PROVE  table'[s] = table[s] \/ table'[s] = NoItem
  BY <1>0, <1>3 DEF DeleteWrite
<1>4. ASSUME NEW c \in Code, CreateAuthCodeWrite(c)
      PROVE  table'[s].accessToken = table[s].accessToken
  <2>1. \A i \in SessionItem : \A r, e :
          WithAuthCode(i, r, c, e).accessToken = i.accessToken
    BY DEF WithAuthCode, SessionItem
  <2> QED BY <1>0, <1>4, <2>1 DEF CreateAuthCodeWrite
<1>5. ASSUME NEW t \in Token, TokenWrite(t), table'[s] # table[s]
      PROVE  /\ table'[s].accessToken = t /\ tokenCall'[t].took
             /\ tokenCall[t].code \in Code
             /\ tokenCall[t].code = table[s].authorizationCode
  <2> DEFINE c == tokenCall[t].code
             took == RedeemCondition(table[tokenCall[t].session], c, tokenCall[t].at)
             stored == tokenCall[t].took \/ took
             served == [tokenCall[t] EXCEPT !.took = stored]
  <2>1. tokenCall[t] \in TokenCallState /\ c \in Code
    BY <1>0, <1>5 DEF TypeOK, TokenWrite, TimeInv, CallInv
  <2>2. took /\ tokenCall[t].session = s
    BY <1>0, <1>5 DEF TokenWrite
  <2>3. \A i \in SessionItem : \A r, e : WithAccessToken(i, r, t, e).accessToken = t
    BY DEF WithAccessToken, SessionItem
  <2>4. table'[s].accessToken = t
    BY <1>0, <1>5, <2>2, <2>3 DEF TokenWrite
  <2>5. table[s].authorizationCode = c
    BY <2>2 DEF RedeemCondition
  <2>6. tokenCall'[t].took
    <3>1. served \in TokenCallState /\ served.took
      <4>1. stored \in BOOLEAN /\ stored
        BY <2>2
      <4> HIDE DEF stored
      <4> QED BY <2>1, <4>1, TokenCallTypes DEF TokenCallState
    <3>2. \/ \E r : tokenCall'[t] = Ended(served, r)
          \/ tokenCall'[t] = Unanswered(served, RedeemAttempts)
      BY <1>0, <1>5 DEF TokenWrite, TypeOK
    <3> HIDE DEF served
    <3> QED BY <3>1, <3>2, TokenCallKept
  <2> QED BY <2>1, <2>4, <2>5, <2>6
<1>6. ASSUME NEW c \in Code,
             CreateAuthCodeLost(c) \/ \E r \in Session : CreateAuthCodeSend(c, r)
      PROVE  table' = table
  BY <1>6 DEF CreateAuthCodeLost, CreateAuthCodeSend
<1>7. ASSUME NEW t \in Token,
             \/ \E c \in Code : TokenQuery(t, c)
             \/ TokenReadSession(t) \/ TokenVerify(t) \/ TokenFail(t) \/ TokenLost(t)
      PROVE  table' = table
  BY <1>7 DEF TokenQuery, TokenReadSession, TokenVerify, TokenFail, TokenLost
<1>8. ASSUME \/ \E r \in Session : Authorize(r) \/ Replicate(r) \/ UpdateIndex(r)
             \/ \E d \in DeleteCall :
                  DeleteLost(d) \/ \E r \in Session : DeleteSend(d, r)
             \/ Tick \/ Finished \/ UNCHANGED vars
      PROVE  table' = table
  BY <1>8 DEF Authorize, Replicate, UpdateIndex, DeleteLost, DeleteSend,
              Tick, Finished
<1> QED
  BY <1>1, <1>2, <1>3, <1>4, <1>5, <1>6, <1>7, <1>8
  DEF Next, CodeStep, TokenStep, DeleteStep

\* No step takes back what a request for a token has done.
LEMMA TookStays ==
    ASSUME TimeInv, [Next]_vars, NEW t \in Token, tokenCall[t].took
    PROVE  tokenCall'[t].took
<1>0. TypeOK /\ tokenCall[t] \in TokenCallState
  BY DEF TimeInv, TypeOK
<1>1. CASE TokenWrite(t)
  <2> DEFINE stored == tokenCall[t].took \/ RedeemCondition(
                         table[tokenCall[t].session], tokenCall[t].code,
                         tokenCall[t].at)
             served == [tokenCall[t] EXCEPT !.took = stored]
  <2>1. served \in TokenCallState /\ served.took
    <3>1. stored \in BOOLEAN /\ stored
      OBVIOUS
    <3> HIDE DEF stored
    <3> QED BY <1>0, <3>1, TokenCallTypes DEF TokenCallState
  <2>2. \/ \E r : tokenCall'[t] = Ended(served, r)
        \/ tokenCall'[t] = Unanswered(served, RedeemAttempts)
    BY <1>0, <1>1 DEF TokenWrite, TypeOK
  <2> HIDE DEF served
  <2> QED BY <2>1, <2>2, TokenCallKept
<1>2. CASE \/ \E c \in Code : TokenQuery(t, c)
           \/ TokenReadSession(t) \/ TokenVerify(t) \/ TokenFail(t) \/ TokenLost(t)
  <2>1. Kept /\ tokenCall[t].code \in Code
    BY <1>2, TokenQuiet DEF TimeInv, CallInv
  <2> QED BY <2>1 DEF Kept, Redeemed
<1>3. ASSUME NEW u \in Token \ {t},
             (\E c \in Code : TokenQuery(u, c)) \/ TokenStep(u)
      PROVE  tokenCall'[t] = tokenCall[t]
  BY <1>0, <1>3 DEF TokenQuery, TokenStep, TokenReadSession, TokenVerify,
                    TokenFail, TokenLost, TokenWrite, TypeOK
<1>4. ASSUME NEW c \in Code,
             (\E s \in Session : CreateAuthCodeSend(c, s)) \/ CodeStep(c)
      PROVE  UNCHANGED tokenCall
  BY <1>4 DEF CreateAuthCodeSend, CodeStep, CreateAuthCodeWrite, CreateAuthCodeLost
<1>5. ASSUME NEW d \in DeleteCall,
             (\E s \in Session : DeleteSend(d, s)) \/ DeleteStep(d)
      PROVE  UNCHANGED tokenCall
  BY <1>5 DEF DeleteSend, DeleteStep, DeleteWrite, DeleteLost
<1>6. ASSUME \/ \E s \in Session : \/ CreateSession(s) \/ Authorize(s)
                                  \/ Replicate(s) \/ UpdateIndex(s) \/ Sweep(s)
             \/ Tick \/ Finished \/ UNCHANGED vars
      PROVE  UNCHANGED tokenCall
  BY <1>6 DEF CreateSession, Authorize, Replicate, UpdateIndex, Sweep, Tick,
              Finished
<1> QED
  BY <1>1, <1>2, <1>3, <1>4, <1>5, <1>6 DEF Next, TokenStep

LEMMA MintStep ==
    ASSUME TimeInv, BornInv, MintInv, [Next]_vars
    PROVE  MintInv'
<1> SUFFICES ASSUME NEW s \in Session, table'[s].accessToken # None
             PROVE  tokenCall'[table'[s].accessToken].took
  BY DEF MintInv
<1>1. NoItem.accessToken = None
  BY DEF NoItem
<1>2. CASE table'[s].accessToken = table[s].accessToken
  <2>1. table[s].accessToken \in Token
    BY <1>2 DEF TimeInv, TypeOK, SessionItem
  <2> QED BY <1>2, <2>1, TookStays DEF MintInv
<1> QED BY <1>1, <1>2, TableTokens

-----------------------------------------------------------------------------
(* BudgetInv: how many tokens a code buys when its create command is sent  *)
(* again.                                                                  *)

LEMMA AttemptsTyped ==
    ASSUME TypeOK, TypeOK', NEW c \in Code
    PROVE  AttemptsMade(c) \in Nat /\ AttemptsMade(c)' \in Nat
<1>1. /\ codeCall[c].tries \in 0 .. CreateAttempts - 1
      /\ codeCall'[c].tries \in 0 .. CreateAttempts - 1
  BY DEF TypeOK, CodeCallState
<1> QED BY <1>1, SomeAttempt DEF AttemptsMade

\* A served or a lost attempt is made.
LEMMA AttemptUsed ==
    ASSUME TypeOK, NEW c \in Code, codeCall[c].pc = "sent",
           NEW call \in CodeCallState,
           call.pc = "sent", call.tries = codeCall[c].tries,
           \/ codeCall'[c] = Unanswered(call, CreateAttempts)
           \/ \E r : codeCall'[c] = Ended(call, r)
    PROVE  AttemptsMade(c)' = AttemptsMade(c) + 1
<1>1. call.tries \in Nat /\ AttemptsMade(c) = call.tries
  BY SomeAttempt DEF CodeCallState, AttemptsMade
<1>2. ASSUME NEW r, codeCall'[c] = Ended(call, r)
      PROVE  AttemptsMade(c)' = call.tries + 1
  <2>1. Ended(call, r).pc = "done" /\ Ended(call, r).tries = call.tries
    BY DEF CodeCallState, Ended
  <2> QED BY <1>2, <2>1 DEF AttemptsMade
<1>3. ASSUME codeCall'[c] = [call EXCEPT !.tries = @ + 1]
      PROVE  AttemptsMade(c)' = call.tries + 1
  <2>1. codeCall'[c].pc = "sent" /\ codeCall'[c].tries = call.tries + 1
    BY <1>3 DEF CodeCallState
  <2> QED BY <1>1, <2>1 DEF AttemptsMade
<1>4. \/ codeCall'[c] = [call EXCEPT !.tries = @ + 1]
      \/ \E r : codeCall'[c] = Ended(call, r)
  BY DEF Unanswered
<1>5. CASE \E r : codeCall'[c] = Ended(call, r)
  BY <1>1, <1>2, <1>5
<1>6. CASE codeCall'[c] = [call EXCEPT !.tries = @ + 1]
  BY <1>1, <1>3, <1>6
<1> QED BY <1>4, <1>5, <1>6

\* So a create command served or lost is one attempt more, while any is left.
LEMMA AttemptMade ==
    ASSUME TypeOK, NEW c \in Code,
           CreateAuthCodeWrite(c) \/ CreateAuthCodeLost(c)
    PROVE  /\ AttemptsMade(c) < CreateAttempts
           /\ AttemptsMade(c)' = AttemptsMade(c) + 1
           /\ \A e \in Code \ {c} : codeCall'[e] = codeCall[e]
<1>1. /\ codeCall[c] \in CodeCallState /\ codeCall[c].pc = "sent"
      /\ \A e \in Code \ {c} : codeCall'[e] = codeCall[e]
  BY DEF CreateAuthCodeWrite, CreateAuthCodeLost, TypeOK
<1>2. AttemptsMade(c)' = AttemptsMade(c) + 1
  <2>1. CASE CreateAuthCodeLost(c)
    <3>1. codeCall'[c] = Unanswered(codeCall[c], CreateAttempts)
      BY <1>1, <2>1 DEF CreateAuthCodeLost, TypeOK
    <3> QED BY <1>1, <3>1, AttemptUsed
  <2>2. CASE CreateAuthCodeWrite(c)
    <3> DEFINE took == CreateAuthCodeCondition(
                         table[codeCall[c].session], codeCall[c].at)
               stored == codeCall[c].took \/ took
               served == [codeCall[c] EXCEPT !.took = stored]
    <3>1. /\ served \in CodeCallState
          /\ served.pc = "sent" /\ served.tries = codeCall[c].tries
      <4>1. stored \in BOOLEAN
        OBVIOUS
      <4> HIDE DEF stored
      <4> QED BY <1>1, <4>1, CodeCallTypes DEF CodeCallState
    <3>2. \/ codeCall'[c] = Unanswered(served, CreateAttempts)
          \/ \E r : codeCall'[c] = Ended(served, r)
      BY <1>1, <2>2 DEF CreateAuthCodeWrite, TypeOK
    <3> HIDE DEF served
    <3> QED BY <1>1, <3>1, <3>2, AttemptUsed
  <2> QED BY <2>1, <2>2
<1>3. AttemptsMade(c) < CreateAttempts
  <2>1. codeCall[c].tries \in 0 .. CreateAttempts - 1
    BY <1>1 DEF CodeCallState
  <2> QED BY <1>1, <2>1, SomeAttempt DEF AttemptsMade
<1> QED BY <1>1, <1>2, <1>3

\* What the budget of a code allows in a step: a place in the table for an
\* attempt, or a token for a place in the table.
LEMMA BudgetOfCode ==
    ASSUME TypeOK, TypeOK', BudgetInv, NEW c \in Code,
           \/ /\ Bought(c)' \subseteq Bought(c)
              /\ \/ AttemptsMade(c) < AttemptsMade(c)'
                 \/ /\ AttemptsMade(c) <= AttemptsMade(c)'
                    /\ InTable(c)' => InTable(c)
           \/ /\ \E t : Bought(c)' \subseteq Bought(c) \cup {t}
              /\ AttemptsMade(c)' = AttemptsMade(c)
              /\ InTable(c) /\ ~InTable(c)'
    PROVE  /\ IsFiniteSet(Bought(c)')
           /\ Cardinality(Bought(c)') + (IF InTable(c)' THEN 1 ELSE 0)
                <= AttemptsMade(c)'
<1> DEFINE old == Bought(c)
           new == Bought(c)'
           place == IF InTable(c) THEN 1 ELSE 0
           next  == IF InTable(c)' THEN 1 ELSE 0
           made == AttemptsMade(c)
           total == AttemptsMade(c)'
<1>1. /\ made \in Nat /\ total \in Nat
      /\ place \in {0, 1} /\ next \in {0, 1}
  BY AttemptsTyped
<1>2. IsFiniteSet(old) /\ Cardinality(old) + place <= made
  BY DEF BudgetInv
<1>3. \/ new \subseteq old /\ (made < total \/ (made <= total /\ next <= place))
      \/ (\E t : new \subseteq old \cup {t}) /\ total = made /\ place = 1 /\ next = 0
  OBVIOUS
<1> HIDE DEF old, new, place, next, made, total
<1>4. Cardinality(old) \in Nat
  BY <1>2, FS_CardinalityType
<1>5. CASE new \subseteq old /\ (made < total \/ (made <= total /\ next <= place))
  <2>1. IsFiniteSet(new) /\ Cardinality(new) <= Cardinality(old)
    BY <1>2, <1>5, FS_Subset
  <2>2. Cardinality(new) \in Nat
    BY <2>1, FS_CardinalityType
  <2>3. Cardinality(new) + next <= total
    BY <1>1, <1>2, <1>4, <1>5, <2>1, <2>2
  <2> QED BY <2>1, <2>3 DEF new, next, total
<1>6. ASSUME NEW t, new \subseteq old \cup {t}, total = made, place = 1, next = 0
      PROVE  IsFiniteSet(new) /\ Cardinality(new) + next <= total
  <2>1. /\ IsFiniteSet(old \cup {t})
        /\ Cardinality(old \cup {t}) <= Cardinality(old) + 1
    BY <1>2, <1>4, FS_AddElement
  <2>2. IsFiniteSet(new) /\ Cardinality(new) <= Cardinality(old \cup {t})
    BY <1>6, <2>1, FS_Subset
  <2>3. Cardinality(new) \in Nat /\ Cardinality(old \cup {t}) \in Nat
    BY <2>1, <2>2, FS_CardinalityType
  <2>4. Cardinality(new) + next <= total
    BY <1>1, <1>2, <1>4, <1>6, <2>1, <2>2, <2>3
  <2> QED BY <2>2, <2>4
<1>7. CASE (\E t : new \subseteq old \cup {t}) /\ total = made /\ place = 1 /\ next = 0
  BY <1>6, <1>7 DEF new, next, total
<1> QED BY <1>3, <1>5, <1>7

\* Steps that put no code into the table and buy no token.
LEMMA BudgetQuiet ==
    ASSUME TypeOK, TypeOK', BudgetInv,
           \A t \in Token, c \in Code : Redeemed(t, c)' => Redeemed(t, c),
           \A c \in Code : AttemptsMade(c) <= AttemptsMade(c)',
           \A s \in Session :
               \/ table'[s].authorizationCode = table[s].authorizationCode
               \/ table'[s].authorizationCode = None
    PROVE  BudgetInv'
<1>1. ASSUME NEW c \in Code
      PROVE  Bought(c)' \subseteq Bought(c) /\ (InTable(c)' => InTable(c))
  <2>1. c # None
    BY NoneAssumption
  <2> QED BY <2>1 DEF Bought, InTable
<1> QED BY <1>1, BudgetOfCode DEF BudgetInv

\* An attempt at the create command: what it may put into the table, it pays.
LEMMA BudgetCreate ==
    ASSUME TimeInv, TypeOK', BudgetInv, NEW c \in Code,
           CreateAuthCodeWrite(c) \/ CreateAuthCodeLost(c)
    PROVE  BudgetInv'
<1>1. /\ TypeOK /\ UNCHANGED tokenCall
      /\ codeCall[c] \in CodeCallState /\ codeCall[c].pc = "sent"
      /\ \A e \in Code \ {c} : codeCall'[e] = codeCall[e]
  BY DEF CreateAuthCodeWrite, CreateAuthCodeLost, TimeInv, TypeOK
<1>2. AttemptsMade(c)' = AttemptsMade(c) + 1
  BY <1>1, AttemptMade
<1>3. \A e \in Code : Bought(e)' \subseteq Bought(e)
  BY <1>1 DEF Bought, Redeemed
<1>4. ASSUME NEW e \in Code \ {c}
      PROVE  /\ AttemptsMade(e)' = AttemptsMade(e)
             /\ InTable(e)' => InTable(e)
  <2>1. AttemptsMade(e)' = AttemptsMade(e)
    BY <1>1 DEF AttemptsMade
  <2>2. \A s \in Session : \/ table'[s] = table[s]
                           \/ table'[s].authorizationCode = c
    <3>1. CASE CreateAuthCodeWrite(c)
      <4>1. \A r, x : \A i \in SessionItem :
              WithAuthCode(i, r, c, x).authorizationCode = c
        BY DEF WithAuthCode, SessionItem
      <4>2. table \in [Session -> SessionItem]
        BY <1>1 DEF TypeOK
      <4> QED BY <3>1, <4>1, <4>2 DEF CreateAuthCodeWrite
    <3>2. CASE CreateAuthCodeLost(c)
      BY <3>2 DEF CreateAuthCodeLost
    <3> QED BY <3>1, <3>2
  <2>3. InTable(e)' => InTable(e)
    BY <2>2 DEF InTable
  <2> QED BY <2>1, <2>3
<1>5. \A e \in Code : AttemptsMade(e) \in Nat /\ AttemptsMade(e)' \in Nat
  BY <1>1, AttemptsTyped
<1>6. ASSUME NEW e \in Code
      PROVE  \/ AttemptsMade(e) < AttemptsMade(e)'
             \/ AttemptsMade(e) <= AttemptsMade(e)' /\ (InTable(e)' => InTable(e))
  BY <1>2, <1>4, <1>5
<1> QED BY <1>1, <1>3, <1>6, BudgetOfCode DEF BudgetInv

\* A redemption: the token is bought with the place of the code in the table.
LEMMA BudgetRedeem ==
    ASSUME TimeInv, TypeOK', BudgetInv, NEW t \in Token, TokenWrite(t)
    PROVE  BudgetInv'
<1> DEFINE s == tokenCall[t].session
           c == tokenCall[t].code
           took == RedeemCondition(table[s], c, tokenCall[t].at)
           stored == tokenCall[t].took \/ took
           served == [tokenCall[t] EXCEPT !.took = stored]
<1>1. /\ table \in [Session -> SessionItem]
      /\ tokenCall \in [Token -> TokenCallState]
      /\ s \in Session /\ c \in Code /\ TypeOK
      /\ UNCHANGED codeCall
  BY DEF TokenWrite, TimeInv, TypeOK, CallInv
<1>2. \A u \in Token \ {t} : tokenCall'[u] = tokenCall[u]
  BY <1>1 DEF TokenWrite
<1>3. /\ tokenCall'[t].took <=> tokenCall[t].took \/ took
      /\ tokenCall'[t].code = c
  <2>1. served \in TokenCallState /\ served.took = stored /\ served.code = c
    <3>1. stored \in BOOLEAN /\ tokenCall[t] \in TokenCallState
      BY <1>1
    <3> HIDE DEF stored
    <3> QED BY <3>1, TokenCallTypes DEF TokenCallState
  <2>2. \/ \E r : tokenCall'[t] = Ended(served, r)
        \/ tokenCall'[t] = Unanswered(served, RedeemAttempts)
    BY <1>1 DEF TokenWrite
  <2>3. tokenCall'[t].took = stored /\ tokenCall'[t].code = c
    <3> HIDE DEF stored, served, c
    <3> QED BY <2>1, <2>2, TokenCallKept
  <2> QED BY <2>3
<1>4. \A e \in Code : /\ AttemptsMade(e)' = AttemptsMade(e)
                      /\ AttemptsMade(e) \in Nat
  BY <1>1, AttemptsTyped DEF AttemptsMade
<1>5. CASE ~took
  <2>1. table' = table
    BY <1>5 DEF TokenWrite
  <2>2. \A u \in Token, e \in Code : Redeemed(u, e)' => Redeemed(u, e)
    <3> HIDE DEF took
    <3> QED BY <1>2, <1>3, <1>5 DEF Redeemed
  <2> QED BY <1>1, <1>4, <2>1, <2>2, BudgetQuiet
<1>6. CASE took
  <2>1. /\ table[s].authorizationCode = c /\ c # None
        /\ codeCall[c].session = s
    BY <1>1, <1>6 DEF RedeemCondition, AttributeExists, TimeInv, FileInv
  <2>2. table'[s].authorizationCode = None
    <3>1. \A r, x : \A i \in SessionItem :
            WithAccessToken(i, r, t, x).authorizationCode = None
      BY DEF WithAccessToken, SessionItem
    <3> QED BY <1>1, <1>6, <3>1 DEF TokenWrite
  <2>3. \A r \in Session \ {s} :
          table'[r] = table[r] /\ table[r].authorizationCode # c
    <3>1. \A r \in Session \ {s} : table'[r] = table[r]
      BY <1>1 DEF TokenWrite
    <3>2. \A r \in Session \ {s} : table[r].authorizationCode # c
      BY <2>1 DEF TimeInv, FileInv
    <3> QED BY <3>1, <3>2
  <2>4. \A u \in Token, e \in Code :
          Redeemed(u, e)' => Redeemed(u, e) \/ (u = t /\ e = c)
    <3> HIDE DEF c, took
    <3> QED BY <1>2, <1>3 DEF Redeemed
  <2> HIDE DEF s, c, took, stored, served
  <2>5. ASSUME NEW e \in Code, e = c
        PROVE  /\ Bought(e)' \subseteq Bought(e) \cup {t}
               /\ InTable(e) /\ ~InTable(e)'
    BY <1>1, <2>1, <2>2, <2>3, <2>4, <2>5 DEF Bought, InTable
  <2>6. ASSUME NEW e \in Code, e # c
        PROVE  Bought(e)' \subseteq Bought(e) /\ (InTable(e)' => InTable(e))
    <3>1. e # None
      BY NoneAssumption
    <3> QED BY <2>2, <2>3, <2>4, <2>6, <3>1 DEF Bought, InTable
  <2>7. \A e \in Code : AttemptsMade(e) <= AttemptsMade(e)'
    BY <1>4
  <2> QED BY <1>1, <1>4, <2>5, <2>6, <2>7, BudgetOfCode DEF BudgetInv
<1> QED BY <1>5, <1>6

LEMMA BudgetStep == TimeInv /\ TypeOK' /\ BudgetInv /\ [Next]_vars => BudgetInv'
<1> SUFFICES ASSUME TimeInv, TypeOK', BudgetInv, [Next]_vars PROVE BudgetInv'
    OBVIOUS
<1>0. TypeOK
  BY DEF TimeInv
<1>1. \A c \in Code : AttemptsMade(c) \in Nat
  BY <1>0, AttemptsTyped
<1>2. ASSUME UNCHANGED <<codeCall, tokenCall>>,
             \A s \in Session : \/ table'[s] = table[s]
                                \/ table'[s].authorizationCode = None
      PROVE  BudgetInv'
  <2>1. \A c \in Code : AttemptsMade(c) <= AttemptsMade(c)'
    BY <1>1, <1>2 DEF AttemptsMade
  <2> QED BY <1>0, <1>2, <2>1, BudgetQuiet DEF Redeemed
<1>3. ASSUME NEW s \in Session, CreateSession(s) \/ Sweep(s) PROVE BudgetInv'
  <2>1. /\ NoItem.authorizationCode = None
        /\ \A e : NewSessionItem(s, e).authorizationCode = None
    BY DEF NewSessionItem, NoItem
  <2> QED BY <1>0, <1>2, <1>3, <2>1 DEF CreateSession, Sweep, TypeOK
<1>4. ASSUME NEW d \in DeleteCall, DeleteWrite(d) PROVE BudgetInv'
  BY <1>0, <1>2, <1>4 DEF DeleteWrite, TypeOK, NoItem
<1>5. CASE \/ \E s \in Session : Authorize(s) \/ Replicate(s) \/ UpdateIndex(s)
           \/ \E d \in DeleteCall :
                DeleteLost(d) \/ \E s \in Session : DeleteSend(d, s)
           \/ Tick \/ Finished \/ UNCHANGED vars
  <2>1. UNCHANGED <<table, codeCall, tokenCall>>
    BY <1>5 DEF Authorize, Replicate, UpdateIndex, DeleteLost, DeleteSend,
                Tick, Finished
  <2> QED BY <1>2, <2>1
<1>6. ASSUME NEW c \in Code, NEW s \in Session, CreateAuthCodeSend(c, s)
      PROVE  BudgetInv'
  <2>1. UNCHANGED <<table, tokenCall>>
    BY <1>6 DEF CreateAuthCodeSend
  <2>2. \A e \in Code : AttemptsMade(e)' = AttemptsMade(e)
    <3>1. \A e \in Code \ {c} : codeCall'[e] = codeCall[e]
      BY <1>0, <1>6 DEF CreateAuthCodeSend, TypeOK
    <3>2. /\ codeCall[c].pc = "idle" /\ codeCall'[c].pc = "sent"
          /\ codeCall'[c].tries = codeCall[c].tries
      BY <1>0, <1>6 DEF CreateAuthCodeSend, TypeOK, CodeCallState
    <3> QED BY <3>1, <3>2 DEF AttemptsMade
  <2> QED BY <1>0, <1>1, <2>1, <2>2, BudgetQuiet DEF Redeemed
<1>7. ASSUME NEW c \in Code, CreateAuthCodeWrite(c) \/ CreateAuthCodeLost(c)
      PROVE  BudgetInv'
  BY <1>7, BudgetCreate
<1>8. ASSUME NEW t \in Token,
             \/ \E c \in Code : TokenQuery(t, c)
             \/ TokenReadSession(t) \/ TokenVerify(t) \/ TokenFail(t)
             \/ TokenLost(t)
      PROVE  BudgetInv'
  <2>1. Kept /\ UNCHANGED table
    BY <1>8, TokenQuiet
  <2>2. UNCHANGED codeCall
    BY <1>8 DEF TokenQuery, TokenReadSession, TokenVerify, TokenFail, TokenLost
  <2>3. \A c \in Code : AttemptsMade(c) <= AttemptsMade(c)'
    BY <1>1, <2>2 DEF AttemptsMade
  <2> QED BY <1>0, <2>1, <2>3, BudgetQuiet DEF Kept
<1>9. ASSUME NEW t \in Token, TokenWrite(t) PROVE BudgetInv'
  BY <1>9, BudgetRedeem
<1> QED
  BY <1>3, <1>4, <1>5, <1>6, <1>7, <1>8, <1>9
  DEF Next, CodeStep, TokenStep, DeleteStep

LEMMA BudgetInit == Init => BudgetInv
<1> SUFFICES ASSUME Init, NEW c \in Code
    PROVE  /\ IsFiniteSet(Bought(c))
           /\ Cardinality(Bought(c)) + (IF InTable(c) THEN 1 ELSE 0)
                <= AttemptsMade(c)
  BY DEF BudgetInv
<1>1. Bought(c) = {}
  BY DEF Init, Bought, Redeemed
<1>2. ~InTable(c)
  BY NoneAssumption DEF Init, InTable, NoItem
<1>3. AttemptsMade(c) = 0
  BY DEF Init, AttemptsMade
<1> QED BY <1>1, <1>2, <1>3, FS_EmptySet

\* For any number of attempts: the tokens bought with a code and its place in
\* the table are no more than the times its create command was sent.
THEOREM CodesKeepTheirBudget == Spec => []BudgetInv
<1>1. Init => BudgetInv
  BY BudgetInit
<1>2. (TimeInv /\ BudgetInv) /\ [Next]_vars => (TimeInv /\ BudgetInv)'
  BY TypeStep, TimeStep, BudgetStep DEF TimeInv
<1> QED BY <1>1, <1>2, TimeInit, PTL DEF Spec

\* A code never buys more tokens than its create command was sent, and that is
\* at most three times by the SDK's default, and once if it is not to retry.
THEOREM CodesBuyOnePerAttempt ==
    Spec => [](\A c \in Code : Cardinality(Bought(c)) <= AttemptsMade(c)
                              /\ AttemptsMade(c) <= CreateAttempts)
<1> DEFINE Within == \A c \in Code : Cardinality(Bought(c)) <= AttemptsMade(c)
                                     /\ AttemptsMade(c) <= CreateAttempts
<1>1. ASSUME TypeOK, BudgetInv PROVE Within
  <2> SUFFICES ASSUME NEW c \in Code
      PROVE  /\ Cardinality(Bought(c)) <= AttemptsMade(c)
             /\ AttemptsMade(c) <= CreateAttempts
    OBVIOUS
  <2>1. AttemptsMade(c) \in Nat /\ AttemptsMade(c) <= CreateAttempts
    <3>1. codeCall[c].tries \in 0 .. CreateAttempts - 1
      BY <1>1 DEF TypeOK, CodeCallState
    <3> QED BY <3>1, SomeAttempt DEF AttemptsMade
  <2>2. Cardinality(Bought(c)) \in Nat
    BY <1>1, FS_CardinalityType DEF BudgetInv
  <2> QED BY <1>1, <2>1, <2>2 DEF BudgetInv
<1> QED BY <1>1, TypeCorrect, CodesKeepTheirBudget, PTL

\* For any number of attempts the SDK may make: a code whose create command was
\* sent once is redeemed at most once, whatever is repeated of the redemptions.
\* Only a repeat that was really sent can sell a code twice.
THEOREM OnlyRepeatsSellTwice ==
    Spec => [](\A c \in Code : AttemptsMade(c) <= 1 =>
                 \A t, u \in Token : Redeemed(t, c) /\ Redeemed(u, c) => t = u)
<1> DEFINE Once == \A c \in Code : AttemptsMade(c) <= 1 =>
              \A t, u \in Token : Redeemed(t, c) /\ Redeemed(u, c) => t = u
<1>1. ASSUME TypeOK, BudgetInv PROVE Once
  <2> SUFFICES ASSUME NEW c \in Code, AttemptsMade(c) <= 1,
                      NEW t \in Token, NEW u \in Token,
                      Redeemed(t, c), Redeemed(u, c)
      PROVE  t = u
    OBVIOUS
  <2>1. IsFiniteSet(Bought(c)) /\ t \in Bought(c) /\ u \in Bought(c)
    BY <1>1 DEF BudgetInv, Bought
  <2>2. Cardinality(Bought(c)) \in Nat
    BY <2>1, FS_CardinalityType
  <2>3. AttemptsMade(c) \in Nat /\ Cardinality(Bought(c)) <= AttemptsMade(c)
    <3>1. codeCall[c].tries \in 0 .. CreateAttempts - 1
      BY <1>1 DEF TypeOK, CodeCallState
    <3>2. AttemptsMade(c) \in Nat
      BY <3>1, SomeAttempt DEF AttemptsMade
    <3> QED BY <1>1, <2>2, <3>2 DEF BudgetInv
  <2> HIDE DEF Bought
  <2>4. Cardinality(Bought(c) \ {t}) = 0 /\ IsFiniteSet(Bought(c) \ {t})
    <3>1. /\ IsFiniteSet(Bought(c) \ {t})
          /\ Cardinality(Bought(c) \ {t}) = Cardinality(Bought(c)) - 1
      BY <2>1, FS_RemoveElement
    <3>2. Cardinality(Bought(c) \ {t}) \in Nat
      BY <3>1, FS_CardinalityType
    <3> QED BY <2>2, <2>3, <3>1, <3>2
  <2>5. Bought(c) \ {t} = {}
    BY <2>4, FS_EmptySet
  <2> QED BY <2>1, <2>5
<1> QED BY <1>1, TypeCorrect, CodesKeepTheirBudget, PTL

\* For any number of attempts: only another code of its session, the end of the
\* session, or a repeated create command that has put the spent code back, takes
\* a client's token away.
THEOREM TokensLast == Spec => TokenReplacedByToken
<1> DEFINE Inv == TimeInv /\ BornInv /\ BudgetInv /\ MintInv
           Replaced == \A s \in Session :
             LET token == table[s].accessToken  next == table'[s].accessToken
                 code  == tokenCall[next].code
             IN  token # None /\ token # next /\ table'[s] # NoItem =>
                   /\ next # None
                   /\ code = tokenCall[token].code => AttemptsMade(code) > 1
<1>1. Init => Inv
  BY TimeInit, BudgetInit DEF Init, BornInv, MintInv, NoItem
<1>2. Inv /\ [Next]_vars => Inv'
  BY TypeStep, TimeStep, BornStep, BudgetStep, MintStep DEF TimeInv
<1>3. Inv /\ [Next]_vars => Replaced
  <2> SUFFICES ASSUME Inv, [Next]_vars, NEW s \in Session,
                      table[s].accessToken # None,
                      table[s].accessToken # table'[s].accessToken,
                      table'[s] # NoItem
               PROVE  LET code == tokenCall[table'[s].accessToken].code
                      IN  /\ table'[s].accessToken # None
                          /\ code = tokenCall[table[s].accessToken].code =>
                               AttemptsMade(code) > 1
    OBVIOUS
  <2>1. PICK t \in Token : /\ table'[s].accessToken = t
                           /\ tokenCall[t].code \in Code
                           /\ tokenCall[t].code = table[s].authorizationCode
    BY TableTokens
  <2> DEFINE code == tokenCall[t].code
             old  == table[s].accessToken
  <2>2. old \in Token /\ tokenCall[old].took
    BY DEF MintInv, TimeInv, TypeOK, SessionItem
  <2>3. ASSUME code = tokenCall[old].code
        PROVE  AttemptsMade(code) > 1
    <3>1. InTable(code) /\ old \in Bought(code)
      BY <2>1, <2>2, <2>3 DEF InTable, Bought, Redeemed
    <3> HIDE DEF code, old
    <3>2. /\ code \in Code /\ IsFiniteSet(Bought(code))
          /\ Cardinality(Bought(code)) + 1 <= AttemptsMade(code)
      BY <2>1, <3>1 DEF BudgetInv, code
    <3>3. Cardinality(Bought(code)) \in Nat /\ Cardinality(Bought(code)) # 0
      BY <3>1, <3>2, FS_CardinalityType, FS_EmptySet
    <3>4. AttemptsMade(code) \in Nat
      <4>1. codeCall[code].tries \in 0 .. CreateAttempts - 1
        BY <3>2 DEF TimeInv, TypeOK, CodeCallState
      <4> QED BY <4>1, SomeAttempt DEF AttemptsMade
    <3> QED BY <3>2, <3>3, <3>4
  <2> QED BY <2>1, <2>3, NoneAssumption
<1> QED BY <1>1, <1>2, <1>3, PTL DEF Spec, TokenReplacedByToken

-----------------------------------------------------------------------------
(* AuthorizationCodeGrant: the steps it knows.                             *)

LEMMA OpenStep ==
    ASSUME TimeInv, BornInv, NEW s \in Session, CreateSession(s)
    PROVE  Grant!Open(s)
<1>1. /\ s \notin born /\ table[s] = NoItem /\ born' = born \cup {s}
      /\ table' = [table EXCEPT ![s] = NewSessionItem(s, clock + SessionTtl)]
      /\ table \in [Session -> SessionItem]
      /\ UNCHANGED <<clock, codeCall, tokenCall>>
  BY DEF CreateSession, BornInv, TimeInv, TypeOK
<1>2. Kept
  BY <1>1 DEF Kept, Redeemed, AttemptsMade
<1>3. table'[s] # NoItem /\ table'[s].authorizationCode = None
  BY <1>1, Items
<1>4. \A r \in Session : r # s => table'[r] = table[r] /\ (r \in born' <=> r \in born)
  BY <1>1
<1>5. status[s] = "new"
  BY <1>1 DEF status
<1>6. status' = [status EXCEPT ![s] = "open"]
  BY <1>1, <1>3, <1>4 DEF status
<1>7. offer' = offer
  BY <1>1, <1>3, <1>4, Items DEF offer
<1> QED BY <1>1, <1>2, <1>5, <1>6, <1>7, KeptSets DEF Grant!Open

\* A deletion, and a sweep, close a session that is open.
LEMMA CloseStep ==
    ASSUME TimeInv, BornInv, NEW s \in Session, table[s] # NoItem,
           table' = [table EXCEPT ![s] = NoItem],
           UNCHANGED <<clock, born, codeCall, tokenCall>>
    PROVE  Grant!Close(s)
<1>1. table \in [Session -> SessionItem] /\ s \in born
  BY DEF BornInv, TimeInv, TypeOK
<1>2. /\ table'[s] = NoItem /\ table'[s].authorizationCode = None
      /\ \A r \in Session : r # s => table'[r] = table[r]
  BY <1>1, Items
<1>3. status[s] = "open"
  BY <1>1 DEF status
<1>4. status' = [status EXCEPT ![s] = "closed"]
  BY <1>1, <1>2 DEF status
<1>5. offer' = [offer EXCEPT ![s] = None]
  BY <1>1, <1>2 DEF offer
<1>6. Kept
  BY DEF Kept, Redeemed, AttemptsMade
<1> QED BY <1>3, <1>4, <1>5, <1>6, KeptSets DEF Grant!Close

LEMMA EraseStep ==
    ASSUME TimeInv, BornInv, NEW s,
           table' = [table EXCEPT ![s] = NoItem],
           UNCHANGED <<clock, born, codeCall, tokenCall>>
    PROVE  (\E r \in Session : Grant!Close(r)) \/ UNCHANGED Grant!vars
<1>1. table \in [Session -> SessionItem]
  BY DEF TimeInv, TypeOK
<1>2. CASE s \in Session /\ table[s] # NoItem
  BY <1>2, CloseStep
<1>3. CASE ~(s \in Session /\ table[s] # NoItem)
  <2>1. table' = table
    BY <1>1, <1>3
  <2>2. Kept
    BY DEF Kept, Redeemed, AttemptsMade
  <2> QED BY <2>1, <2>2, Stutter
<1> QED BY <1>2, <1>3

\* An attempt at the create command is a try of its code.
LEMMA TryStep ==
    ASSUME TypeOK, NEW c \in Code,
           CreateAuthCodeWrite(c) \/ CreateAuthCodeLost(c)
    PROVE  Grant!Try(c)
<1>1. /\ AttemptsMade(c) < CreateAttempts
      /\ AttemptsMade(c)' = AttemptsMade(c) + 1
      /\ \A e \in Code \ {c} : AttemptsMade(e)' = AttemptsMade(e)
  BY AttemptMade DEF AttemptsMade
<1>2. used' = [used EXCEPT ![c] = used[c] + 1] /\ used[c] < CreateAttempts
  BY <1>1 DEF used
<1> QED BY <1>2 DEF Grant!Try

\* An attempt that leaves the table as it was wastes the try.
LEMMA WasteStep ==
    ASSUME TypeOK, NEW c \in Code,
           CreateAuthCodeWrite(c) \/ CreateAuthCodeLost(c),
           table' = table
    PROVE  Grant!Waste(c)
<1>1. UNCHANGED <<clock, born, tokenCall>>
  BY DEF CreateAuthCodeWrite, CreateAuthCodeLost
<1>2. status' = status /\ offer' = offer /\ sold' = sold
  BY <1>1, NothingSold DEF status, offer, Redeemed
<1> QED BY <1>1, <1>2, TryStep DEF Grant!Waste

\* One that takes its code to the table grants it.
LEMMA GrantStep ==
    ASSUME TimeInv, BornInv, SentInv,
           NEW c \in Code, CreateAuthCodeWrite(c)
    PROVE  (\E s \in Session : Grant!Grant(s, c)) \/ Grant!Waste(c)
<1> DEFINE s == codeCall[c].session
           at == codeCall[c].at
           took == CreateAuthCodeCondition(table[s], at)
<1>1. /\ TypeOK
      /\ table \in [Session -> SessionItem] /\ clock \in Int
      /\ s \in Session /\ at \in Int /\ 0 <= at /\ at <= clock
  BY DEF CreateAuthCodeWrite, TimeInv, TypeOK, CallInv, SentInv, CodeCallState
<1>2. UNCHANGED <<clock, born, tokenCall>>
  BY DEF CreateAuthCodeWrite
<1>5. CASE ~took
  <2>1. table' = table
    BY <1>5 DEF CreateAuthCodeWrite
  <2> QED BY <1>1, <2>1, WasteStep
<1>6. CASE took
  <2>1. table' = [table EXCEPT ![s] =
                    WithAuthCode(table[s], s, c, at + AuthCodeTtl)]
    BY <1>6 DEF CreateAuthCodeWrite
  <2>2. /\ table'[s] # NoItem
        /\ table'[s].authorizationCode = c
        /\ table'[s].authorizationCodeExpiryDate = at + AuthCodeTtl
        /\ \A r \in Session : r # s => table'[r] = table[r]
    BY <1>1, <2>1, Items
  <2>3. table[s] # NoItem /\ s \in born
    BY <1>1, <1>6, NothingToUpdate DEF BornInv
  <2>4. status[s] = "open"
    BY <1>1, <2>3 DEF status
  <2>5. status' = status
    BY <1>1, <1>2, <2>2, <2>3 DEF status
  <2>6. offer[s] = None \/ offer[s].deadline < clock
    <3>1. \/ table[s].authorizationCode = None
          \/ /\ table[s].authorizationCodeExpiryDate # None
             /\ table[s].authorizationCodeExpiryDate < at
      BY <1>6 DEF CreateAuthCodeCondition, AttributeExists, Earlier
    <3>2. table[s].authorizationCodeExpiryDate \in Int \cup {None}
      BY <1>1 DEF SessionItem
    <3>3. \/ table[s].authorizationCode = None
          \/ table[s].authorizationCodeExpiryDate < clock
      <4> HIDE DEF s, at
      <4> QED BY <1>1, <3>1, <3>2
    <3> QED BY <1>1, <3>3 DEF offer
  <2>7. c # None /\ at + AuthCodeTtl \in AuthCodeTtl .. clock + AuthCodeTtl
    <3> HIDE DEF s, at
    <3> QED BY <1>1, NoneAssumption, TimesAreNatural
  <2>8. offer' = [offer EXCEPT ![s] = [code |-> c, deadline |-> at + AuthCodeTtl]]
    <3> HIDE DEF s, at
    <3> QED BY <1>1, <2>2, <2>7 DEF offer
  <2>9. Grant!Try(c) /\ sold' = sold
    BY <1>1, <1>2, TryStep, NothingSold DEF Redeemed
  <2>10. Grant!Grant(s, c)
    <3> HIDE DEF s, at
    <3> QED BY <1>2, <2>4, <2>5, <2>6, <2>7, <2>8, <2>9 DEF Grant!Grant
  <2> QED BY <1>1, <2>10
<1> QED BY <1>5, <1>6

\* A token is sold with its code, or has been.
LEMMA SoldStep ==
    ASSUME BudgetInv, NEW t \in Token, NEW c \in Code,
           tokenCall[t].code = c, tokenCall'[t].code = c, tokenCall'[t].took,
           \A u \in Token \ {t} : tokenCall'[u] = tokenCall[u]
    PROVE  \/ sold' = [sold EXCEPT ![c] = sold[c] + 1]
           \/ sold[c] > 0 /\ sold' = sold
<1>1. /\ Bought(c)' = Bought(c) \cup {t}
      /\ \A e \in Code \ {c} : Bought(e)' = Bought(e)
  BY DEF Bought, Redeemed
<1>2. IsFiniteSet(Bought(c))
  BY DEF BudgetInv
<1>3. CASE t \notin Bought(c)
  <2>1. Cardinality(Bought(c)') = Cardinality(Bought(c)) + 1
    BY <1>1, <1>2, <1>3, FS_AddElement
  <2> QED BY <1>1, <2>1 DEF sold
<1>4. CASE t \in Bought(c)
  <2>1. Cardinality(Bought(c)) \in Nat /\ Cardinality(Bought(c)) # 0
    BY <1>2, <1>4, FS_CardinalityType, FS_EmptySet
  <2>2. \A e \in Code : Bought(e)' = Bought(e)
    BY <1>1, <1>4
  <2> QED BY <2>1, <2>2 DEF sold
<1> QED BY <1>3, <1>4

\* An update that takes its token to the table spends the code.
LEMMA SpendStep ==
    ASSUME TimeInv, BudgetInv, BornInv, NEW t \in Token, TokenWrite(t)
    PROVE  (\E s \in Session : Grant!Spend(s)) \/ UNCHANGED Grant!vars
<1> DEFINE s == tokenCall[t].session
           c == tokenCall[t].code
           at == tokenCall[t].at
           took == RedeemCondition(table[s], c, at)
           stored == tokenCall[t].took \/ took
           served == [tokenCall[t] EXCEPT !.took = stored]
<1>1. /\ table \in [Session -> SessionItem]
      /\ tokenCall \in [Token -> TokenCallState]
      /\ s \in Session /\ c \in Code /\ at \in Int
  BY DEF TokenWrite, TimeInv, TypeOK, CallInv, TokenCallState
<1>2. UNCHANGED <<clock, born, codeCall>>
  BY DEF TokenWrite
<1>3. \A u \in Token \ {t} : tokenCall'[u] = tokenCall[u]
  BY <1>1 DEF TokenWrite
<1>4. /\ tokenCall'[t].took <=> tokenCall[t].took \/ took
      /\ tokenCall'[t].code = c
  <2>1. served \in TokenCallState /\ served.took = stored /\ served.code = c
    <3>1. stored \in BOOLEAN /\ tokenCall[t] \in TokenCallState
      BY <1>1
    <3> HIDE DEF stored
    <3> QED BY <3>1, TokenCallTypes DEF TokenCallState
  <2>2. \/ \E r : tokenCall'[t] = Ended(served, r)
        \/ tokenCall'[t] = Unanswered(served, RedeemAttempts)
    BY <1>1 DEF TokenWrite
  <2>3. tokenCall'[t].took = stored /\ tokenCall'[t].code = c
    <3> HIDE DEF stored, served, c
    <3> QED BY <2>1, <2>2, TokenCallKept
  <2> QED BY <2>3
<1>5. CASE ~took
  <2>1. table' = table
    BY <1>5 DEF TokenWrite
  <2>2. Kept
    <3> HIDE DEF s, at, took
    <3> QED BY <1>2, <1>3, <1>4, <1>5 DEF Kept, Redeemed, AttemptsMade
  <2> QED BY <1>2, <2>1, <2>2, Stutter
<1>6. CASE took
  <2>1. table' = [table EXCEPT ![s] =
                    WithAccessToken(table[s], s, t, at + AccessTokenTtl)]
    BY <1>6 DEF TokenWrite
  <2>2. /\ table'[s] # NoItem
        /\ table'[s].authorizationCode = None
        /\ \A r \in Session : r # s => table'[r] = table[r]
    BY <1>1, <2>1, Items
  <2>3. /\ table[s].authorizationCode = c /\ c # None /\ table[s] # NoItem
    BY <1>6, NothingToUpdate DEF RedeemCondition, AttributeExists
  <2>4. s \in born
    BY <1>1, <2>3 DEF BornInv
  <2>5. status' = status
    BY <1>1, <1>2, <2>2, <2>3 DEF status
  <2>6. offer[s] # None /\ offer[s].code = c
    <3>1. c \in Code /\ table[s].authorizationCodeExpiryDate \in Int
      BY <1>1, <1>6 DEF RedeemCondition, AttributeExists, SessionItem
    <3>2. offer[s] = [code |-> c, deadline |-> table[s].authorizationCodeExpiryDate]
      BY <1>1, <2>3 DEF offer
    <3>3. offer[s] \in [code : Code, deadline : Int] /\ offer[s].code = c
      <4> HIDE DEF s, c
      <4> QED BY <3>1, <3>2
    <3> QED BY <3>3, NoneIsNoOffer
  <2>7. offer' = [offer EXCEPT ![s] = None]
    BY <1>1, <2>2 DEF offer
  <2> HIDE DEF s, at
  <2>8. tokenCall'[t].took
    BY <1>4, <1>6
  <2> HIDE DEF took
  <2>9. \/ sold' = [sold EXCEPT ![c] = sold[c] + 1]
        \/ sold[c] > 0 /\ sold' = sold
    BY <1>1, <1>3, <1>4, <2>8, SoldStep
  <2> HIDE DEF c
  <2>10. used' = used
    BY <1>2 DEF used, AttemptsMade
  <2>11. Grant!Spend(s)
    BY <1>2, <2>5, <2>6, <2>7, <2>9, <2>10 DEF Grant!Spend
  <2> QED BY <1>1, <2>11
<1> QED BY <1>5, <1>6

-----------------------------------------------------------------------------
(* The refinement.                                                         *)

GrantInv == TimeInv /\ BudgetInv /\ BornInv /\ SentInv

LEMMA GrantInvInit == Init => GrantInv
  BY TimeInit, BudgetInit DEF Init, GrantInv, BornInv, SentInv

LEMMA GrantInvStep == GrantInv /\ [Next]_vars => GrantInv'
  BY TypeStep, TimeStep, BudgetStep, BornStep, SentStep DEF GrantInv, TimeInv

\* Every step of the requests and of DynamoDB is a step of the grant or none.
LEMMA GrantSimulation ==
    GrantInv /\ [Next]_vars => [Grant!Next]_(Grant!vars)
<1> SUFFICES ASSUME GrantInv, [Next]_vars
             PROVE  Grant!Next \/ UNCHANGED Grant!vars
  OBVIOUS
<1> USE DEF GrantInv
<1>1. ASSUME NEW s \in Session, CreateSession(s) PROVE Grant!Open(s)
  BY <1>1, OpenStep
<1>2. ASSUME NEW s \in Session, Sweep(s)
      PROVE  (\E r \in Session : Grant!Close(r)) \/ UNCHANGED Grant!vars
  BY <1>2, EraseStep DEF Sweep
<1>3. ASSUME NEW d \in DeleteCall, DeleteWrite(d)
      PROVE  (\E r \in Session : Grant!Close(r)) \/ UNCHANGED Grant!vars
  BY <1>3, EraseStep DEF DeleteWrite
<1>4. ASSUME NEW c \in Code, CreateAuthCodeWrite(c)
      PROVE  (\E s \in Session : Grant!Grant(s, c)) \/ Grant!Waste(c)
  BY <1>4, GrantStep
<1>5. ASSUME NEW t \in Token, TokenWrite(t)
      PROVE  (\E s \in Session : Grant!Spend(s)) \/ UNCHANGED Grant!vars
  BY <1>5, SpendStep
<1>6. ASSUME NEW c \in Code, CreateAuthCodeLost(c)
      PROVE  Grant!Waste(c)
  BY <1>6, WasteStep DEF CreateAuthCodeLost, TimeInv
<1>a. ASSUME NEW c \in Code, NEW s \in Session, CreateAuthCodeSend(c, s)
      PROVE  UNCHANGED Grant!vars
  BY <1>a, SendQuiet, Stutter
<1>7. ASSUME NEW t \in Token,
             \/ \E c \in Code : TokenQuery(t, c)
             \/ TokenReadSession(t) \/ TokenVerify(t) \/ TokenFail(t) \/ TokenLost(t)
      PROVE  UNCHANGED Grant!vars
  BY <1>7, TokenQuiet, Stutter
<1>8. CASE \/ \E s \in Session : Authorize(s) \/ Replicate(s) \/ UpdateIndex(s)
           \/ \E d \in DeleteCall :
                DeleteLost(d) \/ \E s \in Session : DeleteSend(d, s)
           \/ Finished \/ UNCHANGED vars
  <2>1. UNCHANGED <<clock, table, born, codeCall, tokenCall>>
    BY <1>8 DEF Authorize, Replicate, UpdateIndex, DeleteLost, DeleteSend, Finished
  <2>2. Kept
    BY <2>1 DEF Kept, Redeemed, AttemptsMade
  <2> QED BY <2>1, <2>2, Stutter
<1>9. CASE Tick
  <2>1. clock' = clock + 1 /\ UNCHANGED <<table, born, codeCall, tokenCall>>
    BY <1>9 DEF Tick
  <2>2. Kept /\ status' = status /\ offer' = offer
    BY <2>1 DEF Kept, Redeemed, AttemptsMade, status, offer
  <2> QED BY <2>1, <2>2, KeptSets DEF Grant!Tick, Grant!Next
<1> QED
  BY <1>1, <1>2, <1>3, <1>4, <1>5, <1>6, <1>a, <1>7, <1>8, <1>9
  DEF Next, CodeStep, TokenStep, DeleteStep, Grant!Next

\* However often the commands are sent, whatever the requests, their stale reads
\* and lost answers, the sweeps and the deletions do, the session table is the
\* grant of AuthorizationCodeGrant, which sells a code once for each attempt.
THEOREM TableGrantsCodes == Spec => ImplementsGrant
<1>1. Init => Grant!Init
  <2> SUFFICES ASSUME Init PROVE Grant!Init
    OBVIOUS
  <2>1. ASSUME NEW c \in Code
        PROVE  AttemptsMade(c) = 0 /\ Cardinality(Bought(c)) = 0
    <3>1. Bought(c) = {}
      BY DEF Init, Bought, Redeemed
    <3> QED BY <3>1, FS_EmptySet DEF Init, AttemptsMade
  <2> QED BY <2>1 DEF Init, Grant!Init, status, offer, used, sold, NoItem
<1> QED
  BY <1>1, GrantInvInit, GrantInvStep, GrantSimulation, PTL
  DEF Spec, ImplementsGrant, Grant!Spec
=============================================================================
