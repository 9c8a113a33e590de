---------------------------- MODULE SessionTable ----------------------------
(***************************************************************************)
(* One item of the DynamoDB session table, and the update and condition    *)
(* expressions the lambdas send about it.  DynamoDB evaluates a condition  *)
(* and applies its update atomically, on the item as it is at that moment. *)
(* An attribute an item does not have is None here; a comparison with a    *)
(* missing attribute is false.  An UpdateCommand whose condition holds on  *)
(* a missing item creates it, so every update also sets the key.           *)
(* Attributes no request of this protocol tells apart are left out.        *)
(***************************************************************************)
EXTENDS Integers

CONSTANTS Session,    \* session identifiers, each drawn by randomUUID()
          Code,       \* authorization codes, each drawn by generateAuthCode()
          Token,      \* bearer access tokens
          None        \* an absent attribute

ASSUME NoneAssumption == None \notin Session \cup Code \cup Token \cup Int

SessionItem ==
    [sessionId                   : Session \cup {None},
     expiryDate                  : Int \cup {None},
     authorizationCode           : Code \cup {None},
     authorizationCodeExpiryDate : Int \cup {None},
     accessToken                 : Token \cup {None},
     accessTokenExpiryDate       : Int \cup {None}]

NoItem ==
    [sessionId                   |-> None,
     expiryDate                  |-> None,
     authorizationCode           |-> None,
     authorizationCodeExpiryDate |-> None,
     accessToken                 |-> None,
     accessTokenExpiryDate       |-> None]

AttributeExists(attribute) == attribute # None

\* attribute < time: never true of an attribute that is not there.
Earlier(attribute, time) == AttributeExists(attribute) /\ attribute < time

\* The item POST /session puts: nothing but its own expiry is known yet.
NewSessionItem(s, expiry) ==
    [NoItem EXCEPT !.sessionId = s, !.expiryDate = expiry]

-----------------------------------------------------------------------------
\* Slips in the condition, to test the properties with: the existence of the
\* session forgotten; a code that lapses this second taken for lapsed; the
\* wrong attribute asked for.
CreateForAnySession(item, now) ==
    \/ ~AttributeExists(item.authorizationCode)
    \/ Earlier(item.authorizationCodeExpiryDate, now)
CreateOverLastSecond(item, now) ==
    \/ AttributeExists(item.sessionId) /\ ~AttributeExists(item.authorizationCode)
    \/ Earlier(item.authorizationCodeExpiryDate, now + 1)
CreateUnlessExpirySet(item, now) ==
    \/ /\ AttributeExists(item.sessionId)
       /\ ~AttributeExists(item.authorizationCodeExpiryDate)
    \/ Earlier(item.authorizationCodeExpiryDate, now)

\* POST /create-auth-code: AND binds tighter than OR in the expression.
CreateAuthCodeCondition(item, now) ==
    \/ AttributeExists(item.sessionId) /\ ~AttributeExists(item.authorizationCode)
    \/ Earlier(item.authorizationCodeExpiryDate, now)

\* A slip: the token of the session's earlier code ended by a new code.
WithAuthCodeOnly(item, s, code, expiry) ==
    [NoItem EXCEPT !.sessionId = s,
                   !.expiryDate = item.expiryDate,
                   !.authorizationCode = code,
                   !.authorizationCodeExpiryDate = expiry]

WithAuthCode(item, s, code, expiry) ==
    [item EXCEPT !.sessionId = s,
                 !.authorizationCode = code,
                 !.authorizationCodeExpiryDate = expiry]

\* Slips: any code of the session accepted; a code accepted as it lapses.
RedeemAnyCode(item, code, now) ==
    /\ AttributeExists(item.authorizationCode)
    /\ AttributeExists(item.authorizationCodeExpiryDate)
    /\ item.authorizationCodeExpiryDate > now
RedeemAtExpiry(item, code, now) ==
    /\ item.authorizationCode = code
    /\ AttributeExists(item.authorizationCodeExpiryDate)
    /\ item.authorizationCodeExpiryDate >= now

\* POST /token: the code must still be the one redeemed, and strictly live.
RedeemCondition(item, code, now) ==
    /\ AttributeExists(item.authorizationCode)
    /\ item.authorizationCode = code
    /\ AttributeExists(item.authorizationCodeExpiryDate)
    /\ item.authorizationCodeExpiryDate > now

\* A slip: the REMOVE clause forgotten.
WithTokenBesideCode(item, s, token, expiry) ==
    [item EXCEPT !.sessionId = s, !.accessToken = token,
                 !.accessTokenExpiryDate = expiry]

\* authorizationCodeExpiryDate stays behind when the code is removed.
WithAccessToken(item, s, token, expiry) ==
    [item EXCEPT !.sessionId = s,
                 !.accessToken = token,
                 !.accessTokenExpiryDate = expiry,
                 !.authorizationCode = None]

\* hasDateExpired: undefined < now is false in JavaScript.
HasDateExpired(date, now) == Earlier(date, now)

\* DynamoDB's TTL on expiryDate: an item without one is never swept.
SweepDue(item, now) == Earlier(item.expiryDate, now)
=============================================================================
