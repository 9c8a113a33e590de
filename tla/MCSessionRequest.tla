-------------------------- MODULE MCSessionRequest --------------------------
(***************************************************************************)
(* Instances of SessionRequest for TLC: a proper request of each client,   *)
(* all that differ from one in at most two fields, and proper ones with    *)
(* every list of driving permits.                                          *)
(***************************************************************************)
EXTENDS SessionRequest, TLC

\* Addresses that end in a postal code, with and without a separator.
FullAddress ==
    {front \o separator \o code :
        front \in {<<>>, <<"x">>, <<Comma>>, <<Space>>, <<"x", "x", "x">>},
        separator \in {<<>>, <<Comma>>, <<Space>>, <<Comma, Space>>, <<Space, Space>>},
        code \in PostalCode}

Blanks(n) == [i \in 1 .. n |-> Space]

\* Permits with and without a code, in either order.
Mixed ==
    LET Ending == {<<Comma, Space>> \o code : code \in PostalCode}
        Others == {<<"x">>} \cup {Blanks(n) : n \in {0, 3, 8}}
    IN  (Ending \X Ending) \cup (Ending \X Others) \cup (Others \X Ending) \cup (Others \X Others)

\* Shared claims that make a difference to the handling of a request, and those
\* that make one to the addresses only.
OddClaims ==
    [address : {None, <<"home">>, <<"home", Null>>},
     drivingPermit : {None, <<>>, <<Null>>, <<Blanks(7)>>, <<Blanks(3)>>}
                     \cup {<<text, text>> : text \in PostalCode}]
DrivingPermits ==
    [address : {None, <<"home">>},
     drivingPermit : Mixed \cup {<<Blanks(n)>> : n \in 0 .. 9} \cup {<<text>> : text \in FullAddress}]

Proper(c) ==
    [client |-> c, jwe |-> "opens", signer |-> c, timely |-> TRUE, complete |-> TRUE,
     client_id |-> c, redirects |-> TRUE,
     evidence_requested |-> None, vtr |-> <<"P2">>,
     storage |-> <<Token(TRUE, "ES256")>>,
     shared_claims |-> None, headers |-> {}]

OddValues ==
    [client |-> {None}, jwe |-> {"refused", "malformed"},
     signer |-> Client \cup {None}, timely |-> {FALSE}, complete |-> {FALSE},
     client_id |-> Client, redirects |-> {FALSE},
     evidence_requested |->
         {Null, <<>>, [verificationScore |-> 0], [strengthScore |-> 0],
          [strengthScore |-> 4, validityScore |-> 5], [identityFraudScore |-> 4],
          [scoringPolicy |-> "other"], [otherScore |-> 1]},
     vtr |-> {None, Null, <<>>, <<"P1", "P5">>},
     storage |-> {None, Null, <<>>, <<Token(FALSE, "ES256")>>, <<Token(TRUE, "none")>>,
                  <<Token(TRUE, None)>>, <<Token(TRUE, "ES256"), Token(TRUE, "ES256")>>},
     shared_claims |-> OddClaims,
     headers |-> {{h} : h \in HeadersRead}]

MCRequests ==
    LET Odd(r) == UNION {{[r EXCEPT ![f] = v] : v \in OddValues[f]} : f \in DOMAIN OddValues}
    IN  UNION {UNION {Odd(r) : r \in Odd(Proper(c))} : c \in Client}
        \cup {[Proper(c) EXCEPT !.shared_claims = claims] : c \in Client, claims \in DrivingPermits}

ClientSymmetry == Permutations(Client)
=============================================================================
