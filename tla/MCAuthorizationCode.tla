------------------------ MODULE MCAuthorizationCode ------------------------
(***************************************************************************)
(* Instances of AuthorizationCode for TLC.  The invocations of one kind    *)
(* are interchangeable, and so are the sessions: the safety runs use that. *)
(***************************************************************************)
EXTENDS AuthorizationCode, TLC

CallSymmetry == Permutations(Session) \cup Permutations(Code)
                \cup Permutations(Token)
=============================================================================
