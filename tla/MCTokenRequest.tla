--------------------------- MODULE MCTokenRequest ---------------------------
(* Instances of TokenRequest for TLC.                                      *)
EXTENDS TokenRequest, TLC

TokenSymmetry == Permutations(Client) \cup Permutations(Uri)
                     \cup Permutations(Session)
=============================================================================
