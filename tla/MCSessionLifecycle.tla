------------------------ MODULE MCSessionLifecycle ------------------------
(* Instances of SessionLifecycle for TLC.                                  *)
EXTENDS SessionLifecycle, TLC

UpdateSymmetry ==
    Permutations(Session) \cup Permutations(Update) \cup Permutations(Field \ OddField)
=============================================================================
