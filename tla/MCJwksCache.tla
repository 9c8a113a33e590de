---------------------------- MODULE MCJwksCache ----------------------------
(* Instances of JwksCache for TLC: the client's keys are interchangeable.   *)
EXTENDS JwksCache, TLC

KeySymmetry == Permutations(Key)
=============================================================================
