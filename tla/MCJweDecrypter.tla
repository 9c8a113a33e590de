-------------------------- MODULE MCJweDecrypter --------------------------
(* Instances of JweDecrypter for TLC: the keys are interchangeable.         *)
EXTENDS JweDecrypter, TLC

KeySymmetry == Permutations(Key)
=============================================================================
