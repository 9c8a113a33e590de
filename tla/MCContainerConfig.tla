------------------------- MODULE MCContainerConfig -------------------------
(* Instances of ContainerConfig for TLC.                                    *)
EXTENDS ContainerConfig, TLC

ConfigSymmetry == Permutations(Client) \cup Permutations(Name)
=============================================================================
