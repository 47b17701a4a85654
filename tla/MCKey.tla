-------------------------------- MODULE MCKey ---------------------------------
(* Small instances of Key for TLC.                                         *)
EXTENDS Key, TLC

(* Told apart only by equality.                                            *)
Symmetry ==
  Permutations(Names) \cup Permutations(JobIds) \cup
  Permutations(KeyIds) \cup Permutations(Passwords)
===============================================================================
