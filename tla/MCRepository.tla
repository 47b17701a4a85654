----------------------------- MODULE MCRepository -----------------------------
(* Small instances of Repository for TLC.                                  *)
EXTENDS Repository, TLC

(* Names, passwords and URLs are told apart only by equality.              *)
Symmetry == Permutations(Names) \cup Permutations(Passwords) \cup Permutations(Urls)
===============================================================================
