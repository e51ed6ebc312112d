------------------------- MODULE MCRegistrationRound -------------------------
(* RegistrationRound with small sets of keys, challenges and calls. *)
EXTENDS RegistrationRound, TLC

Symmetry == Permutations(Keys) \cup Permutations(Challenges) \cup Permutations(Calls)
==============================================================================
