---------------------------- MODULE MCValidation ----------------------------
(* An instance of Validation for TLC: a query and two sessions, and
   displays of two modes. *)
EXTENDS Validation, TLC
CONSTANTS q1, s1, s2, m1, m2
OneQuery == {q1}
TwoStarts == {s1, s2}
TwoModes == {m1, m2}
Same == Permutations(TwoStarts) \cup Permutations(TwoModes)
=============================================================================
