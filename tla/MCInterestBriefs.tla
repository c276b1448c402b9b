--------------------------- MODULE MCInterestBriefs ---------------------------
(* Constants of InterestBriefs for TLC.                                       *)
EXTENDS InterestBriefs, TLC

CONSTANTS w1, w2, old, new, de, fr

(* Nothing orders slots, inputs or languages.                                *)
Symmetry == Permutations(Workers) \cup Permutations(Inputs) \cup Permutations(Locales)
===============================================================================
