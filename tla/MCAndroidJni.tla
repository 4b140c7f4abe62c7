---------------------------- MODULE MCAndroidJni ----------------------------
(***************************************************************************)
(* AndroidJni with two models of each kind, two sentences and one file.    *)
(***************************************************************************)
EXTENDS AndroidJni, TLC

Symmetry == Permutations(Melgen) \cup Permutations(Vocoder) \cup Permutations(Ids)
=============================================================================
