---------------------------- MODULE MCTTSEngine ----------------------------
(***************************************************************************)
(* TTSEngine with two models of each kind, two sentences and two files;    *)
(* enough initializations to replace a replaced backend.                   *)
(***************************************************************************)
EXTENDS TTSEngine, TLC

Symmetry == Permutations(Melgen) \cup Permutations(Vocoder) \cup Permutations(Ids)
              \cup Permutations(Outfile)
=============================================================================
