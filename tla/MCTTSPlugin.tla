---------------------------- MODULE MCTTSPlugin ----------------------------
(***************************************************************************)
(* TTSPlugin for a few TTSPlugin objects in one isolate, each configured   *)
(* with a voice: a mel generator and a vocoder.                            *)
(***************************************************************************)
EXTENDS TTSPluginService, TLC

CONSTANTS p1, p2, p3, p4, m1, m2, m3, v1, v2, v3

\* Two complete voices, one whose vocoder and one whose mel generator is not bundled.
MCMelgenOf  == (p1 :> m1) @@ (p2 :> m2) @@ (p3 :> m1) @@ (p4 :> m3)
MCVocoderOf == (p1 :> v1) @@ (p2 :> v2) @@ (p3 :> v3) @@ (p4 :> v1)
MCBundled   == {m1, m2, v1, v2}
=============================================================================
