---------------------------- MODULE MCExampleApp ----------------------------
(***************************************************************************)
(* ExampleApp with its one voice.                                          *)
(***************************************************************************)
EXTENDS ExampleApp, TLC

CONSTANTS p1, m1, v1

AppMelgen  == p1 :> m1
AppVocoder == p1 :> v1
AppBundled == {m1, v1}
=============================================================================
