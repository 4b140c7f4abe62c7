-------------------------- MODULE TTSPluginService --------------------------
(***************************************************************************)
(* TTSPlugin implements SpeechService.                                     *)
(***************************************************************************)
EXTENDS TTSPlugin

\* The calls, without the state of their Futures and without history.
RequestsMade ==
  [i \in DOMAIN calls |->
     [op |-> calls[i].op, plugin |-> calls[i].plugin, ids |-> calls[i].ids, out |-> calls[i].out]]

(***************************************************************************)
(* A call takes effect when its file is finished or, if it has none, when  *)
(* the thread is done with it.  The one a process dies of never does.      *)
(***************************************************************************)
CallsPerformed ==
  IF alive = "up" /\ pc \in {"idle", "synthesized"} THEN taken ELSE taken - 1

CallsCompleted == {i \in DOMAIN calls : calls[i].future = "done"}

\* The last initialize to take effect gives the voice, if it loaded its models.
VoiceGiver(k) ==
  /\ k \in 1 .. CallsPerformed /\ calls[k].op = "initialize" /\ calls[k].outcome = "loaded"
  /\ \A j \in k + 1 .. CallsPerformed : calls[j].op # "initialize"
VoiceNow ==
  IF \E k \in DOMAIN calls : VoiceGiver(k)
  THEN LET p == calls[CHOOSE k \in DOMAIN calls : VoiceGiver(k)].plugin
       IN  [melgen |-> MelgenOf[p], vocoder |-> VocoderOf[p]]
  ELSE None

Service == INSTANCE SpeechService WITH
  Speeches  <- AudioOf,
  process   <- alive,
  requests  <- RequestsMade,
  performed <- CallsPerformed,
  completed <- CallsCompleted,
  voice     <- VoiceNow,
  disk      <- files

(***************************************************************************)
(* However calls of several objects overlap and however the two threads    *)
(* interleave, callers cannot tell the plugin from one that does one call  *)
(* after the other: files, voices, answers and crashes are as              *)
(* SpeechService allows.                                                   *)
(***************************************************************************)
ImplementsService == Service!Spec
=============================================================================
