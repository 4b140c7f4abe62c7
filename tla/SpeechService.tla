---------------------------- MODULE SpeechService ----------------------------
(***************************************************************************)
(* What the plugin promises to its callers: the three calls of the Dart    *)
(* API take effect one at a time, in the order they were made, on one      *)
(* voice and a set of files.  There are no threads here, no channel, no    *)
(* backend and no heap.                                                    *)
(***************************************************************************)
EXTENDS Naturals, Sequences

CONSTANTS
  Plugin,      \* TTSPlugin objects
  MelgenOf,    \* the mel generator each one is configured with
  VocoderOf,   \* the vocoder each one is configured with
  Bundled,     \* the model files that are in the application
  Speeches,    \* contents of a complete wav file
  Ids,         \* symbol id sequences
  Outfile,     \* paths of wav files
  None,        \* no voice, no file
  Partial      \* the content of a file that is being written

Request == [op     : {"initialize", "synthesize", "dispose"},
            plugin : Plugin \cup {None},
            ids    : Ids \cup {None},
            out    : Outfile \cup {None}]

Voice == {[melgen |-> MelgenOf[p], vocoder |-> VocoderOf[p]] : p \in Plugin}

VARIABLES
  process,    \* "up", "exit" (it ended itself) or "crash" (memory fault)
  requests,   \* the calls made
  performed,  \* how many of them have taken effect
  completed,  \* the calls whose Futures have completed
  voice,      \* the models that speak, None when no promise is made
  disk        \* the wav files

vars == <<process, requests, performed, completed, voice, disk>>

Init ==
  /\ process = "up"
  /\ requests = << >>
  /\ performed = 0
  /\ completed = {}
  /\ voice = None
  /\ disk = [f \in Outfile |-> None]

\* A call is made, whatever is still to be done.
Call ==
  /\ process = "up"
  /\ \E r \in Request : requests' = Append(requests, r)
  /\ UNCHANGED <<process, performed, completed, voice, disk>>

\* The next call to take effect is an op.
Due(op) ==
  /\ process = "up"
  /\ performed < Len(requests)
  /\ requests[performed + 1].op = op
Now == requests[performed + 1]

Perform == performed' = performed + 1 /\ UNCHANGED <<process, requests, completed>>

\* The object's configured voice takes over, or none can be relied on.
PerformInitialize ==
  /\ Due("initialize")
  /\ voice' \in {None, [melgen |-> MelgenOf[Now.plugin], vocoder |-> VocoderOf[Now.plugin]]}
  /\ Perform
  /\ UNCHANGED disk

\* The file is emptied some time before it is complete: others may see that.
EmptyFile ==
  /\ Due("synthesize")
  /\ disk' = [disk EXCEPT ![Now.out] = Partial]
  /\ UNCHANGED <<process, requests, performed, completed, voice>>

\* What the voice makes of the ids; anything, when there is no voice to rely on.
Spoken ==
  IF voice = None THEN Speeches
  ELSE {[voc |-> voice.vocoder, mel |-> [gen |-> voice.melgen, ids |-> Now.ids]]}

(***************************************************************************)
(* The file holds the speech, or it could not be written and is as it was  *)
(* (emptied or not): callers are not told.  No other file changes.         *)
(***************************************************************************)
PerformSynthesize ==
  /\ Due("synthesize")
  /\ \E content \in Spoken \cup {disk[Now.out]} : disk' = [disk EXCEPT ![Now.out] = content]
  /\ Perform
  /\ UNCHANGED voice

PerformDispose ==
  /\ Due("dispose")
  /\ Perform
  /\ UNCHANGED <<voice, disk>>

\* Futures complete in order, after the effect; a dispose is never answered.
Complete(i) ==
  /\ process = "up"
  /\ requests[i].op # "dispose"
  /\ i \notin completed
  /\ \A j \in 1 .. i - 1 : requests[j].op # "dispose" => j \in completed
  /\ completed' = completed \cup {i}
  /\ UNCHANGED <<process, requests, performed, voice, disk>>

(***************************************************************************)
(* The process ends itself only on behalf of an initialize or synthesize,  *)
(* and a memory fault needs an initialize whose vocoder is missing or a    *)
(* synthesize without a voice.                                             *)
(***************************************************************************)
Die ==
  /\ Due("initialize") \/ Due("synthesize")
  /\ \/ process' = "exit"
     \/ /\ process' = "crash"
        /\ \/ Now.op = "initialize" /\ VocoderOf[Now.plugin] \notin Bundled
           \/ Now.op = "synthesize" /\ voice = None
  /\ UNCHANGED <<requests, performed, completed, voice, disk>>

Next ==
  \/ Call
  \/ PerformInitialize \/ EmptyFile \/ PerformSynthesize \/ PerformDispose
  \/ \E i \in 1 .. performed : Complete(i)
  \/ Die

Spec == Init /\ [][Next]_vars
=============================================================================
