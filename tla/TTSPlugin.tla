------------------------------ MODULE TTSPlugin ------------------------------
(***************************************************************************)
(* The plugin end to end on iOS: TTSPlugin objects in the Dart isolate     *)
(* (tts_plugin.dart), the method channel, the handler on the platform      *)
(* thread (TfliteTtsPlugin.mm) and the native core it calls (TTSEngine).   *)
(*                                                                         *)
(* The two threads share nothing but the channel and the wav files.  The   *)
(* channel carries calls one way and replies the other, each in order.     *)
(* It knows nothing of TTSPlugin objects: they all share one handler and   *)
(* the one static backend.                                                 *)
(***************************************************************************)
EXTENDS TTSEngine, Sequences

CONSTANTS
  MaxCalls,   \* bound: calls of the Dart API
  Plugin,     \* TTSPlugin objects
  MelgenOf,   \* melgenPath of each object's configuration
  VocoderOf,  \* vocoderPath of each object's configuration
  Bundled,    \* the model files that are in the application bundle
  MaxFd       \* file descriptors the process can have open for model streams

ASSUME ConfigurationAssumption ==
  /\ MaxCalls \in Nat /\ MaxFd \in Nat
  /\ MelgenOf \in [Plugin -> Melgen]
  /\ VocoderOf \in [Plugin -> Vocoder]

VARIABLES
  calls,      \* the calls put on the channel, in order
  taken,      \* how many of them the platform thread has taken
  replies,    \* replies on their way to the isolate, by the number of the call
  fds         \* descriptors held by melgen_s and vocoder_s streams

pluginVars == <<calls, taken, replies, fds>>
vars       == <<engineVars, pluginVars>>

(***************************************************************************)
(* A call: its arguments, the state of its Future, and how it ended.       *)
(* outcome is history: what initialize() made of its streams, or how       *)
(* ExportWAV ended.  Dart learns neither: both functions return 0.         *)
(***************************************************************************)
CallRecord ==
  [op      : {"initialize", "synthesize", "dispose"},
   plugin  : Plugin \cup {None},
   ids     : Ids \cup {None},
   out     : Outfile \cup {None},
   future  : {"pending", "done"},
   outcome : {"unknown", "loaded", "unloaded", "none", "closed", "short", "full"}]

TypeOK ==
  /\ EngineTypeOK
  /\ calls \in Seq(CallRecord)
  /\ taken \in 0 .. Len(calls)
  /\ replies \in Seq(Nat) /\ \A n \in DOMAIN replies : replies[n] \in DOMAIN calls
  /\ fds \in 0 .. MaxFd

Init ==
  /\ EngineInit
  /\ calls = << >>
  /\ taken = 0
  /\ replies = << >>
  /\ fds = 0

-----------------------------------------------------------------------------
(***************************************************************************)
(* The Dart isolate                                                        *)
(***************************************************************************)

\* invokeMethod puts the call on the channel; the async function awaits the reply.
Invoke(op, p, ids, outfile) ==
  /\ alive = "up"
  /\ Len(calls) < MaxCalls
  /\ calls' = Append(calls, [op |-> op, plugin |-> p, ids |-> ids, out |-> outfile,
                             future |-> "pending", outcome |-> "unknown"])
  /\ UNCHANGED <<engineVars, taken, replies, fds>>

InvokeInitialize(p) == Invoke("initialize", p, None, None)

(***************************************************************************)
(* ids: the symbolIds given, or what textToSequence makes of the text.     *)
(* (When that throws, nothing is sent: no step of this system.)  outfile:  *)
(* the one given, or synthesized.wav in the configuration's output         *)
(* directory.                                                              *)
(***************************************************************************)
InvokeSynthesize(ids, outfile) == Invoke("synthesize", None, ids, outfile)

InvokeDispose == Invoke("dispose", None, None, None)

Deliver_AtNextCall ==
  /\ alive = "up"
  /\ replies # << >> /\ taken < Len(calls)
  /\ calls' = [calls EXCEPT ![Head(replies)].future = "done"]
  /\ replies' = Tail(replies)
  /\ UNCHANGED <<engineVars, taken, fds>>

\* The reply completes the Future; it carries 0, which is success.
Deliver ==
  /\ alive = "up"
  /\ replies # << >>
  /\ calls' = [calls EXCEPT ![Head(replies)].future = "done"]
  /\ replies' = Tail(replies)
  /\ UNCHANGED <<engineVars, taken, fds>>

-----------------------------------------------------------------------------
(***************************************************************************)
(* The platform thread                                                     *)
(***************************************************************************)

\* The call the thread takes off the channel next, and the one it is handling.
Upcoming == calls[taken + 1]
Handling == calls[taken]

\* Take a call of this name; the thread handles it to the end.
Take(op) ==
  /\ At("idle")
  /\ taken < Len(calls)
  /\ Upcoming.op = op
  /\ taken' = taken + 1
  /\ UNCHANGED <<calls, replies>>

HandleInitialize_OpensTwice ==
  LET m == MelgenOf[Upcoming.plugin]
      v == VocoderOf[Upcoming.plugin]
      mopen == fds < MaxFd
      vopen == v \in Bundled /\ fds + 1 < MaxFd
  IN
  /\ Take("initialize")
  /\ m \in Bundled
  /\ Initialize([file |-> m, good |-> mopen], [file |-> v, good |-> vopen])
  /\ fds' = fds + (IF mopen THEN 2 ELSE 0) + (IF vopen THEN 2 ELSE 0)

(***************************************************************************)
(* A missing mel generator ends the process.  A missing vocoder does not:  *)
(* its null path goes to ifstream and to stat, which fault or fail, and    *)
(* stat's failure leaves the mel generator's size in place.  The streams   *)
(* are never deleted, so their descriptors stay open; without one left an  *)
(* ifstream does not open and its read fails.                              *)
(***************************************************************************)
HandleInitialize ==
  LET m == MelgenOf[Upcoming.plugin]
      v == VocoderOf[Upcoming.plugin]
      mopen == fds < MaxFd
      vopen == v \in Bundled /\ fds + 1 < MaxFd
  IN
  /\ Take("initialize")
  /\ \/ /\ m \in Bundled
        /\ Initialize([file |-> m, good |-> mopen], [file |-> v, good |-> vopen])
        /\ fds' = fds + (IF mopen THEN 1 ELSE 0) + (IF vopen THEN 1 ELSE 0)
     \/ m \notin Bundled /\ Exit /\ UNCHANGED fds
     \/ m \in Bundled /\ v \notin Bundled /\ Crash /\ UNCHANGED fds

HandleSynthesize ==
  /\ Take("synthesize")
  /\ Synthesize(Upcoming.ids, Upcoming.out)
  /\ UNCHANGED fds

HandleDispose_DeletesBackend ==
  /\ Take("dispose")
  /\ backend' = "null"
  /\ UNCHANGED <<alive, pc, given, speak, inits, fields, buffers, melgens, vocoders,
                 ioVars, fds>>

\* The branch is empty: it neither releases anything nor calls result().
HandleDispose ==
  /\ Take("dispose")
  /\ UNCHANGED <<engineVars, fds>>

NativeStep == EngineStep /\ UNCHANGED pluginVars

Reply_InFront ==
  /\ Return
  /\ replies' = <<taken>> \o replies
  /\ UNCHANGED <<calls, taken, fds>>

Reply_OnlyIfSaved ==
  /\ Return
  /\ replies' = IF saved = "full" THEN Append(replies, taken) ELSE replies
  /\ UNCHANGED <<calls, taken, fds>>

\* result(retCode), with retCode always 0.
Reply ==
  /\ Return
  /\ calls' = [calls EXCEPT ![taken].outcome =
                 IF pc = "synthesized" THEN saved
                 ELSE IF Readable THEN "loaded" ELSE "unloaded"]
  /\ replies' = Append(replies, taken)
  /\ UNCHANGED <<taken, fds>>

PlatformThread ==
  HandleInitialize \/ HandleSynthesize \/ HandleDispose \/ NativeStep \/ Reply

Next ==
  \/ \E p \in Plugin : InvokeInitialize(p)
  \/ \E ids \in Ids, outfile \in Outfile : InvokeSynthesize(ids, outfile)
  \/ InvokeDispose
  \/ Deliver
  \/ PlatformThread

Spec == Init /\ [][Next]_vars

\* Both threads run while they have something to do; nobody has to call.
FairSpec == Spec /\ WF_vars(PlatformThread) /\ WF_vars(Deliver)

-----------------------------------------------------------------------------
(***************************************************************************)
(* Properties                                                              *)
(***************************************************************************)

\* Call k is the last initialize sent before call i.
LastInitialize(k, i) ==
  /\ k < i /\ calls[k].op = "initialize"
  /\ \A j \in k + 1 .. i - 1 : calls[j].op # "initialize"

\* What call i asked for, spoken by the models configured for call k.
SpeechOf(k, i) ==
  [voc |-> VocoderOf[calls[k].plugin],
   mel |-> [gen |-> MelgenOf[calls[k].plugin], ids |-> calls[i].ids]]

(***************************************************************************)
(* Replies are neither lost, duplicated nor reordered: the Futures of      *)
(* initialize and synthesize complete in the order of the calls.           *)
(***************************************************************************)
FuturesCompleteInOrder ==
  \A i, j \in DOMAIN calls :
    i < j /\ calls[j].future = "done" /\ calls[i].op # "dispose" => calls[i].future = "done"

(***************************************************************************)
(* When both threads have nothing left to do, the only Futures still       *)
(* pending are those of dispose(), which the iOS handler does not answer.  *)
(***************************************************************************)
Quiescent == alive = "up" /\ pc = "idle" /\ taken = Len(calls) /\ replies = << >>
OnlyDisposeHangs ==
  Quiescent =>
    \A i \in DOMAIN calls : calls[i].future = "pending" => calls[i].op = "dispose"

(***************************************************************************)
(* When synthesize()'s Future has completed, and the file could be         *)
(* written, the File it returned holds the speech of that very call, by    *)
(* the models of the last initialize sent before it (whichever TTSPlugin   *)
(* sent that one), as long as no later synthesize was sent with the same   *)
(* outfile - whatever calls were outstanding when it was made.             *)
(***************************************************************************)
FileOfCompletedCall ==
  \A i \in DOMAIN calls : \A k \in 1 .. i - 1 :
    /\ calls[i].op = "synthesize" /\ calls[i].future = "done" /\ calls[i].outcome = "full"
    /\ LastInitialize(k, i) /\ calls[k].outcome = "loaded"
    /\ \A j \in i + 1 .. Len(calls) : calls[j].out # calls[i].out
    => files[calls[i].out] = SpeechOf(k, i)

(***************************************************************************)
(* A call can take the process down by a memory fault only if it is a      *)
(* synthesize that no successfully loaded initialize precedes directly, or *)
(* an initialize whose vocoder is not in the bundle.                       *)
(***************************************************************************)
CrashOnlyUnprepared ==
  alive = "crash" =>
    \/ Handling.op = "initialize" /\ VocoderOf[Handling.plugin] \notin Bundled
    \/ /\ Handling.op = "synthesize"
       /\ \A k \in 1 .. taken - 1 :
            LastInitialize(k, taken) => calls[k].outcome # "loaded"

(***************************************************************************)
(* Every initialize leaks two descriptors.  Until they are used up, an     *)
(* initialize whose models are in the bundle reads them.                   *)
(***************************************************************************)
LoadsWhileDescriptorsLast ==
  given # None /\ given.vocoder.file \in Bundled /\ 2 * inits <= MaxFd => Readable

(***************************************************************************)
(* Every call but dispose is answered, unless the process ends.            *)
(***************************************************************************)
Unanswered(i) ==
  i \in DOMAIN calls /\ calls[i].future = "pending" /\ calls[i].op # "dispose"
EveryCallAnswered ==
  \A i \in 1 .. MaxCalls :
    Unanswered(i) ~> (i \in DOMAIN calls /\ calls[i].future = "done") \/ alive # "up"
=============================================================================
