---------------------------- MODULE AndroidPlugin ----------------------------
(***************************************************************************)
(* The plugin class on Android (TfliteTtsPlugin.kt): the handler it        *)
(* registers with the Flutter engine it is attached to, and what becomes   *)
(* of the calls that Dart code puts on the method channels - the Dart API  *)
(* on the channel of tts_plugin.dart, other Dart code of an application on *)
(* whichever it likes.                                                     *)
(***************************************************************************)
EXTENDS Naturals, Sequences

CONSTANTS
  ApiChannel,      \* the channel of tts_plugin.dart
  HandlerChannel,  \* the channel TfliteTtsPlugin.kt registers
  MaxCalls         \* bound: calls of Dart code

ASSUME MaxCallsAssumption == MaxCalls \in Nat

Channel == {ApiChannel, HandlerChannel}
Method  == {"initialize", "synthesize", "dispose"}

VARIABLES
  process,    \* "up", or "exit": ended by an error nobody catches
  handlers,   \* the channels with a handler
  attached,   \* the plugin is attached to the engine
  calls,      \* the calls put on the channels, in order
  taken,      \* how many of them the platform thread has taken
  replies     \* replies on their way: <<number of the call, what it says>>

vars == <<process, handlers, attached, calls, taken, replies>>

\* complete: the arguments that the method asks for are there; made: history, whether the
\* plugin was attached when the call was made; "missing" and "error": the Future threw
\* MissingPluginException, or a PlatformException.
Call == [channel : Channel, method : Method, complete : BOOLEAN,
         made : {"attached", "detached"}, future : {"pending", "missing", "error"}]

TypeOK ==
  /\ process \in {"up", "exit"}
  /\ handlers \subseteq Channel
  /\ attached \in BOOLEAN
  /\ calls \in Seq(Call)
  /\ taken \in 0 .. Len(calls)
  /\ replies \in Seq((1 .. Len(calls)) \X {"missing", "error"})

\* onAttachedToEngine has run before any Dart code of the engine.
Init ==
  /\ process = "up"
  /\ handlers = {HandlerChannel}
  /\ attached = TRUE
  /\ calls = << >> /\ taken = 0 /\ replies = << >>

Invoke(channel, method, complete) ==
  /\ process = "up"
  /\ Len(calls) < MaxCalls
  /\ calls' = Append(calls, [channel |-> channel, method |-> method, complete |-> complete,
                             made |-> IF attached THEN "attached" ELSE "detached",
                             future |-> "pending"])
  /\ UNCHANGED <<process, handlers, attached, taken, replies>>

onDetachedFromEngine_KeepsHandler ==
  /\ process = "up" /\ attached
  /\ attached' = FALSE
  /\ UNCHANGED <<process, handlers, calls, taken, replies>>

onDetachedFromEngine ==
  /\ process = "up" /\ attached
  /\ attached' = FALSE
  /\ handlers' = handlers \ {HandlerChannel}
  /\ UNCHANGED <<process, calls, taken, replies>>

Upcoming == calls[taken + 1]

Take == process = "up" /\ taken < Len(calls) /\ taken' = taken + 1

Answer_AfterTaking(future) == replies' = Append(replies, <<taken, future>>)

Answer(future) == replies' = Append(replies, <<taken + 1, future>>)

\* The answer to a call without a handler and of notImplemented(): Dart throws for both.
Miss == Answer("missing")

\* A channel without a handler.
Unhandled ==
  /\ Take
  /\ Upcoming.channel \notin handlers
  /\ Miss
  /\ UNCHANGED <<process, handlers, attached, calls>>

onMethodCall_NoElse ==
  /\ Take
  /\ Upcoming.channel \in handlers
  /\ IF Upcoming.method \in {"initialize", "synthesize"}
     THEN process' = "exit" ELSE UNCHANGED process
  /\ UNCHANGED <<handlers, attached, calls, replies>>

(***************************************************************************)
(* An argument that is null throws NullPointerException, which the channel *)
(* answers as an error.  The native functions are exported for             *)
(* com.avinium.tflite_tts, the class is in                                 *)
(* com.avinium.flutter_tflite_tts_plugin: calling one throws               *)
(* UnsatisfiedLinkError, which neither the class nor the channel catches.  *)
(***************************************************************************)
onMethodCall ==
  /\ Take
  /\ Upcoming.channel \in handlers
  /\ \/ /\ Upcoming.method = "dispose"
        /\ Miss /\ UNCHANGED process
     \/ /\ Upcoming.method # "dispose" /\ ~Upcoming.complete
        /\ Answer("error") /\ UNCHANGED process
     \/ /\ Upcoming.method # "dispose" /\ Upcoming.complete
        /\ process' = "exit" /\ UNCHANGED replies
  /\ UNCHANGED <<handlers, attached, calls>>

Deliver ==
  /\ process = "up"
  /\ replies # << >>
  /\ calls' = [calls EXCEPT ![Head(replies)[1]].future = Head(replies)[2]]
  /\ replies' = Tail(replies)
  /\ UNCHANGED <<process, handlers, attached, taken>>

PlatformThread == Unhandled \/ onMethodCall

Next ==
  \/ \E channel \in Channel, method \in Method, complete \in BOOLEAN :
       Invoke(channel, method, complete)
  \/ onDetachedFromEngine
  \/ PlatformThread
  \/ Deliver

Spec == Init /\ [][Next]_vars
FairSpec == Spec /\ WF_vars(PlatformThread) /\ WF_vars(Deliver)

-----------------------------------------------------------------------------
(***************************************************************************)
(* Every call ends, dispose() too (on iOS it hangs), on either channel and *)
(* whenever the plugin is detached, or the process ends.                   *)
(***************************************************************************)
Pending(i) == i \in DOMAIN calls /\ calls[i].future = "pending"
EveryCallEnds == \A i \in 1 .. MaxCalls : Pending(i) ~> ~Pending(i) \/ process = "exit"

(***************************************************************************)
(* "unregister it when the Flutter Engine is detached"                     *)
(* (TfliteTtsPlugin.kt:18): no call made after that gets to the native     *)
(* functions and ends the process, though one made before it may.          *)
(***************************************************************************)
DetachedCallsAreHarmless ==
  process = "exit" => calls[taken].made = "attached"

(***************************************************************************)
(* "The MethodChannel that will the communication between Flutter and      *)
(* native Android" (TfliteTtsPlugin.kt:16): as long as the plugin is       *)
(* attached, the handler gets the Dart API's calls of the two methods it   *)
(* implements.  It does not hold.                                          *)
(***************************************************************************)
ApiReachesHandler ==
  attached => \A i \in DOMAIN calls :
    calls[i].channel = ApiChannel /\ calls[i].method # "dispose" => calls[i].future # "missing"
=============================================================================
