----------------------------- MODULE ExampleApp -----------------------------
(***************************************************************************)
(* The example application (main.dart) on top of the plugin: one TTSPlugin *)
(* object that exists only after two Futures completed, a button that      *)
(* initializes it, one that synthesizes a sentence, and a player that      *)
(* reads the wav file the platform thread writes.  The user may press at   *)
(* any time, and end the process at any time and start it again; the files *)
(* stay.                                                                   *)
(***************************************************************************)
EXTENDS TTSPlugin

CONSTANTS
  App,        \* the object of the application
  Sentence,   \* the symbol ids of the sentence it speaks
  WavFile,    \* synthesized.wav in the temporary directory
  MaxLaunch   \* bound: how often the process is started

\* The models of assets/tts_config.json are among the assets of the application.
ASSUME AppAssumption ==
  /\ App \in Plugin /\ Sentence \in Ids /\ WavFile \in Outfile /\ MaxLaunch \in Nat
  /\ MelgenOf[App] \in Bundled /\ VocoderOf[App] \in Bundled

VARIABLES
  setup,        \* _initialize(): the Future it awaits, and whether _ttsPlugin is set
  initialized,  \* _initialized
  enabled,      \* SYNTHESIZE has a callback in the widgets built last
  player,       \* _advancedPlayer
  heard,        \* what it read from the file: first the one part, then the other
  launches      \* starts of the process

playerVars == <<player, heard>>
appVars    == <<setup, initialized, enabled, player, heard, launches>>
allVars    == <<vars, appVars>>

Content == AudioOf \cup {None, Partial}

\* player: stopped, told to play the file of a call, reading it, or through with it.
AppTypeOK ==
  /\ TypeOK
  /\ setup \in {"config", "directory", "ready"}
  /\ initialized \in BOOLEAN
  /\ enabled \in BOOLEAN
  /\ player \in [state : {"stopped", "told", "reading", "ended"}, call : 0 .. MaxCalls]
  /\ heard \in Content \X Content
  /\ launches \in 1 .. MaxLaunch + 1

Stopped == [state |-> "stopped", call |-> 0]

AppInit ==
  /\ Init
  /\ setup = "config"
  /\ initialized = FALSE
  /\ enabled = FALSE
  /\ player = Stopped
  /\ heard = <<None, None>>
  /\ launches = 1

-----------------------------------------------------------------------------
(***************************************************************************)
(* The isolate.  A callback runs up to its await without interruption, and *)
(* what follows the await when the Future has completed.                   *)
(***************************************************************************)

\* loadString has completed; getTemporaryDirectory is called.
ConfigLoaded ==
  /\ alive = "up" /\ setup = "config"
  /\ setup' = "directory"
  /\ UNCHANGED <<vars, initialized, enabled, playerVars, launches>>

\* ... and its Future has completed: _ttsPlugin is set.
DirectoryFound ==
  /\ alive = "up" /\ setup = "directory"
  /\ setup' = "ready"
  /\ UNCHANGED <<vars, initialized, enabled, playerVars, launches>>

Build_AlwaysEnabled ==
  /\ alive = "up"
  /\ ~enabled
  /\ enabled' = TRUE
  /\ UNCHANGED <<vars, setup, initialized, playerVars, launches>>

\* setState asks for a new build, which looks at _initialized when it runs.
Build ==
  /\ alive = "up"
  /\ enabled # initialized
  /\ enabled' = initialized
  /\ UNCHANGED <<vars, setup, initialized, playerVars, launches>>

PressInitialize_NotAwaited ==
  /\ alive = "up"
  /\ initialized' = TRUE
  /\ IF setup = "ready" THEN InvokeInitialize(App) ELSE UNCHANGED vars
  /\ UNCHANGED <<setup, enabled, playerVars, launches>>

(***************************************************************************)
(* INITIALIZE is always enabled.  Before _ttsPlugin is set the callback    *)
(* throws after its first setState.                                        *)
(***************************************************************************)
PressInitialize ==
  /\ alive = "up"
  /\ initialized' = FALSE
  /\ IF setup = "ready" THEN InvokeInitialize(App) ELSE UNCHANGED vars
  /\ UNCHANGED <<setup, enabled, playerVars, launches>>

PressSynthesize_PlaysAtOnce ==
  /\ enabled /\ setup = "ready"
  /\ InvokeSynthesize(Sentence, WavFile)
  /\ player' = [state |-> "told", call |-> Len(calls) + 1]
  /\ UNCHANGED <<setup, initialized, enabled, heard, launches>>

(***************************************************************************)
(* SYNTHESIZE is enabled by the last build, whatever _initialized is by    *)
(* now.  (Were _ttsPlugin unset, the callback would throw: no step.)       *)
(***************************************************************************)
PressSynthesize ==
  /\ enabled /\ setup = "ready"
  /\ InvokeSynthesize(Sentence, WavFile)
  /\ UNCHANGED appVars

Arrived == Head(replies)

AppDeliver_OnlyIfLoaded ==
  /\ Deliver
  /\ initialized' = (initialized \/ calls[Arrived].outcome = "loaded")
  /\ UNCHANGED <<setup, enabled, playerVars, launches>>

\* What follows the await: the second setState, or play() of the file.
AppDeliver ==
  /\ Deliver
  /\ \/ /\ calls[Arrived].op = "initialize"
        /\ initialized' = TRUE
        /\ UNCHANGED playerVars
     \/ /\ calls[Arrived].op = "synthesize"
        /\ player' = [state |-> "told", call |-> Arrived]
        /\ UNCHANGED <<initialized, heard>>
  /\ UNCHANGED <<setup, enabled, launches>>

-----------------------------------------------------------------------------
(***************************************************************************)
(* The player reads the file on threads of its own.                        *)
(***************************************************************************)

\* It opens the file and reads the beginning; without a file it stays stopped.
PlayerOpens ==
  /\ alive = "up" /\ player.state = "told"
  /\ IF files[WavFile] = None
     THEN player' = Stopped /\ UNCHANGED heard
     ELSE /\ player' = [player EXCEPT !.state = "reading"]
          /\ heard' = [heard EXCEPT ![1] = files[WavFile]]
  /\ UNCHANGED <<vars, setup, initialized, enabled, launches>>

PlayerEnds ==
  /\ alive = "up" /\ player.state = "reading"
  /\ player' = [player EXCEPT !.state = "ended"]
  /\ heard' = [heard EXCEPT ![2] = files[WavFile]]
  /\ UNCHANGED <<vars, setup, initialized, enabled, launches>>

-----------------------------------------------------------------------------
AppPlatformThread == PlatformThread /\ UNCHANGED appVars

\* The user or the system ends the process.
Kill ==
  /\ alive = "up"
  /\ alive' = "exit"
  /\ UNCHANGED <<pc, given, speak, inits, heapVars, ioVars, pluginVars, appVars>>

\* It is started again, after whatever ended it.  Only the files have survived.
Relaunch ==
  /\ alive # "up"
  /\ launches <= MaxLaunch
  /\ launches' = launches + 1
  /\ alive' = "up" /\ pc' = "idle" /\ given' = None /\ speak' = None /\ inits' = 0
  /\ backend' = "null" /\ buffers' = {} /\ saved' = "none"
  /\ fields' = [melgen |-> 0, vocoder |-> 0, mel |-> NoMel, audio |-> None]
  /\ melgens' = [k \in Num |-> NoModel] /\ vocoders' = [k \in Num |-> NoModel]
  /\ calls' = << >> /\ taken' = 0 /\ replies' = << >> /\ fds' = 0
  /\ setup' = "config" /\ initialized' = FALSE /\ enabled' = FALSE
  /\ player' = Stopped /\ heard' = <<None, None>>
  /\ UNCHANGED files

AppNext ==
  \/ ConfigLoaded \/ DirectoryFound \/ Build
  \/ PressInitialize \/ PressSynthesize \/ AppDeliver
  \/ PlayerOpens \/ PlayerEnds
  \/ AppPlatformThread
  \/ Kill \/ Relaunch

AppSpec == AppInit /\ [][AppNext]_allVars

\* The isolate, its frames and the platform thread run; nobody has to press.
AppFairSpec ==
  AppSpec /\ WF_allVars(AppPlatformThread) /\ WF_allVars(AppDeliver) /\ WF_allVars(Build)

-----------------------------------------------------------------------------
(***************************************************************************)
(* Properties                                                              *)
(***************************************************************************)

\* Some initialize of this launch has completed.
OnceInitialized == \E i \in DOMAIN calls : calls[i].op = "initialize" /\ calls[i].future = "done"

(***************************************************************************)
(* SYNTHESIZE never meets an unset _ttsPlugin: it is enabled only after    *)
(* an initialize() completed, though INITIALIZE may be pressed too early,  *)
(* or several times before the first one has completed.                    *)
(***************************************************************************)
EnabledMeansInitialized ==
  enabled \/ initialized => setup = "ready" /\ OnceInitialized

(***************************************************************************)
(* As long as there are descriptors for the models, no order of presses    *)
(* brings about a memory fault - not even SYNTHESIZE between two           *)
(* INITIALIZE, or before a frame was built that disables it.               *)
(***************************************************************************)
NeverFaultsWhileDescriptorsLast ==
  alive = "crash" => 2 * inits > MaxFd

\* The player is through with a file that was incomplete or changed meanwhile.
Torn == player.state = "ended" /\ (heard[1] # heard[2] \/ Partial \in {heard[1], heard[2]})

(***************************************************************************)
(* The file is truncated and written again in place.  Still the sentence   *)
(* is heard as a whole, even after the process was killed while writing    *)
(* the file, unless SYNTHESIZE was pressed again before the player was     *)
(* through or some file could not be written.                              *)
(***************************************************************************)
HeardWhole ==
  Torn => \/ \E i \in DOMAIN calls : i > player.call /\ calls[i].op = "synthesize"
          \/ \E i \in DOMAIN calls : calls[i].outcome \in {"short", "closed"}

(***************************************************************************)
(* After INITIALIZE was pressed on a plugin that is set, SYNTHESIZE gets   *)
(* enabled in the end, or the process ends.                                *)
(***************************************************************************)
Initializing == \E i \in DOMAIN calls : calls[i].op = "initialize" /\ calls[i].future = "pending"
InitializeEnables == Initializing ~> (enabled /\ initialized) \/ alive # "up"
=============================================================================
