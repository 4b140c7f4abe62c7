-------------------------- MODULE ExampleAppProofs --------------------------
(***************************************************************************)
(* Theorems about the example application, for any number of presses, of   *)
(* frames, of launches, of descriptors and of sentences: whenever its      *)
(* process is killed.                                                      *)
(***************************************************************************)
EXTENDS ExampleApp, TTSPluginProofs

(***************************************************************************)
(* The inductive invariant.  First what the plugin's own variables satisfy *)
(* when this application is its only caller.                               *)
(***************************************************************************)

\* The application's calls: its one object, its one file, an initialize before a synthesize.
AppCallsInv ==
  /\ Len(calls) <= MaxCalls
  /\ \A i \in DOMAIN calls :
       /\ calls[i].op \in {"initialize", "synthesize"}
       /\ calls[i].op = "initialize" => calls[i].plugin = App
       /\ calls[i].op = "synthesize" =>
            /\ calls[i].out = WavFile
            /\ calls[i].outcome \in {"unknown", "closed", "short", "full"}
            /\ \E k \in 1 .. i - 1 : calls[k].op = "initialize"

\* The core was given the application's voice before anything else; without that nothing faults.
PreparedInv ==
  /\ given # None => given.vocoder.file = VocoderOf[App]
  /\ (\E i \in 1 .. taken : calls[i].op = "initialize") => given # None
  /\ alive = "crash" => given # None

\* ExportWAV has an outcome when it returns.
SavedInv == pc = "synthesized" => saved # "none"

\* The file is whole from the end of a synthesize that wrote it until the thread takes the next.
WrittenInv ==
  \A i \in DOMAIN calls :
    /\ calls[i].op = "synthesize" /\ calls[i].outcome = "full"
    /\ \A j \in i + 1 .. taken : calls[j].op # "synthesize"
    => files[WavFile] \in AudioOf

CallerInv ==
  /\ PluginInv
  /\ EngineInv
  /\ AppCallsInv
  /\ PreparedInv
  /\ SavedInv
  /\ WrittenInv

\* Then the variables of the application, against them.
ScreenInv ==
  /\ setup \in {"config", "directory", "ready"}
  /\ initialized \in BOOLEAN /\ enabled \in BOOLEAN
  /\ launches \in 1 .. MaxLaunch + 1
  /\ Len(calls) # 0 => setup = "ready"
  /\ EnabledMeansInitialized

\* The player plays the file of a completed call, and has read what is in it.
PlayerInv ==
  /\ player \in [state : {"stopped", "told", "reading", "ended"}, call : 0 .. MaxCalls]
  /\ heard \in Content \X Content
  /\ player.state # "stopped" =>
       /\ player.call \in DOMAIN calls
       /\ calls[player.call].op = "synthesize" /\ calls[player.call].future = "done"
  /\ \/ player.state = "stopped"
     \/ \E j \in DOMAIN calls : j > player.call /\ calls[j].op = "synthesize"
     \/ calls[player.call].outcome # "full"
     \/ /\ player.state \in {"reading", "ended"} => heard[1] = files[WavFile]
        /\ player.state = "ended" => heard[2] = files[WavFile]

AppInv == CallerInv /\ ScreenInv /\ PlayerInv

-----------------------------------------------------------------------------
(***************************************************************************)
(* The start.                                                              *)
(***************************************************************************)
LEMMA AppInitLemma == AppInit => AppInv
<1> SUFFICES ASSUME AppInit PROVE AppInv
  OBVIOUS
<1>1. PluginInv
  BY PluginInitLemma DEF AppInit
<1>2. EngineInv
  BY InitLemma DEF AppInit, Init
<1>3. /\ calls = << >> /\ taken = 0 /\ given = None /\ alive = "up" /\ pc = "idle"
  BY DEF AppInit, Init, EngineInit
<1>4. AppCallsInv /\ PreparedInv /\ SavedInv /\ WrittenInv
  BY <1>3, ConfigurationAssumption DEF AppCallsInv, PreparedInv, SavedInv, WrittenInv
<1>5. ScreenInv
  <2>1. launches \in 1 .. MaxLaunch + 1 /\ Len(calls) = 0
    BY <1>3, AppAssumption DEF AppInit
  <2>2. enabled = FALSE /\ initialized = FALSE /\ setup = "config"
    BY DEF AppInit
  <2> QED
    BY <2>1, <2>2, Zenon DEF ScreenInv, EnabledMeansInitialized
<1>6. PlayerInv
  BY ConfigurationAssumption DEF AppInit, PlayerInv, Stopped, Content
<1> QED
  BY <1>1, <1>2, <1>4, <1>5, <1>6 DEF AppInv, CallerInv

(***************************************************************************)
(* Steps of frames and of the player leave the plugin alone.               *)
(***************************************************************************)
LEMMA CallerFrameLemma == CallerInv /\ UNCHANGED vars => CallerInv'
<1> SUFFICES ASSUME CallerInv, UNCHANGED vars PROVE CallerInv'
  OBVIOUS
<1>1. /\ UNCHANGED <<calls, taken>> /\ UNCHANGED engineVars
      /\ UNCHANGED <<alive, pc, given, files, saved>>
  BY DEF vars, pluginVars, engineVars, ioVars
<1>2. PluginInv'
  BY PluginStutterLemma DEF CallerInv
<1>3. EngineInv'
  BY <1>1, StutterLemma DEF CallerInv
<1>4. AppCallsInv' /\ PreparedInv' /\ SavedInv' /\ WrittenInv'
  BY <1>1 DEF CallerInv, AppCallsInv, PreparedInv, SavedInv, WrittenInv
<1> QED
  BY <1>2, <1>3, <1>4 DEF CallerInv

LEMMA ScreenStepLemma == AppInv /\ (ConfigLoaded \/ DirectoryFound \/ Build) => AppInv'
<1> SUFFICES ASSUME AppInv, ConfigLoaded \/ DirectoryFound \/ Build PROVE AppInv'
  OBVIOUS
<1>1. /\ UNCHANGED vars /\ UNCHANGED <<calls, taken, files>>
      /\ UNCHANGED <<player, heard, launches, initialized>>
      /\ \/ setup # "ready" /\ setup' \in {"directory", "ready"} /\ UNCHANGED enabled
         \/ UNCHANGED setup /\ enabled' = initialized
  BY DEF ConfigLoaded, DirectoryFound, Build, playerVars, vars, pluginVars, engineVars, ioVars
<1>2. CallerInv'
  BY <1>1, CallerFrameLemma DEF AppInv
<1>3. ScreenInv'
  BY <1>1 DEF AppInv, ScreenInv, EnabledMeansInitialized, OnceInitialized
<1>4. PlayerInv'
  BY <1>1 DEF AppInv, PlayerInv, Content
<1> QED
  BY <1>2, <1>3, <1>4 DEF AppInv

LEMMA PlayerStepLemma == AppInv /\ (PlayerOpens \/ PlayerEnds) => AppInv'
<1> SUFFICES ASSUME AppInv, PlayerOpens \/ PlayerEnds PROVE AppInv'
  OBVIOUS
<1>1. /\ UNCHANGED vars /\ UNCHANGED <<calls, taken, files>>
      /\ UNCHANGED <<setup, initialized, enabled, launches>>
  BY DEF PlayerOpens, PlayerEnds, vars, pluginVars, engineVars, ioVars
<1>2. CallerInv'
  BY <1>1, CallerFrameLemma DEF AppInv
<1>3. ScreenInv'
  BY <1>1 DEF AppInv, ScreenInv, EnabledMeansInitialized, OnceInitialized
<1>4. files[WavFile] \in Content
  BY AppAssumption DEF AppInv, CallerInv, EngineInv, CoreInv, EngineTypeOK, Content
<1>5. PlayerInv'
  <2>1. CASE PlayerOpens /\ files[WavFile] = None
    BY <1>1, <2>1, ConfigurationAssumption DEF AppInv, PlayerInv, PlayerOpens, Stopped, Content
  <2>2. CASE PlayerOpens /\ files[WavFile] # None
    BY <1>1, <1>4, <2>2 DEF AppInv, PlayerInv, PlayerOpens, Content
  <2>3. CASE PlayerEnds
    BY <1>1, <1>4, <2>3 DEF AppInv, PlayerInv, PlayerEnds, Content
  <2> QED
    BY <2>1, <2>2, <2>3
<1> QED
  BY <1>2, <1>3, <1>5 DEF AppInv

-----------------------------------------------------------------------------
(***************************************************************************)
(* The buttons.                                                            *)
(***************************************************************************)

\* A call of the application is put on the channel.
LEMMA AppInvokeLemma ==
  ASSUME NEW op \in {"initialize", "synthesize"}, NEW p \in Plugin \cup {None},
         NEW ids \in Ids \cup {None}, NEW out \in Outfile \cup {None},
         op = "initialize" => p = App /\ out = None,
         op = "synthesize" => /\ ids \in Ids /\ out = WavFile
                              /\ \E k \in DOMAIN calls : calls[k].op = "initialize",
         CallerInv, Invoke(op, p, ids, out)
  PROVE  /\ CallerInv'
         /\ DOMAIN calls = 1 .. Len(calls) /\ DOMAIN calls' = 1 .. Len(calls) + 1
         /\ Len(calls) \in Nat /\ Len(calls') = Len(calls) + 1
         /\ \A i \in DOMAIN calls : calls'[i] = calls[i]
         /\ UNCHANGED files
<1> DEFINE c == [op |-> op, plugin |-> p, ids |-> ids, out |-> out,
                 future |-> "pending", outcome |-> "unknown"]
<1>1. /\ calls \in Seq(CallRecord) /\ taken \in 0 .. Len(calls) /\ Len(calls) < MaxCalls
      /\ calls' = Append(calls, c) /\ c \in CallRecord
      /\ UNCHANGED engineVars /\ UNCHANGED <<taken, alive, pc, given, files, saved>>
  BY DEF CallerInv, PluginInv, TypeOK, Invoke, CallRecord, engineVars, ioVars
<1>2. /\ Len(calls') = Len(calls) + 1 /\ Len(calls) \in Nat
      /\ DOMAIN calls = 1 .. Len(calls) /\ DOMAIN calls' = 1 .. Len(calls) + 1
      /\ \A i \in DOMAIN calls : calls'[i] = calls[i]
      /\ calls'[Len(calls) + 1] = c
  BY <1>1
<1>3. PluginInv'
  BY InvokeLemma, AppAssumption DEF CallerInv
<1>4. EngineInv'
  BY <1>1, StutterLemma DEF CallerInv
<1>5. AppCallsInv'
  <2> SUFFICES ASSUME NEW i \in 1 .. Len(calls) + 1
               PROVE  /\ calls'[i].op \in {"initialize", "synthesize"}
                      /\ calls'[i].op = "initialize" => calls'[i].plugin = App
                      /\ calls'[i].op = "synthesize" =>
                           /\ calls'[i].out = WavFile
                           /\ calls'[i].outcome \in {"unknown", "closed", "short", "full"}
                           /\ \E k \in 1 .. i - 1 : calls'[k].op = "initialize"
    BY <1>1, <1>2, ConfigurationAssumption DEF AppCallsInv
  <2>1. CASE i \in DOMAIN calls
    BY <1>2, <2>1 DEF CallerInv, AppCallsInv
  <2>2. CASE i = Len(calls) + 1
    BY <1>2, <2>2
  <2> QED
    BY <1>2, <2>1, <2>2
<1>6. PreparedInv' /\ SavedInv'
  BY <1>1, <1>2 DEF CallerInv, PreparedInv, SavedInv
<1>7. WrittenInv'
  <2> SUFFICES ASSUME NEW i \in DOMAIN calls', calls'[i].op = "synthesize",
                      calls'[i].outcome = "full",
                      \A j \in i + 1 .. taken : calls'[j].op # "synthesize"
               PROVE  files[WavFile] \in AudioOf
    BY <1>1 DEF WrittenInv
  <2>1. i \in DOMAIN calls
    BY <1>2
  <2>2. \A j \in i + 1 .. taken : j \in DOMAIN calls
    BY <1>1, <1>2
  <2> QED
    BY <1>2, <2>1, <2>2 DEF CallerInv, WrittenInv
<1> QED
  BY <1>1, <1>2, <1>3, <1>4, <1>5, <1>6, <1>7 DEF CallerInv

\* A call that was only put on the channel changes nothing for screen and player.
LEMMA AppCallLemma ==
  ASSUME AppInv, CallerInv',
         DOMAIN calls = 1 .. Len(calls), DOMAIN calls' = 1 .. Len(calls) + 1,
         Len(calls) \in Nat, \A i \in DOMAIN calls : calls'[i] = calls[i],
         setup = "ready", UNCHANGED <<files, setup, enabled, player, heard, launches>>,
         initialized' \in BOOLEAN, initialized' => initialized
  PROVE  AppInv'
<1>1. ScreenInv'
  <2>1. OnceInitialized => OnceInitialized'
    BY DEF OnceInitialized
  <2> QED
    BY <2>1, Zenon DEF AppInv, ScreenInv, EnabledMeansInitialized
<1>2. PlayerInv'
  <2>1. /\ player' = player /\ heard' = heard /\ files' = files
        /\ player.state # "stopped" => /\ player.call \in DOMAIN calls
                                       /\ calls'[player.call] = calls[player.call]
    BY DEF AppInv, PlayerInv
  <2>2. \A j \in DOMAIN calls : j \in DOMAIN calls' /\ calls'[j] = calls[j]
    OBVIOUS
  <2> QED
    BY <2>1, <2>2 DEF AppInv, PlayerInv, Content
<1> QED
  BY <1>1, <1>2 DEF AppInv

LEMMA PressInitializeLemma == AppInv /\ PressInitialize => AppInv'
<1> SUFFICES ASSUME AppInv, PressInitialize PROVE AppInv'
  OBVIOUS
<1>1. ~initialized' /\ UNCHANGED <<setup, enabled, player, heard, launches>>
  BY DEF PressInitialize, playerVars
<1>2. CASE setup = "ready"
  <2>1. Invoke("initialize", App, None, None)
    BY <1>2 DEF PressInitialize, InvokeInitialize
  <2>2. /\ CallerInv'
        /\ DOMAIN calls = 1 .. Len(calls) /\ DOMAIN calls' = 1 .. Len(calls) + 1
        /\ Len(calls) \in Nat
        /\ \A i \in DOMAIN calls : calls'[i] = calls[i]
        /\ UNCHANGED files
    BY <2>1, AppInvokeLemma, AppAssumption DEF AppInv
  <2>3. initialized' \in BOOLEAN
    BY DEF PressInitialize
  <2> QED
    BY <1>1, <1>2, <2>2, <2>3, AppCallLemma
<1>3. CASE setup # "ready"
  <2>1. UNCHANGED vars /\ UNCHANGED <<calls, taken, files>>
    BY <1>3 DEF PressInitialize, vars, pluginVars, engineVars, ioVars
  <2>2. CallerInv'
    BY <2>1, CallerFrameLemma DEF AppInv
  <2>3. ScreenInv'
    <3>1. initialized' \in BOOLEAN
      BY DEF PressInitialize
    <3>2. OnceInitialized' <=> OnceInitialized
      BY <2>1 DEF OnceInitialized
    <3> QED
      BY <1>1, <2>1, <3>1, <3>2, Zenon DEF AppInv, ScreenInv, EnabledMeansInitialized
  <2>4. PlayerInv'
    BY <1>1, <2>1 DEF AppInv, PlayerInv, Content
  <2> QED
    BY <2>2, <2>3, <2>4 DEF AppInv
<1> QED
  BY <1>2, <1>3

LEMMA PressSynthesizeLemma == AppInv /\ PressSynthesize => AppInv'
<1> SUFFICES ASSUME AppInv, PressSynthesize PROVE AppInv'
  OBVIOUS
<1>1. /\ enabled /\ setup = "ready" /\ Invoke("synthesize", None, Sentence, WavFile)
      /\ UNCHANGED <<setup, initialized, enabled, player, heard, launches>>
  BY DEF PressSynthesize, InvokeSynthesize, appVars
<1>2. \E k \in DOMAIN calls : calls[k].op = "initialize"
  BY <1>1 DEF AppInv, ScreenInv, EnabledMeansInitialized, OnceInitialized
<1>3. /\ CallerInv'
      /\ DOMAIN calls = 1 .. Len(calls) /\ DOMAIN calls' = 1 .. Len(calls) + 1
      /\ Len(calls) \in Nat
      /\ \A i \in DOMAIN calls : calls'[i] = calls[i]
      /\ UNCHANGED files
  BY <1>1, <1>2, AppInvokeLemma, AppAssumption DEF AppInv
<1>4. initialized' \in BOOLEAN
  BY <1>1 DEF AppInv, ScreenInv
<1> QED
  BY <1>1, <1>3, <1>4, AppCallLemma

-----------------------------------------------------------------------------
(***************************************************************************)
(* The continuation of an awaited call.                                    *)
(***************************************************************************)
LEMMA AppDeliverLemma == AppInv /\ AppDeliver => AppInv'
<1> SUFFICES ASSUME AppInv, AppDeliver PROVE AppInv'
  OBVIOUS
<1> DEFINE h == Head(replies)
<1>1. /\ calls' = [calls EXCEPT ![h].future = "done"] /\ h \in DOMAIN calls
      /\ UNCHANGED engineVars /\ UNCHANGED <<taken, alive, pc, given, files, saved>>
      /\ UNCHANGED <<setup, enabled, launches>>
  BY DEF AppDeliver, Deliver, AppInv, CallerInv, PluginInv, TypeOK, engineVars, ioVars
<1>2. \/ calls[h].op = "initialize" /\ initialized' = TRUE /\ UNCHANGED <<player, heard>>
      \/ /\ calls[h].op = "synthesize" /\ player' = [state |-> "told", call |-> h]
         /\ UNCHANGED <<initialized, heard>>
  BY DEF AppDeliver, Arrived, playerVars
<1> HIDE DEF h
<1>3. /\ Len(calls') = Len(calls) /\ Len(calls) \in Nat
      /\ DOMAIN calls = 1 .. Len(calls) /\ DOMAIN calls' = DOMAIN calls
      /\ \A i \in DOMAIN calls :
           /\ calls'[i].op = calls[i].op /\ calls'[i].plugin = calls[i].plugin
           /\ calls'[i].out = calls[i].out /\ calls'[i].outcome = calls[i].outcome
           /\ calls'[i].future = IF i = h THEN "done" ELSE calls[i].future
  BY <1>1, CompletedLemma, LenProperties DEF AppInv, CallerInv, PluginInv, TypeOK
<1>4. PluginInv'
  BY DeliverLemma DEF AppDeliver, AppInv, CallerInv
<1>5. EngineInv'
  BY <1>1, StutterLemma DEF AppInv, CallerInv
<1>6. taken \in 0 .. Len(calls)
  BY DEF AppInv, CallerInv, PluginInv, TypeOK
<1>7. AppCallsInv'
  BY <1>3 DEF AppInv, CallerInv, AppCallsInv
<1>8. PreparedInv' /\ SavedInv' /\ WrittenInv'
  BY <1>1, <1>3, <1>6 DEF AppInv, CallerInv, PreparedInv, SavedInv, WrittenInv
<1>9. ScreenInv'
  <2>1. OnceInitialized => OnceInitialized'
    BY <1>3 DEF OnceInitialized
  <2>2. calls[h].op = "initialize" => OnceInitialized'
    BY <1>1, <1>3 DEF OnceInitialized
  <2>3. setup = "ready"
    BY <1>1, <1>3 DEF AppInv, ScreenInv
  <2>4. CASE calls[h].op = "initialize"
    <3>1. initialized' = TRUE
      BY <1>2, <2>4
    <3> QED
      BY <1>1, <1>3, <2>2, <2>3, <2>4, <3>1, Zenon DEF AppInv, ScreenInv, EnabledMeansInitialized
  <2>5. CASE initialized' = initialized
    BY <1>1, <1>3, <2>1, <2>3, <2>5, Zenon DEF AppInv, ScreenInv, EnabledMeansInitialized
  <2> QED
    BY <1>2, <2>4, <2>5
<1>10. PlayerInv'
  <2>1. CASE player' = player /\ heard' = heard
    BY <1>1, <1>3, <2>1 DEF AppInv, PlayerInv, Content
  <2>2. CASE /\ calls[h].op = "synthesize" /\ player' = [state |-> "told", call |-> h]
             /\ heard' = heard
    <3>1. Len(calls) <= MaxCalls /\ MaxCalls \in Nat
      BY ConfigurationAssumption DEF AppInv, CallerInv, AppCallsInv
    <3>2. /\ h \in 0 .. MaxCalls /\ calls'[h].op = "synthesize" /\ calls'[h].future = "done"
          /\ h \in DOMAIN calls'
      BY <1>1, <1>3, <2>2, <3>1
    <3> QED
      BY <2>2, <3>2 DEF AppInv, PlayerInv, Content
  <2> QED
    BY <1>2, <2>1, <2>2
<1> QED
  BY <1>4, <1>5, <1>7, <1>8, <1>9, <1>10 DEF AppInv, CallerInv

-----------------------------------------------------------------------------
(***************************************************************************)
(* The process ends, and is started again with the files it left.          *)
(***************************************************************************)
LEMMA KillLemma == AppInv /\ Kill => AppInv'
<1> SUFFICES ASSUME AppInv, Kill PROVE AppInv'
  OBVIOUS
<1>1. /\ Exit /\ alive' = "exit"
      /\ UNCHANGED <<pc, given, inits, files, saved, calls, taken, replies, fds>>
      /\ UNCHANGED <<setup, initialized, enabled, player, heard, launches>>
  BY DEF Kill, Exit, heapVars, ioVars, pluginVars, appVars
<1>2. EngineInv' /\ speak' = speak
  BY <1>1, ExitLemma DEF AppInv, CallerInv, Exit
<1>3. PluginInv'
  <2>1. TypeOK' /\ ArgumentsInv' /\ HandlingInv' /\ DescriptorInv'
    BY <1>1, <1>2
    DEF AppInv, CallerInv, PluginInv, TypeOK, EngineInv, CoreInv, ArgumentsInv, HandlingInv,
        Handling, DescriptorInv
  <2>2. RepliedInv' /\ RepliesInv' /\ GivenInv'
    BY <1>1 DEF AppInv, CallerInv, PluginInv, RepliedInv, RepliesInv, Replied, GivenInv
  <2>3. FileInv' /\ CrashOnlyUnprepared' /\ LoadsWhileDescriptorsLast'
    BY <1>1 DEF AppInv, CallerInv, PluginInv, FileInv, CrashOnlyUnprepared, LastInitialize,
                SpeechOf, LoadsWhileDescriptorsLast, Readable
  <2> QED
    BY <1>2, <2>1, <2>2, <2>3 DEF PluginInv, EngineInv
<1>4. AppCallsInv' /\ PreparedInv' /\ SavedInv' /\ WrittenInv'
  BY <1>1 DEF AppInv, CallerInv, AppCallsInv, PreparedInv, SavedInv, WrittenInv
<1>5. ScreenInv' /\ PlayerInv'
  <2>1. OnceInitialized' <=> OnceInitialized
    BY <1>1 DEF OnceInitialized
  <2>2. ScreenInv'
    BY <1>1, <2>1, Zenon DEF AppInv, ScreenInv, EnabledMeansInitialized
  <2>3. PlayerInv'
    BY <1>1 DEF AppInv, PlayerInv, Content
  <2> QED
    BY <2>2, <2>3
<1> QED
  BY <1>2, <1>3, <1>4, <1>5 DEF AppInv, CallerInv

LEMMA RelaunchLemma == AppInv /\ Relaunch => AppInv'
<1> SUFFICES ASSUME AppInv, Relaunch PROVE AppInv'
  OBVIOUS
<1>1. /\ alive' = "up" /\ pc' = "idle" /\ given' = None /\ speak' = None /\ inits' = 0
      /\ backend' = "null" /\ buffers' = {} /\ saved' = "none"
      /\ fields' = [melgen |-> 0, vocoder |-> 0, mel |-> NoMel, audio |-> None]
      /\ melgens' = [k \in Num |-> NoModel] /\ vocoders' = [k \in Num |-> NoModel]
      /\ calls' = << >> /\ taken' = 0 /\ replies' = << >> /\ fds' = 0
      /\ setup' = "config" /\ initialized' = FALSE /\ enabled' = FALSE
      /\ player' = Stopped /\ heard' = <<None, None>>
      /\ files' = files /\ launches <= MaxLaunch /\ launches' = launches + 1
  BY DEF Relaunch
<1>2. EngineInv'
  <2>1. files \in [Outfile -> AudioOf \cup {None, Partial}]
    BY DEF AppInv, CallerInv, EngineInv, CoreInv, EngineTypeOK
  <2> QED
    BY <1>1, <2>1, MaxInitAssumption, NoneAssumption
    DEF EngineInv, CoreInv, EngineTypeOK, HeapInv, BuffersOutliveModels, ConstructorInv,
        LoadedInv, InferenceInv, CrashInv, NoModel, NoMel, MelgenObj, VocoderObj, MelData,
        Readable, PC, InitPC, InferPC, ExportPC, Num
<1>3. PluginInv'
  <2>1. TypeOK'
    BY <1>1, <1>2, ConfigurationAssumption DEF TypeOK, EngineInv, CoreInv
  <2> QED
    BY <1>1, <1>2, <2>1, ConfigurationAssumption
    DEF EngineInv, PluginInv, ArgumentsInv, HandlingInv, RepliedInv, RepliesInv,
        GivenInv, FileInv, CrashOnlyUnprepared, DescriptorInv, LoadsWhileDescriptorsLast,
        InitPC, InferPC, ExportPC
<1>4. AppCallsInv' /\ PreparedInv' /\ SavedInv' /\ WrittenInv'
  BY <1>1, ConfigurationAssumption DEF AppCallsInv, PreparedInv, SavedInv, WrittenInv
<1>5. ScreenInv'
  <2>1. launches' \in 1 .. MaxLaunch + 1 /\ Len(calls') = 0
    BY <1>1, AppAssumption DEF AppInv, ScreenInv
  <2> QED
    BY <1>1, <2>1, Zenon DEF ScreenInv, EnabledMeansInitialized
<1>6. PlayerInv'
  BY <1>1, ConfigurationAssumption DEF PlayerInv, Stopped, Content
<1> QED
  BY <1>2, <1>3, <1>4, <1>5, <1>6 DEF AppInv, CallerInv

-----------------------------------------------------------------------------
(***************************************************************************)
(* The platform thread.                                                    *)
(***************************************************************************)

\* When the thread is in a synthesize, an initialize was taken before it.
LEMMA GivenLemma ==
  ASSUME CallerInv, NEW i \in DOMAIN calls, i <= taken + 1, calls[i].op = "synthesize"
  PROVE  given # None
<1>1. /\ DOMAIN calls = 1 .. Len(calls) /\ Len(calls) \in Nat /\ taken \in Nat
  BY LenProperties DEF CallerInv, PluginInv, TypeOK
<1>2. PICK k \in 1 .. i - 1 : calls[k].op = "initialize"
  BY DEF CallerInv, AppCallsInv
<1>3. k \in 1 .. taken
  BY <1>1, <1>2
<1> QED
  BY <1>2, <1>3 DEF CallerInv, PreparedInv

\* Taking a call concerns neither the calls nor the files.
LEMMA AppTakenLemma ==
  ASSUME CallerInv, taken \in Nat, taken' = taken + 1, calls' = calls, files' = files
  PROVE  AppCallsInv' /\ WrittenInv'
<1>1. AppCallsInv'
  BY DEF CallerInv, AppCallsInv
<1>2. WrittenInv'
  <2> SUFFICES ASSUME NEW i \in DOMAIN calls, calls[i].op = "synthesize",
                      calls[i].outcome = "full",
                      \A j \in i + 1 .. taken + 1 : calls[j].op # "synthesize"
               PROVE  files[WavFile] \in AudioOf
    BY DEF WrittenInv
  <2>1. i \in Nat
    BY LenProperties DEF CallerInv, PluginInv, TypeOK
  <2>2. \A j \in i + 1 .. taken : j \in i + 1 .. taken + 1
    BY <2>1
  <2> QED
    BY <2>2 DEF CallerInv, WrittenInv
<1> QED
  BY <1>1, <1>2

LEMMA AppHandleInitializeLemma ==
  CallerInv /\ HandleInitialize => CallerInv' /\ UNCHANGED <<calls, files>>
<1> SUFFICES ASSUME CallerInv, HandleInitialize PROVE CallerInv' /\ UNCHANGED <<calls, files>>
  OBVIOUS
<1> DEFINE m == MelgenOf[App]
           v == VocoderOf[App]
           mel == [file |-> m, good |-> fds < MaxFd]
           voc == [file |-> v, good |-> v \in Bundled /\ fds + 1 < MaxFd]
<1>1. Take("initialize") /\ PluginInv
  BY DEF HandleInitialize, CallerInv
<1>2. /\ taken \in Nat /\ taken + 1 \in DOMAIN calls /\ calls' = calls /\ taken' = taken + 1
      /\ Upcoming.op = "initialize" /\ Upcoming = calls[taken + 1]
  BY <1>1, TakeLemma DEF Upcoming
<1>3. Upcoming.plugin = App
  BY <1>2 DEF CallerInv, AppCallsInv
<1>4. Initialize(mel, voc)
  BY <1>3, AppAssumption DEF HandleInitialize
<1>5. mel \in MelgenStream /\ voc \in VocoderStream
  BY AppAssumption, ConfigurationAssumption DEF MelgenStream, VocoderStream
<1>6. /\ alive' = "up" /\ pc' = "read" /\ files' = files
      /\ given' = [melgen |-> mel, vocoder |-> voc]
  BY <1>4 DEF Initialize, At, ioVars
<1>7. PluginInv'
  BY HandleInitializeLemma DEF CallerInv
<1>8. EngineInv'
  BY <1>4, <1>5, InitializeLemma DEF CallerInv
<1>9. AppCallsInv' /\ WrittenInv'
  BY <1>2, <1>6, AppTakenLemma
<1>10. PreparedInv' /\ SavedInv'
  <2>1. given' \in Given
    BY <1>5, <1>6 DEF Given
  <2>2. given' # None
    BY <2>1, NoneAssumption
  <2>3. given'.vocoder.file = VocoderOf[App]
    BY <1>6
  <2> QED
    BY <1>6, <2>2, <2>3 DEF PreparedInv, SavedInv
<1> QED
  BY <1>2, <1>6, <1>7, <1>8, <1>9, <1>10 DEF CallerInv

LEMMA AppHandleSynthesizeLemma ==
  CallerInv /\ HandleSynthesize => CallerInv' /\ UNCHANGED <<calls, files>>
<1> SUFFICES ASSUME CallerInv, HandleSynthesize PROVE CallerInv' /\ UNCHANGED <<calls, files>>
  OBVIOUS
<1> DEFINE ids == Upcoming.ids
           out == Upcoming.out
<1>1. Take("synthesize") /\ Synthesize(ids, out) /\ PluginInv /\ EngineInv
  BY DEF HandleSynthesize, CallerInv
<1>2. /\ taken \in Nat /\ taken + 1 \in DOMAIN calls /\ calls' = calls /\ taken' = taken + 1
      /\ Upcoming.op = "synthesize" /\ Upcoming = calls[taken + 1] /\ pc = "idle"
  BY <1>1, TakeLemma DEF Upcoming
<1>3. ids \in Ids /\ out \in Outfile
  BY <1>2 DEF CallerInv, PluginInv, ArgumentsInv
<1>4. given' = given /\ files' = files /\ pc' # "synthesized"
  BY <1>1, <1>2 DEF Synthesize, Exit, Crash, ioVars
<1>5. PluginInv'
  BY HandleSynthesizeLemma DEF CallerInv
<1>6. EngineInv'
  BY <1>1, <1>3, SynthesizeLemma
<1>7. AppCallsInv' /\ WrittenInv'
  BY <1>2, <1>4, AppTakenLemma
<1>8. given # None
  BY <1>2, GivenLemma
<1>9. PreparedInv' /\ SavedInv'
  BY <1>4, <1>8 DEF CallerInv, PreparedInv, SavedInv
<1> QED
  BY <1>2, <1>4, <1>5, <1>6, <1>7, <1>9 DEF CallerInv

\* A call whose Future has completed is one the thread is through with.
LEMMA DoneLemma ==
  ASSUME CallerInv, alive = "up", NEW i \in DOMAIN calls
  PROVE  /\ calls[i].outcome # "unknown" => i <= taken /\ (pc # "idle" => i < taken)
         /\ calls[i].future = "done" => calls[i].outcome # "unknown"
<1>1. i \in Nat /\ taken \in Nat
  BY LenProperties DEF CallerInv, PluginInv, TypeOK
<1> QED
  BY <1>1 DEF CallerInv, PluginInv, RepliedInv, RepliesInv, Replied, Finished

\* A step that may write the file is part of a synthesize.
LEMMA AppNativeLemma ==
  ASSUME CallerInv, NativeStep
  PROVE  /\ CallerInv' /\ UNCHANGED <<calls, taken>> /\ alive = "up"
         /\ \/ files'[WavFile] = files[WavFile]
            \/ pc # "idle" /\ taken \in DOMAIN calls /\ calls[taken].op = "synthesize"
<1>1. /\ alive = "up" /\ UNCHANGED <<given, speak, inits, calls, taken>>
      /\ \/ pc \in InitPC /\ pc' \in InitPC \cup {"initialized"}
         \/ /\ pc \in InferPC \cup ExportPC
            /\ pc' \in InferPC \cup ExportPC \cup {"synthesized"}
      /\ \A f \in Outfile : files'[f] = files[f] \/ (pc \in ExportPC /\ f = speak.out)
  BY NativeFrameLemma DEF CallerInv, PluginInv, TypeOK, NativeStep, pluginVars
<1>2. PluginInv'
  BY NativeStepLemma DEF CallerInv
<1>3. EngineInv'
  BY EngineStepLemma DEF CallerInv, NativeStep
<1>4. DOMAIN calls = 1 .. Len(calls) /\ Len(calls) \in Nat /\ taken \in 0 .. Len(calls)
  BY LenProperties DEF CallerInv, PluginInv, TypeOK
<1>5. pc # "idle" /\ taken \in DOMAIN calls
  BY <1>1, <1>4 DEF CallerInv, PluginInv, HandlingInv, InitPC, InferPC, ExportPC
<1>6. pc \in InferPC \cup ExportPC => calls[taken].op = "synthesize"
  BY DEF CallerInv, PluginInv, HandlingInv, Handling
<1>7. AppCallsInv'
  BY <1>1 DEF CallerInv, AppCallsInv
<1>8. given # None
  <2>1. CASE pc \in InitPC
    BY <2>1 DEF CallerInv, EngineInv, CoreInv, ConstructorInv
  <2>2. CASE pc \in InferPC \cup ExportPC
    BY <1>4, <1>5, <1>6, <2>2, GivenLemma
  <2> QED
    BY <1>1, <2>1, <2>2
<1>9. PreparedInv'
  BY <1>1, <1>8 DEF CallerInv, PreparedInv
<1>10. SavedInv'
  <2>1. ASSUME pc' = "synthesized" PROVE WavOpen \/ WavWrite
    BY <2>1 DEF NativeStep, EngineStep, ReadStreams, BuildModels, AssignBackend, MelgenAllocate,
                MelgenRun, VocoderAllocate, VocoderRun, At, Exit, Crash
  <2>2. ASSUME WavOpen \/ WavWrite, pc' = "synthesized" PROVE saved' # "none"
    BY <2>2, <1>1 DEF WavOpen, WavWrite, Exit, At
  <2> QED
    BY <2>1, <2>2 DEF SavedInv
<1>11. WavFile \in Outfile
  BY AppAssumption
<1>12. WrittenInv'
  <2> SUFFICES ASSUME NEW i \in DOMAIN calls, calls[i].op = "synthesize",
                      calls[i].outcome = "full",
                      \A j \in i + 1 .. taken : calls[j].op # "synthesize"
               PROVE  files'[WavFile] \in AudioOf
    BY <1>1 DEF WrittenInv
  <2>1. files[WavFile] \in AudioOf
    BY DEF CallerInv, WrittenInv
  <2>2. i < taken /\ i \in Nat
    BY <1>1, <1>4, <1>5, DoneLemma
  <2>3. taken \in i + 1 .. taken
    BY <1>4, <2>2
  <2>4. pc \notin ExportPC
    BY <1>6, <2>3
  <2> QED
    BY <1>1, <1>11, <2>1, <2>4
<1> QED
  BY <1>1, <1>2, <1>3, <1>5, <1>6, <1>7, <1>9, <1>10, <1>11, <1>12 DEF CallerInv

\* The call that is replied to learns its outcome; if that is "full", the file is whole.
LEMMA AppReplyLemma ==
  ASSUME CallerInv, Reply
  PROVE  /\ CallerInv' /\ UNCHANGED files
         /\ Len(calls') = Len(calls) /\ DOMAIN calls' = DOMAIN calls
         /\ \A i \in DOMAIN calls :
              /\ calls'[i].op = calls[i].op /\ calls'[i].future = calls[i].future
              /\ i # taken => calls'[i].outcome = calls[i].outcome
         /\ taken \in DOMAIN calls /\ calls[taken].future # "done"
<1> DEFINE o == IF pc = "synthesized" THEN saved ELSE IF Readable THEN "loaded" ELSE "unloaded"
           c == [calls[taken] EXCEPT !.outcome = o]
<1>1. /\ alive = "up" /\ pc \in {"initialized", "synthesized"} /\ pc' = "idle"
      /\ UNCHANGED <<alive, given, speak, inits, files, saved, taken>>
      /\ calls' = [calls EXCEPT ![taken] = c] /\ Return
  BY DEF Reply, Return, At, ioVars
<1>2. /\ calls \in Seq(CallRecord) /\ DOMAIN calls = 1 .. Len(calls) /\ Len(calls) \in Nat
      /\ taken \in 0 .. Len(calls)
  BY LenProperties DEF CallerInv, PluginInv, TypeOK
<1>3. taken \in DOMAIN calls
  BY <1>1, <1>2 DEF CallerInv, PluginInv, HandlingInv
<1>4. calls[taken] \in CallRecord
  BY <1>2, <1>3, ElementOfSeq
<1>5. /\ c.outcome = o /\ c.op = calls[taken].op /\ c.plugin = calls[taken].plugin
      /\ c.out = calls[taken].out /\ c.future = calls[taken].future
  BY <1>4 DEF CallRecord
<1>6. /\ calls[taken].op = "synthesize" => pc = "synthesized" /\ speak.out = WavFile
      /\ pc = "synthesized" => o \in {"closed", "short", "full"} /\ o = saved
  <2>1. calls[taken].op = "synthesize" =>
          pc = "synthesized" /\ speak.out = calls[taken].out
    BY <1>1 DEF CallerInv, PluginInv, HandlingInv, Handling
  <2>2. calls[taken].op = "synthesize" => calls[taken].out = WavFile
    BY <1>3 DEF CallerInv, AppCallsInv
  <2>3. pc = "synthesized" => saved \in {"closed", "short", "full"}
    BY DEF CallerInv, SavedInv, EngineInv, CoreInv, EngineTypeOK
  <2> QED
    BY <2>1, <2>2, <2>3
<1> HIDE DEF c, o
<1>7. /\ Len(calls') = Len(calls) /\ DOMAIN calls' = DOMAIN calls
      /\ \A i \in DOMAIN calls : calls'[i] = IF i = taken THEN c ELSE calls[i]
  BY <1>1, <1>2, <1>3
<1>8. \A i \in DOMAIN calls :
        /\ calls'[i].op = calls[i].op /\ calls'[i].plugin = calls[i].plugin
        /\ calls'[i].out = calls[i].out /\ calls'[i].future = calls[i].future
        /\ i # taken => calls'[i].outcome = calls[i].outcome
  BY <1>5, <1>7
<1>9. calls[taken].future # "done"
  BY <1>1, <1>2, <1>3, DoneLemma
<1>10. PluginInv'
  BY ReplyLemma DEF CallerInv
<1>11. EngineInv'
  BY <1>1, ReturnLemma DEF CallerInv
<1>12. AppCallsInv'
  <2>1. Len(calls') <= MaxCalls
    BY <1>7 DEF CallerInv, AppCallsInv
  <2>2. ASSUME NEW i \in DOMAIN calls
        PROVE  /\ calls'[i].op \in {"initialize", "synthesize"}
               /\ calls'[i].op = "initialize" => calls'[i].plugin = App
               /\ calls'[i].op = "synthesize" =>
                    /\ calls'[i].out = WavFile
                    /\ calls'[i].outcome \in {"unknown", "closed", "short", "full"}
                    /\ \E k \in 1 .. i - 1 : calls'[k].op = "initialize"
    <3>1. calls[i].op = "synthesize" => \E k \in 1 .. i - 1 : calls'[k].op = "initialize"
      <4>1. \A k \in 1 .. i - 1 : k \in DOMAIN calls
        BY <1>2
      <4> QED
        BY <1>8, <4>1 DEF CallerInv, AppCallsInv
    <3>2. CASE i = taken
      BY <1>5, <1>6, <1>7, <1>8, <3>1, <3>2 DEF CallerInv, AppCallsInv
    <3>3. CASE i # taken
      BY <1>8, <3>1, <3>3 DEF CallerInv, AppCallsInv
    <3> QED
      BY <3>2, <3>3
  <2> QED
    BY <1>7, <2>1, <2>2, Zenon DEF AppCallsInv
<1>13. PreparedInv' /\ SavedInv'
  <2>1. \A i \in 1 .. taken : i \in DOMAIN calls
    BY <1>2
  <2> QED
    BY <1>1, <1>8, <2>1 DEF CallerInv, PreparedInv, SavedInv
<1>14. WrittenInv'
  <2> SUFFICES ASSUME NEW i \in DOMAIN calls, calls[i].op = "synthesize",
                      calls'[i].outcome = "full",
                      \A j \in i + 1 .. taken : calls'[j].op # "synthesize"
               PROVE  files[WavFile] \in AudioOf
    BY <1>1, <1>7, <1>8 DEF WrittenInv
  <2>1. CASE i = taken
    <3>1. pc = "synthesized" /\ saved = "full" /\ files[WavFile] = fields.audio
      BY <1>5, <1>6, <1>7, <2>1 DEF CallerInv, EngineInv, CoreInv, InferenceInv
    <3>2. /\ AudioReady /\ speak \in Speak
          /\ fields.melgen \in 1 .. MaxInit /\ fields.vocoder \in 1 .. MaxInit
          /\ melgens[fields.melgen].file # None /\ vocoders[fields.vocoder].file # None
      BY <3>1, MaxInitAssumption
      DEF CallerInv, EngineInv, CoreInv, EngineTypeOK, HeapInv, InferenceInv, AudioReady
    <3>3. melgens[fields.melgen].file \in Melgen /\ vocoders[fields.vocoder].file \in Vocoder
      BY <3>2 DEF CallerInv, EngineInv, CoreInv, EngineTypeOK, MelgenObj, VocoderObj, Num
    <3>4. MelOf \in Mel
      BY <3>2, <3>3 DEF MelOf, Mel, Speak
    <3> QED
      BY <3>1, <3>2, <3>3, <3>4 DEF AudioReady, AudioOf
  <2>2. CASE i # taken
    <3>1. calls[i].outcome = "full"
      BY <1>8, <2>2
    <3>2. \A j \in i + 1 .. taken : j \in DOMAIN calls
      BY <1>2
    <3> QED
      BY <1>8, <3>1, <3>2 DEF CallerInv, WrittenInv
  <2> QED
    BY <2>1, <2>2
<1> QED
  BY <1>1, <1>3, <1>7, <1>8, <1>9, <1>10, <1>11, <1>12, <1>13, <1>14 DEF CallerInv

(***************************************************************************)
(* The thread completes no Future, decides no call that the player plays,  *)
(* and writes the file only when a later synthesize is among the calls.    *)
(***************************************************************************)
LEMMA AppPlatformLemma == AppInv /\ AppPlatformThread => AppInv'
<1> SUFFICES ASSUME AppInv, AppPlatformThread PROVE AppInv'
  OBVIOUS
<1>1. CallerInv /\ UNCHANGED <<setup, initialized, enabled, player, heard, launches>>
  BY DEF AppInv, AppPlatformThread, appVars
<1>2. /\ CallerInv'
      /\ Len(calls') = Len(calls) /\ DOMAIN calls' = DOMAIN calls
      /\ \A i \in DOMAIN calls :
           /\ calls'[i].op = calls[i].op /\ calls'[i].future = calls[i].future
           /\ calls[i].future = "done" => calls'[i].outcome = calls[i].outcome
      /\ \/ files'[WavFile] = files[WavFile]
         \/ /\ alive = "up" /\ pc # "idle"
            /\ taken \in DOMAIN calls /\ calls[taken].op = "synthesize"
  <2>1. CASE HandleInitialize
    BY <1>1, <2>1, AppHandleInitializeLemma
  <2>2. CASE HandleSynthesize
    BY <1>1, <2>2, AppHandleSynthesizeLemma
  <2>3. CASE HandleDispose
    <3>1. /\ taken + 1 \in DOMAIN calls /\ calls[taken + 1].op = "dispose"
      BY <1>1, <2>3, TakeLemma DEF CallerInv, HandleDispose, Upcoming
    <3> QED
      BY <1>1, <3>1 DEF CallerInv, AppCallsInv
  <2>4. CASE NativeStep
    BY <1>1, <2>4, AppNativeLemma
  <2>5. CASE Reply
    BY <1>1, <2>5, AppReplyLemma
  <2> QED
    BY <2>1, <2>2, <2>3, <2>4, <2>5 DEF AppPlatformThread, PlatformThread
<1>3. ScreenInv'
  <2>1. OnceInitialized' <=> OnceInitialized
    BY <1>2 DEF OnceInitialized
  <2> QED
    BY <1>1, <1>2, <2>1, Zenon DEF AppInv, ScreenInv, EnabledMeansInitialized
<1>4. PlayerInv'
  <2>1. CASE player.state = "stopped"
    BY <1>1, <2>1 DEF AppInv, PlayerInv, Content
  <2>2. CASE player.state # "stopped"
    <3>1. /\ player.call \in DOMAIN calls
          /\ calls[player.call].op = "synthesize" /\ calls[player.call].future = "done"
      BY <2>2 DEF AppInv, PlayerInv
    <3>2. /\ calls'[player.call].op = "synthesize" /\ calls'[player.call].future = "done"
          /\ calls'[player.call].outcome = calls[player.call].outcome
      BY <1>2, <3>1
    <3>3. CASE files'[WavFile] = files[WavFile]
      BY <1>1, <1>2, <3>1, <3>2, <3>3 DEF AppInv, PlayerInv, Content
    <3>4. CASE /\ alive = "up" /\ pc # "idle"
               /\ taken \in DOMAIN calls /\ calls[taken].op = "synthesize"
      <4>1. player.call < taken
        BY <1>1, <3>1, <3>4, DoneLemma
      <4>2. \E j \in DOMAIN calls' : j > player.call /\ calls'[j].op = "synthesize"
        BY <1>2, <3>1, <3>4, <4>1, LenProperties DEF CallerInv, PluginInv, TypeOK
      <4> QED
        BY <1>1, <1>2, <3>1, <3>2, <4>2 DEF AppInv, PlayerInv, Content
    <3> QED
      BY <1>2, <3>3, <3>4
  <2> QED
    BY <2>1, <2>2
<1> QED
  BY <1>2, <1>3, <1>4 DEF AppInv

-----------------------------------------------------------------------------
(***************************************************************************)
(* Theorems                                                                *)
(***************************************************************************)

\* A step that changes nothing.
LEMMA AppStutterLemma == AppInv /\ UNCHANGED allVars => AppInv'
<1> SUFFICES ASSUME AppInv, UNCHANGED allVars PROVE AppInv'
  OBVIOUS
<1>1. /\ UNCHANGED vars /\ UNCHANGED <<calls, taken, files>>
      /\ UNCHANGED <<setup, initialized, enabled, player, heard, launches>>
  BY DEF allVars, appVars, vars, pluginVars, engineVars, ioVars
<1>2. CallerInv'
  BY <1>1, CallerFrameLemma DEF AppInv
<1>3. ScreenInv'
  <2>1. OnceInitialized' <=> OnceInitialized
    BY <1>1 DEF OnceInitialized
  <2> QED
    BY <1>1, <2>1, Zenon DEF AppInv, ScreenInv, EnabledMeansInitialized
<1>4. PlayerInv'
  BY <1>1 DEF AppInv, PlayerInv, Content
<1> QED
  BY <1>2, <1>3, <1>4 DEF AppInv

(***************************************************************************)
(* The invariant holds of every use of the application, however often its  *)
(* process is killed and started again.                                    *)
(***************************************************************************)
THEOREM AppInvariance == AppSpec => []AppInv
<1>1. AppInv /\ [AppNext]_allVars => AppInv'
  BY ScreenStepLemma, PressInitializeLemma, PressSynthesizeLemma, AppDeliverLemma,
     PlayerStepLemma, AppPlatformLemma, KillLemma, RelaunchLemma, AppStutterLemma
  DEF AppNext
<1> QED
  BY <1>1, AppInitLemma, PTL DEF AppSpec

(***************************************************************************)
(* The variables of the application, the plugin and the core keep their    *)
(* types, through presses, kills and launches.                             *)
(***************************************************************************)
THEOREM AppTypeCorrect == AppSpec => []AppTypeOK
<1>1. AppInv => AppTypeOK
  BY DEF AppInv, CallerInv, PluginInv, ScreenInv, PlayerInv, AppTypeOK
<1> QED
  BY <1>1, AppInvariance, PTL

(***************************************************************************)
(* SYNTHESIZE is enabled only on a plugin that is set and was initialized. *)
(***************************************************************************)
THEOREM EnabledOnlyInitialized == AppSpec => []EnabledMeansInitialized
<1>1. AppInv => EnabledMeansInitialized
  BY DEF AppInv, ScreenInv
<1> QED
  BY <1>1, AppInvariance, PTL

(***************************************************************************)
(* No order of presses faults while descriptors last: the process dies by  *)
(* a fault only when models could not be read (the core's invariant), the  *)
(* last ones given were the application's, and these can be read as long   *)
(* as descriptors last (the plugin's).                                     *)
(***************************************************************************)
THEOREM PressesNeverFault == AppSpec => []NeverFaultsWhileDescriptorsLast
<1>1. AppInv => NeverFaultsWhileDescriptorsLast
  <2> SUFFICES ASSUME AppInv, alive = "crash", ~(2 * inits > MaxFd) PROVE FALSE
    BY DEF NeverFaultsWhileDescriptorsLast
  <2>1. ~Readable
    BY DEF AppInv, CallerInv, EngineInv, CoreInv, CrashInv, LoadedInv, Loaded, InitPC
  <2>2. given # None /\ given.vocoder.file \in Bundled
    BY AppAssumption DEF AppInv, CallerInv, PreparedInv
  <2>3. 2 * inits <= MaxFd
    BY ConfigurationAssumption, MaxInitAssumption
    DEF AppInv, CallerInv, EngineInv, CoreInv, EngineTypeOK
  <2> QED
    BY <2>1, <2>2, <2>3 DEF AppInv, CallerInv, PluginInv, LoadsWhileDescriptorsLast
<1> QED
  BY <1>1, AppInvariance, PTL

(***************************************************************************)
(* The file is written in place by another thread than the player's, and   *)
(* killed processes leave it incomplete; still a sentence that was saved   *)
(* is heard as a whole unless a later synthesize was sent meanwhile.       *)
(***************************************************************************)
THEOREM SentencesHeardWhole == AppSpec => []HeardWhole
<1>1. AppInv => HeardWhole
  <2> SUFFICES ASSUME AppInv, Torn,
                      ~\E i \in DOMAIN calls : i > player.call /\ calls[i].op = "synthesize",
                      ~\E i \in DOMAIN calls : calls[i].outcome \in {"short", "closed"}
               PROVE  FALSE
    BY DEF HeardWhole
  <2> DEFINE p == player.call
  <2>1. player.state = "ended" /\ (heard[1] # heard[2] \/ Partial \in {heard[1], heard[2]})
    BY DEF Torn
  <2>2. p \in DOMAIN calls /\ calls[p].op = "synthesize" /\ calls[p].future = "done"
    BY <2>1 DEF AppInv, PlayerInv
  <2>3. calls[p].outcome = "full"
    BY <2>2 DEF AppInv, CallerInv, AppCallsInv, PluginInv, RepliesInv, Replied
  <2>4. heard[1] = files[WavFile] /\ heard[2] = files[WavFile]
    BY <2>1, <2>3 DEF AppInv, PlayerInv
  <2>5. \A j \in p + 1 .. taken : j \in DOMAIN calls /\ j > p
    BY <2>2, LenProperties DEF AppInv, CallerInv, PluginInv, TypeOK
  <2>6. files[WavFile] \in AudioOf
    BY <2>2, <2>3, <2>5 DEF AppInv, CallerInv, WrittenInv
  <2> QED
    BY <2>1, <2>4, <2>6, NoneAssumption
<1> QED
  BY <1>1, AppInvariance, PTL
=============================================================================
