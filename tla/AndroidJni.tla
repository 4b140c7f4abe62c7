----------------------------- MODULE AndroidJni -----------------------------
(***************************************************************************)
(* The native functions of the Android library (TextToSpeechAndroid.cpp)   *)
(* over the native core, called in any order by a Java thread.             *)
(*                                                                         *)
(* Unlike the handler on iOS, initialize() here has failures of its own,   *)
(* which it reports and which come before the core is touched.  The        *)
(* streams it makes are never deleted, and not read after the call.        *)
(***************************************************************************)
EXTENDS TTSEngine

VARIABLES
  returned,  \* the result of the last native function, "none" until it returns
  served     \* history: the arguments of the last initialize() that returned 0

jniVars == <<engineVars, returned, served>>

JniTypeOK ==
  /\ EngineTypeOK
  /\ returned \in {"none", "0", "-1"}
  /\ served \in Given \cup {None}

JniInit == EngineInit /\ returned = "none" /\ served = None

-----------------------------------------------------------------------------

\* map_file's stream delivers as many bytes as its size() says.
Stream(file, mapped) == [file |-> file, good |-> mapped]

JniInitialize_MelgenChecked(mel, voc) ==
  /\ At("idle")
  /\ \E manager, melMapped, vocMapped \in BOOLEAN :
       IF manager /\ melMapped
       THEN /\ Initialize(Stream(mel, melMapped), Stream(voc, vocMapped))
            /\ returned' = "none"
       ELSE /\ returned' = "-1"
            /\ UNCHANGED engineVars
  /\ UNCHANGED served

\* Without the asset manager or one of the files the core is not called.
JniInitialize(mel, voc) ==
  /\ At("idle")
  /\ \E manager, melMapped, vocMapped \in BOOLEAN :
       IF manager /\ melMapped /\ vocMapped
       THEN /\ Initialize(Stream(mel, melMapped), Stream(voc, vocMapped))
            /\ returned' = "none"
       ELSE /\ returned' = "-1"
            /\ UNCHANGED engineVars
  /\ UNCHANGED served

JniSynthesize(ids, out) ==
  /\ Synthesize(ids, out)
  /\ returned' = "none"
  /\ UNCHANGED served

JniStep == EngineStep /\ UNCHANGED <<returned, served>>

\* The core's own result of initialize() is dropped; synthesize()'s is 0.
JniReturn ==
  /\ Return
  /\ returned' = "0"
  /\ served' = IF pc = "initialized" THEN given ELSE served

JniNext ==
  \/ \E mel \in Melgen, voc \in Vocoder : JniInitialize(mel, voc)
  \/ \E ids \in Ids, out \in Outfile : JniSynthesize(ids, out)
  \/ JniStep
  \/ JniReturn

JniSpec == JniInit /\ [][JniNext]_jniVars

-----------------------------------------------------------------------------
(***************************************************************************)
(* Properties                                                              *)
(***************************************************************************)

Initializing == pc \in InitPC \cup {"initialized"}

(***************************************************************************)
(* Android keeps what iOS only reports: the backend holds the models of    *)
(* the last initialize() that returned 0, also after any number of later   *)
(* ones that returned -1 halfway, with the generator mapped already.       *)
(***************************************************************************)
FailedInitializeKeepsVoice ==
  served # None /\ ~Initializing =>
    /\ backend = "live"
    /\ fields.melgen  # 0 /\ melgens[fields.melgen].file   = served.melgen.file
    /\ fields.vocoder # 0 /\ vocoders[fields.vocoder].file = served.vocoder.file

(***************************************************************************)
(* Once an initialize() returned 0, no order of calls, failed ones among   *)
(* them, makes the process fault.                                          *)
(***************************************************************************)
FaultsOnlyBeforeSuccess == alive = "crash" => served = None

(***************************************************************************)
(* A file that could be written holds its sentence in the voice of the     *)
(* last initialize() that returned 0, not of one that returned -1 since.   *)
(***************************************************************************)
FileHasServedVoice ==
  served # None /\ pc = "synthesized" /\ saved = "full" =>
    files[speak.out] = [voc |-> served.vocoder.file,
                        mel |-> [gen |-> served.melgen.file, ids |-> speak.ids]]
=============================================================================
