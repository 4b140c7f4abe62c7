-------------------------- MODULE AndroidJniProofs --------------------------
(***************************************************************************)
(* Theorems about the Android library: what its initialize() adds to the   *)
(* core makes the core's guarantees unconditional.                         *)
(***************************************************************************)
EXTENDS AndroidJni, TTSEngineProofs

(***************************************************************************)
(* Every native function is a call of the core or leaves it alone.         *)
(***************************************************************************)
THEOREM JniUsesEngine == JniSpec => EngineSpec
<1>1. JniInit => EngineInit
  BY DEF JniInit
<1>2. [JniNext]_jniVars => [EngineNext]_engineVars
  <2> SUFFICES ASSUME [JniNext]_jniVars PROVE [EngineNext]_engineVars
    OBVIOUS
  <2>1. ASSUME NEW mel \in Melgen, NEW voc \in Vocoder, JniInitialize(mel, voc)
        PROVE  [EngineNext]_engineVars
    <3>1. ASSUME NEW m \in BOOLEAN, NEW v \in BOOLEAN,
                 Initialize(Stream(mel, m), Stream(voc, v))
          PROVE  EngineNext
      <4>1. Stream(mel, m) \in MelgenStream /\ Stream(voc, v) \in VocoderStream
        BY DEF Stream, MelgenStream, VocoderStream
      <4> QED
        BY <3>1, <4>1 DEF EngineNext
    <3> QED
      BY <2>1, <3>1 DEF JniInitialize
  <2>2. CASE \E ids \in Ids, out \in Outfile : JniSynthesize(ids, out)
    BY <2>2 DEF JniSynthesize, EngineNext
  <2>3. CASE JniStep
    BY <2>3 DEF JniStep, EngineNext
  <2>4. CASE JniReturn
    BY <2>4 DEF JniReturn, EngineNext
  <2>5. CASE UNCHANGED jniVars
    BY <2>5 DEF jniVars
  <2> QED
    BY <2>1, <2>2, <2>3, <2>4, <2>5 DEF JniNext
<1> QED
  BY <1>1, <1>2, PTL DEF JniSpec, EngineSpec

(***************************************************************************)
(* The core is only ever given streams it can read, and but for the time   *)
(* of a call what was served last is what the core was given last.         *)
(***************************************************************************)
ServedInv ==
  /\ returned \in {"none", "0", "-1"}
  /\ served \in Given \cup {None}
  /\ given # None => Readable
  /\ served # None => given # None
  /\ served # None /\ ~Initializing => served = given

LEMMA JniInitializeServedLemma ==
  ASSUME NEW mel \in Melgen, NEW voc \in Vocoder, EngineInv, ServedInv,
         JniInitialize(mel, voc)
  PROVE  ServedInv'
<1>1. CASE UNCHANGED engineVars
  BY <1>1 DEF JniInitialize, ServedInv, Readable, Initializing, engineVars
<1>2. CASE Initialize(Stream(mel, TRUE), Stream(voc, TRUE))
  <2>1. /\ given' = [melgen |-> Stream(mel, TRUE), vocoder |-> Stream(voc, TRUE)]
        /\ pc' = "read" /\ served' = served /\ returned' \in {"none", "-1"}
    BY <1>2 DEF JniInitialize, Initialize
  <2>2. given' \in Given
    BY <2>1 DEF Given, MelgenStream, VocoderStream, Stream
  <2>3. given' # None
    BY <2>2, NoneAssumption
  <2>4. Readable'
    BY <2>1, <2>3 DEF Readable, Stream
  <2>5. Initializing'
    BY <2>1 DEF Initializing, InitPC
  <2> QED
    BY <2>1, <2>3, <2>4, <2>5 DEF ServedInv
<1> QED
  BY <1>1, <1>2 DEF JniInitialize

LEMMA JniStepServedLemma ==
  ASSUME EngineInv, ServedInv, JniStep
  PROVE  ServedInv'
<1>1. given' = given
  BY DEF JniStep, EngineStep, ReadStreams, BuildModels, AssignBackend, MelgenAllocate, MelgenRun,
         VocoderAllocate, VocoderRun, WavOpen, WavWrite, Exit, Crash
<1>2. Initializing' = Initializing
  BY DEF JniStep, EngineStep, ReadStreams, BuildModels, AssignBackend, MelgenAllocate, MelgenRun,
         VocoderAllocate, VocoderRun, WavOpen, WavWrite, Exit, Crash, At, Initializing, InitPC
<1> QED
  BY <1>1, <1>2 DEF JniStep, ServedInv, Readable

THEOREM ServedInvariance == JniSpec => [](EngineInv /\ ServedInv)
<1>1. JniInit => ServedInv
  BY DEF JniInit, EngineInit, ServedInv
<1>2. EngineInv /\ ServedInv /\ [JniNext]_jniVars => ServedInv'
  <2> SUFFICES ASSUME EngineInv, ServedInv, [JniNext]_jniVars PROVE ServedInv'
    OBVIOUS
  <2>1. CASE \E mel \in Melgen, voc \in Vocoder : JniInitialize(mel, voc)
    BY <2>1, JniInitializeServedLemma
  <2>2. CASE \E ids \in Ids, out \in Outfile : JniSynthesize(ids, out)
    BY <2>2 DEF JniSynthesize, Synthesize, Exit, Crash, At, ServedInv, Readable, Initializing, InitPC
  <2>3. CASE JniStep
    BY <2>3, JniStepServedLemma
  <2>4. CASE JniReturn
    <3>1. given' = given /\ pc' = "idle" /\ returned' = "0"
          /\ served' = IF pc = "initialized" THEN given ELSE served
      BY <2>4 DEF JniReturn, Return
    <3>2. given \in Given \cup {None}
      BY DEF EngineInv, CoreInv, EngineTypeOK
    <3>3. pc # "initialized" => ~Initializing
      BY <2>4 DEF JniReturn, Return, At, Initializing, InitPC
    <3> QED
      BY <3>1, <3>2, <3>3 DEF ServedInv, Readable
  <2>5. CASE UNCHANGED jniVars
    BY <2>5 DEF jniVars, engineVars, ServedInv, Readable, Initializing
  <2> QED
    BY <2>1, <2>2, <2>3, <2>4, <2>5 DEF JniNext
<1> QED
  BY <1>1, <1>2, JniUsesEngine, EngineInvariance, PTL DEF JniSpec

(***************************************************************************)
(* The Android library is type correct.                                    *)
(***************************************************************************)
THEOREM JniTypeCorrect == JniSpec => []JniTypeOK
<1>1. EngineInv /\ ServedInv => JniTypeOK
  BY DEF EngineInv, CoreInv, ServedInv, JniTypeOK
<1> QED
  BY <1>1, ServedInvariance, PTL

(***************************************************************************)
(* However many initialize() return -1, the models of the last one that    *)
(* returned 0 stay in the backend.                                         *)
(***************************************************************************)
THEOREM FailuresKeepVoice == JniSpec => []FailedInitializeKeepsVoice
<1>1. EngineInv /\ ServedInv => FailedInitializeKeepsVoice
  BY DEF EngineInv, CoreInv, LoadedInv, Loaded, ServedInv, FailedInitializeKeepsVoice,
         Initializing, InitPC
<1> QED
  BY <1>1, ServedInvariance, PTL

(***************************************************************************)
(* There is no memory fault after an initialize() that returned 0.         *)
(***************************************************************************)
THEOREM ServedNeverFaults == JniSpec => []FaultsOnlyBeforeSuccess
<1>1. EngineInv /\ ServedInv => FaultsOnlyBeforeSuccess
  BY DEF EngineInv, CoreInv, CrashInv, LoadedInv, Loaded, ServedInv, FaultsOnlyBeforeSuccess,
         InitPC
<1> QED
  BY <1>1, ServedInvariance, PTL

(***************************************************************************)
(* Files are in the voice of the last initialize() that returned 0.        *)
(***************************************************************************)
THEOREM FilesHaveServedVoice == JniSpec => []FileHasServedVoice
<1>1. EngineInv /\ ServedInv => FileHasServedVoice
  BY DEF EngineInv, CoreInv, LoadedInv, Loaded, InferenceInv, AudioReady, MelOf, ServedInv,
         FileHasServedVoice, Initializing, InitPC
<1> QED
  BY <1>1, ServedInvariance, PTL
=============================================================================
