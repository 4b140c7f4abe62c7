--------------------------- MODULE TTSEngineProofs ---------------------------
(***************************************************************************)
(* Theorems about the native core, for any number of initializations, of   *)
(* models, sentences and files.                                            *)
(***************************************************************************)
EXTENDS TTSEngine, TLAPS

(***************************************************************************)
(* The inductive invariant.  Each conjunct is what one part of the code    *)
(* leaves for the next one to rely on.                                     *)
(***************************************************************************)

\* Blocks get fresh numbers, and a model pointer that is set leads to a model.
HeapInv ==
  /\ fields.melgen \in 0 .. inits /\ fields.vocoder \in 0 .. inits
  /\ fields.melgen # 0 => melgens[fields.melgen].file # None
  /\ fields.vocoder # 0 => vocoders[fields.vocoder].file # None
  /\ \A k \in Num : k > inits => melgens[k].file = None /\ vocoders[k].file = None

\* What the constructor has done by each of its statements.
ConstructorInv ==
  /\ pc \in InitPC => given # None /\ inits # 0
  /\ pc = "build" => /\ Readable
                     /\ <<"melgen", inits>> \in buffers /\ <<"vocoder", inits>> \in buffers

\* The models of the last initialize() are in place once its constructor ran.
Loaded ==
  /\ fields.melgen  # 0 /\ melgens[fields.melgen].file   = given.melgen.file
  /\ fields.vocoder # 0 /\ vocoders[fields.vocoder].file = given.vocoder.file
LoadedInv ==
  /\ Readable /\ pc \notin {"read", "build"} => Loaded
  /\ Readable /\ pc \notin InitPC => backend = "live"

\* What the inference has computed by each of its statements.
MelOf == [gen |-> melgens[fields.melgen].file, ids |-> speak.ids]
MelReady ==
  /\ fields.melgen # 0
  /\ fields.mel = [obj |-> fields.melgen, shape |-> MelOf, fresh |-> TRUE]
  /\ melgens[fields.melgen].out = MelOf
AudioReady ==
  /\ fields.melgen # 0 /\ fields.vocoder # 0
  /\ fields.audio = [voc |-> vocoders[fields.vocoder].file, mel |-> MelOf]
InferenceInv ==
  /\ pc \in InferPC \cup ExportPC \cup {"synthesized"} => speak # None
  /\ pc = "melgen_run" => /\ fields.melgen # 0
                          /\ melgens[fields.melgen].dims = speak.ids
                          /\ melgens[fields.melgen].ready
  /\ pc = "vocoder_alloc" => MelReady
  /\ pc = "vocoder_run" => /\ MelReady
                           /\ fields.vocoder # 0
                           /\ vocoders[fields.vocoder].dims = MelOf
                           /\ vocoders[fields.vocoder].ready
  /\ pc \in ExportPC \cup {"synthesized"} => AudioReady
  /\ pc = "synthesized" /\ saved = "full" => files[speak.out] = fields.audio

\* Where the process can have been killed.
CrashInv ==
  alive = "crash" => \/ pc = "idle" /\ backend = "null"
                     \/ pc = "melgen_alloc"  /\ fields.melgen = 0
                     \/ pc = "vocoder_alloc" /\ fields.vocoder = 0

CoreInv ==
  /\ EngineTypeOK
  /\ HeapInv
  /\ BuffersOutliveModels
  /\ ConstructorInv
  /\ LoadedInv
  /\ InferenceInv
EngineInv == CoreInv /\ CrashInv

-----------------------------------------------------------------------------
LEMMA InitLemma == EngineInit => EngineInv
  BY MaxInitAssumption, NoneAssumption
  DEF EngineInit, EngineInv, CoreInv, EngineTypeOK, HeapInv, BuffersOutliveModels,
      ConstructorInv,
      LoadedInv, InferenceInv, CrashInv, NoModel, NoMel, MelgenObj, VocoderObj, MelData,
      Readable, PC, InitPC, InferPC, ExportPC, Num

LEMMA ExitLemma == EngineInv /\ Exit => EngineInv'
  BY DEF Exit, heapVars, ioVars, EngineInv, CoreInv, EngineTypeOK, HeapInv, BuffersOutliveModels,
         ConstructorInv, LoadedInv, Loaded, InferenceInv, CrashInv, MelReady, AudioReady,
         MelOf, Readable

LEMMA InitializeLemma ==
  ASSUME NEW mel \in MelgenStream, NEW voc \in VocoderStream,
         EngineInv, Initialize(mel, voc)
  PROVE  EngineInv'
<1>0. /\ inits < MaxInit /\ inits' = inits + 1 /\ UNCHANGED <<melgens, vocoders>>
      /\ EngineTypeOK /\ HeapInv
  BY DEF Initialize, EngineInv, CoreInv
<1>1. LeftIn(melgens) \subseteq 0 .. inits /\ LeftIn(vocoders) \subseteq 0 .. inits
  BY <1>0, MaxInitAssumption DEF EngineTypeOK, HeapInv, LeftIn, Num
<1>2. PICK g \in LeftIn(melgens), v \in LeftIn(vocoders) :
        fields' = [melgen |-> g, vocoder |-> v, mel |-> NoMel, audio |-> None]
  BY DEF Initialize
<1>3. g \in 0 .. inits /\ v \in 0 .. inits /\ 0 .. inits \subseteq 0 .. MaxInit
  BY <1>0, <1>1, MaxInitAssumption DEF EngineTypeOK
<1>4. EngineTypeOK'
  <2>1. fields' \in [melgen : 0 .. MaxInit, vocoder : 0 .. MaxInit,
                     mel : MelData, audio : AudioOf \cup {None}]
    BY <1>2, <1>3, MaxInitAssumption DEF NoMel, MelData
  <2> QED
    BY <1>0, <2>1, MaxInitAssumption
    DEF EngineTypeOK, Initialize, At, ioVars, PC, InitPC, Given
<1>5. HeapInv'
  <2>1. fields'.melgen \in 0 .. inits' /\ fields'.vocoder \in 0 .. inits'
    BY <1>0, <1>2, <1>3, MaxInitAssumption DEF EngineTypeOK
  <2>2. /\ fields'.melgen # 0 => melgens'[fields'.melgen].file # None
        /\ fields'.vocoder # 0 => vocoders'[fields'.vocoder].file # None
    BY <1>0, <1>2 DEF LeftIn
  <2>3. \A k \in Num : k > inits' => melgens'[k].file = None /\ vocoders'[k].file = None
    BY <1>0, MaxInitAssumption DEF EngineTypeOK, HeapInv, Num
  <2> QED
    BY <2>1, <2>2, <2>3 DEF HeapInv
<1>6. BuffersOutliveModels'
  BY DEF EngineInv, CoreInv, BuffersOutliveModels, Initialize
<1>7. ConstructorInv'
  BY MaxInitAssumption, NoneAssumption
  DEF EngineInv, CoreInv, EngineTypeOK, ConstructorInv, Initialize, Given, InitPC
<1>8. LoadedInv' /\ InferenceInv' /\ CrashInv'
  BY DEF LoadedInv, InferenceInv, CrashInv, Initialize, At, InitPC, InferPC, ExportPC
<1> QED
  BY <1>4, <1>5, <1>6, <1>7, <1>8 DEF EngineInv, CoreInv

LEMMA ReadStreamsLemma == EngineInv /\ ReadStreams => EngineInv'
<1> SUFFICES ASSUME EngineInv, ReadStreams, ~Exit PROVE EngineInv'
  BY ExitLemma
<1>0. /\ At("read") /\ given \in Given /\ inits \in Num
      /\ buffers' = buffers \cup {<<"melgen", inits>>}
                       \cup (IF given.melgen.good THEN {<<"vocoder", inits>>} ELSE {})
      /\ pc' = IF given.melgen.good /\ given.vocoder.good THEN "build" ELSE "assign"
      /\ UNCHANGED <<alive, given, speak, inits, backend, fields, melgens, vocoders, ioVars>>
  BY MaxInitAssumption
  DEF ReadStreams, EngineInv, CoreInv, EngineTypeOK, ConstructorInv, InitPC, At, Num
<1>1. EngineTypeOK'
  BY <1>0 DEF EngineInv, CoreInv, EngineTypeOK, ioVars, PC, InitPC
<1>2. HeapInv' /\ BuffersOutliveModels'
  BY <1>0 DEF EngineInv, CoreInv, HeapInv, BuffersOutliveModels
<1>3. ConstructorInv'
  BY <1>0 DEF EngineInv, CoreInv, ConstructorInv, Readable, At, InitPC
<1>4. LoadedInv'
  BY <1>0 DEF LoadedInv, Readable, InitPC
<1>5. InferenceInv' /\ CrashInv'
  BY <1>0 DEF InferenceInv, CrashInv, At, InferPC, ExportPC
<1> QED
  BY <1>1, <1>2, <1>3, <1>4, <1>5 DEF EngineInv, CoreInv

LEMMA BuildModelsLemma == EngineInv /\ BuildModels => EngineInv'
<1> SUFFICES ASSUME EngineInv, BuildModels, ~Exit PROVE EngineInv'
  BY ExitLemma
<1>0. /\ At("build") /\ given \in Given /\ inits \in Num /\ Readable
      /\ <<"melgen", inits>> \in buffers /\ <<"vocoder", inits>> \in buffers
      /\ melgens'  = [melgens  EXCEPT ![inits] = [NoModel EXCEPT !.file = given.melgen.file]]
      /\ vocoders' = [vocoders EXCEPT ![inits] = [NoModel EXCEPT !.file = given.vocoder.file]]
      /\ fields'   = [fields EXCEPT !.melgen = inits, !.vocoder = inits]
      /\ pc' = "assign"
      /\ UNCHANGED <<alive, given, speak, inits, backend, buffers, ioVars>>
  BY MaxInitAssumption
  DEF BuildModels, EngineInv, CoreInv, EngineTypeOK, ConstructorInv, InitPC, At, Num
<1>1. EngineTypeOK'
  <2>1. melgens' \in [Num -> MelgenObj]
    BY <1>0 DEF EngineInv, CoreInv, EngineTypeOK, NoModel, MelgenObj, Given, MelgenStream
  <2>2. vocoders' \in [Num -> VocoderObj]
    BY <1>0 DEF EngineInv, CoreInv, EngineTypeOK, NoModel, VocoderObj, Given, VocoderStream
  <2> QED
    BY <1>0, <2>1, <2>2, MaxInitAssumption
    DEF EngineInv, CoreInv, EngineTypeOK, ioVars, PC, InitPC, Num
<1>2. Loaded'
  BY <1>0, MaxInitAssumption
  DEF EngineInv, CoreInv, EngineTypeOK, Loaded, NoModel, Num
<1>3. HeapInv'
  <2>1. given.melgen.file # None /\ given.vocoder.file # None
    BY <1>0, NoneAssumption DEF Given, MelgenStream, VocoderStream
  <2> QED
    BY <1>0, <1>2, <2>1, MaxInitAssumption DEF HeapInv, Loaded, EngineInv, CoreInv, EngineTypeOK, Num
<1>4. BuffersOutliveModels'
  BY <1>0 DEF EngineInv, CoreInv, EngineTypeOK, BuffersOutliveModels
<1>5. ConstructorInv' /\ LoadedInv'
  BY <1>0, <1>2, MaxInitAssumption, NoneAssumption
  DEF EngineInv, CoreInv, ConstructorInv, LoadedInv, InitPC, Num
<1>6. InferenceInv' /\ CrashInv'
  BY <1>0 DEF InferenceInv, CrashInv, At, InferPC, ExportPC
<1> QED
  BY <1>1, <1>3, <1>4, <1>5, <1>6 DEF EngineInv, CoreInv

LEMMA AssignBackendLemma == EngineInv /\ AssignBackend => EngineInv'
<1> SUFFICES ASSUME EngineInv, AssignBackend PROVE EngineInv'
  OBVIOUS
<1>1. EngineTypeOK'
  BY DEF EngineInv, CoreInv, EngineTypeOK, AssignBackend, ioVars, PC
<1>2. HeapInv' /\ BuffersOutliveModels'
  BY DEF EngineInv, CoreInv, HeapInv, BuffersOutliveModels, AssignBackend
<1>3. ConstructorInv' /\ LoadedInv'
  BY DEF EngineInv, CoreInv, ConstructorInv, LoadedInv, Loaded, Readable, AssignBackend, At, InitPC
<1>4. InferenceInv' /\ CrashInv'
  BY DEF InferenceInv, CrashInv, AssignBackend, At, InferPC, ExportPC
<1> QED
  BY <1>1, <1>2, <1>3, <1>4 DEF EngineInv, CoreInv

(***************************************************************************)
(* A crash changes nothing but alive: what matters is where it happens.    *)
(***************************************************************************)
LEMMA CoreCrashLemma == CoreInv /\ Crash => CoreInv'
<1> SUFFICES ASSUME CoreInv, Crash PROVE CoreInv'
  OBVIOUS
<1>1. EngineTypeOK'
  BY DEF Crash, CoreInv, EngineTypeOK, heapVars, ioVars
<1>2. HeapInv' /\ BuffersOutliveModels' /\ ConstructorInv' /\ LoadedInv'
  BY DEF Crash, CoreInv, heapVars, HeapInv, BuffersOutliveModels, ConstructorInv,
         LoadedInv, Loaded, Readable
<1>3. InferenceInv'
  BY DEF Crash, CoreInv, heapVars, ioVars, InferenceInv, MelReady, AudioReady, MelOf
<1> QED
  BY <1>1, <1>2, <1>3 DEF CoreInv

LEMMA CrashLemma ==
  ASSUME EngineInv, Crash,
         \/ pc = "idle" /\ backend = "null"
         \/ pc = "melgen_alloc"  /\ fields.melgen = 0
         \/ pc = "vocoder_alloc" /\ fields.vocoder = 0
  PROVE  EngineInv'
  BY CoreCrashLemma DEF Crash, EngineInv, CrashInv, heapVars

LEMMA SynthesizeLemma ==
  ASSUME NEW ids \in Ids, NEW out \in Outfile, EngineInv, Synthesize(ids, out)
  PROVE  EngineInv'
<1> SUFFICES ASSUME ~Exit PROVE EngineInv'
  BY ExitLemma
<1>1. CASE backend = "null"
  BY <1>1, CrashLemma DEF Synthesize, At
<1>2. CASE backend # "null"
  <2>0. /\ At("idle") /\ speak' = [ids |-> ids, out |-> out]
        /\ saved' = "none" /\ pc' = "melgen_alloc"
        /\ UNCHANGED <<alive, given, inits, heapVars, files>>
    BY <1>2 DEF Synthesize
  <2>1. EngineTypeOK'
    BY <2>0 DEF EngineInv, CoreInv, EngineTypeOK, heapVars, PC, InferPC, Speak
  <2>2. HeapInv' /\ BuffersOutliveModels'
    BY <2>0 DEF EngineInv, CoreInv, HeapInv, BuffersOutliveModels, heapVars
  <2>3. ConstructorInv' /\ LoadedInv'
    BY <2>0 DEF EngineInv, CoreInv, heapVars, ConstructorInv, LoadedInv, Loaded, Readable, At, InitPC
  <2>4. InferenceInv' /\ CrashInv'
    BY <2>0, NoneAssumption DEF InferenceInv, CrashInv, At, ExportPC, Speak
  <2> QED
    BY <2>1, <2>2, <2>3, <2>4 DEF EngineInv, CoreInv
<1> QED
  BY <1>1, <1>2

LEMMA MelgenAllocateLemma == EngineInv /\ MelgenAllocate => EngineInv'
<1> SUFFICES ASSUME EngineInv, MelgenAllocate, ~Exit PROVE EngineInv'
  BY ExitLemma
<1> DEFINE k == fields.melgen
<1>1. CASE k = 0
  BY <1>1, CrashLemma DEF MelgenAllocate, At
<1>2. CASE k # 0
  <2>0. /\ At("melgen_alloc") /\ k \in Num /\ speak \in Speak
        /\ melgens' = [melgens EXCEPT ![k] = Allocated(@, speak.ids)]
        /\ fields' = MelStale(k)
        /\ pc' = "melgen_run"
        /\ UNCHANGED <<alive, given, speak, inits, backend, buffers, vocoders, ioVars>>
    BY <1>2, MaxInitAssumption
    DEF MelgenAllocate, EngineInv, CoreInv, EngineTypeOK, InferenceInv, InferPC, At, Num
  <2>1. melgens' \in [Num -> MelgenObj]
    BY <2>0 DEF EngineInv, CoreInv, EngineTypeOK, Allocated, MelgenObj, Speak
  <2>2. /\ fields' \in [melgen : 0 .. MaxInit, vocoder : 0 .. MaxInit,
                         mel : MelData, audio : AudioOf \cup {None}]
        /\ fields'.melgen = fields.melgen /\ fields'.vocoder = fields.vocoder
    BY <2>0 DEF EngineInv, CoreInv, EngineTypeOK, MelStale, MelData
  <2>3. EngineTypeOK'
    BY <2>0, <2>1, <2>2 DEF EngineInv, CoreInv, EngineTypeOK, ioVars, PC, InferPC
  <2>4. \A n \in Num : melgens'[n].file = melgens[n].file
    BY <2>0 DEF EngineInv, CoreInv, EngineTypeOK, Allocated
  <2>5. HeapInv' /\ BuffersOutliveModels'
    BY <2>0, <2>2, <2>4, MaxInitAssumption
    DEF EngineInv, CoreInv, EngineTypeOK, HeapInv, BuffersOutliveModels, Num
  <2>6. ConstructorInv' /\ LoadedInv'
    BY <2>0, <2>2, <2>4, MaxInitAssumption
    DEF EngineInv, CoreInv, EngineTypeOK, ConstructorInv, LoadedInv, Loaded, Readable, At, InitPC, Num
  <2>7. InferenceInv' /\ CrashInv'
    <3>1. melgens'[k].dims = speak.ids /\ melgens'[k].ready
      BY <2>0 DEF EngineInv, CoreInv, EngineTypeOK, Allocated
    <3> QED
      BY <1>2, <2>0, <2>2, <3>1, NoneAssumption DEF InferenceInv, CrashInv, At, ExportPC
  <2> QED
    BY <2>3, <2>5, <2>6, <2>7 DEF EngineInv, CoreInv
<1> QED
  BY <1>1, <1>2

(***************************************************************************)
(* After a checked Invoke the mel is there.  The run cannot crash: the     *)
(* buffer outlives the model, and the inputs were sized just before.       *)
(***************************************************************************)
LEMMA MelgenRunLemma == EngineInv /\ MelgenRun => EngineInv'
<1> SUFFICES ASSUME EngineInv, MelgenRun, ~Exit PROVE EngineInv'
  BY ExitLemma
<1> DEFINE k == fields.melgen
<1>0. /\ At("melgen_run") /\ k \in Num /\ k # 0 /\ speak \in Speak
      /\ melgens[k].file \in Melgen /\ <<"melgen", k>> \in buffers
      /\ melgens[k].dims = speak.ids
  <2>1. At("melgen_run") /\ k # 0 /\ speak \in Speak /\ melgens[k].dims = speak.ids
    BY DEF MelgenRun, EngineInv, CoreInv, EngineTypeOK, InferenceInv, InferPC, At
  <2>2. k \in Num /\ melgens[k].file # None
    BY <2>1, MaxInitAssumption DEF EngineInv, CoreInv, EngineTypeOK, HeapInv, Num
  <2>3. melgens[k].file \in Melgen
    BY <2>2 DEF EngineInv, CoreInv, EngineTypeOK, MelgenObj
  <2> QED
    BY <2>1, <2>2, <2>3 DEF EngineInv, CoreInv, BuffersOutliveModels
<1>1. /\ melgens' = [melgens EXCEPT ![k].out = MelOf]
      /\ fields' = [fields EXCEPT !.mel = [obj |-> k, shape |-> MelOf, fresh |-> TRUE]]
      /\ pc' = "vocoder_alloc"
      /\ UNCHANGED <<alive, given, speak, inits, backend, buffers, vocoders, ioVars>>
  BY <1>0 DEF MelgenRun, MelOf
<1>2. MelOf \in Mel
  BY <1>0 DEF MelOf, Mel, Speak
<1>3. melgens' \in [Num -> MelgenObj]
  BY <1>0, <1>1, <1>2 DEF EngineInv, CoreInv, EngineTypeOK, MelgenObj
<1>4. /\ \A n \in Num : melgens'[n].file = melgens[n].file
      /\ melgens'[k].out = MelOf
  BY <1>0, <1>1 DEF EngineInv, CoreInv, EngineTypeOK, MelgenObj
<1>5. /\ fields' \in [melgen : 0 .. MaxInit, vocoder : 0 .. MaxInit,
                       mel : MelData, audio : AudioOf \cup {None}]
      /\ fields'.melgen = k /\ fields'.vocoder = fields.vocoder
      /\ fields'.mel = [obj |-> k, shape |-> MelOf, fresh |-> TRUE]
  BY <1>0, <1>1, <1>2 DEF EngineInv, CoreInv, EngineTypeOK, MelData
<1>6. EngineTypeOK'
  BY <1>1, <1>3, <1>5 DEF EngineInv, CoreInv, EngineTypeOK, ioVars, PC, InferPC
<1>7. HeapInv' /\ BuffersOutliveModels'
  BY <1>1, <1>4, <1>5, MaxInitAssumption
  DEF EngineInv, CoreInv, EngineTypeOK, HeapInv, BuffersOutliveModels, Num
<1>8. ConstructorInv' /\ LoadedInv'
  BY <1>0, <1>1, <1>4, <1>5, MaxInitAssumption
  DEF EngineInv, CoreInv, EngineTypeOK, ConstructorInv, LoadedInv, Loaded, Readable, At, InitPC, Num
<1>9. InferenceInv' /\ CrashInv'
  <2>1. MelOf' = MelOf
    BY <1>0, <1>1, <1>4, <1>5 DEF MelOf
  <2>2. MelReady'
    BY <1>0, <1>4, <1>5, <2>1 DEF MelReady
  <2> QED
    BY <1>0, <1>1, <2>2, NoneAssumption
    DEF InferenceInv, CrashInv, At, InferPC, ExportPC, Speak
<1> QED
  BY <1>6, <1>7, <1>8, <1>9 DEF EngineInv, CoreInv

LEMMA VocoderAllocateLemma == EngineInv /\ VocoderAllocate => EngineInv'
<1> SUFFICES ASSUME EngineInv, VocoderAllocate, ~Exit PROVE EngineInv'
  BY ExitLemma
<1> DEFINE k == fields.vocoder
<1>1. CASE k = 0
  BY <1>1, CrashLemma DEF VocoderAllocate, At
<1>2. CASE k # 0
  <2>0. /\ At("vocoder_alloc") /\ k \in Num /\ speak \in Speak /\ MelReady
        /\ vocoders' = [vocoders EXCEPT ![k] = Allocated(@, fields.mel.shape)]
        /\ pc' = "vocoder_run"
        /\ UNCHANGED <<alive, given, speak, inits, backend, fields, buffers, melgens, ioVars>>
    BY <1>2, MaxInitAssumption
    DEF VocoderAllocate, EngineInv, CoreInv, EngineTypeOK, InferenceInv, InferPC, At, Num
  <2>1. fields.mel.shape = MelOf
    BY <2>0 DEF MelReady
  <2>2. vocoders' \in [Num -> VocoderObj]
    BY <2>0 DEF EngineInv, CoreInv, EngineTypeOK, Allocated, VocoderObj, MelData
  <2>3. /\ \A n \in Num : vocoders'[n].file = vocoders[n].file
        /\ vocoders'[k].dims = MelOf /\ vocoders'[k].ready
    BY <2>0, <2>1 DEF EngineInv, CoreInv, EngineTypeOK, Allocated
  <2>4. EngineTypeOK'
    BY <2>0, <2>2 DEF EngineInv, CoreInv, EngineTypeOK, ioVars, PC, InferPC
  <2>5. HeapInv' /\ BuffersOutliveModels'
    BY <2>0, <2>3, MaxInitAssumption
    DEF EngineInv, CoreInv, EngineTypeOK, HeapInv, BuffersOutliveModels, Num
  <2>6. ConstructorInv' /\ LoadedInv'
    BY <2>0, <2>3, MaxInitAssumption
    DEF EngineInv, CoreInv, EngineTypeOK, ConstructorInv, LoadedInv, Loaded, Readable, At, InitPC, Num
  <2>7. InferenceInv' /\ CrashInv'
    <3>1. MelReady' /\ MelOf' = MelOf
      BY <2>0 DEF MelReady, MelOf
    <3> QED
      BY <1>2, <2>0, <2>3, <3>1, NoneAssumption
      DEF InferenceInv, CrashInv, At, ExportPC, Speak
  <2> QED
    BY <2>4, <2>5, <2>6, <2>7 DEF EngineInv, CoreInv
<1> QED
  BY <1>1, <1>2

(***************************************************************************)
(* The vocoder reads the mel where the generator left it: no AllocateTensors*)
(* of that generator came between.                                         *)
(***************************************************************************)
LEMMA VocoderRunLemma == EngineInv /\ VocoderRun => EngineInv'
<1> SUFFICES ASSUME EngineInv, VocoderRun, ~Exit PROVE EngineInv'
  BY ExitLemma
<1> DEFINE k == fields.vocoder
           audio == [voc |-> vocoders[k].file, mel |-> MelOf]
<1>0. /\ At("vocoder_run") /\ k \in Num /\ k # 0 /\ speak \in Speak /\ MelReady
      /\ vocoders[k].file \in Vocoder /\ <<"vocoder", k>> \in buffers
      /\ vocoders[k].dims = MelOf
  <2>1. /\ At("vocoder_run") /\ k # 0 /\ speak \in Speak
        /\ MelReady /\ vocoders[k].dims = MelOf
    BY DEF VocoderRun, EngineInv, CoreInv, EngineTypeOK, InferenceInv, InferPC, At
  <2>2. k \in Num /\ vocoders[k].file # None
    BY <2>1, MaxInitAssumption DEF EngineInv, CoreInv, EngineTypeOK, HeapInv, Num
  <2>3. vocoders[k].file \in Vocoder
    BY <2>2 DEF EngineInv, CoreInv, EngineTypeOK, VocoderObj
  <2> QED
    BY <2>1, <2>2, <2>3 DEF EngineInv, CoreInv, BuffersOutliveModels
<1>1. /\ vocoders' = [vocoders EXCEPT ![k].out = audio]
      /\ fields' = [fields EXCEPT !.audio = audio]
      /\ pc' = "wav_open"
      /\ UNCHANGED <<alive, given, speak, inits, backend, buffers, melgens, ioVars>>
  BY <1>0 DEF VocoderRun, MelReady
<1>2. audio \in AudioOf
  <2>1. fields.melgen \in Num /\ melgens[fields.melgen].file \in Melgen
    BY <1>0, MaxInitAssumption
    DEF EngineInv, CoreInv, EngineTypeOK, HeapInv, MelReady, MelgenObj, Num
  <2>2. MelOf \in Mel
    BY <1>0, <2>1 DEF MelOf, Mel, Speak
  <2> QED
    BY <1>0, <2>2 DEF AudioOf
<1>3. vocoders' \in [Num -> VocoderObj]
  BY <1>0, <1>1, <1>2 DEF EngineInv, CoreInv, EngineTypeOK, VocoderObj
<1>4. \A n \in Num : vocoders'[n].file = vocoders[n].file
  BY <1>0, <1>1 DEF EngineInv, CoreInv, EngineTypeOK, VocoderObj
<1>5. /\ fields' \in [melgen : 0 .. MaxInit, vocoder : 0 .. MaxInit,
                       mel : MelData, audio : AudioOf \cup {None}]
      /\ fields'.melgen = fields.melgen /\ fields'.vocoder = k
      /\ fields'.audio = audio
  BY <1>0, <1>1, <1>2 DEF EngineInv, CoreInv, EngineTypeOK
<1>6. EngineTypeOK'
  BY <1>1, <1>3, <1>5 DEF EngineInv, CoreInv, EngineTypeOK, ioVars, PC, ExportPC
<1>7. HeapInv' /\ BuffersOutliveModels'
  BY <1>1, <1>4, <1>5, MaxInitAssumption
  DEF EngineInv, CoreInv, EngineTypeOK, HeapInv, BuffersOutliveModels, Num
<1>8. ConstructorInv' /\ LoadedInv'
  BY <1>0, <1>1, <1>4, <1>5, MaxInitAssumption
  DEF EngineInv, CoreInv, EngineTypeOK, ConstructorInv, LoadedInv, Loaded, Readable, At, InitPC, Num
<1>9. InferenceInv' /\ CrashInv'
  <2>1. AudioReady'
    BY <1>0, <1>1, <1>4, <1>5 DEF AudioReady, MelReady, MelOf
  <2> QED
    BY <1>0, <1>1, <2>1, NoneAssumption
    DEF InferenceInv, CrashInv, At, InferPC, ExportPC, Speak
<1> QED
  BY <1>6, <1>7, <1>8, <1>9 DEF EngineInv, CoreInv

LEMMA WavOpenLemma == EngineInv /\ WavOpen => EngineInv'
<1> SUFFICES ASSUME EngineInv, WavOpen, ~Exit PROVE EngineInv'
  BY ExitLemma
<1>0. /\ At("wav_open") /\ pc' \in {"wav_write", "synthesized"}
      /\ pc' = "synthesized" => saved' = "closed"
      /\ \/ files' = [files EXCEPT ![speak.out] = Partial] /\ saved' = saved
         \/ files' = files /\ saved' = "closed"
      /\ UNCHANGED <<alive, given, speak, inits, heapVars>>
  BY DEF WavOpen
<1>1. EngineTypeOK'
  BY <1>0 DEF EngineInv, CoreInv, EngineTypeOK, heapVars, PC, ExportPC
<1>2. HeapInv' /\ BuffersOutliveModels' /\ ConstructorInv' /\ LoadedInv'
  BY <1>0 DEF EngineInv, CoreInv, heapVars, HeapInv, BuffersOutliveModels, ConstructorInv,
              LoadedInv, Loaded, Readable, At, InitPC
<1>3. InferenceInv' /\ CrashInv'
  BY <1>0 DEF EngineInv, CoreInv, heapVars, InferenceInv, CrashInv, AudioReady, MelOf, At,
              InferPC, ExportPC
<1> QED
  BY <1>1, <1>2, <1>3 DEF EngineInv, CoreInv

LEMMA WavWriteLemma == EngineInv /\ WavWrite => EngineInv'
<1> SUFFICES ASSUME EngineInv, WavWrite PROVE EngineInv'
  OBVIOUS
<1>0. /\ At("wav_write") /\ pc' = "synthesized" /\ speak \in Speak
      /\ UNCHANGED <<alive, given, speak, inits, heapVars>>
  BY DEF WavWrite, EngineInv, CoreInv, EngineTypeOK, InferenceInv, ExportPC, At
<1>1. EngineTypeOK'
  BY <1>0 DEF WavWrite, EngineInv, CoreInv, EngineTypeOK, heapVars, PC
<1>2. HeapInv' /\ BuffersOutliveModels' /\ ConstructorInv' /\ LoadedInv'
  BY <1>0 DEF EngineInv, CoreInv, heapVars, HeapInv, BuffersOutliveModels, ConstructorInv,
              LoadedInv, Loaded, Readable, At, InitPC
<1>3. saved' = "full" => files'[speak.out] = fields.audio
  BY <1>0 DEF WavWrite, EngineInv, CoreInv, EngineTypeOK, Speak
<1>4. InferenceInv' /\ CrashInv'
  BY <1>0, <1>3 DEF EngineInv, CoreInv, heapVars, InferenceInv, CrashInv, AudioReady, MelOf, At,
                    InferPC, ExportPC
<1> QED
  BY <1>1, <1>2, <1>4 DEF EngineInv, CoreInv

LEMMA ReturnLemma == EngineInv /\ Return => EngineInv'
<1> SUFFICES ASSUME EngineInv, Return PROVE EngineInv'
  OBVIOUS
<1>1. EngineTypeOK'
  BY DEF Return, EngineInv, CoreInv, EngineTypeOK, heapVars, ioVars, PC
<1>2. HeapInv' /\ BuffersOutliveModels' /\ ConstructorInv' /\ LoadedInv'
  BY DEF Return, EngineInv, CoreInv, heapVars, HeapInv, BuffersOutliveModels, ConstructorInv,
         LoadedInv, Loaded, Readable, At, InitPC
<1>3. InferenceInv' /\ CrashInv'
  BY DEF Return, InferenceInv, CrashInv, At, InferPC, ExportPC
<1> QED
  BY <1>1, <1>2, <1>3 DEF EngineInv, CoreInv

LEMMA StutterLemma == EngineInv /\ UNCHANGED engineVars => EngineInv'
  BY DEF engineVars, heapVars, ioVars, EngineInv, CoreInv, EngineTypeOK, HeapInv,
         BuffersOutliveModels, ConstructorInv, LoadedInv, Loaded, InferenceInv, CrashInv,
         MelReady, AudioReady, MelOf, Readable

LEMMA EngineStepLemma == EngineInv /\ EngineStep => EngineInv'
  BY ReadStreamsLemma, BuildModelsLemma, AssignBackendLemma, MelgenAllocateLemma,
     MelgenRunLemma, VocoderAllocateLemma, VocoderRunLemma, WavOpenLemma, WavWriteLemma
  DEF EngineStep

(***************************************************************************)
(* EngineInv is inductive, so it holds in every state the core reaches.    *)
(***************************************************************************)
THEOREM EngineInvariance == EngineSpec => []EngineInv
<1>1. EngineInit => EngineInv
  BY InitLemma
<1>2. EngineInv /\ [EngineNext]_engineVars => EngineInv'
  <2> SUFFICES ASSUME EngineInv, [EngineNext]_engineVars PROVE EngineInv'
    OBVIOUS
  <2>1. CASE \E mel \in MelgenStream, voc \in VocoderStream : Initialize(mel, voc)
    BY <2>1, InitializeLemma
  <2>2. CASE \E ids \in Ids, out \in Outfile : Synthesize(ids, out)
    BY <2>2, SynthesizeLemma
  <2>3. CASE EngineStep
    BY <2>3, EngineStepLemma
  <2>4. CASE Return
    BY <2>4, ReturnLemma
  <2>5. CASE UNCHANGED engineVars
    BY <2>5, StutterLemma
  <2> QED
    BY <2>1, <2>2, <2>3, <2>4, <2>5 DEF EngineNext
<1> QED
  BY <1>1, <1>2, PTL DEF EngineSpec

(***************************************************************************)
(* The native core is type correct.                                        *)
(***************************************************************************)
THEOREM EngineTypeCorrect == EngineSpec => []EngineTypeOK
<1>1. EngineInv => EngineTypeOK
  BY DEF EngineInv, CoreInv
<1> QED
  BY <1>1, EngineInvariance, PTL

(***************************************************************************)
(* However often initialize() replaces the backend, after a call that read *)
(* both models the backend holds those models.                             *)
(***************************************************************************)
THEOREM LastModelsWin == EngineSpec => []ModelsOfLastInitialize
<1>1. EngineInv => ModelsOfLastInitialize
  BY DEF EngineInv, CoreInv, LoadedInv, Loaded, ModelsOfLastInitialize, InitPC
<1> QED
  BY <1>1, EngineInvariance, PTL

(***************************************************************************)
(* No sequence of calls frees a model's buffer before the model.           *)
(***************************************************************************)
THEOREM BuffersStay == EngineSpec => []BuffersOutliveModels
<1>1. EngineInv => BuffersOutliveModels
  BY DEF EngineInv, CoreInv
<1> QED
  BY <1>1, EngineInvariance, PTL

(***************************************************************************)
(* A memory fault of the core follows a pointer that was never set; it     *)
(* never comes from a stale tensor, a missing buffer or a size mismatch.   *)
(***************************************************************************)
THEOREM OnlyUnsetPointersCrash == EngineSpec => []CrashOnlyOnUnsetPointer
<1>1. EngineInv => CrashOnlyOnUnsetPointer
  BY DEF EngineInv, CoreInv, CrashInv, CrashOnlyOnUnsetPointer
<1> QED
  BY <1>1, EngineInvariance, PTL

(***************************************************************************)
(* After an initialize() that read both models there is no memory fault.   *)
(***************************************************************************)
THEOREM LoadedNeverCrashes == EngineSpec => []CrashOnlyUnlessReadable
<1>1. EngineInv => CrashOnlyUnlessReadable
  BY DEF EngineInv, CoreInv, CrashInv, LoadedInv, Loaded, CrashOnlyUnlessReadable, InitPC
<1> QED
  BY <1>1, EngineInvariance, PTL

(***************************************************************************)
(* A synthesize() that wrote its file wrote the speech it was asked for,   *)
(* by the models of the last initialize().                                 *)
(***************************************************************************)
THEOREM FilesHoldSpeech == EngineSpec => []FileHoldsSpeech
<1>1. EngineInv => FileHoldsSpeech
  BY DEF EngineInv, CoreInv, LoadedInv, Loaded, InferenceInv, AudioReady, MelOf, FileHoldsSpeech,
         Speech, InitPC
<1> QED
  BY <1>1, EngineInvariance, PTL
=============================================================================
