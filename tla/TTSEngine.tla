------------------------------ MODULE TTSEngine ------------------------------
(***************************************************************************)
(* The native core of the plugin, run by one thread: TextToSpeech.cpp over *)
(* TTSBackend, MelGenerateTF, VocoderTF and VoxUtil::ExportWAV.            *)
(*                                                                         *)
(* The heap is modelled as far as lifetimes matter.  The k-th call of      *)
(* initialize() allocates at most one TTSBackend, two byte buffers, one    *)
(* MelGenerateTF and one VocoderTF, so k names them all and 0 is a pointer *)
(* that leads to none of them.  Tensors hold abstract data: a mel is known *)
(* by the model and the ids it was computed from, an audio by its vocoder  *)
(* and its mel.                                                            *)
(*                                                                         *)
(* Assumption: models have the shape the code is written for.  A generator *)
(* has five inputs, and the index of a vocoder's input tensor is also its  *)
(* position among the inputs, which is what typed_input_tensor takes.      *)
(***************************************************************************)
EXTENDS Naturals

CONSTANTS
  Melgen,    \* contents of mel generator model files
  Vocoder,   \* contents of vocoder model files
  Ids,       \* symbol id sequences to speak
  Outfile,   \* paths of wav files
  MaxInit,   \* bound: calls of initialize()
  None,      \* no value: an unset variable, an unwritten tensor or file
  Partial    \* content of a wav file that was truncated and not filled

Mel      == [gen : Melgen, ids : Ids]
AudioOf  == [voc : Vocoder, mel : Mel]
Num      == 1 .. MaxInit

(***************************************************************************)
(* An argument of initialize(): the model in the stream, and whether       *)
(* read() delivers as many bytes of it as the length argument asks for.    *)
(***************************************************************************)
MelgenStream  == [file : Melgen, good : BOOLEAN]
VocoderStream == [file : Vocoder, good : BOOLEAN]
Given         == [melgen : MelgenStream, vocoder : VocoderStream]

\* The arguments of synthesize().
Speak == [ids : Ids, out : Outfile]

ASSUME MaxInitAssumption == MaxInit \in Nat
ASSUME NoneAssumption ==
  /\ None \notin Melgen \cup Vocoder \cup Ids \cup Outfile
  /\ None \notin Mel \cup AudioOf \cup Given \cup Speak
  /\ Partial \notin AudioOf \cup {None}

VARIABLES
  alive,     \* the process: "up", "exit" (it terminated itself), "crash" (memory fault)
  pc,        \* the statement the thread is at
  given,     \* the arguments of the last initialize()
  speak,     \* the arguments of the last synthesize()
  inits,     \* calls of initialize()
  backend,   \* static TTSBackend *backend: "null", "live" or "dangling"
  fields,    \* members of the newest TTSBackend block
  buffers,   \* model buffers that are allocated, as <<kind, number>>
  melgens,   \* MelGenerateTF objects by number
  vocoders,  \* VocoderTF objects by number
  files,     \* content of the wav files
  saved      \* outcome of the last ExportWAV: "none", "closed", "short" or "full"

engineVars == <<alive, pc, given, speak, inits, backend, fields, buffers,
                melgens, vocoders, files, saved>>
heapVars   == <<backend, fields, buffers, melgens, vocoders>>
ioVars     == <<files, saved>>

(***************************************************************************)
(* A model object: the file it was built from, whether its interpreter may *)
(* be invoked, what its input tensors are sized for, what its output       *)
(* tensor holds.                                                           *)
(***************************************************************************)
MelgenObj  == [file : Melgen \cup {None}, ready : BOOLEAN,
               dims : Ids \cup {None}, out : Mel \cup {None}]
VocoderObj == [file : Vocoder \cup {None}, ready : BOOLEAN,
               dims : Mel \cup {None}, out : AudioOf \cup {None}]

NoModel == [file |-> None, ready |-> FALSE, dims |-> None, out |-> None]

(***************************************************************************)
(* MelGenData: melData points into the output tensor of a MelGenerateTF    *)
(* (obj); fresh tells that the tensor was not reallocated since.           *)
(***************************************************************************)
MelData == [obj : 0 .. MaxInit, shape : Mel \cup {None}, fresh : BOOLEAN]
NoMel   == [obj |-> 0, shape |-> None, fresh |-> FALSE]

InitPC   == {"read", "build", "assign"}
InferPC  == {"melgen_alloc", "melgen_run", "vocoder_alloc", "vocoder_run"}
ExportPC == {"wav_open", "wav_write"}
PC       == {"idle", "initialized", "synthesized"} \cup InitPC \cup InferPC \cup ExportPC

EngineTypeOK ==
  /\ alive \in {"up", "exit", "crash"}
  /\ pc \in PC
  /\ given \in Given \cup {None}
  /\ speak \in Speak \cup {None}
  /\ inits \in 0 .. MaxInit
  /\ backend \in {"null", "live", "dangling"}
  /\ fields \in [melgen : 0 .. MaxInit, vocoder : 0 .. MaxInit,
                 mel : MelData, audio : AudioOf \cup {None}]
  /\ buffers \in SUBSET ({"melgen", "vocoder"} \X Num)
  /\ melgens \in [Num -> MelgenObj]
  /\ vocoders \in [Num -> VocoderObj]
  /\ files \in [Outfile -> AudioOf \cup {None, Partial}]
  /\ saved \in {"none", "closed", "short", "full"}

EngineInit ==
  /\ alive = "up"
  /\ pc = "idle"
  /\ given = None
  /\ speak = None
  /\ inits = 0
  /\ backend = "null"
  /\ fields = [melgen |-> 0, vocoder |-> 0, mel |-> NoMel, audio |-> None]
  /\ buffers = {}
  /\ melgens = [k \in Num |-> NoModel]
  /\ vocoders = [k \in Num |-> NoModel]
  /\ files = [f \in Outfile |-> None]
  /\ saved = "none"

At(label) == alive = "up" /\ pc = label

\* The process ends itself: exit() in TFLITE_MINIMAL_CHECK, or an uncaught exception.
Exit  == alive' = "exit"  /\ UNCHANGED <<pc, given, speak, inits, heapVars, ioVars>>
\* The process is killed by the access the thread was about to make.
Crash == alive' = "crash" /\ UNCHANGED <<pc, given, speak, inits, heapVars, ioVars>>

-----------------------------------------------------------------------------
(***************************************************************************)
(* initialize(melgen, vocoder, melgen_length, vocoder_length)              *)
(***************************************************************************)

\* What a pointer to a model may be in memory that is used again: that of one built before.
LeftIn(models) == {0} \cup {k \in Num : models[k].file # None}

Initialize_FreesBuffers(mel, voc) ==
  /\ At("idle")
  /\ inits < MaxInit
  /\ inits' = inits + 1
  /\ given' = [melgen |-> mel, vocoder |-> voc]
  /\ backend' = IF backend = "null" THEN "null" ELSE "dangling"
  /\ \E g \in LeftIn(melgens), v \in LeftIn(vocoders) :
       fields' = [melgen |-> g, vocoder |-> v, mel |-> NoMel, audio |-> None]
  /\ buffers' = {}
  /\ pc' = "read"
  /\ UNCHANGED <<alive, speak, melgens, vocoders, ioVars>>

(***************************************************************************)
(* Delete the old backend and allocate the new one.  TTSBackend has no     *)
(* destructor, so its models and buffers stay allocated.  The members of   *)
(* the new block are indeterminate until they are assigned: wild, or, when *)
(* the allocator hands out a block that was freed, what was left in it.    *)
(***************************************************************************)
Initialize(mel, voc) ==
  /\ At("idle")
  /\ inits < MaxInit
  /\ inits' = inits + 1
  /\ given' = [melgen |-> mel, vocoder |-> voc]
  /\ backend' = IF backend = "null" THEN "null" ELSE "dangling"
  /\ \E g \in LeftIn(melgens), v \in LeftIn(vocoders) :
       fields' = [melgen |-> g, vocoder |-> v, mel |-> NoMel, audio |-> None]
  /\ pc' = "read"
  /\ UNCHANGED <<alive, speak, buffers, melgens, vocoders, ioVars>>

(***************************************************************************)
(* The TTSBackend constructor reads both streams into buffers of their     *)
(* own.  It returns early, its members still unset, when a read fails.     *)
(***************************************************************************)
ReadStreams ==
  /\ At("read")
  /\ \/ /\ buffers' = buffers \cup {<<"melgen", inits>>}
                              \cup (IF given.melgen.good THEN {<<"vocoder", inits>>} ELSE {})
        /\ pc' = IF given.melgen.good /\ given.vocoder.good THEN "build" ELSE "assign"
        /\ UNCHANGED <<alive, given, speak, inits, backend, fields, melgens, vocoders, ioVars>>
     \/ Exit    \* bad_alloc

BuildModels_KeepsOldVocoder ==
  LET v == IF fields.vocoder = 0 THEN inits ELSE fields.vocoder IN
  /\ At("build")
  /\ melgens'  = [melgens  EXCEPT ![inits] = [NoModel EXCEPT !.file = given.melgen.file]]
  /\ vocoders' = [vocoders EXCEPT ![v] = IF v = inits
                    THEN [NoModel EXCEPT !.file = given.vocoder.file] ELSE @]
  /\ fields'   = [fields EXCEPT !.melgen = inits, !.vocoder = v]
  /\ pc' = "assign"
  /\ UNCHANGED <<alive, given, speak, inits, backend, buffers, ioVars>>

BuildModels_LocalBuffers ==
  /\ At("build")
  /\ melgens'  = [melgens  EXCEPT ![inits] = [NoModel EXCEPT !.file = given.melgen.file]]
  /\ vocoders' = [vocoders EXCEPT ![inits] = [NoModel EXCEPT !.file = given.vocoder.file]]
  /\ fields'   = [fields EXCEPT !.melgen = inits, !.vocoder = inits]
  /\ buffers'  = buffers \ {<<"melgen", inits>>, <<"vocoder", inits>>}
  /\ pc' = "assign"
  /\ UNCHANGED <<alive, given, speak, inits, backend, ioVars>>

\* Build both models from their buffers; TfliteBase ends the process on a bad one.
BuildModels ==
  /\ At("build")
  /\ \/ /\ melgens'  = [melgens  EXCEPT ![inits] = [NoModel EXCEPT !.file = given.melgen.file]]
        /\ vocoders' = [vocoders EXCEPT ![inits] = [NoModel EXCEPT !.file = given.vocoder.file]]
        /\ fields'   = [fields EXCEPT !.melgen = inits, !.vocoder = inits]
        /\ pc' = "assign"
        /\ UNCHANGED <<alive, given, speak, inits, backend, buffers, ioVars>>
     \/ Exit

\* backend = new TTSBackend(...); return 0.  (operator new never returns null.)
AssignBackend ==
  /\ At("assign")
  /\ backend' = "live"
  /\ pc' = "initialized"
  /\ UNCHANGED <<alive, given, speak, inits, fields, buffers, melgens, vocoders, ioVars>>

-----------------------------------------------------------------------------
(***************************************************************************)
(* synthesize(numPhoneIds, phoneIds, outfile)                              *)
(***************************************************************************)

\* Copy the ids (or bad_alloc); backend->inference() faults on a null backend.
Synthesize(ids, out) ==
  /\ At("idle")
  /\ \/ /\ backend # "null"
        /\ speak' = [ids |-> ids, out |-> out]
        /\ saved' = "none"
        /\ pc' = "melgen_alloc"
        /\ UNCHANGED <<alive, given, inits, heapVars, files>>
     \/ Exit
     \/ /\ backend = "null"
        /\ Crash

\* AllocateTensors(): a model's tensors get their new sizes, and no data.
Allocated(model, dims) == [file |-> model.file, ready |-> TRUE, dims |-> dims, out |-> None]

\* AllocateTensors() on melgen k moves its tensors: pointers into them go stale.
MelStale(k) == IF fields.mel.obj = k THEN [fields EXCEPT !.mel.fresh = FALSE] ELSE fields

(***************************************************************************)
(* MelGenerateTF::infer: resize the inputs to the ids and AllocateTensors, *)
(* which is checked ...                                                    *)
(***************************************************************************)
MelgenAllocate ==
  LET k == fields.melgen IN
  /\ At("melgen_alloc")
  /\ \/ /\ k # 0
        /\ melgens' = [melgens EXCEPT ![k] = Allocated(@, speak.ids)]
        /\ fields' = MelStale(k)
        /\ pc' = "melgen_run"
        /\ UNCHANGED <<alive, given, speak, inits, backend, buffers, vocoders, ioVars>>
     \/ k # 0 /\ Exit
     \/ k = 0 /\ Crash

MelgenRun_NotInvoked ==
  LET k == fields.melgen IN
  /\ At("melgen_run")
  /\ fields' = [fields EXCEPT !.mel =
                  [obj |-> k, shape |-> [gen |-> melgens[k].file, ids |-> speak.ids],
                   fresh |-> TRUE]]
  /\ pc' = "vocoder_alloc"
  /\ UNCHANGED <<alive, given, speak, inits, backend, buffers, melgens, vocoders, ioVars>>

(***************************************************************************)
(* ... then fill the inputs, Invoke (checked) and describe the output:     *)
(* _mel takes its shape and a pointer to its data.  The graph is           *)
(* interpreted from the model buffer, which has to be there.               *)
(***************************************************************************)
MelgenRun ==
  LET k   == fields.melgen
      mel == [gen |-> melgens[k].file, ids |-> speak.ids]
      usable == /\ <<"melgen", k>> \in buffers
                /\ melgens[k].dims = speak.ids
  IN
  /\ At("melgen_run")
  /\ \/ /\ usable /\ melgens[k].ready
        /\ melgens' = [melgens EXCEPT ![k].out = mel]
        /\ fields' = [fields EXCEPT !.mel = [obj |-> k, shape |-> mel, fresh |-> TRUE]]
        /\ pc' = "vocoder_alloc"
        /\ UNCHANGED <<alive, given, speak, inits, backend, buffers, vocoders, ioVars>>
     \/ usable /\ Exit
     \/ ~usable /\ Crash

VocoderAllocate_Once ==
  LET k == fields.vocoder IN
  /\ At("vocoder_alloc")
  /\ k # 0
  /\ vocoders' = [vocoders EXCEPT ![k] =
       IF @.ready THEN @ ELSE Allocated(@, fields.mel.shape)]
  /\ pc' = "vocoder_run"
  /\ UNCHANGED <<alive, given, speak, inits, backend, fields, buffers, melgens, ioVars>>

\* VocoderTF::infer: resize the input to the mel's shape and AllocateTensors ...
VocoderAllocate ==
  LET k == fields.vocoder IN
  /\ At("vocoder_alloc")
  /\ \/ /\ k # 0
        /\ vocoders' = [vocoders EXCEPT ![k] = Allocated(@, fields.mel.shape)]
        /\ pc' = "vocoder_run"
        /\ UNCHANGED <<alive, given, speak, inits, backend, fields, buffers, melgens, ioVars>>
     \/ k # 0 /\ Exit
     \/ k = 0 /\ Crash

VocoderRun_KeepsAudio ==
  LET k     == fields.vocoder
      audio == [voc |-> vocoders[k].file, mel |-> melgens[fields.mel.obj].out]
  IN
  /\ At("vocoder_run")
  /\ vocoders' = [vocoders EXCEPT ![k].out = audio]
  /\ fields' = [fields EXCEPT !.audio = IF @ = None THEN audio ELSE @]
  /\ pc' = "wav_open"
  /\ UNCHANGED <<alive, given, speak, inits, backend, buffers, melgens, ioVars>>

(***************************************************************************)
(* ... then copy the mel out of the generator's tensor, Invoke and copy    *)
(* the audio out.                                                          *)
(***************************************************************************)
VocoderRun ==
  LET k     == fields.vocoder
      audio == [voc |-> vocoders[k].file, mel |-> melgens[fields.mel.obj].out]
      usable == /\ <<"vocoder", k>> \in buffers
                /\ vocoders[k].dims = fields.mel.shape
                /\ fields.mel.fresh
  IN
  /\ At("vocoder_run")
  /\ \/ /\ usable /\ vocoders[k].ready
        /\ vocoders' = [vocoders EXCEPT ![k].out = audio]
        /\ fields' = [fields EXCEPT !.audio = audio]
        /\ pc' = "wav_open"
        /\ UNCHANGED <<alive, given, speak, inits, backend, buffers, melgens, ioVars>>
     \/ usable /\ Exit
     \/ ~usable /\ Crash

(***************************************************************************)
(* Copy the mel and the audio (or bad_alloc).  ExportWAV: save() encodes   *)
(* the audio (or bad_alloc) and checks its sizes, and opening the file     *)
(* truncates it.  When the check or the opening fails, the file is left    *)
(* alone and save() returns false, which nobody looks at.                  *)
(***************************************************************************)
WavOpen ==
  /\ At("wav_open")
  /\ \/ /\ files' = [files EXCEPT ![speak.out] = Partial]
        /\ pc' = "wav_write"
        /\ UNCHANGED <<alive, given, speak, inits, heapVars, saved>>
     \/ /\ saved' = "closed"
        /\ pc' = "synthesized"
        /\ UNCHANGED <<alive, given, speak, inits, heapVars, files>>
     \/ Exit

\* Write the bytes and close; a failed write only sets the stream's badbit.
WavWrite ==
  /\ At("wav_write")
  /\ \/ /\ files' = [files EXCEPT ![speak.out] = fields.audio]
        /\ saved' = "full"
     \/ /\ UNCHANGED files
        /\ saved' = "short"
  /\ pc' = "synthesized"
  /\ UNCHANGED <<alive, given, speak, inits, heapVars>>

\* The call returns to its caller; both functions return 0 whatever happened.
Return ==
  /\ At("initialized") \/ At("synthesized")
  /\ pc' = "idle"
  /\ UNCHANGED <<alive, given, speak, inits, heapVars, ioVars>>

EngineStep == \/ ReadStreams \/ BuildModels \/ AssignBackend
              \/ MelgenAllocate \/ MelgenRun \/ VocoderAllocate \/ VocoderRun
              \/ WavOpen \/ WavWrite

EngineNext ==
  \/ \E mel \in MelgenStream, voc \in VocoderStream : Initialize(mel, voc)
  \/ \E ids \in Ids, out \in Outfile : Synthesize(ids, out)
  \/ EngineStep
  \/ Return

EngineSpec == EngineInit /\ [][EngineNext]_engineVars

-----------------------------------------------------------------------------
(***************************************************************************)
(* Properties                                                              *)
(***************************************************************************)

\* The last initialize() found both models in its streams.
Readable == given # None /\ given.melgen.good /\ given.vocoder.good

\* What synthesize() has to say, spoken by the models of the last initialize().
Speech == [voc |-> given.vocoder.file, mel |-> [gen |-> given.melgen.file, ids |-> speak.ids]]

(***************************************************************************)
(* After an initialize() that could read both models, however often the    *)
(* backend was replaced before (deleting a block whose members may live on *)
(* in the new one), the backend holds exactly the models of that call.     *)
(***************************************************************************)
ModelsOfLastInitialize ==
  Readable /\ pc \notin InitPC =>
    /\ backend = "live"
    /\ fields.melgen  # 0 /\ melgens[fields.melgen].file   = given.melgen.file
    /\ fields.vocoder # 0 /\ vocoders[fields.vocoder].file = given.vocoder.file

(***************************************************************************)
(* A model is interpreted in place, from the buffer it was built from:     *)
(* "Caller retains ownership of the buffer and should keep it alive until  *)
(* the returned object is destroyed" (model_builder.h:83).  No sequence of *)
(* calls frees a buffer before its model.                                  *)
(***************************************************************************)
BuffersOutliveModels ==
  \A k \in Num :
    /\ melgens[k].file  # None => <<"melgen", k>>  \in buffers
    /\ vocoders[k].file # None => <<"vocoder", k>> \in buffers

(***************************************************************************)
(* The native code makes one kind of memory fault only: following a        *)
(* backend that was never created or a model pointer that was never set.   *)
(* In particular no inference writes to or reads from a tensor that is     *)
(* stale, unallocated or of another size, and none uses a freed buffer.    *)
(***************************************************************************)
CrashOnlyOnUnsetPointer ==
  alive = "crash" => \/ backend = "null"
                     \/ pc = "melgen_alloc"  /\ fields.melgen = 0
                     \/ pc = "vocoder_alloc" /\ fields.vocoder = 0

(***************************************************************************)
(* So a caller that synthesizes after an initialize() which read both      *)
(* models never takes the process down by a memory fault.                  *)
(***************************************************************************)
CrashOnlyUnlessReadable == alive = "crash" => ~Readable

(***************************************************************************)
(* After a synthesize() whose file could be opened and written, the file   *)
(* it was given holds the speech it was asked for, made by the models of   *)
(* the last initialize() - never an earlier call's mel or audio, which     *)
(* TTSBackend keeps in _mel and _audio, and never an earlier model's.      *)
(***************************************************************************)
FileHoldsSpeech ==
  Readable /\ pc = "synthesized" /\ saved = "full" => files[speak.out] = Speech

(***************************************************************************)
(* "Successfully initialized TTS libs." (TfliteTtsPlugin.mm:50) is what    *)
(* the code reports of an initialize() that returned 0: its models are     *)
(* then loaded.  It does not hold.                                         *)
(***************************************************************************)
SuccessMeansLoaded ==
  pc = "initialized" =>
    /\ fields.melgen  # 0 /\ melgens[fields.melgen].file   = given.melgen.file
    /\ fields.vocoder # 0 /\ vocoders[fields.vocoder].file = given.vocoder.file

(***************************************************************************)
(* save() "Returns true if the file was successfully saved"                *)
(* (AudioFile.h:83).  It returns true whenever the file could be opened,   *)
(* so this does not hold.                                                  *)
(***************************************************************************)
SaveReturned == saved \in {"short", "full"}   \* what save() returned
SaveReportsTruth ==
  pc = "synthesized" /\ SaveReturned => files[speak.out] = fields.audio
=============================================================================
