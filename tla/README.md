# A TLA+ model of flutter_tflite_tts_plugin

This directory specifies, model-checks and partly proves correct the plugin's
own program: the Dart API, the iOS and Android plugin classes, the native synthesis
core, the audio file class, the Baker text preprocessor and the example
application. The rest of the repository is third-party headers (TensorFlow
Lite, FlatBuffers), platform runners, assets and build files.

    tlc -config engine.cfg MCTTSEngine      model-check one run
    tlapm TTSEngineProofs.tla               check the proofs

## The system

| component | state | operations | talks to |
|---|---|---|---|
| Dart API, `lib/tts_plugin.dart` | the configuration; one Future per outstanding call | `initialize`, `synthesize`, `dispose` | method channel `app.mimetic.tts`; the wav file it returns |
| Baker preprocessor, `lib/preprocesors/baker.dart` | two cursors and a result list, per call | `getPhoneme`, `textToSequence` | called by `synthesize` |
| iOS plugin class, `ios/Classes/TfliteTtsPlugin.mm` | the two model streams (static, leaked) | the handler of the three calls | channel; native core |
| Native core, `ios/src/TextToSpeech.cpp`, `tensorflowtts/TTSBackend.*` | `static TTSBackend *backend`, its two models, `_mel`, `_audio`, the model buffers | `initialize`, `synthesize` | inference, wav export |
| Inference, `MelGenerateTF`, `VocoderTF`, `TfliteBase` | an interpreter each, built over a buffer; tensors | `infer` | a raw pointer from one model's tensor to the other |
| Audio files, `VoxCommon.cpp`, `AudioFile.h` | an audio buffer, depth, rate, iXML chunk; the output file | `ExportWAV`; the setters, `save`, `load` | file system |
| Android class, `TfliteTtsPlugin.kt` | its handler on channel `app.mimetic.flutter_tflite_tts_plugin` | attach, detach, `onMethodCall` | channel; the JNI layer |
| JNI layer, `ios/src/android/TextToSpeechAndroid.cpp` | the two model streams (leaked) | `initialize`, `synthesize` | asset manager; native core |
| Example app, `example/lib/main.dart` | `_ttsPlugin`, `_initialized`, a player | two buttons | Dart API; the wav file |

Two threads matter: the Dart isolate, which makes calls without having to wait
for earlier ones, and the platform thread, which handles one call at a time
from beginning to end. They share the channel (calls one way and replies the
other, both in order) and the wav files. The channel knows nothing of
`TTSPlugin` objects: all of them share one handler and one static backend.

What is hard to get right, and what each component must guarantee:

- **Native core and inference.** `initialize` replaces the backend any number of
  times, with a `delete` that frees the block but not the models, and with a
  constructor that may return early and leave members unset. A model is
  interpreted in place from its buffer. The mel travels by a raw pointer into a
  tensor that the next allocation moves. To be guaranteed: no use of a freed
  buffer, a stale tensor or one of the wrong size; the models of the last
  `initialize` speak; earlier results never leak into later files.
- **Dart API and channel.** Overlapping calls, several objects over one backend, a
  default output file shared by all calls, calls that are never answered or end
  the process. To be guaranteed: Futures complete, in order, and the File a
  completed `synthesize` returns holds the speech of that call.
- **iOS class.** Missing assets, a null path, descriptors lost at every
  `initialize`.
- **Baker.** Two cursors that advance by different amounts; marks taken out, kept
  and added; throws in the middle. To be guaranteed: every syllable spoken once
  and in order, one pause between two syllables, no throw on well-formed text.
- **Android.** Two channel names and two package names that do not agree; an
  `initialize` that may fail halfway, before the core is touched. To be
  guaranteed: every call ends; a failed `initialize` changes nothing.
- **Example app.** Buttons pressed before `_ttsPlugin` is set, before replies and
  between frames; a player that reads the file while it is rewritten; the
  process killed in the middle. To be guaranteed: `synthesize` only after an
  `initialize`, and the sentence heard whole.
- **Audio files.** Failures nobody looks at; 32-bit sizes; a buffer whose channels
  are changed one setter at a time; conversions of full-scale samples. To be
  guaranteed: what is saved can be read back, and is what was given.

`PROJECT.json` lists the hazards one by one with the line each bites at.

## Modules

| module | models | extends |
|---|---|---|
| `TTSEngine` | native core, inference, opening and writing of the wav file | - |
| `TTSEngineProofs` | theorems about `TTSEngine` | `TTSEngine`, `TLAPS` |
| `TTSPlugin` | Dart API, channel, iOS handler, around the core | `TTSEngine` |
| `TTSPluginProofs` | theorems about `TTSPlugin` | `TTSPlugin`, `TTSEngineProofs` |
| `SpeechService` | abstract: what the plugin promises to its callers | - |
| `TTSPluginService` | the refinement mapping from `TTSPlugin` to `SpeechService` | `TTSPlugin` |
| `TTSServiceProofs` | the theorem that `TTSPlugin` implements `SpeechService` | `TTSPluginService`, `TTSPluginProofs` |
| `ExampleApp` | the example application on the plugin, killed and started again | `TTSPlugin` |
| `ExampleAppProofs` | theorems about `ExampleApp` | `ExampleApp`, `TTSPluginProofs` |
| `AndroidJni` | the native functions of the Android library around the core | `TTSEngine` |
| `AndroidJniProofs` | theorems about `AndroidJni` | `AndroidJni`, `TTSEngineProofs` |
| `AndroidPlugin` | the Android plugin class on its channel | - |
| `AndroidPluginProofs` | theorems about `AndroidPlugin` | `AndroidPlugin`, `TLAPS` |
| `WavFile` | the audio buffer, `saveToWaveFile`, `decodeWaveFile`, `ExportWAV` | - |
| `AiffFile` | `saveToAiffFile`, `decodeAiffFile`, objects between both formats | `WavFile` |
| `AudioProofs` | theorems about `WavFile` and `AiffFile` | `AiffFile`, `TLAPS` |
| `Baker` | `textToSequence` | - |
| `BakerProofs` | theorems about `Baker` | `Baker`, `TLAPS` |
| `MCTTSEngine`, `MCTTSPlugin`, `MCExampleApp`, `MCAndroidJni`, `MCAndroidPlugin`, `MCAiffFile`, `MCBaker` | constants and symmetry for TLC | the above |

### TTSEngine

One thread with a program counter: `pc` is the next statement that can fail or
that another part relies on. `Initialize`, `ReadStreams`, `BuildModels`,
`AssignBackend` are `initialize()` with the `TTSBackend` constructor; `Synthesize`,
`MelgenAllocate`, `MelgenRun`, `VocoderAllocate`, `VocoderRun`, `WavOpen`,
`WavWrite` are `synthesize()`; `Return` ends both.

The heap is modelled as far as lifetimes matter. The k-th `initialize` allocates
at most one block of each kind, so k names them. `fields` are the members of
the newest `TTSBackend` block; after the allocation they are *indeterminate*: 0
(leading nowhere) or, when the allocator returns a block that was freed, a pointer
to any model built before (`LeftIn`). `buffers` are the model buffers that are allocated. An object's `dims` is
what its inputs are sized for, `ready` whether it was allocated, `out` what its
output tensor holds. `fields.mel` is `MelGenData`; its pointer is the object it
points into and whether that object was reallocated since. A step whose access
is not allowed is a `Crash`; a failed `TFLITE_MINIMAL_CHECK` or an uncaught
`bad_alloc` is an `Exit`: of reading and building the models, copying the ids,
inference, copying the audio and building the bytes of its file. Data is abstract:
a mel *is* the model and ids it was computed from, an audio its vocoder and mel.

One assumption is about data that is not in the program: models have the shape
the code is written for. `MelGenerateTF::infer` takes it that a generator has
five inputs (it resizes each of them to one of five shapes and fills
`inputIndexs[0]` to `[4]`), and `VocoderTF::infer` hands the index of the input
*tensor* to `typed_input_tensor`, which takes a *position* among the inputs: the
two agree when that tensor is number 0. A model file of another shape would be
accepted by `initialize` and make the inference write elsewhere; `MelgenRun` and
`VocoderRun` do not have this.

### TTSPlugin

`calls` is everything ever put on the channel, in order: each call's arguments,
the state of its Future and, as history the code does not have, how it ended.
`taken` is how many of them the platform thread has taken; `replies` are on their
way back. `HandleInitialize`, `HandleSynthesize` and `HandleDispose` are the three
branches of the handler; between a handler's start and its `Reply` the steps of
`TTSEngine` run, interleaved with the isolate's. `fds` counts the descriptors
of the streams that are never deleted. `HandleDispose` sends no reply: the
branch is empty. When `textToSequence` throws, `synthesize` ends before it sends
anything, which is no step of this system.

### SpeechService and the refinement

`SpeechService` has no threads, channel, backend or heap: calls take effect one
at a time, in the order they were made, on one voice and a set of files. It says
what a caller may rely on and what not: an `initialize` either sets its object's
voice or leaves none to rely on; a `synthesize` empties its file at some time,
then leaves in it the speech of that very call in the current voice, or what was
there (callers are not told); no other file changes; Futures complete in order
after the effect, except that `dispose` has none and never completes; the process
ends only on behalf of a call, and by a memory fault only without a voice or a
vocoder. `TTSPluginService` maps the plugin to it: a call takes effect when its
file is finished, or when the thread is done with it if it has none
(`CallsPerformed`); the voice is that of the last `initialize` that took effect, if it
loaded its models (`VoiceNow`). `ImplementsService` is a PROPERTY of the run
`plugin` and the theorem `PluginImplementsService`.

### ExampleApp

`setup` is how far `_initialize()` has come (`_ttsPlugin` is set at the end of a
chain of two Futures). A callback of a button runs up to its `await`
(`PressInitialize`, `PressSynthesize`) and goes on when its reply is delivered
(`AppDeliver`, which is the plugin's `Deliver` with what follows it). `enabled` is
what the last *built* frame shows: `setState` only asks for `Build`, so
SYNTHESIZE can still be pressed after INITIALIZE has reset `_initialized`. The
player opens the file and reads it in two parts while the platform thread may
truncate and rewrite it. `Kill` ends the process between any two steps and
`Relaunch` starts it again with nothing but the files: this is the crash and
restart the program is exposed to, since it persists nothing else.

### AndroidPlugin and AndroidJni

No call of the Dart API reaches the native code on Android, for two reasons:
`tts_plugin.dart` calls `app.mimetic.tts`, on which the Kotlin class registers
nothing, and the native functions are exported for the package
`com.avinium.tflite_tts`, which the class is not in. `AndroidPlugin` has both as they
are: a call on the API's channel is answered as one without a handler; one
that other Dart code makes on the registered channel reaches `onMethodCall`. If an
argument is missing (`complete`), `!!` throws a `NullPointerException`, which the
channel catches and answers as an error; otherwise the native call throws
`UnsatisfiedLinkError`, which is no exception the channel catches, and the process
ends. `made` is history.

`AndroidJni` is about the library itself, for a Java thread that is linked to
it. `JniInitialize` chooses whether there is an asset manager and which files can
be mapped; only when all is there does it call the core, with streams that deliver
what their sizes say, so the core's unchecked early return cannot happen.

### WavFile

`AudioFile<float>` as far as Wave files go: its functions are operators on the
value of an object (`samples`, `bitDepth`, `sampleRate`, `iXMLChunk`), its
actions any order of calls on one object. A file is its header fields, the codes
of its samples in their order and its iXML chunk. An `int32_t` is in `-Half ..
Half - 1`: the sizes in the header wrap there, and the check before writing
compares values that wrapped alike.

`load` computes the *places* of bytes as `int`s: `sampleIndex`, which starts at 44
(PCM) or 46 (float, `DataStart`), and the index of the iXML chunk behind the
samples, to which `getIndexOfChunk` is led by the sizes. They overflow while the
size of the data still fits. That is undefined: `ReadCode` then gives any code of
`Stray`, `ReadChunk` any chunk or none, and `decodeWaveFile` is the set of objects
that may come out. (The access may also end the process, which is no step of
this object.) `PlacesFit` says when no place overflows, and `Fits` rests on it; the
bound is tight: with one byte more, `RoundTrip` and `AiffRoundTrip` do not hold.

Samples are integers in units of 1/32768,
on which the conversions of all four depths are exact. `load` reads what was
saved, refused files included (of which it has then taken over the header).
`TTSEngine` covers opening and writing, where a file is one value; `ExportExact`
is what makes that abstraction right.

### AiffFile

The same object with the other format. The path holds one file, a Wave file
(`disk`) or an Aiff file (`aiff`); saving in either format replaces it, and loading
goes by what it is, so an object loaded from one format is saved in the other.
Rates have to be in a table (`TableRate`), channels are one or two on loading. 32
bits are integers there, in units of 65536; full scale overflows the `int32_t`,
which is undefined and becomes `INT32_MIN` or `INT32_MAX` by platform: `wraps`
chooses. The samples start at byte 54 (`AiffStart`), which the reader's `int`s
count as in a Wave file.

### Baker

The loop of `getPhoneme` with its two cursors, an action per branch, and the
look-up of `textToSequence`. Characters are classes (a Chinese character, the
character for er, `#`, digits, others); a pinyin is its last character and the
body before it. `asserts` is whether assertions are enabled: a debug build or a
release build, chosen at the start. The JSON tables
are data: every key of the dictionary yields an initial and a final that the
symbol table has with each of the five tones, and ids are distinct, so a symbol
stands for its id. `Ascending` lists a set of positions in order: those of the
characters that `replaceAll` keeps, of the Chinese characters, of the finals. A pronunciation is given and no pinyin is empty; without
that the call throws at once.

## Runs

| run | asks | bounds and why they suffice |
|---|---|---|
| `engine` | memory and file properties of the core under any order of calls | 3 initializations: the third replaces a backend that replaced one, with two generations of leaked models; 2 models of each kind, 2 sentences and 2 files tell an old one from a new one; syntheses are unbounded |
| `plugin` | overlapping calls of four objects: two complete voices, a missing vocoder, a missing mel generator; two sentences, one file; 5 descriptors; refinement of `SpeechService`; liveness | 4 calls: two initializations and two syntheses in any order and overlap, which is what a mix-up of two objects needs; a third initialization finds a descriptor for one model only, a fourth none |
| `app` | gating, faults, what is heard, liveness of INITIALIZE | 4 calls a launch, two launches: presses that overlap in every way, and a file left by a killed process; descriptors for two initializations, so a later one fails and still enables the button |
| `android_jni` | failing and successful `initialize`, any number of both kinds of failure | 2 initializations that reach the core, 2 models of each kind, 2 sentences; failures and syntheses are unbounded |
| `android_calls` | every call ends; detaching | 3 calls of any method on either channel |
| `baker` | texts of up to 5 characters, any pronunciation of up to 2 pinyin and listed ones of 3, with assertions and without | two syllables with a mark and another character between, or a mark after each; more pinyin than characters and fewer |
| `audio` | any order of the setters, saves, loads and exports in both formats | single samples at, next to and beyond full scale (the conversions work sample by sample); every shape of 0 to 3 channels (Aiff files are read with two at most) and 0, 1 or 8 samples; a `Half` of 86, with which 32 bytes of samples are at the edge: they are the most that an Aiff file can have (54 + 32), in a Wave file of 8 to 24 bits they fit with their chunk (44 + 32 + 9 is one less than `Half`), in one of 32 bits the chunk is one byte beyond; 48 to 72 bytes overflow places but not sizes, 96 bytes overflow a size; what a place beyond an int gives is one code that no sample has; a rate in the Aiff table and one that is not, an unsupported depth, chunks |
| `engine_success` | *violated*: success means loaded | finding 1 |
| `engine_save` | *violated*: `save()` reports the truth | finding 2 |
| `baker_erhua` | *violated*: an r-coloured syllable is spoken | finding 3 |
| `android_channel` | *violated*: the Dart API reaches the handler | finding 4 |
| `aiff_8bit` | *violated*: 8-bit Aiff files come back | finding 5 |

Deadlock is not checked: a process that ended, a program nobody calls and a
finished `textToSequence` rightly stop.

Symmetry is used in `engine` and `android_jni`, for the models, sentences and
files, which the specifications treat alike; never with a liveness property.

In `WavFile` two guards are bounds: `SizeBound` (a size that wrapped is not so large
that it leads back among the file's chunks) and `SampleBound` (8 and 16 bits lose a little more
each time a file is loaded and saved again; such samples are checked but not
saved once more).

**What the runs show.**

- `ModelsOfLastInitialize`, `BuffersOutliveModels`, `CrashOnlyOnUnsetPointer`,
  `CrashOnlyUnlessReadable`, `FileHoldsSpeech` (`engine`): the leaks that look
  like a flaw are what keeps the core sound. Buffers and models are never
  freed, so nothing dangles; and although a deleted block's members may come
  back in the new one, an `initialize` that reads its streams sets both.
- `FuturesCompleteInOrder`, `FileOfCompletedCall`, `OnlyDisposeHangs`
  (`plugin`): a completed `synthesize` has its own speech in its file,
  by the models of the last `initialize` *sent* before it, until a later
  `synthesize` with the same outfile is sent. The default outfile is the same
  for all calls, so overlapping default calls do replace each other's file: the
  property's condition is exactly what a caller has to respect.
- `CrashOnlyUnprepared`, `LoadsWhileDescriptorsLast` (`plugin`): only a `synthesize`
  without a loaded voice and a vocoder missing from the bundle take the process
  down by a memory fault, and two descriptors per `initialize` are all that leaks.
- `EveryCallAnswered` (`plugin`): a `dispose` hangs alone.
- `ImplementsService` (`plugin`): seen by callers, overlapping calls are one
  after the other.
- `EnabledMeansInitialized`, `NeverFaultsWhileDescriptorsLast`, `HeardWhole` (`app`):
  the gating keeps the application from every fault of the core but the one
  that exhausted descriptors bring about, and from an unset `_ttsPlugin`. What it
  does not prevent is SYNTHESIZE pressed again while the sentence is played,
  which the property's condition says.
- `FailedInitializeKeepsVoice`, `FaultsOnlyBeforeSuccess`, `FileHasServedVoice`
  (`android_jni`): what finding 1 breaks on iOS holds of the Android library, because
  it checks its streams first.
- `DetachedCallsAreHarmless`, `EveryCallEnds` (`android_calls`).
- `AiffRoundTrip`, `SavedAiffIsRead` (`audio`): also of objects half loaded from a
  file that was refused. The rate that has no code is kept out of files only by the
  size that does not come out right.
- `RoundTrip`, `ExportExact`, `Rectangular` (`audio`): `load` accepts and recovers
  what `save` wrote of any object that fits, which is: 1 to 128 channels, a
  supported depth, places of samples and chunk that fit an `int`, and with 24 bits no
  sample of +1.0 or beyond, which that depth wraps to the other sign.
- `WellFormedNeverThrows`, `SpokenAsGiven`, `OnePauseBetweenSyllables` (`baker`):
  wherever `#4` marks are taken out, the cursors stay in step; without assertions
  surplus pinyin is dropped, and nothing else.

**Fairness.** `plugin`, `app` and `android_calls` need it for one property each: weak
fairness of `PlatformThread` (the operating system schedules the thread; handlers
have no wait in them) and of `Deliver` (the isolate's event loop runs), in `app`
also of `Build` (a frame that was asked for is built). Nothing makes anybody call, and
no failure is excluded: `Exit` and `Crash` end the process, which the properties
allow.

**Findings.** (1) `initialize()` reports success for a backend without models
(`TTSBackend.h:22`, `TextToSpeech.cpp:20-22`, `TfliteTtsPlugin.mm:50`). (2)
`AudioFile::save` returns true for a file it could not write
(`AudioFile.h:1032`); in the run the bytes could not all be written. (3) The r-coloured branch of `getPhoneme` always throws
(`baker.dart:124`). (4) The Android class registers another channel than the Dart
API calls (`TfliteTtsPlugin.kt:31`); the run ends with a call of the API answered by
`MissingPluginException` while the plugin is attached. (5) 8-bit Aiff files are
written unsigned and read signed (`AudioFile.h:695`); the run reaches an object with
a depth of 8 and a sample of -1.0, which is coded 0 and would be read as silence.

Every property of a passing run has a mutant, an operator named after the
definition it changes (`MelgenRun_NotInvoked`, `Reply_InFront`, ...), that breaks it.
They stand before the definition and are used by nothing else.

## Proofs

`TTSEngineProofs` proves for every value of the constants, from
`MaxInitAssumption` (the bound on initializations is a natural number) and
`NoneAssumption` (the placeholders are not data), that every invariant of the
run `engine` holds in every behaviour of `EngineSpec`.

None of them is inductive alone. `EngineInv` conjoins them with what each
statement leaves for the next: `HeapInv` (fresh numbers, and a model pointer
that is set leads to a model), `ConstructorInv` (what has been read and
buffered at each statement of the constructor), `LoadedInv` (after it, the models
of the arguments), `InferenceInv` (before each statement of the inference, the
sizes, the readiness and the data the next one needs) and `CrashInv` (where the
process can have been killed). TLC confirmed `EngineInv` on the instance of
`engine` before it was proved. The proof has one lemma per action, and in
each one step per conjunct the action can disturb. `CrashLemma` shows the two
places where a crash preserves the invariant; in `MelgenRun` and `VocoderRun`
the crash disjunct is refuted from `BuffersOutliveModels` and `InferenceInv`.

`TTSPluginProofs` does the same for the composed system, from these two and
`ConfigurationAssumption` (every object is configured with a file of each kind,
the bounds are natural numbers): every invariant of the run `plugin` holds for
any number of calls, objects, models, sentences, files and descriptors, in every
interleaving of the two threads. `PluginInv` conjoins with `CoreInv`, the engine's part:
`ArgumentsInv` (what a call of each kind carries), `HandlingInv` (the call
being handled, at every statement of the core, is the last one taken and
its kind and arguments are the core's), `RepliedInv` (a call that was taken and is
no longer handled has its reply sent, unless it is a dispose), `RepliesInv` (the replies
under way are in order and after those delivered), `GivenInv` (the core's models
are those of the last `initialize` taken), `FileInv` (a finished file
stays until the thread *takes* a call for it, answered or not) and `DescriptorInv` (two descriptors per
initialization at most). TLC confirmed it on small instances first. That a step of the core preserves `CoreInv` is the engine's
own lemma; what is left of it is stated once in `CoreFrameLemma`,
`FileFrameLemma` and `NativeFrameLemma` (which of the calls, files and arguments a
step can touch), and each action's lemma rests on these.

`TTSServiceProofs` proves `PluginImplementsService`, `Spec => ImplementsService`, from
`PluginInv` and the same assumptions: the initial states map to the initial
state, and there is one lemma per action that says which step of the service it
is, or that it is none. The steps of the core before a file is finished are
stutters, save for `WavOpen`, which is `EmptyFile`; `WavWrite` (or `WavOpen` when it
fails) is `PerformSynthesize`, where `FileHoldsSpeech`'s invariant and `GivenInv`
give that the content is the voice's; `Reply` performs an `initialize`. A `Crash` is a
`Die` because `CrashInv` and `LoadedInv` leave no voice in that state.

`AndroidJniProofs` first shows that every behaviour of the Android library is one
of `EngineSpec` (`JniUsesEngine`), which gives `EngineInv` for nothing, and then the
small invariant `ServedInv`: the core was only given streams it can read, and
outside a call what was served last is what it was given last. Every invariant of
`android_jni` follows from the two, for any number of calls, models, sentences
and files.

`ExampleAppProofs` proves every invariant of the run `app` for any number of presses,
frames, launches, calls, descriptors and sentences, from `AppAssumption` (the
application's models are among its assets) and the plugin's assumptions. `AppInv` has three
parts. `CallerInv` is what the plugin satisfies under this one caller: `PluginInv` and
`EngineInv`, which the lemmas of the modules below carry over each call and each
step of the thread (`Kill` is the core's `Exit`; `Relaunch` re-establishes them with
arbitrary files); `AppCallsInv` (an initialize before every
synthesize, one object, one file), `PreparedInv` (hence the core was given the
application's models before anything could fault) and `WrittenInv` (the file is whole
from the end of a synthesize that wrote it until the thread takes the next). `ScreenInv`
relates buttons and `_ttsPlugin` to the calls. `PlayerInv` relates the player to
the file: what it has read so far is what the file holds, unless a later
synthesize is among the calls or this one was not saved - which holds because a
step that writes the file belongs to a call whose Future has not completed (`DoneLemma`).
`PressesNeverFault` then follows from the core's `CrashInv` and `LoadedInv`, the plugin's
`LoadsWhileDescriptorsLast` and `PreparedInv`.

`AndroidPluginProofs` proves the invariants of `android_calls` for any number of calls:
`AttachedInv` says that only an attached plugin has a handler and that while it is
attached every call was made so; the call that ends the process is taken by the
handler, hence was made while attached, however late it is taken (`EndInv`).

`AudioProofs` is about `AiffSpec`, an object used with both formats, for any buffers,
samples, lengths, channels, rates, depths and width of the ints, from
`NumbersAssumption`, `WidthAssumption` (an `int` holds the size of the headers and
counts the samples of a channel and the bytes of a chunk, an `int16_t` a number of
channels and a depth), `TableAssumption` (the rates of the Aiff table are positive) and
`BuffersAssumption` (buffers have a channel and channels of one length, as
`setAudioBuffer` asserts). `AudioInv` conjoins `AiffTypeOK` and `Rectangular` with
`WaveInv` (the frames `load` computes from the sizes of a Wave file are no more than
the file has, though a size may have overflowed: it is then negative and gives none), `AiffInv`
(an Aiff file with samples has a rate and a depth they were encoded with) and
`ExportedInv` (the file of `ExportWAV` is that of its object). Its arithmetic is
in `PlaceLemma` and `OffsetLemma` (interleaved samples and their places)
and `Int32Lemma` (what is left of a size). `Rectangular` is not inductive without
`WaveInv` and `AiffInv`, as `load` sets the buffer from the file. `ExportIsExact`
follows by evaluating `load` on `ExportedInv`'s file.

`WaveFilesComeBack` and `AiffFilesComeBack` follow from `Rectangular` and the types
alone: `InverseLemma` (the sample written for a channel and frame is read for the
same ones), `FitLemma` and `AiffFitLemma` (sizes and places that fit are read as they were
computed), `ReadInsideLemma` and `FindChunkLemma` (then no code and no chunk is stray) and, for the
conversions, `NearLemma` and `AiffNearLemma`.

`BakerProofs` proves every invariant of the run `baker` for texts and pronunciations of
any length, any dictionary, with assertions and without, from `TextAssumption` alone
(a text is a sequence of the characters told apart, a pronunciation one of pinyin).
None of the three safety properties is inductive. `BakerInv` conjoins them with
`CursorInv` (as many pinyin are consumed as Chinese characters passed, or else a
character has gone into a mark that no table has, and the look-up will throw),
`SpokenInv` (the symbols of the pinyin consumed stand in the result in order),
`ToneInv` and `MarkInv` (what the look-up relies on), `EndInv` (what has passed the
assertion and the look-up) and `PauseInv`: two syllables have their one pause, and the
last one has its pause already, or its mark is the next character, or nothing follows.
TLC confirmed `BakerInv` on the instance of `baker` before it was proved. There is one
lemma per action. Two groups of lemmas carry them: `AscendingLemma`,
`AscendingAppendTwoLemma` and `AscendingMapLemma` say what the k-th position of
a set is, what two more positions at the end add to it and which maps keep it;
`RemoveMark4Lemma`, `ChineseLemma` and `PauseLemma` say what taking out the `#4`
marks keeps: neighbours, the Chinese characters in order, and the pause after each of
them. The properties speak of the text given and the loop of the text without those
marks, so each theorem rests on these. `BakerErhuaNeverSpoken` shows finding (3)
for every dictionary.

Model-checked only: liveness (`EveryCallAnswered`, `InitializeEnables`, `EveryCallEnds`),
which rests on fairness. Every other property of a passing run is stated by a theorem.

## Not modelled

- `TTSPlugin`'s constructor (which throws for an unknown preprocessor) and
  `TTSPluginConfiguration` (paths are constants);
  the IPA preprocessor, whose file is not in the repository.
- The headers of TensorFlow Lite and FlatBuffers, which are nearly all of the
  repository's lines: third-party declarations, inline kernels and generated
  code that only the interpreter library calls, whose implementation is not in the
  repository. The part of their contract the core relies on (sizes, allocation,
  `Invoke`, the lifetime of the model buffer) is in `TTSEngine`. The plugin's own
  sources are about 1900 lines and `baker.dart`, and the models cover
  these.
- A property of the iXML chunk of an object that is loaded twice: `load` only sets it
  when the file has one (`AudioFile.h:598`), in the model as in the code.
- The contents of tensors.
- Audio files other programs wrote; files so large that a size that wrapped leads
  back to their samples (`SizeBound`); the process ended by `load` when it reads
  outside a file. A sample rate is not cut to 32 bits.
- Models that are not of the shape the code is written for (see `TTSEngine`).
- The mappings the JNI layer leaks: `map_file` may fail at any time in the model,
  which includes that no address space is left.

## Plan

Every part of the plugin's own sources has its module, and every safety property its
theorem. What is left is the native lifetime of the Android mappings, should
the JNI layer come to keep them.
