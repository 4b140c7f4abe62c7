------------------------------- MODULE WavFile -------------------------------
(***************************************************************************)
(* The wav export: VoxUtil::ExportWAV and the AudioFile class it uses, as  *)
(* far as Wave files go.  The class's functions are operators on the value *)
(* of an object.                                                           *)
(*                                                                         *)
(* A file is the record of its header fields with the width they have, the *)
(* codes of its samples in their order, and its iXML chunk.  Samples are   *)
(* integers in units of 1/Unit of full scale, on which the conversions are *)
(* exact; samples of other fractions round within one unit.                *)
(***************************************************************************)
EXTENDS Integers, Sequences

CONSTANTS
  Half,         \* an int32_t is in -Half .. Half - 1
  SampleValue,  \* sample values, in units
  Depth,        \* bit depths to set, supported or not
  Rate,         \* sample rates
  ChunkSize,    \* lengths of iXMLChunk; 0 is the empty string
  Length,       \* lengths of audio buffers
  MaxChannels,  \* bound: channels of an audio buffer
  Buffers,      \* the audio buffers to set
  Stray,        \* codes that bytes outside a file may give
  None

ASSUME NumbersAssumption ==
  /\ Half \in Nat \ {0} /\ MaxChannels \in Nat
  /\ SampleValue \subseteq Int /\ Depth \subseteq Nat /\ Rate \subseteq Nat
  /\ ChunkSize \subseteq Nat /\ Length \subseteq Nat
  /\ Stray \subseteq Int /\ Stray # {}

\* setAudioBuffer asserts that there is a channel and that all are of one length.
ASSUME BuffersAssumption ==
  \A b \in Buffers :
    b \in Seq(Seq(Int)) /\ b # << >> /\ \A c \in DOMAIN b : Len(b[c]) = Len(b[1])

\* Bounds: the code counts samples and bytes of a chunk with ints, and writes numbers of
\* channels and bit depths as int16_ts; all of them fit, and an int the size of headers.
ASSUME WidthAssumption ==
  /\ Half > 64
  /\ \A size \in ChunkSize \cup Length : size < Half
  /\ \A b \in Buffers : Len(b[1]) < Half /\ Len(b) < 32768
  /\ \A n \in Depth \cup {MaxChannels} : n < 32768

Unit == 32768

\* Conversion to int32_t (where a size overflows, the build wraps it), to int16_t and
\* to uint32_t, and division as C does it.
Int32_Wide(x)   == x
Int32(x)        == ((x + Half) % (2 * Half)) - Half
Int16(x)        == ((x + 32768) % 65536) - 32768
Uint32(x)       == x % (2 * Half)
Quotient(n, d)  == IF n >= 0 THEN n \div d ELSE -((-n) \div d)

VARIABLES
  audio,     \* an AudioFile<float>
  disk,      \* the file at the path used
  exported   \* history: what ExportWAV was given, when disk is its file

vars == <<audio, disk, exported>>

Supported == {8, 16, 24, 32}
Buffer(S) == Seq(Seq(S))

AudioFile == [samples : Buffer(Int), bitDepth : Nat, sampleRate : Nat, iXMLChunk : Nat]

\* The constructor.
NewAudioFile == [samples |-> << << >> >>, bitDepth |-> 16, sampleRate |-> 44100, iXMLChunk |-> 0]

WaveFile ==
  [audioFormat : {"PCM", "IEEEFloat"}, numChannels : Nat, sampleRate : Nat,
   numBytesPerSecond : Nat, numBytesPerBlock : Int, bitDepth : Nat,
   dataChunkSize : -Half .. Half - 1, data : Seq(Int), iXMLChunk : Nat]

TypeOK ==
  /\ audio \in AudioFile
  /\ disk = None \/ disk \in WaveFile
  /\ exported = None \/ exported \in [data : Seq(Int), sampleRate : Nat]

Init == audio = NewAudioFile /\ disk = None /\ exported = None

-----------------------------------------------------------------------------
(***************************************************************************)
(* The audio buffer                                                        *)
(***************************************************************************)

getNumChannels(a)          == Len(a.samples)
getNumSamplesPerChannel(a) == IF a.samples = << >> THEN 0 ELSE Len(a.samples[1])

\* vector::resize with n elements, the new ones being fill.
Resized(seq, n, fill) == [i \in 1 .. n |-> IF i <= Len(seq) THEN seq[i] ELSE fill]

\* A buffer without channels, or with channels of several lengths, is refused by an assertion.
setAudioBuffer(a, buffer) == [a EXCEPT !.samples = buffer]

setNumSamplesPerChannel(a, n) ==
  [a EXCEPT !.samples = [c \in DOMAIN @ |-> Resized(@[c], n, 0)]]

setAudioBufferSize(a, channels, n) ==
  setNumSamplesPerChannel([a EXCEPT !.samples = Resized(@, channels, << >>)], n)

setNumChannels_EmptyChannels(a, channels) ==
  [a EXCEPT !.samples = Resized(@, channels, << >>)]

\* New channels are as long as the first one, and silent.
setNumChannels(a, channels) ==
  LET silence == [i \in 1 .. getNumSamplesPerChannel(a) |-> 0]
  IN  [a EXCEPT !.samples = Resized(@, channels, silence)]

setBitDepth(a, bits)   == [a EXCEPT !.bitDepth = bits]
setSampleRate(a, rate) == [a EXCEPT !.sampleRate = rate]

-----------------------------------------------------------------------------
(***************************************************************************)
(* Samples and their codes                                                 *)
(***************************************************************************)

clamp(s) == IF s > Unit THEN Unit ELSE IF s < -Unit THEN -Unit ELSE s

Encode_Overflow(bits, s) ==
  CASE bits = 8  -> ((clamp(s) + Unit) * 255) \div (2 * Unit)
    [] bits = 16 -> ((clamp(s) + 32768) % 65536) - 32768
    [] bits = 24 -> ((s * 256 + 8388608) % 16777216) - 8388608
    [] OTHER     -> s

\* 24 bits are not clamped but cut off; 32 bits are those of the float.
Encode(bits, s) ==
  CASE bits = 8  -> ((clamp(s) + Unit) * 255) \div (2 * Unit)
    [] bits = 16 -> Quotient(clamp(s) * 32767, Unit)
    [] bits = 24 -> ((s * 256 + 8388608) % 16777216) - 8388608
    [] OTHER     -> s

Decode(bits, code) ==
  CASE bits = 8  -> (code - 128) * 256
    [] bits = 24 -> Quotient(code, 256)
    [] OTHER     -> code

-----------------------------------------------------------------------------
(***************************************************************************)
(* saveToWaveFile                                                          *)
(***************************************************************************)

AudioBytes(a) == getNumSamplesPerChannel(a) * getNumChannels(a) * (a.bitDepth \div 8)

Header(a) ==
  LET channels == getNumChannels(a)
      bits     == a.bitDepth
  IN
  [audioFormat       |-> IF bits = 32 THEN "IEEEFloat" ELSE "PCM",
   numChannels       |-> channels,
   sampleRate        |-> a.sampleRate,
   numBytesPerSecond |-> Uint32(channels * a.sampleRate * bits) \div 8,
   numBytesPerBlock  |-> Int16(channels * (bits \div 8)),
   bitDepth          |-> bits,
   dataChunkSize     |-> Int32(getNumSamplesPerChannel(a) * ((channels * bits) \div 8))]

\* The bytes of an iXML chunk with its head.
ChunkBytes(size) == IF size > 0 THEN 8 + size ELSE 0

\* Frame by frame, and in each one channel by channel.
Codes(a) ==
  LET channels == getNumChannels(a) IN
  [k \in 1 .. getNumSamplesPerChannel(a) * channels |->
     Encode(a.bitDepth, a.samples[((k - 1) % channels) + 1][((k - 1) \div channels) + 1])]

WaveOf(a) ==
  LET h == Header(a) IN
  [audioFormat |-> h.audioFormat, numChannels |-> h.numChannels, sampleRate |-> h.sampleRate,
   numBytesPerSecond |-> h.numBytesPerSecond, numBytesPerBlock |-> h.numBytesPerBlock,
   bitDepth |-> h.bitDepth, dataChunkSize |-> h.dataChunkSize,
   data |-> Codes(a), iXMLChunk |-> a.iXMLChunk]

(***************************************************************************)
(* It gives up on a sample of another depth, and when the sizes in the     *)
(* headers are not those of the bytes it made, as far as an int32_t tells. *)
(***************************************************************************)
Encodes(a) ==
  LET formatBytes == IF a.bitDepth = 32 THEN 18 ELSE 16
      xmlBytes    == ChunkBytes(a.iXMLChunk)
      size        == Header(a).dataChunkSize
  IN
  /\ Codes(a) = << >> \/ a.bitDepth \in Supported
  /\ Int32(4 + formatBytes + 8 + 8 + size + xmlBytes)
       = Int32(4 + 8 + formatBytes + 8 + AudioBytes(a) + xmlBytes)
  /\ size = Int32(AudioBytes(a))

-----------------------------------------------------------------------------
(***************************************************************************)
(* load                                                                    *)
(***************************************************************************)

Accepts(f) ==
  /\ f.audioFormat \in {"PCM", "IEEEFloat"}
  /\ f.numChannels \in 1 .. 128
  /\ f.numBytesPerSecond = Uint32(f.numChannels * f.sampleRate * f.bitDepth) \div 8
  /\ f.numBytesPerBlock = f.numChannels * (f.bitDepth \div 8)
  /\ f.bitDepth \in Supported

(***************************************************************************)
(* load() computes the places of bytes in the file as ints.  Beyond an int *)
(* that is undefined: where it does not end the process (which is no step  *)
(* here), bytes outside the file are read, which may give any of Stray for *)
(* each sample, and any of ChunkSize for the iXML chunk or none.           *)
(***************************************************************************)

\* The code of the k-th sample of a file whose samples start at byte start.
ReadCode(f, start, k, stray) ==
  IF start + k * (f.bitDepth \div 8) <= Half THEN f.data[k] ELSE stray[k]

(***************************************************************************)
(* The chunk behind the samples is at index, where getIndexOfChunk is led  *)
(* by their size.  A size that did not fit an int32_t leads it out of the  *)
(* file.  The chunk's text is eight bytes on.  If no chunk is found, one   *)
(* that the object had stays.                                              *)
(***************************************************************************)
ReadChunk(a, f, index) ==
  IF f.iXMLChunk = 0 \/ index < 0 THEN {a.iXMLChunk}
  ELSE IF index + 8 < Half THEN {f.iXMLChunk}
  ELSE {a.iXMLChunk, f.iXMLChunk} \cup ChunkSize

\* Where the samples start: behind the header, the format chunk and the data chunk's head.
DataStart(f) == IF f.audioFormat = "PCM" THEN 44 ELSE 46

\* The header is taken over before it is checked, so what is refused is half loaded.
HalfLoaded(a, f) == [a EXCEPT !.sampleRate = f.sampleRate, !.bitDepth = f.bitDepth]

\* The channels it reads, each sample from where its frame is.
WaveSamples(f, stray) ==
  LET n == Quotient(f.dataChunkSize, (f.numChannels * f.bitDepth) \div 8)
      code(c, i) == ReadCode(f, DataStart(f), ((i - 1) * f.numChannels) + c, stray)
  IN
  [c \in 1 .. f.numChannels |-> [i \in 1 .. n |-> Decode(f.bitDepth, code(c, i))]]

Loaded(a, f, samples, chunk) ==
  [HalfLoaded(a, f) EXCEPT !.samples = samples, !.iXMLChunk = chunk]

\* The objects that it may make of a file.
decodeWaveFile(a, f) ==
  {Loaded(a, f, WaveSamples(f, stray), chunk) :
   stray \in [DOMAIN f.data -> Stray],
   chunk \in ReadChunk(a, f, DataStart(f) + f.dataChunkSize)}

-----------------------------------------------------------------------------
(***************************************************************************)
(* An object used in any order of calls, and ExportWAV                     *)
(***************************************************************************)

Change(a) == audio' = a /\ UNCHANGED <<disk, exported>>

SetAudioBuffer     == \E b \in Buffers : Change(setAudioBuffer(audio, b))
SetAudioBufferSize == \E c \in 0 .. MaxChannels, n \in Length :
                        Change(setAudioBufferSize(audio, c, n))
SetNumSamples      == \E n \in Length : Change(setNumSamplesPerChannel(audio, n))
SetNumChannels     == \E c \in 0 .. MaxChannels : Change(setNumChannels(audio, c))
SetBitDepth        == \E bits \in Depth : Change(setBitDepth(audio, bits))
SetSampleRate      == \E rate \in Rate : Change(setSampleRate(audio, rate))
SetChunk           == \E size \in ChunkSize : Change([audio EXCEPT !.iXMLChunk = size])

\* Bound: sizes that did not fit lead out of the file, not back into its samples (which
\* start at byte 44, 46 or, in an Aiff file, 54).
SizeBound(a) == AudioBytes(a) + 54 < 2 * Half

\* Bound: saved and loaded again, 8 and 16 bits lose a little more every time, so
\* samples decoded with a loss are not saved once more.
SampleBound(a) ==
  \A c \in DOMAIN a.samples : \A i \in DOMAIN a.samples[c] :
    a.samples[c][i] \in SampleValue \cup {0}

\* Opening and writing the file and how they fail is in TTSEngine.
Save ==
  /\ SizeBound(audio) /\ SampleBound(audio)
  /\ Encodes(audio)
  /\ disk' = WaveOf(audio)
  /\ exported' = None
  /\ UNCHANGED audio

Load ==
  /\ disk # None
  /\ audio' \in IF Accepts(disk) THEN decodeWaveFile(audio, disk) ELSE {HalfLoaded(audio, disk)}
  /\ UNCHANGED <<disk, exported>>

ExportFile_DefaultDepth(data, rate) ==
  LET file == setNumChannels(setNumSamplesPerChannel(
                setAudioBufferSize(setAudioBuffer(NewAudioFile, <<data>>), 1, Len(data)),
                Len(data)), 1)
  IN  setSampleRate(file, rate)

\* The object that ExportWAV makes for one channel of 32-bit samples.
ExportFile(data, rate) ==
  LET file == setNumChannels(setNumSamplesPerChannel(
                setAudioBufferSize(setAudioBuffer(NewAudioFile, <<data>>), 1, Len(data)),
                Len(data)), 1)
  IN  setSampleRate(setBitDepth(file, 32), rate)

\* The object is ExportWAV's own: one that is new becomes the one it made.
ExportWAV(data, rate) ==
  LET file == ExportFile(data, rate) IN
  /\ audio = NewAudioFile
  /\ SizeBound(file) /\ Encodes(file)
  /\ audio' = file
  /\ disk' = WaveOf(file)
  /\ exported' = [data |-> data, sampleRate |-> rate]

Export ==
  \E n \in Length, s \in SampleValue, t \in SampleValue, rate \in Rate :
    ExportWAV([i \in 1 .. n |-> IF i = 1 THEN s ELSE t], rate)

Next ==
  \/ SetAudioBuffer \/ SetAudioBufferSize \/ SetNumSamples \/ SetNumChannels
  \/ SetBitDepth \/ SetSampleRate \/ SetChunk
  \/ Save \/ Load \/ Export

Spec == Init /\ [][Next]_vars

-----------------------------------------------------------------------------
(***************************************************************************)
(* Properties                                                              *)
(***************************************************************************)

(***************************************************************************)
(* All channels are as long as the first, after any sequence of calls.     *)
(* Saving reads every channel to the length of the first.                  *)
(***************************************************************************)
Rectangular ==
  \A c \in DOMAIN audio.samples : Len(audio.samples[c]) = getNumSamplesPerChannel(audio)

\* An int holds the place of every byte that load() reads of the object's samples, from
\* byte start on, and of its iXML chunk.
PlacesFit(a, start) ==
  start + AudioBytes(a) + (IF a.iXMLChunk = 0 THEN 0 ELSE 9) <= Half

\* What a Wave file of the object's depth can carry.
Fits(a) ==
  /\ getNumChannels(a) \in 1 .. 128
  /\ a.bitDepth \in Supported
  /\ PlacesFit(a, DataStart(Header(a)))
  /\ a.bitDepth = 24 =>
       \A c \in DOMAIN a.samples : \A i \in DOMAIN a.samples[c] :
         a.samples[c][i] \in -Unit .. Unit - 1

\* How far a sample of this depth may be from the one given, in units.
Precision(bits) == CASE bits = 8 -> 511 [] bits = 16 -> 1 [] OTHER -> 0

Near(bits, s, t) ==
  LET given == IF bits \in {8, 16} THEN clamp(s) ELSE s
  IN  t - given \in -Precision(bits) .. Precision(bits)

\* b is a within the precision of its depth.
SameAudio(a, b) ==
  /\ b.sampleRate = a.sampleRate /\ b.bitDepth = a.bitDepth /\ b.iXMLChunk = a.iXMLChunk
  /\ DOMAIN b.samples = DOMAIN a.samples
  /\ \A c \in DOMAIN b.samples :
       /\ DOMAIN b.samples[c] = DOMAIN a.samples[c]
       /\ \A i \in DOMAIN b.samples[c] : Near(a.bitDepth, a.samples[c][i], b.samples[c][i])

(***************************************************************************)
(* save() and load() are inverse within the precision of the depth: what   *)
(* the one writes of an object that fits, the other accepts and reads with *)
(* the channels, lengths, samples, rate, depth and chunk of the object.    *)
(* (A depth of 24 does not carry full scale: it comes back negated.)       *)
(***************************************************************************)
RoundTrip ==
  Fits(audio) =>
    /\ Encodes(audio) /\ Accepts(WaveOf(audio))
    /\ \A b \in decodeWaveFile(NewAudioFile, WaveOf(audio)) : SameAudio(audio, b)

(***************************************************************************)
(* The file that ExportWAV leaves holds exactly the samples it was given,  *)
(* beyond full scale too, as one channel at the rate it was given, as long *)
(* as an int holds the places of its bytes.                                *)
(***************************************************************************)
ExportExact ==
  exported # None /\ 46 + 4 * Len(exported.data) <= Half =>
    /\ Accepts(disk)
    /\ \A b \in decodeWaveFile(NewAudioFile, disk) :
         b.samples = <<exported.data>> /\ b.sampleRate = exported.sampleRate
=============================================================================
