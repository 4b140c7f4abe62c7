------------------------------ MODULE AiffFile ------------------------------
(***************************************************************************)
(* The other format of the AudioFile class: an object that is saved to and *)
(* loaded from one path, as a Wave file (WavFile) or as an Aiff file.      *)
(* load() goes by what the file is, not by how it was last saved.          *)
(*                                                                         *)
(* Codes of 32 bits are in units of 65536, so that they fit the integers   *)
(* of the checker; INT32_MAX, which as a float is 2^31, is Unit there.     *)
(***************************************************************************)
EXTENDS WavFile

CONSTANT TableRate   \* the rates of aiffSampleRateTable

ASSUME TableAssumption == TableRate \subseteq Nat \ {0}

VARIABLE
  aiff   \* the file at the path, if it is an Aiff file; if it is a Wave file, disk is

aiffVars == <<vars, aiff>>

AiffRecord ==
  [numChannels : Nat, numSamplesPerChannel : Nat, bitDepth : Nat, sampleRate : Nat,
   soundDataChunkSize : -Half .. Half - 1, data : Seq(Int), iXMLChunk : Nat]

AiffTypeOK ==
  /\ TypeOK
  /\ aiff = None \/ aiff \in AiffRecord
  /\ disk = None \/ aiff = None

AiffInit == Init /\ aiff = None

-----------------------------------------------------------------------------
(***************************************************************************)
(* saveToAiffFile                                                          *)
(***************************************************************************)

(***************************************************************************)
(* 8, 16 and 24 bits are as in a Wave file.  32 bits are the float times   *)
(* INT32_MAX, made an int: beyond the ints that is undefined, and becomes  *)
(* INT32_MIN (wraps) or the nearest int.                                   *)
(***************************************************************************)
AiffCode(bits, s, wraps) ==
  IF bits # 32 THEN Encode(bits, s)
  ELSE IF s \notin -Unit .. Unit - 1 /\ wraps THEN -Unit
  ELSE clamp(s)

AiffOf(a) ==
  LET channels == getNumChannels(a)
      sample(k) == a.samples[((k - 1) % channels) + 1][((k - 1) \div channels) + 1]
  IN
  {[numChannels |-> channels, numSamplesPerChannel |-> getNumSamplesPerChannel(a),
    bitDepth |-> a.bitDepth, sampleRate |-> IF a.sampleRate \in TableRate THEN a.sampleRate ELSE 0,
    soundDataChunkSize |-> Int32(AudioBytes(a) + 8),
    data |-> [k \in 1 .. getNumSamplesPerChannel(a) * channels |->
                AiffCode(a.bitDepth, sample(k), wraps)],
    iXMLChunk |-> a.iXMLChunk] : wraps \in BOOLEAN}

EncodesAiff_NoSizeCheck(a) == AudioBytes(a) = 0 \/ a.bitDepth \in Supported

(***************************************************************************)
(* A rate that is not in the table leaves ten bytes out of the file, which *)
(* the check of its size notices.                                          *)
(***************************************************************************)
EncodesAiff(a) ==
  LET rateBytes == IF a.sampleRate \in TableRate THEN 10 ELSE 0
      xmlBytes  == ChunkBytes(a.iXMLChunk)
  IN
  /\ getNumSamplesPerChannel(a) * getNumChannels(a) = 0 \/ a.bitDepth \in Supported
  /\ Int32(4 + 26 + 16 + AudioBytes(a) + xmlBytes)
       = Int32(4 + 16 + rateBytes + 16 + AudioBytes(a) + xmlBytes)

-----------------------------------------------------------------------------
(***************************************************************************)
(* decodeAiffFile                                                          *)
(***************************************************************************)

\* The sizes in the headers agree, and the file is as long as they say.
AcceptsAiff(f) ==
  LET sampleBytes(n) == n * (f.bitDepth \div 8)
      total == Int32(sampleBytes(f.numSamplesPerChannel * f.numChannels))
  IN
  /\ f.sampleRate # 0
  /\ f.numChannels \in 1 .. 2
  /\ f.bitDepth \in Supported
  /\ Int32(f.soundDataChunkSize - 8) = total
  /\ total <= sampleBytes(Len(f.data)) + ChunkBytes(f.iXMLChunk)

\* 8 bits are read as signed.
AiffDecode(bits, code) ==
  IF bits = 8 THEN (IF code >= 128 THEN code - 256 ELSE code) * 256 ELSE Decode(bits, code)

AiffStart == 54

AiffSamples_ChannelsApart(f, stray) ==
  LET code(c, i) == ReadCode(f, AiffStart, ((c - 1) * f.numSamplesPerChannel) + i, stray) IN
  [c \in 1 .. f.numChannels |-> [i \in 1 .. f.numSamplesPerChannel |->
     AiffDecode(f.bitDepth, code(c, i))]]

AiffSamples(f, stray) ==
  LET code(c, i) == ReadCode(f, AiffStart, ((i - 1) * f.numChannels) + c, stray) IN
  [c \in 1 .. f.numChannels |-> [i \in 1 .. f.numSamplesPerChannel |->
     AiffDecode(f.bitDepth, code(c, i))]]

decodeAiffFile_Appends(a, f) ==
  {Loaded(a, f,
          [c \in 1 .. f.numChannels |->
             (IF c \in DOMAIN a.samples THEN a.samples[c] ELSE << >>) \o AiffSamples(f, stray)[c]],
          chunk) :
   stray \in [DOMAIN f.data -> Stray],
   chunk \in ReadChunk(a, f, AiffStart - 8 + f.soundDataChunkSize)}

\* The objects that it may make of a file.
decodeAiffFile(a, f) ==
  {Loaded(a, f, AiffSamples(f, stray), chunk) :
   stray \in [DOMAIN f.data -> Stray],
   chunk \in ReadChunk(a, f, AiffStart - 8 + f.soundDataChunkSize)}

-----------------------------------------------------------------------------

SaveAiff ==
  /\ SizeBound(audio) /\ SampleBound(audio)
  /\ EncodesAiff(audio)
  /\ aiff' \in AiffOf(audio)
  /\ disk' = None /\ exported' = None
  /\ UNCHANGED audio

LoadAiff ==
  /\ aiff # None
  /\ audio' \in IF AcceptsAiff(aiff) THEN decodeAiffFile(audio, aiff) ELSE {HalfLoaded(audio, aiff)}
  /\ UNCHANGED <<disk, exported, aiff>>

\* A file is written over one of the other format.
WriteWave == (Save \/ Export) /\ aiff' = None

OtherCall ==
  /\ \/ SetAudioBuffer \/ SetAudioBufferSize \/ SetNumSamples \/ SetNumChannels
     \/ SetBitDepth \/ SetSampleRate \/ SetChunk
     \/ Load
  /\ UNCHANGED aiff

AiffNext == OtherCall \/ WriteWave \/ SaveAiff \/ LoadAiff

AiffSpec == AiffInit /\ [][AiffNext]_aiffVars

-----------------------------------------------------------------------------
(***************************************************************************)
(* Properties                                                              *)
(***************************************************************************)

\* What an Aiff file of the object's depth can carry.
FitsAiff(a) ==
  /\ getNumChannels(a) \in 1 .. 2
  /\ a.sampleRate \in TableRate
  /\ PlacesFit(a, AiffStart)
  /\ a.bitDepth \in {24, 32} =>
       \A c \in DOMAIN a.samples : \A i \in DOMAIN a.samples[c] :
         a.samples[c][i] \in -Unit .. Unit - 1

ComesBack(a, f) ==
  AcceptsAiff(f) /\ \A b \in decodeAiffFile(NewAudioFile, f) : SameAudio(a, b)

(***************************************************************************)
(* With 16, 24 and 32 bits, saving as Aiff and loading are inverse within  *)
(* the precision of the depth, for an object in any state that other calls *)
(* have left it in (loaded from a file of the other format, half loaded    *)
(* from one that was refused).  (Full scale of 24 and 32 bits may come     *)
(* back negated.)                                                          *)
(***************************************************************************)
AiffRoundTrip ==
  FitsAiff(audio) /\ audio.bitDepth \in {16, 24, 32} =>
    EncodesAiff(audio) /\ \A f \in AiffOf(audio) : ComesBack(audio, f)

(***************************************************************************)
(* "Sets the bit depth for the audio file. If you use the save() function, *)
(* this bit depth rate will be used" (AudioFile.h:132).  It does not hold  *)
(* of 8 bits: they are written unsigned and read signed.                   *)
(***************************************************************************)
AiffRoundTrip8 ==
  FitsAiff(audio) /\ audio.bitDepth = 8 => \A f \in AiffOf(audio) : ComesBack(audio, f)

(***************************************************************************)
(* An Aiff file that save() has left with samples in one or two channels   *)
(* is one that load() reads: in particular it has a rate, though only the  *)
(* size that does not come out right keeps save() from leaving it out.     *)
(***************************************************************************)
SavedAiffIsRead ==
  aiff # None /\ aiff.numChannels \in 1 .. 2 /\ aiff.data # << >> => AcceptsAiff(aiff)
=============================================================================
