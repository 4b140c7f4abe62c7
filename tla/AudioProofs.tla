----------------------------- MODULE AudioProofs -----------------------------
(***************************************************************************)
(* Theorems about an audio object and the one file it is saved to and      *)
(* loaded from, in both formats: for any buffers, samples, lengths,        *)
(* channels, rates, depths, chunks and width of the ints.                  *)
(***************************************************************************)
EXTENDS AiffFile, TLAPS, SequenceTheorems

(***************************************************************************)
(* The inductive invariant.                                                *)
(***************************************************************************)

\* An object whose channels are all as long as the first.
SameLengths(a) == \A c \in DOMAIN a.samples : Len(a.samples[c]) = getNumSamplesPerChannel(a)
Sound(a)       == a \in AudioFile /\ SameLengths(a)

\* The samples per channel that load() takes from a Wave file are all in the file.
Frames(f)   == Quotient(f.dataChunkSize, (f.numChannels * f.bitDepth) \div 8)
Complete(f) == Accepts(f) => Frames(f) * f.numChannels <= Len(f.data)
WaveInv     == disk # None => Complete(disk)

\* What SaveAiff has left has a rate, its samples, a depth for them, and their size.
Written(f) ==
  /\ f.sampleRate # 0
  /\ Len(f.data) = f.numSamplesPerChannel * f.numChannels
  /\ Len(f.data) = 0 \/ f.bitDepth \in Supported
  /\ f.soundDataChunkSize = Int32(Len(f.data) * (f.bitDepth \div 8) + 8)
  /\ Len(f.data) * (f.bitDepth \div 8) + 54 < 2 * Half
AiffInv == aiff # None => Written(aiff)

\* The file of ExportWAV is that of the object it made.
ExportedInv ==
  exported # None =>
    /\ exported \in [data : Seq(Int), sampleRate : Nat]
    /\ disk = WaveOf(ExportFile(exported.data, exported.sampleRate))

AudioInv == AiffTypeOK /\ Rectangular /\ WaveInv /\ AiffInv /\ ExportedInv

-----------------------------------------------------------------------------
(***************************************************************************)
(* Arithmetic: interleaved samples and their places.                       *)
(***************************************************************************)

\* The k-th sample of n frames is one of some channel and frame.
LEMMA PlaceLemma ==
  ASSUME NEW n \in Nat, NEW ch \in Nat, NEW k \in 1 .. n * ch
  PROVE  ((k - 1) % ch) + 1 \in 1 .. ch /\ ((k - 1) \div ch) + 1 \in 1 .. n
<1>1. ch # 0 /\ k - 1 \in Nat /\ n * ch \in Nat
  OBVIOUS
<1> DEFINE q == (k - 1) \div ch
           r == (k - 1) % ch
<1>2. q \in Nat /\ r \in 0 .. ch - 1 /\ k - 1 = ch * q + r
  BY <1>1
<1> HIDE DEF q, r
<1>3. q < n
  <2> SUFFICES ASSUME q >= n PROVE FALSE
    BY <1>2
  <2>1. PICK d \in Nat : q = n + d
    BY <1>2
  <2>2. ch * q = n * ch + ch * d /\ ch * d \in Nat
    BY <1>1, <2>1
  <2> QED
    BY <1>1, <1>2, <2>2
<1> QED
  BY <1>2, <1>3 DEF q, r

\* Channel c of frame i is one of the samples of n frames.
LEMMA OffsetLemma ==
  ASSUME NEW n \in Nat, NEW ch \in Nat, NEW i \in 1 .. n, NEW c \in 1 .. ch
  PROVE  ((i - 1) * ch) + c \in 1 .. n * ch
<1>1. PICK d \in Nat : n = i + d
  OBVIOUS
<1>2. n * ch = (i - 1) * ch + ch + d * ch /\ d * ch \in Nat /\ (i - 1) * ch \in Nat
  BY <1>1
<1> QED
  BY <1>2

\* A size that is below 2^w either fits an int or becomes negative.
LEMMA Int32Lemma ==
  ASSUME NEW x \in Nat, x < 2 * Half
  PROVE  Int32(x) \in -Half .. Half - 1 /\ (Int32(x) = x \/ Int32(x) < 0) /\ (x < Half => Int32(x) = x)
<1>1. Half \in Nat /\ Half > 0
  BY NumbersAssumption
<1>2. CASE x < Half
  <2>1. (x + Half) % (2 * Half) = x + Half
    BY <1>1, <1>2
  <2> QED
    BY <1>1, <1>2, <2>1 DEF Int32
<1>3. CASE x >= Half
  <2>1. (x + Half) % (2 * Half) = x - Half
    BY <1>1, <1>3
  <2> QED
    BY <1>1, <1>3, <2>1 DEF Int32
<1> QED
  BY <1>1, <1>2, <1>3

\* Taking away again what was added to a size undoes it, whether or not it fitted.
LEMMA Int32BackLemma ==
  ASSUME NEW x \in Nat, x + 54 < 2 * Half
  PROVE  Int32(Int32(x + 8) - 8) = Int32(x)
<1>1. Half \in Nat /\ Half > 64
  BY NumbersAssumption, WidthAssumption
<1>2. CASE x + 8 < Half
  <2>1. Int32(x + 8) = x + 8
    BY <1>1, <1>2, Int32Lemma
  <2> QED
    BY <2>1
<1>3. CASE x + 8 >= Half
  <2>1. (x + 8 + Half) % (2 * Half) = x + 8 - Half
    BY <1>1, <1>3
  <2>2. Int32(x + 8) - 8 = x - 2 * Half
    BY <1>1, <2>1 DEF Int32
  <2>3. ((x - 2 * Half) + Half) % (2 * Half) = (x + Half) % (2 * Half)
    <3>1. CASE x < Half
      <4>1. (x + Half) % (2 * Half) = x + Half
        BY <1>1, <3>1
      <4>2. (x - Half) % (2 * Half) = x + Half
        BY <1>1, <1>3, <3>1
      <4> QED
        BY <1>1, <4>1, <4>2
    <3>2. CASE x >= Half
      <4>1. (x + Half) % (2 * Half) = x - Half
        BY <1>1, <3>2
      <4>2. (x - Half) % (2 * Half) = x - Half
        BY <1>1, <3>2
      <4> QED
        BY <1>1, <4>1, <4>2
    <3> QED
      BY <1>1, <3>1, <3>2
  <2> QED
    BY <2>2, <2>3 DEF Int32
<1> QED
  BY <1>1, <1>2, <1>3

\* Ten bytes more are another size, also when it overflows.
LEMMA TenBytesLemma ==
  ASSUME NEW x \in Nat
  PROVE  Int32(x + 10) # Int32(x)
<1> DEFINE m == 2 * Half
           p == (x + Half) \div m
           q == (x + 10 + Half) \div m
           r == (x + Half) % m
<1>1. Half \in Nat /\ Half > 64 /\ m \in Nat /\ m > 128
  BY NumbersAssumption, WidthAssumption
<1> SUFFICES ASSUME (x + 10 + Half) % m = r PROVE FALSE
  BY <1>1 DEF Int32
<1>2. x + Half \in Nat /\ x + 10 + Half \in Nat
  BY <1>1
<1> HIDE DEF m
<1>3. p \in Int /\ q \in Int /\ r \in Int
  BY <1>1, <1>2
<1>4. x + Half = m * p + r /\ x + 10 + Half = m * q + r
  BY <1>1, <1>2
<1> HIDE DEF p, q, r
<1>5. m * q = m * p + 10
  BY <1>1, <1>3, <1>4
<1>6. m * (q - p) = 10
  BY <1>1, <1>3, <1>5
<1>7. q - p \in Int /\ \A d \in Int : (d >= 1 => m * d >= m) /\ (d <= 0 => m * d <= 0)
  BY <1>1, <1>3
<1> QED
  BY <1>1, <1>6, <1>7

\* A number that an int16_t holds is written as it is.
LEMMA Int16Lemma ==
  ASSUME NEW x \in Nat, x < 32768
  PROVE  Int16(x) = x
<1>1. x + 32768 \in Nat /\ x + 32768 < 65536
  OBVIOUS
<1>2. \A y \in Nat : y < 65536 => y % 65536 = y
  OBVIOUS
<1> QED
  BY <1>1, <1>2 DEF Int16

LEMMA QuotientLemma ==
  ASSUME NEW d \in Nat \ {0}
  PROVE  /\ \A m \in Int : Quotient(m, d) \in Int
         /\ \A m \in Int : m < 0 => Quotient(m, d) <= 0
         /\ \A n \in Nat : Quotient(n * d, d) = n
<1>1. ASSUME NEW m \in Int PROVE Quotient(m, d) \in Int /\ (m < 0 => Quotient(m, d) <= 0)
  BY DEF Quotient
<1>2. ASSUME NEW n \in Nat PROVE Quotient(n * d, d) = n
  <2>1. n * d \in Nat /\ (n * d) \div d = n
    OBVIOUS
  <2> QED
    BY <2>1 DEF Quotient
<1> QED
  BY <1>1, <1>2

\* Codes and samples are integers, whatever the depth.
LEMMA CodeLemma ==
  ASSUME NEW bits \in Nat, NEW s \in Int
  PROVE  /\ clamp(s) \in Int /\ Encode(bits, s) \in Int /\ Decode(bits, s) \in Int
         /\ AiffDecode(bits, s) \in Int
         /\ \A wraps \in BOOLEAN : AiffCode(bits, s, wraps) \in Int
<1>1. clamp(s) \in Int
  BY DEF clamp, Unit
<1>2. \A d \in {256, Unit} : \A m \in Int : Quotient(m, d) \in Int
  BY QuotientLemma DEF Unit
<1>3. Encode(bits, s) \in Int
  <2>1. CASE bits = 8
    BY <1>1, <2>1 DEF Encode, Unit
  <2>2. CASE bits = 16
    BY <1>1, <1>2, <2>2 DEF Encode
  <2>3. CASE bits = 24
    BY <2>3 DEF Encode
  <2>4. CASE bits \notin {8, 16, 24}
    BY <2>4 DEF Encode
  <2> QED
    BY <2>1, <2>2, <2>3, <2>4
<1>4. Decode(bits, s) \in Int
  BY <1>2 DEF Decode
<1>5. AiffDecode(bits, s) \in Int
  BY <1>4 DEF AiffDecode
<1>6. \A wraps \in BOOLEAN : AiffCode(bits, s, wraps) \in Int
  <2>1. -Unit \in Int
    BY DEF Unit
  <2> QED
    BY <1>1, <1>3, <2>1, Zenon DEF AiffCode
<1> QED
  BY <1>1, <1>3, <1>4, <1>5, <1>6

-----------------------------------------------------------------------------
(***************************************************************************)
(* The audio buffer.                                                       *)
(***************************************************************************)
LEMMA ResizedLemma ==
  ASSUME NEW S, NEW seq \in Seq(S), NEW n \in Nat, NEW fill \in S
  PROVE  /\ Resized(seq, n, fill) \in Seq(S) /\ Len(Resized(seq, n, fill)) = n
         /\ \A i \in 1 .. n :
              Resized(seq, n, fill)[i] = IF i <= Len(seq) THEN seq[i] ELSE fill
<1>1. \A i \in 1 .. n : i <= Len(seq) => seq[i] \in S
  BY LenProperties, ElementOfSeq
<1> DEFINE r == [i \in 1 .. n |-> IF i <= Len(seq) THEN seq[i] ELSE fill]
<1>2. \A i \in 1 .. n : r[i] \in S
  BY <1>1
<1>3. r \in Seq(S) /\ Len(r) = n
  BY <1>2, IsASeq
<1> QED
  BY <1>3 DEF Resized

LEMMA SamplesLemma ==
  ASSUME NEW a \in AudioFile
  PROVE  /\ a.samples \in Seq(Seq(Int)) /\ a.bitDepth \in Nat /\ a.sampleRate \in Nat
         /\ a.iXMLChunk \in Nat
         /\ getNumChannels(a) \in Nat /\ DOMAIN a.samples = 1 .. getNumChannels(a)
         /\ getNumSamplesPerChannel(a) \in Nat
         /\ \A c \in DOMAIN a.samples :
              /\ a.samples[c] \in Seq(Int) /\ Len(a.samples[c]) \in Nat
              /\ DOMAIN a.samples[c] = 1 .. Len(a.samples[c])
         /\ DOMAIN a.samples # {} => getNumSamplesPerChannel(a) = Len(a.samples[1])
<1>1. /\ a.samples \in Seq(Seq(Int)) /\ a.bitDepth \in Nat /\ a.sampleRate \in Nat
      /\ a.iXMLChunk \in Nat
  BY DEF AudioFile, Buffer
<1>2. getNumChannels(a) \in Nat /\ DOMAIN a.samples = 1 .. getNumChannels(a)
  BY <1>1, LenProperties DEF getNumChannels
<1>3. \A c \in DOMAIN a.samples :
        /\ a.samples[c] \in Seq(Int) /\ Len(a.samples[c]) \in Nat
        /\ DOMAIN a.samples[c] = 1 .. Len(a.samples[c])
  <2> TAKE c \in DOMAIN a.samples
  <2>1. a.samples[c] \in Seq(Int)
    BY <1>1, LenProperties, ElementOfSeq
  <2> QED
    BY <2>1, LenProperties
<1>4. a.samples = << >> <=> DOMAIN a.samples = {}
  <2>1. Len(a.samples) = 0 <=> a.samples = << >>
    BY <1>1, EmptySeq
  <2> QED
    BY <1>2, <2>1 DEF getNumChannels
<1>5. a.samples # << >> => 1 \in DOMAIN a.samples
  BY <1>2, <1>4
<1> QED
  BY <1>1, <1>2, <1>3, <1>4, <1>5 DEF getNumSamplesPerChannel

\* An object is sound when its channels are known to have one length.
LEMMA SoundLemma ==
  ASSUME NEW a \in AudioFile, NEW n \in Nat, \A c \in DOMAIN a.samples : Len(a.samples[c]) = n
  PROVE  Sound(a) /\ (DOMAIN a.samples # {} => getNumSamplesPerChannel(a) = n)
<1>1. DOMAIN a.samples # {} => 1 \in DOMAIN a.samples
  BY SamplesLemma
<1> QED
  BY <1>1, SamplesLemma DEF Sound, SameLengths

\* The samples of a sound object, replaced.
LEMMA ReplacedLemma ==
  ASSUME NEW a \in AudioFile, NEW n \in Nat, NEW s \in Seq(Seq(Int)),
         \A c \in DOMAIN s : Len(s[c]) = n
  PROVE  Sound([a EXCEPT !.samples = s])
<1> DEFINE b == [a EXCEPT !.samples = s]
<1>1. b \in AudioFile /\ b.samples = s
  BY DEF AudioFile, Buffer
<1> HIDE DEF b
<1>2. Sound(b)
  BY <1>1, SoundLemma
<1> QED
  BY <1>2 DEF b

LEMMA NewLemma == Sound(NewAudioFile)
<1>1. /\ << >> \in Seq(Int) /\ << << >> >> \in Seq(Seq(Int))
      /\ \A c \in DOMAIN << << >> >> : Len(<< << >> >>[c]) = 0
  OBVIOUS
<1>2. NewAudioFile \in AudioFile /\ NewAudioFile.samples = << << >> >>
  BY <1>1 DEF NewAudioFile, AudioFile, Buffer
<1> QED
  BY <1>1, <1>2, SoundLemma

LEMMA SetBufferLemma ==
  ASSUME NEW a \in AudioFile, NEW b \in Seq(Seq(Int)), \A c \in DOMAIN b : Len(b[c]) = Len(b[1]),
         b # << >>
  PROVE  Sound(setAudioBuffer(a, b))
<1>1. Len(b) \in Nat \ {0} /\ DOMAIN b = 1 .. Len(b)
  BY EmptySeq, LenProperties
<1>2. b[1] \in Seq(Int)
  BY <1>1, ElementOfSeq
<1>3. Len(b[1]) \in Nat
  BY <1>2, LenProperties
<1> QED
  BY <1>3, ReplacedLemma DEF setAudioBuffer

LEMMA SetNumSamplesLemma ==
  ASSUME NEW a \in AudioFile, NEW n \in Nat
  PROVE  Sound(setNumSamplesPerChannel(a, n))
<1> DEFINE s == [c \in DOMAIN a.samples |-> Resized(a.samples[c], n, 0)]
<1>1. /\ getNumChannels(a) \in Nat /\ DOMAIN a.samples = 1 .. getNumChannels(a)
      /\ \A c \in DOMAIN a.samples : a.samples[c] \in Seq(Int)
  BY SamplesLemma
<1>2. \A c \in DOMAIN a.samples :
        Resized(a.samples[c], n, 0) \in Seq(Int) /\ Len(Resized(a.samples[c], n, 0)) = n
  <2> TAKE c \in DOMAIN a.samples
  <2>1. a.samples[c] \in Seq(Int) /\ 0 \in Int
    BY <1>1
  <2> QED
    BY ONLY <2>1, ResizedLemma, n \in Nat
<1>3. s \in Seq(Seq(Int)) /\ \A c \in DOMAIN s : Len(s[c]) = n
  BY <1>1, <1>2
<1> QED
  BY <1>3, ReplacedLemma DEF setNumSamplesPerChannel

LEMMA SetSizeLemma ==
  ASSUME NEW a \in AudioFile, NEW ch \in Nat, NEW n \in Nat
  PROVE  Sound(setAudioBufferSize(a, ch, n))
<1> DEFINE b == [a EXCEPT !.samples = Resized(@, ch, << >>)]
<1>1. Resized(a.samples, ch, << >>) \in Seq(Seq(Int))
  BY SamplesLemma, EmptySeq, ResizedLemma
<1>2. b \in AudioFile
  BY <1>1 DEF AudioFile, Buffer
<1> HIDE DEF b
<1>3. Sound(setNumSamplesPerChannel(b, n))
  BY <1>2, SetNumSamplesLemma
<1> QED
  BY <1>3 DEF setAudioBufferSize, b

LEMMA SetNumChannelsLemma ==
  ASSUME NEW a, Sound(a), NEW ch \in Nat
  PROVE  Sound(setNumChannels(a, ch))
<1> DEFINE n == getNumSamplesPerChannel(a)
           silence == [i \in 1 .. n |-> 0]
           s == Resized(a.samples, ch, silence)
<1>1. /\ a \in AudioFile /\ a.samples \in Seq(Seq(Int)) /\ n \in Nat
      /\ DOMAIN a.samples = 1 .. Len(a.samples)
      /\ \A c \in DOMAIN a.samples : Len(a.samples[c]) = n
  BY SamplesLemma DEF Sound, SameLengths, getNumChannels
<1> HIDE DEF n
<1>2. silence \in Seq(Int) /\ Len(silence) = n
  BY <1>1
<1> HIDE DEF silence
<1>3. /\ s \in Seq(Seq(Int)) /\ Len(s) = ch
      /\ \A i \in 1 .. ch : s[i] = IF i <= Len(a.samples) THEN a.samples[i] ELSE silence
  <2> DEFINE S == Seq(Int)
  <2>1. a.samples \in Seq(S) /\ silence \in S
    BY <1>1, <1>2
  <2> HIDE DEF S
  <2>2. s \in Seq(S) /\ Len(s) = ch
    <3>1. ASSUME NEW q \in Seq(S), NEW f \in S
          PROVE  Resized(q, ch, f) \in Seq(S) /\ Len(Resized(q, ch, f)) = ch
      BY ResizedLemma
    <3> QED
      BY <2>1, <3>1
  <2>3. \A i \in 1 .. ch : s[i] = IF i <= Len(a.samples) THEN a.samples[i] ELSE silence
    BY DEF Resized
  <2> QED
    BY <2>2, <2>3 DEF S
<1>4. DOMAIN s = 1 .. ch
  BY <1>3, LenProperties
<1> HIDE DEF s
<1>5. \A c \in DOMAIN s : Len(s[c]) = n
  <2> TAKE c \in DOMAIN s
  <2>1. CASE c <= Len(a.samples)
    <3>1. c \in DOMAIN a.samples
      BY <1>1, <1>4, <2>1
    <3>2. s[c] = a.samples[c]
      BY <1>3, <1>4, <2>1
    <3> QED
      BY <1>1, <3>1, <3>2
  <2>2. CASE ~(c <= Len(a.samples))
    BY <1>2, <1>3, <1>4, <2>2
  <2> QED
    BY <2>1, <2>2
<1>6. Sound([a EXCEPT !.samples = s])
  BY <1>1, <1>3, <1>5, ReplacedLemma
<1> QED
  BY <1>6 DEF setNumChannels, s, silence, n

LEMMA SetFieldLemma ==
  ASSUME NEW a, Sound(a), NEW bits \in Nat, NEW rate \in Nat, NEW size \in Nat
  PROVE  /\ Sound(setBitDepth(a, bits)) /\ Sound(setSampleRate(a, rate))
         /\ Sound([a EXCEPT !.iXMLChunk = size])
         /\ Sound([a EXCEPT !.sampleRate = rate, !.bitDepth = bits])
<1>1. ASSUME NEW b \in AudioFile, b.samples = a.samples PROVE Sound(b)
  BY <1>1 DEF Sound, SameLengths, getNumSamplesPerChannel
<1>2. /\ setBitDepth(a, bits) \in AudioFile /\ setBitDepth(a, bits).samples = a.samples
      /\ setSampleRate(a, rate) \in AudioFile /\ setSampleRate(a, rate).samples = a.samples
  BY DEF Sound, AudioFile, setBitDepth, setSampleRate
<1> DEFINE x == [a EXCEPT !.iXMLChunk = size]
           h == [a EXCEPT !.sampleRate = rate, !.bitDepth = bits]
<1>3. x \in AudioFile /\ x.samples = a.samples /\ h \in AudioFile /\ h.samples = a.samples
  BY DEF Sound, AudioFile
<1> QED
  BY <1>1, <1>2, <1>3

-----------------------------------------------------------------------------
(***************************************************************************)
(* Saving.                                                                 *)
(***************************************************************************)

\* The samples of a sound object in the order of a file.
LEMMA InterleavedLemma ==
  ASSUME NEW a, Sound(a), NEW k \in 1 .. getNumSamplesPerChannel(a) * getNumChannels(a)
  PROVE  a.samples[((k - 1) % getNumChannels(a)) + 1][((k - 1) \div getNumChannels(a)) + 1] \in Int
<1> DEFINE n  == getNumSamplesPerChannel(a)
           ch == getNumChannels(a)
           c  == ((k - 1) % ch) + 1
           i  == ((k - 1) \div ch) + 1
<1>1. /\ n \in Nat /\ ch \in Nat /\ DOMAIN a.samples = 1 .. ch
      /\ \A d \in DOMAIN a.samples : a.samples[d] \in Seq(Int) /\ Len(a.samples[d]) = n
  BY SamplesLemma DEF Sound, SameLengths
<1> HIDE DEF n, ch
<1>2. k \in 1 .. n * ch
  BY DEF n, ch
<1>3. c \in 1 .. ch /\ i \in 1 .. n
  BY <1>1, <1>2, PlaceLemma
<1> HIDE DEF c, i
<1>4. a.samples[c] \in Seq(Int) /\ i \in 1 .. Len(a.samples[c])
  BY <1>1, <1>3
<1>5. a.samples[c][i] \in Int
  BY <1>4, ElementOfSeq
<1> QED
  BY <1>5 DEF c, i, ch

\* A supported depth is whole bytes, so a frame is as many bytes for each channel.
LEMMA FrameLemma ==
  ASSUME NEW ch \in Nat, NEW bits \in Supported
  PROVE  (ch * bits) \div 8 = ch * (bits \div 8) /\ bits \div 8 \in 1 .. 4
<1>1. CASE bits = 8
  BY <1>1
<1>2. CASE bits = 16
  BY <1>2
<1>3. CASE bits = 24
  BY <1>3
<1>4. CASE bits = 32
  BY <1>4
<1> QED
  BY <1>1, <1>2, <1>3, <1>4 DEF Supported

\* What saveToWaveFile makes of a sound object, also when a size does not fit an int.
LEMMA WaveOfLemma ==
  ASSUME NEW a, Sound(a), SizeBound(a)
  PROVE  WaveOf(a) \in WaveFile /\ Complete(WaveOf(a))
<1> DEFINE n  == getNumSamplesPerChannel(a)
           ch == getNumChannels(a)
           bits == a.bitDepth
           f == WaveOf(a)
<1>1. /\ n \in Nat /\ ch \in Nat /\ bits \in Nat /\ a.sampleRate \in Nat /\ a.iXMLChunk \in Nat
  BY SamplesLemma DEF Sound
<1>2. Half \in Nat \ {0}
  BY NumbersAssumption
<1>3. /\ f.audioFormat = (IF bits = 32 THEN "IEEEFloat" ELSE "PCM")
      /\ f.numChannels = ch /\ f.sampleRate = a.sampleRate
      /\ f.numBytesPerSecond = Uint32(ch * a.sampleRate * bits) \div 8
      /\ f.numBytesPerBlock = Int16(ch * (bits \div 8))
      /\ f.bitDepth = bits
      /\ f.dataChunkSize = Int32(n * ((ch * bits) \div 8))
      /\ f.data = Codes(a) /\ f.iXMLChunk = a.iXMLChunk
      /\ f = [audioFormat |-> f.audioFormat, numChannels |-> f.numChannels,
              sampleRate |-> f.sampleRate, numBytesPerSecond |-> f.numBytesPerSecond,
              numBytesPerBlock |-> f.numBytesPerBlock, bitDepth |-> f.bitDepth,
              dataChunkSize |-> f.dataChunkSize, data |-> f.data, iXMLChunk |-> f.iXMLChunk]
  BY DEF WaveOf, Header
<1> HIDE DEF f
<1>4. Codes(a) \in Seq(Int) /\ Len(Codes(a)) = n * ch
  <2>1. \A k \in 1 .. n * ch :
          Encode(bits, a.samples[((k - 1) % ch) + 1][((k - 1) \div ch) + 1]) \in Int
    BY <1>1, InterleavedLemma, CodeLemma
  <2>2. n * ch \in Nat
    BY <1>1
  <2> HIDE DEF n, ch, bits
  <2>3. /\ [k \in 1 .. n * ch |->
              Encode(bits, a.samples[((k - 1) % ch) + 1][((k - 1) \div ch) + 1])] \in Seq(Int)
        /\ Len([k \in 1 .. n * ch |->
              Encode(bits, a.samples[((k - 1) % ch) + 1][((k - 1) \div ch) + 1])]) = n * ch
    BY <2>1, <2>2
  <2> QED
    BY <2>3 DEF Codes, n, ch, bits
<1> HIDE DEF n, ch, bits
<1> DEFINE x == n * ((ch * bits) \div 8)
<1>5. x \in Nat
  BY <1>1
<1>6. f \in WaveFile
  <2>1. Int32(x) \in -Half .. Half - 1
    BY <1>2, <1>5 DEF Int32
  <2>2. Uint32(ch * a.sampleRate * bits) \div 8 \in Nat
    <3>1. ch * a.sampleRate * bits \in Nat
      BY <1>1
    <3> HIDE DEF x
    <3>2. Uint32(ch * a.sampleRate * bits) \in Nat
      BY <1>2, <3>1 DEF Uint32
    <3> QED
      BY <3>2
  <2>3. Int16(ch * (bits \div 8)) \in Int
    BY <1>1 DEF Int16
  <2> QED
    BY <1>1, <1>3, <1>4, <2>1, <2>2, <2>3 DEF WaveFile
<1>7. Complete(f)
  <2> SUFFICES ASSUME bits \in Supported, ch \in 1 .. 128
               PROVE  Frames(f) * ch <= n * ch
    BY <1>3, <1>4 DEF Complete, Accepts
  <2> DEFINE B == (ch * bits) \div 8
  <2>1. B = ch * (bits \div 8) /\ bits \div 8 \in 1 .. 4
    BY FrameLemma
  <2>2. B \in Nat \ {0}
    BY <1>1, <2>1
  <2>3. n * B = AudioBytes(a)
    <3>1. AudioBytes(a) = n * ch * (bits \div 8)
      BY DEF AudioBytes, n, ch, bits
    <3> QED
      BY <1>1, <2>1, <3>1
  <2>4. n * B < 2 * Half
    BY <1>1, <1>2, <2>2, <2>3 DEF SizeBound
  <2>5. Frames(f) = Quotient(Int32(n * B), B)
    BY <1>3 DEF Frames
  <2> HIDE DEF B
  <2>6. n * B \in Nat
    BY <1>1, <2>2
  <2>7. Int32(n * B) \in Int /\ (Int32(n * B) = n * B \/ Int32(n * B) < 0)
    BY <1>2, <2>4, <2>6, Int32Lemma
  <2>8. Frames(f) = n \/ (Frames(f) \in Int /\ Frames(f) <= 0)
    BY <1>1, <2>2, <2>5, <2>7, QuotientLemma
  <2>9. n * ch \in Nat /\ \A q \in Int : q <= 0 => q * ch <= 0
    BY <1>1
  <2> QED
    BY <2>8, <2>9
<1> QED
  BY <1>6, <1>7 DEF f

\* The sizes of an object: its samples', in a file of so many samples.
LEMMA BytesLemma ==
  ASSUME NEW a, Sound(a)
  PROVE  /\ getNumSamplesPerChannel(a) * getNumChannels(a) \in Nat
         /\ a.bitDepth \div 8 \in Nat
         /\ AudioBytes(a) = (getNumSamplesPerChannel(a) * getNumChannels(a)) * (a.bitDepth \div 8)
         /\ AudioBytes(a) \in Nat
         /\ ChunkBytes(a.iXMLChunk) \in Nat
<1>1. /\ getNumSamplesPerChannel(a) \in Nat /\ getNumChannels(a) \in Nat /\ a.bitDepth \in Nat
      /\ a.iXMLChunk \in Nat
  BY SamplesLemma DEF Sound
<1>2. getNumSamplesPerChannel(a) * getNumChannels(a) \in Nat /\ a.bitDepth \div 8 \in Nat
  BY <1>1
<1>3. \A m, k \in Nat : m * k \in Nat
  OBVIOUS
<1>4. AudioBytes(a) = (getNumSamplesPerChannel(a) * getNumChannels(a)) * (a.bitDepth \div 8)
  BY DEF AudioBytes
<1>5. ChunkBytes(a.iXMLChunk) \in Nat
  BY <1>1 DEF ChunkBytes
<1> QED
  BY <1>2, <1>3, <1>4, <1>5

\* saveToAiffFile gives up on an object whose rate is not in the table.
LEMMA RateLemma ==
  ASSUME NEW a, Sound(a), EncodesAiff(a)
  PROVE  a.sampleRate \in TableRate
<1> SUFFICES ASSUME a.sampleRate \notin TableRate PROVE FALSE
  OBVIOUS
<1> DEFINE b == AudioBytes(a)
           xml == ChunkBytes(a.iXMLChunk)
           x == 36 + b + xml
<1>1. b \in Nat /\ xml \in Nat
  BY BytesLemma
<1>2. Int32(4 + 26 + 16 + b + xml) = Int32(4 + 16 + 0 + 16 + b + xml)
  BY DEF EncodesAiff
<1> HIDE DEF b, xml
<1>3. 4 + 26 + 16 + b + xml = x + 10 /\ 4 + 16 + 0 + 16 + b + xml = x /\ x \in Nat
  BY <1>1
<1> QED
  BY <1>2, <1>3, TenBytesLemma

\* What saveToAiffFile makes of a sound object that it encodes.
LEMMA AiffOfLemma ==
  ASSUME NEW a, Sound(a), SizeBound(a), EncodesAiff(a), NEW f \in AiffOf(a)
  PROVE  f \in AiffRecord /\ Written(f)
<1> DEFINE n  == getNumSamplesPerChannel(a)
           ch == getNumChannels(a)
           bits == a.bitDepth
           sample(k) == a.samples[((k - 1) % ch) + 1][((k - 1) \div ch) + 1]
           rate == IF a.sampleRate \in TableRate THEN a.sampleRate ELSE 0
           size == Int32(AudioBytes(a) + 8)
<1>1. /\ n \in Nat /\ ch \in Nat /\ bits \in Nat /\ a.sampleRate \in Nat /\ a.iXMLChunk \in Nat
  BY SamplesLemma DEF Sound
<1>2. PICK wraps \in BOOLEAN :
        f = [numChannels |-> ch, numSamplesPerChannel |-> n, bitDepth |-> bits,
             sampleRate |-> rate, soundDataChunkSize |-> size,
             data |-> [k \in 1 .. n * ch |-> AiffCode(bits, sample(k), wraps)],
             iXMLChunk |-> a.iXMLChunk]
  BY DEF AiffOf
<1>3. \A k \in 1 .. n * ch : AiffCode(bits, sample(k), wraps) \in Int
  <2> SUFFICES ASSUME NEW k \in 1 .. n * ch PROVE AiffCode(bits, sample(k), wraps) \in Int
    OBVIOUS
  <2>1. sample(k) \in Int
    BY InterleavedLemma
  <2> HIDE DEF sample
  <2> QED
    BY <1>1, <2>1, CodeLemma
<1>4. a.sampleRate \in TableRate /\ (n * ch = 0 \/ bits \in Supported)
  BY RateLemma DEF EncodesAiff
<1>5. rate \in Nat \ {0}
  BY <1>4, TableAssumption
<1>6. /\ AudioBytes(a) = (n * ch) * (bits \div 8) /\ AudioBytes(a) \in Nat /\ n * ch \in Nat
      /\ AudioBytes(a) + 54 < 2 * Half /\ Half \in Nat
  BY BytesLemma, NumbersAssumption DEF SizeBound
<1>7. size \in -Half .. Half - 1
  <2> HIDE DEF size, n, ch, bits, sample, rate
  <2>1. AudioBytes(a) + 8 \in Nat /\ AudioBytes(a) + 8 < 2 * Half
    BY <1>6
  <2> QED
    BY <2>1, Int32Lemma DEF size
<1> HIDE DEF n, ch, bits, sample, rate, size
<1>8. f.data \in Seq(Int) /\ Len(f.data) = n * ch
  BY <1>2, <1>3, <1>6
<1>9. /\ f.numChannels = ch /\ f.numSamplesPerChannel = n /\ f.bitDepth = bits
      /\ f.sampleRate = rate /\ f.iXMLChunk = a.iXMLChunk /\ f.soundDataChunkSize = size
      /\ f = [numChannels |-> ch, numSamplesPerChannel |-> n, bitDepth |-> bits,
              sampleRate |-> rate, soundDataChunkSize |-> size, data |-> f.data,
              iXMLChunk |-> a.iXMLChunk]
  BY <1>2
<1>10. f \in AiffRecord
  BY <1>1, <1>5, <1>7, <1>8, <1>9 DEF AiffRecord
<1>11. f.soundDataChunkSize = Int32(Len(f.data) * (f.bitDepth \div 8) + 8)
  BY <1>6, <1>8, <1>9 DEF size
<1>12. Len(f.data) * (f.bitDepth \div 8) + 54 < 2 * Half
  BY <1>6, <1>8, <1>9
<1> QED
  BY <1>4, <1>5, <1>8, <1>9, <1>10, <1>11, <1>12 DEF Written

-----------------------------------------------------------------------------
(***************************************************************************)
(* Loading.                                                                *)
(***************************************************************************)

\* n frames of ch channels out of a file that has as many samples.
LEMMA DeinterleavedLemma ==
  ASSUME NEW data \in Seq(Int), NEW n \in Nat, NEW ch \in Nat, n * ch <= Len(data),
         NEW i \in 1 .. n, NEW c \in 1 .. ch
  PROVE  data[((i - 1) * ch) + c] \in Int
<1>1. ((i - 1) * ch) + c \in 1 .. n * ch /\ n * ch \in Nat
  BY OffsetLemma
<1>2. ((i - 1) * ch) + c \in 1 .. Len(data)
  BY <1>1, LenProperties
<1> QED
  BY <1>2, ElementOfSeq

\* Whatever is read where a place is beyond an int, it is a code.
LEMMA ReadCodeLemma ==
  ASSUME NEW f, f.data \in Seq(Int), NEW start, NEW stray \in [DOMAIN f.data -> Stray],
         NEW n \in Nat, NEW ch \in Nat, n * ch <= Len(f.data), NEW i \in 1 .. n, NEW c \in 1 .. ch
  PROVE  ReadCode(f, start, ((i - 1) * ch) + c, stray) \in Int
<1> DEFINE k == ((i - 1) * ch) + c
<1>1. f.data[k] \in Int
  BY DeinterleavedLemma
<1>2. k \in DOMAIN f.data
  <2>1. k \in 1 .. n * ch /\ n * ch \in Nat
    BY OffsetLemma
  <2>2. Len(f.data) \in Nat /\ DOMAIN f.data = 1 .. Len(f.data)
    BY LenProperties
  <2> HIDE DEF k
  <2> QED
    BY <2>1, <2>2
<1> HIDE DEF k
<1>3. stray[k] \in Int
  BY <1>2, NumbersAssumption
<1>4. ReadCode(f, start, k, stray) \in Int
  BY <1>1, <1>3 DEF ReadCode
<1> QED
  BY <1>4 DEF k

LEMMA ReadChunkLemma ==
  ASSUME NEW a, a.iXMLChunk \in Nat, NEW f, f.iXMLChunk \in Nat, NEW index,
         NEW chunk \in ReadChunk(a, f, index)
  PROVE  chunk \in Nat
BY NumbersAssumption DEF ReadChunk

LEMMA DecodeWaveLemma ==
  ASSUME NEW a, Sound(a), NEW f \in WaveFile, Accepts(f), Complete(f),
         NEW b \in decodeWaveFile(a, f)
  PROVE  Sound(b)
<1> DEFINE ch == f.numChannels
           bits == f.bitDepth
           q == Quotient(f.dataChunkSize, (ch * bits) \div 8)
           code(c, i, stray) == ReadCode(f, DataStart(f), ((i - 1) * ch) + c, stray)
           buffer(stray) == [c \in 1 .. ch |-> [i \in 1 .. q |->
                               Decode(bits, code(c, i, stray))]]
           n == IF q > 0 THEN q ELSE 0
           h == HalfLoaded(a, f)
<1>0. PICK stray \in [DOMAIN f.data -> Stray],
           xml \in ReadChunk(a, f, DataStart(f) + f.dataChunkSize) :
        b = Loaded(a, f, WaveSamples(f, stray), xml)
  BY DEF decodeWaveFile
<1> DEFINE s == buffer(stray)
<1>12. b = [[h EXCEPT !.samples = s] EXCEPT !.iXMLChunk = xml]
  <2>1. WaveSamples(f, stray) = s
    BY DEF WaveSamples
  <2> HIDE DEF s
  <2> QED
    BY <1>0, <2>1 DEF Loaded
<1>1. /\ ch \in 1 .. 128 /\ bits \in Supported /\ bits \in Nat /\ f.data \in Seq(Int)
      /\ f.dataChunkSize \in Int /\ f.sampleRate \in Nat /\ f.iXMLChunk \in Nat
      /\ a \in AudioFile /\ a.iXMLChunk \in Nat
  BY NumbersAssumption, SamplesLemma DEF WaveFile, Accepts, Sound
<1> HIDE DEF ch, bits, code, h
<1>2. (ch * bits) \div 8 \in Nat \ {0}
  <2> HIDE DEF q, s, n, buffer
  <2>1. (ch * bits) \div 8 = ch * (bits \div 8) /\ bits \div 8 \in 1 .. 4
    <3>1. ch \in Nat /\ bits \in Supported
      BY <1>1
    <3> QED
      BY <3>1, FrameLemma
  <2> QED
    BY <1>1, <2>1
<1>3. q \in Int
  BY <1>1, <1>2, QuotientLemma
<1>4. q * ch <= Len(f.data) /\ Len(f.data) \in Nat
  BY <1>1, LenProperties DEF Complete, Frames, ch, bits
<1> HIDE DEF q
<1>5. n \in Nat /\ 1 .. n = 1 .. q /\ n * ch <= Len(f.data)
  BY <1>1, <1>3, <1>4
<1>6. \A c \in 1 .. ch : s[c] \in Seq(Int) /\ Len(s[c]) = n
  <2> SUFFICES ASSUME NEW c \in 1 .. ch PROVE s[c] \in Seq(Int) /\ Len(s[c]) = n
    OBVIOUS
  <2>1. \A i \in 1 .. n : Decode(bits, code(c, i, stray)) \in Int
    <3> HIDE DEF n
    <3>1. \A i \in 1 .. n : code(c, i, stray) \in Int
      <4> TAKE i \in 1 .. n
      <4>1. ch \in Nat
        BY <1>1
      <4> QED
        BY <1>1, <1>5, <4>1, ReadCodeLemma DEF code
    <3> QED
      BY <1>1, <3>1, CodeLemma
  <2>2. s[c] = [i \in 1 .. n |-> Decode(bits, code(c, i, stray))]
    BY <1>5
  <2> HIDE DEF n, s, buffer
  <2> QED
    BY <1>5, <2>1, <2>2
<1>7. s \in Seq(Seq(Int)) /\ DOMAIN s = 1 .. ch
  <2> HIDE DEF n
  <2>1. DOMAIN s = 1 .. ch /\ s \in [1 .. ch -> Seq(Int)]
    BY <1>6
  <2> HIDE DEF s
  <2>2. ch \in Nat
    BY <1>1
  <2> QED
    BY <2>1, <2>2
<1> HIDE DEF s, n
<1>8. Sound(h)
  BY <1>1, SetFieldLemma DEF HalfLoaded, bits, h
<1>9. Sound([h EXCEPT !.samples = s]) /\ h \in AudioFile /\ h.iXMLChunk = a.iXMLChunk
  <2>1. h \in AudioFile
    BY <1>8 DEF Sound
  <2>2. h.iXMLChunk = a.iXMLChunk
    BY <1>1 DEF HalfLoaded, AudioFile, h
  <2> QED
    BY <1>5, <1>6, <1>7, <2>1, <2>2, ReplacedLemma
<1>10. xml \in Nat
  BY <1>1, ReadChunkLemma
<1>11. Sound([[h EXCEPT !.samples = s] EXCEPT !.iXMLChunk = xml])
  <2> DEFINE g == [h EXCEPT !.samples = s]
  <2>1. Sound(g)
    BY <1>9
  <2> HIDE DEF g
  <2>2. Sound([g EXCEPT !.iXMLChunk = xml])
    BY <1>10, <2>1, SetFieldLemma
  <2> QED
    BY <2>2 DEF g
<1> QED
  BY <1>11, <1>12

LEMMA DecodeAiffLemma ==
  ASSUME NEW a, Sound(a), NEW f \in AiffRecord, AcceptsAiff(f), Written(f),
         NEW b \in decodeAiffFile(a, f)
  PROVE  Sound(b)
<1> DEFINE n == f.numSamplesPerChannel
           ch == f.numChannels
           bits == f.bitDepth
           code(c, i, stray) == ReadCode(f, AiffStart, ((i - 1) * ch) + c, stray)
           buffer(stray) == [c \in 1 .. ch |-> [i \in 1 .. n |->
                               AiffDecode(bits, code(c, i, stray))]]
           h == HalfLoaded(a, f)
<1>0. PICK stray \in [DOMAIN f.data -> Stray],
           xml \in ReadChunk(a, f, AiffStart - 8 + f.soundDataChunkSize) :
        b = Loaded(a, f, AiffSamples(f, stray), xml)
  BY DEF decodeAiffFile
<1> DEFINE s == buffer(stray)
<1>3. b = [[h EXCEPT !.samples = s] EXCEPT !.iXMLChunk = xml]
  <2>1. AiffSamples(f, stray) = s
    BY DEF AiffSamples
  <2> HIDE DEF s
  <2> QED
    BY <1>0, <2>1 DEF Loaded
<1>1. /\ ch \in 1 .. 2 /\ ch \in Nat /\ n \in Nat /\ bits \in Nat /\ f.data \in Seq(Int)
      /\ f.sampleRate \in Nat /\ f.iXMLChunk \in Nat /\ a.iXMLChunk \in Nat
      /\ n * ch <= Len(f.data)
  <2>1. f.data \in Seq(Int) /\ Len(f.data) \in Nat
    BY LenProperties DEF AiffRecord
  <2> QED
    BY <2>1, SamplesLemma DEF AiffRecord, AcceptsAiff, Written, Sound
<1>2. Sound(h) /\ h \in AudioFile /\ h.iXMLChunk = a.iXMLChunk
  <2>1. Sound(h)
    BY <1>1, SetFieldLemma DEF HalfLoaded
  <2> QED
    BY <2>1 DEF Sound, HalfLoaded, AudioFile
<1>4. xml \in Nat
  BY <1>1, ReadChunkLemma
<1> HIDE DEF n, ch, bits, h, code
<1>5. \A c \in 1 .. ch : s[c] \in Seq(Int) /\ Len(s[c]) = n
  <2> SUFFICES ASSUME NEW c \in 1 .. ch PROVE s[c] \in Seq(Int) /\ Len(s[c]) = n
    OBVIOUS
  <2>1. \A i \in 1 .. n : AiffDecode(bits, code(c, i, stray)) \in Int
    <3> TAKE i \in 1 .. n
    <3>1. code(c, i, stray) \in Int
      BY <1>1, ReadCodeLemma DEF code
    <3> QED
      BY <1>1, <3>1, CodeLemma
  <2>2. s[c] = [i \in 1 .. n |-> AiffDecode(bits, code(c, i, stray))]
    OBVIOUS
  <2> HIDE DEF s, buffer
  <2>3. n \in Nat
    BY <1>1
  <2> QED
    BY <2>1, <2>2, <2>3
<1>6. s \in Seq(Seq(Int)) /\ DOMAIN s = 1 .. ch
  <2>1. DOMAIN s = 1 .. ch /\ s \in [1 .. ch -> Seq(Int)]
    BY <1>5
  <2> HIDE DEF s, buffer
  <2> QED
    BY <1>1, <2>1
<1> HIDE DEF s, buffer
<1> DEFINE g == [h EXCEPT !.samples = s]
<1>7. Sound(g)
  BY <1>1, <1>2, <1>5, <1>6, ReplacedLemma
<1> HIDE DEF g
<1>8. Sound([g EXCEPT !.iXMLChunk = xml])
  BY <1>4, <1>7, SetFieldLemma
<1> QED
  BY <1>3, <1>8 DEF g

-----------------------------------------------------------------------------
(***************************************************************************)
(* ExportWAV.                                                              *)
(***************************************************************************)
LEMMA SameSizeLemma ==
  ASSUME NEW S, NEW seq \in Seq(S), NEW fill
  PROVE  Resized(seq, Len(seq), fill) = seq
<1>1. Len(seq) \in Nat /\ seq = [i \in 1 .. Len(seq) |-> seq[i]]
  BY LenProperties
<1> QED
  BY <1>1 DEF Resized

\* Resizing and setting channels changes nothing of the one channel that is there.
LEMMA ExportFileLemma ==
  ASSUME NEW data \in Seq(Int), NEW rate \in Nat
  PROVE  ExportFile(data, rate) = [samples |-> <<data>>, bitDepth |-> 32,
                                   sampleRate |-> rate, iXMLChunk |-> 0]
<1> DEFINE a == [samples |-> <<data>>, bitDepth |-> 16, sampleRate |-> 44100, iXMLChunk |-> 0]
<1>1. /\ <<data>> \in Seq(Seq(Int)) /\ Len(<<data>>) = 1 /\ DOMAIN <<data>> = {1}
      /\ <<data>>[1] = data
  OBVIOUS
<1>2. \A fill : Resized(<<data>>, 1, fill) = <<data>>
  BY <1>1, SameSizeLemma
<1>3. Resized(data, Len(data), 0) = data
  BY SameSizeLemma
<1>4. setAudioBuffer(NewAudioFile, <<data>>) = a
  BY DEF setAudioBuffer, NewAudioFile
<1>5. setNumSamplesPerChannel(a, Len(data)) = a
  <2>1. [c \in DOMAIN <<data>> |-> Resized(<<data>>[c], Len(data), 0)] = <<data>>
    BY <1>1, <1>3
  <2>2. setNumSamplesPerChannel(a, Len(data)) =
          [a EXCEPT !.samples = [c \in DOMAIN <<data>> |-> Resized(<<data>>[c], Len(data), 0)]]
    BY DEF setNumSamplesPerChannel
  <2> QED
    BY <2>1, <2>2
<1>6. setAudioBufferSize(a, 1, Len(data)) = a
  <2>1. [a EXCEPT !.samples = Resized(@, 1, << >>)] = a
    BY <1>2
  <2> QED
    BY <1>5, <2>1 DEF setAudioBufferSize
<1>7. setNumChannels(a, 1) = a
  <2>1. [a EXCEPT !.samples =
           Resized(@, 1, [i \in 1 .. getNumSamplesPerChannel(a) |-> 0])] = a
    BY <1>2
  <2> QED
    BY <2>1 DEF setNumChannels
<1>8. ExportFile(data, rate) = setSampleRate(setBitDepth(a, 32), rate)
  BY <1>4, <1>5, <1>6, <1>7 DEF ExportFile
<1> DEFINE b == [samples |-> <<data>>, bitDepth |-> 32, sampleRate |-> 44100, iXMLChunk |-> 0]
<1>9. setBitDepth(a, 32) = b
  BY DEF setBitDepth
<1>10. setSampleRate(b, rate) =
         [samples |-> <<data>>, bitDepth |-> 32, sampleRate |-> rate, iXMLChunk |-> 0]
  BY DEF setSampleRate
<1> QED
  BY <1>8, <1>9, <1>10

LEMMA ExportSoundLemma ==
  ASSUME NEW data \in Seq(Int), NEW rate \in Nat
  PROVE  Sound(ExportFile(data, rate))
<1> DEFINE a == [samples |-> <<data>>, bitDepth |-> 32, sampleRate |-> rate, iXMLChunk |-> 0]
<1>1. <<data>> \in Seq(Seq(Int)) /\ DOMAIN <<data>> = {1} /\ <<data>>[1] = data
  OBVIOUS
<1>2. a \in AudioFile /\ a.samples = <<data>> /\ Len(data) \in Nat
  BY <1>1, LenProperties DEF AudioFile, Buffer
<1> HIDE DEF a
<1>3. Sound(a)
  BY <1>1, <1>2, SoundLemma
<1> QED
  BY <1>3, ExportFileLemma DEF a

-----------------------------------------------------------------------------
(***************************************************************************)
(* Saving and loading again.                                               *)
(***************************************************************************)

\* A number is divided in one way only.
LEMMA DivisionLemma ==
  ASSUME NEW ch \in Nat, NEW q \in Nat, NEW r \in 0 .. ch - 1
  PROVE  (ch * q + r) \div ch = q /\ (ch * q + r) % ch = r
<1> DEFINE k == ch * q + r
           p == k \div ch
           s == k % ch
<1>1. ch # 0 /\ k \in Nat
  OBVIOUS
<1>2. p \in Nat /\ s \in 0 .. ch - 1 /\ k = ch * p + s
  BY <1>1
<1>3. ch * p + s = ch * q + r
  BY <1>2
<1> HIDE DEF k, p, s
<1>4. p = q
  <2>1. ASSUME p < q PROVE FALSE
    <3>1. PICK d \in Nat : q = p + 1 + d
      BY <1>2, <2>1
    <3>2. ch * q = ch * p + ch + ch * d /\ ch * d \in Nat
      BY <1>2, <3>1
    <3> QED
      BY <1>2, <1>3, <3>2
  <2>2. ASSUME q < p PROVE FALSE
    <3>1. PICK d \in Nat : p = q + 1 + d
      BY <1>2, <2>2
    <3>2. ch * p = ch * q + ch + ch * d /\ ch * d \in Nat
      BY <1>2, <3>1
    <3> QED
      BY <1>2, <1>3, <3>2
  <2> QED
    BY <1>2, <2>1, <2>2
<1>5. s = r
  BY <1>2, <1>3, <1>4
<1> QED
  BY <1>4, <1>5 DEF k, p, s

\* The sample that is written for channel c of frame i is its own.
LEMMA InverseLemma ==
  ASSUME NEW n \in Nat, NEW ch \in Nat, NEW i \in 1 .. n, NEW c \in 1 .. ch
  PROVE  LET k == ((i - 1) * ch) + c IN
         k \in 1 .. n * ch /\ ((k - 1) % ch) + 1 = c /\ ((k - 1) \div ch) + 1 = i
<1> DEFINE k == ((i - 1) * ch) + c
<1>1. k \in 1 .. n * ch
  BY OffsetLemma
<1>2. i - 1 \in Nat /\ c - 1 \in 0 .. ch - 1
  OBVIOUS
<1>3. k - 1 = ch * (i - 1) + (c - 1)
  OBVIOUS
<1> HIDE DEF k
<1>4. (k - 1) \div ch = i - 1 /\ (k - 1) % ch = c - 1
  <2>1. (ch * (i - 1) + (c - 1)) \div ch = i - 1 /\ (ch * (i - 1) + (c - 1)) % ch = c - 1
    BY <1>2, DivisionLemma
  <2> QED
    BY <1>3, <2>1
<1> QED
  BY <1>1, <1>4 DEF k

\* What is lost of a sample: nothing with 32 and 24 bits, less than a step with 16 and 8.
LEMMA NearLemma ==
  ASSUME NEW s \in Int, NEW bits \in Supported, bits = 24 => s \in -Unit .. Unit - 1
  PROVE  Near(bits, s, Decode(bits, Encode(bits, s)))
<1>1. bits \in {8, 16, 24, 32}
  BY DEF Supported
<1>2. clamp(s) \in Int /\ -32768 <= clamp(s) /\ clamp(s) <= 32768
  BY DEF clamp, Unit
<1>3. CASE bits = 8
  <2> DEFINE x == clamp(s) + 32768
             code == (x * 255) \div 65536
  <2>1. x \in Int /\ 0 <= x /\ x <= 65536
    BY <1>2
  <2>2. code \in Int /\ 65536 * code <= x * 255 /\ x * 255 < 65536 * code + 65536
    BY <2>1
  <2>3. Encode(8, s) = code
    BY DEF Encode, Unit
  <2> HIDE DEF code
  <2>4. Decode(8, code) = (code - 128) * 256
    BY DEF Decode
  <2>5. ((code - 128) * 256) - clamp(s) = 256 * code - x
    BY <1>2, <2>2
  <2>6. 256 * code - x \in Int /\ -511 <= 256 * code - x /\ 256 * code - x <= 511
    BY <2>1, <2>2
  <2>7. ((code - 128) * 256) - clamp(s) \in -511 .. 511
    BY <2>5, <2>6
  <2> QED
    BY <1>3, <2>3, <2>4, <2>7 DEF Near, Precision
<1>4. CASE bits = 16
  <2>1. Encode(16, s) = Quotient(clamp(s) * 32767, 32768)
    BY DEF Encode, Unit
  <2>2. Quotient(clamp(s) * 32767, 32768) - clamp(s) \in -1 .. 1
    <3> DEFINE x == clamp(s)
    <3> HIDE DEF x
    <3>1. x \in Int /\ -32768 <= x /\ x <= 32768
      BY <1>2 DEF x
    <3>2. CASE x * 32767 >= 0
      <4>1. Quotient(x * 32767, 32768) = (x * 32767) \div 32768
        BY <3>2 DEF Quotient
      <4>2. /\ (x * 32767) \div 32768 \in Int
            /\ -1 <= ((x * 32767) \div 32768) - x /\ ((x * 32767) \div 32768) - x <= 1
        BY <3>1, <3>2
      <4> QED
        BY <3>1, <4>1, <4>2 DEF x
    <3>3. CASE ~(x * 32767 >= 0)
      <4>1. Quotient(x * 32767, 32768) = -((-(x * 32767)) \div 32768)
        BY <3>3 DEF Quotient
      <4>2. /\ (-(x * 32767)) \div 32768 \in Int
            /\ -1 <= -((-(x * 32767)) \div 32768) - x /\ -((-(x * 32767)) \div 32768) - x <= 1
        BY <3>1, <3>3
      <4> QED
        BY <3>1, <4>1, <4>2 DEF x
    <3> QED
      BY <3>2, <3>3
  <2>3. \A code : Decode(16, code) = code
    BY DEF Decode
  <2> QED
    BY <1>4, <2>1, <2>2, <2>3 DEF Near, Precision
<1>5. CASE bits = 24
  <2>1. -32768 <= s /\ s <= 32767
    <3>1. Unit = 32768
      BY DEF Unit
    <3>2. s \in -Unit .. Unit - 1
      BY <1>5
    <3>3. Unit \in Int
      BY <3>1
    <3>4. -Unit <= s /\ s <= Unit - 1
      BY <3>2, <3>3
    <3> QED
      BY <3>1, <3>4
  <2>2. ((s * 256 + 8388608) % 16777216) - 8388608 = s * 256
    <3>1. s * 256 + 8388608 \in Int /\ 0 <= s * 256 + 8388608 /\ s * 256 + 8388608 < 16777216
      BY <2>1
    <3>2. \A x \in Int : 0 <= x /\ x < 16777216 => x % 16777216 = x
      OBVIOUS
    <3> QED
      BY <3>1, <3>2
  <2>3. Encode(24, s) = s * 256
    BY <2>2 DEF Encode
  <2>4. Quotient(s * 256, 256) = s
    BY <2>1 DEF Quotient
  <2>5. Decode(24, s * 256) = s
    BY <2>4 DEF Decode
  <2> QED
    BY <1>5, <2>3, <2>5 DEF Near, Precision
<1>6. CASE bits = 32
  <2>1. Encode(32, s) = s /\ Decode(32, s) = s
    BY DEF Encode, Decode
  <2> QED
    BY <1>6, <2>1 DEF Near, Precision
<1> QED
  BY <1>1, <1>3, <1>4, <1>5, <1>6

\* A sound object's samples, as a decoded buffer is compared with them.
LEMMA ShapeLemma ==
  ASSUME NEW a, Sound(a)
  PROVE  /\ DOMAIN a.samples = 1 .. getNumChannels(a)
         /\ \A c \in 1 .. getNumChannels(a) :
              /\ DOMAIN a.samples[c] = 1 .. getNumSamplesPerChannel(a)
              /\ \A i \in 1 .. getNumSamplesPerChannel(a) : a.samples[c][i] \in Int
<1>1. /\ DOMAIN a.samples = 1 .. getNumChannels(a)
      /\ \A c \in DOMAIN a.samples :
           /\ a.samples[c] \in Seq(Int) /\ Len(a.samples[c]) = getNumSamplesPerChannel(a)
           /\ DOMAIN a.samples[c] = 1 .. Len(a.samples[c])
  BY SamplesLemma DEF Sound, SameLengths
<1>2. \A c \in DOMAIN a.samples : \A i \in 1 .. Len(a.samples[c]) : a.samples[c][i] \in Int
  BY <1>1, ElementOfSeq
<1> QED
  BY <1>1, <1>2

\* The samples that load() reads are those of the file, if the last one's place is an int.
LEMMA ReadInsideLemma ==
  ASSUME NEW f, NEW start \in Nat, NEW n \in Nat, NEW k \in 1 .. n, NEW stray,
         f.bitDepth \div 8 \in Nat, start + n * (f.bitDepth \div 8) <= Half
  PROVE  ReadCode(f, start, k, stray) = f.data[k]
<1> DEFINE w == f.bitDepth \div 8
<1>1. w \in Nat /\ start + n * w <= Half /\ Half \in Nat
  BY NumbersAssumption
<1> HIDE DEF w
<1>2. PICK d \in Nat : n = k + d
  OBVIOUS
<1>3. n * w = k * w + d * w /\ k * w \in Nat /\ d * w \in Nat
  BY <1>1, <1>2
<1>4. start + k * w <= Half
  BY <1>1, <1>3
<1> QED
  BY <1>4 DEF ReadCode, w

\* The chunk that load() finds is that of the file, if an int holds its place.
LEMMA FindChunkLemma ==
  ASSUME NEW a, NEW f, NEW index \in Nat, a.iXMLChunk = 0, f.iXMLChunk # 0 => index + 8 < Half
  PROVE  ReadChunk(a, f, index) = {f.iXMLChunk}
<1>1. ~(index < 0)
  OBVIOUS
<1> QED
  BY <1>1 DEF ReadChunk

\* The sizes and places of an object that fits, as saveToWaveFile and load() compute them.
LEMMA FitLemma ==
  ASSUME NEW a, Sound(a), Fits(a)
  PROVE  LET n    == getNumSamplesPerChannel(a)
             ch   == getNumChannels(a)
             size == n * ((ch * a.bitDepth) \div 8)
             start == DataStart(Header(a))
         IN  /\ (ch * a.bitDepth) \div 8 = ch * (a.bitDepth \div 8)
             /\ Int16(ch * (a.bitDepth \div 8)) = ch * (a.bitDepth \div 8)
             /\ size = AudioBytes(a) /\ size \in Nat /\ Int32(size) = size
             /\ size = (n * ch) * (a.bitDepth \div 8)
             /\ Quotient(size, (ch * a.bitDepth) \div 8) = n
             /\ start \in Nat /\ start + size <= Half
             /\ a.iXMLChunk # 0 => start + size + 8 < Half
<1> DEFINE n  == getNumSamplesPerChannel(a)
           ch == getNumChannels(a)
           bits == a.bitDepth
           w == bits \div 8
           start == DataStart(Header(a))
<1>1. n \in Nat /\ ch \in 1 .. 128 /\ ch \in Nat \ {0} /\ bits \in Supported
  <2>1. n \in Nat
    BY SamplesLemma DEF Sound
  <2>2. ch \in 1 .. 128 /\ bits \in Supported
    BY DEF Fits
  <2> HIDE DEF n, ch, bits
  <2> QED
    BY <2>1, <2>2
<1>2. AudioBytes(a) = n * ch * w /\ PlacesFit(a, start) /\ Half \in Nat
  BY NumbersAssumption DEF AudioBytes, Fits
<1>3. start \in {44, 46}
  BY DEF DataStart
<1> HIDE DEF n, ch, bits, w, start
<1>4. (ch * bits) \div 8 = ch * w /\ w \in 1 .. 4
  BY <1>1, FrameLemma DEF w
<1>5. ch * w \in Nat \ {0} /\ n * (ch * w) = n * ch * w /\ n * (ch * w) \in Nat /\ ch * w < 32768
  BY <1>1, <1>4
<1>6. /\ start \in Nat /\ start > 0 /\ start + n * ch * w <= Half
      /\ a.iXMLChunk # 0 => start + n * ch * w + 9 <= Half
  <2>1. start + n * ch * w + (IF a.iXMLChunk = 0 THEN 0 ELSE 9) <= Half
    BY <1>2 DEF PlacesFit
  <2>2. n * ch * w \in Nat
    BY <1>5
  <2> QED
    BY <1>2, <1>3, <2>1, <2>2
<1>7. Int32(n * (ch * w)) = n * (ch * w)
  BY <1>2, <1>5, <1>6, Int32Lemma
<1>8. Quotient(n * (ch * w), ch * w) = n
  <2> DEFINE d == ch * w
  <2>1. d \in Nat \ {0}
    BY <1>5
  <2> HIDE DEF d
  <2>2. Quotient(n * d, d) = n
    BY <1>1, <2>1, QuotientLemma
  <2> QED
    BY <2>2 DEF d
<1>9. Int16(ch * w) = ch * w
  BY <1>5, Int16Lemma
<1>10. a.iXMLChunk # 0 => start + n * (ch * w) + 8 < Half
  BY <1>2, <1>5, <1>6
<1> QED
  BY <1>2, <1>4, <1>5, <1>6, <1>7, <1>8, <1>9, <1>10 DEF n, ch, bits, w, start

\* saveToWaveFile writes an object that fits, and load() accepts the file.
LEMMA WaveWrittenLemma ==
  ASSUME NEW a, Sound(a), Fits(a)
  PROVE  Encodes(a) /\ Accepts(WaveOf(a))
<1> DEFINE n  == getNumSamplesPerChannel(a)
           ch == getNumChannels(a)
           bits == a.bitDepth
           size == n * ((ch * bits) \div 8)
           f == WaveOf(a)
<1>1. /\ ch \in 1 .. 128 /\ bits \in Supported /\ a.iXMLChunk \in Nat
  BY SamplesLemma DEF Sound, Fits
<1>2. size = AudioBytes(a) /\ size \in Nat /\ Int32(size) = size
  BY FitLemma
<1>3. Int16(ch * (bits \div 8)) = ch * (bits \div 8)
  BY FitLemma
<1>4. /\ f.audioFormat = (IF bits = 32 THEN "IEEEFloat" ELSE "PCM")
      /\ f.numChannels = ch /\ f.sampleRate = a.sampleRate
      /\ f.numBytesPerSecond = Uint32(ch * a.sampleRate * bits) \div 8
      /\ f.numBytesPerBlock = Int16(ch * (bits \div 8))
      /\ f.bitDepth = bits
  BY DEF WaveOf, Header
<1>5. Header(a).dataChunkSize = Int32(size)
  BY DEF Header
<1> HIDE DEF n, ch, bits, f
<1>6. Encodes(a)
  <2> DEFINE format == IF bits = 32 THEN 18 ELSE 16
             xml == ChunkBytes(a.iXMLChunk)
  <2>1. format \in Nat /\ xml \in Nat
    BY <1>1 DEF ChunkBytes
  <2>2. Encodes(a) <=> /\ Codes(a) = << >> \/ bits \in Supported
                       /\ Int32(4 + format + 8 + 8 + Int32(size) + xml)
                            = Int32(4 + 8 + format + 8 + AudioBytes(a) + xml)
                       /\ Int32(size) = Int32(AudioBytes(a))
    BY <1>5 DEF Encodes, bits
  <2> HIDE DEF format, xml, size
  <2>3. 4 + format + 8 + 8 + size + xml = 4 + 8 + format + 8 + size + xml
    BY <1>2, <2>1
  <2> QED
    BY <1>1, <1>2, <2>2, <2>3
<1>7. Accepts(f)
  BY <1>1, <1>3, <1>4 DEF Accepts
<1> QED
  BY <1>6, <1>7 DEF f

\* What saveToWaveFile makes of an object that fits is what load() reads.
LEMMA WaveReadsBackLemma ==
  ASSUME NEW a, Sound(a), Fits(a), NEW b \in decodeWaveFile(NewAudioFile, WaveOf(a))
  PROVE  /\ b.sampleRate = a.sampleRate /\ b.bitDepth = a.bitDepth
         /\ b.iXMLChunk = a.iXMLChunk
         /\ b.samples = [c \in 1 .. getNumChannels(a) |->
                           [i \in 1 .. getNumSamplesPerChannel(a) |->
                              Decode(a.bitDepth, Encode(a.bitDepth, a.samples[c][i]))]]
<1> DEFINE n  == getNumSamplesPerChannel(a)
           ch == getNumChannels(a)
           bits == a.bitDepth
           size == n * ((ch * bits) \div 8)
           f == WaveOf(a)
           start == DataStart(Header(a))
           code(c, i, stray) == ReadCode(f, start, ((i - 1) * ch) + c, stray)
<1>1. n \in Nat /\ ch \in Nat /\ bits \in Nat /\ a.iXMLChunk \in Nat
  BY SamplesLemma DEF Sound
<1>2. /\ size \in Nat /\ Int32(size) = size /\ size = (n * ch) * (bits \div 8)
      /\ Quotient(size, (ch * bits) \div 8) = n
      /\ start \in Nat /\ start + size <= Half
      /\ a.iXMLChunk # 0 => start + size + 8 < Half
  BY FitLemma
<1>3. /\ f.numChannels = ch /\ f.sampleRate = a.sampleRate
      /\ f.bitDepth = bits /\ f.dataChunkSize = Int32(size)
      /\ f.data = Codes(a) /\ f.iXMLChunk = a.iXMLChunk
      /\ DataStart(f) = start
  BY DEF WaveOf, Header, DataStart
<1>4. f.data = [k \in 1 .. n * ch |->
                  Encode(bits, a.samples[((k - 1) % ch) + 1][((k - 1) \div ch) + 1])]
  BY <1>3 DEF Codes
<1>5. PICK stray \in [DOMAIN f.data -> Stray],
           chunk \in ReadChunk(NewAudioFile, f, start + f.dataChunkSize) :
        b = Loaded(NewAudioFile, f, WaveSamples(f, stray), chunk)
  BY <1>3 DEF decodeWaveFile
<1>6. /\ b.sampleRate = f.sampleRate /\ b.bitDepth = f.bitDepth /\ b.iXMLChunk = chunk
      /\ b.samples = [c \in 1 .. f.numChannels |->
            [i \in 1 .. Quotient(f.dataChunkSize, (f.numChannels * f.bitDepth) \div 8) |->
               Decode(f.bitDepth, ReadCode(f, start, ((i - 1) * f.numChannels) + c, stray))]]
  <2>1. /\ b.sampleRate = f.sampleRate /\ b.bitDepth = f.bitDepth /\ b.iXMLChunk = chunk
        /\ b.samples = WaveSamples(f, stray)
    BY <1>5 DEF Loaded, HalfLoaded, NewAudioFile
  <2> QED
    BY <1>3, <2>1 DEF WaveSamples
<1> HIDE DEF n, ch, bits, f, start
<1>7. b.iXMLChunk = a.iXMLChunk
  <2>1. NewAudioFile.iXMLChunk = 0
    BY DEF NewAudioFile
  <2>2. start + f.dataChunkSize = start + size
    BY <1>2, <1>3
  <2> HIDE DEF size
  <2>3. start + size \in Nat
    BY <1>2
  <2>4. ReadChunk(NewAudioFile, f, start + size) = {f.iXMLChunk}
    BY <1>2, <1>3, <2>1, <2>3, FindChunkLemma
  <2> QED
    BY <1>3, <1>5, <1>6, <2>2, <2>4
<1>8. \A c \in 1 .. ch, i \in 1 .. n : code(c, i, stray) = Encode(bits, a.samples[c][i])
  <2> TAKE c \in 1 .. ch, i \in 1 .. n
  <2> DEFINE k == ((i - 1) * ch) + c
  <2>1. k \in 1 .. n * ch /\ ((k - 1) % ch) + 1 = c /\ ((k - 1) \div ch) + 1 = i
    BY <1>1, InverseLemma
  <2> HIDE DEF k
  <2>2. ReadCode(f, start, k, stray) = f.data[k]
    <3>1. n * ch \in Nat /\ f.bitDepth \div 8 \in Nat
      BY <1>1, <1>3
    <3>2. start + (n * ch) * (f.bitDepth \div 8) <= Half
      BY <1>2, <1>3
    <3> QED
      BY <1>2, <2>1, <3>1, <3>2, ReadInsideLemma
  <2>3. f.data[k] = Encode(bits, a.samples[((k - 1) % ch) + 1][((k - 1) \div ch) + 1])
    BY <1>4, <2>1
  <2> QED
    BY <2>1, <2>2, <2>3 DEF k
<1>9. b.samples = [c \in 1 .. ch |-> [i \in 1 .. n |-> Decode(bits, code(c, i, stray))]]
  BY <1>2, <1>3, <1>6
<1> HIDE DEF code
<1>10. b.samples = [c \in 1 .. ch |-> [i \in 1 .. n |->
                      Decode(bits, Encode(bits, a.samples[c][i]))]]
  BY <1>8, <1>9
<1> QED
  BY <1>3, <1>6, <1>7, <1>10 DEF n, ch, bits, f

\* What ExportWAV writes is what load() reads.
LEMMA ExportLemma ==
  ASSUME NEW data \in Seq(Int), NEW rate \in Nat, 46 + 4 * Len(data) <= Half
  PROVE  LET f == WaveOf(ExportFile(data, rate)) IN
         /\ Accepts(f)
         /\ \A b \in decodeWaveFile(NewAudioFile, f) :
              b.samples = <<data>> /\ b.sampleRate = rate
<1> DEFINE n == Len(data)
           a == ExportFile(data, rate)
<1>1. /\ a = [samples |-> <<data>>, bitDepth |-> 32, sampleRate |-> rate, iXMLChunk |-> 0]
      /\ n \in Nat /\ DOMAIN data = 1 .. n /\ data = [i \in 1 .. n |-> data[i]]
  BY ExportFileLemma, LenProperties
<1> HIDE DEF a, n
<1>2. /\ a.samples = <<data>> /\ a.bitDepth = 32 /\ a.sampleRate = rate /\ a.iXMLChunk = 0
      /\ getNumChannels(a) = 1 /\ getNumSamplesPerChannel(a) = n
  BY <1>1 DEF getNumChannels, getNumSamplesPerChannel, n
<1>3. Sound(a)
  BY ExportSoundLemma DEF a
<1>4. Fits(a)
  <2>1. DataStart(Header(a)) = 46
    BY <1>2 DEF DataStart, Header
  <2>2. AudioBytes(a) = n * 1 * 4
    <3>1. 32 \div 8 = 4
      OBVIOUS
    <3> QED
      BY <1>2, <3>1 DEF AudioBytes
  <2>3. PlacesFit(a, 46)
    BY <1>1, <1>2, <2>2 DEF PlacesFit, n
  <2> QED
    BY <1>2, <2>1, <2>3 DEF Fits, Supported
<1>5. Accepts(WaveOf(a))
  BY <1>3, <1>4, WaveWrittenLemma
<1>6. ASSUME NEW b \in decodeWaveFile(NewAudioFile, WaveOf(a))
      PROVE  b.samples = <<data>> /\ b.sampleRate = rate
  <2>1. /\ b.sampleRate = rate
        /\ b.samples = [c \in 1 .. 1 |-> [i \in 1 .. n |-> Decode(32, Encode(32, <<data>>[c][i]))]]
    <3>1. /\ b.sampleRate = a.sampleRate
          /\ b.samples = [c \in 1 .. getNumChannels(a) |->
                            [i \in 1 .. getNumSamplesPerChannel(a) |->
                               Decode(a.bitDepth, Encode(a.bitDepth, a.samples[c][i]))]]
      BY <1>3, <1>4, <1>6, WaveReadsBackLemma
    <3> QED
      BY <1>2, <3>1
  <2>2. \A t : Decode(32, Encode(32, t)) = t
    BY DEF Encode, Decode
  <2>3. \A c \in 1 .. 1 :
          [i \in 1 .. n |-> Decode(32, Encode(32, <<data>>[c][i]))] = data
    BY <1>1, <2>2
  <2>4. b.samples = [c \in 1 .. 1 |-> data]
    BY <2>1, <2>3
  <2>5. [c \in 1 .. 1 |-> data] = <<data>>
    OBVIOUS
  <2> QED
    BY <2>1, <2>4, <2>5
<1> QED
  BY <1>5, <1>6 DEF a

LEMMA RoundTripLemma == Sound(audio) => RoundTrip
<1> SUFFICES ASSUME Sound(audio), Fits(audio),
                    NEW b \in decodeWaveFile(NewAudioFile, WaveOf(audio))
             PROVE  SameAudio(audio, b)
  BY WaveWrittenLemma DEF RoundTrip
<1> DEFINE n  == getNumSamplesPerChannel(audio)
           ch == getNumChannels(audio)
           bits == audio.bitDepth
<1>1. /\ b.sampleRate = audio.sampleRate /\ b.bitDepth = audio.bitDepth
      /\ b.iXMLChunk = audio.iXMLChunk
      /\ b.samples = [c \in 1 .. ch |-> [i \in 1 .. n |->
                        Decode(bits, Encode(bits, audio.samples[c][i]))]]
  BY WaveReadsBackLemma
<1>2. /\ DOMAIN audio.samples = 1 .. ch
      /\ \A c \in 1 .. ch : /\ DOMAIN audio.samples[c] = 1 .. n
                            /\ \A i \in 1 .. n : audio.samples[c][i] \in Int
  BY ShapeLemma
<1>3. /\ bits \in Supported
      /\ bits = 24 => \A c \in 1 .. ch : \A i \in 1 .. n : audio.samples[c][i] \in -Unit .. Unit - 1
  BY <1>2 DEF Fits
<1> HIDE DEF n, ch, bits
<1>4. \A c \in 1 .. ch : \A i \in 1 .. n :
        Near(bits, audio.samples[c][i], Decode(bits, Encode(bits, audio.samples[c][i])))
  BY <1>2, <1>3, NearLemma
<1>5. \A c \in DOMAIN b.samples :
        /\ DOMAIN b.samples[c] = DOMAIN audio.samples[c]
        /\ \A i \in DOMAIN b.samples[c] : Near(bits, audio.samples[c][i], b.samples[c][i])
  BY <1>1, <1>2, <1>4
<1>6. DOMAIN b.samples = DOMAIN audio.samples
  BY <1>1, <1>2
<1> QED
  BY <1>1, <1>5, <1>6 DEF SameAudio, bits

\* The same of an Aiff file's samples, whichever way a 32-bit overflow goes.
LEMMA AiffNearLemma ==
  ASSUME NEW s \in Int, NEW bits \in {16, 24, 32}, NEW wraps \in BOOLEAN,
         bits \in {24, 32} => s \in -Unit .. Unit - 1
  PROVE  Near(bits, s, AiffDecode(bits, AiffCode(bits, s, wraps)))
<1>1. bits \in Supported /\ bits # 8
  BY DEF Supported
<1>2. Near(bits, s, Decode(bits, Encode(bits, s)))
  BY <1>1, NearLemma
<1>3. \A code : AiffDecode(bits, code) = Decode(bits, code)
  BY <1>1 DEF AiffDecode
<1>4. CASE bits = 32
  <2>1. s \in -Unit .. Unit - 1
    BY <1>4
  <2>2. Unit \in Int
    BY DEF Unit
  <2>3. clamp(s) = s
    BY <2>1, <2>2 DEF clamp
  <2>4. AiffCode(32, s, wraps) = s
    BY <2>1, <2>3, Zenon DEF AiffCode
  <2>5. Encode(32, s) = s
    BY DEF Encode
  <2> QED
    BY <1>2, <1>3, <1>4, <2>4, <2>5
<1>5. CASE bits # 32
  <2>1. AiffCode(bits, s, wraps) = Encode(bits, s)
    BY <1>5 DEF AiffCode
  <2> QED
    BY <1>2, <1>3, <2>1
<1> QED
  BY <1>4, <1>5

\* The sizes and places of an object that fits an Aiff file.
LEMMA AiffFitLemma ==
  ASSUME NEW a, Sound(a), FitsAiff(a)
  PROVE  /\ AudioBytes(a) \in Nat /\ AudioBytes(a) + AiffStart <= Half
         /\ a.iXMLChunk # 0 => AiffStart + AudioBytes(a) + 8 < Half
         /\ AudioBytes(a) + 54 < 2 * Half
         /\ Int32(AudioBytes(a) + 8) = AudioBytes(a) + 8
         /\ Int32(AudioBytes(a)) = AudioBytes(a)
<1> DEFINE x == AudioBytes(a)
<1>1. x \in Nat /\ PlacesFit(a, AiffStart) /\ Half \in Nat /\ Half > 64
  BY BytesLemma, NumbersAssumption, WidthAssumption DEF FitsAiff
<1>2. 54 + x + (IF a.iXMLChunk = 0 THEN 0 ELSE 9) <= Half
  BY <1>1 DEF PlacesFit, AiffStart
<1> HIDE DEF x
<1>3. x + 54 <= Half /\ (a.iXMLChunk # 0 => 54 + x + 8 < Half) /\ x + 54 < 2 * Half
  BY <1>1, <1>2
<1>4. Int32(x + 8) = x + 8 /\ Int32(x) = x
  BY <1>1, <1>3, Int32Lemma
<1> QED
  BY <1>1, <1>3, <1>4 DEF x, AiffStart

\* load() accepts the Aiff files with one or two channels of samples.
LEMMA AcceptsLemma ==
  ASSUME NEW f \in AiffRecord, Written(f), f.numChannels \in 1 .. 2, f.bitDepth \in Supported
  PROVE  AcceptsAiff(f)
<1> DEFINE w == f.bitDepth \div 8
           x == Len(f.data) * w
           xml == ChunkBytes(f.iXMLChunk)
<1>1. /\ Len(f.data) \in Nat /\ f.bitDepth \in Nat /\ f.iXMLChunk \in Nat
      /\ f.sampleRate # 0 /\ Len(f.data) = f.numSamplesPerChannel * f.numChannels
      /\ f.soundDataChunkSize = Int32(x + 8) /\ x + 54 < 2 * Half
  BY LenProperties DEF AiffRecord, Written
<1>2. x \in Nat /\ xml \in Nat
  <2>1. w \in Nat
    BY <1>1
  <2> HIDE DEF w
  <2> QED
    BY <1>1, <2>1 DEF ChunkBytes
<1>3. AcceptsAiff(f) <=> /\ f.sampleRate # 0 /\ f.numChannels \in 1 .. 2
                         /\ f.bitDepth \in Supported
                         /\ Int32(f.soundDataChunkSize - 8) = Int32(x)
                         /\ Int32(x) <= x + xml
  BY <1>1 DEF AcceptsAiff
<1> HIDE DEF w, x, xml
<1>4. Int32(f.soundDataChunkSize - 8) = Int32(x)
  BY <1>1, <1>2, Int32BackLemma
<1>5. Int32(x) <= x + xml
  <2>1. x < 2 * Half /\ Half \in Nat
    BY <1>1, <1>2, NumbersAssumption
  <2>2. Int32(x) \in Int /\ (Int32(x) = x \/ Int32(x) < 0)
    BY <1>2, <2>1, Int32Lemma
  <2> QED
    BY <1>2, <2>2
<1> QED
  BY <1>1, <1>3, <1>4, <1>5

\* saveToAiffFile writes an object that fits.
LEMMA AiffWrittenLemma ==
  ASSUME NEW a, Sound(a), FitsAiff(a), a.bitDepth \in Supported
  PROVE  EncodesAiff(a)
<1> DEFINE xml == ChunkBytes(a.iXMLChunk)
<1>1. xml \in Nat /\ AudioBytes(a) \in Nat
  BY BytesLemma
<1> HIDE DEF xml
<1>2. 4 + 26 + 16 + AudioBytes(a) + xml = 4 + 16 + 10 + 16 + AudioBytes(a) + xml
  BY <1>1
<1>3. a.sampleRate \in TableRate
  BY DEF FitsAiff
<1> QED
  BY <1>2, <1>3 DEF EncodesAiff, xml

\* What saveToAiffFile makes of an object that fits is what load() reads.
LEMMA AiffReadsBackLemma ==
  ASSUME NEW a, Sound(a), FitsAiff(a), a.bitDepth \in Supported, NEW f \in AiffOf(a),
         NEW b \in decodeAiffFile(NewAudioFile, f)
  PROVE  /\ b.sampleRate = a.sampleRate /\ b.bitDepth = a.bitDepth
         /\ b.iXMLChunk = a.iXMLChunk
         /\ \E wraps \in BOOLEAN :
              b.samples = [c \in 1 .. getNumChannels(a) |->
                             [i \in 1 .. getNumSamplesPerChannel(a) |->
                                AiffDecode(a.bitDepth, AiffCode(a.bitDepth, a.samples[c][i], wraps))]]
<1> DEFINE n  == getNumSamplesPerChannel(a)
           ch == getNumChannels(a)
           bits == a.bitDepth
           size == AudioBytes(a)
           code(c, i, stray) == ReadCode(f, AiffStart, ((i - 1) * ch) + c, stray)
<1>1. /\ n \in Nat /\ ch \in Nat /\ bits \in Nat /\ a.iXMLChunk \in Nat
      /\ a.sampleRate \in TableRate
  BY SamplesLemma DEF Sound, FitsAiff
<1>2. /\ size \in Nat /\ Int32(size + 8) = size + 8
      /\ size + AiffStart <= Half /\ (a.iXMLChunk # 0 => AiffStart + size + 8 < Half)
      /\ size = (n * ch) * (bits \div 8)
  BY AiffFitLemma, BytesLemma
<1>3. PICK wraps \in BOOLEAN :
        f = [numChannels |-> ch, numSamplesPerChannel |-> n, bitDepth |-> bits,
             sampleRate |-> IF a.sampleRate \in TableRate THEN a.sampleRate ELSE 0,
             soundDataChunkSize |-> Int32(size + 8),
             data |-> [k \in 1 .. n * ch |->
                         AiffCode(bits, a.samples[((k - 1) % ch) + 1][((k - 1) \div ch) + 1], wraps)],
             iXMLChunk |-> a.iXMLChunk]
  BY DEF AiffOf
<1>4. /\ f.numChannels = ch /\ f.numSamplesPerChannel = n /\ f.bitDepth = bits
      /\ f.sampleRate = a.sampleRate /\ f.iXMLChunk = a.iXMLChunk
      /\ f.soundDataChunkSize = size + 8
      /\ f.data = [k \in 1 .. n * ch |->
                     AiffCode(bits, a.samples[((k - 1) % ch) + 1][((k - 1) \div ch) + 1], wraps)]
  BY <1>1, <1>2, <1>3
<1>5. PICK stray \in [DOMAIN f.data -> Stray],
           chunk \in ReadChunk(NewAudioFile, f, AiffStart - 8 + f.soundDataChunkSize) :
        b = Loaded(NewAudioFile, f, AiffSamples(f, stray), chunk)
  BY DEF decodeAiffFile
<1>6. /\ b.sampleRate = f.sampleRate /\ b.bitDepth = f.bitDepth /\ b.iXMLChunk = chunk
      /\ b.samples = [c \in 1 .. f.numChannels |-> [i \in 1 .. f.numSamplesPerChannel |->
                        AiffDecode(f.bitDepth,
                                   ReadCode(f, AiffStart, ((i - 1) * f.numChannels) + c, stray))]]
  <2>1. /\ b.sampleRate = f.sampleRate /\ b.bitDepth = f.bitDepth /\ b.iXMLChunk = chunk
        /\ b.samples = AiffSamples(f, stray)
    BY <1>5 DEF Loaded, HalfLoaded, NewAudioFile
  <2> QED
    BY <2>1 DEF AiffSamples
<1> HIDE DEF n, ch, bits, size
<1>7. b.iXMLChunk = a.iXMLChunk
  <2>1. NewAudioFile.iXMLChunk = 0
    BY DEF NewAudioFile
  <2>2. /\ AiffStart - 8 + f.soundDataChunkSize = AiffStart + size
        /\ AiffStart + size \in Nat
    BY <1>2, <1>4 DEF AiffStart
  <2>3. ReadChunk(NewAudioFile, f, AiffStart + size) = {f.iXMLChunk}
    BY <1>2, <1>4, <2>1, <2>2, FindChunkLemma
  <2> QED
    BY <1>4, <1>5, <1>6, <2>2, <2>3
<1>8. \A c \in 1 .. ch, i \in 1 .. n :
        code(c, i, stray) = AiffCode(bits, a.samples[c][i], wraps)
  <2> TAKE c \in 1 .. ch, i \in 1 .. n
  <2> DEFINE k == ((i - 1) * ch) + c
  <2>1. k \in 1 .. n * ch /\ ((k - 1) % ch) + 1 = c /\ ((k - 1) \div ch) + 1 = i
    BY <1>1, InverseLemma
  <2> HIDE DEF k
  <2>2. ReadCode(f, AiffStart, k, stray) = f.data[k]
    <3>1. n * ch \in Nat /\ f.bitDepth \div 8 \in Nat /\ AiffStart \in Nat
      BY <1>1, <1>4 DEF AiffStart
    <3>2. AiffStart + (n * ch) * (f.bitDepth \div 8) <= Half
      BY <1>2, <1>4, <3>1
    <3> QED
      BY <2>1, <3>1, <3>2, ReadInsideLemma
  <2>3. f.data[k] = AiffCode(bits, a.samples[((k - 1) % ch) + 1][((k - 1) \div ch) + 1], wraps)
    BY <1>4, <2>1
  <2> QED
    BY <2>1, <2>2, <2>3 DEF k
<1>9. b.samples = [c \in 1 .. ch |-> [i \in 1 .. n |-> AiffDecode(bits, code(c, i, stray))]]
  BY <1>4, <1>6
<1> HIDE DEF code
<1>10. b.samples = [c \in 1 .. ch |-> [i \in 1 .. n |->
                      AiffDecode(bits, AiffCode(bits, a.samples[c][i], wraps))]]
  BY <1>8, <1>9
<1> QED
  BY <1>4, <1>6, <1>7, <1>10 DEF n, ch, bits

LEMMA AiffRoundTripLemma == Sound(audio) => AiffRoundTrip
<1> SUFFICES ASSUME Sound(audio), FitsAiff(audio), audio.bitDepth \in {16, 24, 32}
             PROVE  EncodesAiff(audio) /\ \A f \in AiffOf(audio) : ComesBack(audio, f)
  BY DEF AiffRoundTrip
<1>1. audio.bitDepth \in Supported
  BY DEF Supported
<1>2. EncodesAiff(audio)
  BY <1>1, AiffWrittenLemma
<1>3. ASSUME NEW f \in AiffOf(audio) PROVE AcceptsAiff(f)
  <2>1. SizeBound(audio)
    BY AiffFitLemma DEF SizeBound
  <2>2. f \in AiffRecord /\ Written(f)
    BY <1>2, <2>1, AiffOfLemma
  <2>3. f.numChannels = getNumChannels(audio) /\ f.bitDepth = audio.bitDepth
    BY DEF AiffOf
  <2>4. f.numChannels \in 1 .. 2
    BY <2>3 DEF FitsAiff
  <2> QED
    BY <1>1, <2>2, <2>3, <2>4, AcceptsLemma
<1>4. ASSUME NEW f \in AiffOf(audio), NEW b \in decodeAiffFile(NewAudioFile, f)
      PROVE  SameAudio(audio, b)
  <2> DEFINE n  == getNumSamplesPerChannel(audio)
             ch == getNumChannels(audio)
             bits == audio.bitDepth
  <2>1. /\ b.sampleRate = audio.sampleRate /\ b.bitDepth = audio.bitDepth
        /\ b.iXMLChunk = audio.iXMLChunk
    BY <1>1, AiffReadsBackLemma
  <2>2. PICK wraps \in BOOLEAN :
          b.samples = [c \in 1 .. ch |-> [i \in 1 .. n |->
                         AiffDecode(bits, AiffCode(bits, audio.samples[c][i], wraps))]]
    BY <1>1, AiffReadsBackLemma
  <2>3. /\ DOMAIN audio.samples = 1 .. ch
        /\ \A c \in 1 .. ch : /\ DOMAIN audio.samples[c] = 1 .. n
                              /\ \A i \in 1 .. n : audio.samples[c][i] \in Int
    BY ShapeLemma
  <2>4. /\ bits \in {16, 24, 32}
        /\ bits \in {24, 32} =>
             \A c \in 1 .. ch : \A i \in 1 .. n : audio.samples[c][i] \in -Unit .. Unit - 1
    BY <2>3 DEF FitsAiff
  <2> HIDE DEF n, ch, bits
  <2>5. \A c \in 1 .. ch : \A i \in 1 .. n :
          Near(bits, audio.samples[c][i],
               AiffDecode(bits, AiffCode(bits, audio.samples[c][i], wraps)))
    BY <2>3, <2>4, AiffNearLemma
  <2>6. \A c \in DOMAIN b.samples :
          /\ DOMAIN b.samples[c] = DOMAIN audio.samples[c]
          /\ \A i \in DOMAIN b.samples[c] : Near(bits, audio.samples[c][i], b.samples[c][i])
    BY <2>2, <2>3, <2>5
  <2>7. DOMAIN b.samples = DOMAIN audio.samples
    BY <2>2, <2>3
  <2> QED
    BY <2>1, <2>6, <2>7 DEF SameAudio, bits
<1> QED
  BY <1>2, <1>3, <1>4 DEF ComesBack

-----------------------------------------------------------------------------
(***************************************************************************)
(* The steps.                                                              *)
(***************************************************************************)
LEMMA AudioInitLemma == AiffInit => AudioInv
<1> SUFFICES ASSUME AiffInit PROVE AudioInv
  OBVIOUS
<1>1. audio = NewAudioFile /\ disk = None /\ exported = None /\ aiff = None
  BY DEF AiffInit, Init
<1>2. Sound(audio)
  BY <1>1, NewLemma
<1> QED
  BY <1>1, <1>2
  DEF AudioInv, AiffTypeOK, TypeOK, Rectangular, WaveInv, AiffInv, ExportedInv, Sound, SameLengths

\* A call that changes the object only.
LEMMA ObjectStepLemma ==
  ASSUME AudioInv, Sound(audio'), UNCHANGED <<disk, exported, aiff>>
  PROVE  AudioInv'
  BY DEF AudioInv, AiffTypeOK, TypeOK, Rectangular, WaveInv, Complete, Frames, Accepts, AiffInv,
         Written, ExportedInv, Sound, SameLengths, getNumSamplesPerChannel

LEMMA ChangeLemma ==
  AudioInv /\ UNCHANGED aiff
    /\ (\/ SetAudioBuffer \/ SetAudioBufferSize \/ SetNumSamples \/ SetNumChannels
        \/ SetBitDepth \/ SetSampleRate \/ SetChunk)
  => AudioInv'
<1> SUFFICES ASSUME AudioInv, UNCHANGED aiff,
                    \/ SetAudioBuffer \/ SetAudioBufferSize \/ SetNumSamples \/ SetNumChannels
                    \/ SetBitDepth \/ SetSampleRate \/ SetChunk
             PROVE  AudioInv'
  OBVIOUS
<1>1. Sound(audio) /\ audio \in AudioFile
  BY DEF AudioInv, AiffTypeOK, TypeOK, Rectangular, Sound, SameLengths
<1>2. /\ Depth \subseteq Nat /\ Rate \subseteq Nat /\ ChunkSize \subseteq Nat
      /\ Length \subseteq Nat /\ \A ch \in 0 .. MaxChannels : ch \in Nat
  BY NumbersAssumption
<1>3. audio.bitDepth \in Nat /\ audio.sampleRate \in Nat /\ audio.iXMLChunk \in Nat
  BY <1>1, SamplesLemma
<1>4. UNCHANGED <<disk, exported, aiff>>
  BY DEF SetAudioBuffer, SetAudioBufferSize, SetNumSamples, SetNumChannels, SetBitDepth,
         SetSampleRate, SetChunk, Change
<1>5. CASE SetAudioBuffer
  <2>1. PICK b \in Buffers : audio' = setAudioBuffer(audio, b)
    BY <1>5 DEF SetAudioBuffer, Change
  <2>2. b \in Seq(Seq(Int)) /\ b # << >> /\ \A c \in DOMAIN b : Len(b[c]) = Len(b[1])
    BY BuffersAssumption
  <2> QED
    BY <1>1, <1>4, <2>1, <2>2, SetBufferLemma, ObjectStepLemma
<1>6. CASE SetAudioBufferSize
  BY <1>1, <1>2, <1>4, <1>6, SetSizeLemma, ObjectStepLemma DEF SetAudioBufferSize, Change
<1>7. CASE SetNumSamples
  BY <1>1, <1>2, <1>4, <1>7, SetNumSamplesLemma, ObjectStepLemma DEF SetNumSamples, Change
<1>8. CASE SetNumChannels
  BY <1>1, <1>2, <1>4, <1>8, SetNumChannelsLemma, ObjectStepLemma DEF SetNumChannels, Change
<1>9. CASE SetBitDepth
  <2>1. PICK bits \in Depth : audio' = setBitDepth(audio, bits)
    BY <1>9 DEF SetBitDepth, Change
  <2>2. bits \in Nat
    BY <1>2
  <2>3. Sound(setBitDepth(audio, bits))
    BY <1>1, <1>3, <2>2, SetFieldLemma
  <2>4. Sound(audio')
    BY <2>1, <2>3
  <2> QED
    BY <1>4, <2>4, ObjectStepLemma
<1>10. CASE SetSampleRate
  <2>1. PICK rate \in Rate : audio' = setSampleRate(audio, rate)
    BY <1>10 DEF SetSampleRate, Change
  <2>2. rate \in Nat
    BY <1>2
  <2>3. Sound(setSampleRate(audio, rate))
    BY <1>1, <1>3, <2>2, SetFieldLemma
  <2>4. Sound(audio')
    BY <2>1, <2>3
  <2> QED
    BY <1>4, <2>4, ObjectStepLemma
<1>11. CASE SetChunk
  <2>1. PICK size \in ChunkSize : audio' = [audio EXCEPT !.iXMLChunk = size]
    BY <1>11 DEF SetChunk, Change
  <2>2. size \in Nat
    BY <1>2
  <2>3. Sound([audio EXCEPT !.iXMLChunk = size])
    BY <1>1, <1>3, <2>2, SetFieldLemma
  <2>4. Sound(audio')
    BY <2>1, <2>3
  <2> QED
    BY <1>4, <2>4, ObjectStepLemma
<1> QED
  BY <1>5, <1>6, <1>7, <1>8, <1>9, <1>10, <1>11

LEMMA LoadLemma == AudioInv /\ ((Load /\ UNCHANGED aiff) \/ LoadAiff) => AudioInv'
<1> SUFFICES ASSUME AudioInv, (Load /\ UNCHANGED aiff) \/ LoadAiff PROVE AudioInv'
  OBVIOUS
<1>1. Sound(audio) /\ UNCHANGED <<disk, exported, aiff>>
  BY DEF AudioInv, AiffTypeOK, TypeOK, Rectangular, Sound, SameLengths, Load, LoadAiff
<1>2. CASE Load
  <2>1. disk \in WaveFile /\ Complete(disk)
    BY <1>2 DEF AudioInv, AiffTypeOK, TypeOK, WaveInv, Load
  <2>2. disk.bitDepth \in Nat /\ disk.sampleRate \in Nat /\ audio.iXMLChunk \in Nat
    BY <1>1, <2>1, SamplesLemma DEF WaveFile, Sound
  <2>3. Sound(HalfLoaded(audio, disk))
    BY <1>1, <2>2, SetFieldLemma DEF HalfLoaded
  <2>4. Accepts(disk) => \A b \in decodeWaveFile(audio, disk) : Sound(b)
    BY <1>1, <2>1, DecodeWaveLemma
  <2>5. Sound(audio')
    BY <1>2, <2>3, <2>4 DEF Load
  <2> QED
    BY <1>1, <2>5, ObjectStepLemma
<1>3. CASE LoadAiff
  <2>1. aiff \in AiffRecord /\ Written(aiff)
    BY <1>3 DEF AudioInv, AiffTypeOK, AiffInv, LoadAiff
  <2>2. aiff.bitDepth \in Nat /\ aiff.sampleRate \in Nat /\ audio.iXMLChunk \in Nat
    BY <1>1, <2>1, SamplesLemma DEF AiffRecord, Sound
  <2>3. Sound(HalfLoaded(audio, aiff))
    BY <1>1, <2>2, SetFieldLemma DEF HalfLoaded
  <2>4. AcceptsAiff(aiff) => \A b \in decodeAiffFile(audio, aiff) : Sound(b)
    BY <1>1, <2>1, DecodeAiffLemma
  <2>5. Sound(audio')
    BY <1>3, <2>3, <2>4 DEF LoadAiff
  <2> QED
    BY <1>1, <2>5, ObjectStepLemma
<1> QED
  BY <1>2, <1>3

LEMMA WriteWaveLemma == AudioInv /\ WriteWave => AudioInv'
<1> SUFFICES ASSUME AudioInv, WriteWave PROVE AudioInv'
  OBVIOUS
<1>1. aiff' = None
  BY DEF WriteWave
<1>2. CASE Save
  <2>1. /\ Sound(audio) /\ SizeBound(audio) /\ disk' = WaveOf(audio) /\ exported' = None
        /\ audio' = audio
    BY <1>2 DEF AudioInv, AiffTypeOK, TypeOK, Rectangular, Sound, SameLengths, Save
  <2>2. disk' \in WaveFile /\ Complete(disk')
    BY <2>1, WaveOfLemma
  <2> QED
    BY <1>1, <2>1, <2>2
    DEF AudioInv, AiffTypeOK, TypeOK, Rectangular, WaveInv, Complete, Frames, Accepts, AiffInv,
        ExportedInv, Sound, SameLengths, getNumSamplesPerChannel
<1>3. CASE Export
  <2>1. PICK n \in Length, s \in SampleValue, t \in SampleValue, rate \in Rate :
          ExportWAV([i \in 1 .. n |-> IF i = 1 THEN s ELSE t], rate)
    BY <1>3 DEF Export
  <2> DEFINE data == [i \in 1 .. n |-> IF i = 1 THEN s ELSE t]
  <2>2. data \in Seq(Int) /\ rate \in Nat
    BY NumbersAssumption
  <2> HIDE DEF data
  <2> DEFINE file == ExportFile(data, rate)
  <2>3. /\ SizeBound(file) /\ audio' = file /\ disk' = WaveOf(file)
        /\ exported' = [data |-> data, sampleRate |-> rate]
    BY <2>1 DEF ExportWAV, data
  <2>4. Sound(file)
    BY <2>2, ExportSoundLemma
  <2>5. exported' \in [data : Seq(Int), sampleRate : Nat]
    BY <2>2, <2>3
  <2>6. disk' = WaveOf(ExportFile(exported'.data, exported'.sampleRate))
    BY <2>3
  <2> HIDE DEF file
  <2>7. disk' \in WaveFile /\ Complete(disk')
    BY <2>3, <2>4, WaveOfLemma
  <2>8. Sound(audio')
    BY <2>3, <2>4
  <2>9. ExportedInv'
    BY <2>5, <2>6
    DEF ExportedInv, WaveOf, Header, Codes, ExportFile, setAudioBuffer, setAudioBufferSize,
        setNumSamplesPerChannel, setNumChannels, setBitDepth, setSampleRate
  <2> QED
    BY <1>1, <2>5, <2>7, <2>8, <2>9
    DEF AudioInv, AiffTypeOK, TypeOK, Rectangular, WaveInv, Complete, Frames, Accepts, AiffInv,
        Sound, SameLengths, getNumSamplesPerChannel
<1> QED
  BY <1>2, <1>3 DEF WriteWave

LEMMA SaveAiffLemma == AudioInv /\ SaveAiff => AudioInv'
<1> SUFFICES ASSUME AudioInv, SaveAiff PROVE AudioInv'
  OBVIOUS
<1>1. /\ Sound(audio) /\ SizeBound(audio) /\ EncodesAiff(audio) /\ aiff' \in AiffOf(audio) /\ disk' = None
      /\ exported' = None /\ audio' = audio
  BY DEF AudioInv, AiffTypeOK, TypeOK, Rectangular, Sound, SameLengths, SaveAiff
<1>2. aiff' \in AiffRecord /\ Written(aiff')
  BY <1>1, AiffOfLemma
<1> QED
  BY <1>1, <1>2
  DEF AudioInv, AiffTypeOK, TypeOK, Rectangular, WaveInv, AiffInv, Written, ExportedInv, Sound,
      SameLengths, getNumSamplesPerChannel

-----------------------------------------------------------------------------
(***************************************************************************)
(* Theorems                                                                *)
(***************************************************************************)

(***************************************************************************)
(* The invariant holds of an object used in any order of calls.            *)
(***************************************************************************)
THEOREM AudioInvariance == AiffSpec => []AudioInv
<1>1. AudioInv /\ UNCHANGED aiffVars => AudioInv'
  <2> SUFFICES ASSUME AudioInv, UNCHANGED aiffVars PROVE AudioInv'
    OBVIOUS
  <2>1. Sound(audio) /\ audio' = audio /\ UNCHANGED <<disk, exported, aiff>>
    BY DEF aiffVars, vars, AudioInv, AiffTypeOK, TypeOK, Rectangular, Sound, SameLengths
  <2> QED
    BY <2>1, ObjectStepLemma
<1>2. AudioInv /\ [AiffNext]_aiffVars => AudioInv'
  BY <1>1, ChangeLemma, LoadLemma, WriteWaveLemma, SaveAiffLemma DEF AiffNext, OtherCall
<1> QED
  BY <1>2, AudioInitLemma, PTL DEF AiffSpec

(***************************************************************************)
(* The object and the file keep their types, whatever is loaded: what      *)
(* load() takes from a file is never more samples than the file holds, not *)
(* even when the size in its header did not fit an int.  (That the places  *)
(* of the bytes fit an int is not part of it: see Fits.)                   *)
(***************************************************************************)
THEOREM AudioTypeCorrect == AiffSpec => []AiffTypeOK
<1>1. AudioInv => AiffTypeOK
  BY DEF AudioInv
<1> QED
  BY <1>1, AudioInvariance, PTL

(***************************************************************************)
(* All channels have one length after any sequence of calls, so saving     *)
(* never reads a channel beyond its end.                                   *)
(***************************************************************************)
THEOREM ChannelsStayEqual == AiffSpec => []Rectangular
<1>1. AudioInv => Rectangular
  BY DEF AudioInv
<1> QED
  BY <1>1, AudioInvariance, PTL

(***************************************************************************)
(* ExportWAV's file holds its samples exactly, for samples of any value    *)
(* and any rate, and as many as end, with the 46 bytes before them, at a   *)
(* place that an int holds.                                                *)
(***************************************************************************)
THEOREM ExportIsExact == AiffSpec => []ExportExact
<1>1. AudioInv => ExportExact
  <2> SUFFICES ASSUME AudioInv, exported # None, 46 + 4 * Len(exported.data) <= Half
               PROVE  /\ Accepts(disk)
                      /\ \A b \in decodeWaveFile(NewAudioFile, disk) :
                           b.samples = <<exported.data>> /\ b.sampleRate = exported.sampleRate
    BY DEF ExportExact
  <2>1. /\ exported.data \in Seq(Int) /\ exported.sampleRate \in Nat
        /\ disk = WaveOf(ExportFile(exported.data, exported.sampleRate))
    BY DEF AudioInv, ExportedInv
  <2> QED
    BY <2>1, ExportLemma
<1> QED
  BY <1>1, AudioInvariance, PTL

(***************************************************************************)
(* load() reads each Aiff file with samples that save() has left: save()   *)
(* writes none without a rate or of an unsupported depth.                  *)
(***************************************************************************)
THEOREM AiffFilesAreRead == AiffSpec => []SavedAiffIsRead
<1>1. AudioInv => SavedAiffIsRead
  <2> SUFFICES ASSUME AudioInv, aiff # None, aiff.numChannels \in 1 .. 2, aiff.data # << >>
               PROVE  AcceptsAiff(aiff)
    BY DEF SavedAiffIsRead
  <2>1. Written(aiff) /\ aiff \in AiffRecord /\ aiff.data \in Seq(Int)
    BY DEF AudioInv, AiffInv, AiffTypeOK, AiffRecord
  <2>2. Len(aiff.data) # 0
    BY <2>1, EmptySeq
  <2>3. aiff.bitDepth \in Supported
    BY <2>1, <2>2 DEF Written
  <2> QED
    BY <2>1, <2>3, AcceptsLemma
<1> QED
  BY <1>1, AudioInvariance, PTL

(***************************************************************************)
(* Of an object in any state that calls leave it in, with samples that fit *)
(* the depth, save() makes a Wave file that load() accepts and reads       *)
(* within the precision of the depth: any samples, lengths and rates, as   *)
(* long as ints hold the places of what load() reads: of the last sample's *)
(* bytes, behind the 44 or 46 before the samples, and of the chunk's text. *)
(***************************************************************************)
THEOREM WaveFilesComeBack == AiffSpec => []RoundTrip
<1>1. AudioInv => RoundTrip
  BY RoundTripLemma DEF AudioInv, AiffTypeOK, TypeOK, Rectangular, Sound, SameLengths
<1> QED
  BY <1>1, AudioInvariance, PTL

(***************************************************************************)
(* The same of Aiff files with 16, 24 and 32 bits, where 54 bytes precede  *)
(* the samples.                                                            *)
(***************************************************************************)
THEOREM AiffFilesComeBack == AiffSpec => []AiffRoundTrip
<1>1. AudioInv => AiffRoundTrip
  BY AiffRoundTripLemma DEF AudioInv, AiffTypeOK, TypeOK, Rectangular, Sound, SameLengths
<1> QED
  BY <1>1, AudioInvariance, PTL
=============================================================================
