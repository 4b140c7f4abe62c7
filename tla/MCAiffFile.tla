----------------------------- MODULE MCAiffFile -----------------------------
(***************************************************************************)
(* AiffFile, and with it WavFile: extreme samples one at a time, and       *)
(* buffers of every shape in one value that no depth brings back as 0.     *)
(***************************************************************************)
EXTENDS AiffFile

\* Full scale, its neighbour and a sample beyond it; new samples of a longer buffer are silent.
MCExtremes == {-32768, 32767, 65536}

MCBuffers ==
  {<< <<s>> >> : s \in SampleValue}
    \cup UNION {[1 .. c -> {[i \in 1 .. n |-> 32767]}] : c \in 1 .. MaxChannels, n \in Length}
=============================================================================
