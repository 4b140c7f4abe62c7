-------------------------- MODULE TTSServiceProofs --------------------------
(***************************************************************************)
(* TTSPlugin implements SpeechService, for any number of calls, objects,   *)
(* voices, sentences, files and descriptors.                               *)
(***************************************************************************)
EXTENDS TTSPluginService, TTSPluginProofs

\* What the service knows of a call.
RequestOf(i) ==
  [op |-> calls[i].op, plugin |-> calls[i].plugin, ids |-> calls[i].ids, out |-> calls[i].out]

\* The voice configured for the object that made call i.
VoiceOf(i) ==
  [melgen |-> MelgenOf[calls[i].plugin], vocoder |-> VocoderOf[calls[i].plugin]]

-----------------------------------------------------------------------------
(***************************************************************************)
(* The mapping                                                             *)
(***************************************************************************)

LEMMA MappingLemma ==
  ASSUME TypeOK
  PROVE  /\ DOMAIN calls = 1 .. Len(calls) /\ Len(calls) \in Nat /\ taken \in 0 .. Len(calls)
         /\ RequestsMade \in Seq(Service!Request) /\ Len(RequestsMade) = Len(calls)
         /\ \A i \in 1 .. Len(calls) :
              calls[i] \in CallRecord /\ RequestsMade[i] = RequestOf(i)
<1>1. calls \in Seq(CallRecord) /\ taken \in 0 .. Len(calls)
  BY DEF TypeOK
<1>2. DOMAIN calls = 1 .. Len(calls) /\ Len(calls) \in Nat
  BY <1>1, LenProperties
<1>3. \A i \in 1 .. Len(calls) : calls[i] \in CallRecord
  BY <1>1, ElementOfSeq
<1>4. \A i \in 1 .. Len(calls) : RequestOf(i) \in Service!Request
  BY <1>3 DEF CallRecord, RequestOf, Service!Request
<1>5. RequestsMade = [i \in 1 .. Len(calls) |-> RequestOf(i)]
  BY <1>2 DEF RequestsMade, RequestOf
<1>6. RequestsMade \in [1 .. Len(calls) -> Service!Request]
  BY <1>4, <1>5
<1>7. RequestsMade \in Seq(Service!Request)
  BY <1>2, <1>6, SeqDef
<1>8. Len(RequestsMade) = Len(calls)
  BY <1>2, <1>6, <1>7, LenProperties
<1> QED
  BY <1>1, <1>2, <1>3, <1>5, <1>7, <1>8

\* Replies and outcomes change nothing the service knows of the calls.
LEMMA RequestsFrameLemma ==
  ASSUME DOMAIN calls' = DOMAIN calls,
         \A i \in DOMAIN calls :
           /\ calls'[i].op = calls[i].op /\ calls'[i].plugin = calls[i].plugin
           /\ calls'[i].ids = calls[i].ids /\ calls'[i].out = calls[i].out
  PROVE  RequestsMade' = RequestsMade
  BY DEF RequestsMade

\* One initialize at most gives the voice.
LEMMA VoiceLemma ==
  ASSUME TypeOK, CallsPerformed \in 0 .. Len(calls), NEW k, VoiceGiver(k)
  PROVE  /\ VoiceNow = VoiceOf(k) /\ k \in DOMAIN calls
         /\ \A l : VoiceGiver(l) => l = k
<1>1. /\ k \in 1 .. CallsPerformed /\ k \in DOMAIN calls
      /\ DOMAIN calls = 1 .. Len(calls) /\ Len(calls) \in Nat
  BY MappingLemma DEF VoiceGiver
<1>2. ASSUME NEW l, VoiceGiver(l) PROVE l = k
  <2>1. l \in 1 .. CallsPerformed /\ k \in 1 .. CallsPerformed
    BY <1>2 DEF VoiceGiver
  <2>2. ~ (l < k) /\ ~ (k < l)
    BY <1>2, <2>1 DEF VoiceGiver
  <2> QED
    BY <1>1, <2>1, <2>2
<1>3. (CHOOSE l \in DOMAIN calls : VoiceGiver(l)) = k
  BY <1>1, <1>2
<1> QED
  BY <1>1, <1>2, <1>3 DEF VoiceNow, VoiceOf

(***************************************************************************)
(* The voice stays as long as no initialize takes effect.                  *)
(***************************************************************************)
LEMMA VoiceFrameLemma ==
  ASSUME TypeOK, TypeOK', CallsPerformed \in 0 .. Len(calls),
         CallsPerformed' \in 0 .. Len(calls'), Len(calls) <= Len(calls'),
         \/ CallsPerformed' = CallsPerformed
         \/ /\ CallsPerformed' = CallsPerformed + 1
            /\ calls'[CallsPerformed'].op # "initialize",
         \A i \in 1 .. CallsPerformed :
           /\ calls'[i].op = calls[i].op /\ calls'[i].plugin = calls[i].plugin
           /\ calls[i].op = "initialize" => calls'[i].outcome = calls[i].outcome
  PROVE  VoiceNow' = VoiceNow
<1>1. /\ DOMAIN calls = 1 .. Len(calls) /\ Len(calls) \in Nat
      /\ DOMAIN calls' = 1 .. Len(calls') /\ Len(calls') \in Nat
  <2>1. DOMAIN calls = 1 .. Len(calls) /\ Len(calls) \in Nat
    BY MappingLemma
  <2>2. calls' \in Seq(CallRecord)
    BY DEF TypeOK
  <2>3. DOMAIN calls' = 1 .. Len(calls') /\ Len(calls') \in Nat
    BY <2>2, LenProperties
  <2> QED
    BY <2>1, <2>3
<1> DEFINE n == CallsPerformed
           m == CallsPerformed'
<1>2. /\ n \in Nat /\ m \in Nat /\ n <= m
      /\ \A i \in 1 .. m : i \in 1 .. n \/ (i = m /\ calls'[i].op # "initialize")
      /\ \A i \in 1 .. n : i \in 1 .. m
  BY <1>1
<1>3. ASSUME NEW k, VoiceGiver(k) PROVE VoiceGiver(k)'
  <2>1. /\ k \in 1 .. n /\ calls[k].op = "initialize" /\ calls[k].outcome = "loaded"
        /\ \A j \in k + 1 .. n : calls[j].op # "initialize"
    BY <1>3 DEF VoiceGiver
  <2>2. \A j \in k + 1 .. m : j \in 1 .. m /\ (j \in 1 .. n => j \in k + 1 .. n)
    BY <1>2, <2>1
  <2>3. \A j \in k + 1 .. m : calls'[j].op # "initialize"
    BY <1>2, <2>1, <2>2
  <2> QED
    BY <1>2, <2>1, <2>3 DEF VoiceGiver
<1>4. ASSUME NEW k, VoiceGiver(k)' PROVE VoiceGiver(k)
  <2>1. /\ k \in 1 .. m /\ calls'[k].op = "initialize" /\ calls'[k].outcome = "loaded"
        /\ \A j \in k + 1 .. m : calls'[j].op # "initialize"
    BY <1>4 DEF VoiceGiver
  <2>2. k \in 1 .. n /\ calls[k].op = "initialize" /\ calls[k].outcome = "loaded"
    BY <1>2, <2>1
  <2>3. \A j \in k + 1 .. n : j \in 1 .. n /\ j \in k + 1 .. m
    BY <1>2, <2>1
  <2>4. \A j \in k + 1 .. n : calls[j].op # "initialize"
    BY <2>1, <2>3
  <2> QED
    BY <2>2, <2>4 DEF VoiceGiver
<1>5. CASE \E k : VoiceGiver(k)
  <2>1. PICK k : VoiceGiver(k)
    BY <1>5
  <2>2. VoiceNow = VoiceOf(k) /\ \A l : VoiceGiver(l) => l = k
    BY <2>1, VoiceLemma
  <2>3. VoiceGiver(k)' /\ (\A l : VoiceGiver(l)' => l = k) /\ k \in DOMAIN calls'
    BY <1>1, <1>2, <1>3, <1>4, <2>1, <2>2 DEF VoiceGiver
  <2>4. VoiceNow' = VoiceOf(k)'
    <3>1. (CHOOSE l \in DOMAIN calls' : VoiceGiver(l)') = k
      BY <2>3
    <3> QED
      BY <2>3, <3>1 DEF VoiceNow, VoiceOf
  <2>5. calls'[k].plugin = calls[k].plugin
    BY <2>1 DEF VoiceGiver
  <2> QED
    BY <2>2, <2>4, <2>5 DEF VoiceOf
<1>6. CASE \A k : ~VoiceGiver(k)
  <2>1. \A k : ~VoiceGiver(k)'
    BY <1>4, <1>6
  <2> QED
    BY <1>6, <2>1 DEF VoiceNow
<1> QED
  BY <1>5, <1>6
-----------------------------------------------------------------------------
(***************************************************************************)
(* Steps of the isolate                                                    *)
(***************************************************************************)

\* While the process runs, the calls up to the last one taken have taken effect,
\* or all but that one.
LEMMA UpLemma ==
  ASSUME PluginInv, alive = "up"
  PROVE  /\ CallsPerformed = IF pc \in {"idle", "synthesized"} THEN taken ELSE taken - 1
         /\ CallsPerformed \in 0 .. Len(calls) /\ taken \in 0 .. Len(calls)
         /\ pc # "idle" => taken \in 1 .. Len(calls)
         /\ DOMAIN calls = 1 .. Len(calls) /\ Len(calls) \in Nat
  BY MappingLemma DEF PluginInv, HandlingInv, CallsPerformed

LEMMA InvokeServiceLemma ==
  ASSUME NEW op \in {"initialize", "synthesize", "dispose"}, NEW p \in Plugin \cup {None},
         NEW ids \in Ids \cup {None}, NEW out \in Outfile \cup {None},
         PluginInv, PluginInv', Invoke(op, p, ids, out)
  PROVE  Service!Call
<1> DEFINE r == [op |-> op, plugin |-> p, ids |-> ids, out |-> out]
           c == [op |-> op, plugin |-> p, ids |-> ids, out |-> out,
                 future |-> "pending", outcome |-> "unknown"]
<1>1. /\ alive = "up" /\ calls \in Seq(CallRecord) /\ calls' = Append(calls, c)
      /\ c \in CallRecord /\ r \in Service!Request
      /\ UNCHANGED <<alive, pc, files, taken>>
  BY DEF PluginInv, TypeOK, Invoke, CallRecord, Service!Request, engineVars, ioVars
<1>2. /\ Len(calls') = Len(calls) + 1 /\ Len(calls) \in Nat
      /\ DOMAIN calls = 1 .. Len(calls) /\ DOMAIN calls' = 1 .. Len(calls')
      /\ \A i \in 1 .. Len(calls) : calls'[i] = calls[i]
      /\ calls'[Len(calls) + 1] = c
  BY <1>1
<1>3. RequestsMade' = Append(RequestsMade, r)
  <2>1. /\ RequestsMade \in Seq(Service!Request) /\ Len(RequestsMade) = Len(calls)
        /\ \A i \in 1 .. Len(calls) : RequestsMade[i] = RequestOf(i)
    BY MappingLemma DEF PluginInv
  <2>2. /\ Append(RequestsMade, r) \in Seq(Service!Request)
        /\ Len(Append(RequestsMade, r)) = Len(calls')
        /\ \A i \in 1 .. Len(calls) : Append(RequestsMade, r)[i] = RequestOf(i)
        /\ Append(RequestsMade, r)[Len(calls')] = r
    BY <1>1, <1>2, <2>1, AppendProperties
  <2>3. /\ RequestsMade' = [i \in 1 .. Len(calls') |-> RequestOf(i)']
        /\ RequestsMade' \in [1 .. Len(calls') -> Service!Request]
    <3>1. calls' \in Seq(CallRecord)
      BY DEF PluginInv, TypeOK
    <3>2. \A i \in 1 .. Len(calls') : calls'[i] \in CallRecord
      BY <3>1, ElementOfSeq
    <3>3. RequestsMade' = [i \in 1 .. Len(calls') |-> RequestOf(i)']
      BY <1>2 DEF RequestsMade, RequestOf
    <3>4. \A i \in 1 .. Len(calls') : RequestOf(i)' \in Service!Request
      BY <3>2 DEF CallRecord, RequestOf, Service!Request
    <3> QED
      BY <3>3, <3>4
  <2>4. RequestsMade' \in Seq(Service!Request) /\ Len(RequestsMade') = Len(calls')
    <3>1. Len(calls') \in Nat
      BY <1>2
    <3>2. RequestsMade' \in Seq(Service!Request)
      BY <2>3, <3>1, SeqDef
    <3> QED
      BY <2>3, <3>1, <3>2, LenProperties
  <2>5. \A i \in 1 .. Len(calls') : RequestsMade'[i] = Append(RequestsMade, r)[i]
    <3>1. \A i \in 1 .. Len(calls) : RequestOf(i)' = RequestOf(i)
      BY <1>2 DEF RequestOf
    <3>2. \A i : i = Len(calls) + 1 => RequestOf(i)' = r
      BY <1>2 DEF RequestOf
    <3>3. \A i \in 1 .. Len(calls') : i \in 1 .. Len(calls) \/ i = Len(calls) + 1
      BY <1>2
    <3> QED
      BY <1>2, <2>2, <2>3, <3>1, <3>2, <3>3
  <2> QED
    BY <2>2, <2>4, <2>5, SeqEqual
<1>4. CallsPerformed' = CallsPerformed /\ CallsPerformed \in 0 .. Len(calls)
  BY <1>1, UpLemma DEF CallsPerformed
<1>5. CallsCompleted' = CallsCompleted
  BY <1>2 DEF CallsCompleted
<1>6. VoiceNow' = VoiceNow
  <2>1. /\ CallsPerformed' \in 0 .. Len(calls') /\ Len(calls) <= Len(calls')
        /\ \A i \in 1 .. CallsPerformed : calls'[i] = calls[i]
    BY <1>2, <1>4
  <2> QED
    BY <1>4, <2>1, VoiceFrameLemma DEF PluginInv
<1> HIDE DEF r
<1> QED
  BY <1>1, <1>3, <1>4, <1>5, <1>6 DEF Service!Call

(***************************************************************************)
(* The first reply under way completes the earliest open Future.           *)
(***************************************************************************)
LEMMA DeliverServiceLemma ==
  ASSUME PluginInv, PluginInv', Deliver
  PROVE  \E i \in 1 .. CallsPerformed : Service!Complete(i)
<1> DEFINE h == Head(replies)
<1>1. /\ alive = "up" /\ calls \in Seq(CallRecord) /\ replies \in Seq(Nat) /\ replies # << >>
      /\ h = replies[1] /\ 1 \in DOMAIN replies /\ DOMAIN replies = 1 .. Len(replies)
      /\ Len(replies) \in Nat /\ h \in DOMAIN calls
      /\ calls' = [calls EXCEPT ![h].future = "done"]
      /\ UNCHANGED <<alive, pc, files, taken>>
  BY DEF PluginInv, TypeOK, Deliver, engineVars, ioVars
<1>2. /\ CallsPerformed = IF pc \in {"idle", "synthesized"} THEN taken ELSE taken - 1
      /\ CallsPerformed \in 0 .. Len(calls) /\ taken \in 0 .. Len(calls)
      /\ DOMAIN calls = 1 .. Len(calls) /\ Len(calls) \in Nat
      /\ \A i \in DOMAIN calls : calls[i] \in CallRecord /\ RequestsMade[i] = RequestOf(i)
  BY <1>1, UpLemma, MappingLemma DEF PluginInv
<1>3. /\ DOMAIN calls' = DOMAIN calls /\ Len(calls') = Len(calls)
      /\ \A i \in DOMAIN calls :
           /\ calls'[i].op = calls[i].op /\ calls'[i].plugin = calls[i].plugin
           /\ calls'[i].ids = calls[i].ids /\ calls'[i].out = calls[i].out
           /\ calls'[i].outcome = calls[i].outcome
           /\ calls'[i].future = IF i = h THEN "done" ELSE calls[i].future
  BY <1>1, <1>2, CompletedLemma DEF PluginInv
<1> HIDE DEF h
<1>4. /\ Replied(h) /\ calls[h].future = "pending"
      /\ calls[h].op # "dispose" /\ Finished(h)
  BY <1>1 DEF PluginInv, RepliesInv, RepliedInv
<1>5. h \in 1 .. CallsPerformed
  BY <1>1, <1>2, <1>4 DEF Finished
<1>6. \A j \in 1 .. h - 1 : calls[j].op # "dispose" => calls[j].future = "done"
  <2> SUFFICES ASSUME NEW j \in 1 .. h - 1, calls[j].op # "dispose", calls[j].future # "done"
               PROVE  FALSE
    OBVIOUS
  <2>1. j \in DOMAIN calls /\ j < h /\ j \in Nat /\ h \in Nat
    BY <1>1, <1>2
  <2>2. Replied(j)
    BY <1>1, <1>4, <2>1 DEF PluginInv, RepliedInv
  <2>3. calls[j].future = "pending"
    BY <1>2, <2>1 DEF CallRecord
  <2>4. PICK n \in DOMAIN replies : replies[n] = j
    BY <2>1, <2>2, <2>3 DEF PluginInv, RepliesInv
  <2>5. n = 1 \/ 1 < n
    BY <1>1
  <2>6. n = 1 \/ replies[1] < replies[n]
    BY <1>1, <2>5 DEF PluginInv, RepliesInv
  <2> QED
    BY <1>1, <2>1, <2>4, <2>6
<1>7. RequestsMade' = RequestsMade
  BY <1>3, RequestsFrameLemma
<1>8. CallsPerformed' = CallsPerformed
  BY <1>1 DEF CallsPerformed
<1>9. CallsCompleted' = CallsCompleted \cup {h} /\ h \notin CallsCompleted
  BY <1>1, <1>3, <1>4 DEF CallsCompleted
<1>10. VoiceNow' = VoiceNow
  <2>1. /\ CallsPerformed' \in 0 .. Len(calls') /\ Len(calls) <= Len(calls')
        /\ \A i \in 1 .. CallsPerformed : i \in DOMAIN calls
    BY <1>2, <1>3, <1>8
  <2> QED
    BY <1>2, <1>3, <1>8, <2>1, VoiceFrameLemma DEF PluginInv
<1>11. Service!Complete(h)
  <2>1. RequestsMade[h].op # "dispose"
    BY <1>1, <1>4 DEF RequestsMade
  <2>2. \A j \in 1 .. h - 1 : RequestsMade[j].op # "dispose" => j \in CallsCompleted
    <3>1. \A j \in 1 .. h - 1 : j \in DOMAIN calls
      BY <1>1, <1>2
    <3> QED
      BY <1>6, <3>1 DEF RequestsMade, CallsCompleted
  <2> QED
    BY <1>1, <1>7, <1>8, <1>9, <1>10, <2>1, <2>2 DEF Service!Complete
<1> QED
  BY <1>5, <1>11
-----------------------------------------------------------------------------
(***************************************************************************)
(* Steps of the platform thread                                            *)
(***************************************************************************)

\* Steps inside a call, and those that take one, are not seen.
LEMMA UnseenLemma ==
  ASSUME PluginInv, PluginInv', alive = "up", alive' = "up",
         UNCHANGED <<calls, files>>, CallsPerformed' = CallsPerformed
  PROVE  UNCHANGED Service!vars
<1>1. RequestsMade' = RequestsMade /\ CallsCompleted' = CallsCompleted
  BY DEF RequestsMade, CallsCompleted
<1>2. VoiceNow' = VoiceNow
  <2>1. /\ CallsPerformed \in 0 .. Len(calls) /\ Len(calls) \in Nat
        /\ CallsPerformed' \in 0 .. Len(calls') /\ Len(calls) <= Len(calls')
    BY UpLemma
  <2> QED
    BY <2>1, VoiceFrameLemma DEF PluginInv
<1> QED
  BY <1>1, <1>2 DEF Service!vars

(***************************************************************************)
(* The process ends in the call that is due.  Of a fault, the invariant of *)
(* the next state tells why.                                               *)
(***************************************************************************)
LEMMA DieServiceLemma ==
  ASSUME PluginInv, PluginInv', alive = "up", alive' # "up",
         UNCHANGED <<calls, files>>, CallsPerformed' = CallsPerformed,
         taken' = CallsPerformed + 1, taken' \in 1 .. Len(calls),
         calls[taken'].op \in {"initialize", "synthesize"}
  PROVE  Service!Die
<1> DEFINE n == CallsPerformed + 1
<1>1. RequestsMade' = RequestsMade /\ CallsCompleted' = CallsCompleted
  BY DEF RequestsMade, CallsCompleted
<1>2. /\ CallsPerformed \in 0 .. Len(calls) /\ Len(calls) \in Nat
      /\ n \in DOMAIN calls /\ n = taken' /\ CallsPerformed < Len(calls)
      /\ DOMAIN calls = 1 .. Len(calls) /\ Len(RequestsMade) = Len(calls)
  BY UpLemma, MappingLemma DEF PluginInv
<1>3. VoiceNow' = VoiceNow
  <2>1. CallsPerformed' \in 0 .. Len(calls') /\ Len(calls) <= Len(calls')
    BY <1>2
  <2> QED
    BY <1>2, <2>1, VoiceFrameLemma DEF PluginInv
<1>4. RequestsMade[n].op = calls[n].op /\ RequestsMade[n].plugin = calls[n].plugin
  BY <1>2 DEF RequestsMade
<1>5. Service!Due("initialize") \/ Service!Due("synthesize")
  BY <1>2, <1>4 DEF Service!Due
<1>6. alive' \in {"exit", "crash"}
  BY DEF PluginInv, TypeOK, EngineTypeOK
<1>7. ASSUME alive' = "crash"
      PROVE  \/ calls[n].op = "initialize" /\ VocoderOf[calls[n].plugin] \notin Bundled
             \/ calls[n].op = "synthesize" /\ VoiceNow = None
  <2>1. \/ calls[n].op = "initialize" /\ VocoderOf[calls[n].plugin] \notin Bundled
        \/ /\ calls[n].op = "synthesize"
           /\ \A k \in 1 .. n - 1 : LastInitialize(k, n)' => calls[k].outcome # "loaded"
    BY <1>2, <1>7 DEF PluginInv, CrashOnlyUnprepared, Handling, LastInitialize
  <2>2. ASSUME calls[n].op = "synthesize",
               \A k \in 1 .. n - 1 : LastInitialize(k, n)' => calls[k].outcome # "loaded",
               NEW k \in DOMAIN calls, VoiceGiver(k)
        PROVE  FALSE
    <3>1. /\ k \in 1 .. CallsPerformed /\ calls[k].op = "initialize"
          /\ calls[k].outcome = "loaded"
          /\ \A j \in k + 1 .. CallsPerformed : calls[j].op # "initialize"
      BY <2>2 DEF VoiceGiver
    <3>2. n - 1 = CallsPerformed /\ k < n
      BY <1>2, <3>1
    <3>3. LastInitialize(k, n)'
      BY <1>2, <3>1, <3>2 DEF LastInitialize
    <3> QED
      BY <2>2, <3>1, <3>2, <3>3
  <2>3. (\A k \in DOMAIN calls : ~VoiceGiver(k)) => VoiceNow = None
    BY DEF VoiceNow
  <2> QED
    BY <2>1, <2>2, <2>3
<1> QED
  BY <1>1, <1>3, <1>4, <1>5, <1>6, <1>7 DEF Service!Die, Service!Now

LEMMA TakeServiceLemma ==
  ASSUME NEW op \in {"initialize", "synthesize"}, PluginInv, PluginInv', Take(op),
         UNCHANGED files, alive' = "up" => pc' \notin {"idle", "synthesized"}
  PROVE  Service!Die \/ UNCHANGED Service!vars
<1>1. /\ alive = "up" /\ pc = "idle" /\ taken \in Nat /\ taken + 1 \in 1 .. Len(calls)
      /\ calls' = calls /\ taken' = taken + 1 /\ calls[taken + 1].op = op
  BY TakeLemma DEF Upcoming
<1>2. CallsPerformed = taken /\ CallsPerformed' = CallsPerformed
  BY <1>1 DEF CallsPerformed
<1>3. CASE alive' = "up"
  BY <1>1, <1>2, <1>3, UnseenLemma
<1>4. CASE alive' # "up"
  BY <1>1, <1>2, <1>4, DieServiceLemma
<1> QED
  BY <1>3, <1>4

\* An initialize or synthesize takes effect later, or the process ends in it.
LEMMA HandleInitializeServiceLemma ==
  ASSUME PluginInv, PluginInv', HandleInitialize
  PROVE  Service!Die \/ UNCHANGED Service!vars
<1>1. Take("initialize") /\ UNCHANGED files /\ (alive' = "up" => pc' = "read")
  <2>1. Take("initialize") /\ alive = "up"
    BY DEF HandleInitialize, Take, At
  <2>2. CASE Exit \/ Crash
    BY <2>1, <2>2 DEF Exit, Crash, ioVars
  <2>3. CASE \E mel, voc : Initialize(mel, voc)
    BY <2>1, <2>3 DEF Initialize, ioVars
  <2> QED
    BY <2>1, <2>2, <2>3 DEF HandleInitialize
<1> QED
  BY <1>1, TakeServiceLemma

LEMMA HandleSynthesizeServiceLemma ==
  ASSUME PluginInv, PluginInv', HandleSynthesize
  PROVE  Service!Die \/ UNCHANGED Service!vars
<1>1. /\ Take("synthesize") /\ UNCHANGED files
      /\ alive' = "up" => pc' = "melgen_alloc"
  BY DEF HandleSynthesize, Take, At, Synthesize, Exit, Crash, ioVars
<1> QED
  BY <1>1, TakeServiceLemma

\* A dispose has no effect, at once.
LEMMA HandleDisposeServiceLemma ==
  ASSUME PluginInv, PluginInv', HandleDispose
  PROVE  Service!PerformDispose
<1>1. /\ alive = "up" /\ pc = "idle" /\ taken \in Nat /\ taken + 1 \in 1 .. Len(calls)
      /\ calls' = calls /\ taken' = taken + 1 /\ calls[taken + 1].op = "dispose"
      /\ UNCHANGED <<alive, pc, files>>
  BY TakeLemma DEF HandleDispose, Upcoming, engineVars, ioVars
<1>2. CallsPerformed = taken /\ CallsPerformed' = CallsPerformed + 1
  BY <1>1 DEF CallsPerformed
<1>3. /\ CallsPerformed \in 0 .. Len(calls) /\ CallsPerformed' \in 0 .. Len(calls')
      /\ Len(calls) \in Nat /\ Len(calls) <= Len(calls') /\ taken + 1 \in DOMAIN calls
      /\ Len(RequestsMade) = Len(calls)
  BY <1>1, <1>2, UpLemma, MappingLemma DEF PluginInv
<1>4. RequestsMade' = RequestsMade /\ CallsCompleted' = CallsCompleted
  BY <1>1 DEF RequestsMade, CallsCompleted
<1>5. VoiceNow' = VoiceNow
  BY <1>1, <1>2, <1>3, VoiceFrameLemma DEF PluginInv
<1>6. RequestsMade[CallsPerformed + 1].op = "dispose" /\ CallsPerformed < Len(RequestsMade)
  BY <1>1, <1>2, <1>3 DEF RequestsMade
<1> QED
  BY <1>1, <1>2, <1>4, <1>5, <1>6 DEF Service!PerformDispose, Service!Due, Service!Perform
(***************************************************************************)
(* Only the two statements of ExportWAV touch a file; the others go on or  *)
(* end the process.                                                        *)
(***************************************************************************)
LEMMA NativeKindsLemma ==
  ASSUME EngineStep
  PROVE  \/ alive' # "up" /\ UNCHANGED <<pc, files>>
         \/ alive' = "up" /\ UNCHANGED files /\ pc' \notin {"idle", "synthesized"}
         \/ WavOpen /\ ~Exit
         \/ WavWrite
<1>1. CASE ReadStreams
  BY <1>1 DEF ReadStreams, At, Exit, ioVars
<1>2. CASE BuildModels
  BY <1>2 DEF BuildModels, At, Exit, ioVars
<1>3. CASE AssignBackend
  BY <1>3 DEF AssignBackend, At, ioVars
<1>4. CASE MelgenAllocate
  BY <1>4 DEF MelgenAllocate, At, Exit, Crash, ioVars
<1>5. CASE MelgenRun
  BY <1>5 DEF MelgenRun, At, Exit, Crash, ioVars
<1>6. CASE VocoderAllocate
  BY <1>6 DEF VocoderAllocate, At, Exit, Crash, ioVars
<1>7. CASE VocoderRun
  BY <1>7 DEF VocoderRun, At, Exit, Crash, ioVars
<1>8. CASE WavOpen /\ Exit
  BY <1>8 DEF Exit, ioVars
<1> QED
  BY <1>1, <1>2, <1>3, <1>4, <1>5, <1>6, <1>7, <1>8 DEF EngineStep

(***************************************************************************)
(* The audio about to be written is what the service allows: the speech of *)
(* this call's ids by the voice, or some speech if there is none.          *)
(***************************************************************************)
LEMMA AudioLemma ==
  ASSUME PluginInv, alive = "up", pc \in ExportPC
  PROVE  fields.audio \in Service!Spoken
<1> DEFINE n == CallsPerformed + 1
<1>1. /\ CallsPerformed = taken - 1 /\ taken \in 1 .. Len(calls) /\ Len(calls) \in Nat
      /\ CallsPerformed \in 0 .. Len(calls) /\ n = taken /\ DOMAIN calls = 1 .. Len(calls)
  BY UpLemma DEF ExportPC
<1>2. /\ calls[taken].op = "synthesize" /\ speak.ids = calls[taken].ids
      /\ calls[taken].ids \in Ids /\ RequestsMade[n].ids = calls[taken].ids
  BY <1>1 DEF PluginInv, HandlingInv, Handling, ArgumentsInv, ExportPC, RequestsMade
<1>3. AudioReady /\ fields.audio \in AudioOf
  <2>1. AudioReady
    BY DEF PluginInv, CoreInv, InferenceInv
  <2>2. /\ melgens[fields.melgen].file \in Melgen /\ vocoders[fields.vocoder].file \in Vocoder
    BY <2>1, MaxInitAssumption
    DEF AudioReady, PluginInv, CoreInv, HeapInv, EngineTypeOK, MelgenObj, VocoderObj, Num
  <2> QED
    BY <1>2, <2>1, <2>2 DEF AudioReady, MelOf, AudioOf, Mel
<1>4. CASE \A k \in DOMAIN calls : ~VoiceGiver(k)
  BY <1>3, <1>4 DEF VoiceNow, Service!Spoken
<1>5. ASSUME NEW k \in DOMAIN calls, VoiceGiver(k)
      PROVE  fields.audio \in Service!Spoken
  <2>1. VoiceNow = VoiceOf(k)
    BY <1>1, <1>5, VoiceLemma DEF PluginInv
  <2>2. /\ k \in 1 .. CallsPerformed /\ calls[k].op = "initialize"
        /\ calls[k].outcome = "loaded"
        /\ \A j \in k + 1 .. CallsPerformed : calls[j].op # "initialize"
    BY <1>5 DEF VoiceGiver
  <2>3. k \in 1 .. taken /\ \A j \in k + 1 .. taken : j = taken \/ j \in k + 1 .. CallsPerformed
    BY <1>1, <2>2
  <2>4. \A j \in k + 1 .. taken : calls[j].op # "initialize"
    BY <1>2, <2>2, <2>3
  <2>5. /\ Readable
        /\ given.melgen.file = MelgenOf[calls[k].plugin]
        /\ given.vocoder.file = VocoderOf[calls[k].plugin]
    BY <2>2, <2>3, <2>4 DEF PluginInv, GivenInv
  <2>6. Loaded
    BY <2>5 DEF PluginInv, CoreInv, LoadedInv, ExportPC
  <2>7. fields.audio = [voc |-> VoiceNow.vocoder,
                        mel |-> [gen |-> VoiceNow.melgen, ids |-> RequestsMade[n].ids]]
    BY <1>2, <1>3, <2>1, <2>5, <2>6 DEF AudioReady, MelOf, Loaded, VoiceOf
  <2> QED
    BY <1>3, <2>7 DEF Service!Spoken, Service!Now
<1> QED
  BY <1>4, <1>5

LEMMA NativeStepServiceLemma ==
  ASSUME PluginInv, PluginInv', NativeStep
  PROVE  [Service!Next]_(Service!vars)
<1>1. /\ alive = "up" /\ EngineStep /\ UNCHANGED <<calls, taken, speak>>
      /\ pc \in InitPC \cup InferPC \cup ExportPC
  BY NativeFrameLemma DEF PluginInv, TypeOK, NativeStep, pluginVars
<1>2. /\ CallsPerformed = taken - 1 /\ taken \in 1 .. Len(calls) /\ Len(calls) \in Nat
      /\ CallsPerformed \in 0 .. Len(calls) /\ DOMAIN calls = 1 .. Len(calls)
      /\ Len(RequestsMade) = Len(calls) /\ CallsPerformed + 1 = taken
      /\ calls[taken].op \in {"initialize", "synthesize"}
      /\ pc \in ExportPC => calls[taken].op = "synthesize" /\ calls[taken].out = speak.out
  BY <1>1, UpLemma, MappingLemma
  DEF PluginInv, HandlingInv, Handling, InitPC, InferPC, ExportPC
<1>3. CASE alive' # "up" /\ UNCHANGED <<pc, files>>
  <2>1. CallsPerformed' = CallsPerformed
    BY <1>1, <1>2, <1>3 DEF CallsPerformed
  <2> QED
    BY <1>1, <1>2, <1>3, <2>1, DieServiceLemma DEF Service!Next
<1>4. CASE alive' = "up" /\ UNCHANGED files /\ pc' \notin {"idle", "synthesized"}
  <2>1. CallsPerformed' = CallsPerformed
    BY <1>1, <1>2, <1>4 DEF CallsPerformed
  <2> QED
    BY <1>1, <1>4, <2>1, UnseenLemma
<1>5. RequestsMade' = RequestsMade /\ CallsCompleted' = CallsCompleted
  BY <1>1 DEF RequestsMade, CallsCompleted
<1>6. ASSUME pc \in ExportPC
      PROVE  Service!Due("synthesize") /\ RequestsMade[CallsPerformed + 1].out = speak.out
  BY <1>1, <1>2, <1>6 DEF RequestsMade, Service!Due
<1>7. CASE (WavOpen /\ ~Exit) \/ WavWrite
  <2>0. alive' = "up" /\ pc \in ExportPC /\ pc' \in {"wav_write", "synthesized"}
    BY <1>7 DEF WavOpen, WavWrite, At, ExportPC
  <2>1. CallsPerformed' = IF pc' = "synthesized" THEN CallsPerformed + 1 ELSE CallsPerformed
    BY <1>1, <1>2, <2>0 DEF CallsPerformed
  <2>2. VoiceNow' = VoiceNow
    <3>1. CallsPerformed' \in 0 .. Len(calls') /\ Len(calls) <= Len(calls')
      BY <1>1, <1>2, <2>1
    <3>2. \/ CallsPerformed' = CallsPerformed
          \/ /\ CallsPerformed' = CallsPerformed + 1
             /\ calls'[CallsPerformed'].op # "initialize"
      BY <1>1, <1>2, <2>0, <2>1
    <3> QED
      BY <1>1, <1>2, <3>1, <3>2, VoiceFrameLemma DEF PluginInv
  <2>3. CASE WavOpen /\ ~Exit
    <3>2. CASE files' = [files EXCEPT ![speak.out] = Partial] /\ pc' = "wav_write"
      BY <1>1, <1>5, <1>6, <2>0, <2>1, <2>2, <3>2
      DEF Service!Next, Service!EmptyFile, Service!Now
    <3>3. CASE UNCHANGED files /\ pc' = "synthesized"
      <4>1. files' = [files EXCEPT ![speak.out] = files[speak.out]]
        BY <3>3 DEF PluginInv, TypeOK, EngineTypeOK
      <4> QED
        BY <1>1, <1>5, <1>6, <2>0, <2>1, <2>2, <3>3, <4>1
        DEF Service!Next, Service!PerformSynthesize, Service!Perform, Service!Now
    <3> QED
      BY <2>3, <3>2, <3>3 DEF WavOpen
  <2>4. CASE WavWrite
    <3>1. pc' = "synthesized"
      BY <2>4 DEF WavWrite
    <3>2. \E content \in Service!Spoken \cup {files[speak.out]} :
             files' = [files EXCEPT ![speak.out] = content]
      <4>1. fields.audio \in Service!Spoken
        BY <1>1, <2>0, AudioLemma
      <4>2. UNCHANGED files => files' = [files EXCEPT ![speak.out] = files[speak.out]]
        BY DEF PluginInv, TypeOK, EngineTypeOK
      <4> QED
        BY <2>4, <4>1, <4>2 DEF WavWrite
    <3> QED
      BY <1>1, <1>5, <1>6, <2>0, <2>1, <2>2, <3>1, <3>2
      DEF Service!Next, Service!PerformSynthesize, Service!Perform, Service!Now
  <2> QED
    BY <1>7, <2>3, <2>4
<1> QED
  BY <1>1, <1>3, <1>4, <1>7, NativeKindsLemma

(***************************************************************************)
(* The reply to an initialize is where it takes effect: if it loaded, its  *)
(* object's voice is the one from now on.  Nothing is seen of the reply to *)
(* a synthesize, whose file was finished before.                           *)
(***************************************************************************)
LEMMA ReplyServiceLemma ==
  ASSUME PluginInv, PluginInv', Reply
  PROVE  Service!PerformInitialize \/ UNCHANGED Service!vars
<1> DEFINE o == IF pc = "synthesized" THEN saved ELSE IF Readable THEN "loaded" ELSE "unloaded"
           c == [calls[taken] EXCEPT !.outcome = o]
<1>1. /\ alive = "up" /\ pc \in {"initialized", "synthesized"} /\ pc' = "idle"
      /\ UNCHANGED <<alive, files, taken>> /\ calls' = [calls EXCEPT ![taken] = c]
  BY DEF Reply, Return, At, ioVars
<1>2. /\ taken \in 1 .. Len(calls) /\ DOMAIN calls = 1 .. Len(calls) /\ Len(calls) \in Nat
      /\ CallsPerformed = IF pc = "synthesized" THEN taken ELSE taken - 1
      /\ CallsPerformed \in 0 .. Len(calls) /\ CallsPerformed' = taken
      /\ Len(RequestsMade) = Len(calls) /\ calls[taken] \in CallRecord
  BY <1>1, UpLemma, MappingLemma DEF PluginInv, CallsPerformed
<1>3. \/ pc = "initialized" /\ calls[taken].op = "initialize"
      \/ pc = "synthesized" /\ calls[taken].op = "synthesize"
  <2>1. pc \in {"initialized", "synthesized"}
    BY <1>1
  <2> QED
    BY <2>1 DEF PluginInv, HandlingInv, Handling
<1>4. /\ c.op = calls[taken].op /\ c.plugin = calls[taken].plugin /\ c.ids = calls[taken].ids
      /\ c.out = calls[taken].out /\ c.future = calls[taken].future
  BY <1>2 DEF CallRecord
<1> HIDE DEF c
<1>5. /\ DOMAIN calls' = DOMAIN calls
      /\ \A i \in DOMAIN calls : calls'[i] = IF i = taken THEN c ELSE calls[i]
  BY <1>1, <1>2
<1>6. Len(calls') = Len(calls)
  <2>1. calls' \in Seq(CallRecord)
    BY DEF PluginInv, TypeOK
  <2>2. Len(calls') \in Nat /\ 1 .. Len(calls') = 1 .. Len(calls)
    BY <1>2, <1>5, <2>1, LenProperties
  <2> QED
    BY <1>2, <2>2
<1>7. RequestsMade' = RequestsMade
  BY <1>4, <1>5, RequestsFrameLemma
<1>8. CallsCompleted' = CallsCompleted
  BY <1>4, <1>5 DEF CallsCompleted
<1>9. CASE pc = "synthesized"
  <2>1. /\ CallsPerformed' = CallsPerformed
        /\ \A i \in 1 .. CallsPerformed :
             /\ calls'[i].op = calls[i].op /\ calls'[i].plugin = calls[i].plugin
             /\ calls[i].op = "initialize" => calls'[i].outcome = calls[i].outcome
    BY <1>2, <1>3, <1>4, <1>5, <1>9
  <2>2. CallsPerformed' \in 0 .. Len(calls') /\ Len(calls) <= Len(calls')
    BY <1>2, <1>6
  <2>3. VoiceNow' = VoiceNow
    BY <1>2, <2>1, <2>2, VoiceFrameLemma DEF PluginInv
  <2> QED
    BY <1>1, <1>7, <1>8, <2>1, <2>3 DEF Service!vars
<1>10. CASE pc = "initialized"
  <2>1. CallsPerformed + 1 = taken /\ CallsPerformed' = CallsPerformed + 1
    BY <1>2, <1>10
  <2>2. calls'[taken].op = "initialize" /\ calls'[taken].plugin = calls[taken].plugin
    BY <1>2, <1>3, <1>4, <1>5, <1>10
  <2>3. ASSUME NEW k, VoiceGiver(k)' PROVE k = taken
    <3>1. k \in 1 .. taken /\ \A j \in k + 1 .. taken : calls'[j].op # "initialize"
      BY <1>2, <2>3 DEF VoiceGiver
    <3> QED
      BY <1>2, <2>2, <3>1
  <2>4. VoiceNow' \in {None, VoiceOf(taken)}
    <3>1. CASE \E k \in DOMAIN calls' : VoiceGiver(k)'
      <4>1. (CHOOSE k \in DOMAIN calls' : VoiceGiver(k)') = taken
        BY <2>3, <3>1
      <4> QED
        BY <1>1, <2>2, <3>1, <4>1 DEF VoiceNow, VoiceOf
    <3>2. CASE \A k \in DOMAIN calls' : ~VoiceGiver(k)'
      BY <3>2 DEF VoiceNow
    <3> QED
      BY <3>1, <3>2
  <2>5. /\ CallsPerformed < Len(RequestsMade)
        /\ RequestsMade[CallsPerformed + 1].op = "initialize"
        /\ RequestsMade[CallsPerformed + 1].plugin = calls[taken].plugin
    BY <1>2, <1>3, <1>10, <2>1 DEF RequestsMade
  <2> QED
    BY <1>1, <1>7, <1>8, <2>1, <2>4, <2>5
    DEF Service!PerformInitialize, Service!Due, Service!Now, Service!Perform, VoiceOf
<1> QED
  BY <1>1, <1>9, <1>10

-----------------------------------------------------------------------------
LEMMA ServiceInitLemma == Init => Service!Init
<1> SUFFICES ASSUME Init PROVE Service!Init
  OBVIOUS
<1>1. calls = << >> /\ DOMAIN calls = {} /\ taken = 0 /\ alive = "up" /\ pc = "idle"
  BY DEF Init, EngineInit
<1>2. RequestsMade = << >>
  <2>1. calls \in Seq(CallRecord) /\ Len(calls) = 0
    BY <1>1
  <2>2. RequestsMade = [i \in {} |-> calls[i]]
    BY <1>1 DEF RequestsMade
  <2> QED
    BY <1>1, <2>2
<1> QED
  BY <1>1, <1>2
  DEF Init, EngineInit, Service!Init, CallsPerformed, CallsCompleted, VoiceNow

LEMMA ServiceStepLemma ==
  PluginInv /\ PluginInv' /\ [Next]_vars => [Service!Next]_(Service!vars)
<1> SUFFICES ASSUME PluginInv, PluginInv', [Next]_vars
             PROVE  [Service!Next]_(Service!vars)
  OBVIOUS
<1>1. CASE \E p \in Plugin : InvokeInitialize(p)
  <2>1. PICK p \in Plugin : Invoke("initialize", p, None, None)
    BY <1>1 DEF InvokeInitialize
  <2> QED
    BY <2>1, InvokeServiceLemma DEF Service!Next
<1>2. CASE \E ids \in Ids, outfile \in Outfile : InvokeSynthesize(ids, outfile)
  <2>1. PICK ids \in Ids, outfile \in Outfile : Invoke("synthesize", None, ids, outfile)
    BY <1>2 DEF InvokeSynthesize
  <2> QED
    BY <2>1, InvokeServiceLemma DEF Service!Next
<1>3. CASE InvokeDispose
  BY <1>3, InvokeServiceLemma DEF InvokeDispose, Service!Next
<1>4. CASE Deliver
  BY <1>4, DeliverServiceLemma DEF Service!Next
<1>5. CASE HandleInitialize
  BY <1>5, HandleInitializeServiceLemma DEF Service!Next
<1>6. CASE HandleSynthesize
  BY <1>6, HandleSynthesizeServiceLemma DEF Service!Next
<1>7. CASE HandleDispose
  BY <1>7, HandleDisposeServiceLemma DEF Service!Next
<1>8. CASE NativeStep
  BY <1>8, NativeStepServiceLemma
<1>9. CASE Reply
  BY <1>9, ReplyServiceLemma DEF Service!Next
<1>10. CASE UNCHANGED vars
  BY <1>10 DEF vars, pluginVars, engineVars, ioVars, Service!vars, RequestsMade,
     CallsPerformed, CallsCompleted, VoiceNow, VoiceGiver
<1> QED
  BY <1>1, <1>2, <1>3, <1>4, <1>5, <1>6, <1>7, <1>8, <1>9, <1>10 DEF Next, PlatformThread

(***************************************************************************)
(* Two threads, a channel, a backend that is replaced under its callers    *)
(* and a heap: to callers they are a sequence of calls, each of which      *)
(* takes effect as a whole (files apart, which are emptied first), in the  *)
(* order they were made.                                                   *)
(***************************************************************************)
THEOREM PluginImplementsService == Spec => ImplementsService
  BY ServiceInitLemma, ServiceStepLemma, PluginInvariance, PTL
  DEF Spec, ImplementsService, Service!Spec
=============================================================================
