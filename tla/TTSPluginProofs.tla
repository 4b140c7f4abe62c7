--------------------------- MODULE TTSPluginProofs ---------------------------
(***************************************************************************)
(* Theorems about the plugin end to end, for any number of calls, objects, *)
(* voices, sentences, files and descriptors.                               *)
(***************************************************************************)
EXTENDS TTSPlugin, TTSEngineProofs, SequenceTheorems

(***************************************************************************)
(* The inductive invariant.                                                *)
(***************************************************************************)

\* A call that was replied to, whether the reply has arrived or not.
Replied(i) == calls[i].outcome # "unknown"

\* A call the platform thread is through with.
Finished(i) == i < taken \/ (i = taken /\ pc = "idle")

\* Calls carry the arguments their names require.
ArgumentsInv ==
  \A i \in DOMAIN calls :
    /\ calls[i].op = "initialize" => calls[i].plugin \in Plugin
    /\ calls[i].op = "synthesize" => calls[i].ids \in Ids /\ calls[i].out \in Outfile
    /\ calls[i].op # "synthesize" => calls[i].out = None

\* The core is working on the call taken last, with its arguments.
HandlingInv ==
  /\ pc # "idle" => taken # 0
  /\ pc \in InitPC \cup {"initialized"} => Handling.op = "initialize"
  /\ pc \in InferPC \cup ExportPC \cup {"synthesized"} =>
       /\ Handling.op = "synthesize"
       /\ speak # None /\ speak.ids = Handling.ids /\ speak.out = Handling.out

\* Calls are replied to in order, and exactly those the thread is through with.
RepliedInv ==
  /\ \A i, j \in DOMAIN calls :
       /\ Replied(j) => calls[j].op # "dispose"
       /\ Replied(j) /\ i < j /\ calls[i].op # "dispose" => Replied(i)
  /\ alive = "up" => \A i \in DOMAIN calls :
       Replied(i) <=> calls[i].op # "dispose" /\ Finished(i)

\* What was replied has arrived or is under way, in order, and once.
RepliesInv ==
  /\ \A n \in DOMAIN replies : Replied(replies[n]) /\ calls[replies[n]].future = "pending"
  /\ \A n, o \in DOMAIN replies : n < o => replies[n] < replies[o]
  /\ \A i \in DOMAIN calls : calls[i].future = "done" =>
       Replied(i) /\ \A n \in DOMAIN replies : i < replies[n]
  /\ \A i \in DOMAIN calls : Replied(i) /\ calls[i].future = "pending" =>
       \E n \in DOMAIN replies : replies[n] = i

\* The last initialize that was taken determines what the core was given.
GivenInv ==
  alive = "up" => \A k \in 1 .. taken :
    calls[k].op = "initialize" /\ (\A j \in k + 1 .. taken : calls[j].op # "initialize") =>
      /\ given # None
      /\ given.melgen.file = MelgenOf[calls[k].plugin]
      /\ given.vocoder.file = VocoderOf[calls[k].plugin]
      /\ calls[k].outcome = "loaded" => Readable

\* A finished file stays until the thread takes a call with the same outfile.
FileInv ==
  \A i \in DOMAIN calls : \A k \in 1 .. i - 1 :
    /\ calls[i].op = "synthesize" /\ calls[i].outcome = "full"
    /\ LastInitialize(k, i) /\ calls[k].outcome = "loaded"
    /\ \A j \in i + 1 .. taken : calls[j].out # calls[i].out
    => files[calls[i].out] = SpeechOf(k, i)

\* The descriptors that initialize() has left open.
DescriptorInv == fds <= 2 * inits

PluginInv ==
  /\ TypeOK
  /\ CoreInv
  /\ ArgumentsInv
  /\ HandlingInv
  /\ RepliedInv
  /\ RepliesInv
  /\ GivenInv
  /\ FileInv
  /\ CrashOnlyUnprepared
  /\ DescriptorInv
  /\ LoadsWhileDescriptorsLast

-----------------------------------------------------------------------------
LEMMA PluginInitLemma == Init => PluginInv
<1> SUFFICES ASSUME Init PROVE PluginInv
  OBVIOUS
<1>1. CoreInv
  BY InitLemma DEF Init, EngineInv
<1>2. TypeOK
  BY <1>1, ConfigurationAssumption DEF Init, TypeOK, CoreInv
<1> QED
  BY <1>1, <1>2, ConfigurationAssumption
  DEF Init, EngineInit, PluginInv, ArgumentsInv, HandlingInv, RepliedInv, RepliesInv,
      GivenInv, FileInv, CrashOnlyUnprepared, DescriptorInv, LoadsWhileDescriptorsLast,
      InitPC, InferPC, ExportPC

(***************************************************************************)
(* A step of the isolate leaves the core alone.                            *)
(***************************************************************************)
LEMMA CoreFrameLemma == CoreInv /\ UNCHANGED engineVars => CoreInv' /\ (Readable' <=> Readable)
  BY DEF engineVars, heapVars, ioVars, CoreInv, EngineTypeOK, HeapInv, BuffersOutliveModels,
         ConstructorInv, LoadedInv, Loaded, InferenceInv, MelReady, AudioReady, MelOf, Readable

LEMMA PluginStutterLemma == PluginInv /\ UNCHANGED vars => PluginInv'
<1> SUFFICES ASSUME PluginInv, UNCHANGED vars PROVE PluginInv'
  OBVIOUS
<1>1. /\ UNCHANGED <<engineVars, calls, taken, replies, fds>>
      /\ UNCHANGED <<alive, pc, given, speak, inits, files>>
  BY DEF vars, pluginVars, engineVars, ioVars
<1>2. CoreInv' /\ (Readable' <=> Readable)
  BY <1>1, CoreFrameLemma DEF PluginInv
<1>3. TypeOK' /\ ArgumentsInv' /\ HandlingInv' /\ DescriptorInv'
  BY <1>1, <1>2
  DEF PluginInv, TypeOK, CoreInv, ArgumentsInv, HandlingInv, Handling, DescriptorInv
<1>4. RepliedInv' /\ RepliesInv'
  BY <1>1 DEF PluginInv, RepliedInv, RepliesInv, Replied, Finished
<1>5. GivenInv' /\ LoadsWhileDescriptorsLast'
  BY <1>1, <1>2 DEF PluginInv, GivenInv, LoadsWhileDescriptorsLast
<1>6. FileInv' /\ CrashOnlyUnprepared'
  BY <1>1 DEF PluginInv, FileInv, CrashOnlyUnprepared, LastInitialize, SpeechOf, Handling
<1> QED
  BY <1>2, <1>3, <1>4, <1>5, <1>6 DEF PluginInv

(***************************************************************************)
(* What was said of finished files still holds when the calls so far keep  *)
(* what they asked for and how they ended, and no file changes.            *)
(***************************************************************************)
CallsKept ==
  /\ DOMAIN calls = 1 .. Len(calls) /\ DOMAIN calls' = 1 .. Len(calls')
  /\ Len(calls) \in Nat /\ Len(calls') \in Nat /\ Len(calls) <= Len(calls')
  /\ taken \in 0 .. Len(calls) /\ taken' \in taken .. Len(calls')
  /\ \A i \in DOMAIN calls :
       /\ calls'[i].op = calls[i].op /\ calls'[i].plugin = calls[i].plugin
       /\ calls'[i].ids = calls[i].ids /\ calls'[i].out = calls[i].out
       /\ calls'[i].outcome = calls[i].outcome

LEMMA FileFrameLemma ==
  ASSUME FileInv, CallsKept, files' = files,
         \A i \in DOMAIN calls' : i \notin DOMAIN calls => calls'[i].outcome = "unknown"
  PROVE  FileInv'
<1> SUFFICES ASSUME NEW i \in DOMAIN calls', NEW k \in 1 .. i - 1,
                    calls'[i].op = "synthesize", calls'[i].outcome = "full",
                    LastInitialize(k, i)', calls'[k].outcome = "loaded",
                    \A j \in i + 1 .. taken' : calls'[j].out # calls'[i].out
             PROVE  files'[calls'[i].out] = SpeechOf(k, i)'
  BY DEF FileInv
<1>1. i \in DOMAIN calls
  OBVIOUS
<1>2. i \in 1 .. Len(calls) /\ k \in Nat /\ k \in DOMAIN calls
  BY <1>1 DEF CallsKept
<1>3. \A j \in k + 1 .. i - 1 : j \in DOMAIN calls
  BY <1>2 DEF CallsKept
<1>4. LastInitialize(k, i) /\ SpeechOf(k, i)' = SpeechOf(k, i)
  BY <1>1, <1>2, <1>3 DEF LastInitialize, SpeechOf, CallsKept
<1>5. \A j \in i + 1 .. taken : j \in DOMAIN calls /\ j \in i + 1 .. taken'
  BY <1>2 DEF CallsKept
<1>6. \A j \in i + 1 .. taken : calls[j].out # calls[i].out
  BY <1>1, <1>5 DEF CallsKept
<1>7. /\ calls[i].op = "synthesize" /\ calls[i].outcome = "full" /\ calls[k].outcome = "loaded"
      /\ calls'[i].out = calls[i].out
  BY <1>1, <1>2 DEF CallsKept
<1> QED
  BY <1>1, <1>4, <1>6, <1>7 DEF FileInv

(***************************************************************************)
(* A new call comes after all others: nothing said of those changes.       *)
(***************************************************************************)
LEMMA InvokeLemma ==
  ASSUME NEW op \in {"initialize", "synthesize", "dispose"}, NEW p \in Plugin \cup {None},
         NEW ids \in Ids \cup {None}, NEW out \in Outfile \cup {None},
         op = "initialize" => p \in Plugin,
         op = "synthesize" => ids \in Ids /\ out \in Outfile,
         op # "synthesize" => out = None,
         PluginInv, Invoke(op, p, ids, out)
  PROVE  PluginInv'
<1> DEFINE c == [op |-> op, plugin |-> p, ids |-> ids, out |-> out,
                 future |-> "pending", outcome |-> "unknown"]
<1>1. /\ alive = "up" /\ calls \in Seq(CallRecord) /\ taken \in 0 .. Len(calls)
      /\ calls' = Append(calls, c) /\ c \in CallRecord
      /\ UNCHANGED <<engineVars, taken, replies, fds>>
  BY DEF PluginInv, TypeOK, Invoke, CallRecord
<1>2. /\ Len(calls') = Len(calls) + 1 /\ Len(calls) \in Nat
      /\ DOMAIN calls = 1 .. Len(calls) /\ DOMAIN calls' = 1 .. Len(calls')
      /\ \A i \in 1 .. Len(calls) : calls'[i] = calls[i]
      /\ calls'[Len(calls')] = c /\ calls' \in Seq(CallRecord)
  BY <1>1
<1>3. CoreInv' /\ (Readable' <=> Readable)
  BY <1>1, CoreFrameLemma DEF PluginInv
<1>4. TypeOK'
  BY <1>1, <1>2, <1>3 DEF PluginInv, TypeOK, CoreInv
<1>5. ArgumentsInv'
  BY <1>1, <1>2 DEF PluginInv, ArgumentsInv
<1>6. HandlingInv'
  BY <1>1, <1>2
  DEF PluginInv, HandlingInv, Handling, engineVars, InitPC, InferPC, ExportPC
<1>7. RepliedInv'
  BY <1>1, <1>2 DEF PluginInv, RepliedInv, Replied, Finished, engineVars
<1>8. RepliesInv'
  BY <1>1, <1>2 DEF PluginInv, TypeOK, RepliesInv, Replied
<1>9. GivenInv'
  BY <1>1, <1>2, <1>3 DEF PluginInv, GivenInv, engineVars
<1>10. FileInv'
  <2>1. CallsKept
    BY <1>1, <1>2 DEF CallsKept
  <2>2. files' = files /\ \A i \in DOMAIN calls' : i \notin DOMAIN calls => i = Len(calls')
    BY <1>1, <1>2 DEF engineVars
  <2> QED
    BY <1>2, <2>1, <2>2, FileFrameLemma DEF PluginInv
<1>11. CrashOnlyUnprepared' /\ DescriptorInv' /\ LoadsWhileDescriptorsLast'
  BY <1>1, <1>3
  DEF PluginInv, CrashOnlyUnprepared, DescriptorInv, LoadsWhileDescriptorsLast, engineVars
<1> QED
  BY <1>3, <1>4, <1>5, <1>6, <1>7, <1>8, <1>9, <1>10, <1>11 DEF PluginInv

\* Completing a Future changes nothing else of any call.
LEMMA CompletedLemma ==
  ASSUME TypeOK, NEW h \in DOMAIN calls, calls' = [calls EXCEPT ![h].future = "done"]
  PROVE  /\ calls' \in Seq(CallRecord) /\ Len(calls') = Len(calls)
         /\ DOMAIN calls = 1 .. Len(calls) /\ DOMAIN calls' = 1 .. Len(calls)
         /\ \A i \in DOMAIN calls :
              /\ calls'[i].op = calls[i].op /\ calls'[i].plugin = calls[i].plugin
              /\ calls'[i].ids = calls[i].ids /\ calls'[i].out = calls[i].out
              /\ calls'[i].outcome = calls[i].outcome
              /\ calls'[i].future = IF i = h THEN "done" ELSE calls[i].future
<1> DEFINE d == [calls[h] EXCEPT !.future = "done"]
<1>1. calls \in Seq(CallRecord) /\ DOMAIN calls = 1 .. Len(calls) /\ Len(calls) \in Nat
  BY LenProperties DEF TypeOK
<1>2. calls[h] \in CallRecord /\ h \in 1 .. Len(calls)
  BY <1>1, ElementOfSeq
<1>3. /\ d \in CallRecord
      /\ d.op = calls[h].op /\ d.plugin = calls[h].plugin /\ d.ids = calls[h].ids
      /\ d.out = calls[h].out /\ d.outcome = calls[h].outcome /\ d.future = "done"
  BY <1>2 DEF CallRecord
<1>4. calls' = [calls EXCEPT ![h] = d]
  OBVIOUS
<1> HIDE DEF d
<1>5. /\ calls' \in Seq(CallRecord) /\ Len(calls') = Len(calls)
      /\ \A i \in 1 .. Len(calls) : calls'[i] = IF i = h THEN d ELSE calls[i]
  BY <1>1, <1>2, <1>3, <1>4, ExceptSeq
<1>6. DOMAIN calls' = 1 .. Len(calls)
  BY <1>5, LenProperties
<1> QED
  BY <1>1, <1>3, <1>5, <1>6

(***************************************************************************)
(* The first reply arrives: it is the earliest call without its answer.    *)
(***************************************************************************)
LEMMA DeliverLemma == PluginInv /\ Deliver => PluginInv'
<1> SUFFICES ASSUME PluginInv, Deliver PROVE PluginInv'
  OBVIOUS
<1> DEFINE h == Head(replies)
<1>1. /\ alive = "up" /\ calls \in Seq(CallRecord) /\ taken \in 0 .. Len(calls)
      /\ replies \in Seq(Nat) /\ replies # << >> /\ h = replies[1] /\ h \in DOMAIN calls
      /\ calls' = [calls EXCEPT ![h].future = "done"]
      /\ replies' = Tail(replies)
      /\ UNCHANGED <<engineVars, taken, fds>>
  BY DEF PluginInv, TypeOK, Deliver
<1>2. /\ calls' \in Seq(CallRecord) /\ Len(calls') = Len(calls)
      /\ DOMAIN calls = 1 .. Len(calls) /\ DOMAIN calls' = 1 .. Len(calls)
      /\ \A i \in DOMAIN calls :
           /\ calls'[i].op = calls[i].op /\ calls'[i].plugin = calls[i].plugin
           /\ calls'[i].ids = calls[i].ids /\ calls'[i].out = calls[i].out
           /\ calls'[i].outcome = calls[i].outcome
           /\ calls'[i].future = IF i = h THEN "done" ELSE calls[i].future
  BY <1>1, CompletedLemma DEF PluginInv
<1>3. /\ replies' \in Seq(Nat) /\ DOMAIN replies = 1 .. Len(replies)
      /\ Len(replies) \in Nat \ {0} /\ DOMAIN replies' = 1 .. Len(replies) - 1
      /\ \A n \in DOMAIN replies' : replies'[n] = replies[n + 1]
  BY <1>1
<1>4. CoreInv' /\ (Readable' <=> Readable)
  BY <1>1, CoreFrameLemma DEF PluginInv
<1>5. TypeOK'
  BY <1>1, <1>2, <1>3, <1>4 DEF PluginInv, TypeOK, CoreInv
<1>6. ArgumentsInv' /\ HandlingInv'
  BY <1>1, <1>2 DEF PluginInv, TypeOK, ArgumentsInv, HandlingInv, Handling, engineVars
<1>7. RepliedInv'
  BY <1>1, <1>2 DEF PluginInv, RepliedInv, Replied, Finished, engineVars
<1>8. RepliesInv'
  <2>1. \A n \in DOMAIN replies : n # 1 => h < replies[n]
    BY <1>1, <1>3 DEF PluginInv, RepliesInv
  <2>0. \A n \in DOMAIN replies' :
          n \in Nat /\ n + 1 \in DOMAIN replies /\ n + 1 # 1 /\ replies'[n] = replies[n + 1]
    BY <1>3
  <2>2. \A n \in DOMAIN replies' :
          calls'[replies'[n]].outcome # "unknown" /\ calls'[replies'[n]].future = "pending"
    <3> TAKE n \in DOMAIN replies'
    <3>1. /\ replies[n + 1] \in DOMAIN calls /\ h < replies[n + 1] /\ replies[n + 1] \in Nat
          /\ Replied(replies[n + 1]) /\ calls[replies[n + 1]].future = "pending"
      BY <2>0, <2>1, <1>1, ElementOfSeq DEF PluginInv, TypeOK, RepliesInv
    <3>2. replies[n + 1] # h
      BY <3>1, <1>1, <1>2
    <3> QED
      BY <2>0, <3>1, <3>2, <1>2 DEF Replied
  <2>3. \A n, o \in DOMAIN replies' : n < o => replies'[n] < replies'[o]
    <3> SUFFICES ASSUME NEW n \in DOMAIN replies', NEW o \in DOMAIN replies', n < o
                 PROVE  replies[n + 1] < replies[o + 1]
      BY <2>0
    <3>1. n + 1 < o + 1 /\ n + 1 \in DOMAIN replies /\ o + 1 \in DOMAIN replies
      BY <2>0
    <3> QED
      BY <3>1 DEF PluginInv, RepliesInv
  <2>4. \A i \in DOMAIN calls' : calls'[i].future = "done" =>
          calls'[i].outcome # "unknown" /\ \A n \in DOMAIN replies' : i < replies'[n]
    BY <1>1, <1>2, <1>3, <2>1 DEF PluginInv, RepliesInv, Replied
  <2>5. \A i \in DOMAIN calls' : calls'[i].outcome # "unknown" /\ calls'[i].future = "pending" =>
          \E n \in DOMAIN replies' : replies'[n] = i
    <3> SUFFICES ASSUME NEW i \in DOMAIN calls, Replied(i), calls[i].future = "pending", i # h
                 PROVE  \E n \in DOMAIN replies' : replies'[n] = i
      BY <1>1, <1>2 DEF Replied
    <3>1. PICK n \in DOMAIN replies : replies[n] = i
      BY DEF PluginInv, RepliesInv
    <3>2. n - 1 \in DOMAIN replies' /\ replies'[n - 1] = i
      BY <1>1, <1>3, <3>1
    <3> QED
      BY <3>2
  <2> QED
    BY <2>2, <2>3, <2>4, <2>5 DEF RepliesInv, Replied
<1>9. GivenInv'
  <2>1. /\ UNCHANGED <<alive, given, taken>> /\ taken \in 0 .. Len(calls)
        /\ \A k \in 1 .. taken : k \in DOMAIN calls /\ \A j \in k + 1 .. taken : j \in DOMAIN calls
    BY <1>1, <1>2 DEF engineVars
  <2> QED
    BY <1>2, <1>4, <2>1 DEF PluginInv, GivenInv
<1>10. FileInv'
  <2>1. CallsKept
    BY <1>1, <1>2 DEF CallsKept
  <2>2. files' = files /\ \A i \in DOMAIN calls' : i \in DOMAIN calls
    BY <1>1, <1>2 DEF engineVars
  <2> QED
    BY <2>1, <2>2, FileFrameLemma DEF PluginInv
<1>11. CrashOnlyUnprepared' /\ DescriptorInv' /\ LoadsWhileDescriptorsLast'
  BY <1>1, <1>4
  DEF PluginInv, CrashOnlyUnprepared, DescriptorInv, LoadsWhileDescriptorsLast, engineVars
<1> QED
  BY <1>4, <1>5, <1>6, <1>7, <1>8, <1>9, <1>10, <1>11 DEF PluginInv

(***************************************************************************)
(* Taking a call leaves what was said of the earlier ones; and once the    *)
(* process has ended nothing is promised of the core.                      *)
(***************************************************************************)
LEMMA TakeLemma ==
  ASSUME NEW op, PluginInv, Take(op)
  PROVE  /\ alive = "up" /\ pc = "idle" /\ EngineInv
         /\ taken \in Nat /\ taken + 1 \in 1 .. Len(calls) /\ DOMAIN calls = 1 .. Len(calls)
         /\ calls' = calls /\ replies' = replies /\ taken' = taken + 1
         /\ Upcoming \in CallRecord /\ Upcoming.op = op /\ Upcoming.outcome = "unknown"
         /\ ArgumentsInv' /\ RepliesInv'
         /\ files' = files => FileInv'
<1>1. /\ alive = "up" /\ pc = "idle" /\ EngineInv
      /\ taken \in 0 .. Len(calls) /\ taken < Len(calls) /\ calls \in Seq(CallRecord)
      /\ calls' = calls /\ replies' = replies /\ taken' = taken + 1
      /\ Upcoming.op = op
  BY DEF PluginInv, TypeOK, EngineInv, CrashInv, Take, At
<1>2. DOMAIN calls = 1 .. Len(calls) /\ Len(calls) \in Nat
  BY <1>1, LenProperties
<1>3. taken \in Nat /\ taken + 1 \in 1 .. Len(calls)
  BY <1>1, <1>2
<1>4. Upcoming \in CallRecord
  BY <1>1, <1>3, ElementOfSeq DEF Upcoming
<1>5. Upcoming.outcome = "unknown"
  BY <1>1, <1>2, <1>3 DEF PluginInv, RepliedInv, Replied, Finished, Upcoming
<1>6. ArgumentsInv' /\ RepliesInv'
  BY <1>1 DEF PluginInv, ArgumentsInv, RepliesInv, Replied
<1>7. CallsKept
  BY <1>1, <1>2 DEF CallsKept
<1>8. files' = files => FileInv'
  BY <1>1, <1>7, FileFrameLemma DEF PluginInv
<1> QED
  BY <1>1, <1>2, <1>3, <1>4, <1>5, <1>6, <1>8

\* The process ends with the call just taken, which explains it if it is a fault.
LEMMA TakenAndEndedLemma ==
  ASSUME NEW op, PluginInv, Take(op), Exit \/ Crash, fds' = fds,
         alive' = "crash" => CrashOnlyUnprepared'
  PROVE  PluginInv'
<1>1. /\ alive = "up" /\ pc = "idle" /\ EngineInv
      /\ taken \in Nat /\ taken + 1 \in 1 .. Len(calls) /\ DOMAIN calls = 1 .. Len(calls)
      /\ calls' = calls /\ replies' = replies /\ taken' = taken + 1
      /\ ArgumentsInv' /\ RepliesInv' /\ (files' = files => FileInv')
  BY TakeLemma
<1>2. /\ alive' \in {"exit", "crash"}
      /\ UNCHANGED <<pc, given, inits, files>>
  BY DEF Exit, Crash, ioVars
<1>3. CoreInv'
  BY <1>1, ExitLemma, CoreCrashLemma DEF EngineInv
<1>4. TypeOK' /\ HandlingInv'
  BY <1>1, <1>2, <1>3
  DEF PluginInv, TypeOK, CoreInv, HandlingInv, InitPC, InferPC, ExportPC
<1>5. RepliedInv' /\ GivenInv' /\ DescriptorInv'
  BY <1>1, <1>2 DEF PluginInv, RepliedInv, Replied, GivenInv, DescriptorInv
<1>6. LoadsWhileDescriptorsLast' /\ CrashOnlyUnprepared'
  BY <1>2 DEF PluginInv, LoadsWhileDescriptorsLast, CrashOnlyUnprepared, Readable
<1> QED
  BY <1>1, <1>2, <1>3, <1>4, <1>5, <1>6 DEF PluginInv

LEMMA HandleInitializeLemma == PluginInv /\ HandleInitialize => PluginInv'
<1> SUFFICES ASSUME PluginInv, HandleInitialize PROVE PluginInv'
  OBVIOUS
<1> DEFINE m == MelgenOf[Upcoming.plugin]
           v == VocoderOf[Upcoming.plugin]
           mopen == fds < MaxFd
           vopen == v \in Bundled /\ fds + 1 < MaxFd
           mel == [file |-> m, good |-> mopen]
           voc == [file |-> v, good |-> vopen]
<1>1. Take("initialize")
  BY DEF HandleInitialize
<1>2. /\ alive = "up" /\ pc = "idle" /\ EngineInv
      /\ taken \in Nat /\ taken + 1 \in 1 .. Len(calls) /\ DOMAIN calls = 1 .. Len(calls)
      /\ calls' = calls /\ replies' = replies /\ taken' = taken + 1
      /\ Upcoming.op = "initialize" /\ Upcoming.outcome = "unknown"
      /\ ArgumentsInv' /\ RepliesInv' /\ (files' = files => FileInv')
  BY <1>1, TakeLemma
<1>3. Handling' = Upcoming /\ Upcoming = calls[taken + 1]
  BY <1>2 DEF Handling, Upcoming
<1>4. m \in Melgen /\ v \in Vocoder
  BY <1>2, <1>3, ConfigurationAssumption DEF PluginInv, ArgumentsInv
<1>5. CASE Exit /\ fds' = fds
  BY <1>1, <1>5, TakenAndEndedLemma DEF Exit
<1>6. CASE v \notin Bundled /\ Crash /\ fds' = fds
  <2>1. CrashOnlyUnprepared'
    BY <1>2, <1>3, <1>6 DEF CrashOnlyUnprepared
  <2> QED
    BY <1>1, <1>6, <2>1, TakenAndEndedLemma
<1>7. CASE /\ Initialize(mel, voc)
           /\ fds' = fds + (IF mopen THEN 1 ELSE 0) + (IF vopen THEN 1 ELSE 0)
  <2>1. mel \in MelgenStream /\ voc \in VocoderStream
    BY <1>4 DEF MelgenStream, VocoderStream
  <2>2. CoreInv'
    BY <1>2, <1>7, <2>1, InitializeLemma DEF EngineInv
  <2>3. /\ alive' = "up" /\ pc' = "read" /\ inits' = inits + 1 /\ files' = files
        /\ given' = [melgen |-> mel, vocoder |-> voc]
    BY <1>2, <1>7 DEF Initialize, ioVars
  <2> HIDE DEF m, v
  <2>4. /\ fds \in Nat /\ MaxFd \in Nat /\ fds <= MaxFd /\ fds <= 2 * inits /\ inits \in Nat
        /\ fds' \in fds .. fds + 2 /\ fds' <= MaxFd
    BY <1>7, MaxInitAssumption, ConfigurationAssumption
    DEF PluginInv, TypeOK, EngineTypeOK, DescriptorInv
  <2>5. TypeOK' /\ DescriptorInv'
    BY <1>2, <2>2, <2>3, <2>4 DEF PluginInv, TypeOK, CoreInv, DescriptorInv
  <2>6. HandlingInv'
    BY <1>2, <1>3, <2>3 DEF HandlingInv, InferPC, ExportPC
  <2>7. RepliedInv'
    BY <1>2, <2>3 DEF PluginInv, TypeOK, RepliedInv, Replied, Finished
  <2>8. GivenInv'
    <3> SUFFICES ASSUME NEW k \in 1 .. taken + 1, calls[k].op = "initialize",
                        \A j \in k + 1 .. taken + 1 : calls[j].op # "initialize"
                 PROVE  /\ k = taken + 1
                        /\ given' # None
                        /\ given'.melgen.file = MelgenOf[calls[k].plugin]
                        /\ given'.vocoder.file = VocoderOf[calls[k].plugin]
      BY <1>2, <1>3 DEF GivenInv
    <3>1. k = taken + 1
      BY <1>2, <1>3
    <3>2. given' \in Given
      BY <2>1, <2>3 DEF Given
    <3> QED
      BY <1>3, <2>3, <3>1, <3>2, NoneAssumption DEF m, v
  <2>9. LoadsWhileDescriptorsLast'
    <3>1. /\ given'.vocoder.file = v /\ given' # None
          /\ given'.melgen.good = mopen /\ given'.vocoder.good = vopen
      BY <2>1, <2>3, NoneAssumption DEF Given
    <3>2. 2 * inits' <= MaxFd => fds + 2 <= MaxFd
      BY <2>3, <2>4
    <3>3. fds + 2 <= MaxFd => fds < MaxFd /\ fds + 1 < MaxFd
      BY <2>4
    <3> QED
      BY <3>1, <3>2, <3>3 DEF LoadsWhileDescriptorsLast, Readable
  <2>10. CrashOnlyUnprepared'
    BY <2>3 DEF CrashOnlyUnprepared
  <2> QED
    BY <1>2, <2>2, <2>3, <2>5, <2>6, <2>7, <2>8, <2>9, <2>10 DEF PluginInv
<1> QED
  BY <1>5, <1>6, <1>7 DEF HandleInitialize

\* A call that is not an initialize leaves the last initialize the last.
LEMMA GivenFrameLemma ==
  ASSUME GivenInv, taken \in Nat, taken' = taken + 1, calls' = calls,
         calls[taken + 1].op # "initialize",
         alive' = "up" => alive = "up", given' = given
  PROVE  GivenInv'
<1> SUFFICES ASSUME alive' = "up", NEW k \in 1 .. taken + 1, calls[k].op = "initialize",
                    \A j \in k + 1 .. taken + 1 : calls[j].op # "initialize"
             PROVE  /\ given # None
                    /\ given.melgen.file = MelgenOf[calls[k].plugin]
                    /\ given.vocoder.file = VocoderOf[calls[k].plugin]
                    /\ calls[k].outcome = "loaded" => Readable
  BY DEF GivenInv, Readable
<1>1. k \in 1 .. taken /\ \A j \in k + 1 .. taken : j \in k + 1 .. taken + 1
  OBVIOUS
<1> QED
  BY <1>1 DEF GivenInv

LEMMA HandleSynthesizeLemma == PluginInv /\ HandleSynthesize => PluginInv'
<1> SUFFICES ASSUME PluginInv, HandleSynthesize PROVE PluginInv'
  OBVIOUS
<1> DEFINE ids == Upcoming.ids
           out == Upcoming.out
<1>1. Take("synthesize") /\ Synthesize(ids, out) /\ fds' = fds
  BY DEF HandleSynthesize
<1>2. /\ alive = "up" /\ pc = "idle" /\ EngineInv
      /\ taken \in Nat /\ taken + 1 \in 1 .. Len(calls) /\ DOMAIN calls = 1 .. Len(calls)
      /\ calls' = calls /\ replies' = replies /\ taken' = taken + 1
      /\ Upcoming.op = "synthesize" /\ Upcoming.outcome = "unknown"
      /\ ArgumentsInv' /\ RepliesInv' /\ (files' = files => FileInv')
  BY <1>1, TakeLemma
<1>3. Handling' = Upcoming /\ Upcoming = calls[taken + 1]
  BY <1>2 DEF Handling, Upcoming
<1>4. ids \in Ids /\ out \in Outfile
  BY <1>2, <1>3 DEF PluginInv, ArgumentsInv
<1>5. CASE Exit
  <2>1. CrashOnlyUnprepared'
    BY <1>5 DEF CrashOnlyUnprepared, Exit
  <2> QED
    BY <1>1, <1>5, <2>1, TakenAndEndedLemma
<1>6. CASE backend = "null" /\ Crash
  <2>1. ASSUME NEW k \in 1 .. taken, LastInitialize(k, taken + 1)
        PROVE  calls[k].outcome # "loaded"
    <3>1. calls[k].op = "initialize" /\ \A j \in k + 1 .. taken : calls[j].op # "initialize"
      BY <1>2, <2>1 DEF LastInitialize
    <3>2. calls[k].outcome = "loaded" => Readable
      BY <1>2, <3>1 DEF PluginInv, GivenInv
    <3>3. ~Readable
      BY <1>2, <1>6 DEF EngineInv, CoreInv, LoadedInv, InitPC
    <3> QED
      BY <3>2, <3>3
  <2>2. CrashOnlyUnprepared'
    BY <1>2, <1>3, <2>1 DEF CrashOnlyUnprepared, LastInitialize
  <2> QED
    BY <1>1, <1>6, <2>2, TakenAndEndedLemma
<1>7. CASE backend # "null" /\ ~Exit
  <2>1. CoreInv'
    BY <1>1, <1>2, <1>4, SynthesizeLemma DEF EngineInv
  <2>2. /\ alive' = "up" /\ pc' = "melgen_alloc" /\ speak' = [ids |-> ids, out |-> out]
        /\ UNCHANGED <<given, inits, files>>
    BY <1>1, <1>2, <1>7 DEF Synthesize
  <2>3. TypeOK' /\ DescriptorInv' /\ LoadsWhileDescriptorsLast' /\ CrashOnlyUnprepared'
    BY <1>1, <1>2, <2>1, <2>2
    DEF PluginInv, TypeOK, CoreInv, DescriptorInv, LoadsWhileDescriptorsLast, Readable,
        CrashOnlyUnprepared
  <2>4. HandlingInv'
    <3>1. speak' # None
      BY <1>4, <2>2, NoneAssumption DEF Speak
    <3> QED
      BY <1>2, <1>3, <2>2, <3>1 DEF HandlingInv, InitPC
  <2>5. RepliedInv'
    BY <1>2, <2>2 DEF PluginInv, TypeOK, RepliedInv, Replied, Finished
  <2>6. GivenInv'
    BY <1>2, <1>3, <2>2, GivenFrameLemma DEF PluginInv
  <2> QED
    BY <1>2, <2>1, <2>2, <2>3, <2>4, <2>5, <2>6 DEF PluginInv
<1> QED
  BY <1>1, <1>5, <1>6, <1>7 DEF Synthesize

LEMMA HandleDisposeLemma == PluginInv /\ HandleDispose => PluginInv'
<1> SUFFICES ASSUME PluginInv, HandleDispose PROVE PluginInv'
  OBVIOUS
<1>1. Take("dispose") /\ UNCHANGED engineVars /\ fds' = fds
  BY DEF HandleDispose
<1>2. /\ alive = "up" /\ pc = "idle"
      /\ taken \in Nat /\ taken + 1 \in 1 .. Len(calls) /\ DOMAIN calls = 1 .. Len(calls)
      /\ calls' = calls /\ replies' = replies /\ taken' = taken + 1
      /\ Upcoming.op = "dispose"
      /\ ArgumentsInv' /\ RepliesInv' /\ (files' = files => FileInv')
  BY <1>1, TakeLemma
<1>3. UNCHANGED <<alive, pc, given, inits, files>> /\ Upcoming = calls[taken + 1]
  BY <1>1 DEF engineVars, ioVars, Upcoming
<1>4. CoreInv' /\ (Readable' <=> Readable)
  BY <1>1, CoreFrameLemma DEF PluginInv
<1>5. TypeOK' /\ DescriptorInv' /\ LoadsWhileDescriptorsLast' /\ CrashOnlyUnprepared'
  BY <1>1, <1>2, <1>3, <1>4
  DEF PluginInv, TypeOK, CoreInv, DescriptorInv, LoadsWhileDescriptorsLast, CrashOnlyUnprepared
<1>6. HandlingInv'
  BY <1>2, <1>3 DEF HandlingInv, InitPC, InferPC, ExportPC
<1>7. RepliedInv'
  BY <1>2, <1>3 DEF PluginInv, RepliedInv, Replied, Finished
<1>8. GivenInv'
  BY <1>2, <1>3, GivenFrameLemma DEF PluginInv
<1> QED
  BY <1>2, <1>3, <1>4, <1>5, <1>6, <1>7, <1>8 DEF PluginInv

(***************************************************************************)
(* The steps inside a call stay inside it, and write its outfile only.     *)
(***************************************************************************)
LEMMA NativeFrameLemma ==
  ASSUME EngineTypeOK, EngineStep
  PROVE  /\ alive = "up" /\ UNCHANGED <<given, speak, inits>>
         /\ \/ pc \in InitPC /\ pc' \in InitPC \cup {"initialized"}
            \/ /\ pc \in InferPC \cup ExportPC
               /\ pc' \in InferPC \cup ExportPC \cup {"synthesized"}
         /\ \A f \in Outfile :
              files'[f] = files[f] \/ (pc \in ExportPC /\ f = speak.out)
<1>1. CASE ReadStreams
  BY <1>1 DEF ReadStreams, At, Exit, ioVars, InitPC
<1>2. CASE BuildModels
  BY <1>2 DEF BuildModels, At, Exit, ioVars, InitPC
<1>3. CASE AssignBackend
  BY <1>3 DEF AssignBackend, At, ioVars, InitPC
<1>4. CASE MelgenAllocate
  BY <1>4 DEF MelgenAllocate, At, Exit, Crash, ioVars, InferPC
<1>5. CASE MelgenRun
  BY <1>5 DEF MelgenRun, At, Exit, Crash, ioVars, InferPC
<1>6. CASE VocoderAllocate
  BY <1>6 DEF VocoderAllocate, At, Exit, Crash, ioVars, InferPC
<1>7. CASE VocoderRun
  BY <1>7 DEF VocoderRun, At, Exit, Crash, ioVars, InferPC, ExportPC
<1>8. CASE WavOpen
  BY <1>8 DEF EngineTypeOK, WavOpen, At, Exit, ioVars, ExportPC
<1>9. CASE WavWrite
  BY <1>9 DEF EngineTypeOK, WavWrite, At, ExportPC
<1> QED
  BY <1>1, <1>2, <1>3, <1>4, <1>5, <1>6, <1>7, <1>8, <1>9 DEF EngineStep

LEMMA NativeStepLemma == PluginInv /\ NativeStep => PluginInv'
<1> SUFFICES ASSUME PluginInv, NativeStep PROVE PluginInv'
  OBVIOUS
<1>1. /\ alive = "up" /\ UNCHANGED <<given, speak, inits, calls, taken, replies, fds>>
      /\ \/ pc \in InitPC /\ pc' \in InitPC \cup {"initialized"}
         \/ /\ pc \in InferPC \cup ExportPC
            /\ pc' \in InferPC \cup ExportPC \cup {"synthesized"}
      /\ \A f \in Outfile : files'[f] = files[f] \/ (pc \in ExportPC /\ f = speak.out)
  BY NativeFrameLemma DEF PluginInv, TypeOK, NativeStep, pluginVars
<1>2. EngineInv' /\ (Readable' <=> Readable)
  BY <1>1, EngineStepLemma
  DEF PluginInv, NativeStep, EngineInv, CrashInv, Readable
<1>3. /\ pc # "idle" /\ pc' # "idle" /\ taken # 0
      /\ pc \in ExportPC => pc \notin InitPC /\ Handling.out = speak.out
  BY <1>1 DEF PluginInv, HandlingInv, InitPC, InferPC, ExportPC
<1>4. TypeOK' /\ ArgumentsInv' /\ DescriptorInv' /\ LoadsWhileDescriptorsLast' /\ RepliesInv'
  BY <1>1, <1>2
  DEF PluginInv, TypeOK, EngineInv, CoreInv, ArgumentsInv, DescriptorInv,
      LoadsWhileDescriptorsLast, RepliesInv, Replied
<1>5. HandlingInv'
  BY <1>1, <1>3 DEF PluginInv, HandlingInv, Handling, InitPC, InferPC, ExportPC
<1>6. RepliedInv' /\ GivenInv'
  BY <1>1, <1>2, <1>3 DEF PluginInv, RepliedInv, Replied, Finished, GivenInv
<1>7. FileInv'
  <2> SUFFICES ASSUME NEW i \in DOMAIN calls, NEW k \in 1 .. i - 1,
                      calls[i].op = "synthesize", calls[i].outcome = "full",
                      LastInitialize(k, i), calls[k].outcome = "loaded",
                      \A j \in i + 1 .. taken : calls[j].out # calls[i].out
               PROVE  files'[calls[i].out] = SpeechOf(k, i)
    BY <1>1 DEF FileInv, LastInitialize, SpeechOf
  <2>1. files[calls[i].out] = SpeechOf(k, i) /\ calls[i].out \in Outfile
    BY DEF PluginInv, FileInv, ArgumentsInv
  <2>2. i \in Nat /\ taken \in Nat /\ i < taken
    BY <1>1, <1>3, LenProperties DEF PluginInv, TypeOK, RepliedInv, Replied, Finished
  <2>3. taken \in i + 1 .. taken
    BY <2>2
  <2>4. pc \in ExportPC => calls[i].out # speak.out
    BY <1>3, <2>3 DEF Handling
  <2> QED
    BY <1>1, <2>1, <2>4
<1>8. CrashOnlyUnprepared'
  <2> SUFFICES ASSUME alive' = "crash"
               PROVE  /\ Handling.op = "synthesize"
                      /\ \A k \in 1 .. taken - 1 :
                           LastInitialize(k, taken) => calls[k].outcome # "loaded"
    BY <1>1 DEF CrashOnlyUnprepared, Handling, LastInitialize
  <2>1. \/ pc' = "melgen_alloc" /\ fields'.melgen = 0
        \/ pc' = "vocoder_alloc" /\ fields'.vocoder = 0
    BY <1>2, <1>3 DEF EngineInv, CrashInv
  <2>2. ~Readable
    BY <1>2, <2>1 DEF EngineInv, CoreInv, LoadedInv, Loaded, InitPC
  <2>3. Handling.op = "synthesize"
    BY <1>1, <2>1 DEF PluginInv, HandlingInv, InitPC
  <2>4. ASSUME NEW k \in 1 .. taken - 1, LastInitialize(k, taken)
        PROVE  calls[k].outcome # "loaded"
    <3>1. /\ k \in 1 .. taken /\ calls[k].op = "initialize"
          /\ \A j \in k + 1 .. taken : j = taken \/ j \in k + 1 .. taken - 1
      BY <2>4 DEF PluginInv, TypeOK, LastInitialize
    <3>2. \A j \in k + 1 .. taken : calls[j].op # "initialize"
      BY <2>3, <2>4, <3>1 DEF LastInitialize, Handling
    <3> QED
      BY <1>1, <2>2, <3>1, <3>2 DEF PluginInv, GivenInv
  <2> QED
    BY <2>3, <2>4
<1> QED
  BY <1>2, <1>4, <1>5, <1>6, <1>7, <1>8 DEF PluginInv, EngineInv

(***************************************************************************)
(* The reply is to the call taken last: its outcome is known now.          *)
(***************************************************************************)
LEMMA ReplyLemma == PluginInv /\ Reply => PluginInv'
<1> SUFFICES ASSUME PluginInv, Reply PROVE PluginInv'
  OBVIOUS
<1> DEFINE o == IF pc = "synthesized" THEN saved ELSE IF Readable THEN "loaded" ELSE "unloaded"
           c == [calls[taken] EXCEPT !.outcome = o]
<1>1. /\ alive = "up" /\ pc \in {"initialized", "synthesized"} /\ pc' = "idle"
      /\ UNCHANGED <<alive, given, speak, inits, files, taken, fds>>
      /\ calls' = [calls EXCEPT ![taken] = c]
      /\ replies' = Append(replies, taken) /\ Return
  BY DEF Reply, Return, At, ioVars
<1>2. /\ calls \in Seq(CallRecord) /\ replies \in Seq(Nat)
      /\ DOMAIN calls = 1 .. Len(calls) /\ Len(calls) \in Nat
      /\ taken \in 1 .. Len(calls) /\ calls[taken] \in CallRecord
  <2>1. calls \in Seq(CallRecord) /\ replies \in Seq(Nat) /\ taken \in 0 .. Len(calls)
    BY DEF PluginInv, TypeOK
  <2>2. DOMAIN calls = 1 .. Len(calls) /\ Len(calls) \in Nat
    BY <2>1, LenProperties
  <2>3. taken \in 1 .. Len(calls)
    BY <1>1, <2>1, <2>2 DEF PluginInv, HandlingInv
  <2> QED
    BY <2>1, <2>2, <2>3, ElementOfSeq
<1>3. o \in {"loaded", "unloaded", "none", "closed", "short", "full"}
  BY DEF PluginInv, TypeOK, EngineTypeOK
<1>4. /\ c \in CallRecord /\ c.outcome = o /\ c.future = calls[taken].future
      /\ c.op = calls[taken].op /\ c.plugin = calls[taken].plugin
      /\ c.ids = calls[taken].ids /\ c.out = calls[taken].out
  BY <1>2, <1>3 DEF CallRecord
<1>5. /\ CoreInv' /\ CoreInv /\ (Readable' <=> Readable)
  BY <1>1, ReturnLemma DEF PluginInv, EngineInv, CrashInv, Readable
<1>6. /\ \/ calls[taken].op = "initialize" /\ pc = "initialized"
         \/ calls[taken].op = "synthesize" /\ pc = "synthesized"
      /\ pc = "synthesized" => speak.ids = calls[taken].ids /\ speak.out = calls[taken].out
  BY <1>1 DEF PluginInv, HandlingInv, Handling
<1> HIDE DEF c, o
<1>7. /\ calls' \in Seq(CallRecord) /\ Len(calls') = Len(calls) /\ DOMAIN calls' = 1 .. Len(calls)
      /\ \A i \in DOMAIN calls : calls'[i] = IF i = taken THEN c ELSE calls[i]
  <2>1. /\ calls' \in Seq(CallRecord) /\ Len(calls') = Len(calls)
        /\ \A i \in 1 .. Len(calls) : calls'[i] = IF i = taken THEN c ELSE calls[i]
    BY <1>1, <1>2, <1>4, ExceptSeq
  <2> QED
    BY <1>2, <2>1, LenProperties
<1>8. /\ replies' \in Seq(Nat) /\ Len(replies) \in Nat
      /\ DOMAIN replies = 1 .. Len(replies) /\ DOMAIN replies' = 1 .. Len(replies) + 1
      /\ \A n \in 1 .. Len(replies) : replies'[n] = replies[n]
      /\ replies'[Len(replies) + 1] = taken
  <2>1. /\ replies' \in Seq(Nat) /\ Len(replies') = Len(replies) + 1
        /\ \A n \in 1 .. Len(replies) : replies'[n] = replies[n]
        /\ replies'[Len(replies) + 1] = taken
    BY <1>1, <1>2, AppendProperties
  <2> QED
    BY <1>2, <2>1, LenProperties
<1>9. \A i \in DOMAIN calls : Replied(i) => i < taken
  BY <1>1, <1>2, <1>6 DEF PluginInv, RepliedInv, Finished
<1>10. TypeOK'
  BY <1>1, <1>2, <1>5, <1>7, <1>8 DEF PluginInv, TypeOK, CoreInv
<1>11. ArgumentsInv' /\ HandlingInv'
  BY <1>1, <1>2, <1>4, <1>7
  DEF PluginInv, ArgumentsInv, HandlingInv, InitPC, InferPC, ExportPC
<1>12. RepliedInv'
  <2>1. \A i \in DOMAIN calls' :
          /\ calls'[i].op = calls[i].op
          /\ calls'[i].outcome # "unknown" <=> Replied(i) \/ i = taken
    BY <1>2, <1>3, <1>4, <1>7 DEF Replied
  <2>2. \A i \in DOMAIN calls' :
          Replied(i) \/ i = taken <=> calls[i].op # "dispose" /\ i <= taken
    BY <1>1, <1>2, <1>6, <1>7, <1>9 DEF PluginInv, RepliedInv, Finished
  <2> QED
    BY <1>1, <1>2, <1>7, <2>1, <2>2 DEF RepliedInv, Replied, Finished
<1>13. RepliesInv'
  <2>1. ~Replied(taken) /\ calls[taken].future = "pending"
    BY <1>2, <1>9 DEF PluginInv, RepliesInv, CallRecord
  <2>2. \A i \in DOMAIN calls : calls'[i].future = calls[i].future
    BY <1>4, <1>7
  <2>3. \A i \in DOMAIN calls : calls'[i].outcome # "unknown" <=> Replied(i) \/ i = taken
    BY <1>2, <1>3, <1>4, <1>7 DEF Replied
  <2>4. \A n \in DOMAIN replies :
          /\ replies[n] \in DOMAIN calls /\ Replied(replies[n]) /\ replies[n] < taken
          /\ calls[replies[n]].future = "pending"
    BY <1>9 DEF PluginInv, TypeOK, RepliesInv
  <2>5. \A n \in DOMAIN replies' :
          \/ n \in DOMAIN replies /\ replies'[n] = replies[n]
          \/ n = Len(replies) + 1 /\ replies'[n] = taken
    BY <1>8
  <2>6. \A n \in DOMAIN replies' :
          calls'[replies'[n]].outcome # "unknown" /\ calls'[replies'[n]].future = "pending"
    BY <1>2, <2>1, <2>2, <2>3, <2>4, <2>5
  <2>7. \A m, n \in DOMAIN replies' : m < n => replies'[m] < replies'[n]
    <3> SUFFICES ASSUME NEW m \in DOMAIN replies', NEW n \in DOMAIN replies', m < n
                 PROVE  replies'[m] < replies'[n]
      OBVIOUS
    <3>1. m \in DOMAIN replies /\ replies'[m] = replies[m]
      BY <1>8
    <3>2. CASE n \in DOMAIN replies
      BY <1>8, <3>1, <3>2 DEF PluginInv, RepliesInv
    <3>3. CASE n = Len(replies) + 1
      BY <1>8, <2>4, <3>1, <3>3
    <3> QED
      BY <2>5, <3>2, <3>3
  <2>8. \A i \in DOMAIN calls' : calls'[i].future = "done" =>
          calls'[i].outcome # "unknown" /\ \A n \in DOMAIN replies' : i < replies'[n]
    BY <1>2, <1>7, <1>9, <2>2, <2>3, <2>5 DEF PluginInv, RepliesInv
  <2>9. \A i \in DOMAIN calls' : calls'[i].outcome # "unknown" /\ calls'[i].future = "pending" =>
          \E n \in DOMAIN replies' : replies'[n] = i
    <3> SUFFICES ASSUME NEW i \in DOMAIN calls, Replied(i) \/ i = taken,
                        calls[i].future = "pending"
                 PROVE  \E n \in DOMAIN replies' : replies'[n] = i
      BY <1>2, <1>7, <2>2, <2>3
    <3>1. CASE i = taken
      BY <1>8, <3>1
    <3>2. CASE Replied(i)
      <4>1. PICK n \in DOMAIN replies : replies[n] = i
        BY <3>2 DEF PluginInv, RepliesInv
      <4> QED
        BY <1>8, <4>1
    <3> QED
      BY <3>1, <3>2
  <2> QED
    BY <2>6, <2>7, <2>8, <2>9 DEF RepliesInv, Replied
<1>14. GivenInv'
  <2> SUFFICES ASSUME NEW k \in 1 .. taken, calls[k].op = "initialize",
                      \A j \in k + 1 .. taken : calls[j].op # "initialize"
               PROVE  /\ given # None
                      /\ given.melgen.file = MelgenOf[calls[k].plugin]
                      /\ given.vocoder.file = VocoderOf[calls[k].plugin]
                      /\ calls'[k].outcome = "loaded" => Readable
    <3>1. \A j \in 1 .. taken : j \in DOMAIN calls /\ calls'[j].op = calls[j].op
                                /\ calls'[j].plugin = calls[j].plugin
      BY <1>2, <1>4, <1>7
    <3>2. \A k \in 1 .. taken : k \in Nat /\ \A j \in k + 1 .. taken : j \in 1 .. taken
      BY <1>2
    <3> QED
      BY <1>1, <1>5, <3>1, <3>2 DEF GivenInv
  <2>1. /\ given # None
        /\ given.melgen.file = MelgenOf[calls[k].plugin]
        /\ given.vocoder.file = VocoderOf[calls[k].plugin]
        /\ calls[k].outcome = "loaded" => Readable
    BY <1>1 DEF PluginInv, GivenInv
  <2>2. calls'[k] = IF k = taken THEN c ELSE calls[k]
    BY <1>2, <1>7
  <2>3. k = taken => (c.outcome = "loaded" => Readable)
    BY <1>4, <1>6 DEF o
  <2> QED
    BY <2>1, <2>2, <2>3
<1>15. FileInv'
  <2> SUFFICES ASSUME NEW i \in DOMAIN calls', NEW k \in 1 .. i - 1,
                      calls'[i].op = "synthesize", calls'[i].outcome = "full",
                      LastInitialize(k, i)', calls'[k].outcome = "loaded",
                      \A j \in i + 1 .. taken : calls'[j].out # calls'[i].out
               PROVE  files[calls[i].out] = SpeechOf(k, i)
    <3>1. \A j \in DOMAIN calls' :
            /\ calls'[j].plugin = calls[j].plugin /\ calls'[j].ids = calls[j].ids
            /\ calls'[j].out = calls[j].out
      BY <1>4, <1>7
    <3>2. \A i \in DOMAIN calls' : \A k \in 1 .. i - 1 : k \in DOMAIN calls'
      BY <1>2, <1>7
    <3>3. \A i \in DOMAIN calls' : \A k \in 1 .. i - 1 : SpeechOf(k, i)' = SpeechOf(k, i)
      BY <3>1, <3>2 DEF SpeechOf
    <3> QED
      BY <1>1, <3>1, <3>3 DEF FileInv
  <2>1. /\ i \in 1 .. Len(calls) /\ k \in 1 .. Len(calls) /\ i \in Nat /\ k \in Nat
        /\ i \in DOMAIN calls /\ k \in DOMAIN calls
    BY <1>2, <1>7
  <2>2. i <= taken /\ k # taken
    BY <1>2, <1>7, <1>9, <2>1 DEF Replied
  <2>3. calls[i].op = "synthesize" /\ calls[k].op = "initialize" /\ calls[k].outcome = "loaded"
    BY <1>4, <1>7, <2>1, <2>2 DEF LastInitialize
  <2>4. LastInitialize(k, i)
    <3>1. \A j \in k + 1 .. i - 1 : j \in DOMAIN calls
      BY <1>2, <2>1
    <3> QED
      BY <1>4, <1>7, <2>1, <3>1 DEF LastInitialize
  <2>5. CASE i = taken
    <3>1. pc = "synthesized" /\ saved = "full"
      BY <1>4, <1>6, <1>7, <2>1, <2>3, <2>5 DEF o
    <3>2. files[speak.out] = fields.audio /\ AudioReady
      BY <1>5, <3>1 DEF CoreInv, InferenceInv
    <3>3. k \in 1 .. taken /\ \A j \in k + 1 .. taken : j = taken \/ j \in k + 1 .. i - 1
      BY <2>1, <2>2, <2>5
    <3>4. \A j \in k + 1 .. taken : calls[j].op # "initialize"
      BY <2>3, <2>4, <2>5, <3>3 DEF LastInitialize
    <3>5. /\ Readable
          /\ given.melgen.file = MelgenOf[calls[k].plugin]
          /\ given.vocoder.file = VocoderOf[calls[k].plugin]
      BY <1>1, <2>3, <3>3, <3>4 DEF PluginInv, GivenInv
    <3>6. Loaded
      BY <1>5, <3>1, <3>5 DEF CoreInv, LoadedInv
    <3>7. speak.ids = calls[i].ids /\ speak.out = calls[i].out
      BY <1>6, <2>5, <3>1
    <3> QED
      BY <3>2, <3>5, <3>6, <3>7 DEF AudioReady, MelOf, Loaded, SpeechOf
  <2>6. CASE i < taken
    <3>1. calls[i].outcome = "full"
      BY <1>7, <2>1, <2>6
    <3>2. \A j \in i + 1 .. taken : calls[j].out # calls[i].out
      <4>1. \A j \in i + 1 .. taken : j \in DOMAIN calls
        BY <1>2, <2>1
      <4> QED
        BY <1>4, <1>7, <2>1, <4>1
    <3> QED
      BY <2>1, <2>3, <2>4, <3>1, <3>2 DEF PluginInv, FileInv
  <2> QED
    BY <1>2, <2>1, <2>2, <2>5, <2>6
<1>16. CrashOnlyUnprepared' /\ DescriptorInv' /\ LoadsWhileDescriptorsLast'
  BY <1>1, <1>5
  DEF PluginInv, CrashOnlyUnprepared, DescriptorInv, LoadsWhileDescriptorsLast
<1> QED
  BY <1>5, <1>10, <1>11, <1>12, <1>13, <1>14, <1>15, <1>16 DEF PluginInv

-----------------------------------------------------------------------------
(***************************************************************************)
(* Theorems                                                                *)
(***************************************************************************)

\* Every step of either thread preserves the invariant.
LEMMA PluginStepLemma == PluginInv /\ [Next]_vars => PluginInv'
<1> SUFFICES ASSUME PluginInv, [Next]_vars PROVE PluginInv'
  OBVIOUS
<1>1. CASE \E p \in Plugin : InvokeInitialize(p)
  <2>1. PICK p \in Plugin : Invoke("initialize", p, None, None)
    BY <1>1 DEF InvokeInitialize
  <2> QED
    BY <2>1, InvokeLemma
<1>2. CASE \E ids \in Ids, outfile \in Outfile : InvokeSynthesize(ids, outfile)
  <2>1. PICK ids \in Ids, outfile \in Outfile : Invoke("synthesize", None, ids, outfile)
    BY <1>2 DEF InvokeSynthesize
  <2> QED
    BY <2>1, InvokeLemma
<1>3. CASE InvokeDispose
  BY <1>3, InvokeLemma DEF InvokeDispose
<1>4. CASE Deliver
  BY <1>4, DeliverLemma
<1>5. CASE HandleInitialize
  BY <1>5, HandleInitializeLemma
<1>6. CASE HandleSynthesize
  BY <1>6, HandleSynthesizeLemma
<1>7. CASE HandleDispose
  BY <1>7, HandleDisposeLemma
<1>8. CASE NativeStep
  BY <1>8, NativeStepLemma
<1>9. CASE Reply
  BY <1>9, ReplyLemma
<1>10. CASE UNCHANGED vars
  BY <1>10, PluginStutterLemma
<1> QED
  BY <1>1, <1>2, <1>3, <1>4, <1>5, <1>6, <1>7, <1>8, <1>9, <1>10 DEF Next, PlatformThread

(***************************************************************************)
(* Each part of the invariant holds of all behaviours of the two threads   *)
(* and the channel between them.                                           *)
(***************************************************************************)
THEOREM PluginInvariance == Spec => []PluginInv
  BY PluginInitLemma, PluginStepLemma, PTL DEF Spec

(***************************************************************************)
(* The variables keep their types; in particular no more than MaxFd        *)
(* descriptors are ever open and replies are to calls that were made.      *)
(***************************************************************************)
THEOREM PluginTypeCorrect == Spec => []TypeOK
<1>1. PluginInv => TypeOK
  BY DEF PluginInv
<1> QED
  BY <1>1, PluginInvariance, PTL

(***************************************************************************)
(* The channel and the handler keep the order of the calls, however many   *)
(* are outstanding: Futures complete in that order (dispose()'s apart).    *)
(***************************************************************************)
THEOREM RepliesKeepOrder == Spec => []FuturesCompleteInOrder
<1>1. PluginInv => FuturesCompleteInOrder
  <2> SUFFICES ASSUME PluginInv, NEW i \in DOMAIN calls, NEW j \in DOMAIN calls, i < j,
                      calls[j].future = "done", calls[i].op # "dispose",
                      calls[i].future # "done"
               PROVE  FALSE
    BY DEF FuturesCompleteInOrder
  <2>1. Replied(j) /\ \A n \in DOMAIN replies : j < replies[n]
    BY DEF PluginInv, RepliesInv
  <2>2. Replied(i)
    BY <2>1 DEF PluginInv, RepliedInv
  <2>3. i \in Nat /\ j \in Nat /\ calls[i].future = "pending"
    <3>1. calls \in Seq(CallRecord) /\ DOMAIN calls = 1 .. Len(calls)
      BY LenProperties DEF PluginInv, TypeOK
    <3>2. calls[i] \in CallRecord
      BY <3>1, ElementOfSeq
    <3> QED
      BY <3>1, <3>2 DEF CallRecord
  <2>4. PICK n \in DOMAIN replies : replies[n] = i
    BY <2>2, <2>3 DEF PluginInv, RepliesInv
  <2> QED
    BY <2>1, <2>3, <2>4
<1> QED
  BY <1>1, PluginInvariance, PTL

(***************************************************************************)
(* No reply is lost: once both threads are done, only dispose() hangs.     *)
(***************************************************************************)
THEOREM DisposeAloneHangs == Spec => []OnlyDisposeHangs
<1>1. PluginInv => OnlyDisposeHangs
  <2> SUFFICES ASSUME PluginInv, Quiescent, NEW i \in DOMAIN calls,
                      calls[i].future = "pending", calls[i].op # "dispose"
               PROVE  FALSE
    BY DEF OnlyDisposeHangs
  <2>1. i \in 1 .. taken
    BY LenProperties DEF PluginInv, TypeOK, Quiescent
  <2>2. Replied(i)
    BY <2>1 DEF PluginInv, TypeOK, RepliedInv, Finished, Quiescent
  <2>3. DOMAIN replies = {}
    BY DEF Quiescent
  <2> QED
    BY <2>2, <2>3 DEF PluginInv, RepliesInv
<1> QED
  BY <1>1, PluginInvariance, PTL

(***************************************************************************)
(* A completed synthesize() left the speech of its own arguments, by the   *)
(* models configured for the last initialize before it, in its file; and   *)
(* it stays there until a later synthesize is sent for the same file.      *)
(***************************************************************************)
THEOREM CompletedCallsHaveTheirFile == Spec => []FileOfCompletedCall
<1>1. PluginInv => FileOfCompletedCall
  <2> SUFFICES ASSUME PluginInv, NEW i \in DOMAIN calls, NEW k \in 1 .. i - 1,
                      calls[i].op = "synthesize", calls[i].outcome = "full",
                      LastInitialize(k, i), calls[k].outcome = "loaded",
                      \A j \in i + 1 .. Len(calls) : calls[j].out # calls[i].out
               PROVE  files[calls[i].out] = SpeechOf(k, i)
    BY DEF FileOfCompletedCall
  <2>1. i \in Nat /\ \A j \in i + 1 .. taken : j \in i + 1 .. Len(calls)
    BY LenProperties DEF PluginInv, TypeOK
  <2> QED
    BY <2>1 DEF PluginInv, FileInv
<1> QED
  BY <1>1, PluginInvariance, PTL

(***************************************************************************)
(* The handler faults only on a synthesize that no loaded initialize       *)
(* precedes directly, or on a vocoder that is not in the bundle.           *)
(***************************************************************************)
THEOREM PreparedCallsNeverCrash == Spec => []CrashOnlyUnprepared
<1>1. PluginInv => CrashOnlyUnprepared
  BY DEF PluginInv
<1> QED
  BY <1>1, PluginInvariance, PTL

(***************************************************************************)
(* An initialize leaks two descriptors at the most, so the first           *)
(* MaxFd \div 2 of them read the models that are in the bundle.            *)
(***************************************************************************)
THEOREM DescriptorsLast == Spec => []LoadsWhileDescriptorsLast
<1>1. PluginInv => LoadsWhileDescriptorsLast
  BY DEF PluginInv
<1> QED
  BY <1>1, PluginInvariance, PTL
=============================================================================
