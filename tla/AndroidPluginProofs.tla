------------------------- MODULE AndroidPluginProofs -------------------------
(***************************************************************************)
(* Theorems about the plugin class on Android, for any number of calls on  *)
(* the two channels.                                                       *)
(***************************************************************************)
EXTENDS AndroidPlugin, TLAPS, SequenceTheorems

(***************************************************************************)
(* The inductive invariant.                                                *)
(***************************************************************************)

\* Only the attached plugin has a handler; while it is attached every call was made so.
AttachedInv ==
  /\ handlers \subseteq {HandlerChannel}
  /\ handlers # {} => attached
  /\ attached => \A i \in DOMAIN calls : calls[i].made = "attached"

\* The call that ended the process was taken, and DetachedCallsAreHarmless.
EndInv == process = "exit" => taken # 0 /\ calls[taken].made = "attached"

AndroidInv == TypeOK /\ AttachedInv /\ EndInv

-----------------------------------------------------------------------------
LEMMA AndroidInitLemma == Init => AndroidInv
  BY DEF Init, AndroidInv, TypeOK, AttachedInv, EndInv, Channel

LEMMA AndroidInvokeLemma ==
  ASSUME AndroidInv, NEW channel \in Channel, NEW method \in Method, NEW complete \in BOOLEAN,
         Invoke(channel, method, complete)
  PROVE  AndroidInv'
<1> DEFINE c == [channel |-> channel, method |-> method, complete |-> complete,
                 made |-> IF attached THEN "attached" ELSE "detached", future |-> "pending"]
<1>1. /\ calls \in Seq(Call) /\ taken \in 0 .. Len(calls) /\ process = "up"
      /\ replies \in Seq((1 .. Len(calls)) \X {"missing", "error"})
      /\ calls' = Append(calls, c) /\ c \in Call /\ (attached => c.made = "attached")
      /\ UNCHANGED <<process, handlers, attached, taken, replies>>
  BY DEF AndroidInv, TypeOK, Invoke, Call
<1> HIDE DEF c
<1>2. /\ calls' \in Seq(Call) /\ Len(calls') = Len(calls) + 1 /\ Len(calls) \in Nat
      /\ DOMAIN calls = 1 .. Len(calls) /\ DOMAIN calls' = 1 .. Len(calls) + 1
      /\ \A i \in 1 .. Len(calls) : calls'[i] = calls[i]
      /\ calls'[Len(calls) + 1] = c
  BY <1>1
<1>3. TypeOK'
  <2>1. replies \in Seq((1 .. Len(calls')) \X {"missing", "error"})
    BY <1>1, <1>2
  <2> QED
    BY <1>1, <1>2, <2>1 DEF AndroidInv, TypeOK
<1>4. AttachedInv'
  BY <1>1, <1>2 DEF AndroidInv, AttachedInv
<1> QED
  BY <1>1, <1>3, <1>4 DEF AndroidInv, EndInv

LEMMA DetachLemma == AndroidInv /\ onDetachedFromEngine => AndroidInv'
  BY DEF onDetachedFromEngine, AndroidInv, TypeOK, AttachedInv, EndInv

\* The thread takes a call; it can end the process only with the handler registered.
LEMMA AndroidThreadLemma == AndroidInv /\ PlatformThread => AndroidInv'
<1> SUFFICES ASSUME AndroidInv, PlatformThread PROVE AndroidInv'
  OBVIOUS
<1>1. /\ process = "up" /\ taken < Len(calls) /\ taken' = taken + 1
      /\ UNCHANGED <<handlers, attached, calls>>
      /\ \/ process' = "up" /\ (Answer("missing") \/ Answer("error"))
         \/ /\ process' = "exit" /\ replies' = replies
            /\ Upcoming.channel \in handlers
  BY DEF PlatformThread, Unhandled, onMethodCall, Take, Miss
<1>2. /\ calls \in Seq(Call) /\ Len(calls) \in Nat /\ DOMAIN calls = 1 .. Len(calls)
      /\ taken \in Nat /\ taken + 1 \in 1 .. Len(calls)
      /\ replies \in Seq((1 .. Len(calls)) \X {"missing", "error"})
  BY <1>1, LenProperties DEF AndroidInv, TypeOK
<1>3. TypeOK'
  <2> DEFINE Reply == (1 .. Len(calls)) \X {"missing", "error"}
             a == <<taken + 1, "missing">>
             b == <<taken + 1, "error">>
  <2>1. /\ a \in Reply /\ b \in Reply /\ replies \in Seq(Reply)
        /\ replies' \in {replies, Append(replies, a), Append(replies, b)}
    BY <1>1, <1>2 DEF Answer
  <2> HIDE DEF Reply, a, b
  <2>2. replies' \in Seq(Reply)
    BY <2>1, AppendProperties
  <2> QED
    BY <1>1, <1>2, <2>2 DEF AndroidInv, Reply, TypeOK
<1>4. AttachedInv'
  BY <1>1 DEF AndroidInv, AttachedInv
<1>5. EndInv'
  BY <1>1, <1>2 DEF AndroidInv, AttachedInv, EndInv
<1> QED
  BY <1>3, <1>4, <1>5 DEF AndroidInv

LEMMA AndroidDeliverLemma == AndroidInv /\ Deliver => AndroidInv'
<1> SUFFICES ASSUME AndroidInv, Deliver PROVE AndroidInv'
  OBVIOUS
<1> DEFINE h == Head(replies)[1]
           c == [calls[h] EXCEPT !.future = Head(replies)[2]]
<1>1. /\ process = "up" /\ replies # << >> /\ calls' = [calls EXCEPT ![h] = c]
      /\ replies' = Tail(replies) /\ UNCHANGED <<process, handlers, attached, taken>>
  BY DEF Deliver
<1>2. /\ calls \in Seq(Call) /\ Len(calls) \in Nat /\ DOMAIN calls = 1 .. Len(calls)
      /\ replies \in Seq((1 .. Len(calls)) \X {"missing", "error"})
  BY LenProperties DEF AndroidInv, TypeOK
<1>3. /\ Head(replies) \in (1 .. Len(calls)) \X {"missing", "error"}
      /\ Tail(replies) \in Seq((1 .. Len(calls)) \X {"missing", "error"})
  BY <1>1, <1>2
<1>4. h \in 1 .. Len(calls) /\ calls[h] \in Call
  BY <1>2, <1>3
<1>5. c \in Call /\ c.made = calls[h].made
  BY <1>3, <1>4 DEF Call
<1> HIDE DEF h, c
<1>6. /\ calls' \in Seq(Call) /\ Len(calls') = Len(calls)
      /\ \A i \in 1 .. Len(calls) : calls'[i] = IF i = h THEN c ELSE calls[i]
  BY <1>1, <1>2, <1>4, <1>5, ExceptSeq
<1>7. DOMAIN calls' = 1 .. Len(calls)
  BY <1>6, LenProperties
<1>8. TypeOK'
  BY <1>1, <1>3, <1>6 DEF AndroidInv, TypeOK
<1>9. AttachedInv'
  BY <1>1, <1>2, <1>5, <1>6, <1>7 DEF AndroidInv, AttachedInv
<1> QED
  BY <1>1, <1>8, <1>9 DEF AndroidInv, EndInv

(***************************************************************************)
(* The invariant holds of every use of the channels.                       *)
(***************************************************************************)
THEOREM AndroidInvariance == Spec => []AndroidInv
<1>1. AndroidInv /\ [Next]_vars => AndroidInv'
  <2>1. AndroidInv /\ UNCHANGED vars => AndroidInv'
    BY DEF vars, AndroidInv, TypeOK, AttachedInv, EndInv
  <2> QED
    BY <2>1, AndroidInvokeLemma, DetachLemma, AndroidThreadLemma, AndroidDeliverLemma DEF Next
<1> QED
  BY <1>1, AndroidInitLemma, PTL DEF Spec

(***************************************************************************)
(* The variables keep their types; every reply is to a call that was made. *)
(***************************************************************************)
THEOREM AndroidTypeCorrect == Spec => []TypeOK
<1>1. AndroidInv => TypeOK
  BY DEF AndroidInv
<1> QED
  BY <1>1, AndroidInvariance, PTL

(***************************************************************************)
(* A call made after the plugin was detached never gets to the native      *)
(* functions, though calls made before may be taken after it.              *)
(***************************************************************************)
THEOREM DetachedNeverExits == Spec => []DetachedCallsAreHarmless
<1>1. AndroidInv => DetachedCallsAreHarmless
  BY DEF AndroidInv, EndInv, DetachedCallsAreHarmless
<1> QED
  BY <1>1, AndroidInvariance, PTL
=============================================================================
