----------------------------- MODULE BakerProofs -----------------------------
(***************************************************************************)
(* Theorems about Baker.textToSequence, for texts and pronunciations of    *)
(* any length and content, any dictionary, with assertions and without.    *)
(***************************************************************************)
EXTENDS Baker, TLAPS, FiniteSetTheorems, SequenceTheorems

(***************************************************************************)
(* The inductive invariant.                                                *)
(***************************************************************************)
Pause     == {"0", "1", "2", "3"}
Strings   == STRING \cup Char \cup {""}   \* the provers know no literal in STRING
Symbol    == [kind : {"sil", "eos", "#", "initial", "final"}, of : Strings, tone : Strings]
Syllables == [body : STRING, tone : STRING]

\* The arguments are what they were; there are symbols, the last of which a test may look at.
ArgumentsInv ==
  /\ asserts \in BOOLEAN
  /\ text \in Seq(Char) /\ pinyin \in Seq(Syllables)
  /\ character = RemoveMark4(text)
  /\ result \in Seq(Symbol) /\ result # << >>

\* The tones in the result are those of the pronunciation.
ToneInv ==
  \A n \in DOMAIN result :
    result[n].kind = "final" => \E k \in DOMAIN pinyin : result[n].tone = pinyin[k].tone

\* Of a text whose marks are well formed, the marks in the result are pauses.
MarkInv ==
  MarksWellFormed => \A n \in DOMAIN result : result[n].kind = "#" => result[n].of \in Pause

(***************************************************************************)
(* The cursors are in step: as many pinyin have been consumed as Chinese   *)
(* characters - or one has gone in a mark that is in no table.             *)
(***************************************************************************)
CursorInv ==
  \/ j = Rank(ZH(character), i)
  \/ \E n \in DOMAIN result : result[n].kind = "#" /\ result[n].of \notin Pause

\* What has passed the checks after the loop.
EndInv ==
  /\ status \in {"lookup", "returned"} =>
       i = Len(character) /\ (asserts => j = Len(pinyin))
  /\ status = "returned" => \A n \in DOMAIN result : InTable(result[n])

\* Where the symbols of the syllables are, and the finals, in order.
Spoken == Ascending(SpeechAt)
Finals == Ascending(FinalAt)

\* The pinyin consumed have been spoken, in order.
SpokenInv ==
  /\ Cardinality(SpeechAt) = 2 * j
  /\ \A k \in 1 .. j : /\ result[Spoken[(2 * k) - 1]] = Initial(pinyin[k].body)
                       /\ result[Spoken[2 * k]] = Final(pinyin[k].body, pinyin[k].tone)

\* The pause after the character at n, by the text without its #4 marks.
PauseFrom(n) ==
  IF n + 2 <= Len(character) /\ character[n + 1] = "#" THEN character[n + 2] ELSE "0"

\* Two syllables have one pause between them.
BetweenInv ==
  /\ Cardinality(FinalAt) = j
  /\ result[1] = Sil
  /\ \A k \in 1 .. j - 1 : /\ result[Finals[k] + 1] = Mark(PauseFrom(Chinese(character)[k]))
                           /\ Finals[k + 1] = Finals[k] + 3

\* The last syllable has its pause, or its mark comes next, or nothing does.
LastInv ==
  /\ status = "scan" =>
       \/ j = 0 /\ Len(result) = 1
       \/ /\ j > 0 /\ Len(result) = Finals[j] /\ i = Chinese(character)[j]
          /\ i < Len(character) => character[i + 1] = "#"
       \/ /\ j > 0 /\ Len(result) = Finals[j] + 1
          /\ result[Len(result)] = Mark(PauseFrom(Chinese(character)[j]))
          /\ i < Len(character) => character[i + 1] # "#"
  /\ status = "lookup"   => result[Len(result)] = Sil
  /\ status = "returned" => result[Len(result) - 1] = Sil

PauseInv == MarksFollowCharacters => BetweenInv /\ LastInv

BakerInv ==
  /\ ArgumentsInv /\ TypeOK /\ ToneInv /\ MarkInv /\ CursorInv /\ EndInv /\ SpokenInv /\ PauseInv
  /\ WellFormedNeverThrows

-----------------------------------------------------------------------------
(***************************************************************************)
(* Sets of positions and their order.                                      *)
(***************************************************************************)

\* A set of positions is finite, and so is what is counted of it.
LEMMA CountLemma ==
  ASSUME NEW N \in Nat, NEW S, \A m \in S : m \in 1 .. N
  PROVE  /\ IsFiniteSet(S) /\ Cardinality(S) \in Nat
         /\ \A n \in Int : /\ IsFiniteSet({m \in S : m <= n})
                           /\ Rank(S, n) \in 0 .. Cardinality(S)
<1>1. IsFiniteSet(S)
  <2>1. S \in SUBSET (1 .. N) /\ IsFiniteSet(1 .. N)
    BY FS_Interval
  <2> QED
    BY <2>1, FS_Subset
<1>2. Cardinality(S) \in Nat
  BY <1>1, FS_CardinalityType
<1>3. ASSUME NEW n \in Int
      PROVE  IsFiniteSet({m \in S : m <= n}) /\ Rank(S, n) \in 0 .. Cardinality(S)
  <2> DEFINE T == {m \in S : m <= n}
  <2>1. T \in SUBSET S
    OBVIOUS
  <2> HIDE DEF T
  <2>2. IsFiniteSet(T) /\ Cardinality(T) <= Cardinality(S)
    BY <1>1, <2>1, FS_Subset
  <2>3. Cardinality(T) \in Nat
    BY <2>2, FS_CardinalityType
  <2> QED
    BY <1>2, <2>2, <2>3 DEF T, Rank
<1> QED
  BY <1>1, <1>2, <1>3

\* Positions are counted one by one.
LEMMA RankStepLemma ==
  ASSUME NEW N \in Nat, NEW S, \A m \in S : m \in 1 .. N, NEW n \in Nat
  PROVE  Rank(S, n + 1) = IF n + 1 \in S THEN Rank(S, n) + 1 ELSE Rank(S, n)
<1> DEFINE T == {m \in S : m <= n}
<1>1. IsFiniteSet(T) /\ n + 1 \notin T
  BY CountLemma
<1>2. n + 1 \in S => {m \in S : m <= n + 1} = T \cup {n + 1}
  OBVIOUS
<1>3. n + 1 \notin S => {m \in S : m <= n + 1} = T
  OBVIOUS
<1> HIDE DEF T
<1>4. Cardinality(T \cup {n + 1}) = Cardinality(T) + 1
  BY <1>1, FS_AddElement
<1> QED
  BY <1>2, <1>3, <1>4 DEF Rank, T

\* A later position has a higher rank, and one more if there is none between.
LEMMA RankOrderLemma ==
  ASSUME NEW N \in Nat, NEW S, \A m \in S : m \in 1 .. N, NEW m \in Int, NEW n \in Int, m <= n
  PROVE  /\ Rank(S, m) <= Rank(S, n)
         /\ m < n /\ n \in S => Rank(S, m) < Rank(S, n)
         /\ m < n /\ n \in S /\ (\A o \in S : o <= m \/ n <= o) => Rank(S, n) = Rank(S, m) + 1
         /\ (\A o \in S : o <= m \/ n < o) => Rank(S, n) = Rank(S, m)
<1> DEFINE T == {o \in S : o <= m}
           U == {o \in S : o <= n}
<1>1. IsFiniteSet(T) /\ IsFiniteSet(U) /\ T \in SUBSET U
  BY CountLemma
<1>2. m < n /\ n \in S => n \in U /\ n \notin T
  OBVIOUS
<1>3. m < n /\ n \in S /\ (\A o \in S : o <= m \/ n <= o) => U = T \cup {n}
  <2> SUFFICES ASSUME m < n, n \in S, \A o \in S : o <= m \/ n <= o PROVE U = T \cup {n}
    OBVIOUS
  <2>1. \A o \in S : o \in Int
    OBVIOUS
  <2>2. \A o \in S : o <= n <=> (o <= m \/ o = n)
    BY <2>1
  <2> QED
    BY <2>2
<1>4. (\A o \in S : o <= m \/ n < o) => U = T
  OBVIOUS
<1>5. Rank(S, m) = Cardinality(T) /\ Rank(S, n) = Cardinality(U)
  BY DEF Rank
<1>6. Cardinality(T) \in Nat /\ Cardinality(U) \in Nat
  BY <1>1, FS_CardinalityType
<1> HIDE DEF T, U
<1>7. Cardinality(T) <= Cardinality(U) /\ (Cardinality(T) = Cardinality(U) => T = U)
  BY <1>1, FS_Subset
<1>8. n \notin T => Cardinality(T \cup {n}) = Cardinality(T) + 1
  BY <1>1, FS_AddElement
<1>9. m < n /\ n \in S => Cardinality(T) < Cardinality(U)
  BY <1>2, <1>6, <1>7
<1>10. m < n /\ n \in S /\ (\A o \in S : o <= m \/ n <= o)
         => Cardinality(U) = Cardinality(T) + 1
  BY <1>2, <1>3, <1>8
<1> QED
  BY <1>4, <1>5, <1>7, <1>9, <1>10

\* Nothing comes before the first position, and all of them up to the last.
LEMMA RankEndsLemma ==
  ASSUME NEW N \in Nat, NEW S, \A m \in S : m \in 1 .. N
  PROVE  /\ Rank(S, 0) = 0
         /\ \A n \in Int : (\A m \in S : m <= n) => Rank(S, n) = Cardinality(S)
<1>1. {m \in S : m <= 0} = {}
  OBVIOUS
<1>2. \A n \in Int : (\A m \in S : m <= n) => {m \in S : m <= n} = S
  OBVIOUS
<1> QED
  BY <1>1, <1>2, FS_EmptySet DEF Rank

\* Ascending(S) is S in order: the k-th is the one of rank k.
LEMMA AscendingLemma ==
  ASSUME NEW N \in Nat, NEW S, \A m \in S : m \in 1 .. N
  PROVE  LET s == Ascending(S) IN
         /\ s \in Seq(S) /\ Len(s) = Cardinality(S) /\ DOMAIN s = 1 .. Cardinality(S)
         /\ \A k \in 1 .. Cardinality(S) : s[k] \in S /\ Rank(S, s[k]) = k
         /\ \A n \in S : Rank(S, n) \in 1 .. Cardinality(S) /\ s[Rank(S, n)] = n
         /\ \A k \in 1 .. Cardinality(S), l \in 1 .. Cardinality(S) : k < l => s[k] < s[l]
<1> DEFINE C == Cardinality(S)
           s == Ascending(S)
           f == [n \in S |-> Rank(S, n)]
<1>1. IsFiniteSet(S) /\ C \in Nat
  BY CountLemma
<1>ends. Rank(S, 0) = 0 /\ \A n \in Int : Rank(S, n) \in 0 .. C
  BY RankEndsLemma, CountLemma
<1>order. \A m, n \in Int : m < n /\ n \in S => Rank(S, m) < Rank(S, n)
  <2> TAKE m, n \in Int
  <2> HAVE m < n /\ n \in S
  <2>1. m <= n
    OBVIOUS
  <2> QED
    BY <2>1, RankOrderLemma
<1>2. \A n \in S : n \in Nat /\ n > 0 /\ Rank(S, n) \in 1 .. C
  <2> TAKE n \in S
  <2>1. n \in Nat /\ n > 0
    OBVIOUS
  <2>2. Rank(S, 0) < Rank(S, n)
    BY <1>order, <2>1
  <2> QED
    BY <1>1, <1>ends, <2>1, <2>2
<1> HIDE DEF C
<1>3. \A m, n \in S : Rank(S, m) = Rank(S, n) => m = n
  <2> TAKE m, n \in S
  <2>1. m \in Int /\ n \in Int /\ Rank(S, m) \in Int /\ Rank(S, n) \in Int
    BY <1>2
  <2>2. m < n => Rank(S, m) < Rank(S, n)
    BY <1>order, <2>1
  <2>3. n < m => Rank(S, n) < Rank(S, m)
    BY <1>order, <2>1
  <2> QED
    BY <2>1, <2>2, <2>3
<1>4. f \in Injection(S, 1 .. C)
  <2>1. f \in [S -> 1 .. C]
    BY <1>2
  <2>2. \A m, n \in S : f[m] = f[n] => m = n
    BY <1>3
  <2> HIDE DEF f
  <2> QED
    BY <2>1, <2>2, Zenon DEF Injection, IsInjective
<1> HIDE DEF f
<1>5. IsFiniteSet(1 .. C) /\ Cardinality(1 .. C) = C
  BY <1>1, FS_Interval
<1>6. f \in Surjection(S, 1 .. C)
  BY <1>4, <1>5, FS_Injection DEF C
<1>7. \A k \in 1 .. C : \E n \in S : Rank(S, n) = k
  BY <1>6 DEF Surjection, f
<1>8. DOMAIN s = 1 .. C /\ \A k \in 1 .. C : s[k] \in S /\ Rank(S, s[k]) = k
  BY <1>7 DEF Ascending, C
<1>9. s = [k \in 1 .. C |-> s[k]]
  BY DEF Ascending, C
<1> HIDE DEF s
<1>10. s \in Seq(S) /\ Len(s) = C
  BY <1>1, <1>8, <1>9
<1>11. \A n \in S : s[Rank(S, n)] = n
  BY <1>2, <1>3, <1>8
<1>12. ASSUME NEW k \in 1 .. C, NEW l \in 1 .. C, k < l PROVE s[k] < s[l]
  <2>1. s[k] \in Int /\ s[l] \in Int /\ Rank(S, s[k]) = k /\ Rank(S, s[l]) = l
    BY <1>2, <1>8
  <2>2. s[l] <= s[k] => l <= k
    BY <2>1, RankOrderLemma
  <2> QED
    BY <1>1, <1>12, <2>1, <2>2
<1> QED
  BY <1>2, <1>8, <1>10, <1>11, <1>12 DEF C, s

\* A position after all of S goes to the end.
LEMMA AscendingAppendLemma ==
  ASSUME NEW N \in Nat, NEW S, \A m \in S : m \in 1 .. N, NEW n \in Nat, n > N
  PROVE  /\ Cardinality(S) \in Nat /\ Cardinality(S \cup {n}) = Cardinality(S) + 1
         /\ \A k \in 1 .. Cardinality(S) : Ascending(S \cup {n})[k] = Ascending(S)[k]
         /\ Ascending(S \cup {n})[Cardinality(S) + 1] = n
<1> DEFINE C == Cardinality(S)
           T == S \cup {n}
           s == Ascending(S)
           t == Ascending(T)
<1>1. IsFiniteSet(S) /\ C \in Nat /\ n \notin S
  BY CountLemma
<1>2. \A m \in T : m \in 1 .. n
  OBVIOUS
<1>3. Cardinality(T) = C + 1
  BY <1>1, FS_AddElement
<1>4. \A m \in S : m \in Int /\ Rank(T, m) = Rank(S, m)
  <2> TAKE m \in S
  <2>1. {o \in T : o <= m} = {o \in S : o <= m} /\ m \in Int
    OBVIOUS
  <2> QED
    BY <2>1 DEF Rank
<1>5. Rank(T, n) = C + 1
  <2>1. \A m \in T : m <= n
    OBVIOUS
  <2> HIDE DEF T
  <2> QED
    BY <1>2, <1>3, <2>1, RankEndsLemma
<1>6. \A m \in T : t[Rank(T, m)] = m
  <2> HIDE DEF T
  <2> QED
    BY <1>2, AscendingLemma
<1>7. \A k \in 1 .. C : s[k] \in S /\ Rank(S, s[k]) = k
  BY AscendingLemma
<1> HIDE DEF s, t, C
<1>8. \A k \in 1 .. C : t[k] = s[k]
  BY <1>4, <1>6, <1>7
<1>9. t[C + 1] = n
  BY <1>5, <1>6
<1> QED
  BY <1>1, <1>3, <1>8, <1>9 DEF s, t, C

\* So do two of them.
LEMMA AscendingAppendTwoLemma ==
  ASSUME NEW N \in Nat, NEW S, \A m \in S : m \in 1 .. N
  PROVE  LET C == Cardinality(S)
             U == (S \cup {N + 1}) \cup {N + 2}
         IN
         /\ C \in Nat /\ Cardinality(U) = C + 2
         /\ \A k \in 1 .. C : Ascending(U)[k] = Ascending(S)[k]
         /\ Ascending(U)[C + 1] = N + 1 /\ Ascending(U)[C + 2] = N + 2
<1> DEFINE C == Cardinality(S)
           M == N + 1
           P == N + 2
           T == S \cup {M}
           U == T \cup {P}
<1>1. M \in Nat /\ M > N /\ P \in Nat /\ P > M /\ \A m \in T : m \in 1 .. M
  OBVIOUS
<1> HIDE DEF M, P
<1>2. /\ C \in Nat /\ Cardinality(T) = C + 1
      /\ \A k \in 1 .. C : Ascending(T)[k] = Ascending(S)[k]
      /\ Ascending(T)[C + 1] = M
  BY <1>1, AscendingAppendLemma
<1> HIDE DEF T
<1>3. /\ Cardinality(U) = Cardinality(T) + 1
      /\ \A k \in 1 .. Cardinality(T) : Ascending(U)[k] = Ascending(T)[k]
      /\ Ascending(U)[Cardinality(T) + 1] = P
  <2>1. /\ Cardinality(T \cup {P}) = Cardinality(T) + 1
    BY <1>1, AscendingAppendLemma
  <2>2. \A k \in 1 .. Cardinality(T) : Ascending(T \cup {P})[k] = Ascending(T)[k]
    BY <1>1, AscendingAppendLemma
  <2>3. Ascending(T \cup {P})[Cardinality(T) + 1] = P
    BY <1>1, AscendingAppendLemma
  <2> QED
    BY <2>1, <2>2, <2>3
<1> HIDE DEF U, C
<1>4. Cardinality(U) = C + 2 /\ Ascending(U)[C + 2] = P
  BY <1>2, <1>3
<1>5. \A k \in 1 .. C + 1 : Ascending(U)[k] = Ascending(T)[k]
  BY <1>2, <1>3
<1>6. C + 1 \in 1 .. C + 1 /\ \A k \in 1 .. C : k \in 1 .. C + 1
  BY <1>2
<1>7. Ascending(U)[C + 1] = M /\ \A k \in 1 .. C : Ascending(U)[k] = Ascending(S)[k]
  BY <1>2, <1>5, <1>6
<1> QED
  BY <1>2, <1>4, <1>7 DEF U, T, C, M, P

\* A map that keeps the order takes the k-th position to the k-th.
LEMMA AscendingMapLemma ==
  ASSUME NEW M \in Nat, NEW S, \A m \in S : m \in 1 .. M,
         NEW N \in Nat, NEW T, \A n \in T : n \in 1 .. N,
         NEW f,
         \A m \in S : f[m] \in T,
         \A n \in T : \E m \in S : f[m] = n,
         \A l \in S, m \in S : l < m => f[l] < f[m]
  PROVE  /\ Cardinality(T) = Cardinality(S)
         /\ \A m \in S : Rank(T, f[m]) = Rank(S, m)
         /\ \A k \in 1 .. Cardinality(S) : Ascending(T)[k] = f[Ascending(S)[k]]
<1>1. \A m \in S : m \in Int /\ f[m] \in Int
  OBVIOUS
<1>2. \A l \in S, m \in S : f[l] = f[m] => l = m
  <2> TAKE l \in S, m \in S
  <2>1. l < m => f[l] < f[m]
    OBVIOUS
  <2>2. m < l => f[m] < f[l]
    OBVIOUS
  <2> QED
    BY <1>1, <2>1, <2>2
<1>3. \A l \in S, m \in S : f[l] <= f[m] <=> l <= m
  <2> TAKE l \in S, m \in S
  <2>1. l < m => f[l] < f[m]
    OBVIOUS
  <2>2. m < l => f[m] < f[l]
    OBVIOUS
  <2> QED
    BY <1>1, <2>1, <2>2
<1>4. ASSUME NEW A, \A m \in A : m \in S, NEW B, \A n \in B : n \in T,
             \A m \in S : m \in A <=> f[m] \in B
      PROVE  Cardinality(B) = Cardinality(A)
  <2> DEFINE g == [m \in A |-> f[m]]
  <2>1. g \in [A -> B]
    BY <1>4
  <2>2. \A l, m \in A : g[l] = g[m] => l = m
    BY <1>2, <1>4
  <2>3. \A n \in B : \E m \in A : g[m] = n
    BY <1>4
  <2>4. IsFiniteSet(A) /\ IsFiniteSet(B)
    <3>1. IsFiniteSet(S) /\ IsFiniteSet(T)
      BY CountLemma
    <3>2. A \in SUBSET S /\ B \in SUBSET T
      BY <1>4
    <3> QED
      BY <3>1, <3>2, FS_Subset
  <2> HIDE DEF g
  <2>5. g \in Bijection(A, B)
    BY <2>1, <2>2, <2>3, Zenon DEF Bijection, Injection, Surjection, IsInjective
  <2>6. ExistsBijection(A, B)
    BY <2>5 DEF ExistsBijection
  <2> QED
    BY <2>4, <2>6, FS_Bijection
<1>5. Cardinality(T) = Cardinality(S)
  BY <1>4
<1>6. ASSUME NEW m \in S PROVE Rank(T, f[m]) = Rank(S, m)
  <2> DEFINE A == {l \in S : l <= m}
             B == {n \in T : n <= f[m]}
  <2>1. \A l \in S : l \in A <=> f[l] \in B
    BY <1>3
  <2>2. (\A l \in A : l \in S) /\ (\A n \in B : n \in T)
    OBVIOUS
  <2> HIDE DEF A, B
  <2>3. Cardinality(B) = Cardinality(A)
    BY <1>4, <2>1, <2>2
  <2> QED
    BY <2>3 DEF A, B, Rank
<1>7. ASSUME NEW k \in 1 .. Cardinality(S) PROVE Ascending(T)[k] = f[Ascending(S)[k]]
  <2>1. Ascending(S)[k] \in S /\ Rank(S, Ascending(S)[k]) = k
    BY AscendingLemma
  <2>2. \A n \in T : Ascending(T)[Rank(T, n)] = n
    BY AscendingLemma
  <2> QED
    BY <1>6, <2>1, <2>2
<1> QED
  BY <1>5, <1>6, <1>7

-----------------------------------------------------------------------------
(***************************************************************************)
(* What taking out the #4 marks does.                                      *)
(***************************************************************************)

\* The characters that stay come in order from From(t), and neighbours stay neighbours.
From(t) == Ascending(Kept(t))

LEMMA RemoveMark4Lemma ==
  ASSUME NEW t \in Seq(Char)
  PROVE  LET c == RemoveMark4(t) IN
         /\ c \in Seq(Char) /\ DOMAIN c = 1 .. Len(c)
         /\ \A p \in 1 .. Len(c) :
              /\ From(t)[p] \in Kept(t) /\ From(t)[p] \in 1 .. Len(t)
              /\ c[p] = t[From(t)[p]]
              /\ From(t)[p] + 1 \in Kept(t) => p < Len(c) /\ From(t)[p + 1] = From(t)[p] + 1
         /\ \A n \in Kept(t) : \E p \in 1 .. Len(c) : From(t)[p] = n
         /\ \A p \in 1 .. Len(c), q \in 1 .. Len(c) : p < q => From(t)[p] < From(t)[q]
<1> DEFINE S == Kept(t)
           s == From(t)
           c == RemoveMark4(t)
           C == Cardinality(S)
<1>1. Len(t) \in Nat /\ DOMAIN t = 1 .. Len(t) /\ \A n \in 1 .. Len(t) : t[n] \in Char
  OBVIOUS
<1>2. \A n \in S : n \in 1 .. Len(t)
  BY <1>1 DEF Kept
<1> HIDE DEF S
<1>3. C \in Nat
  BY <1>1, <1>2, CountLemma
<1>4. /\ DOMAIN s = 1 .. C
      /\ \A p \in 1 .. C : s[p] \in S /\ Rank(S, s[p]) = p
      /\ \A n \in S : Rank(S, n) \in 1 .. C /\ s[Rank(S, n)] = n
      /\ \A p \in 1 .. C, q \in 1 .. C : p < q => s[p] < s[q]
  BY <1>1, <1>2, AscendingLemma DEF From, S
<1>5. c = [p \in 1 .. C |-> t[s[p]]]
  BY <1>4 DEF RemoveMark4, From
<1> HIDE DEF s, c, C
<1>6. \A p \in 1 .. C : t[s[p]] \in Char
  BY <1>1, <1>2, <1>4
<1>7. c \in Seq(Char) /\ Len(c) = C /\ DOMAIN c = 1 .. C
  BY <1>3, <1>5, <1>6
<1>8. ASSUME NEW p \in 1 .. C, s[p] + 1 \in S PROVE p < C /\ s[p + 1] = s[p] + 1
  <2>1. s[p] \in Nat /\ Rank(S, s[p]) = p
    BY <1>2, <1>4
  <2>2. Rank(S, s[p] + 1) = p + 1
    BY <1>1, <1>2, <1>8, <2>1, RankStepLemma
  <2> QED
    BY <1>3, <1>4, <1>8, <2>2
<1> QED
  BY <1>2, <1>4, <1>5, <1>7, <1>8 DEF s, c, S

\* The Chinese characters all stay, and in their order.
LEMMA ChineseLemma ==
  ASSUME NEW t \in Seq(Char)
  PROVE  LET c == RemoveMark4(t) IN
         /\ \A n \in ZH(t) : n \in Kept(t)
         /\ \A p \in 1 .. Len(c) : p \in ZH(c) <=> From(t)[p] \in ZH(t)
         /\ Cardinality(ZH(c)) = Cardinality(ZH(t)) /\ Cardinality(ZH(t)) \in Nat
         /\ Len(Chinese(c)) = Cardinality(ZH(t)) /\ Len(Chinese(t)) = Cardinality(ZH(t))
         /\ \A k \in 1 .. Cardinality(ZH(t)) : Chinese(t)[k] = From(t)[Chinese(c)[k]]
<1> DEFINE s == From(t)
           c == RemoveMark4(t)
<1>1. Len(t) \in Nat /\ DOMAIN t = 1 .. Len(t)
  OBVIOUS
<1>2. /\ Len(c) \in Nat /\ DOMAIN c = 1 .. Len(c)
      /\ \A p \in 1 .. Len(c) : s[p] \in Kept(t) /\ s[p] \in 1 .. Len(t) /\ c[p] = t[s[p]]
      /\ \A n \in Kept(t) : \E p \in 1 .. Len(c) : s[p] = n
      /\ \A p \in 1 .. Len(c), q \in 1 .. Len(c) : p < q => s[p] < s[q]
  BY RemoveMark4Lemma
<1> HIDE DEF s, c
<1>3. \A n \in ZH(t) : n \in Kept(t)
  <2> TAKE n \in ZH(t)
  <2>1. n \in 1 .. Len(t) /\ t[n] # "#" /\ t[n] # "4"
    BY <1>1 DEF ZH, isZH
  <2>2. ~IsMark4(t, n)
    BY <2>1 DEF IsMark4
  <2>3. ~IsMark4(t, n - 1)
    BY <2>1 DEF IsMark4
  <2> QED
    BY <1>1, <2>1, <2>2, <2>3 DEF Kept
<1>4. \A p \in 1 .. Len(c) : p \in ZH(c) <=> s[p] \in ZH(t)
  BY <1>1, <1>2 DEF ZH
<1>5. /\ \A n \in ZH(t) : n \in 1 .. Len(t)
      /\ \A p \in ZH(c) : p \in 1 .. Len(c)
  BY <1>1, <1>2 DEF ZH
<1>6. /\ \A p \in ZH(c) : s[p] \in ZH(t)
      /\ \A n \in ZH(t) : \E p \in ZH(c) : s[p] = n
      /\ \A p \in ZH(c), q \in ZH(c) : p < q => s[p] < s[q]
  BY <1>2, <1>3, <1>4, <1>5
<1>7. /\ Cardinality(ZH(t)) = Cardinality(ZH(c))
      /\ \A k \in 1 .. Cardinality(ZH(c)) : Ascending(ZH(t))[k] = s[Ascending(ZH(c))[k]]
  BY <1>1, <1>2, <1>5, <1>6, AscendingMapLemma
<1>8. /\ Len(Ascending(ZH(t))) = Cardinality(ZH(t)) /\ Cardinality(ZH(t)) \in Nat
      /\ Len(Ascending(ZH(c))) = Cardinality(ZH(c))
  BY <1>1, <1>2, <1>5, AscendingLemma, CountLemma
<1> QED
  BY <1>3, <1>4, <1>7, <1>8 DEF Chinese, s, c

\* If the marks are well formed, those that stay are pauses.
LEMMA MarkStaysLemma ==
  ASSUME text \in Seq(Char), character = RemoveMark4(text), MarksWellFormed,
         NEW p \in 1 .. Len(character), character[p] = "#"
  PROVE  /\ p < Len(character) /\ character[p + 1] \in Pause
         /\ From(text)[p + 1] = From(text)[p] + 1
<1> DEFINE n == From(text)[p]
<1>1. /\ n \in Kept(text) /\ n \in 1 .. Len(text) /\ character[p] = text[n]
      /\ n + 1 \in Kept(text) => p < Len(character) /\ From(text)[p + 1] = n + 1
      /\ \A q \in 1 .. Len(character) : character[q] = text[From(text)[q]]
      /\ Len(character) \in Nat
  BY RemoveMark4Lemma
<1> HIDE DEF n
<1>2. Len(text) \in Nat /\ DOMAIN text = 1 .. Len(text)
  OBVIOUS
<1>3. n < Len(text) /\ text[n + 1] \in {"0", "1", "2", "3", "4"}
  BY <1>1, <1>2 DEF MarksWellFormed
<1>4. ~IsMark4(text, n)
  BY <1>1 DEF Kept
<1>5. text[n + 1] \in Pause
  BY <1>1, <1>2, <1>3, <1>4 DEF IsMark4, Pause
<1>6. ~IsMark4(text, n + 1)
  BY <1>3 DEF IsMark4
<1>7. n + 1 \in Kept(text)
  <2>1. (n + 1) - 1 = n /\ n + 1 \in 1 .. Len(text)
    BY <1>1, <1>2, <1>3
  <2> QED
    BY <1>2, <1>4, <1>6, <2>1 DEF Kept
<1>8. p + 1 \in 1 .. Len(character)
  BY <1>1, <1>7
<1> QED
  BY <1>1, <1>5, <1>7, <1>8 DEF n

\* If each mark follows a Chinese character, so do those that stay.
LEMMA MarkFollowsLemma ==
  ASSUME text \in Seq(Char), character = RemoveMark4(text), MarksFollowCharacters,
         NEW p \in 1 .. Len(character), character[p] = "#"
  PROVE  /\ p > 1 /\ isZH(character[p - 1])
         /\ From(text)[p] = From(text)[p - 1] + 1
<1> DEFINE n == From(text)[p]
<1>1. /\ n \in Kept(text) /\ n \in 1 .. Len(text) /\ character[p] = text[n]
      /\ Len(character) \in Nat
      /\ \A q \in 1 .. Len(character) :
           /\ character[q] = text[From(text)[q]]
           /\ From(text)[q] + 1 \in Kept(text)
                => q < Len(character) /\ From(text)[q + 1] = From(text)[q] + 1
      /\ \A m \in Kept(text) : \E q \in 1 .. Len(character) : From(text)[q] = m
      /\ \A q \in 1 .. Len(character) : From(text)[q] \in Int
      /\ \A q \in 1 .. Len(character), r \in 1 .. Len(character) :
           q < r => From(text)[q] < From(text)[r]
  BY RemoveMark4Lemma
<1> HIDE DEF n
<1>2. Len(text) \in Nat /\ DOMAIN text = 1 .. Len(text)
  OBVIOUS
<1>3. n > 1 /\ isZH(text[n - 1])
  BY <1>1, <1>2 DEF MarksFollowCharacters
<1>4. n - 1 \in ZH(text)
  BY <1>1, <1>2, <1>3 DEF ZH
<1>5. n - 1 \in Kept(text)
  BY <1>4, ChineseLemma
<1>6. PICK q \in 1 .. Len(character) : From(text)[q] = n - 1
  BY <1>1, <1>5
<1>7. q < Len(character) /\ From(text)[q + 1] = n
  <2>1. From(text)[q] + 1 = n
    BY <1>1, <1>6
  <2> QED
    BY <1>1, <2>1
<1>8. q + 1 = p
  <2>1. q + 1 \in 1 .. Len(character) /\ q + 1 \in Int /\ p \in Int /\ n \in Int
    BY <1>1, <1>7
  <2>2. q + 1 < p => From(text)[q + 1] < n
    BY <1>1, <2>1 DEF n
  <2>3. p < q + 1 => n < From(text)[q + 1]
    BY <1>1, <2>1 DEF n
  <2> QED
    BY <1>7, <2>1, <2>2, <2>3
<1>9. q = p - 1 /\ p > 1
  BY <1>8
<1> QED
  BY <1>1, <1>3, <1>6, <1>9 DEF n

\* The pause after the k-th character is the same with the #4 marks and without.
LEMMA PauseLemma ==
  ASSUME text \in Seq(Char), character = RemoveMark4(text), MarksFollowCharacters,
         NEW k \in 1 .. Cardinality(ZH(text))
  PROVE  PauseAfter(Chinese(text)[k]) = PauseFrom(Chinese(character)[k])
<1> DEFINE p == Chinese(character)[k]
           n == Chinese(text)[k]
<1>1. /\ Len(character) \in Nat /\ DOMAIN character = 1 .. Len(character)
      /\ Len(text) \in Nat /\ DOMAIN text = 1 .. Len(text)
      /\ MarksWellFormed
  BY RemoveMark4Lemma DEF MarksFollowCharacters
<1>2. \A q \in 1 .. Len(character) :
        /\ From(text)[q] \in Kept(text)
        /\ character[q] = text[From(text)[q]]
        /\ From(text)[q] + 1 \in Kept(text)
             => q < Len(character) /\ From(text)[q + 1] = From(text)[q] + 1
  BY RemoveMark4Lemma
<1>3. n = From(text)[p]
  BY ChineseLemma
<1>4. p \in 1 .. Len(character)
  <2>1. \A m \in ZH(character) : m \in 1 .. Len(character)
    BY <1>1 DEF ZH
  <2>2. k \in 1 .. Cardinality(ZH(character))
    BY ChineseLemma
  <2> QED
    BY <1>1, <2>1, <2>2, AscendingLemma DEF Chinese
<1>5. n \in 1 .. Len(text) /\ isZH(text[n])
  <2>1. \A m \in ZH(text) : m \in 1 .. Len(text)
    BY <1>1 DEF ZH
  <2>2. n \in ZH(text)
    BY <1>1, <2>1, AscendingLemma DEF Chinese
  <2> QED
    BY <1>1, <2>2 DEF ZH
<1> HIDE DEF p, n
<1>6. CASE n + 2 <= Len(text) /\ text[n + 1] = "#" /\ text[n + 2] # "4"
  <2>1. text[n + 2] \in {"0", "1", "2", "3", "4"}
    <3>1. n + 1 \in 1 .. Len(text) /\ (n + 1) + 1 = n + 2
      BY <1>1, <1>5, <1>6
    <3> QED
      BY <1>1, <1>6, <3>1 DEF MarksWellFormed
  <2>2. n + 1 \in Kept(text) /\ n + 2 \in Kept(text)
    <3>1. ~IsMark4(text, n)
      BY <1>5 DEF IsMark4, isZH
    <3>2. ~IsMark4(text, n + 1)
      <4>1. (n + 1) + 1 = n + 2
        BY <1>5
      <4> QED
        BY <1>6, <4>1 DEF IsMark4
    <3>3. ~IsMark4(text, n + 2)
      BY <2>1 DEF IsMark4
    <3>4. /\ (n + 1) - 1 = n /\ (n + 2) - 1 = n + 1
          /\ n + 1 \in 1 .. Len(text) /\ n + 2 \in 1 .. Len(text)
      BY <1>1, <1>5, <1>6
    <3> QED
      BY <1>1, <3>1, <3>2, <3>3, <3>4 DEF Kept
  <2>3. p < Len(character) /\ From(text)[p + 1] = n + 1
    BY <1>2, <1>3, <1>4, <2>2
  <2>4. p + 1 \in 1 .. Len(character) /\ (n + 1) + 1 = n + 2 /\ (p + 1) + 1 = p + 2
    BY <1>1, <1>4, <1>5, <2>3
  <2>5. p + 1 < Len(character) /\ From(text)[p + 2] = n + 2
    BY <1>2, <2>2, <2>3, <2>4
  <2>6. p + 2 \in 1 .. Len(character) /\ p + 2 <= Len(character)
    BY <1>1, <1>4, <2>5
  <2>7. character[p + 1] = "#" /\ character[p + 2] = text[n + 2]
    BY <1>2, <1>6, <2>3, <2>4, <2>5, <2>6
  <2> QED
    BY <1>6, <2>6, <2>7 DEF PauseAfter, PauseFrom, n, p
<1>7. CASE ~(n + 2 <= Len(text) /\ text[n + 1] = "#" /\ text[n + 2] # "4")
  <2> SUFFICES ASSUME p + 2 <= Len(character), character[p + 1] = "#" PROVE FALSE
    BY <1>7 DEF PauseAfter, PauseFrom, n, p
  <2>1. p + 1 \in 1 .. Len(character) /\ (p + 1) - 1 = p /\ (p + 1) + 1 = p + 2
    BY <1>1, <1>4
  <2>2. From(text)[p + 1] = n + 1
    BY <1>3, <2>1, MarkFollowsLemma
  <2>3. /\ p + 2 \in 1 .. Len(character) /\ character[p + 2] \in Pause
        /\ From(text)[p + 2] = (n + 1) + 1
    BY <1>1, <2>1, <2>2, MarkStaysLemma
  <2>4. text[n + 1] = "#" /\ text[n + 2] # "4"
    <3>1. (n + 1) + 1 = n + 2
      BY <1>5
    <3> QED
      BY <1>2, <2>1, <2>2, <2>3, <3>1 DEF Pause
  <2>5. n + 2 <= Len(text)
    <3>1. From(text)[p + 2] \in 1 .. Len(text)
      BY <2>3, RemoveMark4Lemma
    <3> QED
      BY <1>1, <1>5, <2>3, <3>1
  <2> QED
    BY <1>7, <2>4, <2>5
<1> QED
  BY <1>6, <1>7

-----------------------------------------------------------------------------
(***************************************************************************)
(* What the steps have in common.                                          *)
(***************************************************************************)

\* Where the arguments, the cursors and the positions are.
LEMMA BoundsLemma ==
  ASSUME ArgumentsInv, TypeOK
  PROVE  /\ Len(character) \in Nat /\ DOMAIN character = 1 .. Len(character)
         /\ \A p \in 1 .. Len(character) : character[p] \in Char
         /\ Len(pinyin) \in Nat /\ DOMAIN pinyin = 1 .. Len(pinyin)
         /\ \A k \in 1 .. Len(pinyin) : pinyin[k] \in Syllables
         /\ Len(result) \in Nat /\ Len(result) > 0 /\ DOMAIN result = 1 .. Len(result)
         /\ i \in Nat /\ i <= Len(character) /\ j \in Nat /\ j <= Len(pinyin)
         /\ \A p \in Nat : p \in ZH(character)
                             <=> 1 <= p /\ p <= Len(character) /\ isZH(character[p])
         /\ \A p \in ZH(character) : p \in 1 .. Len(character)
         /\ \A m \in SpeechAt : m \in 1 .. Len(result)
         /\ \A m \in FinalAt : m \in 1 .. Len(result)
<1>1. /\ Len(character) \in Nat /\ DOMAIN character = 1 .. Len(character)
      /\ \A p \in 1 .. Len(character) : character[p] \in Char
  BY DEF TypeOK
<1>2. /\ Len(pinyin) \in Nat /\ DOMAIN pinyin = 1 .. Len(pinyin)
      /\ \A k \in 1 .. Len(pinyin) : pinyin[k] \in Syllables
  BY DEF ArgumentsInv
<1>3. Len(result) \in Nat /\ Len(result) > 0 /\ DOMAIN result = 1 .. Len(result)
  BY EmptySeq DEF ArgumentsInv
<1>4. i \in Nat /\ i <= Len(character) /\ j \in Nat /\ j <= Len(pinyin)
  BY <1>1, <1>2 DEF TypeOK
<1>5. \A p \in ZH(character) : p \in 1 .. Len(character)
  BY <1>1 DEF ZH
<1>6. \A p \in Nat : p \in ZH(character)
                       <=> 1 <= p /\ p <= Len(character) /\ isZH(character[p])
  BY <1>1 DEF ZH
<1>7. (\A m \in SpeechAt : m \in 1 .. Len(result)) /\ (\A m \in FinalAt : m \in 1 .. Len(result))
  BY <1>3 DEF SpeechAt, FinalAt
<1> QED
  BY <1>1, <1>2, <1>3, <1>4, <1>5, <1>6, <1>7

\* The kinds of symbols.
LEMMA KindLemma ==
  /\ Sil.kind = "sil" /\ Eos.kind = "eos"
  /\ \A c : Mark(c).kind = "#" /\ Mark(c).of = c
  /\ \A b : Initial(b).kind = "initial" /\ Initial(b).of = b
  /\ \A b, t : Final(b, t).kind = "final" /\ Final(b, t).of = b /\ Final(b, t).tone = t
BY DEF Sil, Eos, Mark, Initial, Final

\* What a syllable, with or without a pause, adds to the symbols.
LEMMA SyllableLemma ==
  ASSUME NEW r \in Seq(Symbol), NEW p \in Syllables, NEW b \in BOOLEAN
  PROVE  LET s == r \o Syllable(p) \o (IF b THEN <<Mark("0")>> ELSE << >>) IN
         /\ s \in Seq(Symbol) /\ s # << >>
         /\ \A m \in 1 .. Len(r) : s[m] = r[m]
         /\ s[Len(r) + 1] = Initial(p.body) /\ s[Len(r) + 2] = Final(p.body, p.tone)
         /\ ~b => Len(s) = Len(r) + 2
         /\ b => Len(s) = Len(r) + 3 /\ s[Len(r) + 3] = Mark("0")
<1> DEFINE y == Syllable(p)
           t == IF b THEN <<Mark("0")>> ELSE << >>
           q == r \o y
           s == q \o t
<1>1. /\ y \in Seq(Symbol) /\ Len(y) = 2
      /\ y[1] = Initial(p.body) /\ y[2] = Final(p.body, p.tone)
  <2>1. Initial(p.body) \in Symbol /\ Final(p.body, p.tone) \in Symbol
    BY DEF Initial, Final, Symbol, Syllables, Strings
  <2> QED
    BY <2>1 DEF Syllable
<1>2. /\ t \in Seq(Symbol)
      /\ ~b => Len(t) = 0
      /\ b => Len(t) = 1 /\ t[1] = Mark("0")
  <2>1. Mark("0") \in Symbol
    BY DEF Mark, Symbol, Strings, Char
  <2>2. CASE b
    BY <2>1, <2>2
  <2>3. CASE ~b
    BY <2>3, EmptySeq
  <2> QED
    BY <2>2, <2>3
<1> HIDE DEF y, t
<1>3. /\ q \in Seq(Symbol) /\ Len(q) = Len(r) + 2
      /\ \A m \in 1 .. Len(r) : q[m] = r[m]
      /\ q[Len(r) + 1] = y[1] /\ q[Len(r) + 2] = y[2]
  <2>1. /\ q \in Seq(Symbol) /\ Len(q) = Len(r) + Len(y)
        /\ \A m \in 1 .. Len(r) + Len(y) : q[m] = IF m <= Len(r) THEN r[m] ELSE y[m - Len(r)]
    BY <1>1, ConcatProperties
  <2>2. Len(r) \in Nat
    OBVIOUS
  <2> HIDE DEF q
  <2> QED
    BY <1>1, <2>1, <2>2
<1> HIDE DEF q
<1>4. /\ s \in Seq(Symbol) /\ Len(s) = Len(q) + Len(t)
      /\ \A m \in 1 .. Len(q) : s[m] = q[m]
      /\ Len(t) = 1 => s[Len(q) + 1] = t[1]
  <2>1. /\ s \in Seq(Symbol) /\ Len(s) = Len(q) + Len(t)
        /\ \A m \in 1 .. Len(q) + Len(t) : s[m] = IF m <= Len(q) THEN q[m] ELSE t[m - Len(q)]
    BY <1>2, <1>3, ConcatProperties
  <2>2. Len(q) \in Nat /\ Len(t) \in Nat
    BY <1>2, <1>3
  <2> HIDE DEF s
  <2> QED
    BY <2>1, <2>2
<1>5. Len(r) \in Nat
  OBVIOUS
<1> HIDE DEF s
<1>6. /\ \A m \in 1 .. Len(r) : s[m] = r[m]
      /\ s[Len(r) + 1] = Initial(p.body) /\ s[Len(r) + 2] = Final(p.body, p.tone)
  BY <1>1, <1>3, <1>4, <1>5
<1>7. b => Len(s) = Len(r) + 3 /\ s[Len(r) + 3] = Mark("0")
  <2> SUFFICES ASSUME b PROVE Len(s) = Len(r) + 3 /\ s[Len(r) + 3] = Mark("0")
    OBVIOUS
  <2>0. Len(t) = 1 /\ Len(q) = Len(r) + 2 /\ Len(s) = Len(q) + Len(t)
    BY <1>2, <1>3, <1>4, Zenon
  <2>1. Len(s) = Len(r) + 3 /\ Len(q) + 1 = Len(r) + 3
    BY <2>0, <1>5
  <2>2. s[Len(q) + 1] = t[1]
    BY <1>2, <1>4
  <2> QED
    BY <1>2, <2>1, <2>2
<1>8. ~b => Len(s) = Len(r) + 2
  BY <1>2, <1>3, <1>4, <1>5
<1>9. s # << >>
  BY <1>4, <1>5, <1>7, <1>8, EmptySeq
<1> QED
  BY <1>4, <1>6, <1>7, <1>8, <1>9 DEF s, q, t, y

\* All but the last of a sequence.
LEMMA FrontLemma ==
  ASSUME NEW S, NEW s \in Seq(S), Len(s) > 0
  PROVE  /\ Front(s) \in Seq(S) /\ Len(Front(s)) = Len(s) - 1
         /\ \A m \in 1 .. Len(s) - 1 : Front(s)[m] = s[m]
<1>1. Front(s) \in Seq(S)
  BY DEF Front
<1>2. Len(Front(s)) = Len(s) - 1
  <2> DEFINE n == Len(s) - 1
  <2>1. n \in Nat
    OBVIOUS
  <2> HIDE DEF n
  <2>2. Len(SubSeq(s, 1, n)) = n
    BY <2>1
  <2> QED
    BY <2>2 DEF Front, n
<1>3. \A m \in 1 .. Len(s) - 1 : Front(s)[m] = s[m]
  BY DEF Front
<1> QED
  BY <1>1, <1>2, <1>3

\* What the end of the loop makes of the symbols.
LEMMA TrimLemma ==
  ASSUME NEW r \in Seq(Symbol), Len(r) > 0
  PROVE  LET t == IF Last(r) = Mark("0") THEN Front(r) ELSE r
             s == Append(t, Sil)
         IN
         /\ s \in Seq(Symbol) /\ s # << >> /\ s[Len(s)] = Sil
         /\ \A m \in 1 .. Len(s) - 1 : s[m] = r[m]
         /\ \/ r[Len(r)] = Mark("0") /\ Len(s) = Len(r)
            \/ r[Len(r)] # Mark("0") /\ Len(s) = Len(r) + 1
<1> DEFINE t == IF Last(r) = Mark("0") THEN Front(r) ELSE r
           s == Append(t, Sil)
<1>1. Len(r) \in Nat
  OBVIOUS
<1>2. /\ Front(r) \in Seq(Symbol) /\ Len(Front(r)) = Len(r) - 1
      /\ \A m \in 1 .. Len(r) - 1 : Front(r)[m] = r[m]
  BY FrontLemma
<1>3. /\ t \in Seq(Symbol) /\ \A m \in 1 .. Len(t) : t[m] = r[m]
      /\ \/ r[Len(r)] = Mark("0") /\ Len(t) = Len(r) - 1
         \/ r[Len(r)] # Mark("0") /\ Len(t) = Len(r)
  BY <1>1, <1>2 DEF Last
<1> HIDE DEF t
<1>4. Sil \in Symbol
  BY DEF Sil, Symbol, Strings
<1>5. /\ s \in Seq(Symbol) /\ Len(s) = Len(t) + 1 /\ s[Len(s)] = Sil
      /\ \A m \in 1 .. Len(t) : s[m] = t[m]
  BY <1>3, <1>4
<1> HIDE DEF s
<1>6. Len(t) \in Nat
  BY <1>3
<1>7. /\ s # << >> /\ \A m \in 1 .. Len(s) - 1 : s[m] = r[m]
      /\ \/ r[Len(r)] = Mark("0") /\ Len(s) = Len(r)
         \/ r[Len(r)] # Mark("0") /\ Len(s) = Len(r) + 1
  BY <1>1, <1>3, <1>5, <1>6
<1> QED
  BY <1>5, <1>7 DEF s, t

\* What is spoken stays so when a step adds no syllable.
LEMMA SpokenStaysLemma ==
  ASSUME ArgumentsInv, TypeOK, SpokenInv,
         j' = j, pinyin' = pinyin, SpeechAt' = SpeechAt,
         \A m \in SpeechAt : result'[m] = result[m]
  PROVE  SpokenInv'
<1>1. /\ \A m \in SpeechAt : m \in 1 .. Len(result)
      /\ Len(result) \in Nat /\ j \in Nat
  BY BoundsLemma
<1>2. \A k \in 1 .. 2 * j : Spoken[k] \in SpeechAt
  BY <1>1, AscendingLemma DEF SpokenInv, Spoken
<1>3. Spoken' = Spoken
  BY DEF Spoken
<1>4. \A k \in 1 .. j : (2 * k) - 1 \in 1 .. 2 * j /\ 2 * k \in 1 .. 2 * j
  BY <1>1
<1> QED
  BY <1>2, <1>3, <1>4 DEF SpokenInv

\* So do the pauses between the syllables.
LEMMA BetweenStaysLemma ==
  ASSUME ArgumentsInv, TypeOK, BetweenInv,
         j' = j, character' = character, FinalAt' = FinalAt,
         \A m \in 1 .. Len(result) - 1 : result'[m] = result[m],
         result'[1] = result[1]
  PROVE  BetweenInv' /\ Finals' = Finals
<1>1. /\ \A m \in FinalAt : m \in 1 .. Len(result)
      /\ Len(result) \in Nat /\ j \in Nat
  BY BoundsLemma
<1>2. \A k \in 1 .. j : Finals[k] \in 1 .. Len(result)
  BY <1>1, AscendingLemma DEF BetweenInv, Finals
<1>3. Finals' = Finals
  BY DEF Finals
<1>4. ASSUME NEW k \in 1 .. j - 1
      PROVE  result'[Finals[k] + 1] = result[Finals[k] + 1]
  <2>1. k \in 1 .. j /\ k + 1 \in 1 .. j
    BY <1>1
  <2>2. Finals[k] \in 1 .. Len(result) /\ Finals[k] + 3 \in 1 .. Len(result)
    BY <1>2, <2>1 DEF BetweenInv
  <2> QED
    BY <1>1, <2>2
<1>5. \A n : PauseFrom(n)' = PauseFrom(n)
  BY DEF PauseFrom
<1> QED
  BY <1>3, <1>4, <1>5 DEF BetweenInv


-----------------------------------------------------------------------------
(***************************************************************************)
(* Each step keeps the invariant.                                          *)
(***************************************************************************)

\* The arguments are not assigned to.
ArgumentsStay == UNCHANGED <<asserts, text, pinyin, character>>

\* At the start nothing has been spoken.
LEMMA InitLemma == Init => BakerInv
<1> SUFFICES ASSUME Init PROVE BakerInv
  OBVIOUS
<1>1. /\ text \in Seq(Char) /\ pinyin \in Seq(Syllables) /\ asserts \in BOOLEAN
      /\ character = RemoveMark4(text) /\ i = 0 /\ j = 0 /\ status = "scan"
  BY TextAssumption DEF Init, Syllables
<1>2. character \in Seq(Char) /\ Len(character) \in Nat
  BY <1>1, RemoveMark4Lemma
<1>3. Sil \in Symbol
  BY DEF Sil, Symbol, Strings
<1>4. result = <<Sil>> /\ Len(result) = 1 /\ DOMAIN result = 1 .. 1 /\ result[1] = Sil
  BY DEF Init
<1>5. result \in Seq(Symbol) /\ result # << >>
  BY <1>3 DEF Init
<1>6. \A n \in DOMAIN result : result[n] = Sil
  BY <1>4
<1>7. SpeechAt = {} /\ FinalAt = {}
  BY <1>6, KindLemma DEF SpeechAt, FinalAt
<1>8. Cardinality(SpeechAt) = 0 /\ Cardinality(FinalAt) = 0
  BY <1>7, FS_EmptySet
<1>9. ArgumentsInv
  BY <1>1, <1>5 DEF ArgumentsInv
<1>10. TypeOK
  <2>1. i \in 0 .. Len(character) /\ j \in 0 .. Len(pinyin)
    <3>1. Len(pinyin) \in Nat
      BY <1>1
    <3> QED
      BY <1>1, <1>2, <3>1
  <2> QED
    BY <1>1, <1>2, <1>6, <2>1 DEF TypeOK
<1>11. ToneInv /\ MarkInv
  BY <1>6, KindLemma DEF ToneInv, MarkInv
<1>12. CursorInv
  <2>1. \A p \in ZH(character) : p \in 1 .. Len(character)
    BY <1>2 DEF ZH
  <2> QED
    BY <1>1, <1>2, <2>1, RankEndsLemma DEF CursorInv
<1>13. EndInv /\ WellFormedNeverThrows
  BY <1>1 DEF EndInv, WellFormedNeverThrows
<1>14. SpokenInv /\ BetweenInv
  BY <1>1, <1>4, <1>8 DEF SpokenInv, BetweenInv
<1>15. LastInv
  BY <1>1, <1>4 DEF LastInv
<1> QED
  BY <1>9, <1>10, <1>11, <1>12, <1>13, <1>14, <1>15 DEF BakerInv, PauseInv

\* A Chinese character takes a pinyin.
LEMMA ScanSyllableLemma == ASSUME BakerInv, ScanSyllable PROVE BakerInv'
<1> DEFINE N == Len(result)
           b == pinyin[j + 1].body
           t == pinyin[j + 1].tone
<1>1. ArgumentsInv /\ TypeOK /\ ToneInv /\ MarkInv /\ CursorInv /\ EndInv /\ SpokenInv /\ PauseInv
  BY DEF BakerInv
<1>2. /\ status = "scan" /\ i < Len(character) /\ isZH(character[i + 1])
      /\ j < Len(pinyin) /\ b \in Dict /\ i' = i + 1 /\ j' = j + 1
      /\ ArgumentsStay /\ status' = status
  BY DEF ScanSyllable, Scanning, curChar, ArgumentsStay
<1>3. /\ N \in Nat /\ N > 0 /\ DOMAIN result = 1 .. N
      /\ Len(character) \in Nat /\ i \in Nat /\ j \in Nat /\ Len(pinyin) \in Nat
      /\ DOMAIN pinyin = 1 .. Len(pinyin)
      /\ \A m \in SpeechAt : m \in 1 .. N
      /\ \A m \in FinalAt : m \in 1 .. N
      /\ \A p \in ZH(character) : p \in 1 .. Len(character)
      /\ \A p \in Nat : p \in ZH(character)
                          <=> 1 <= p /\ p <= Len(character) /\ isZH(character[p])
  BY <1>1, BoundsLemma
<1>4. pinyin[j + 1] \in Syllables /\ j + 1 \in DOMAIN pinyin
  BY <1>1, <1>2, <1>3 DEF ArgumentsInv
<1>5. /\ result' \in Seq(Symbol) /\ result' # << >>
      /\ \A m \in 1 .. N : result'[m] = result[m]
      /\ result'[N + 1] = Initial(b) /\ result'[N + 2] = Final(b, t)
      /\ ~NeedsPause => Len(result') = N + 2
      /\ NeedsPause => Len(result') = N + 3 /\ result'[N + 3] = Mark("0")
  <2>1. NeedsPause \in BOOLEAN
    BY DEF NeedsPause
  <2>2. result' = result \o Syllable(pinyin[j + 1])
                         \o (IF NeedsPause THEN <<Mark("0")>> ELSE << >>)
    BY DEF ScanSyllable
  <2>3. result \in Seq(Symbol)
    BY <1>1 DEF ArgumentsInv
  <2> QED
    BY <1>4, <2>1, <2>2, <2>3, SyllableLemma
<1> HIDE DEF N, b, t
<1>6. DOMAIN result' = 1 .. Len(result') /\ Len(result') \in Nat /\ Len(result') >= N + 2
  <2>1. DOMAIN result' = 1 .. Len(result') /\ Len(result') \in Nat
    BY <1>5
  <2>2. Len(result') >= N + 2
    BY <1>3, <1>5
  <2> QED
    BY <2>1, <2>2
<1>7. \A m \in DOMAIN result' :
        \/ m \in DOMAIN result /\ result'[m] = result[m]
        \/ m = N + 1 /\ result'[m] = Initial(b)
        \/ m = N + 2 /\ result'[m] = Final(b, t)
        \/ m = N + 3 /\ result'[m] = Mark("0")
  <2> TAKE m \in DOMAIN result'
  <2>1. m \in 1 .. N \/ m = N + 1 \/ m = N + 2 \/ (m = N + 3 /\ NeedsPause)
    <3>1. Len(result') = N + 2 \/ (Len(result') = N + 3 /\ NeedsPause)
      BY <1>5, Zenon
    <3>2. m \in 1 .. Len(result') /\ N \in Nat
      BY <1>3, <1>6
    <3> QED
      BY <3>1, <3>2
  <2> QED
    BY <1>3, <1>5, <2>1
<1>8. /\ \A m \in DOMAIN result : m \in DOMAIN result' /\ m \notin {N + 1, N + 2, N + 3}
      /\ N + 1 \in DOMAIN result' /\ N + 2 \in DOMAIN result'
  BY <1>3, <1>6
<1>9. \A m \in DOMAIN result' :
        /\ result'[m].kind \in {"initial", "final"} <=> m \in SpeechAt \/ m = N + 1 \/ m = N + 2
        /\ result'[m].kind = "final" <=> m \in FinalAt \/ m = N + 2
  <2> TAKE m \in DOMAIN result'
  <2>1. N + 1 # N + 2 /\ N + 1 # N + 3 /\ N + 2 # N + 3
    BY <1>3
  <2>2. CASE m \in DOMAIN result /\ result'[m] = result[m]
    BY <1>8, <2>2 DEF SpeechAt, FinalAt
  <2>3. CASE m = N + 1 /\ result'[m] = Initial(b)
    <3>1. m \notin FinalAt
      BY <1>8, <2>3 DEF FinalAt
    <3> QED
      BY <2>1, <2>3, <3>1, KindLemma
  <2>4. CASE m = N + 2 /\ result'[m] = Final(b, t)
    BY <2>4, KindLemma
  <2>5. CASE m = N + 3 /\ result'[m] = Mark("0")
    <3>1. m \notin FinalAt /\ m \notin SpeechAt
      BY <1>8, <2>5 DEF FinalAt, SpeechAt
    <3> QED
      BY <2>1, <2>5, <3>1, KindLemma
  <2> QED
    BY <1>7, <2>2, <2>3, <2>4, <2>5
<1>10. SpeechAt' = (SpeechAt \cup {N + 1}) \cup {N + 2}
  <2>1. \A m \in SpeechAt : m \in DOMAIN result'
    BY <1>8 DEF SpeechAt
  <2>2. SpeechAt' = {m \in DOMAIN result' : result'[m].kind \in {"initial", "final"}}
    BY DEF SpeechAt
  <2> QED
    BY <1>8, <1>9, <2>1, <2>2
<1>11. FinalAt' = FinalAt \cup {N + 2}
  <2>1. \A m \in FinalAt : m \in DOMAIN result'
    BY <1>8 DEF FinalAt
  <2>2. FinalAt' = {m \in DOMAIN result' : result'[m].kind = "final"}
    BY DEF FinalAt
  <2> QED
    BY <1>8, <1>9, <2>1, <2>2
<1>12. ArgumentsInv'
  BY <1>1, <1>2, <1>5 DEF ArgumentsInv, ArgumentsStay
<1>13. TypeOK'
  <2>1. i' \in 0 .. Len(character) /\ j' \in 0 .. Len(pinyin)
    BY <1>2, <1>3
  <2>2. \A n \in DOMAIN result' :
          \/ result'[n] \in {Sil, Eos} \cup {Mark(c) : c \in Char}
          \/ result'[n].kind \in {"initial", "final"} /\ result'[n].of \in Dict
    <3>1. Mark("0") \in {Mark(c) : c \in Char}
      BY DEF Char
    <3>2. /\ Initial(b).kind = "initial" /\ Initial(b).of \in Dict
          /\ Final(b, t).kind = "final" /\ Final(b, t).of \in Dict
      BY <1>2 DEF Initial, Final
    <3>3. \A n \in DOMAIN result :
            \/ result[n] \in {Sil, Eos} \cup {Mark(c) : c \in Char}
            \/ result[n].kind \in {"initial", "final"} /\ result[n].of \in Dict
      BY <1>1 DEF TypeOK
    <3> QED
      BY <1>7, <3>1, <3>2, <3>3
  <2> QED
    BY <1>1, <1>2, <2>1, <2>2 DEF TypeOK, ArgumentsStay
<1>14. ToneInv'
  <2>1. \A n \in DOMAIN result' :
          result'[n].kind = "final" => \E k \in DOMAIN pinyin : result'[n].tone = pinyin[k].tone
    <3> TAKE n \in DOMAIN result'
    <3>1. CASE n \in DOMAIN result /\ result'[n] = result[n]
      BY <1>1, <3>1 DEF ToneInv
    <3>2. CASE result'[n] = Final(b, t)
      BY <1>4, <3>2 DEF Final, t
    <3>3. CASE result'[n] = Initial(b) \/ result'[n] = Mark("0")
      BY <3>3, KindLemma
    <3> QED
      BY <1>7, <3>1, <3>2, <3>3
  <2> QED
    BY <1>2, <2>1 DEF ToneInv, ArgumentsStay
<1>15. MarkInv'
  <2>1. ASSUME MarksWellFormed, NEW n \in DOMAIN result', result'[n].kind = "#"
        PROVE  result'[n].of \in Pause
    <3>1. CASE n \in DOMAIN result /\ result'[n] = result[n]
      BY <1>1, <2>1, <3>1 DEF MarkInv
    <3>2. CASE result'[n] = Mark("0")
      BY <3>2, KindLemma DEF Pause
    <3>3. CASE result'[n] = Initial(b) \/ result'[n] = Final(b, t)
      BY <2>1, <3>3, KindLemma
    <3> QED
      BY <1>7, <3>1, <3>2, <3>3
  <2> QED
    BY <1>2, <2>1 DEF MarkInv, MarksWellFormed, ArgumentsStay
<1>16. i + 1 \in ZH(character) /\ Rank(ZH(character), i + 1) = Rank(ZH(character), i) + 1
  <2>1. i + 1 \in ZH(character)
    BY <1>2, <1>3
  <2> QED
    BY <1>3, <2>1, RankStepLemma
<1>17. CursorInv'
  <2>1. CASE j = Rank(ZH(character), i)
    BY <1>2, <1>16, <2>1 DEF CursorInv, ArgumentsStay
  <2>2. CASE \E n \in DOMAIN result : result[n].kind = "#" /\ result[n].of \notin Pause
    <3>1. \E n \in DOMAIN result' : result'[n].kind = "#" /\ result'[n].of \notin Pause
      BY <1>3, <1>5, <1>8, <2>2
    <3> QED
      BY <3>1 DEF CursorInv
  <2> QED
    BY <1>1, <2>1, <2>2 DEF CursorInv
<1>18. EndInv' /\ WellFormedNeverThrows'
  BY <1>2 DEF EndInv, WellFormedNeverThrows
<1>19. SpokenInv'
  <2> DEFINE C == Cardinality(SpeechAt)
  <2>1. N \in Nat /\ \A m \in SpeechAt : m \in 1 .. N
    BY <1>3
  <2>2. C = 2 * j
    BY <1>1 DEF SpokenInv
  <2>3. \A k \in 1 .. C : Spoken[k] \in 1 .. N
    BY <2>1, AscendingLemma DEF Spoken
  <2>4. /\ Cardinality(SpeechAt') = C + 2
        /\ \A k \in 1 .. C : Spoken'[k] = Spoken[k]
        /\ Spoken'[C + 1] = N + 1
        /\ Spoken'[C + 2] = N + 2
    <3> DEFINE S == SpeechAt
               U == (S \cup {N + 1}) \cup {N + 2}
    <3>1. Spoken' = Ascending(U) /\ Spoken = Ascending(S) /\ SpeechAt' = U
      BY <1>10 DEF Spoken
    <3>2. Cardinality(U) = C + 2 /\ \A k \in 1 .. C : Ascending(U)[k] = Ascending(S)[k]
      BY <2>1, AscendingAppendTwoLemma
    <3>3. Ascending(U)[C + 1] = N + 1 /\ Ascending(U)[C + 2] = N + 2
      BY <2>1, AscendingAppendTwoLemma
    <3> HIDE DEF U, C, S
    <3> QED
      BY <3>1, <3>2, <3>3 DEF S
  <2> HIDE DEF C
  <2>5. ASSUME NEW k \in 1 .. j + 1
        PROVE  /\ result'[Spoken'[(2 * k) - 1]] = Initial(pinyin[k].body)
               /\ result'[Spoken'[2 * k]] = Final(pinyin[k].body, pinyin[k].tone)
    <3>1. CASE k = j + 1
      <4>1. (2 * k) - 1 = C + 1 /\ 2 * k = C + 2
        BY <1>3, <2>2, <3>1
      <4> QED
        BY <1>5, <2>4, <3>1, <4>1 DEF b, t
    <3>2. CASE k \in 1 .. j
      <4>1. (2 * k) - 1 \in 1 .. C /\ 2 * k \in 1 .. C
        BY <1>3, <2>2, <3>2
      <4>2. /\ result'[Spoken'[(2 * k) - 1]] = result[Spoken[(2 * k) - 1]]
            /\ result'[Spoken'[2 * k]] = result[Spoken[2 * k]]
        BY <1>5, <2>3, <2>4, <4>1
      <4> QED
        BY <1>1, <3>2, <4>2 DEF SpokenInv
    <3> QED
      BY <1>3, <3>1, <3>2
  <2> QED
    <3>1. Cardinality(SpeechAt') = 2 * j'
      BY <1>2, <1>3, <2>2, <2>4
    <3> QED
      BY <1>2, <2>5, <3>1 DEF SpokenInv, ArgumentsStay
<1>20. PauseInv'
  <2> SUFFICES ASSUME MarksFollowCharacters PROVE BetweenInv' /\ LastInv'
    BY <1>2 DEF PauseInv, MarksFollowCharacters, MarksWellFormed, ArgumentsStay
  <2>1. BetweenInv /\ LastInv
    BY <1>1 DEF PauseInv
  <2>2. j = Rank(ZH(character), i)
    BY <1>1 DEF CursorInv, MarkInv, MarksFollowCharacters
  <2>3. Chinese(character)[j + 1] = i + 1
    BY <1>3, <1>16, <2>2, AscendingLemma DEF Chinese
  <2>4. /\ Cardinality(FinalAt') = j + 1
        /\ \A k \in 1 .. j : Finals'[k] = Finals[k] /\ Finals[k] \in 1 .. N
        /\ Finals'[j + 1] = N + 2
    <3>1. Cardinality(FinalAt) = j
      BY <2>1 DEF BetweenInv
    <3>2. N \in Nat /\ N + 2 \in Nat /\ N + 2 > N /\ \A m \in FinalAt : m \in 1 .. N
      BY <1>3
    <3>3. /\ Cardinality(FinalAt \cup {N + 2}) = Cardinality(FinalAt) + 1
          /\ \A k \in 1 .. Cardinality(FinalAt) :
               Ascending(FinalAt \cup {N + 2})[k] = Ascending(FinalAt)[k]
          /\ Ascending(FinalAt \cup {N + 2})[Cardinality(FinalAt) + 1] = N + 2
      BY <3>2, AscendingAppendLemma
    <3>4. \A k \in 1 .. j : Finals[k] \in 1 .. N
      BY <1>3, <3>1, AscendingLemma DEF Finals
    <3> QED
      BY <1>11, <3>1, <3>3, <3>4 DEF Finals
  <2>5. \/ j = 0 /\ N = 1
        \/ /\ j > 0 /\ N = Finals[j] + 1
           /\ result[N] = Mark(PauseFrom(Chinese(character)[j]))
    <3>1. i < Len(character) => character[i + 1] # "#"
      BY <1>2 DEF isZH
    <3> QED
      BY <1>2, <2>1, <3>1 DEF LastInv, N
  <2>6. \A n : PauseFrom(n)' = PauseFrom(n)
    BY <1>2 DEF PauseFrom, ArgumentsStay
  <2>7. BetweenInv'
    <3>1. result'[1] = Sil
      BY <1>3, <1>5, <2>1 DEF BetweenInv
    <3>2. ASSUME NEW k \in 1 .. j
          PROVE  /\ result'[Finals'[k] + 1] = Mark(PauseFrom(Chinese(character)[k]))
                 /\ Finals'[k + 1] = Finals'[k] + 3
      <4>1. CASE k = j
        BY <1>3, <1>5, <2>4, <2>5, <4>1
      <4>2. CASE k \in 1 .. j - 1
        <5>1. /\ k + 1 \in 1 .. j /\ k \in 1 .. j
              /\ result[Finals[k] + 1] = Mark(PauseFrom(Chinese(character)[k]))
              /\ Finals[k + 1] = Finals[k] + 3
          BY <1>3, <2>1, <4>2 DEF BetweenInv
        <5>2. Finals[k] + 1 \in 1 .. N
          BY <1>3, <2>4, <5>1
        <5> QED
          BY <1>5, <2>4, <5>1, <5>2
      <4> QED
        BY <1>3, <4>1, <4>2
    <3> QED
      BY <1>2, <1>3, <2>4, <2>6, <3>1, <3>2 DEF BetweenInv, ArgumentsStay
  <2>8. LastInv'
    <3>1. CASE NeedsPause
      <4>1. PauseFrom(i + 1) = "0" /\ (i + 1 < Len(character) => character[(i + 1) + 1] # "#")
        BY <1>3, <3>1 DEF NeedsPause, PauseFrom
      <4>2. Len(result') = Finals'[j + 1] + 1 /\ result'[Len(result')] = Mark("0")
        BY <1>3, <1>5, <2>4, <3>1
      <4> QED
        BY <1>2, <1>3, <2>3, <2>6, <4>1, <4>2 DEF LastInv, ArgumentsStay
    <3>2. CASE ~NeedsPause
      <4>1. i + 1 < Len(character) => character[(i + 1) + 1] = "#"
        BY <1>3, <3>2 DEF NeedsPause
      <4>2. Len(result') = Finals'[j + 1]
        BY <1>5, <2>4, <3>2
      <4> QED
        BY <1>2, <1>3, <2>3, <4>1, <4>2 DEF LastInv, ArgumentsStay
    <3> QED
      BY <3>1, <3>2
  <2> QED
    BY <2>7, <2>8
<1> QED
  BY <1>12, <1>13, <1>14, <1>15, <1>17, <1>18, <1>19, <1>20 DEF BakerInv


\* Another symbol adds no syllable.
LEMMA AppendLemma ==
  ASSUME ArgumentsInv, NEW x \in Symbol, x.kind \notin {"initial", "final"},
         result' = Append(result, x)
  PROVE  /\ result' \in Seq(Symbol) /\ result' # << >> /\ Len(result') = Len(result) + 1
         /\ DOMAIN result' = 1 .. Len(result) + 1
         /\ \A m \in 1 .. Len(result) : result'[m] = result[m]
         /\ result'[Len(result) + 1] = x
         /\ SpeechAt' = SpeechAt /\ FinalAt' = FinalAt
<1> DEFINE N == Len(result)
<1>1. N \in Nat /\ DOMAIN result = 1 .. N /\ result \in Seq(Symbol)
  BY DEF ArgumentsInv
<1>2. /\ result' \in Seq(Symbol) /\ result' # << >> /\ Len(result') = N + 1
      /\ \A m \in 1 .. N : result'[m] = result[m]
      /\ result'[N + 1] = x
  BY <1>1, AppendProperties
<1>3. DOMAIN result' = 1 .. N + 1
  BY <1>2
<1> HIDE DEF N
<1>4. /\ \A m \in DOMAIN result' : m \in DOMAIN result \/ m = N + 1
      /\ \A m \in DOMAIN result : m \in DOMAIN result' /\ result'[m] = result[m]
      /\ N + 1 \in DOMAIN result' /\ N + 1 \notin DOMAIN result
  BY <1>1, <1>2, <1>3
<1>5. SpeechAt' = SpeechAt
  BY <1>2, <1>4 DEF SpeechAt
<1>6. FinalAt' = FinalAt
  BY <1>2, <1>4 DEF FinalAt
<1> QED
  BY <1>2, <1>3, <1>5, <1>6 DEF N

\* With well-formed marks the cursors are in step.
LEMMA InStepLemma ==
  ASSUME BakerInv, MarksWellFormed
  PROVE  j = Rank(ZH(character), i)
BY DEF BakerInv, CursorInv, MarkInv

\* To stand still, or to throw over an input that is not well formed, keeps everything.
LEMMA StandStillLemma ==
  ASSUME BakerInv, ArgumentsStay, i' = i, j' = j, result' = result,
         \/ status' = status
         \/ status' = "threw" /\ ~(MarksWellFormed /\ PinyinComplete)
  PROVE  BakerInv'
<1>1. /\ ArgumentsInv /\ TypeOK /\ ToneInv /\ MarkInv /\ CursorInv /\ EndInv
      /\ SpokenInv /\ PauseInv /\ WellFormedNeverThrows
  BY DEF BakerInv
<1>2. ArgumentsInv' /\ TypeOK'
  BY <1>1 DEF ArgumentsInv, TypeOK, ArgumentsStay
<1>3. ToneInv' /\ MarkInv' /\ CursorInv' /\ EndInv'
  BY <1>1 DEF ToneInv, MarkInv, MarksWellFormed, CursorInv, EndInv, ArgumentsStay
<1>4. SpeechAt' = SpeechAt /\ FinalAt' = FinalAt
  BY DEF SpeechAt, FinalAt
<1>5. SpokenInv'
  BY <1>1, <1>4, SpokenStaysLemma DEF ArgumentsStay
<1>6. PauseInv'
  <2> SUFFICES ASSUME MarksFollowCharacters PROVE BetweenInv' /\ LastInv'
    BY DEF PauseInv, MarksFollowCharacters, MarksWellFormed, ArgumentsStay
  <2>1. BetweenInv /\ LastInv
    BY <1>1 DEF PauseInv
  <2>2. BetweenInv' /\ Finals' = Finals
    BY <1>1, <1>4, <2>1, BetweenStaysLemma DEF ArgumentsStay
  <2>3. \A n : PauseFrom(n)' = PauseFrom(n)
    BY DEF PauseFrom, ArgumentsStay
  <2>4. LastInv'
    BY <2>1, <2>2, <2>3 DEF LastInv, ArgumentsStay
  <2> QED
    BY <2>2, <2>4
<1>7. WellFormedNeverThrows'
  BY <1>1 DEF WellFormedNeverThrows, MarksWellFormed, PinyinComplete, ArgumentsStay
<1> QED
  BY <1>1, <1>2, <1>3, <1>5, <1>6, <1>7 DEF BakerInv

\* A pinyin is missing, or the dictionary lacks it.
LEMMA ScanSyllableThrowsLemma == ASSUME BakerInv, ScanSyllableThrows PROVE BakerInv'
<1>1. /\ i < Len(character) /\ isZH(character[i + 1])
      /\ j < Len(pinyin) => pinyin[j + 1].body \notin Dict
      /\ ArgumentsStay /\ i' = i /\ j' = j /\ result' = result /\ status' = "threw"
  BY DEF ScanSyllableThrows, Scanning, curChar, Throw, ArgumentsStay
<1>2. ASSUME MarksWellFormed, PinyinComplete PROVE FALSE
  <2>1. ArgumentsInv /\ TypeOK
    BY DEF BakerInv
  <2>2. /\ Len(character) \in Nat /\ i \in Nat /\ j \in Nat
        /\ Len(pinyin) \in Nat /\ DOMAIN pinyin = 1 .. Len(pinyin)
        /\ \A p \in ZH(character) : p \in 1 .. Len(character)
        /\ \A p \in Nat : p \in ZH(character)
                            <=> 1 <= p /\ p <= Len(character) /\ isZH(character[p])
    BY <2>1, BoundsLemma
  <2>3. i + 1 \in ZH(character)
    BY <1>1, <2>2
  <2>4. Rank(ZH(character), i + 1) = j + 1
    BY <1>2, <2>2, <2>3, InStepLemma, RankStepLemma
  <2>5. Rank(ZH(character), i + 1) \in 1 .. Cardinality(ZH(character))
    BY <2>2, <2>3, AscendingLemma
  <2>6. Cardinality(ZH(character)) = Len(pinyin)
    BY <1>2, <2>1, ChineseLemma DEF ArgumentsInv, PinyinComplete
  <2>7. j < Len(pinyin) /\ j + 1 \in DOMAIN pinyin
    BY <2>2, <2>4, <2>5, <2>6
  <2> QED
    BY <1>1, <1>2, <2>7 DEF PinyinComplete
<1> QED
  BY <1>1, <1>2, StandStillLemma

\* A mark without its digit.
LEMMA ScanMarkThrowsLemma == ASSUME BakerInv, ScanMarkThrows PROVE BakerInv'
<1>1. /\ i < Len(character) /\ character[i + 1] = "#" /\ i + 2 > Len(character)
      /\ ArgumentsStay /\ i' = i /\ j' = j /\ result' = result /\ status' = "threw"
  BY DEF ScanMarkThrows, Scanning, curChar, Throw, ArgumentsStay
<1>2. ArgumentsInv /\ TypeOK
  BY DEF BakerInv
<1>3. i \in Nat /\ Len(character) \in Nat
  BY <1>2, BoundsLemma
<1>4. ~MarksWellFormed
  <2>1. i + 1 \in 1 .. Len(character)
    BY <1>1, <1>3
  <2>2. MarksWellFormed => i + 1 < Len(character)
    BY <1>1, <1>2, <2>1, MarkStaysLemma DEF ArgumentsInv
  <2> QED
    BY <1>1, <1>3, <2>2
<1> QED
  BY <1>1, <1>4, StandStillLemma


\* A mark takes the character after it along.
LEMMA ScanMarkLemma == ASSUME BakerInv, ScanMark PROVE BakerInv'
<1> DEFINE N == Len(result)
           c == character[i + 2]
<1>1. /\ ArgumentsInv /\ TypeOK /\ ToneInv /\ MarkInv /\ CursorInv /\ EndInv
      /\ SpokenInv /\ PauseInv
  BY DEF BakerInv
<1>2. /\ status = "scan" /\ i < Len(character) /\ character[i + 1] = "#"
      /\ i + 2 <= Len(character)
      /\ result' = Append(result, Mark(c)) /\ i' = i + 2 /\ j' = j
      /\ ArgumentsStay /\ status' = status
  BY DEF ScanMark, Scanning, curChar, ArgumentsStay
<1>3. /\ N \in Nat /\ N > 0 /\ DOMAIN result = 1 .. N
      /\ Len(character) \in Nat /\ i \in Nat /\ j \in Nat /\ Len(pinyin) \in Nat
      /\ \A p \in 1 .. Len(character) : character[p] \in Char
      /\ \A m \in SpeechAt : m \in 1 .. N
      /\ \A m \in FinalAt : m \in 1 .. N
      /\ \A p \in ZH(character) : p \in 1 .. Len(character)
      /\ \A p \in Nat : p \in ZH(character)
                          <=> 1 <= p /\ p <= Len(character) /\ isZH(character[p])
  BY <1>1, BoundsLemma
<1>4. c \in Char /\ i + 1 \in 1 .. Len(character)
  BY <1>2, <1>3
<1>5. Mark(c) \in Symbol
  BY <1>4 DEF Mark, Symbol, Strings
<1>6. /\ result' \in Seq(Symbol) /\ result' # << >> /\ Len(result') = N + 1
      /\ DOMAIN result' = 1 .. N + 1
      /\ \A m \in 1 .. N : result'[m] = result[m]
      /\ result'[N + 1] = Mark(c)
      /\ SpeechAt' = SpeechAt /\ FinalAt' = FinalAt
  BY <1>1, <1>2, <1>5, KindLemma, AppendLemma
<1> HIDE DEF N, c
<1>7. /\ \A m \in DOMAIN result' : \/ m \in DOMAIN result /\ result'[m] = result[m]
                                   \/ m = N + 1 /\ result'[m] = Mark(c)
      /\ \A m \in DOMAIN result : m \in DOMAIN result' /\ result'[m] = result[m]
      /\ N + 1 \in DOMAIN result'
  BY <1>3, <1>6
<1>8. MarksWellFormed => c \in Pause
  <2>1. MarksWellFormed => character[(i + 1) + 1] \in Pause
    BY <1>1, <1>2, <1>4, MarkStaysLemma DEF ArgumentsInv
  <2>2. (i + 1) + 1 = i + 2
    BY <1>3
  <2> QED
    BY <2>1, <2>2 DEF c
<1>9. ArgumentsInv'
  BY <1>1, <1>2, <1>6 DEF ArgumentsInv, ArgumentsStay
<1>10. TypeOK'
  <2>1. i' \in 0 .. Len(character) /\ j' \in 0 .. Len(pinyin)
    BY <1>1, <1>2, <1>3 DEF TypeOK
  <2>2. \A n \in DOMAIN result' :
          \/ result'[n] \in {Sil, Eos} \cup {Mark(d) : d \in Char}
          \/ result'[n].kind \in {"initial", "final"} /\ result'[n].of \in Dict
    <3>1. Mark(c) \in {Mark(d) : d \in Char}
      BY <1>4
    <3>2. \A n \in DOMAIN result :
            \/ result[n] \in {Sil, Eos} \cup {Mark(d) : d \in Char}
            \/ result[n].kind \in {"initial", "final"} /\ result[n].of \in Dict
      BY <1>1 DEF TypeOK
    <3> QED
      BY <1>7, <3>1, <3>2
  <2> QED
    BY <1>1, <1>2, <2>1, <2>2 DEF TypeOK, ArgumentsStay
<1>11. ToneInv'
  <2>1. \A n \in DOMAIN result' :
          result'[n].kind = "final" => \E k \in DOMAIN pinyin : result'[n].tone = pinyin[k].tone
    BY <1>1, <1>7, KindLemma DEF ToneInv
  <2> QED
    BY <1>2, <2>1 DEF ToneInv, ArgumentsStay
<1>12. MarkInv'
  <2>1. MarksWellFormed =>
          \A n \in DOMAIN result' : result'[n].kind = "#" => result'[n].of \in Pause
    BY <1>1, <1>7, <1>8, KindLemma DEF MarkInv
  <2> QED
    BY <1>2, <2>1 DEF MarkInv, MarksWellFormed, ArgumentsStay
<1>13. CursorInv'
  <2>1. CASE \E n \in DOMAIN result : result[n].kind = "#" /\ result[n].of \notin Pause
    <3>1. \E n \in DOMAIN result' : result'[n].kind = "#" /\ result'[n].of \notin Pause
      BY <1>7, <2>1
    <3> QED
      BY <3>1 DEF CursorInv
  <2>2. CASE c \notin Pause
    <3>1. \E n \in DOMAIN result' : result'[n].kind = "#" /\ result'[n].of \notin Pause
      BY <1>6, <1>7, <2>2, KindLemma
    <3> QED
      BY <3>1 DEF CursorInv
  <2>3. CASE j = Rank(ZH(character), i) /\ c \in Pause
    <3>1. i + 1 \notin ZH(character) /\ i + 2 \notin ZH(character)
      BY <1>2, <1>3, <2>3 DEF Pause, isZH, c
    <3>2. Rank(ZH(character), i + 1) = Rank(ZH(character), i)
      BY <1>3, <3>1, RankStepLemma
    <3>3. i + 1 \in Nat /\ (i + 1) + 1 = i + 2
      BY <1>3
    <3>4. Rank(ZH(character), i + 2) = Rank(ZH(character), i + 1)
      <4>1. Rank(ZH(character), (i + 1) + 1) =
              IF (i + 1) + 1 \in ZH(character) THEN Rank(ZH(character), i + 1) + 1
                                               ELSE Rank(ZH(character), i + 1)
        BY <1>3, <3>3, RankStepLemma
      <4> QED
        BY <3>1, <3>3, <4>1
    <3> QED
      BY <1>2, <2>3, <3>2, <3>4 DEF CursorInv, ArgumentsStay
  <2> QED
    BY <1>1, <2>1, <2>2, <2>3 DEF CursorInv
<1>14. EndInv' /\ WellFormedNeverThrows'
  BY <1>2 DEF EndInv, WellFormedNeverThrows
<1>15. SpokenInv'
  BY <1>1, <1>2, <1>3, <1>6, SpokenStaysLemma DEF ArgumentsStay
<1>16. PauseInv'
  <2> SUFFICES ASSUME MarksFollowCharacters PROVE BetweenInv' /\ LastInv'
    BY <1>2 DEF PauseInv, MarksFollowCharacters, MarksWellFormed, ArgumentsStay
  <2>1. BetweenInv /\ LastInv
    BY <1>1 DEF PauseInv
  <2>2. BetweenInv' /\ Finals' = Finals
    <3>1. /\ \A m \in 1 .. Len(result) - 1 : result'[m] = result[m]
          /\ result'[1] = result[1]
      BY <1>3, <1>6 DEF N
    <3> QED
      BY <1>1, <1>2, <1>6, <2>1, <3>1, BetweenStaysLemma DEF ArgumentsStay
  <2>3. i > 0 /\ isZH(character[i])
    <3>1. i + 1 > 1 /\ isZH(character[(i + 1) - 1])
      BY <1>1, <1>2, <1>4, MarkFollowsLemma DEF ArgumentsInv
    <3>2. (i + 1) - 1 = i /\ i > 0
      BY <1>3, <3>1
    <3> QED
      BY <3>1, <3>2
  <2>4. j > 0 /\ Chinese(character)[j] = i
    <3>1. i \in ZH(character)
      BY <1>2, <1>3, <2>3
    <3>2. j = Rank(ZH(character), i)
      BY InStepLemma DEF MarksFollowCharacters
    <3>3. j \in 1 .. Cardinality(ZH(character)) /\ Chinese(character)[j] = i
      BY <1>3, <3>1, <3>2, AscendingLemma DEF Chinese
    <3> QED
      BY <1>3, <3>3
  <2>5. N = Finals[j]
    BY <1>2, <2>1, <2>4 DEF LastInv, N
  <2>6. PauseFrom(i) = c
    BY <1>2 DEF PauseFrom, c
  <2>7. i + 2 < Len(character) => character[(i + 2) + 1] # "#"
    <3> SUFFICES ASSUME i + 2 < Len(character), character[(i + 2) + 1] = "#" PROVE FALSE
      OBVIOUS
    <3>1. (i + 2) + 1 \in 1 .. Len(character) /\ ((i + 2) + 1) - 1 = i + 2
      BY <1>3
    <3>2. isZH(character[i + 2])
      BY <1>1, <3>1, MarkFollowsLemma DEF ArgumentsInv
    <3> QED
      BY <1>8, <3>2 DEF MarksFollowCharacters, Pause, isZH, c
  <2>8. \A n : PauseFrom(n)' = PauseFrom(n)
    BY <1>2 DEF PauseFrom, ArgumentsStay
  <2>9. LastInv'
    BY <1>2, <1>6, <2>2, <2>4, <2>5, <2>6, <2>7, <2>8 DEF LastInv, ArgumentsStay
  <2> QED
    BY <2>2, <2>9
<1> QED
  BY <1>9, <1>10, <1>11, <1>12, <1>13, <1>14, <1>15, <1>16 DEF BakerInv

\* Any other character is passed over.
LEMMA SkipCharacterLemma == ASSUME BakerInv, SkipCharacter PROVE BakerInv'
<1>1. /\ ArgumentsInv /\ TypeOK /\ ToneInv /\ MarkInv /\ CursorInv /\ EndInv
      /\ SpokenInv /\ PauseInv
  BY DEF BakerInv
<1>2. /\ status = "scan" /\ i < Len(character)
      /\ ~isZH(character[i + 1]) /\ character[i + 1] # "#"
      /\ i' = i + 1 /\ j' = j /\ result' = result
      /\ ArgumentsStay /\ status' = status
  BY DEF SkipCharacter, Scanning, curChar, ArgumentsStay
<1>3. /\ Len(character) \in Nat /\ i \in Nat
      /\ \A p \in ZH(character) : p \in 1 .. Len(character)
      /\ \A p \in Nat : p \in ZH(character)
                          <=> 1 <= p /\ p <= Len(character) /\ isZH(character[p])
  BY <1>1, BoundsLemma
<1>4. ArgumentsInv'
  BY <1>1, <1>2 DEF ArgumentsInv, ArgumentsStay
<1>5. TypeOK'
  <2>1. i + 1 \in 0 .. Len(character)
    BY <1>2, <1>3
  <2> QED
    BY <1>1, <1>2, <2>1 DEF TypeOK, ArgumentsStay
<1>6. ToneInv' /\ MarkInv'
  BY <1>1, <1>2 DEF ToneInv, MarkInv, MarksWellFormed, ArgumentsStay
<1>7. CursorInv'
  <2>1. Rank(ZH(character), i + 1) = Rank(ZH(character), i)
    <3>1. i + 1 \notin ZH(character)
      BY <1>2, <1>3
    <3> QED
      BY <1>3, <3>1, RankStepLemma
  <2> QED
    BY <1>1, <1>2, <2>1 DEF CursorInv, ArgumentsStay
<1>8. EndInv' /\ WellFormedNeverThrows'
  BY <1>2 DEF EndInv, WellFormedNeverThrows
<1>9. SpeechAt' = SpeechAt /\ FinalAt' = FinalAt
  BY <1>2 DEF SpeechAt, FinalAt
<1>10. SpokenInv'
  BY <1>1, <1>2, <1>9, SpokenStaysLemma DEF ArgumentsStay
<1>11. PauseInv'
  <2> SUFFICES ASSUME MarksFollowCharacters PROVE BetweenInv' /\ LastInv'
    BY <1>2 DEF PauseInv, MarksFollowCharacters, MarksWellFormed, ArgumentsStay
  <2>1. BetweenInv /\ LastInv
    BY <1>1 DEF PauseInv
  <2>2. BetweenInv' /\ Finals' = Finals
    BY <1>1, <1>2, <1>9, <2>1, BetweenStaysLemma DEF ArgumentsStay
  <2>3. i + 1 < Len(character) => character[(i + 1) + 1] # "#"
    <3> SUFFICES ASSUME i + 1 < Len(character), character[(i + 1) + 1] = "#" PROVE FALSE
      OBVIOUS
    <3>1. (i + 1) + 1 \in 1 .. Len(character) /\ ((i + 1) + 1) - 1 = i + 1
      BY <1>3
    <3>2. isZH(character[i + 1])
      BY <1>1, <3>1, MarkFollowsLemma DEF ArgumentsInv
    <3> QED
      BY <1>2, <3>2
  <2>4. \A n : PauseFrom(n)' = PauseFrom(n)
    BY <1>2 DEF PauseFrom, ArgumentsStay
  <2>5. LastInv'
    BY <1>2, <2>1, <2>2, <2>3, <2>4 DEF LastInv, ArgumentsStay
  <2> QED
    BY <2>2, <2>5
<1> QED
  BY <1>4, <1>5, <1>6, <1>7, <1>8, <1>10, <1>11 DEF BakerInv


\* The loop is over.
LEMMA FinishLemma == ASSUME BakerInv, Finish PROVE BakerInv'
<1> DEFINE N == Len(result)
           L == Len(result')
<1>1. /\ ArgumentsInv /\ TypeOK /\ ToneInv /\ MarkInv /\ CursorInv /\ EndInv
      /\ SpokenInv /\ PauseInv
  BY DEF BakerInv
<1>2. /\ i >= Len(character) /\ i' = i /\ j' = j /\ ArgumentsStay
      /\ \/ asserts /\ j # Len(pinyin) /\ status' = "threw"
         \/ ~(asserts /\ j # Len(pinyin)) /\ status' = "lookup"
  BY DEF Finish, ArgumentsStay
<1>3. /\ N \in Nat /\ N > 0 /\ DOMAIN result = 1 .. N
      /\ Len(character) \in Nat /\ i \in Nat /\ i <= Len(character)
      /\ \A m \in SpeechAt : m \in 1 .. N
      /\ \A m \in FinalAt : m \in 1 .. N
      /\ \A p \in ZH(character) : p \in 1 .. Len(character)
  BY <1>1, BoundsLemma
<1>4. i = Len(character)
  BY <1>2, <1>3
<1>5. /\ result' \in Seq(Symbol) /\ result' # << >> /\ result'[L] = Sil
      /\ \A m \in 1 .. L - 1 : result'[m] = result[m]
      /\ \/ result[N] = Mark("0") /\ L = N
         \/ result[N] # Mark("0") /\ L = N + 1
  <2>1. result \in Seq(Symbol) /\ Len(result) > 0
    BY <1>1, <1>3 DEF ArgumentsInv
  <2>2. result' = Append(IF Last(result) = Mark("0") THEN Front(result) ELSE result, Sil)
    BY DEF Finish
  <2> QED
    BY <2>1, <2>2, TrimLemma
<1>6. L \in Nat /\ L > 0 /\ DOMAIN result' = 1 .. L
  <2>1. L \in Nat /\ DOMAIN result' = 1 .. L
    BY <1>5
  <2>2. L > 0
    BY <1>3, <1>5
  <2> QED
    BY <2>1, <2>2
<1> HIDE DEF N, L
<1>7. /\ \A m \in DOMAIN result' : m # L => m \in DOMAIN result /\ result'[m] = result[m]
      /\ L \in DOMAIN result' /\ result'[L] = Sil
  BY <1>3, <1>5, <1>6
<1>8. ASSUME NEW m \in DOMAIN result, result[m] # Mark("0")
      PROVE  m \in DOMAIN result' /\ m # L /\ result'[m] = result[m]
  <2>1. m \in 1 .. L - 1
    BY <1>3, <1>5, <1>6, <1>8
  <2> QED
    BY <1>5, <1>6, <2>1
<1>9. SpeechAt' = SpeechAt /\ FinalAt' = FinalAt
  <2>1. \A m \in DOMAIN result : result[m].kind \in {"initial", "final"} => result[m] # Mark("0")
    BY KindLemma
  <2>2. Sil.kind \notin {"initial", "final"}
    BY KindLemma
  <2>3. SpeechAt' = SpeechAt
    BY <1>7, <1>8, <2>1, <2>2 DEF SpeechAt
  <2>4. FinalAt' = FinalAt
    BY <1>7, <1>8, <2>1, <2>2 DEF FinalAt
  <2> QED
    BY <2>3, <2>4
<1>10. ArgumentsInv'
  BY <1>1, <1>2, <1>5 DEF ArgumentsInv, ArgumentsStay
<1>11. TypeOK'
  <2>1. \A n \in DOMAIN result' :
          \/ result'[n] \in {Sil, Eos} \cup {Mark(d) : d \in Char}
          \/ result'[n].kind \in {"initial", "final"} /\ result'[n].of \in Dict
    BY <1>1, <1>7 DEF TypeOK
  <2> QED
    BY <1>1, <1>2, <2>1 DEF TypeOK, ArgumentsStay
<1>12. ToneInv'
  <2>1. \A n \in DOMAIN result' :
          result'[n].kind = "final" => \E k \in DOMAIN pinyin : result'[n].tone = pinyin[k].tone
    BY <1>1, <1>7, KindLemma DEF ToneInv
  <2> QED
    BY <1>2, <2>1 DEF ToneInv, ArgumentsStay
<1>13. MarkInv'
  <2>1. MarksWellFormed =>
          \A n \in DOMAIN result' : result'[n].kind = "#" => result'[n].of \in Pause
    BY <1>1, <1>7, KindLemma DEF MarkInv
  <2> QED
    BY <1>2, <2>1 DEF MarkInv, MarksWellFormed, ArgumentsStay
<1>14. CursorInv'
  <2>1. CASE \E n \in DOMAIN result : result[n].kind = "#" /\ result[n].of \notin Pause
    <3>1. PICK n \in DOMAIN result : result[n].kind = "#" /\ result[n].of \notin Pause
      BY <2>1
    <3>2. result[n] # Mark("0")
      BY <3>1, KindLemma DEF Pause
    <3>3. n \in DOMAIN result' /\ result'[n] = result[n]
      BY <1>8, <3>2
    <3> QED
      BY <3>1, <3>3 DEF CursorInv
  <2>2. CASE j = Rank(ZH(character), i)
    BY <1>2, <2>2 DEF CursorInv, ArgumentsStay
  <2> QED
    BY <1>1, <2>1, <2>2 DEF CursorInv
<1>15. EndInv'
  BY <1>2, <1>4 DEF EndInv, ArgumentsStay
<1>16. SpokenInv'
  <2>1. \A m \in SpeechAt : result'[m] = result[m]
    BY <1>8, KindLemma DEF SpeechAt
  <2> QED
    BY <1>1, <1>2, <1>9, <2>1, SpokenStaysLemma DEF ArgumentsStay
<1>17. PauseInv'
  <2> SUFFICES ASSUME MarksFollowCharacters PROVE BetweenInv' /\ LastInv'
    BY <1>2 DEF PauseInv, MarksFollowCharacters, MarksWellFormed, ArgumentsStay
  <2>1. BetweenInv
    BY <1>1 DEF PauseInv
  <2>2. BetweenInv'
    <3>1. \A m \in 1 .. Len(result) - 1 : result'[m] = result[m]
      <4>1. \A m \in 1 .. N - 1 : m \in 1 .. L - 1
        BY <1>3, <1>5, <1>6
      <4> QED
        BY <1>5, <4>1 DEF N
    <3>2. result'[1] = result[1]
      <4>1. result[1] # Mark("0") /\ 1 \in DOMAIN result
        BY <1>3, <2>1, KindLemma DEF BetweenInv
      <4> QED
        BY <1>8, <4>1
    <3> QED
      BY <1>1, <1>2, <1>9, <2>1, <3>1, <3>2, BetweenStaysLemma DEF ArgumentsStay
  <2>3. LastInv'
    BY <1>2, <1>5 DEF LastInv, L
  <2> QED
    BY <2>2, <2>3
<1>18. WellFormedNeverThrows'
  <2> SUFFICES ASSUME MarksWellFormed, PinyinComplete PROVE j = Len(pinyin)
    BY <1>2 DEF WellFormedNeverThrows, MarksWellFormed, PinyinComplete, ArgumentsStay
  <2>1. j = Rank(ZH(character), Len(character))
    BY <1>4, InStepLemma
  <2>2. Rank(ZH(character), Len(character)) = Cardinality(ZH(character))
    BY <1>3, RankEndsLemma
  <2> QED
    BY <1>1, <2>1, <2>2, ChineseLemma DEF ArgumentsInv, PinyinComplete
<1> QED
  BY <1>10, <1>11, <1>12, <1>13, <1>14, <1>15, <1>16, <1>17, <1>18 DEF BakerInv

\* Every symbol for a well-formed input is in the table.
LEMMA InTableLemma ==
  ASSUME BakerInv, MarksWellFormed, PinyinComplete, NEW n \in DOMAIN result
  PROVE  InTable(result[n])
<1>1. TypeOK /\ ToneInv /\ MarkInv
  BY DEF BakerInv
<1>2. CASE result[n] \in {Sil, Eos}
  BY <1>2, KindLemma DEF InTable
<1>3. CASE result[n] \in {Mark(c) : c \in Char}
  <2>1. result[n].kind = "#"
    BY <1>3, KindLemma
  <2> QED
    BY <1>1, <2>1 DEF InTable, MarkInv, Pause
<1>4. CASE result[n].kind = "initial"
  BY <1>4 DEF InTable
<1>5. CASE result[n].kind = "final"
  BY <1>1, <1>5 DEF InTable, ToneInv, PinyinComplete
<1> QED
  BY <1>1, <1>2, <1>3, <1>4, <1>5 DEF TypeOK

\* The symbols are looked up in the table.
LEMMA LookUpLemma == ASSUME BakerInv, LookUp PROVE BakerInv'
<1>1. /\ ArgumentsInv /\ TypeOK /\ ToneInv /\ MarkInv /\ CursorInv /\ EndInv
      /\ SpokenInv /\ PauseInv
  BY DEF BakerInv
<1>2. CASE /\ \E n \in DOMAIN result : ~InTable(result[n])
           /\ Throw
  <2>1. ~(MarksWellFormed /\ PinyinComplete)
    BY <1>2, InTableLemma
  <2> QED
    BY <1>2, <2>1, StandStillLemma DEF Throw, ArgumentsStay
<1>3. CASE /\ \A n \in DOMAIN result : InTable(result[n])
           /\ result' = Append(result, Eos) /\ status' = "returned"
           /\ UNCHANGED <<asserts, text, pinyin, character, i, j>>
  <2> DEFINE N == Len(result)
  <2>1. status = "lookup" /\ ArgumentsStay /\ i' = i /\ j' = j /\ status' = "returned"
    BY <1>3 DEF LookUp, ArgumentsStay
  <2>2. /\ N \in Nat /\ N > 0 /\ DOMAIN result = 1 .. N
        /\ \A m \in SpeechAt : m \in 1 .. N
    BY <1>1, BoundsLemma
  <2>3. Eos \in Symbol
    BY DEF Eos, Symbol, Strings
  <2>4. /\ result' \in Seq(Symbol) /\ result' # << >> /\ Len(result') = N + 1
        /\ DOMAIN result' = 1 .. N + 1
        /\ \A m \in 1 .. N : result'[m] = result[m]
        /\ result'[N + 1] = Eos
        /\ SpeechAt' = SpeechAt /\ FinalAt' = FinalAt
    BY <1>1, <1>3, <2>3, KindLemma, AppendLemma
  <2> HIDE DEF N
  <2>5. /\ \A m \in DOMAIN result' : \/ m \in DOMAIN result /\ result'[m] = result[m]
                                     \/ result'[m] = Eos
        /\ \A m \in DOMAIN result : m \in DOMAIN result' /\ result'[m] = result[m]
    BY <2>2, <2>4
  <2>6. ArgumentsInv'
    BY <1>1, <2>1, <2>4 DEF ArgumentsInv, ArgumentsStay
  <2>7. TypeOK'
    <3>1. \A n \in DOMAIN result' :
            \/ result'[n] \in {Sil, Eos} \cup {Mark(d) : d \in Char}
            \/ result'[n].kind \in {"initial", "final"} /\ result'[n].of \in Dict
      BY <1>1, <2>5 DEF TypeOK
    <3> QED
      BY <1>1, <2>1, <3>1 DEF TypeOK, ArgumentsStay
  <2>8. ToneInv'
    <3>1. \A n \in DOMAIN result' :
            result'[n].kind = "final" => \E k \in DOMAIN pinyin : result'[n].tone = pinyin[k].tone
      BY <1>1, <2>5, KindLemma DEF ToneInv
    <3> QED
      BY <2>1, <3>1 DEF ToneInv, ArgumentsStay
  <2>9. MarkInv'
    <3>1. MarksWellFormed =>
            \A n \in DOMAIN result' : result'[n].kind = "#" => result'[n].of \in Pause
      BY <1>1, <2>5, KindLemma DEF MarkInv
    <3> QED
      BY <2>1, <3>1 DEF MarkInv, MarksWellFormed, ArgumentsStay
  <2>10. CursorInv'
    BY <1>1, <2>1, <2>5 DEF CursorInv, ArgumentsStay
  <2>11. EndInv'
    <3>1. InTable(Eos)
      BY KindLemma DEF InTable
    <3>2. \A n \in DOMAIN result' : InTable(result'[n])
      BY <1>3, <2>5, <3>1
    <3> QED
      BY <1>1, <2>1, <3>2 DEF EndInv, InTable, ArgumentsStay
  <2>12. SpokenInv'
    BY <1>1, <2>1, <2>2, <2>4, SpokenStaysLemma DEF ArgumentsStay
  <2>13. PauseInv'
    <3> SUFFICES ASSUME MarksFollowCharacters PROVE BetweenInv' /\ LastInv'
      BY <2>1 DEF PauseInv, MarksFollowCharacters, MarksWellFormed, ArgumentsStay
    <3>1. BetweenInv /\ LastInv
      BY <1>1 DEF PauseInv
    <3>2. BetweenInv'
      <4>1. /\ \A m \in 1 .. Len(result) - 1 : result'[m] = result[m]
            /\ result'[1] = result[1]
        BY <2>2, <2>4 DEF N
      <4> QED
        BY <1>1, <2>1, <2>4, <3>1, <4>1, BetweenStaysLemma DEF ArgumentsStay
    <3>3. LastInv'
      <4>1. result[N] = Sil /\ Len(result') - 1 = N /\ N \in 1 .. N
        BY <2>1, <2>2, <2>4, <3>1 DEF LastInv, N
      <4> QED
        BY <2>1, <2>4, <4>1 DEF LastInv
    <3> QED
      BY <3>2, <3>3
  <2>14. WellFormedNeverThrows'
    BY <2>1 DEF WellFormedNeverThrows
  <2> QED
    BY <2>6, <2>7, <2>8, <2>9, <2>10, <2>11, <2>12, <2>13, <2>14 DEF BakerInv
<1> QED
  BY <1>2, <1>3 DEF LookUp

-----------------------------------------------------------------------------
(***************************************************************************)
(* The theorems.                                                           *)
(***************************************************************************)

(***************************************************************************)
(* The loop, its exits and the lookup keep the cursors in step with the    *)
(* text, the symbols with the pinyin, and the pauses with the marks.       *)
(***************************************************************************)
THEOREM BakerInvariance == Spec => []BakerInv
<1>1. ASSUME BakerInv, [Next]_vars PROVE BakerInv'
  <2>1. CASE ScanSyllable
    BY <1>1, <2>1, ScanSyllableLemma
  <2>2. CASE ScanSyllableThrows
    BY <1>1, <2>2, ScanSyllableThrowsLemma
  <2>3. CASE ScanMark
    BY <1>1, <2>3, ScanMarkLemma
  <2>4. CASE ScanMarkThrows
    BY <1>1, <2>4, ScanMarkThrowsLemma
  <2>5. CASE SkipCharacter
    BY <1>1, <2>5, SkipCharacterLemma
  <2>6. CASE Finish
    BY <1>1, <2>6, FinishLemma
  <2>7. CASE LookUp
    BY <1>1, <2>7, LookUpLemma
  <2>8. CASE UNCHANGED vars
    BY <1>1, <2>8, StandStillLemma DEF vars, ArgumentsStay
  <2> QED
    BY <1>1, <2>1, <2>2, <2>3, <2>4, <2>5, <2>6, <2>7, <2>8 DEF Next
<1> QED
  BY <1>1, InitLemma, PTL DEF Spec

\* The loop's variables keep their types: it never reads past character or pinyin.
THEOREM BakerTypeCorrect == Spec => []TypeOK
<1>1. BakerInv => TypeOK
  BY DEF BakerInv
<1> QED
  BY <1>1, BakerInvariance, PTL

\* Whatever the dictionary, textToSequence throws on no text whose marks and pinyin are in order.
THEOREM BakerWellFormedNeverThrows == Spec => []WellFormedNeverThrows
<1>1. BakerInv => WellFormedNeverThrows
  BY DEF BakerInv
<1> QED
  BY <1>1, BakerInvariance, PTL

\* When all has been looked up, every Chinese character of the text has had its pinyin.
LEMMA ReturnedLemma ==
  ASSUME BakerInv, status = "returned"
  PROVE  /\ j = Len(Chinese(text)) /\ j \in Nat /\ j <= Len(pinyin)
         /\ asserts => j = Len(pinyin)
         /\ j = Cardinality(ZH(text))
<1>1. ArgumentsInv /\ TypeOK /\ CursorInv /\ EndInv
  BY DEF BakerInv
<1>2. i = Len(character) /\ \A n \in DOMAIN result : InTable(result[n])
  BY <1>1 DEF EndInv
<1>3. \A n \in DOMAIN result : result[n].kind = "#" => result[n].of \in Pause
  BY <1>2 DEF InTable, Pause
<1>4. j = Rank(ZH(character), i)
  BY <1>1, <1>3 DEF CursorInv
<1>5. /\ Len(character) \in Nat /\ j \in Nat /\ j <= Len(pinyin)
      /\ \A p \in ZH(character) : p \in 1 .. Len(character)
  BY <1>1, BoundsLemma
<1>6. Rank(ZH(character), Len(character)) = Cardinality(ZH(character))
  BY <1>5, RankEndsLemma
<1>7. j = Cardinality(ZH(text)) /\ Len(Chinese(text)) = Cardinality(ZH(text))
  BY <1>1, <1>2, <1>4, <1>6, ChineseLemma DEF ArgumentsInv
<1> QED
  BY <1>1, <1>5, <1>7 DEF EndInv

\* What textToSequence returns speaks the given pinyin, one for each Chinese character, in order.
THEOREM BakerSpokenAsGiven == Spec => []SpokenAsGiven
<1>1. ASSUME BakerInv PROVE SpokenAsGiven
  <2> SUFFICES ASSUME status = "returned"
               PROVE  LET n == Len(Chinese(text))
                          spoken == Ascending(SpeechAt)
                      IN
                      /\ n <= Len(pinyin)
                      /\ asserts => n = Len(pinyin)
                      /\ Len(spoken) = 2 * n
                      /\ \A k \in 1 .. n :
                           <<result[spoken[(2 * k) - 1]], result[spoken[2 * k]]>>
                             = Syllable(pinyin[k])
    BY DEF SpokenAsGiven
  <2>1. ArgumentsInv /\ TypeOK /\ SpokenInv
    BY <1>1 DEF BakerInv
  <2>2. /\ j = Len(Chinese(text)) /\ j <= Len(pinyin)
        /\ asserts => j = Len(pinyin)
    BY <1>1, ReturnedLemma
  <2>3. Len(Spoken) = 2 * j
    <3>1. Len(result) \in Nat /\ \A m \in SpeechAt : m \in 1 .. Len(result)
      BY <2>1, BoundsLemma
    <3> QED
      BY <2>1, <3>1, AscendingLemma DEF SpokenInv, Spoken
  <2>4. \A k \in 1 .. j : <<result[Spoken[(2 * k) - 1]], result[Spoken[2 * k]]>>
                            = Syllable(pinyin[k])
    BY <2>1 DEF SpokenInv, Syllable
  <2> QED
    BY <2>2, <2>3, <2>4 DEF Spoken
<1> QED
  BY <1>1, BakerInvariance, PTL

(***************************************************************************)
(* Whatever marks stand in the text, the #4 that are taken out included,   *)
(* two syllables of what textToSequence returns have exactly one pause     *)
(* between them, and it is the marked one.                                 *)
(***************************************************************************)
THEOREM BakerOnePauseBetweenSyllables == Spec => []OnePauseBetweenSyllables
<1>1. ASSUME BakerInv PROVE OnePauseBetweenSyllables
  <2> SUFFICES ASSUME status = "returned", MarksFollowCharacters
               PROVE  LET zh == Chinese(text)
                          finals == Ascending(FinalAt)
                      IN  /\ result[1] = Sil /\ result[Len(result) - 1] = Sil
                          /\ \A k \in 1 .. Len(zh) - 1 :
                               /\ result[finals[k] + 1] = Mark(PauseAfter(zh[k]))
                               /\ finals[k + 1] = finals[k] + 3
    BY DEF OnePauseBetweenSyllables
  <2>1. ArgumentsInv /\ BetweenInv /\ LastInv
    BY <1>1 DEF BakerInv, PauseInv
  <2>2. j = Len(Chinese(text)) /\ j = Cardinality(ZH(text)) /\ j \in Nat
    BY <1>1, ReturnedLemma
  <2>3. \A k \in 1 .. j : PauseAfter(Chinese(text)[k]) = PauseFrom(Chinese(character)[k])
    BY <2>1, <2>2, PauseLemma DEF ArgumentsInv
  <2>4. result[1] = Sil /\ result[Len(result) - 1] = Sil
    BY <2>1 DEF BetweenInv, LastInv
  <2>5. \A k \in 1 .. j - 1 : /\ result[Finals[k] + 1] = Mark(PauseAfter(Chinese(text)[k]))
                              /\ Finals[k + 1] = Finals[k] + 3
    <3>1. \A k \in 1 .. j - 1 : k \in 1 .. j
      BY <2>2
    <3> QED
      BY <2>1, <2>3, <3>1 DEF BetweenInv
  <2> QED
    BY <2>2, <2>4, <2>5 DEF Finals
<1> QED
  BY <1>1, BakerInvariance, PTL

(***************************************************************************)
(* No text of a character and er, with the one pinyin that the assertions  *)
(* admit for the two (baker.dart:121-122), is ever spoken, whatever is in  *)
(* the dictionary, with assertions and without.                            *)
(***************************************************************************)
THEOREM BakerErhuaNeverSpoken == Spec => [](ErhuaWellFormed => status # "returned")
<1>1. ASSUME BakerInv PROVE ErhuaWellFormed => status # "returned"
  <2> SUFFICES ASSUME ErhuaWellFormed, status = "returned" PROVE FALSE
    OBVIOUS
  <2>1. Cardinality(ZH(text)) <= 1
    BY <1>1, ReturnedLemma DEF ErhuaWellFormed
  <2>2. ZH(text) = {1} \cup {2}
    <3>1. DOMAIN text = {1, 2} /\ isZH(text[1]) /\ isZH(text[2])
      BY DEF ErhuaWellFormed, isZH
    <3> QED
      BY <3>1 DEF ZH
  <2>3. Cardinality({1} \cup {2}) = Cardinality({1}) + 1 /\ Cardinality({1}) = 1
    <3>1. \A n : IsFiniteSet({n}) /\ Cardinality({n}) = 1
      BY FS_Singleton
    <3>2. 2 \notin {1}
      OBVIOUS
    <3> QED
      BY <3>1, <3>2, FS_AddElement
  <2> QED
    BY <2>1, <2>2, <2>3
<1> QED
  BY <1>1, BakerInvariance, PTL
==============================================================================
