-------------------------------- MODULE Baker --------------------------------
(***************************************************************************)
(* Baker.textToSequence (preprocesors/baker.dart): a Chinese text with     *)
(* prosody marks, and the pinyin of its syllables, become the symbols the  *)
(* mel generator is trained on.  A pronunciation is given: without one the *)
(* call throws before anything else.                                       *)
(*                                                                         *)
(* A text is a sequence of characters, of which the code tells apart       *)
(*   "zh"  a character in 4e00-9fa5          "#"   the start of a mark     *)
(*   "er"  the character for er, also in it  "0" .. "4"   digits           *)
(*   "x"   any other character                                             *)
(* A pinyin (not empty) is its last character, the tone, and the body      *)
(* before it.  A symbol id is represented by its symbol: the table is      *)
(* injective.                                                              *)
(***************************************************************************)
EXTENDS Naturals, SequencesExt

CONSTANTS
  Text,      \* the texts considered
  Pinyin,    \* the pronunciations considered: sequences of [body, tone]
  Dict,      \* keys of pinyin_dict
  Rhotic     \* bodies that are a key followed by r

ASSUME DictAssumption == Rhotic \cap Dict = {}

Char == {"zh", "er", "#", "0", "1", "2", "3", "4", "x"}
Tone == {"1", "2", "3", "4", "5"}

ASSUME TextAssumption ==
  /\ \A t \in Text : t \in Seq(Char)
  /\ \A p \in Pinyin : p \in Seq([body : STRING, tone : STRING])

VARIABLES
  asserts,    \* whether assertions are enabled, as in a debug build; it never changes
  text,       \* the arguments of the call
  pinyin,
  character,  \* the text without its #4 marks
  i, j,       \* how much of character and of pinyin has been consumed
  result,     \* the symbols so far
  status      \* "scan": in the loop, "lookup": after it, "returned" or "threw"

vars == <<asserts, text, pinyin, character, i, j, result, status>>

-----------------------------------------------------------------------------
\* Symbols, with the fields every kind of them needs.
Sil         == [kind |-> "sil",     of |-> "",   tone |-> ""]
Eos         == [kind |-> "eos",     of |-> "",   tone |-> ""]
Mark(c)     == [kind |-> "#",       of |-> c,    tone |-> ""]
Initial(b)  == [kind |-> "initial", of |-> b,    tone |-> ""]
Final(b, t) == [kind |-> "final",   of |-> b,    tone |-> t]
Syllable(p) == <<Initial(p.body), Final(p.body, p.tone)>>

(***************************************************************************)
(* symbol_to_id: it has the five pauses, the initials and the finals of    *)
(* the dictionary with each tone, and eos.                                 *)
(***************************************************************************)
InTable(s) ==
  \/ s.kind \in {"sil", "eos", "initial"}
  \/ s.kind = "#" /\ s.of \in {"0", "1", "2", "3"}
  \/ s.kind = "final" /\ s.tone \in Tone

isZH(c) == c \in {"zh", "er"}

\* How many of a set of positions are at n or before.
Rank(S, n) == Cardinality({m \in S : m <= n})

\* The positions of a set in order.
Ascending(S) == [k \in 1 .. Cardinality(S) |-> CHOOSE n \in S : Rank(S, n) = k]

RemoveMark4_Kept(t) == t

\* character.replaceAll("#4", "")
IsMark4(t, n)  == n \in 1 .. Len(t) - 1 /\ t[n] = "#" /\ t[n + 1] = "4"
Kept(t)        == {n \in DOMAIN t : ~IsMark4(t, n) /\ ~IsMark4(t, n - 1)}
RemoveMark4(t) == LET kept == Ascending(Kept(t)) IN [n \in DOMAIN kept |-> t[kept[n]]]

-----------------------------------------------------------------------------
Init ==
  /\ asserts \in BOOLEAN
  /\ text \in Text
  /\ pinyin \in Pinyin
  /\ character = RemoveMark4(text)
  /\ i = 0
  /\ j = 0
  /\ result = <<Sil>>
  /\ status = "scan"

Scanning == status = "scan" /\ i < Len(character)
curChar  == character[i + 1]

Throw == status' = "threw" /\ UNCHANGED <<asserts, text, pinyin, character, i, j, result>>

NeedsPause_DespiteMark == i + 1 < Len(character)

\* A pause goes between two characters unless the text marks one there.
NeedsPause == i + 1 < Len(character) /\ character[i + 2] # "#"

ScanSyllable_StepsTwice ==
  /\ Scanning /\ isZH(curChar)
  /\ j < Len(pinyin) /\ pinyin[j + 1].body \in Dict
  /\ result' = result \o Syllable(pinyin[j + 1])
  /\ i' = i + 2
  /\ j' = j + 1
  /\ UNCHANGED <<asserts, text, pinyin, character, status>>

\* A Chinese character takes the next pinyin, which is in the dictionary.
ScanSyllable ==
  /\ Scanning /\ isZH(curChar)
  /\ j < Len(pinyin) /\ pinyin[j + 1].body \in Dict
  /\ result' = result \o Syllable(pinyin[j + 1])
                      \o (IF NeedsPause THEN <<Mark("0")>> ELSE << >>)
  /\ i' = i + 1
  /\ j' = j + 1
  /\ UNCHANGED <<asserts, text, pinyin, character, status>>

(***************************************************************************)
(* There is no next pinyin, or the dictionary lacks it: then the assertions*)
(* ask for an er to follow, but the lookup is repeated unchanged, and p! on*)
(* its null throws whatever follows.                                       *)
(***************************************************************************)
ScanSyllableThrows ==
  /\ Scanning /\ isZH(curChar)
  /\ j < Len(pinyin) => pinyin[j + 1].body \notin Dict
  /\ Throw

ScanMark_SwallowsNext ==
  /\ Scanning /\ curChar = "#"
  /\ i + 2 <= Len(character)
  /\ result' = Append(result, Mark(character[i + 2]))
  /\ i' = i + 3
  /\ UNCHANGED <<asserts, text, pinyin, character, j, status>>

\* A mark is # and the character after it.
ScanMark ==
  /\ Scanning /\ curChar = "#"
  /\ i + 2 <= Len(character)
  /\ result' = Append(result, Mark(character[i + 2]))
  /\ i' = i + 2
  /\ UNCHANGED <<asserts, text, pinyin, character, j, status>>

\* A # at the end: substring is out of range.
ScanMarkThrows == Scanning /\ curChar = "#" /\ i + 2 > Len(character) /\ Throw

SkipCharacter ==
  /\ Scanning /\ ~isZH(curChar) /\ curChar # "#"
  /\ i' = i + 1
  /\ UNCHANGED <<asserts, text, pinyin, character, j, result, status>>

\* After the loop one trailing #0 goes, sil comes, and a debug build checks j.
Finish ==
  LET trimmed == IF Last(result) = Mark("0") THEN Front(result) ELSE result IN
  /\ status = "scan" /\ i >= Len(character)
  /\ result' = Append(trimmed, Sil)
  /\ status' = IF asserts /\ j # Len(pinyin) THEN "threw" ELSE "lookup"
  /\ UNCHANGED <<asserts, text, pinyin, character, i, j>>

\* textToSequence maps the symbols; a symbol that is not in the table throws.
LookUp ==
  /\ status = "lookup"
  /\ \/ /\ \A n \in DOMAIN result : InTable(result[n])
        /\ result' = Append(result, Eos)
        /\ status' = "returned"
        /\ UNCHANGED <<asserts, text, pinyin, character, i, j>>
     \/ /\ \E n \in DOMAIN result : ~InTable(result[n])
        /\ Throw

Next == \/ ScanSyllable \/ ScanSyllableThrows \/ ScanMark \/ ScanMarkThrows
        \/ SkipCharacter \/ Finish \/ LookUp

Spec == Init /\ [][Next]_vars

-----------------------------------------------------------------------------
(***************************************************************************)
(* Properties                                                              *)
(***************************************************************************)

\* The types of the loop's variables; it never reads past character.
TypeOK ==
  /\ character \in Seq(Char)
  /\ i \in 0 .. Len(character)
  /\ j \in 0 .. Len(pinyin)
  /\ \A n \in DOMAIN result :
       \/ result[n] \in {Sil, Eos} \cup {Mark(c) : c \in Char}
       \/ result[n].kind \in {"initial", "final"} /\ result[n].of \in Dict
  /\ status \in {"scan", "lookup", "returned", "threw"}

\* The positions of the Chinese characters in a text.
ZH(t)      == {n \in DOMAIN t : isZH(t[n])}
Chinese(t) == Ascending(ZH(t))

(***************************************************************************)
(* The marks of a text are well formed: each # comes with a digit 0 .. 4.  *)
(* Its pronunciation is complete: one pinyin from the dictionary, with a   *)
(* tone, for every Chinese character.                                      *)
(***************************************************************************)
MarksWellFormed ==
  \A n \in DOMAIN text :
    text[n] = "#" => n < Len(text) /\ text[n + 1] \in {"0", "1", "2", "3", "4"}
PinyinComplete ==
  /\ Len(pinyin) = Len(Chinese(text))
  /\ \A n \in DOMAIN pinyin : pinyin[n].body \in Dict /\ pinyin[n].tone \in Tone

(***************************************************************************)
(* textToSequence throws on no well-formed input, wherever the #4 marks    *)
(* that it takes out stand.                                                *)
(***************************************************************************)
WellFormedNeverThrows == MarksWellFormed /\ PinyinComplete => status # "threw"

(***************************************************************************)
(* A sequence it returns speaks exactly the pinyin given, in order, one    *)
(* for each Chinese character: none is lost behind a mark, none is spoken  *)
(* twice.  (Without assertions, surplus pinyin at the end is ignored, so   *)
(* the number is that of the characters.)                                  *)
(***************************************************************************)
SpeechAt == {m \in DOMAIN result : result[m].kind \in {"initial", "final"}}
FinalAt  == {m \in DOMAIN result : result[m].kind = "final"}
SpokenAsGiven ==
  status = "returned" =>
    LET n == Len(Chinese(text))
        spoken == Ascending(SpeechAt)
    IN
    /\ n <= Len(pinyin)
    /\ asserts => n = Len(pinyin)
    /\ Len(spoken) = 2 * n
    /\ \A k \in 1 .. n :
         <<result[spoken[(2 * k) - 1]], result[spoken[2 * k]]>> = Syllable(pinyin[k])

(***************************************************************************)
(* When each of the text's marks follows a Chinese character, a sequence   *)
(* that is returned has exactly one pause between two syllables - the      *)
(* marked one, or else #0, as at a #4 - and sil at its start and end.      *)
(***************************************************************************)
MarksFollowCharacters ==
  MarksWellFormed /\ \A n \in DOMAIN text : text[n] = "#" => n > 1 /\ isZH(text[n - 1])
PauseAfter(n) ==
  IF n + 2 <= Len(text) /\ text[n + 1] = "#" /\ text[n + 2] # "4" THEN text[n + 2] ELSE "0"
OnePauseBetweenSyllables ==
  status = "returned" /\ MarksFollowCharacters =>
    LET zh == Chinese(text)
        finals == Ascending(FinalAt)
    IN  /\ result[1] = Sil /\ result[Len(result) - 1] = Sil
        /\ \A k \in 1 .. Len(zh) - 1 :
             /\ result[finals[k] + 1] = Mark(PauseAfter(zh[k]))
             /\ finals[k + 1] = finals[k] + 3

(***************************************************************************)
(* "assert(character[i + 1] == er); assert(pinyin[j][pinyin[j].length - 2] *)
(* == r)" (baker.dart:121-122) admit a character followed by er whose      *)
(* pinyin is a known syllable with an r, for which "er5" is to be spoken.  *)
(* Such a text, otherwise well formed, throws: this does not hold.         *)
(***************************************************************************)
ErhuaWellFormed ==
  /\ text = <<"zh", "er">>
  /\ Len(pinyin) = 1 /\ pinyin[1].body \in Rhotic /\ pinyin[1].tone \in Tone
ErhuaIsSpoken == ErhuaWellFormed => status # "threw"
=============================================================================
