------------------------------ MODULE MCBaker ------------------------------
(***************************************************************************)
(* Baker on every text of bounded length, with every pronunciation of      *)
(* bounded length: pinyin that are listed, one with r, one without a tone; *)
(* and with the longer ones of listed pinyin only.                         *)
(***************************************************************************)
EXTENDS Baker

CONSTANTS
  MaxText,    \* bound: characters in a text
  MaxPinyin   \* bound: pinyin in a pronunciation of any pinyin; one more if all are listed

MCText   == UNION {[1 .. n -> {"zh", "er", "#", "3", "4", "x"}] : n \in 0 .. MaxText}
MCPinyin ==
  LET Listed   == [body : {"ni", "hao"}, tone : {"3"}]
      Unlisted == {[body |-> "nir", tone |-> "3"], [body |-> "a", tone |-> "n"]}
  IN  UNION {[1 .. n -> Listed \cup Unlisted] : n \in 0 .. MaxPinyin}
        \cup [1 .. MaxPinyin + 1 -> Listed]
MCDict   == {"ni", "hao", "a"}
MCRhotic == {"nir"}
=============================================================================
