---------------------------- MODULE MC_TextField ----------------------------
(* Texts of up to two code points over a typeable character and the       *)
(* newline, which gwmClassifyChar puts in different classes; one caller    *)
(* colour besides the default black.                                        *)
(*   - the editing model: every flag combination, a two-character text on   *)
(*     the clipboard from another program, no styles;                      *)
(*   - the style model: an enabled single-line field and room for three    *)
(*     styles: enough for a selection with a style inside it, a style at   *)
(*     the head and one restoring the colour at the end.                   *)
EXTENDS TextField

CONSTANTS A, NLc, Red, Blk, Null

MCChars == {A}
MCClass == [c \in {A, NLc} |-> IF c = A THEN 1 ELSE 2]
MCColors == {Red}
MCMaxLen == 2

EditMaxStyles == 0
EditInitClipboard == {Null, <<A, NLc>>}
EditFlagValues == [disabled : BOOLEAN, multiline : BOOLEAN]

StyleMaxStyles == 3
StyleInitClipboard == {Null}
StyleFlagValues == {[disabled |-> FALSE, multiline |-> FALSE]}
=============================================================================
