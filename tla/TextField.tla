----------------------------- MODULE TextField -----------------------------
(***************************************************************************)
(* The editing state of a libgwm text field (src/libgwm/textfield.c):      *)
(* text, cursor, selection, drag anchor and the sorted list of colour      *)
(* styles, changed by gwmTextFieldHandler's events, by the right-click     *)
(* menu callbacks (txtCut, txtCopy, txtPaste, txtSelectAll) and by the     *)
(* public API (gwmWriteTextField, gwmTextFieldSelectAll,                   *)
(* gwmSetTextFieldFlags, gwmClearTextFieldStyles,                          *)
(* gwmSetTextFieldColorRange, gwmDestroyTextField).                        *)
(*                                                                         *)
(* Text is a sequence of code points (UTF-8 decoding abstracted away),     *)
(* offsets count code points as the code does.  The style list, a doubly   *)
(* linked list in the code, is a sequence in list order; every style this  *)
(* file creates is TXT_STYLE_SET_FG, so the type is left out.  Of the      *)
(* drawing only the loop that hands the text to the pen is modelled        *)
(* (Redraw); the pen maps a click to some position in the text.            *)
(***************************************************************************)
EXTENDS Naturals, Integers, Sequences, SequencesExt, FiniteSets

CONSTANTS
  Chars,        \* code points that can be typed
  NL,           \* the '\n' inserted by Enter in a multiline field
  Class,        \* gwmClassifyChar on Chars \cup {NL}
  Colors,       \* colours a caller may pass to gwmSetTextFieldColorRange
  Black,        \* endColor's initial value {0, 0, 0, 0xFF}
  NoText,       \* gwmClipboardGetText returned NULL
  MaxLen,       \* bound on the text length
  MaxStyles,    \* bound on the style list length
  InitClipboard,\* what other programs may have left on the clipboard
  FlagValues    \* the flags callers pass to create the field or to
                \* gwmSetTextFieldFlags: a subset of
                \* [disabled : BOOLEAN, multiline : BOOLEAN]

ASSUME NL \notin Chars /\ Black \notin Colors
ASSUME MaxLen \in Nat /\ MaxStyles \in Nat

Glyphs == Chars \cup {NL}
Texts == UNION {[1..n -> Glyphs] : n \in 0..MaxLen}

VARIABLES
  text, cursorPos, selectStart, selectEnd, clickPos,
  flags,        \* [disabled, multiline |-> BOOLEAN]
  styles,       \* Seq([offset |-> Nat, color |-> Colors \cup {Black}])
  clipboard,    \* the system clipboard: a text or NoText
  posted,       \* events the last step posted to the field's parent
  fault         \* "none", or how the process left defined behaviour

vars == <<text, cursorPos, selectStart, selectEnd, clickPos, flags, styles,
          clipboard, posted, fault>>

edit == <<text, cursorPos, selectStart, selectEnd, styles>>

MinOf(a, b) == IF a < b THEN a ELSE b

HasSelection == selectStart # selectEnd

\* The copy loops stop at the terminating NUL.
Slice(t, from, to) == SubSeq(t, from + 1, MinOf(to, Len(t)))

-----------------------------------------------------------------------------
(* Pure parts of the editing functions, as operators on their inputs.      *)

\* gwmTextFieldDeleteSelection: text before the selection, then after it;
\* styles strictly inside are unlinked, styles at or past its end move back.
DelText(t, s, e) == Slice(t, 0, s) \o Slice(t, e, Len(t))

\* Mutant: styles inside the selection are left linked in place.
DelStylesKeepInner(st, s, e) ==
  [i \in DOMAIN st |-> IF st[i].offset > s /\ st[i].offset >= e
                       THEN [st[i] EXCEPT !.offset = @ - (e - s)] ELSE st[i]]

DelStyles(st, s, e) ==
  LET kept == SelectSeq(st, LAMBDA x : ~(x.offset > s /\ x.offset < e))
  IN [i \in DOMAIN kept |-> IF kept[i].offset > s
                            THEN [kept[i] EXCEPT !.offset = @ - (e - s)]
                            ELSE kept[i]]

\* gwmTextFieldInsert after any selection is gone: styles at or after the
\* cursor move forward by the inserted length, the cursor moves past it.
InsText(t, c, str) == Slice(t, 0, c) \o str \o Slice(t, c, Len(t))

InsStyles(st, c, n) ==
  [i \in DOMAIN st |-> IF st[i].offset >= c
                       THEN [st[i] EXCEPT !.offset = @ + n] ELSE st[i]]

\* Styles past the text keep moving forward as text is typed before them
\* (gwmWriteTextField never drops them); MaxLen + 1 bounds their offsets.
OffsetsBounded(st) == \A i \in DOMAIN st : st[i].offset <= MaxLen + 1

\* The FG colour the pen uses at position p: the last style in list order
\* at or before p (gwmRedrawTextField applies styles in order).
ColorAt(st, p) ==
  LET at == {i \in DOMAIN st : st[i].offset <= p}
  IN IF at = {} THEN Black ELSE st[CHOOSE i \in at : \A j \in at : j <= i].color

(* The text-writing loop of gwmRedrawTextField (lines 219-275), as what it *)
(* hands the pen: one record per code point written, with the pen's FG    *)
(* colour and whether its background is GWM_COLOR_SELECTION.  k is the    *)
(* next style in list order, cp is currentPos.  ddiGetOffsetUTF8 is taken  *)
(* to stop at the terminating NUL, as the copy loops do (Slice).           *)

\* Lines 228-241: apply every style sitting at the current position.
RECURSIVE ApplyStyles(_, _, _, _)
ApplyStyles(st, k, cp, fg) ==
  IF k <= Len(st) /\ st[k].offset = cp
  THEN ApplyStyles(st, k + 1, cp, st[k].color)
  ELSE <<k, fg>>

\* Mutant: the cut at selectStart (lines 259-260) left out.
NextCountNoSelStart(t, st, k, cp, s, e) ==
  LET toStyle == IF k > Len(st) THEN Len(t) - cp
                 ELSE IF st[k].offset >= cp THEN st[k].offset - cp
                 ELSE Len(t)
      sel == s # e
  IN IF sel /\ e > cp /\ e - cp < toStyle THEN e - cp ELSE toStyle

\* Lines 255-262: up to the next style, cut at the selection's bounds.  An
\* offset behind cp (an unsorted list) wraps the size_t difference to a
\* count the NUL stops.
NextCount(t, st, k, cp, s, e) ==
  LET toStyle == IF k > Len(st) THEN Len(t) - cp
                 ELSE IF st[k].offset >= cp THEN st[k].offset - cp
                 ELSE Len(t)
      sel == s # e
      n1 == IF sel /\ s > cp /\ s - cp < toStyle THEN s - cp ELSE toStyle
  IN IF sel /\ e > cp /\ e - cp < n1 THEN e - cp ELSE n1

\* Lines 225-275: apply styles, switch the background at the selection's
\* bounds (243-253), write the next run (264-270), advance (272-274).
RECURSIVE RedrawLoop(_, _, _, _, _, _, _, _)
RedrawLoop(t, st, s, e, k, cp, fg, bg) ==
  IF cp >= Len(t) THEN <<>>
  ELSE LET ks == ApplyStyles(st, k, cp, fg)
           bg1 == IF s # e /\ cp = e THEN FALSE
                  ELSE IF s # e /\ cp = s THEN TRUE ELSE bg
           n == NextCount(t, st, ks[1], cp, s, e)
           run == Slice(t, cp, cp + n)
       IN [i \in DOMAIN run |-> [ch |-> run[i], fg |-> ks[2], sel |-> bg1]]
          \o RedrawLoop(t, st, s, e, ks[1], cp + n, ks[2], bg1)

Redraw(t, st, s, e) == RedrawLoop(t, st, s, e, 1, 0, Black, FALSE)

\* insertStyle: the walk links the new style after the last one with a
\* smaller offset; when the first style's offset is not smaller it takes
\* the else branch, whose scan->prev->next dereferences NULL.
InsertStyleCrashes(st, pos) == st # <<>> /\ st[1].offset >= pos

InsertStyle(st, pos, color) ==
  LET after == Min({i \in DOMAIN st : st[i].offset < pos
                                     /\ (i = Len(st) \/ st[i + 1].offset >= pos)})
  IN IF st = <<>> THEN <<[offset |-> pos, color |-> color]>>
     ELSE SubSeq(st, 1, after) \o <<[offset |-> pos, color |-> color]>>
            \o SubSeq(st, after + 1, Len(st))

\* Mutant: removeStyle's range taken as closed at end.
RemoveStyleClosed(st, start, end) ==
  SelectSeq(st, LAMBDA x : ~(x.offset >= start /\ x.offset <= end))

\* removeStyle(data, start, end, TXT_STYLE_SET_FG)
RemoveStyle(st, start, end) ==
  SelectSeq(st, LAMBDA x : ~(x.offset >= start /\ x.offset < end))

\* gwmTextFieldSelectWord: from where the run of the character before the
\* cursor begins (at position 0: the first character) to where that class
\* first changes after the cursor; an empty text selects nothing.
SameClass(t, from, to, cls) == \A j \in from..to : Class[t[j]] = cls

\* Mutant: the forward scan compares with the character after the cursor.
WordBoundsAfter(t, c) ==
  IF t = <<>> THEN <<0, 0>>
  ELSE LET cls == Class[t[MinOf(c + 1, Len(t))]]
       IN <<Min({k \in 0..c : SameClass(t, k + 1, c, cls)}),
            Max({m \in c..Len(t) : SameClass(t, c + 1, m, cls)})>>

WordBounds(t, c) ==
  IF t = <<>> THEN <<0, 0>>
  ELSE LET cls == Class[t[IF c = 0 THEN 1 ELSE c]]
       IN <<Min({k \in 0..c : SameClass(t, k + 1, c, cls)}),
            Max({m \in c..Len(t) : SameClass(t, c + 1, m, cls)})>>

-----------------------------------------------------------------------------
(* Operations.  Each action is a whole call; gwmPostUpdate only schedules  *)
(* a redraw and is left out.                                                *)

Events == {"VALUE_CHANGED", "COMMAND"}

\* gwmNewTextField (gwmCreateTextField with "") with any flags; any text
\* is reached from here by gwmWriteTextField.
Init ==
  /\ text = <<>>
  /\ cursorPos = 0
  /\ selectStart = 0 /\ selectEnd = 0
  /\ clickPos = -1
  /\ flags \in FlagValues
  /\ styles = <<>>
  /\ clipboard \in InitClipboard
  /\ posted = {}
  /\ fault = "none"

Faults == {"none", "null_deref", "overread", "use_after_free"}

\* A loop of the editing code that counts code points without stopping at
\* the terminating NUL reads past the end of the text.  What follows depends
\* on ddiReadUTF8 at the terminator (libddi, outside this repository), so
\* the model stops there.
Overread ==
  /\ fault' = "overread" /\ posted' = {}
  /\ UNCHANGED <<text, cursorPos, selectStart, selectEnd, clickPos, flags,
                 styles, clipboard>>

\* gwmTextFieldDeleteSelection; its skip loop reads selectEnd - selectStart
\* code points with no NUL check.
DelPastEnd == selectEnd > Len(text)

DeleteSelection ==
  /\ text' = DelText(text, selectStart, selectEnd)
  /\ styles' = DelStyles(styles, selectStart, selectEnd)
  /\ cursorPos' = selectStart
  /\ selectStart' = 0 /\ selectEnd' = 0

\* gwmTextFieldInsert(field, str): delete any selection, then insert.  Its
\* copy loop stops at the NUL, but strcat then copies from past it.
TextFieldInsert(str) ==
  LET t0 == IF HasSelection THEN DelText(text, selectStart, selectEnd) ELSE text
      s0 == IF HasSelection THEN DelStyles(styles, selectStart, selectEnd) ELSE styles
      c0 == IF HasSelection THEN selectStart ELSE cursorPos
  IN \/ /\ IF HasSelection THEN DelPastEnd ELSE cursorPos > Len(text)
        /\ Overread
     \/ /\ ~IF HasSelection THEN DelPastEnd ELSE cursorPos > Len(text)
        /\ Len(t0) + Len(str) <= MaxLen
        /\ OffsetsBounded(InsStyles(s0, c0, Len(str)))
        /\ text' = InsText(t0, c0, str)
        /\ styles' = InsStyles(s0, c0, Len(str))
        /\ cursorPos' = c0 + Len(str)
        /\ IF HasSelection THEN selectStart' = 0 /\ selectEnd' = 0
                           ELSE UNCHANGED <<selectStart, selectEnd>>
        /\ posted' = {"VALUE_CHANGED"}
        /\ UNCHANGED fault

\* gwmTextFieldBackspace: a selection is deleted (and nothing is posted);
\* otherwise the character before the cursor goes and styles after it
\* move back.  At position 0 it returns at once.
TextFieldBackspace ==
  \/ /\ HasSelection /\ DelPastEnd
     /\ Overread
  \/ /\ HasSelection /\ ~DelPastEnd
     /\ DeleteSelection
     /\ posted' = {}
     /\ UNCHANGED fault
  \/ /\ ~HasSelection /\ cursorPos > Len(text)
     /\ Overread
  \/ /\ ~HasSelection /\ cursorPos > 0 /\ cursorPos <= Len(text)
     /\ text' = Slice(text, 0, cursorPos - 1) \o Slice(text, cursorPos, Len(text))
     /\ cursorPos' = cursorPos - 1
     /\ styles' = [i \in DOMAIN styles |->
                     IF styles[i].offset > cursorPos - 1
                     THEN [styles[i] EXCEPT !.offset = @ - 1] ELSE styles[i]]
     /\ UNCHANGED <<selectStart, selectEnd, fault>>
     /\ posted' = {"VALUE_CHANGED"}

\* txtCopy: put the selected text on the clipboard.  Its skip loop has no
\* NUL check, but a non-empty selection always starts inside the text.
TxtCopy ==
  /\ clipboard' = IF HasSelection THEN Slice(text, selectStart, selectEnd)
                                  ELSE clipboard
  /\ posted' = {}
  /\ UNCHANGED <<edit, clickPos, flags, fault>>

\* txtCut (menu entry "Cut", or Ctrl+X when enabled): a disabled field only
\* copies; otherwise copy, then delete the selection even when it is empty.
TxtCut ==
  IF flags.disabled THEN TxtCopy
  ELSE \/ DelPastEnd /\ Overread
       \/ /\ ~DelPastEnd
          /\ clipboard' = IF HasSelection THEN Slice(text, selectStart, selectEnd)
                                          ELSE clipboard
          /\ DeleteSelection
          /\ posted' = {}
          /\ UNCHANGED <<clickPos, flags, fault>>

\* txtPaste (menu entry "Paste", or Ctrl+V): a disabled field returns at
\* once; a NULL clipboard inserts nothing.
TxtPaste ==
  /\ ~flags.disabled
  /\ \/ /\ clipboard = NoText
        /\ posted' = {}
        /\ UNCHANGED <<edit, clickPos, flags, clipboard, fault>>
     \/ /\ clipboard # NoText
        /\ TextFieldInsert(clipboard)
        /\ UNCHANGED <<clickPos, flags, clipboard, fault>>

\* txtSelectAll (menu, Ctrl+A).
TxtSelectAll ==
  /\ selectStart' = 0 /\ selectEnd' = Len(text) /\ cursorPos' = Len(text)
  /\ posted' = {}
  /\ UNCHANGED <<text, styles, clickPos, flags, clipboard, fault>>

\* gwmTextFieldSelectAll (lines 983-990): the assignments of txtSelectAll;
\* only the gwmFocus call is missing, and focus is not modelled.
gwmTextFieldSelectAll == TxtSelectAll

\* gwmTextFieldHandler, one action per event it handles.  FOCUS_IN and
\* FOCUS_OUT only set data->focused, which only the redraw reads, and post
\* EDIT_END; they are left out.
\* gwmTextFieldSelectWord reads cursorPos code points with no NUL check.
DoubleClick ==
  \/ cursorPos > Len(text) /\ Overread
  \/ /\ cursorPos <= Len(text)
     /\ selectStart' = WordBounds(text, cursorPos)[1]
     /\ selectEnd' = WordBounds(text, cursorPos)[2]
     /\ posted' = {}
     /\ UNCHANGED <<text, cursorPos, styles, clickPos, flags, clipboard, fault>>

\* ddiPenCoordsToPos gives a position in the text that was drawn.
MouseDownLeft ==
  \E p \in 0..Len(text) :
    /\ cursorPos' = p /\ clickPos' = p
    /\ selectStart' = 0 /\ selectEnd' = 0
    /\ posted' = {}
    /\ UNCHANGED <<text, styles, flags, clipboard, fault>>

\* Mutant: the left arrow without its cursorPos != 0 test.
KeyLeftUnguarded ==
  /\ selectStart' = 0 /\ selectEnd' = 0
  /\ cursorPos' = cursorPos - 1
  /\ posted' = {}
  /\ UNCHANGED <<text, styles, clickPos, flags, clipboard, fault>>

KeyLeft ==
  /\ selectStart' = 0 /\ selectEnd' = 0
  /\ cursorPos' = IF cursorPos # 0 THEN cursorPos - 1 ELSE cursorPos
  /\ posted' = {}
  /\ UNCHANGED <<text, styles, clickPos, flags, clipboard, fault>>

\* The code has no upper bound once the cursor is past the text; MaxLen + 1
\* bounds the model.
KeyRight ==
  /\ cursorPos <= MaxLen
  /\ selectStart' = 0 /\ selectEnd' = 0
  /\ cursorPos' = IF cursorPos # Len(text) THEN cursorPos + 1 ELSE cursorPos
  /\ posted' = {}
  /\ UNCHANGED <<text, styles, clickPos, flags, clipboard, fault>>

\* Ctrl+X and Ctrl+V are ignored by a disabled field; the menu entries and
\* Ctrl+C / Ctrl+A are not.
KeyCtrl ==
  \/ TxtCopy
  \/ ~flags.disabled /\ TxtCut
  \/ TxtPaste
  \/ TxtSelectAll

\* '\r': a newline in an enabled multiline field, else a COMMAND(OK) event.
KeyEnter ==
  \/ /\ flags.multiline /\ ~flags.disabled
     /\ TextFieldInsert(<<NL>>)
     /\ UNCHANGED <<clickPos, flags, clipboard, fault>>
  \/ /\ ~flags.multiline
     /\ posted' = {"COMMAND"}
     /\ UNCHANGED <<edit, clickPos, flags, clipboard, fault>>

KeyBackspace ==
  /\ ~flags.disabled
  /\ TextFieldBackspace
  /\ UNCHANGED <<clickPos, flags, clipboard, fault>>

KeyChar ==
  \E ch \in Chars :
    /\ ~flags.disabled
    /\ TextFieldInsert(<<ch>>)
    /\ UNCHANGED <<clickPos, flags, clipboard, fault>>

MouseUpLeft ==
  /\ clickPos' = -1 /\ posted' = {}
  /\ UNCHANGED <<edit, flags, clipboard, fault>>

\* With the left button down the selection runs from the click to the pen.
Motion ==
  /\ clickPos # -1
  /\ \E p \in 0..Len(text) :
       /\ cursorPos' = p
       /\ selectStart' = MinOf(p, clickPos)
       /\ selectEnd' = IF p < clickPos THEN clickPos ELSE p
  /\ posted' = {}
  /\ UNCHANGED <<text, styles, clickPos, flags, clipboard, fault>>

\* The right-click menu's entries call the same functions directly.
MenuCommand == TxtCut \/ TxtCopy \/ TxtPaste \/ TxtSelectAll

-----------------------------------------------------------------------------
(* The public API.                                                         *)

\* gwmWriteTextField: new text, cursor and an empty selection at its end;
\* the style list is kept.
WriteTextField ==
  \E t \in Texts :
    /\ text' = t
    /\ cursorPos' = Len(t) /\ selectStart' = Len(t) /\ selectEnd' = Len(t)
    /\ posted' = {"VALUE_CHANGED"}
    /\ UNCHANGED <<styles, clickPos, flags, clipboard, fault>>

SetTextFieldFlags ==
  \E f \in FlagValues :
    /\ flags' = f /\ posted' = {}
    /\ UNCHANGED <<edit, clickPos, clipboard, fault>>

ClearTextFieldStyles ==
  /\ styles # <<>>
  /\ styles' = <<>> /\ posted' = {}
  /\ UNCHANGED <<text, cursorPos, selectStart, selectEnd, clickPos, flags,
                 clipboard, fault>>

\* gwmSetTextFieldColorRange(start, end, color): clamp end to the text,
\* note the colour in force at end and whether a style sits there, unlink
\* the FG styles in [start, end), link the new style at start and, if none
\* sat at end, one restoring the old colour at end.
\* Either insertStyle may take the NULL-dereferencing branch.
SetTextFieldColorRange(start, end, color) ==
  LET e == MinOf(end, Len(text))
      stop == Min({i \in DOMAIN styles : styles[i].offset >= e} \cup {Len(styles) + 1})
      endColor == IF stop = 1 THEN Black ELSE styles[stop - 1].color
      needsEnd == ~(stop <= Len(styles) /\ styles[stop].offset = e)
      s1 == RemoveStyle(styles, start, e)
      s2 == InsertStyle(s1, start, color)
      Crash == fault' = "null_deref" /\ posted' = {}
                /\ UNCHANGED <<edit, clickPos, flags, clipboard>>
      Done(st) == styles' = st /\ posted' = {}
                /\ UNCHANGED <<text, cursorPos, selectStart, selectEnd, clickPos,
                               flags, clipboard, fault>>
  IN /\ Len(styles) + 2 <= MaxStyles
     /\ \/ InsertStyleCrashes(s1, start) /\ Crash
        \/ ~InsertStyleCrashes(s1, start) /\ ~needsEnd /\ Done(s2)
        \/ /\ ~InsertStyleCrashes(s1, start) /\ needsEnd
           /\ \/ InsertStyleCrashes(s2, e) /\ Crash
              \/ ~InsertStyleCrashes(s2, e) /\ Done(InsertStyle(s2, e, endColor))

SetColorRange ==
  \E start \in 0..MaxLen, end \in 0..MaxLen + 1, color \in Colors :
    SetTextFieldColorRange(start, end, color)

(* gwmDestroyTextField (lines 937-947): free(data) at line 942, then      *)
(* data->sbarX, data->sbarY and data->menu are read from the freed block   *)
(* (lines 943-945).  The field is gone; only the fault is kept.            *)
gwmDestroyTextField ==
  /\ fault' = "use_after_free" /\ posted' = {}
  /\ text' = <<>> /\ cursorPos' = 0 /\ selectStart' = 0 /\ selectEnd' = 0
  /\ clickPos' = -1 /\ styles' = <<>>
  /\ UNCHANGED <<flags, clipboard>>

-----------------------------------------------------------------------------
(* After a fault the process takes no more modelled steps.                *)

Live == fault = "none"

Next ==
  \/ Live /\ DoubleClick
  \/ Live /\ MouseDownLeft
  \/ Live /\ KeyLeft
  \/ Live /\ KeyRight
  \/ Live /\ KeyCtrl
  \/ Live /\ KeyEnter
  \/ Live /\ KeyBackspace
  \/ Live /\ KeyChar
  \/ Live /\ MouseUpLeft
  \/ Live /\ MenuCommand
  \/ Live /\ Motion
  \/ Live /\ WriteTextField
  \/ Live /\ SetTextFieldFlags
  \/ Live /\ ClearTextFieldStyles
  \/ Live /\ SetColorRange
  \/ Live /\ gwmTextFieldSelectAll
  \/ Live /\ gwmDestroyTextField

Spec == Init /\ [][Next]_vars

-----------------------------------------------------------------------------
(* Properties.                                                             *)

TypeOK ==
  /\ text \in Texts
  /\ cursorPos \in Nat /\ selectStart \in Nat /\ selectEnd \in Nat
  /\ clickPos \in {-1} \cup Nat
  /\ flags \in [disabled : BOOLEAN, multiline : BOOLEAN]
  /\ styles \in Seq([offset : Nat, color : Colors \cup {Black}])
  /\ clipboard \in Texts \cup {NoText}
  /\ posted \subseteq Events
  /\ fault \in Faults

\* The style list stays sorted by offset under every edit.  The redraw
\* loop applies a style only when its offset equals the current position
\* and computes style->offset - currentPos as a size_t, so an unsorted
\* list skips styles and makes that difference wrap.
StylesSorted ==
  \A i \in 1..Len(styles) - 1 : styles[i].offset <= styles[i + 1].offset

\* Whatever edits and colour ranges came before, the redraw loop writes
\* every character of the text once and in order, each in the colour of
\* the last style at or before it (ColorAt) and on the selection
\* background exactly inside [selectStart, selectEnd).  The loop finds
\* styles only by equality with currentPos, so a run that jumps past a
\* style's offset, or a selection bound, silently drops it.
RedrawShowsState ==
  fault = "none" =>
    LET out == Redraw(text, styles, selectStart, selectEnd) IN
    /\ Len(out) = Len(text)
    /\ \A p \in 0..Len(text) - 1 :
         /\ out[p + 1].ch = text[p + 1]
         /\ out[p + 1].fg = ColorAt(styles, p)
         /\ out[p + 1].sel = (HasSelection /\ selectStart <= p /\ p < selectEnd)

\* gwmSetTextFieldColorRange over a non-empty range makes every character
\* in [start, end) take the new colour and leaves every other character's
\* colour as it was, as the redraw loop applies the resulting list.
ColorRangeApplied ==
  [][styles' # styles /\ text' = text =>
     \A start \in 0..MaxLen, end \in 0..MaxLen + 1, c \in Colors :
       (SetTextFieldColorRange(start, end, c) /\ fault' = "none"
          /\ start < MinOf(end, Len(text)))
       => \A p \in 0..Len(text) - 1 :
            ColorAt(styles', p) = IF start <= p /\ p < end THEN c
                                  ELSE ColorAt(styles, p)]_vars

\* A maximal run of one character class: the reference for what a
\* double-click selects.
IsWordRun(t, a, b) ==
  /\ a < b
  /\ \A i, j \in a + 1..b : Class[t[i]] = Class[t[j]]
  /\ a = 0 \/ Class[t[a]] # Class[t[a + 1]]
  /\ b = Len(t) \/ Class[t[b + 1]] # Class[t[b]]

\* A double-click on a non-empty text selects the whole word (maximal run
\* of gwmClassifyChar's class) holding the character before the cursor,
\* or the first character when the cursor is at 0.
DoubleClickSelectsWord ==
  [][DoubleClick /\ fault' = "none" /\ text # <<>> =>
       LET k == IF cursorPos = 0 THEN 1 ELSE cursorPos
       IN IsWordRun(text, selectStart', selectEnd')
          /\ selectStart' < k /\ k <= selectEnd']_vars

\* The process never takes insertStyle's NULL-dereferencing branch.
NoNullDereference == fault # "null_deref"

=============================================================================
