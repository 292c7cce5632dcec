------------------------------ MODULE Menubar ------------------------------
(***************************************************************************)
(* The GWM menu bar (src/libgwm/menubar.c): the menus added to it, the x   *)
(* extents gwmRenderMenubar computes for their labels, and the click hit   *)
(* test of menubarHandler that opens the menu under the pointer.           *)
(* A label is abstracted to its pen advance (its text and the " " after    *)
(* it) in LabelWidths; ddiGetPenSize is taken to report the pen's right    *)
(* edge in menubar coordinates, as the code's currentOffset = 2 assumes.   *)
(* offsets and widths are the realloc'ed int arrays: an element appended   *)
(* by gwmMenubarAdd holds whatever realloc left there (Garbage) until the  *)
(* next render.  drawn is what textSurface shows: the labels written by    *)
(* the last render whose pen was not NULL.                                 *)
(***************************************************************************)
EXTENDS Naturals, Integers, Sequences, SequencesExt

CONSTANTS
  LabelWidths,  \* pen advances a label may have
  Garbage,      \* values an uninitialised int of offsets/widths may hold
  MaxMenus,     \* bound on gwmMenubarAdd calls
  MaxX          \* the menubar's width: clicks land in 0..MaxX-1

VARIABLES
  lw,         \* labels[]: the pen advance of each added label
  offsets,    \* data->offsets (<<>> while NULL)
  widths,     \* data->widths
  drawn,      \* the labels textSurface shows, as pen advances
  highlight,  \* the index gwmRedrawMenubar last highlighted, or -1
  open,       \* the menu gwmOpenMenu last opened and not yet closed, or -1
  alive,      \* the menubar is not destroyed
  fault       \* "none", or the undefined access the code made

vars == <<lw, offsets, widths, drawn, highlight, open, alive, fault>>

numMenus == Len(lw)

SumTo(s, k) == FoldSeq(LAMBDA a, b : a + b, 0, SubSeq(s, 1, k))

-----------------------------------------------------------------------------
(* gwmCreateMenubar (lines 162-182): no menus, NULL arrays, no surface.    *)
Init ==
  /\ lw = <<>> /\ offsets = <<>> /\ widths = <<>> /\ drawn = <<>>
  /\ highlight = -1 /\ open = -1 /\ alive = TRUE /\ fault = "none"

\* Mutant: the realloc of widths (line 218) left out.
gwmMenubarAddNoWidths ==
  /\ alive /\ numMenus < MaxMenus
  /\ \E w \in LabelWidths, o \in Garbage :
       /\ lw' = Append(lw, w)
       /\ offsets' = Append(offsets, o)
  /\ UNCHANGED <<widths, drawn, highlight, open, alive, fault>>

(* gwmMenubarAdd (lines 210-224): grow the four arrays by realloc, store   *)
(* the menu and the label, and register menuClose.  No render.            *)
gwmMenubarAdd ==
  /\ alive /\ numMenus < MaxMenus
  /\ \E w \in LabelWidths, o, wd \in Garbage :
       /\ lw' = Append(lw, w)
       /\ offsets' = Append(offsets, o)
       /\ widths' = Append(widths, wd)
  /\ UNCHANGED <<drawn, highlight, open, alive, fault>>

(* The loop of lines 94-107 (offsets[i] = currentOffset, widths[i] =     *)
(* the pen's advance), then lines 109-110: offsets[0] = 0, widths[0] += 2. *)
RenderOffsets ==
  [i \in 1..numMenus |-> IF i = 1 THEN 0 ELSE 2 + SumTo(lw, i - 1)]

RenderWidths == [i \in 1..numMenus |-> IF i = 1 THEN lw[i] + 2 ELSE lw[i]]

(* gwmRenderMenubar (lines 75-117), which RETHEME, menubarPosition and     *)
(* gwmMenubarAdjust call: a new, cleared textSurface; if gwmGetPen gives a *)
(* pen, the extents and the labels; then gwmRedrawMenubar(-1).  With no    *)
(* menus, line 109 writes through the NULL offsets.                        *)
gwmRenderMenubar ==
  /\ alive
  /\ \E pen \in BOOLEAN :
       IF ~pen
       THEN /\ drawn' = <<>>
            /\ UNCHANGED <<offsets, widths, fault>>
       ELSE IF numMenus = 0
       THEN /\ fault' = "null_write"
            /\ UNCHANGED <<offsets, widths, drawn>>
       ELSE /\ offsets' = RenderOffsets
            /\ widths' = RenderWidths
            /\ drawn' = lw
            /\ UNCHANGED fault
  /\ highlight' = -1
  /\ UNCHANGED <<lw, open, alive>>

(* The three callers of the render: GWM_EVENT_RETHEME in menubarHandler  *)
(* (lines 126-128), menubarPosition (lines 153-159) and gwmMenubarAdjust   *)
(* (lines 202-208).  The move and the resizes only change geometry.        *)
Retheme == gwmRenderMenubar

menubarPosition == gwmRenderMenubar

gwmMenubarAdjust == gwmRenderMenubar

(* menubarHandler, GWM_EVENT_UP with the left button (lines 129-142): the  *)
(* first menu whose extent holds x is highlighted and opened.              *)
Hit(x, i) == offsets[i] <= x /\ x < offsets[i] + widths[i]

ClickUp(x) ==
  /\ alive
  /\ LET hits == {i \in 1..numMenus : Hit(x, i)} IN
     IF hits = {} THEN UNCHANGED <<highlight, open>>
     ELSE LET i == CHOOSE i \in hits : \A j \in hits : i <= j IN
          highlight' = i /\ open' = i
  /\ UNCHANGED <<lw, offsets, widths, drawn, alive, fault>>

(* menuClose (lines 69-73), called back when the open menu closes: it      *)
(* redraws the menubar it was registered with, destroyed or not.           *)
menuClose ==
  /\ open # -1
  /\ open' = -1
  /\ IF alive THEN highlight' = -1 /\ UNCHANGED fault
              ELSE fault' = "use_after_free" /\ UNCHANGED highlight
  /\ UNCHANGED <<lw, offsets, widths, drawn, alive>>

(* gwmDestroyMenubar (lines 184-195): frees the data; the menus, and the   *)
(* close callbacks that point back at the menubar, stay.                   *)
gwmDestroyMenubar ==
  /\ alive
  /\ alive' = FALSE
  /\ UNCHANGED <<lw, offsets, widths, drawn, highlight, open, fault>>

Live == fault = "none"

Next ==
  \/ Live /\ gwmMenubarAdd
  \/ Live /\ Retheme
  \/ Live /\ menubarPosition
  \/ Live /\ gwmMenubarAdjust
  \/ Live /\ \E x \in 0..MaxX - 1 : ClickUp(x)
  \/ Live /\ menuClose
  \/ Live /\ gwmDestroyMenubar

Spec == Init /\ [][Next]_vars

-----------------------------------------------------------------------------
TypeOK ==
  /\ lw \in Seq(LabelWidths) /\ numMenus <= MaxMenus
  /\ offsets \in Seq(Int) /\ widths \in Seq(Int)
  /\ Len(offsets) = numMenus /\ Len(widths) = numMenus
  /\ drawn \in Seq(LabelWidths)
  /\ highlight \in -1..MaxMenus /\ open \in -1..MaxMenus
  /\ alive \in BOOLEAN
  /\ fault \in {"none", "null_write", "use_after_free"}

=============================================================================
