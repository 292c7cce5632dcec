----------------------------- MODULE MC_Menubar -----------------------------
(* Up to two menus with labels of pen advance 1 or 2, realloc garbage of 0 *)
(* or 3, and clicks anywhere on an 8-pixel menubar.                        *)
EXTENDS Menubar

MCLabelWidths == {1, 2}
MCGarbage == {0, 3}
MCMaxMenus == 2
MCMaxX == 8
=============================================================================
