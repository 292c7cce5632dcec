---------------------------- MODULE MC_RadioGroup ----------------------------
(* Three button blocks, values 0 and 1.                                    *)
EXTENDS RadioGroup

CONSTANTS r1, r2, r3

MCBtn == {r1, r2, r3}
MCValues == {0, 1}
=============================================================================
