------------------------------ MODULE MCFRFCFS ------------------------------
(***************************************************************************)
(* Instances of FRFCFS.  Four requests of two or three rows; the address   *)
(* maps put them where the cases of interest are.                          *)
(***************************************************************************)
EXTENDS FRFCFS

CONSTANTS r1, r2, r3, r4, x, y, z

\* Rows of their own; or y is another column mux of row x.
OwnNumber == [row \in Rows |-> row]
SharedNumber == [row \in Rows |-> IF row = y THEN x ELSE row]

At(rk, b, row) == [rank |-> rk, bank |-> b, row |-> row]

\* Two requests for one row, a row conflict with them, and another bank.
TwoBanks == [r \in Requests |->
  CASE r \in {r1, r2} -> At(0, 1, x) [] r = r3 -> At(0, 1, y) [] OTHER -> At(0, 0, x)]

\* One bank has requests for two column muxes of a row and for another row.
TwoMuxes == [r \in Requests |->
  CASE r = r1 -> At(0, 1, x) [] r = r2 -> At(0, 1, y) [] r = r3 -> At(0, 1, z)
    [] OTHER -> At(0, 0, x)]

\* The last bank of the last rank.
LastBank == [r \in Requests |-> At(RANKS - 1, BANKS - 1, x)]

\* Requests for the same row are alike.
Alike == Permutations({r1, r2})

\* One bank, two requests for one row and one for another.
OneBank == [r \in Requests |->
  IF r \in {r1, r2} THEN At(0, 0, x) ELSE At(0, 0, y)]
=============================================================================
