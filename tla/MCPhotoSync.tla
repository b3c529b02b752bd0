---------------------------- MODULE MCPhotoSync -----------------------------
(* PhotoSync with two lots and two images of each.                           *)
EXTENDS PhotoSync, TLC

CONSTANTS a, b, x, y

TwoLots == {a, b}
TwoImages == {x, y}
=============================================================================
