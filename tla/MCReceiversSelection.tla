------------------------- MODULE MCReceiversSelection -------------------------
(* The sheet with this device and two others, which are interchangeable.      *)
EXTENDS ReceiversSelection, TLC

CONSTANTS d1, d2, me

OtherDevices == Permutations({d1, d2})
=============================================================================
