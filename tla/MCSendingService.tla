--------------------------- MODULE MCSendingService ---------------------------
(* The sending service with a few receivers, shares and process deaths.       *)
EXTENDS SendingService
=============================================================================
