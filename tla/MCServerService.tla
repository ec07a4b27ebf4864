--------------------------- MODULE MCServerService ---------------------------
(* The receiving service with a few services, starts and process deaths.     *)
EXTENDS ServerService
=============================================================================
