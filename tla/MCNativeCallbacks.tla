-------------------------- MODULE MCNativeCallbacks --------------------------
(* One server and one discovery, with a query and two replies to wait for.    *)
EXTENDS NativeCallbacks

CONSTANTS server, discovery, r1, r2, query
=============================================================================
