----------------------------- MODULE MCJniAttach -----------------------------
(* A thread of Java and one of libflowdrop: threads share nothing here.      *)
EXTENDS JniAttach

CONSTANTS main, server
=============================================================================
