------------------------------- MODULE MCPeers -------------------------------
(* Two phones that send to each other, one of them to a third one as well.  *)
(* The ask of the first transfer may be accepted from outside the app.      *)
EXTENDS Peers

CONSTANTS a, b, c

Transfer(from, to) == [from |-> from, to |-> to]
MCTransfers == {Transfer(a, b), Transfer(b, a), Transfer(a, c)}
MCOtherAnswers == {Job("granted", Transfer(a, b))}
=============================================================================
