-------------------------- MODULE MCFileAcceptance --------------------------
(* FileAcceptance with asks as model values, which are interchangeable. The *)
(* broadcast from outside accepts the id that the first ask of each process *)
(* draws.                                                                   *)
EXTENDS FileAcceptance, TLC

Symmetry == Permutations(Asks)
AcceptOfTheFirstId == {[action |-> "accept", id |-> 1]}
=============================================================================
