--------------------------- MODULE MCDebitOutbox ---------------------------
(***************************************************************************)
(* DebitOutbox for the deliveries of a chat.  Recorders are alike, and so  *)
(* are passes: the safety runs may take those that differ in their names   *)
(* only for the same.                                                      *)
(***************************************************************************)
EXTENDS DebitOutbox, TLC

MCSymmetry == Permutations(Workers) \cup Permutations(Drains)
=============================================================================
