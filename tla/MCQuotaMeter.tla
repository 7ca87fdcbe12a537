---------------------------- MODULE MCQuotaMeter ----------------------------
(***************************************************************************)
(* QuotaMeter on a small instance.                                         *)
(***************************************************************************)
EXTENDS QuotaMeter, TLC

(* Two whole ladders, one of them with half a pair of the bot's own beside *)
(* it, and one that is useless.                                            *)
MCPublications ==
  LET Of(m, d) == [monthly |-> m, daily |-> d] IN
  {[api |-> Of(2, 1), telegram |-> Of(3, 0)],
   [api |-> Of(3, 3), telegram |-> Of(1, 2)],
   [api |-> Of(0, 1), telegram |-> Of(0, 2)]}

WorkerSymmetry == Permutations(Workers)
=============================================================================
