---------------------------- MODULE MCEngineTick ----------------------------
(***************************************************************************)
(* EngineTick for three subscribers, one of them with three rows over two  *)
(* timeframes, scanned in an order that interleaves them.                  *)
(***************************************************************************)
EXTENDS EngineTick

CONSTANTS anna, bo, carl, a1, a2, a3, b1, b2, c1

MCOwner == [r \in Watches |->
  CASE r \in {a1, a2, a3} -> anna [] r \in {b1, b2} -> bo [] OTHER -> carl]
MCTimeframe == [r \in Watches |-> IF r \in {a3, b2} THEN 2 ELSE 1]
MCPosition == [r \in Watches |->
  CASE r = a1 -> 1 [] r = b1 -> 2 [] r = a2 -> 3
    [] r = a3 -> 4 [] r = c1 -> 5 [] OTHER -> 6]

(* At the first minute there may be any set of rows to schedule, later on  *)
(* one row or one more than the budget.                                    *)
MCDue == [m \in 1..MaxMinute |->
  IF m = 1 THEN SUBSET Watches ELSE {{a1}, {a1, a2, b1, c1}}]
=============================================================================
