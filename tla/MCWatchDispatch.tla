-------------------------- MODULE MCWatchDispatch --------------------------
(***************************************************************************)
(* WatchDispatch for the rows of a few chats, in the order of the scan.    *)
(***************************************************************************)
EXTENDS WatchDispatch

CONSTANTS anna, bo, a1, a2, b1

MCOwner     == [r \in Watches |-> IF r = b1 THEN bo ELSE anna]
MCTimeframe == [r \in Watches |-> IF r = a2 THEN 2 ELSE 1]
MCPosition  == [r \in Watches |-> CASE r = a1 -> 1 [] r = a2 -> 2 [] OTHER -> 3]
=============================================================================
