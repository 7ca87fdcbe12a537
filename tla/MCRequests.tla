----------------------------- MODULE MCRequests -----------------------------
(* One user, who writes in private and in a group; two coins, one of them  *)
(* among the most active; a timeframe that can be pushed, and one that     *)
(* cannot.  One confirmation.                                              *)
EXTENDS Requests
CONSTANTS u1, g1, btc, eth, m15, m1, t1

MCUsers    == {u1}
MCGroups   == {g1}
MCCoins    == {btc, eth}
MCTopCoins == {btc}
MCTfs      == {m15, m1}
MCPushTfs  == {m15}
MCTokens   == {t1}

(* A behaviour is followed to the first exception. *)
NoException == excused = {}
=============================================================================
