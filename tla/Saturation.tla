----------------------------- MODULE Saturation -----------------------------
(***************************************************************************)
(* update_saturation_state: the detector of a fetch budget that does not   *)
(* suffice, fed with whether a tick deferred rows.  It has two arms: a run *)
(* of such ticks, and bursts that recur within a window.                   *)
(*                                                                         *)
(* No two ticks happen at one instant, so the list of stamps is a set.     *)
(***************************************************************************)
EXTENDS Naturals, FiniteSets

CONSTANTS
  SaturationTicks,    \* DEFAULT_SATURATION_TICKS
  SaturationEpisodes, \* DEFAULT_SATURATION_EPISODES
  SaturationWindow    \* DEFAULT_SATURATION_WINDOW_SEC

State == [consecutive : Nat, starts : SUBSET Nat]
Cleared == [consecutive |-> 0, starts |-> {}]

Run(s, deferred) == IF deferred THEN s.consecutive + 1 ELSE 0

(* The first tick of a run is stamped. *)
Starts(s, deferred, t) ==
  {b \in s.starts \cup (IF deferred /\ s.consecutive = 0 THEN {t} ELSE {}) :
     t - b < SaturationWindow}

FiresLate(run, starts) ==
  run > SaturationTicks \/ Cardinality(starts) > SaturationEpisodes
Fires(run, starts) ==
  run >= SaturationTicks \/ Cardinality(starts) >= SaturationEpisodes

(* The new state, and whether to alert; both arms are cleared then. *)
Updated(s, deferred, t) ==
  LET run    == Run(s, deferred)
      starts == Starts(s, deferred, t)
      alert  == Fires(run, starts)
  IN  [state |-> IF alert THEN Cleared ELSE [consecutive |-> run, starts |-> starts],
       alert |-> alert]
=============================================================================
