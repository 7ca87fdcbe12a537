-------------------------- MODULE MCDispatchAudit --------------------------
(***************************************************************************)
(* DispatchAudit with a row on a timeframe of two ticks, half an hour, and *)
(* one on a timeframe of two hours; two settings.                          *)
(***************************************************************************)
EXTENDS DispatchAudit

CONSTANTS fast, slow, FirstTrouble

MCPeriod == [r \in {fast, slow} |-> IF r = fast THEN 8 ELSE 32]
MCShift ==
  [c \in {"early", "late"} |->
     [r \in {fast, slow} |-> IF c = "early" THEN 0 ELSE IF r = fast THEN 4 ELSE 24]]
MCExecs == {0, 3}

(* The first trouble comes within two hours and a half, by the opening of  *)
(* the slow row's second bar: a later one would find what an earlier finds.*)
Bounded == trouble = 0 => now <= FirstTrouble
=============================================================================
