---------------------------- MODULE DebitLedger ----------------------------
(***************************************************************************)
(* What the paid lane promises about the debits of delivered alerts: one   *)
(* that is owed is charged at most once, and is settled once, either as    *)
(* confirmed, which only a charged one can be, or as written off.          *)
(***************************************************************************)
CONSTANT Deliveries \* identities of delivered alerts

VARIABLES
  owed,      \* debits the outbox has taken
  charged,   \* debits the plan has been charged with
  confirmed, \* debits settled as charged
  writtenOff \* debits settled otherwise

vars == <<owed, charged, confirmed, writtenOff>>

Init ==
  /\ owed = {}
  /\ charged = {}
  /\ confirmed = {}
  /\ writtenOff = {}

Settled == confirmed \cup writtenOff

Owe(i) ==
  /\ i \notin owed
  /\ owed' = owed \cup {i}
  /\ UNCHANGED <<charged, confirmed, writtenOff>>

Debit(i) ==
  /\ i \in owed \ (charged \cup Settled)
  /\ charged' = charged \cup {i}
  /\ UNCHANGED <<owed, confirmed, writtenOff>>

Confirm(i) ==
  /\ i \in charged \ Settled
  /\ confirmed' = confirmed \cup {i}
  /\ UNCHANGED <<owed, charged, writtenOff>>

WriteOff(i) ==
  /\ i \in owed \ Settled
  /\ writtenOff' = writtenOff \cup {i}
  /\ UNCHANGED <<owed, charged, confirmed>>

Next == \E i \in Deliveries : Owe(i) \/ Debit(i) \/ Confirm(i) \/ WriteOff(i)
Spec == Init /\ [][Next]_vars
=============================================================================
