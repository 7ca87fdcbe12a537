---------------------------- MODULE FetchBudget ----------------------------
(***************************************************************************)
(* Which due rows one tick fetches: fetch_budget.schedule, by what it      *)
(* returns.  FetchSchedule runs the loop the code runs and shows that it   *)
(* selects these rows.                                                     *)
(***************************************************************************)
EXTENDS Integers, FiniteSets

CONSTANTS
  Watches,   \* watchlist rows
  Chats,     \* subscribers
  Owner,     \* Owner[r]: the subscriber of row r
  Timeframe, \* Timeframe[r]: TF_SECONDS of row r
  Position,  \* Position[r]: where the table scan returns row r
  Budget     \* FETCH_BUDGET_PER_MIN

ASSUME FetchBudgetAssumption ==
  /\ IsFiniteSet(Watches)
  /\ Owner \in [Watches -> Chats]
  /\ Timeframe \in [Watches -> Nat]
  /\ Position \in [Watches -> Nat]
  /\ \A q, r \in Watches : Position[q] = Position[r] => q = r
  /\ Budget \in Nat \ {0}

(* Within one subscriber: the longer timeframe first, then table order     *)
(* (a stable descending sort).                                             *)
Ahead(q, r) ==
  \/ Timeframe[q] > Timeframe[r]
  \/ Timeframe[q] = Timeframe[r] /\ Position[q] < Position[r]

(* The round of the round-robin in which row r would be taken. *)
Round(rows, r) == Cardinality({q \in rows : Owner[q] = Owner[r] /\ Ahead(q, r)})

(* Subscribers take their turn in the order the scan first meets them. *)
TurnBefore(rows, c, d) ==
  \E q \in rows : /\ Owner[q] = c
                  /\ \A r \in rows : Owner[r] = d => Position[q] < Position[r]

TakenBefore(rows, q, r) ==
  \/ Round(rows, q) < Round(rows, r)
  \/ Round(rows, q) = Round(rows, r) /\ TurnBefore(rows, Owner[q], Owner[r])

(* Rows fetched this tick, and rows left due for a later one. *)
Scheduled(rows) ==
  {r \in rows : Cardinality({q \in rows : TakenBefore(rows, q, r)}) < Budget}
NothingDeferred(rows) == {}
Deferred(rows) == rows \ Scheduled(rows)
=============================================================================
