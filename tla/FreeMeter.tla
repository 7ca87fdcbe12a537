----------------------------- MODULE FreeMeter -----------------------------
(***************************************************************************)
(* The arithmetic of the bot's free meter: which allowance a chat is       *)
(* served, when its 30-day window is over, what one charge statement does  *)
(* to its row, and whether it is refused.  Pure operators; QuotaMeter      *)
(* steps them from the processes that share the database.                  *)
(*                                                                         *)
(* Time is counted in UTC days, so that the rolling window, the calendar   *)
(* day and the age of the ladder mirror share one clock.                   *)
(***************************************************************************)
EXTENDS Integers

CONSTANTS
  NULL,             \* SQL NULL
  Window,           \* quota.WINDOW_DAYS
  LadderStaleAfter, \* quota.LADDER_STALE_AFTER, in days
  FallbackMonthly,  \* quota.FREE_TIER_MONTHLY_QUOTA
  FallbackDaily     \* quota.FREE_TIER_DAILY_QUOTA

ASSUME FreeMeterAssumption ==
  /\ NULL \notin Int
  /\ Window \in Nat
  /\ LadderStaleAfter \in Nat
  /\ FallbackMonthly \in Nat \ {0}
  /\ FallbackDaily \in Nat \ {0}

Day == Nat

Larger(a, b)  == IF a >= b THEN a ELSE b
Smaller(a, b) == IF a <= b THEN a ELSE b

(* The metering columns of one subscribers row. *)
Row ==
  [alert_count  : Nat,
   window_start : Day \cup {NULL},
   window_cap   : (Nat \ {0}) \cup {NULL},
   bonus        : Nat,
   day          : Day \cup {NULL},
   day_count    : Nat]

(* The single row of free_tier_ladder, or NULL before the first refresh.  *)
Ladder == [free_monthly : Nat \ {0}, free_daily : Nat \ {0}, fetched_at : Day]

(* What the ladder endpoint may publish of the free rung: the allowance of *)
(* the API and that of the bot's own surface.  0 stands for a figure that  *)
(* is missing or is no positive count.                                     *)
Pair == [monthly : Nat, daily : Nat]
Publication == [api : Pair, telegram : Pair]

---------------------------------------------------------------------------
(* Variants of the operators below, each with one thing wrong, to check    *)
(* that the properties notice.                                             *)

FreeAllowancePerField(free) ==
  [monthly |-> IF free.telegram.monthly > 0 THEN free.telegram.monthly ELSE free.api.monthly,
   daily   |-> IF free.telegram.daily > 0 THEN free.telegram.daily ELSE free.api.daily]

DayUsedOfAnyDay(row, t) == row.day_count

MonthlyExhaustedPastTotal(row, live, t) ==
  /\ row.alert_count > live
  /\ row.bonus <= 0

CoalesceLast(a, b) == b

MonthlyChargeBelowZero(row, units, total) ==
  IF row.bonus > 0 THEN Smaller(units, total - row.alert_count) ELSE units

---------------------------------------------------------------------------
(* The published ladder *)

Complete(pair) == pair.monthly > 0 /\ pair.daily > 0

(* The bot's own pair when it is complete, else that of the API; never     *)
(* half of the one beside half of the other.                               *)
FreeAllowance(free) == IF Complete(free.telegram) THEN free.telegram ELSE free.api

(* parse_ladder finds a ladder in it. *)
Parses(free) == Complete(FreeAllowance(free))

(* The mirror row it makes, for a pass that began at t. *)
Mirrored(free, t) ==
  [free_monthly |-> FreeAllowance(free).monthly,
   free_daily   |-> FreeAllowance(free).daily,
   fetched_at   |-> t]

---------------------------------------------------------------------------
(* Reading *)

(* The mirror, unless it is missing or too old; the pinned constants then. *)
Usable(mirror, t) == mirror # NULL /\ t - mirror.fetched_at <= LadderStaleAfter

LiveMonthly(mirror, t) ==
  IF Usable(mirror, t) THEN mirror.free_monthly ELSE FallbackMonthly

LiveDaily(mirror, t) ==
  IF Usable(mirror, t) THEN mirror.free_daily ELSE FallbackDaily

Open(row, t)    == row.window_start # NULL /\ t - row.window_start <= Window
Expired(row, t) == row.window_start # NULL /\ t - row.window_start > Window

EffectiveTotal(live, row, t) ==
  IF Open(row, t) /\ row.window_cap # NULL THEN Larger(live, row.window_cap) ELSE live

Used(row, t)    == IF Expired(row, t) THEN 0 ELSE row.alert_count
DayUsed(row, t) == IF row.day = t THEN row.day_count ELSE 0

MonthlyExhausted(row, live, t) ==
  /\ Used(row, t) >= EffectiveTotal(live, row, t)
  /\ row.bonus <= 0

DailyExhausted(row, daily, t) == DayUsed(row, t) >= daily

Exhausted(row, live, daily, t) ==
  MonthlyExhausted(row, live, t) \/ DailyExhausted(row, daily, t)

---------------------------------------------------------------------------
(* Writing *)

Coalesce(a, b) == IF a # NULL THEN a ELSE b

(* What a charge adds to alert_count: capped at the headroom only while   *)
(* there is a bonus pool for the rest to draw on.                         *)
MonthlyCharge(row, units, total) ==
  IF row.bonus > 0 THEN Smaller(units, Larger(0, total - row.alert_count)) ELSE units

BonusLeft(row, units, total) ==
  IF row.bonus > 0
    THEN Larger(0, row.bonus - (units - MonthlyCharge(row, units, total)))
    ELSE 0

(* The one UPDATE of a charge.  Every right-hand side reads the row as it *)
(* was before the statement.                                              *)
Charged(row, units, total, t, cap) ==
  [alert_count  |-> row.alert_count + MonthlyCharge(row, units, total),
   window_start |-> Coalesce(row.window_start, t),
   window_cap   |-> Coalesce(row.window_cap, cap),
   bonus        |-> BonusLeft(row, units, total),
   day          |-> t,
   day_count    |-> DayUsed(row, t) + units]

(* The roll's UPDATE: it clears the window whatever the row holds by now. *)
Rolled(row) ==
  [row EXCEPT !.alert_count = 0, !.window_start = NULL, !.window_cap = NULL]

(* The stamp of an open window that has none, before the ladder moves.    *)
Stamped(row, cap, t) ==
  IF row.window_cap = NULL /\ Open(row, t) THEN [row EXCEPT !.window_cap = cap] ELSE row
=============================================================================
