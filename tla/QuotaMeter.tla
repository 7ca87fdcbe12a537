----------------------------- MODULE QuotaMeter -----------------------------
(***************************************************************************)
(* The free meter as the bot's processes run it.  The cron engine and the  *)
(* long-running service share one SQLite file; every database call is a    *)
(* statement of its own, and nothing spans two of them.  A worker here is  *)
(* one thread of control of either process.  It evaluates a delivery,      *)
(* sends, and then meters each delivered item with consume_quota; both     *)
(* evaluate_delivery and consume_quota run get_quota_state, which reads    *)
(* the ladder, reads the row, and writes back an expired window.           *)
(*                                                                         *)
(* Chats are free chats: consume_quota leaves a paid chat's row alone.     *)
(***************************************************************************)
EXTENDS FreeMeter, FiniteSets

CONSTANTS
  Chats,        \* free subscribers
  Workers,      \* threads of control that may meter a chat
  Publications, \* what the ladder endpoint may publish
  Grants,       \* sizes of a referral grant
  MaxItems,     \* items one decision may deliver (a scan delivers several)
  MaxDay,       \* bound on the clock
  MaxCharges,   \* bound on the charges of a chat
  MaxGrants     \* bound on the grants of a chat

ASSUME QuotaMeterAssumption ==
  /\ Chats # {}
  /\ Workers # {} /\ IsFiniteSet(Workers)
  /\ Publications \subseteq Publication
  /\ Grants \subseteq Nat
  /\ MaxItems \in Nat \ {0}
  /\ MaxDay \in Nat
  /\ MaxCharges \in Nat
  /\ MaxGrants \in Nat

VARIABLES
  meter,     \* meter[c]: the metering columns of the subscribers row of c
  mirror,    \* the free_tier_ladder row
  now,       \* the day
  pc,        \* pc[w]: where worker w is
  job,       \* job[w]: the local variables of worker w
  charged,   \* charged[c]: units of charge statements executed (history)
  retired,   \* retired[c]: units that left with a window that was over (history)
  lost,      \* lost[c]: units wiped from a window that was not over (history)
  granted,   \* granted[c]: bonus units granted (history)
  grants,    \* grants[c]: how many times a bonus was granted (history)
  dayCharges \* dayCharges[c][d]: units charged under day key d (history)

rowVars     == <<meter, mirror>>
historyVars == <<charged, retired, lost, granted, grants, dayCharges>>
vars        == <<rowVars, now, pc, job, historyVars>>

PC == {"idle", "row", "roll", "decided", "consume", "charge"}

(* chat: whom the delivery is for.  call: which caller get_quota_state     *)
(* returns to.  live, daily: the ladder it read.  total, verdict: what it  *)
(* made of the row.  at: the clock of the statement that follows.  left:   *)
(* delivered items not yet metered.                                        *)
Job ==
  [chat : Chats, call : {"evaluate", "consume"}, live : Nat \ {0}, daily : Nat \ {0},
   total : Nat \ {0}, verdict : {"serve", "refuse"}, at : 0..MaxDay, left : Nat]

TypeOK ==
  /\ meter \in [Chats -> Row]
  /\ mirror \in Ladder \cup {NULL}
  /\ now \in 0..MaxDay
  /\ pc \in [Workers -> PC]
  /\ job \in [Workers -> Job]
  /\ charged \in [Chats -> Nat]
  /\ retired \in [Chats -> Nat]
  /\ lost \in [Chats -> Nat]
  /\ granted \in [Chats -> Nat]
  /\ grants \in [Chats -> Nat]
  /\ dayCharges \in [Chats -> [0..MaxDay -> Nat]]

(* What the endpoint may publish that has a ladder in it. *)
Usables == {free \in Publications : Parses(free)}

(* A row that has never been charged, and one whose window was opened      *)
(* before the column alerts_window_cap existed.                            *)
FreshRow ==
  [alert_count |-> 0, window_start |-> NULL, window_cap |-> NULL,
   bonus |-> 0, day |-> NULL, day_count |-> 0]
UnstampedRow ==
  [FreshRow EXCEPT !.alert_count = 1, !.window_start = 0, !.day = 0, !.day_count = 1]

IdleJob ==
  [chat |-> CHOOSE c \in Chats : TRUE, call |-> "evaluate", live |-> FallbackMonthly,
   daily |-> FallbackDaily, total |-> FallbackMonthly, verdict |-> "refuse", at |-> 0,
   left |-> 0]

Init ==
  /\ meter \in [Chats -> {FreshRow, UnstampedRow}]
  /\ mirror \in {NULL} \cup {Mirrored(free, 0) : free \in Usables}
  /\ now = 0
  /\ pc = [w \in Workers |-> "idle"]
  /\ job = [w \in Workers |-> IdleJob]
  /\ charged = [c \in Chats |-> meter[c].alert_count]
  /\ retired = [c \in Chats |-> 0]
  /\ lost = [c \in Chats |-> 0]
  /\ granted = [c \in Chats |-> 0]
  /\ grants = [c \in Chats |-> 0]
  /\ dayCharges = [c \in Chats |->
       [d \in 0..MaxDay |-> IF d = 0 THEN meter[c].day_count ELSE 0]]

Goto(w, from, to) == pc[w] = from /\ pc' = [pc EXCEPT ![w] = to]

---------------------------------------------------------------------------
(* get_quota_state, called by evaluate_delivery and by consume_quota *)

(* resolve_ladder: one SELECT on the mirror. *)
WithLadder(j) ==
  [j EXCEPT !.live = LiveMonthly(mirror, now), !.daily = LiveDaily(mirror, now)]

(* A lane takes up a chat and evaluates the delivery. *)
Evaluate(w, c) ==
  /\ Goto(w, "idle", "row")
  /\ job' = [job EXCEPT ![w] = WithLadder([IdleJob EXCEPT !.chat = c])]
  /\ UNCHANGED <<rowVars, now, historyVars>>

(* consume_quota is entered, for the next delivered item. *)
Consume(w) ==
  /\ Goto(w, "consume", "row")
  /\ job' = [job EXCEPT ![w] = WithLadder(@)]
  /\ UNCHANGED <<rowVars, now, historyVars>>

(* Where get_quota_state returns to. *)
Caller(w) == IF job[w].call = "evaluate" THEN "decided" ELSE "charge"

(* get_subscriber, and the state computed from the row it returned. *)
ReadRow(w) ==
  LET row  == meter[job[w].chat]
      live == job[w].live
  IN  /\ Goto(w, "row", IF Expired(row, now) THEN "roll" ELSE Caller(w))
      /\ job' = [job EXCEPT
           ![w].total = EffectiveTotal(live, row, now),
           ![w].verdict = IF Exhausted(row, live, job[w].daily, now) THEN "refuse" ELSE "serve",
           ![w].at = now]
      /\ UNCHANGED <<rowVars, now, historyVars>>

(* The roll of a window that was over when the row was read.  The UPDATE  *)
(* names the chat and nothing else.                                       *)
RollWindow(w) ==
  LET c    == job[w].chat
      over == Expired(meter[c], now)
      used == meter[c].alert_count
  IN  /\ Goto(w, "roll", Caller(w))
      /\ meter' = [meter EXCEPT ![c] = Rolled(@)]
      /\ job' = [job EXCEPT ![w].at = now]
      /\ retired' = [retired EXCEPT ![c] = IF over THEN @ + used ELSE @]
      /\ lost' = [lost EXCEPT ![c] = IF over THEN @ ELSE @ + used]
      /\ UNCHANGED <<mirror, now, charged, granted, grants, dayCharges>>

---------------------------------------------------------------------------
(* Serving and metering *)

(* The decision refuses, or it allows and nothing is delivered after all: *)
(* the upstream call failed, the verdict was HOLD, or the send failed.    *)
Withhold(w) ==
  /\ Goto(w, "decided", "idle")
  /\ job' = [job EXCEPT ![w] = IdleJob]
  /\ UNCHANGED <<rowVars, now, historyVars>>

(* The send succeeded: n items were delivered on one decision. *)
Deliver(w, n) ==
  /\ job[w].verdict = "serve"
  /\ Goto(w, "decided", "consume")
  /\ job' = [job EXCEPT ![w].call = "consume", ![w].left = n]
  /\ UNCHANGED <<rowVars, now, historyVars>>

(* consume_quota_atomic, for one item. *)
Charge(w) ==
  LET c   == job[w].chat
      new == Charged(meter[c], 1, job[w].total, job[w].at, job[w].live)
  IN  /\ charged[c] < MaxCharges
      /\ Goto(w, "charge", IF job[w].left = 1 THEN "idle" ELSE "consume")
      /\ meter' = [meter EXCEPT ![c] = new]
      /\ job' = [job EXCEPT ![w] =
           IF job[w].left = 1 THEN IdleJob ELSE [job[w] EXCEPT !.left = @ - 1]]
      /\ charged' = [charged EXCEPT ![c] = @ + 1]
      /\ dayCharges' = [dayCharges EXCEPT ![c][job[w].at] = @ + 1]
      /\ UNCHANGED <<mirror, now, retired, lost, granted, grants>>

(* The process dies, or its run is cut off; what it had not written is     *)
(* gone.                                                                   *)
Crash(w) ==
  /\ pc[w] # "idle"
  /\ pc' = [pc EXCEPT ![w] = "idle"]
  /\ job' = [job EXCEPT ![w] = IdleJob]
  /\ UNCHANGED <<rowVars, now, historyVars>>

---------------------------------------------------------------------------
(* The other writers of the same columns *)

(* upsert_free_tier_ladder, one transaction: open windows without a stamp  *)
(* get the figure the mirror holds, and only then does the mirror move.    *)
NothingStamped(at) == meter
StampOpenWindows(at) ==
  IF mirror = NULL THEN meter
  ELSE [c \in Chats |-> Stamped(meter[c], mirror.free_monthly, at)]

UpsertLadder(free, at) ==
  /\ meter' = StampOpenWindows(at)
  /\ mirror' = Mirrored(free, at)

(* The end of a pass of the drain that began at that day: what it fetched, *)
(* if there is a ladder in it, becomes the mirror.                         *)
RefreshLadder(free, at) ==
  /\ Parses(free)
  /\ at <= now
  /\ UpsertLadder(free, at)
  /\ UNCHANGED <<now, pc, job, historyVars>>

(* grant_referral_bonus *)
GrantBonus(c, calls) ==
  /\ grants[c] < MaxGrants
  /\ meter' = [meter EXCEPT ![c].bonus = @ + calls]
  /\ granted' = [granted EXCEPT ![c] = @ + calls]
  /\ grants' = [grants EXCEPT ![c] = @ + 1]
  /\ UNCHANGED <<mirror, now, pc, job, charged, retired, lost, dayCharges>>

Tick ==
  /\ now < MaxDay
  /\ now' = now + 1
  /\ UNCHANGED <<rowVars, pc, job, historyVars>>

WorkerStep(w) ==
  \/ \E c \in Chats : Evaluate(w, c)
  \/ Consume(w)
  \/ ReadRow(w)
  \/ RollWindow(w)
  \/ Withhold(w)
  \/ \E n \in 1..MaxItems : Deliver(w, n)
  \/ Charge(w)
  \/ Crash(w)

Next ==
  \/ \E w \in Workers : WorkerStep(w)
  \/ \E free \in Publications, at \in 0..MaxDay : RefreshLadder(free, at)
  \/ \E c \in Chats, calls \in Grants : GrantBonus(c, calls)
  \/ Tick

Spec == Init /\ [][Next]_vars

---------------------------------------------------------------------------
(* Properties *)

(* Every unit a charge statement took is still on the row, or was paid     *)
(* from the bonus pool, or left with a window that was over, or was wiped  *)
(* by a roll that came too late.  Nothing else loses a unit and nothing    *)
(* counts one twice, whatever the processes interleave (consume_quota).    *)
ChargesAccountedFor ==
  \A c \in Chats :
    charged[c] = meter[c].alert_count + (granted[c] - meter[c].bonus)
                   + retired[c] + lost[c]

(* The daily count of a row never exceeds what was charged under the day   *)
(* key it carries: no chat is walled for the day by alerts of another day. *)
DayCountNeverOverstated ==
  \A c \in Chats :
    meter[c].day # NULL => meter[c].day_count <= dayCharges[c][meter[c].day]

(* What a chat may be served per window and per day. *)
MonthlyFigures == {FallbackMonthly} \cup {FreeAllowance(free).monthly : free \in Usables}

(* What all workers together can have decided and not yet charged. *)
InFlight == Cardinality(Workers) * MaxItems

(* Deciding and charging are separate statements, so a chat may pass its   *)
(* allowance; but by no more than what the workers had in flight together, *)
(* and once more for each grant, which lets a full window decide again     *)
(* (evaluate_delivery, then consume_quota).                                *)
OvershootBounded ==
  \A c \in Chats :
    \E m \in MonthlyFigures :
      meter[c].alert_count <= m + (grants[c] + 1) * (InFlight - 1)

(* The allowance chat c is served at this moment. *)
Served(c) == EffectiveTotal(LiveMonthly(mirror, now), meter[c], now)

(* The allowance the open window of c was opened under: its stamp, or, for *)
(* a window without one, the figure the mirror has held ever since.        *)
OpenedUnder(c) ==
  IF meter[c].window_cap # NULL THEN meter[c].window_cap ELSE mirror.free_monthly

(* A refresh of the ladder never takes back from an open window: the chat  *)
(* is served at least what its window was opened under                     *)
(* (upsert_free_tier_ladder, effective_free_total).                        *)
RefreshNeverClawsBack ==
  [][ mirror # NULL /\ mirror' # mirror =>
        \A c \in Chats : Open(meter[c], now) => Served(c)' >= OpenedUnder(c) ]_vars

(* A charge never moves the start of a window that is open, so no          *)
(* interleaving hands a chat a second month (consume_quota_atomic).        *)
WindowNeverRestarted ==
  [][ \A c \in Chats :
        meter[c].window_start # NULL /\ meter'[c].window_start # NULL
          => meter'[c].window_start = meter[c].window_start ]_vars

(* A pair that one surface published. *)
Published(monthly, daily) ==
  \E free \in Publications :
    \/ free.telegram = [monthly |-> monthly, daily |-> daily]
    \/ free.api = [monthly |-> monthly, daily |-> daily]

(* A decision, and the charge that follows it, rest on one ladder: a pair  *)
(* that one surface published at one time, or the pinned pair; never on    *)
(* half of one and half of the other, however the mirror moves, grows stale  *)
(* and is read meanwhile (_free_allowance, resolve_ladder).                *)
OnePublishedLadder ==
  \A w \in Workers :
    \/ job[w].live = FallbackMonthly /\ job[w].daily = FallbackDaily
    \/ Published(job[w].live, job[w].daily)

(* An item being metered is one of the delivered items still to be metered. *)
JobInv ==
  \A w \in Workers :
    /\ pc[w] \in {"consume", "charge"} => job[w].call = "consume"
    /\ job[w].call = "consume" => job[w].left > 0
=============================================================================
