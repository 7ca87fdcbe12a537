----------------------------- MODULE WallNotice -----------------------------
(***************************************************************************)
(* What one chat is told when it is out of quota.  The engine decides at   *)
(* every delivery whether the chat may be served, and at the first refusal *)
(* of an episode sends a notice and stamps the episode afterwards: a free  *)
(* chat has a monthly and a daily episode, and so has a plan, which is     *)
(* read from a mirror of the server's last answer.  The drain follows a    *)
(* monthly wall up, at most twice, and keeps a ledger of what it sent.     *)
(* Engine, drain and the user's own calls interleave at every await, and   *)
(* nothing keeps two passes of the drain apart.  What a pass reads to      *)
(* decide on a follow-up it reads in one step.                             *)
(* A day is the unit of time.  The chat always has a watch and is never    *)
(* blocked, and the follow-ups are enabled; what the notices say and the   *)
(* cap on follow-ups in one pass are left out, and so is which key the     *)
(* mirror's answer was about.                                              *)
(***************************************************************************)
EXTENDS Integers, Sequences, FiniteSets

CONSTANTS
  NULL,
  Window,      \* quota.WINDOW, in days
  Offsets,     \* the offsets of WALL_FOLLOWUPS, in days, in their order
  Passes,      \* passes of the drain that may overlap
  LastDay,     \* bound on the time
  MaxLinks,    \* bound on the changes of the link
  MaxOverlaps, \* bound on the follow-ups begun while another is under way
  MaxCrashes   \* bound on the crashes, and on the sends that seem to fail

ASSUME WallNoticeAssumption ==
  /\ {LastDay, MaxLinks, MaxOverlaps, MaxCrashes} \subseteq Nat /\ Window \in Nat \ {0}
  /\ IsFiniteSet(Passes)
  /\ Offsets \in Seq(Nat \ {0}) \ {<<>>}
  /\ \A i, j \in DOMAIN Offsets : i < j => Offsets[i] < Offsets[j]

VARIABLES
  now,      \* the UTC day
  paid,     \* a key of a paid tier is linked
  window,   \* alerts_window_start, or NULL
  spent,    \* the monthly meter is exhausted
  dayout,   \* the daily meter was exhausted today
  mirror,   \* the wall of the plan_* columns and its episode, or NULL
  stamps,   \* the three stamps of notices
  ledger,   \* notice_ledger: <<touch, episode>>
  wall,     \* the notice of a refusal under way, or NULL
  touch,    \* touch[p]: the follow-up that pass p has under way, or NULL
  told,     \* episodes announced to the chat (history)
  touched,  \* follow-ups that reached the chat (history)
  again,    \* what reached the chat twice, or out of order (history)
  late,     \* a stamp was written past midnight (history)
  links,    \* how often the link changed
  overlaps, \* how often a follow-up was begun while another was under way
  crashes   \* how often a step after a send was lost

meters  == <<window, spent, dayout>>
plan    == <<paid, mirror>>
walling == <<wall, told, stamps, late>>
drain   == <<ledger, touch, touched>>
bounds  == <<links, overlaps, crashes>>
vars    == <<now, meters, plan, walling, drain, again, bounds>>

Days     == 0..LastDay
Episodes == {"free", "paid"} \X {"monthly", "daily"} \X Days

(* A notice on its way, and a follow-up: the latest of those due. *)
Wall  == [at : {"sending", "stamping"}, episode : Episodes, day : Days]
Touch == [at : {"sending", "recording", "superseding"}, window : Days,
          kind : DOMAIN Offsets, due : SUBSET DOMAIN Offsets]

ASSUME NullAssumption == NULL \notin Nat \cup Wall \cup Touch

Init ==
  /\ now = 0
  /\ paid = FALSE
  /\ window = NULL
  /\ spent = FALSE
  /\ dayout = FALSE
  /\ mirror = NULL
  /\ stamps = [quota_100 |-> NULL, quota_day |-> NULL, plan_day |-> NULL]
  /\ ledger = {}
  /\ wall = NULL
  /\ touch = [p \in Passes |-> NULL]
  /\ told = {}
  /\ touched = {}
  /\ again = 0
  /\ late = FALSE
  /\ links = 0
  /\ overlaps = 0
  /\ crashes = 0

---------------------------------------------------------------------------
(* The decision *)

Expired == window # NULL /\ now - window >= Window

(* get_quota_state rolls an expired window. *)
Roll ==
  /\ window' = IF Expired THEN NULL ELSE window
  /\ spent' = (spent /\ ~Expired)
  /\ dayout' = dayout

(* limit_kind: the monthly wall wins a tie.  A plan refuses only on a      *)
(* fresh mirror.                                                           *)
Limit ==
  CASE paid -> IF mirror = NULL THEN NULL ELSE mirror.limit
    [] ~paid /\ spent /\ ~Expired -> "monthly"
    [] ~paid /\ (~spent \/ Expired) -> IF dayout THEN "daily" ELSE NULL

(* The episode of the wall the chat is at. *)
Episode ==
  CASE paid -> <<"paid", Limit, mirror.episode>>
    [] ~paid -> <<"free", Limit, IF Limit = "monthly" THEN window ELSE now>>

Before(stamp, day) == stamp \in {NULL} \cup 0..(day - 1)

NoticeDueOnceEver ==
  CASE Limit = "monthly" -> Before(stamps.quota_100, Episode[3])
    [] Limit = "daily" -> stamps.quota_100 = NULL
NoticeDue ==
  CASE Limit = "monthly" -> Before(stamps.quota_100, Episode[3])
    [] Limit = "daily" /\ ~paid -> stamps.quota_day # now
    [] Limit = "daily" /\ paid -> stamps.plan_day # mirror.episode

---------------------------------------------------------------------------
(* The engine: refuse_and_notify *)

Refuse ==
  /\ wall = NULL
  /\ Limit # NULL
  /\ NoticeDue
  /\ wall' = [at |-> "sending", episode |-> Episode, day |-> now]
  /\ Roll
  /\ UNCHANGED <<now, plan, told, stamps, late, drain, again, bounds>>

SendWall ==
  /\ wall # NULL /\ wall.at = "sending"
  /\ wall' = [wall EXCEPT !.at = "stamping"]
  /\ told' = told \cup {wall.episode}
  /\ again' = IF wall.episode \in told THEN again + 1 ELSE again
  /\ UNCHANGED <<now, meters, plan, stamps, late, drain, bounds>>

SendWallFails ==
  /\ wall # NULL /\ wall.at = "sending"
  /\ wall' = NULL
  /\ UNCHANGED <<now, meters, plan, told, stamps, late, drain, again, bounds>>

(* mark_quota_cta_fired, mark_quota_day_notice, mark_plan_wall_notice_day *)
MarkQuotaCta(day)    == stamps' = [stamps EXCEPT !.quota_100 = day]
MarkQuotaDay(day)    == stamps' = [stamps EXCEPT !.quota_day = day]
MarkPlanWallDay(day) == stamps' = [stamps EXCEPT !.plan_day = day]

(* Each wall has a stamp of its own, but for the monthly ones, which share *)
(* theirs.  The day of a free daily wall is read now, not when it was      *)
(* decided on.                                                             *)
StampDailyAsMonthly ==
  /\ wall # NULL /\ wall.at = "stamping"
  /\ MarkQuotaCta(now)
  /\ late' = (late \/ now > wall.day)
  /\ wall' = NULL
  /\ UNCHANGED <<now, meters, plan, told, drain, again, bounds>>
Stamp ==
  LET lane == wall.episode[1]
      limit == wall.episode[2]
  IN  /\ wall # NULL /\ wall.at = "stamping"
      /\ CASE limit = "monthly" -> MarkQuotaCta(now)
           [] limit = "daily" /\ lane = "free" -> MarkQuotaDay(now)
           [] limit = "daily" /\ lane = "paid" -> MarkPlanWallDay(wall.episode[3])
      /\ late' = (late \/ now > wall.day)
      /\ wall' = NULL
      /\ UNCHANGED <<now, meters, plan, told, drain, again, bounds>>

---------------------------------------------------------------------------
(* The drain: wall_followup_pass *)

(* has_notice, record_notice: a touch is recorded once for its episode,    *)
(* whether it was sent or superseded.                                      *)
HasNotice(i, w) == <<i, w>> \in ledger
RecordNotice(touches, w) == ledger' = ledger \cup (touches \X {w})

(* The touches that are due, by their places in WALL_FOLLOWUPS. *)
Due == {i \in DOMAIN Offsets :
          now - stamps.quota_100 >= Offsets[i] /\ ~HasNotice(i, window)}

CandidateByAnyStamp ==
  /\ ~paid
  /\ stamps.quota_100 # NULL /\ window # NULL
  /\ now - stamps.quota_100 >= Offsets[1]
Candidate ==
  /\ ~paid
  /\ stamps.quota_100 # NULL /\ window # NULL
  /\ stamps.quota_100 >= window
  /\ now - stamps.quota_100 >= Offsets[1]

Latest(due) == CHOOSE i \in due : \A j \in due : j <= i

UnderWay == {p \in Passes : touch[p] # NULL}
At(p, stage) == touch[p] # NULL /\ touch[p].at = stage
GoOn(p, t)   == touch' = [touch EXCEPT ![p] = t]

(* Only the latest touch is sent. *)
PickTouch(p) ==
  /\ touch[p] = NULL
  /\ Candidate
  /\ Limit = "monthly"
  /\ Due # {}
  /\ UnderWay # {} => overlaps < MaxOverlaps
  /\ overlaps' = IF UnderWay = {} THEN overlaps ELSE overlaps + 1
  /\ GoOn(p, [at |-> "sending", kind |-> Latest(Due), due |-> Due, window |-> window])
  /\ UNCHANGED <<now, meters, plan, walling, ledger, touched, again, links, crashes>>

OutOfOrder(kind, w) == \E j \in DOMAIN Offsets : j >= kind /\ <<j, w>> \in touched

SendTouch(p) ==
  /\ At(p, "sending")
  /\ GoOn(p, [touch[p] EXCEPT !.at = "recording"])
  /\ touched' = touched \cup {<<touch[p].kind, touch[p].window>>}
  /\ again' = IF OutOfOrder(touch[p].kind, touch[p].window) THEN again + 1 ELSE again
  /\ UNCHANGED <<now, meters, plan, walling, ledger, bounds>>

SendTouchFails(p) ==
  /\ At(p, "sending")
  /\ GoOn(p, NULL)
  /\ UNCHANGED <<now, meters, plan, walling, ledger, touched, again, bounds>>

(* "sent" for the latest, and then "superseded" for the earlier ones,      *)
(* which will not be sent late.                                            *)
RecordSent(p) ==
  /\ At(p, "recording")
  /\ RecordNotice({touch[p].kind}, touch[p].window)
  /\ GoOn(p, IF touch[p].due = {touch[p].kind} THEN NULL
             ELSE [touch[p] EXCEPT !.at = "superseding"])
  /\ UNCHANGED <<now, meters, plan, walling, touched, again, bounds>>

Supersede(p) ==
  /\ At(p, "superseding")
  /\ RecordNotice(touch[p].due, touch[p].window)
  /\ GoOn(p, NULL)
  /\ UNCHANGED <<now, meters, plan, walling, touched, again, bounds>>

---------------------------------------------------------------------------
(* The world *)

(* update_plan_mirror: the server walls the plan at its monthly or at its  *)
(* daily limit, or does not; and PLAN_MIRROR_STALE_AFTER.                  *)
Mirror ==
  /\ paid
  /\ mirror' \in {NULL, [limit |-> "daily", episode |-> now],
                   [limit |-> "monthly", episode |-> (now \div Window) * Window]}
  /\ UNCHANGED <<now, meters, paid, walling, drain, again, bounds>>

(* A delivery opens a window when there is none. *)
Open ==
  /\ ~paid
  /\ Limit = NULL
  /\ window = NULL \/ Expired
  /\ window' = now
  /\ spent' = FALSE
  /\ UNCHANGED <<now, dayout, plan, walling, drain, again, bounds>>

(* Deliveries use an allowance up.  The daily one is less than the monthly *)
(* one, so that no window is exhausted on the day it opens.                *)
Spend ==
  /\ Limit = NULL /\ ~paid
  /\ window # NULL /\ ~Expired
  /\ \/ window < now /\ spent' = TRUE /\ dayout' = dayout
     \/ dayout' = TRUE /\ spent' = spent
  /\ UNCHANGED <<now, window, plan, walling, drain, again, bounds>>

(* A bonus, or a higher allowance. *)
Relieve ==
  /\ spent
  /\ spent' = FALSE
  /\ UNCHANGED <<now, window, dayout, plan, walling, drain, again, bounds>>

Relink ==
  /\ links < MaxLinks
  /\ links' = links + 1
  /\ paid' = ~paid
  /\ UNCHANGED <<now, meters, mirror, walling, drain, again, overlaps, crashes>>

(* A send that spans midnight does not span two. *)
Midnight ==
  /\ now < LastDay
  /\ wall # NULL => wall.day = now
  /\ now' = now + 1
  /\ dayout' = FALSE
  /\ UNCHANGED <<window, spent, plan, walling, drain, again, bounds>>

(* A process dies; what follows a send that arrived and seems to have      *)
(* failed is left out in the same way.                                     *)
Crash ==
  /\ crashes < MaxCrashes
  /\ crashes' = crashes + 1
  /\ \/ wall # NULL /\ wall' = NULL /\ touch' = touch
     \/ \E p \in UnderWay : GoOn(p, NULL) /\ wall' = wall
  /\ UNCHANGED <<now, meters, plan, told, stamps, late, ledger, touched, again, links, overlaps>>

---------------------------------------------------------------------------

Engine   == Refuse \/ SendWall \/ SendWallFails \/ Stamp
FollowUp ==
  \E p \in Passes :
    PickTouch(p) \/ SendTouch(p) \/ SendTouchFails(p) \/ RecordSent(p) \/ Supersede(p)
World    == Mirror \/ Open \/ Spend \/ Relieve \/ Relink \/ Midnight

Next == Engine \/ FollowUp \/ World \/ Crash
Spec == Init /\ [][Next]_vars

---------------------------------------------------------------------------
(* Properties *)

DayOrNull == Days \cup {NULL}

TypeOK ==
  /\ now \in Days
  /\ paid \in BOOLEAN
  /\ window \in DayOrNull /\ spent \in BOOLEAN /\ dayout \in BOOLEAN
  /\ mirror \in {NULL} \cup [limit : {"monthly", "daily"}, episode : Days]
  /\ stamps \in [quota_100 : DayOrNull, quota_day : DayOrNull, plan_day : DayOrNull]
  /\ ledger \subseteq ((DOMAIN Offsets) \X Days) /\ touched \subseteq ((DOMAIN Offsets) \X Days)
  /\ wall \in {NULL} \cup Wall
  /\ touch \in [Passes -> {NULL} \cup Touch]
  /\ told \subseteq Episodes
  /\ again \in Nat /\ late \in BOOLEAN
  /\ links \in 0..MaxLinks /\ overlaps \in 0..MaxOverlaps /\ crashes \in 0..MaxCrashes

(* A wall is announced once in an episode, and a follow-up is sent once    *)
(* and never after a later one, but for a crash before the stamp or the    *)
(* record, for a send that arrived and seemed to fail, and for a pass of   *)
(* the drain that picks a follow-up while another has one under way: each  *)
(* costs one message.  A chat that had a paid key in between costs more at *)
(* a crash: the plan's wall sets the stamp forward that the follow-ups are *)
(* counted from, and the whole sequence is due again (wall_followup_pass,  *)
(* has_notice).                                                            *)
NothingTwice == again <= crashes * (IF links < 2 THEN 1 ELSE Len(Offsets)) + overlaps

(* The chat is refused, and will not be told. *)
Silenced == Limit # NULL /\ ~NoticeDue /\ Episode \notin told

(* Whoever is refused without a word was told in the same episode, but for *)
(* two reasons: both lanes stamp their monthly walls in one column, so     *)
(* that a change of link can silence the next; and a daily wall stamped    *)
(* past midnight silences the next day (refuse_and_notify, _notice_due).   *)
SilencedByStampsOnly == Silenced => links > 0 \/ late

(* A follow-up is not the first word on a wall, but for the same reasons.  *)
FollowsTheWall ==
  links = 0 /\ ~late => \A t \in touched : <<"free", "monthly", t[2]>> \in told
=============================================================================
