--------------------------- MODULE WallNoticeProofs ---------------------------
(***************************************************************************)
(* What WallNotice promises of notices and follow-ups, for windows of any  *)
(* length, any sequence of follow-ups and any bounds; and, from the middle *)
(* on, what Requests promises of the lists and the answers it gives, for   *)
(* any users, groups and allowances.                                       *)
(***************************************************************************)
EXTENDS WallNotice, Requests, FiniteSetTheorems, WellFoundedInduction, TLAPS

(* The stamp that an episode's notice is held against.                     *)
StampOf(e) ==
  IF e[2] = "monthly" THEN stamps.quota_100
  ELSE IF e[1] = "free" THEN stamps.quota_day ELSE stamps.plan_day
Unstamped(e) == Before(StampOf(e), e[3])

NoLaterThan(d, day) == d # NULL => d <= day

(* What is remembered is past, and a window that was followed up opened    *)
(* on an earlier day.                                                      *)
Chronology ==
  /\ NoLaterThan(stamps.quota_100, now)
  /\ NoLaterThan(stamps.quota_day, now)
  /\ NoLaterThan(stamps.plan_day, now)
  /\ NoLaterThan(window, now)
  /\ spent => window # NULL
  /\ mirror # NULL => mirror.episode <= now
  /\ mirror # NULL /\ mirror.limit = "daily" => NoLaterThan(stamps.plan_day, mirror.episode)
  /\ \A t \in touched : t[2] < now
  /\ \A p \in Passes : touch[p] # NULL => touch[p].window < now

(* A notice on its way is of an episode that is not stamped yet, and that  *)
(* no later one of its kind has followed in the stamps.                    *)
WallSound ==
  wall # NULL =>
    /\ wall.episode[3] <= wall.day /\ wall.day <= now
    /\ Unstamped(wall.episode)
    /\ wall.at = "stamping" => wall.episode \in told
    /\ wall.episode[1] = "free" /\ wall.episode[2] = "daily" => wall.episode[3] = wall.day
    /\ wall.episode[1] = "free" /\ wall.episode[2] = "monthly" =>
         (window # NULL => wall.episode[3] <= window)
    /\ wall.episode[1] = "paid" /\ wall.episode[2] = "daily" =>
         (mirror # NULL /\ mirror.limit = "daily" => wall.episode[3] <= mirror.episode)

(* A follow-up on its way is the latest of those due, and all that come    *)
(* before it are due or on the ledger.                                     *)
TouchOK(t) ==
  /\ t.kind \in t.due
  /\ \A i \in t.due : i <= t.kind
  /\ \A i \in DOMAIN Offsets : i <= t.kind => i \in t.due \/ HasNotice(i, t.window)
TouchSound == \A p \in Passes : touch[p] # NULL => TouchOK(touch[p])

(* What could be told again: an episode that was announced and not         *)
(* stamped, and is not about to be; and a follow-up that is not on the     *)
(* ledger, and is not about to be, though it or a later one was sent.      *)
Stamping(e) == wall # NULL /\ wall.at = "stamping" /\ wall.episode = e
LooseWalls  == {e \in told : Unstamped(e) /\ ~Stamping(e)}

Loose(i, w)     == ~HasNotice(i, w) /\ OutOfOrder(i, w)
Recording(i, w) ==
  \E p \in Passes :
    touch[p] # NULL /\ touch[p].at # "sending" /\ touch[p].window = w /\ i <= touch[p].kind
LooseTouches    == {t \in (DOMAIN Offsets) \X Days : Loose(t[1], t[2]) /\ ~Recording(t[1], t[2])}
LooseWindows    == {w \in Days : \E i \in DOMAIN Offsets : <<i, w>> \in LooseTouches}

(* What a crash loosens is counted by the window for a chat that has not   *)
(* come back from a plan, and otherwise by the follow-up.                  *)
LooseOnes(last) == IF last THEN LooseWindows ELSE LooseTouches

(* Of the passes that are about to send, one may send something new, or    *)
(* what is loose; whatever the others send may repeat it.                  *)
Sending == {p \in Passes : At(p, "sending")}
Covered(t, last) ==
  \/ ~OutOfOrder(t.kind, t.window)
  \/ /\ <<t.kind, t.window>> \in LooseTouches
     /\ last => \A i \in DOMAIN Offsets : <<i, t.window>> \in LooseTouches => i <= t.kind
SomeCovered(last) == \E p \in Sending : Covered(touch[p], last)
Waits(last)       == Cardinality(Sending) - (IF SomeCovered(last) THEN 1 ELSE 0)

(* A crash loosens one announcement, or the follow-ups of one window; a    *)
(* pass that begins while another is under way may send once more.         *)
Cost(last)   == again + Cardinality(LooseWalls) + Cardinality(LooseOnes(last)) + Waits(last)
SequenceCost == Cost(FALSE) <= crashes * Len(Offsets) + overlaps
MessageCost  == links < 2 => Cost(TRUE) <= crashes + overlaps

(* A chat that has not come back from a plan: the stamp that a window's    *)
(* follow-ups were counted from stays, so that what was due stays due.     *)
DueSince(i, w) ==
  /\ stamps.quota_100 # NULL /\ stamps.quota_100 >= w
  /\ now - stamps.quota_100 >= Offsets[i]
FirstStay ==
  /\ links = 0 => ~paid /\ mirror = NULL
  /\ links = 1 => paid
  /\ links = 0 /\ wall # NULL => wall.episode[1] = "free"
  /\ links = 0 => \A t \in touched : t[2] = window => DueSince(t[1], window)
  /\ links = 0 => \A p \in Passes : touch[p] # NULL /\ touch[p].window = window =>
                                      DueSince(touch[p].kind, window)

(* On its first allowance, and while no stamp was late, a chat was told of *)
(* every wall that is stamped.                                             *)
Walled(w) == <<"free", "monthly", w>>
ToldFirst ==
  links = 0 /\ ~late =>
    /\ wall # NULL /\ wall.day = now /\ wall.episode[2] = "monthly" =>
         window = wall.episode[3] /\ ~Expired
    /\ stamps.quota_100 = now => window # NULL /\ ~Expired
    /\ stamps.quota_100 # NULL /\ window # NULL /\ stamps.quota_100 >= window =>
         Walled(window) \in told
    /\ stamps.quota_day = now => <<"free", "daily", now>> \in told
    /\ \A t \in touched : Walled(t[2]) \in told
    /\ \A p \in Passes : touch[p] # NULL => Walled(touch[p].window) \in told

---------------------------------------------------------------------------
(* The constants, and the wall a chat is at *)

LEMMA OffsetsAreOrdered ==
  /\ Len(Offsets) \in Nat \ {0}
  /\ DOMAIN Offsets = 1..Len(Offsets)
  /\ \A i \in DOMAIN Offsets : Offsets[i] \in Nat \ {0}
  /\ \A i, j \in DOMAIN Offsets : i <= j => Offsets[i] <= Offsets[j]
<1>1. /\ Offsets \in Seq(Nat \ {0}) /\ Offsets # <<>>
      /\ \A i, j \in DOMAIN Offsets : i < j => Offsets[i] < Offsets[j]
  BY WallNoticeAssumption
<1>2. /\ Len(Offsets) \in Nat \ {0}
      /\ DOMAIN Offsets = 1..Len(Offsets)
      /\ \A i \in DOMAIN Offsets : Offsets[i] \in Nat \ {0}
  BY <1>1
<1>3. ASSUME NEW i \in DOMAIN Offsets, NEW j \in DOMAIN Offsets, i <= j
      PROVE  Offsets[i] <= Offsets[j]
  <2>1. CASE i = j
    BY <1>2, <2>1
  <2>2. CASE i < j
    BY <1>1, <1>2, <2>2
  <2> QED
    BY <1>2, <1>3, <2>1, <2>2
<1> QED
  BY <1>2, <1>3

LEMMA NullIsApart == NULL \notin Days /\ NULL \notin Wall /\ NULL \notin Touch
  BY NullAssumption DEF Days

(* The latest of the touches that are due. *)
LEMMA LeastOf ==
  ASSUME NEW S \in SUBSET Nat, S # {}
  PROVE  \E least \in S : \A m \in S : least <= m
<1> DEFINE R == {p \in Nat \X Nat : p[1] < p[2]}
<1>1. PICK least \in S : \A m \in S : <<m, least>> \notin R
  <2>1. IsWellFoundedOn(R, Nat)
    BY NatLessThanWellFounded DEF OpToRel
  <2> HIDE DEF R
  <2> QED
    BY <2>1, WFMin
<1>2. ASSUME NEW m \in S PROVE least <= m
  <2>1. <<m, least>> \in Nat \X Nat /\ <<m, least>> \notin R
    BY <1>1
  <2>2. ~(m < least)
    BY <2>1
  <2> QED
    BY <2>2
<1> QED
  BY <1>2

LEMMA LatestDue ==
  ASSUME NEW D \in SUBSET DOMAIN Offsets, D # {}
  PROVE  Latest(D) \in D /\ \A j \in D : j <= Latest(D)
<1> DEFINE S == {Len(Offsets) - i : i \in D}
<1>1. S \in SUBSET Nat /\ S # {}
  BY OffsetsAreOrdered
<1>2. PICK least \in S : \A m \in S : least <= m
  <2> HIDE DEF S
  <2> QED
    BY <1>1, LeastOf
<1>3. PICK i \in D : least = Len(Offsets) - i
  BY <1>2
<1>4. ASSUME NEW j \in D PROVE j <= i
  <2>1. Len(Offsets) - i <= Len(Offsets) - j
    BY <1>2, <1>3
  <2>2. i \in Nat /\ j \in Nat /\ Len(Offsets) \in Nat
    BY OffsetsAreOrdered
  <2> QED
    BY <2>1, <2>2
<1> QED
  BY <1>4 DEF Latest

(* The period of a plan starts in the past. *)
LEMMA PeriodStarted == TypeOK => (now \div Window) * Window \in 0..now
<1> SUFFICES ASSUME TypeOK PROVE (now \div Window) * Window \in 0..now
  OBVIOUS
<1>1. now \in Nat /\ Window \in Nat \ {0}
  BY WallNoticeAssumption DEF TypeOK, Days
<1> QED
  BY <1>1

(* Which wall it is. *)
LEMMA FreeWall ==
  ASSUME TypeOK, Chronology, Limit # NULL, ~paid
  PROVE  /\ Limit \in {"monthly", "daily"}
         /\ Episode \in Episodes /\ Episode[1] = "free" /\ Episode[2] = Limit
         /\ Limit = "monthly" => spent /\ ~Expired /\ window # NULL /\ Episode[3] = window
         /\ Limit = "daily" => dayout /\ Episode[3] = now
<1>1. \/ Limit = "monthly" /\ spent /\ ~Expired
      \/ Limit = "daily" /\ dayout
  BY DEF Limit, TypeOK
<1>2. Episode = <<"free", Limit, IF Limit = "monthly" THEN window ELSE now>>
  BY DEF Episode
<1>3. Limit = "monthly" => window # NULL /\ window \in Days
  BY <1>1 DEF Chronology, TypeOK, DayOrNull
<1> QED
  BY <1>1, <1>2, <1>3 DEF Episodes, TypeOK

LEMMA PlanWall ==
  ASSUME TypeOK, Limit # NULL, paid
  PROVE  /\ mirror # NULL /\ Limit = mirror.limit /\ Limit \in {"monthly", "daily"}
         /\ Episode \in Episodes /\ Episode = <<"paid", mirror.limit, mirror.episode>>
<1>1. mirror # NULL /\ Limit = mirror.limit
  BY DEF Limit, TypeOK
<1> QED
  BY <1>1 DEF Episode, Episodes, TypeOK

---------------------------------------------------------------------------
(* What a step of a pass does to the follow-ups under way *)

OthersStay(p) == \A q \in Passes : q # p => touch'[q] = touch[q]

LEMMA GoneOn ==
  ASSUME TypeOK, NEW p \in Passes, NEW t, GoOn(p, t)
  PROVE  touch'[p] = t /\ OthersStay(p)
  BY DEF GoOn, TypeOK, OthersStay

LEMMA PickIs ==
  ASSUME TypeOK, NEW p \in Passes, PickTouch(p)
  PROVE  /\ OthersStay(p) /\ touch[p] = NULL /\ touch'[p] \in Touch
         /\ touch'[p].at = "sending" /\ touch'[p].kind = Latest(Due) /\ touch'[p].due = Due
         /\ touch'[p].window = window
         /\ window \in Days /\ Due \in SUBSET DOMAIN Offsets /\ Due # {}
         /\ Latest(Due) \in Due /\ \A j \in Due : j <= Latest(Due)
<1> DEFINE t == [at |-> "sending", kind |-> Latest(Due), due |-> Due, window |-> window]
<1>1. GoOn(p, t) /\ touch[p] = NULL /\ Due # {} /\ window # NULL
  BY DEF PickTouch, Candidate
<1>2. window \in Days /\ Due \in SUBSET DOMAIN Offsets
  BY <1>1 DEF TypeOK, DayOrNull, Due
<1>3. Latest(Due) \in Due /\ \A j \in Due : j <= Latest(Due)
  BY <1>1, <1>2, LatestDue
<1>4. t \in Touch
  BY <1>2, <1>3 DEF Touch
<1>5. touch'[p] = t /\ OthersStay(p)
  <2> HIDE DEF t
  <2> QED
    BY <1>1, GoneOn
<1> QED
  BY <1>1, <1>2, <1>3, <1>4, <1>5

(* A follow-up that is kept is the same one. *)
Keeps(p) ==
  /\ touch'[p] \in Touch
  /\ touch'[p].kind = touch[p].kind /\ touch'[p].due = touch[p].due
  /\ touch'[p].window = touch[p].window

LEMMA SendIs ==
  ASSUME TypeOK, NEW p \in Passes, SendTouch(p)
  PROVE  /\ OthersStay(p) /\ touch[p] # NULL /\ touch[p] \in Touch /\ touch[p].at = "sending"
         /\ touch[p].kind \in DOMAIN Offsets /\ touch[p].window \in Days
         /\ Keeps(p) /\ touch'[p].at = "recording"
<1> DEFINE t == [touch[p] EXCEPT !.at = "recording"]
<1>1. GoOn(p, t) /\ touch[p] # NULL /\ touch[p] \in Touch /\ touch[p].at = "sending"
  BY DEF SendTouch, At, TypeOK
<1>2. /\ t \in Touch /\ t.at = "recording" /\ t.kind = touch[p].kind /\ t.due = touch[p].due
      /\ t.window = touch[p].window /\ touch[p].kind \in DOMAIN Offsets /\ touch[p].window \in Days
  BY <1>1 DEF Touch
<1>3. touch'[p] = t /\ OthersStay(p)
  <2> HIDE DEF t
  <2> QED
    BY <1>1, GoneOn
<1> QED
  BY <1>1, <1>2, <1>3 DEF Keeps

LEMMA FailIs ==
  ASSUME TypeOK, NEW p \in Passes, SendTouchFails(p)
  PROVE  /\ OthersStay(p) /\ touch[p] # NULL /\ touch[p].at = "sending"
         /\ touch'[p] = NULL
  BY GoneOn DEF SendTouchFails, At

(* A record is kept of the touch, or of all that were due. *)
LEMMA RecordIs ==
  ASSUME TypeOK, NEW p \in Passes, RecordSent(p) \/ Supersede(p)
  PROVE  /\ OthersStay(p) /\ touch[p] # NULL /\ touch[p] \in Touch /\ touch[p].at # "sending"
         /\ touch[p].kind \in DOMAIN Offsets /\ touch[p].window \in Days
         /\ touch[p].due \subseteq DOMAIN Offsets
         /\ \/ /\ touch'[p] = NULL
               /\ ledger' = ledger \cup (touch[p].due \X {touch[p].window})
            \/ /\ touch'[p] # NULL /\ Keeps(p) /\ touch'[p].at = "superseding"
               /\ ledger' = ledger \cup ({touch[p].kind} \X {touch[p].window})
<1>1. /\ touch[p] # NULL /\ touch[p] \in Touch /\ touch[p].at # "sending"
      /\ touch[p].kind \in DOMAIN Offsets /\ touch[p].window \in Days
      /\ touch[p].due \subseteq DOMAIN Offsets
  BY DEF RecordSent, Supersede, At, TypeOK, Touch
<1>2. CASE Supersede(p)
  <2>1. touch'[p] = NULL /\ OthersStay(p)
    BY <1>2, GoneOn DEF Supersede
  <2> QED
    BY <1>1, <1>2, <2>1 DEF Supersede, RecordNotice
<1>3. CASE RecordSent(p) /\ touch[p].due = {touch[p].kind}
  <2>1. touch'[p] = NULL /\ OthersStay(p)
    BY <1>3, GoneOn DEF RecordSent
  <2> QED
    BY <1>1, <1>3, <2>1 DEF RecordSent, RecordNotice
<1>4. CASE RecordSent(p) /\ touch[p].due # {touch[p].kind}
  <2> DEFINE t == [touch[p] EXCEPT !.at = "superseding"]
  <2>1. GoOn(p, t)
    BY <1>4 DEF RecordSent
  <2>2. /\ t \in Touch /\ t.at = "superseding" /\ t.kind = touch[p].kind /\ t.due = touch[p].due
        /\ t.window = touch[p].window
    BY <1>1 DEF Touch
  <2>3. touch'[p] = t /\ OthersStay(p)
    <3> HIDE DEF t
    <3> QED
      BY <2>1, GoneOn
  <2>4. Keeps(p) /\ touch'[p].at = "superseding" /\ touch'[p] # NULL
    BY <2>2, <2>3, NullIsApart DEF Keeps
  <2> QED
    BY <1>1, <1>4, <2>3, <2>4 DEF RecordSent, RecordNotice
<1> QED
  BY <1>2, <1>3, <1>4

(* Whatever a step of a pass leaves alone. *)
LEMMA FollowUpLeaves ==
  ASSUME FollowUp
  PROVE  UNCHANGED <<now, meters, plan, walling, links, crashes>>
  BY DEF FollowUp, PickTouch, SendTouch, SendTouchFails, RecordSent, Supersede, bounds

(* A crash ends a notice or a follow-up. *)
LEMMA CrashIs ==
  ASSUME TypeOK, Crash
  PROVE  /\ UNCHANGED <<now, meters, plan, told, stamps, late, ledger, touched, again, links,
                        overlaps>>
         /\ crashes' = crashes + 1
         /\ \/ wall # NULL /\ wall' = NULL /\ touch' = touch
            \/ /\ wall' = wall
               /\ \E p \in Passes : touch[p] # NULL /\ OthersStay(p) /\ touch'[p] = NULL
<1>1. CASE \E p \in UnderWay : GoOn(p, NULL) /\ wall' = wall
  <2>1. PICK p \in Passes : touch[p] # NULL /\ GoOn(p, NULL) /\ wall' = wall
    BY <1>1 DEF UnderWay
  <2>2. OthersStay(p) /\ touch'[p] = NULL
    BY <2>1, GoneOn
  <2> QED
    BY <2>1, <2>2 DEF Crash
<1> QED
  BY <1>1 DEF Crash

(* The drain sees nothing of the others, but for a crash. *)
LEMMA OthersLeave ==
  ASSUME TypeOK, Engine \/ World \/ Crash
  PROVE  /\ UNCHANGED <<ledger, touched, overlaps>>
         /\ \A p \in Passes : touch'[p] \in {NULL, touch[p]}
         /\ ~Crash => touch' = touch
<1>1. CASE Engine
  BY <1>1 DEF Engine, Refuse, SendWall, SendWallFails, Stamp, drain, bounds
<1>2. CASE World
  BY <1>2 DEF World, Mirror, Open, Spend, Relieve, Relink, Midnight, drain, bounds
<1>3. CASE Crash
  BY <1>3, CrashIs DEF OthersStay
<1> QED
  BY <1>1, <1>2, <1>3

---------------------------------------------------------------------------
(* Types *)

LEMMA EngineTyped == ASSUME TypeOK, Chronology, Engine PROVE TypeOK'
<1>1. CASE Refuse
  <2>1. Episode \in Episodes
    BY <1>1, FreeWall, PlanWall DEF Refuse
  <2>2. wall' \in Wall
    BY <1>1, <2>1 DEF Refuse, Wall, TypeOK
  <2>3. window' \in DayOrNull /\ spent' \in BOOLEAN /\ dayout' \in BOOLEAN
    BY <1>1 DEF Refuse, Roll, TypeOK, DayOrNull
  <2> QED
    BY <1>1, <2>2, <2>3 DEF Refuse, TypeOK, plan, drain, bounds
<1>2. CASE SendWall
  <2>1. wall \in Wall /\ wall' \in Wall /\ wall.episode \in Episodes
    BY <1>2 DEF SendWall, TypeOK, Wall
  <2>2. again' \in Nat
    BY <1>2 DEF SendWall, TypeOK
  <2> QED
    BY <1>2, <2>1, <2>2 DEF SendWall, TypeOK, plan, drain, bounds, meters
<1>3. CASE SendWallFails
  BY <1>3 DEF SendWallFails, TypeOK, plan, drain, bounds, meters
<1>4. CASE Stamp
  <2>1. wall \in Wall /\ wall.episode[3] \in Days /\ now \in Days
    BY <1>4 DEF Stamp, TypeOK, Wall, Episodes
  <2>2. stamps' \in [quota_100 : DayOrNull, quota_day : DayOrNull, plan_day : DayOrNull]
    BY <1>4, <2>1 DEF Stamp, MarkQuotaCta, MarkQuotaDay, MarkPlanWallDay, TypeOK, DayOrNull, Wall, Episodes
  <2>3. late' \in BOOLEAN /\ wall' = NULL
    BY <1>4 DEF Stamp, TypeOK
  <2> QED
    BY <1>4, <2>2, <2>3 DEF Stamp, TypeOK, plan, drain, bounds, meters
<1> QED
  BY <1>1, <1>2, <1>3, <1>4 DEF Engine

LEMMA FollowUpTyped == ASSUME TypeOK, Chronology, FollowUp PROVE TypeOK'
<1>1. UNCHANGED <<now, meters, plan, walling, links, crashes>>
  BY FollowUpLeaves
<1>2. SUFFICES /\ ledger' \subseteq (DOMAIN Offsets) \X Days
               /\ touched' \subseteq (DOMAIN Offsets) \X Days
               /\ touch' \in [Passes -> {NULL} \cup Touch]
               /\ again' \in Nat /\ overlaps' \in 0..MaxOverlaps
  BY <1>1 DEF TypeOK, meters, plan, walling
<1>3. PICK p \in Passes :
        PickTouch(p) \/ SendTouch(p) \/ SendTouchFails(p) \/ RecordSent(p) \/ Supersede(p)
  BY DEF FollowUp
<1>4. ASSUME touch'[p] \in {NULL} \cup Touch, OthersStay(p)
      PROVE  touch' \in [Passes -> {NULL} \cup Touch]
  <2>1. touch' = [touch EXCEPT ![p] = touch'[p]]
    <3>1. \E t : GoOn(p, t)
      BY <1>3 DEF PickTouch, SendTouch, SendTouchFails, RecordSent, Supersede
    <3> QED
      BY <3>1 DEF GoOn, TypeOK
  <2> DEFINE t == touch'[p]
  <2>2. t \in {NULL} \cup Touch /\ touch' = [touch EXCEPT ![p] = t]
    BY <1>4, <2>1
  <2> HIDE DEF t
  <2> QED
    BY <2>2 DEF TypeOK
<1>5. CASE PickTouch(p)
  <2>1. overlaps' \in 0..MaxOverlaps
    BY <1>5, WallNoticeAssumption DEF PickTouch, TypeOK
  <2>2. touch' \in [Passes -> {NULL} \cup Touch]
    BY <1>4, <1>5, PickIs
  <2> QED
    BY <1>5, <2>1, <2>2 DEF PickTouch, TypeOK
<1>6. CASE SendTouch(p)
  <2>1. <<touch[p].kind, touch[p].window>> \in (DOMAIN Offsets) \X Days
    BY <1>6, SendIs
  <2>2. again' \in Nat
    BY <1>6 DEF SendTouch, TypeOK
  <2>3. touch' \in [Passes -> {NULL} \cup Touch]
    BY <1>4, <1>6, SendIs DEF Keeps
  <2> QED
    BY <1>6, <2>1, <2>2, <2>3 DEF SendTouch, TypeOK, bounds
<1>7. CASE SendTouchFails(p)
  <2>1. touch' \in [Passes -> {NULL} \cup Touch]
    BY <1>4, <1>7, FailIs
  <2> QED
    BY <1>7, <2>1 DEF SendTouchFails, TypeOK, bounds
<1>8. CASE RecordSent(p) \/ Supersede(p)
  <2>1. touch' \in [Passes -> {NULL} \cup Touch]
    BY <1>4, <1>8, RecordIs DEF Keeps
  <2>2. /\ touch[p].due \X {touch[p].window} \subseteq (DOMAIN Offsets) \X Days
        /\ {touch[p].kind} \X {touch[p].window} \subseteq (DOMAIN Offsets) \X Days
    BY <1>8, RecordIs
  <2>3. ledger' \subseteq (DOMAIN Offsets) \X Days
    BY <1>8, <2>2, RecordIs DEF TypeOK
  <2> QED
    BY <1>8, <2>1, <2>3 DEF RecordSent, Supersede, TypeOK, bounds
<1> QED
  BY <1>3, <1>5, <1>6, <1>7, <1>8

LEMMA OthersTyped == ASSUME TypeOK, Chronology, World \/ Crash PROVE TypeOK'
<1> USE DEF plan, walling, drain, bounds, meters
<1>1. CASE Mirror
  <2>1. now \in Days /\ (now \div Window) * Window \in Days
    BY PeriodStarted, WallNoticeAssumption DEF TypeOK, Days
  <2>2. mirror' \in {NULL} \cup [limit : {"monthly", "daily"}, episode : Days]
    BY <1>1, <2>1 DEF Mirror
  <2> QED
    BY <1>1, <2>2 DEF Mirror, TypeOK
<1>2. CASE Open \/ Spend \/ Relieve
  BY <1>2 DEF Open, Spend, Relieve, TypeOK, DayOrNull
<1>3. CASE Relink
  <2>1. links' \in 0..MaxLinks
    BY <1>3, WallNoticeAssumption DEF Relink, TypeOK
  <2> QED
    BY <1>3, <2>1 DEF Relink, TypeOK
<1>4. CASE Midnight
  <2>1. now' \in Days
    BY <1>4, WallNoticeAssumption DEF Midnight, TypeOK, Days
  <2> QED
    BY <1>4, <2>1 DEF Midnight, TypeOK
<1>5. CASE Crash
  <2>1. crashes' \in 0..MaxCrashes
    BY <1>5, WallNoticeAssumption DEF Crash, TypeOK
  <2>2. touch' \in [Passes -> {NULL} \cup Touch]
    BY <1>5 DEF Crash, TypeOK, GoOn
  <2>3. wall' \in {NULL} \cup Wall
    BY <1>5 DEF Crash, TypeOK
  <2> QED
    BY <1>5, <2>1, <2>2, <2>3 DEF Crash, TypeOK
<1> QED
  BY <1>1, <1>2, <1>3, <1>4, <1>5 DEF World

---------------------------------------------------------------------------
(* Stamps *)

(* What a stamp changes. *)
LEMMA StampIs ==
  ASSUME TypeOK, Stamp
  PROVE  /\ wall \in Wall /\ wall.at = "stamping" /\ wall' = NULL
         /\ wall.episode \in Episodes
         /\ \/ /\ wall.episode[2] = "monthly"
               /\ stamps'.quota_100 = now
               /\ stamps'.quota_day = stamps.quota_day /\ stamps'.plan_day = stamps.plan_day
            \/ /\ wall.episode[2] = "daily" /\ wall.episode[1] = "free"
               /\ stamps'.quota_day = now
               /\ stamps'.quota_100 = stamps.quota_100 /\ stamps'.plan_day = stamps.plan_day
            \/ /\ wall.episode[2] = "daily" /\ wall.episode[1] = "paid"
               /\ stamps'.plan_day = wall.episode[3]
               /\ stamps'.quota_100 = stamps.quota_100 /\ stamps'.quota_day = stamps.quota_day
<1>1. wall \in Wall /\ wall.at = "stamping" /\ wall' = NULL /\ wall.episode \in Episodes
  BY DEF Stamp, TypeOK, Wall
<1>2. stamps \in [quota_100 : DayOrNull, quota_day : DayOrNull, plan_day : DayOrNull]
  BY DEF TypeOK
<1>3. /\ wall.episode[1] \in {"free", "paid"} /\ wall.episode[2] \in {"monthly", "daily"}
  BY <1>1 DEF Episodes
<1>4. CASE wall.episode[2] = "monthly"
  <2>1. stamps' = [stamps EXCEPT !.quota_100 = now]
    BY <1>4 DEF Stamp, MarkQuotaCta
  <2> QED
    BY <1>1, <1>2, <1>4, <2>1
<1>5. CASE wall.episode[2] = "daily" /\ wall.episode[1] = "free"
  <2>1. stamps' = [stamps EXCEPT !.quota_day = now]
    BY <1>5 DEF Stamp, MarkQuotaDay
  <2> QED
    BY <1>1, <1>2, <1>5, <2>1
<1>6. CASE wall.episode[2] = "daily" /\ wall.episode[1] = "paid"
  <2>1. stamps' = [stamps EXCEPT !.plan_day = wall.episode[3]]
    BY <1>6 DEF Stamp, MarkPlanWallDay
  <2> QED
    BY <1>1, <1>2, <1>6, <2>1
<1> QED
  BY <1>3, <1>4, <1>5, <1>6

(* The numbers in a state. *)
LEMMA DaysAreNumbers ==
  ASSUME TypeOK
  PROVE  /\ now \in Nat
         /\ window # NULL => window \in Nat
         /\ stamps.quota_100 # NULL => stamps.quota_100 \in Nat
         /\ stamps.quota_day # NULL => stamps.quota_day \in Nat
         /\ stamps.plan_day # NULL => stamps.plan_day \in Nat
         /\ mirror # NULL => mirror.episode \in Nat /\ mirror.limit \in {"monthly", "daily"}
         /\ \A e \in Episodes : /\ e[1] \in {"free", "paid"} /\ e[2] \in {"monthly", "daily"}
                                /\ e[3] \in Nat
  BY DEF TypeOK, Days, DayOrNull, Episodes

(* A stamp is set forward, and past the episode it is for. *)
LEMMA StampsForward ==
  ASSUME TypeOK, Chronology, WallSound, Stamp, NEW e \in Episodes, Unstamped(e)'
  PROVE  Unstamped(e) /\ e # wall.episode
<1>1. wall # NULL /\ wall.episode \in Episodes /\ wall.episode[3] \in Nat
      /\ wall.episode[3] <= wall.day /\ wall.day <= now /\ wall.day \in Nat
      /\ Unstamped(wall.episode)
  <2>1. wall # NULL /\ wall \in Wall /\ wall.episode \in Episodes
    BY StampIs DEF Stamp
  <2>2. wall.day \in Nat /\ wall.episode[3] \in Nat
    BY <2>1, DaysAreNumbers DEF Wall, Days
  <2> QED
    BY <2>1, <2>2 DEF WallSound
<1>2. e[1] \in {"free", "paid"} /\ e[2] \in {"monthly", "daily"} /\ e[3] \in Nat /\ now \in Nat
  BY DaysAreNumbers
<1>3. StampOf(e)' \in {NULL} \cup 0..(e[3] - 1)
  BY DEF Unstamped, Before
<1>4. CASE StampOf(e)' = StampOf(e) /\ e # wall.episode
  BY <1>3, <1>4 DEF Unstamped, Before
<1>5. CASE StampOf(e)' = now /\ NoLaterThan(StampOf(e), now)
  <2>1. now < e[3]
    BY <1>2, <1>3, <1>5, NullIsApart DEF TypeOK
  <2>2. StampOf(e) # NULL => StampOf(e) \in Nat
    BY DaysAreNumbers DEF StampOf
  <2>3. StampOf(e) \in {NULL} \cup 0..(e[3] - 1)
    BY <1>2, <1>5, <2>1, <2>2 DEF NoLaterThan
  <2> QED
    BY <1>1, <1>2, <2>1, <2>3 DEF Unstamped, Before
<1>6. CASE StampOf(e)' = wall.episode[3] /\ StampOf(e) = StampOf(wall.episode)
  <2>1. wall.episode[3] < e[3]
    BY <1>1, <1>2, <1>3, <1>6, NullAssumption
  <2>2. StampOf(e) \in {NULL} \cup 0..(wall.episode[3] - 1)
    BY <1>1, <1>6 DEF Unstamped, Before
  <2> QED
    BY <1>1, <1>2, <2>1, <2>2 DEF Unstamped, Before
<1> QED
  <2>1. CASE wall.episode[2] = "monthly" /\ stamps'.quota_100 = now
             /\ stamps'.quota_day = stamps.quota_day /\ stamps'.plan_day = stamps.plan_day
    BY <1>4, <1>5, <2>1 DEF StampOf, Chronology
  <2>2. CASE wall.episode[2] = "daily" /\ wall.episode[1] = "free" /\ stamps'.quota_day = now
             /\ stamps'.quota_100 = stamps.quota_100 /\ stamps'.plan_day = stamps.plan_day
    BY <1>2, <1>4, <1>5, <2>2 DEF StampOf, Chronology
  <2>3. CASE wall.episode[2] = "daily" /\ wall.episode[1] = "paid"
             /\ stamps'.plan_day = wall.episode[3]
             /\ stamps'.quota_100 = stamps.quota_100 /\ stamps'.quota_day = stamps.quota_day
    BY <1>2, <1>4, <1>6, <2>3 DEF StampOf
  <2> QED
    BY <2>1, <2>2, <2>3, StampIs

---------------------------------------------------------------------------
(* The order of things *)

Sound == Chronology /\ WallSound /\ TouchSound

(* A wall that is to be announced is not stamped. *)
LEMMA DueIsUnstamped ==
  ASSUME TypeOK, Chronology, Limit # NULL, NoticeDue
  PROVE  Episode \in Episodes /\ Unstamped(Episode)
<1>1. CASE ~paid
  <2>1. /\ Limit \in {"monthly", "daily"} /\ Episode \in Episodes
        /\ Episode[1] = "free" /\ Episode[2] = Limit
        /\ Limit = "daily" => Episode[3] = now
    BY <1>1, FreeWall
  <2>2. CASE Limit = "monthly"
    BY <2>1, <2>2 DEF NoticeDue, Unstamped, StampOf
  <2>3. CASE Limit = "daily"
    <3>1. stamps.quota_day # now
      BY <1>1, <2>3 DEF NoticeDue
    <3>2. stamps.quota_day \in {NULL} \cup 0..(now - 1)
      BY <3>1, DaysAreNumbers DEF Chronology, NoLaterThan
    <3>3. StampOf(Episode) = stamps.quota_day /\ Episode[3] = now
      BY <2>1, <2>3 DEF StampOf
    <3> QED
      BY <2>1, <3>2, <3>3 DEF Unstamped, Before
  <2> QED
    BY <2>1, <2>2, <2>3
<1>2. CASE paid
  <2>1. /\ mirror # NULL /\ Limit = mirror.limit /\ Limit \in {"monthly", "daily"}
        /\ Episode \in Episodes /\ Episode = <<"paid", mirror.limit, mirror.episode>>
    BY <1>2, PlanWall
  <2>2. CASE Limit = "monthly"
    BY <2>1, <2>2 DEF NoticeDue, Unstamped, StampOf
  <2>3. CASE Limit = "daily"
    <3>1. stamps.plan_day # mirror.episode
      BY <1>2, <2>3 DEF NoticeDue
    <3>2. stamps.plan_day \in {NULL} \cup 0..(mirror.episode - 1)
      BY <2>1, <2>3, <3>1, DaysAreNumbers DEF Chronology, NoLaterThan
    <3>3. StampOf(Episode) = stamps.plan_day /\ Episode[3] = mirror.episode
      BY <2>1, <2>3 DEF StampOf
    <3> QED
      BY <2>1, <3>2, <3>3 DEF Unstamped, Before
  <2> QED
    BY <2>1, <2>2, <2>3
<1> QED
  BY <1>1, <1>2 DEF TypeOK

LEMMA RefuseSound == ASSUME TypeOK, Sound, Refuse PROVE Sound'
<1> USE DEF Sound
<1>1. /\ wall' = [at |-> "sending", episode |-> Episode, day |-> now]
      /\ UNCHANGED <<now, stamps, mirror, touch, touched, ledger>>
  BY DEF Refuse, plan, drain
<1>2. Episode \in Episodes /\ Unstamped(Episode)
  BY DueIsUnstamped DEF Refuse
<1>3. window' \in {NULL, window} /\ (spent' => window' # NULL)
  BY DEF Refuse, Roll, Chronology, TypeOK
<1>4. /\ Episode[3] <= now
      /\ Episode[1] = "free" /\ Episode[2] = "daily" => Episode[3] = now
      /\ Episode[1] = "free" /\ Episode[2] = "monthly" => (window # NULL => Episode[3] <= window)
      /\ Episode[1] = "paid" /\ Episode[2] = "daily" => Episode[3] = mirror.episode
  <2>1. CASE ~paid
    BY <2>1, FreeWall, DaysAreNumbers DEF Refuse, Chronology, NoLaterThan
  <2>2. CASE paid
    <3>1. mirror # NULL /\ Episode = <<"paid", mirror.limit, mirror.episode>>
      BY <2>2, PlanWall DEF Refuse
    <3> QED
      BY <3>1, DaysAreNumbers DEF Chronology
  <2> QED
    BY <2>1, <2>2 DEF TypeOK
<1>5. Chronology'
  BY <1>1, <1>3 DEF Chronology, NoLaterThan
<1>6. WallSound'
  <2>1. /\ wall'.at = "sending" /\ wall'.episode = Episode /\ wall'.day = now
    BY <1>1
  <2>2. Unstamped(wall.episode)'
    BY <1>1, <1>2, <2>1 DEF Unstamped, StampOf
  <2>3. mirror # NULL => mirror.episode <= mirror.episode
    BY DaysAreNumbers
  <2>4. now <= now
    BY DaysAreNumbers
  <2> QED
    BY <1>1, <1>3, <1>4, <2>1, <2>2, <2>3, <2>4 DEF WallSound
<1>7. TouchSound'
  BY <1>1 DEF TouchSound, TouchOK, HasNotice
<1> QED
  BY <1>5, <1>6, <1>7

LEMMA EngineSound == ASSUME TypeOK, Sound, Engine PROVE Sound'
<1> USE DEF Sound
<1>1. CASE Refuse
  BY <1>1, RefuseSound
<1>2. CASE SendWall
  <2>1. /\ wall # NULL /\ wall'.at = "stamping" /\ wall'.episode = wall.episode
        /\ wall'.day = wall.day /\ told' = told \cup {wall.episode}
    BY <1>2, NullIsApart DEF SendWall, TypeOK, Wall
  <2>2. UNCHANGED <<now, window, spent, stamps, mirror, touch, touched, ledger>>
    BY <1>2 DEF SendWall, meters, plan, drain
  <2> QED
    BY <2>1, <2>2 DEF Chronology, NoLaterThan, WallSound, TouchSound, TouchOK, HasNotice, Unstamped, StampOf
<1>3. CASE SendWallFails
  BY <1>3 DEF SendWallFails, meters, plan, drain, Chronology, NoLaterThan, WallSound, TouchSound,
    TouchOK, HasNotice
<1>4. CASE Stamp
  <2>1. /\ UNCHANGED <<now, window, spent, mirror, touch, touched, ledger>> /\ wall # NULL
        /\ wall' = NULL
    BY <1>4 DEF Stamp, meters, plan, drain
  <2>2. wall \in Wall /\ wall.episode \in Episodes
    BY <1>4, StampIs
  <2>3. wall.episode[3] \in Nat /\ wall.day \in Nat /\ now \in Nat
    BY <2>2, DaysAreNumbers DEF Wall, Days
  <2>4. wall.episode[3] <= now
    BY <2>1, <2>3 DEF WallSound
  <2>5. /\ NoLaterThan(stamps.quota_100, now)' /\ NoLaterThan(stamps.quota_day, now)'
        /\ NoLaterThan(stamps.plan_day, now)'
    BY <1>4, <2>1, <2>3, <2>4, StampIs DEF Chronology, NoLaterThan
  <2>6. mirror # NULL /\ mirror.limit = "daily" => NoLaterThan(stamps'.plan_day, mirror.episode)
    <3>1. CASE stamps'.plan_day = stamps.plan_day
      BY <3>1 DEF Chronology
    <3>2. CASE /\ wall.episode[2] = "daily" /\ wall.episode[1] = "paid"
               /\ stamps'.plan_day = wall.episode[3]
      BY <2>1, <3>2 DEF WallSound, NoLaterThan
    <3> QED
      BY <1>4, <3>1, <3>2, StampIs
  <2> QED
    BY <2>1, <2>5, <2>6 DEF Chronology, NoLaterThan, WallSound, TouchSound, TouchOK, HasNotice
<1> QED
  BY <1>1, <1>2, <1>3, <1>4 DEF Engine

(* No more of the ledger is needed than there is. *)
LEMMA TouchStaysOK ==
  ASSUME NEW p \in Passes, TouchOK(touch[p]), Keeps(p), ledger \subseteq ledger'
  PROVE  TouchOK(touch[p])'
<1>1. ASSUME NEW i \in DOMAIN Offsets, NEW w, HasNotice(i, w) PROVE HasNotice(i, w)'
  BY <1>1 DEF HasNotice
<1> QED
  BY <1>1 DEF TouchOK, Keeps

LEMMA FollowUpSound == ASSUME TypeOK, Sound, FollowUp PROVE Sound'
<1> USE DEF Sound
<1>1. UNCHANGED <<now, window, spent, stamps, mirror, wall, told>>
  BY FollowUpLeaves DEF meters, plan, walling
<1>2. WallSound'
  BY <1>1 DEF WallSound, Unstamped, StampOf
<1>3. ASSUME \A t \in touched' : t[2] < now,
             \A p \in Passes : touch'[p] # NULL => touch'[p].window < now
      PROVE  Chronology'
  BY <1>1, <1>3 DEF Chronology, NoLaterThan
<1>4. PICK p \in Passes :
        PickTouch(p) \/ SendTouch(p) \/ SendTouchFails(p) \/ RecordSent(p) \/ Supersede(p)
  BY DEF FollowUp
<1>5. ASSUME OthersStay(p), ledger \subseteq ledger',
             touch'[p] # NULL => TouchOK(touch[p])' /\ touch'[p].window < now
      PROVE  TouchSound' /\ \A q \in Passes : touch'[q] # NULL => touch'[q].window < now
  <2>1. ASSUME NEW q \in Passes, q # p, touch'[q] # NULL
        PROVE  TouchOK(touch[q])' /\ touch'[q].window < now
    <3>1. touch'[q] = touch[q] /\ touch[q] # NULL
      BY <1>5, <2>1 DEF OthersStay
    <3>2. TouchOK(touch[q]) /\ touch[q].window < now
      BY <3>1 DEF TouchSound, Chronology
    <3>3. TouchOK(touch[q])'
      BY <1>5, <3>1, <3>2 DEF TouchOK, HasNotice
    <3> QED
      BY <3>1, <3>2, <3>3
  <2> QED
    BY <1>5, <2>1 DEF TouchSound
<1>6. CASE PickTouch(p)
  <2>1. /\ touch'[p].kind = Latest(Due) /\ touch'[p].due = Due /\ touch'[p].window = window
        /\ OthersStay(p) /\ UNCHANGED <<touched, ledger>>
        /\ Due \in SUBSET DOMAIN Offsets /\ Latest(Due) \in Due
        /\ \A i \in Due : i <= Latest(Due)
    BY <1>6, PickIs DEF PickTouch
  <2>4. window \in Nat /\ stamps.quota_100 \in Nat /\ now \in Nat /\ stamps.quota_100 >= window
    BY <1>6, DaysAreNumbers DEF PickTouch, Candidate
  <2>5. window < now
    <3>1. now - stamps.quota_100 >= Offsets[1] /\ Offsets[1] \in Nat \ {0}
      BY <1>6, OffsetsAreOrdered DEF PickTouch, Candidate
    <3> QED
      BY <2>4, <3>1
  <2>6. \A i \in DOMAIN Offsets : i <= Latest(Due) => i \in Due \/ HasNotice(i, window)
    <3> SUFFICES ASSUME NEW i \in DOMAIN Offsets, i <= Latest(Due), ~HasNotice(i, window)
                 PROVE  i \in Due
      OBVIOUS
    <3> DEFINE k == Latest(Due)
    <3>1. k \in DOMAIN Offsets /\ now - stamps.quota_100 >= Offsets[k]
      BY <2>1 DEF Due
    <3>2. Offsets[i] <= Offsets[k] /\ Offsets[i] \in Nat /\ Offsets[k] \in Nat
      BY <3>1, OffsetsAreOrdered
    <3>3. now - stamps.quota_100 >= Offsets[i]
      <4> HIDE DEF k
      <4> QED
        BY <2>4, <3>1, <3>2
    <3> QED
      BY <3>3 DEF Due
  <2>7. TouchOK(touch[p])'
    BY <2>1, <2>6 DEF TouchOK, HasNotice
  <2> QED
    BY <1>2, <1>3, <1>5, <2>1, <2>5, <2>7 DEF Chronology
<1>7. CASE SendTouch(p)
  <2>1. /\ touch[p] # NULL /\ OthersStay(p) /\ Keeps(p) /\ ledger' = ledger
        /\ touched' = touched \cup {<<touch[p].kind, touch[p].window>>}
    BY <1>7, SendIs DEF SendTouch
  <2>2. TouchOK(touch[p]) /\ touch[p].window < now
    BY <2>1 DEF TouchSound, Chronology
  <2>3. TouchOK(touch[p])' /\ touch'[p].window < now
    BY <2>1, <2>2, TouchStaysOK DEF Keeps
  <2>4. \A t \in touched' : t[2] < now
    BY <2>1, <2>2 DEF Chronology
  <2> QED
    BY <1>2, <1>3, <1>5, <2>1, <2>3, <2>4
<1>8. CASE SendTouchFails(p)
  <2>1. OthersStay(p) /\ touch'[p] = NULL /\ UNCHANGED <<ledger, touched>>
    BY <1>8, FailIs DEF SendTouchFails
  <2> QED
    BY <1>2, <1>3, <1>5, <2>1 DEF Chronology
<1>9. CASE RecordSent(p) \/ Supersede(p)
  <2>1. /\ touch[p] # NULL /\ OthersStay(p) /\ ledger \subseteq ledger'
        /\ touch'[p] # NULL => Keeps(p)
        /\ touched' = touched
    BY <1>9, RecordIs DEF RecordSent, Supersede
  <2>2. TouchOK(touch[p]) /\ touch[p].window < now
    BY <2>1 DEF TouchSound, Chronology
  <2>3. touch'[p] # NULL => TouchOK(touch[p])' /\ touch'[p].window < now
    BY <2>1, <2>2, TouchStaysOK DEF Keeps
  <2> QED
    BY <1>2, <1>3, <1>5, <2>1, <2>3 DEF Chronology
<1> QED
  BY <1>4, <1>6, <1>7, <1>8, <1>9

LEMMA WorldSound == ASSUME TypeOK, Sound, World \/ Crash PROVE Sound'
<1> USE DEF Sound
<1>1. UNCHANGED <<stamps, touched, ledger, told>> /\ (\A e \in Episodes : Unstamped(e)' = Unstamped(e))
  BY DEF World, Mirror, Open, Spend, Relieve, Relink, Midnight, Crash, walling, drain,
         Unstamped, StampOf
<1>2. CASE Mirror
  <2>1. UNCHANGED <<now, window, spent, wall, touch>>
    BY <1>2 DEF Mirror, meters, walling, drain
  <2>2. \/ mirror' = NULL
        \/ mirror'.limit = "daily" /\ mirror'.episode = now
        \/ mirror'.limit = "monthly" /\ mirror'.episode \in 0..now
    BY <1>2, PeriodStarted DEF Mirror
  <2>3. Chronology'
    BY <1>1, <2>1, <2>2, DaysAreNumbers DEF Chronology, NoLaterThan
  <2>4. wall # NULL => wall.episode[3] <= now
    BY DaysAreNumbers DEF WallSound, TypeOK, Wall, Days
  <2>5. WallSound'
    BY <1>1, <2>1, <2>2, <2>4 DEF WallSound, Unstamped, StampOf
  <2> QED
    BY <1>1, <2>1, <2>3, <2>5 DEF TouchSound, TouchOK, HasNotice
<1>3. CASE Open
  <2>1. window' = now /\ spent' = FALSE /\ UNCHANGED <<now, mirror, wall, touch>>
    BY <1>3 DEF Open, plan, walling, drain
  <2>2. Chronology'
    BY <1>1, <2>1, DaysAreNumbers, NullIsApart DEF Chronology, NoLaterThan, TypeOK
  <2>3. wall # NULL => wall.episode[3] <= now
    BY DaysAreNumbers DEF WallSound, TypeOK, Wall, Days
  <2>4. WallSound'
    BY <1>1, <2>1, <2>3 DEF WallSound, Unstamped, StampOf
  <2> QED
    BY <1>1, <2>1, <2>2, <2>4 DEF TouchSound, TouchOK, HasNotice
<1>4. CASE Spend \/ Relieve \/ Relink
  <2>1. UNCHANGED <<now, window, mirror, wall, touch>> /\ (spent' => window # NULL)
    BY <1>4 DEF Spend, Relieve, Relink, plan, meters, walling, drain, Chronology
  <2> QED
    BY <1>1, <2>1 DEF Chronology, NoLaterThan, WallSound, Unstamped, StampOf, TouchSound, TouchOK, HasNotice
<1>5. CASE Midnight
  <2>1. now' = now + 1 /\ UNCHANGED <<window, spent, mirror, wall, touch>>
    BY <1>5 DEF Midnight, plan, walling, drain
  <2>2. Chronology'
    <3>1. \A t \in touched : t[2] \in Nat
      BY DEF TypeOK, Days
    <3>2. \A p \in Passes : touch[p] # NULL => touch[p].window \in Nat
      BY DEF TypeOK, Touch, Days
    <3> QED
      BY <1>1, <2>1, <3>1, <3>2, DaysAreNumbers DEF Chronology, NoLaterThan
  <2>3. WallSound'
    <3>1. wall # NULL => wall.day \in Nat
      BY DEF TypeOK, Wall, Days
    <3> QED
      BY <1>1, <2>1, <3>1, DaysAreNumbers DEF WallSound, Unstamped, StampOf
  <2> QED
    BY <1>1, <2>1, <2>2, <2>3 DEF TouchSound, TouchOK, HasNotice
<1>6. CASE Crash
  <2>1. /\ wall' \in {NULL, wall} /\ \A p \in Passes : touch'[p] \in {NULL, touch[p]}
        /\ UNCHANGED <<now, window, spent, mirror>>
    BY <1>6, CrashIs, OthersLeave DEF plan, meters
  <2>2. Chronology'
    BY <1>1, <2>1 DEF Chronology, NoLaterThan
  <2>3. WallSound'
    BY <1>1, <2>1 DEF WallSound, Unstamped, StampOf
  <2>4. TouchSound'
    BY <1>1, <2>1 DEF TouchSound, TouchOK, HasNotice
  <2> QED
    BY <2>2, <2>3, <2>4
<1> QED
  BY <1>2, <1>3, <1>4, <1>5, <1>6 DEF World

---------------------------------------------------------------------------
(* What could be told again *)

LEMMA AllIsFinite ==
  /\ IsFiniteSet(Episodes)
  /\ IsFiniteSet(Days)
  /\ IsFiniteSet((DOMAIN Offsets) \X Days)
<1>1. IsFiniteSet(Days)
  BY WallNoticeAssumption, FS_Interval DEF Days
<1>2. IsFiniteSet({"free", "paid"}) /\ IsFiniteSet({"monthly", "daily"})
  <2>1. IsFiniteSet({"free"}) /\ IsFiniteSet({"monthly"})
    BY FS_Singleton
  <2>2. IsFiniteSet({"free"} \cup {"paid"}) /\ IsFiniteSet({"monthly"} \cup {"daily"})
    BY <2>1, FS_AddElement
  <2>3. /\ {"free"} \cup {"paid"} = {"free", "paid"}
        /\ {"monthly"} \cup {"daily"} = {"monthly", "daily"}
    OBVIOUS
  <2> QED
    BY <2>2, <2>3
<1>3. IsFiniteSet(Episodes)
  <2>1. IsFiniteSet({"monthly", "daily"} \X Days)
    BY <1>1, <1>2, FS_Product
  <2>2. IsFiniteSet({"free", "paid"} \X ({"monthly", "daily"} \X Days))
    BY <1>2, <2>1, FS_Product
  <2> DEFINE S == {"free", "paid"} \X ({"monthly", "daily"} \X Days)
             f == [x \in S |-> <<x[1], x[2][1], x[2][2]>>]
  <2>3. ASSUME NEW a \in {"free", "paid"}, NEW b \in {"monthly", "daily"}, NEW d \in Days
        PROVE  \E x \in S : f[x] = <<a, b, d>>
    <3>1. <<a, <<b, d>>>> \in S
      OBVIOUS
    <3>2. f[<<a, <<b, d>>>>] = <<a, b, d>>
      BY <3>1
    <3> QED
      BY <3>1, <3>2
  <2>4. f \in [S -> Episodes]
    BY DEF Episodes
  <2> HIDE DEF f, S
  <2>5. \A e \in Episodes : \E x \in S : f[x] = e
    BY <2>3 DEF Episodes
  <2>6. f \in Surjection(S, Episodes)
    BY <2>4, <2>5 DEF Surjection
  <2>7. IsFiniteSet(S)
    BY <2>2 DEF S
  <2> QED
    BY <2>6, <2>7, FS_Surjection
<1>4. IsFiniteSet((DOMAIN Offsets) \X Days)
  <2>1. IsFiniteSet(DOMAIN Offsets)
    BY OffsetsAreOrdered, FS_Interval
  <2> QED
    BY <1>1, <2>1, FS_Product
<1> QED
  BY <1>1, <1>3, <1>4

LEMMA LooseIsFinite ==
  ASSUME TypeOK
  PROVE  /\ IsFiniteSet(LooseWalls) /\ Cardinality(LooseWalls) \in Nat
         /\ \A last \in BOOLEAN :
              IsFiniteSet(LooseOnes(last)) /\ Cardinality(LooseOnes(last)) \in Nat
<1>1. /\ LooseWalls \subseteq Episodes /\ LooseTouches \subseteq (DOMAIN Offsets) \X Days
      /\ LooseWindows \subseteq Days
  BY DEF TypeOK, LooseWalls, LooseTouches, LooseWindows
<1>2. IsFiniteSet(LooseWalls) /\ IsFiniteSet(LooseTouches) /\ IsFiniteSet(LooseWindows)
  BY <1>1, AllIsFinite, FS_Subset
<1> QED
  BY <1>2, FS_CardinalityType DEF LooseOnes

(* At most one of those about to send does not wait. *)
LEMMA WaitsIs ==
  ASSUME NEW last \in BOOLEAN
  PROVE  /\ IsFiniteSet(Sending) /\ Cardinality(Sending) \in Nat
         /\ Waits(last) \in {Cardinality(Sending), Cardinality(Sending) - 1}
         /\ Waits(last) \in Nat
         /\ SomeCovered(last) => Waits(last) = Cardinality(Sending) - 1
         /\ ~SomeCovered(last) => Waits(last) = Cardinality(Sending)
<1>1. IsFiniteSet(Sending) /\ Cardinality(Sending) \in Nat
  <2>1. Sending \subseteq Passes /\ IsFiniteSet(Passes)
    BY WallNoticeAssumption DEF Sending
  <2> QED
    BY <2>1, FS_Subset, FS_CardinalityType
<1>2. SomeCovered(last) => Cardinality(Sending) # 0
  <2>1. SomeCovered(last) => Sending # {}
    BY DEF SomeCovered
  <2> QED
    BY <1>1, <2>1, FS_EmptySet
<1> QED
  BY <1>1, <1>2 DEF Waits

---------------------------------------------------------------------------
(* What a repetition costs *)

LEMMA OneOut ==
  ASSUME NEW T, IsFiniteSet(T), NEW x \in T, NEW S, S \subseteq T \ {x}
  PROVE  Cardinality(S) + 1 <= Cardinality(T)
<1>1. /\ IsFiniteSet(T \ {x}) /\ Cardinality(T \ {x}) = Cardinality(T) - 1
      /\ Cardinality(T) \in Nat
  BY FS_RemoveElement, FS_CardinalityType
<1>2. Cardinality(S) <= Cardinality(T \ {x}) /\ Cardinality(S) \in Nat
  BY <1>1, FS_Subset, FS_CardinalityType
<1> QED
  BY <1>1, <1>2

LEMMA SomeIn ==
  ASSUME NEW T, IsFiniteSet(T), NEW U, IsFiniteSet(U), NEW S, S \subseteq T \cup U
  PROVE  Cardinality(S) <= Cardinality(T) + Cardinality(U)
<1>1. /\ IsFiniteSet(T \cup U) /\ Cardinality(T) \in Nat /\ Cardinality(U) \in Nat
      /\ Cardinality(T \cup U) = Cardinality(T) + Cardinality(U) - Cardinality(T \cap U)
  BY FS_Union, FS_CardinalityType
<1>2. IsFiniteSet(T \cap U) /\ Cardinality(T \cap U) \in Nat
  BY FS_Intersection, FS_CardinalityType
<1>3. Cardinality(S) <= Cardinality(T \cup U) /\ Cardinality(S) \in Nat
  BY <1>1, FS_Subset, FS_CardinalityType
<1> QED
  BY <1>1, <1>2, <1>3

(* The follow-ups and the passes are as they were. *)
Rests(last) == LooseOnes(last)' = LooseOnes(last) /\ Waits(last)' = Waits(last)

LEMMA DrainRests ==
  ASSUME UNCHANGED <<touch, touched, ledger>>, NEW last \in BOOLEAN
  PROVE  Rests(last)
<1>1. LooseTouches' = LooseTouches
  BY DEF LooseTouches, Loose, Recording, HasNotice, OutOfOrder
<1>2. LooseOnes(last)' = LooseOnes(last)
  BY <1>1 DEF LooseOnes, LooseWindows
<1>3. Sending' = Sending
  BY DEF Sending, At
<1>4. SomeCovered(last)' <=> SomeCovered(last)
  BY <1>1, <1>3 DEF SomeCovered, Covered, OutOfOrder
<1> QED
  BY <1>2, <1>3, <1>4 DEF Rests, Waits

(* A notice is told again at the expense of a loose one. *)
LEMMA EngineCosts ==
  ASSUME TypeOK, Sound, Engine
  PROVE  again' + Cardinality(LooseWalls') <= again + Cardinality(LooseWalls)
<1>0. /\ IsFiniteSet(LooseWalls) /\ Cardinality(LooseWalls) \in Nat /\ again \in Nat
  BY LooseIsFinite DEF TypeOK
<1>1. ASSUME LooseWalls' \subseteq LooseWalls
      PROVE  Cardinality(LooseWalls') \in Nat /\ Cardinality(LooseWalls') <= Cardinality(LooseWalls)
  BY <1>0, <1>1, FS_Subset, FS_CardinalityType
<1>2. CASE Refuse \/ SendWallFails
  <2>1. UNCHANGED <<again, told, stamps>> /\ \A e \in Episodes : ~Stamping(e)
    BY <1>2, NullIsApart DEF Refuse, SendWallFails, Stamping
  <2>2. LooseWalls' \subseteq LooseWalls
    BY <2>1 DEF LooseWalls, Unstamped, StampOf, TypeOK
  <2> QED
    BY <1>0, <1>1, <2>1, <2>2
<1>3. CASE SendWall
  <2> DEFINE e == wall.episode
  <2>1. /\ wall # NULL /\ wall.at = "sending" /\ wall \in Wall /\ wall' \in Wall
        /\ wall'.at = "stamping" /\ wall'.episode = e
        /\ told' = told \cup {e} /\ UNCHANGED stamps
        /\ again' = IF e \in told THEN again + 1 ELSE again
    BY <1>3 DEF SendWall, TypeOK, Wall
  <2>2. Stamping(e)' /\ \A x \in told : ~Stamping(x)
    BY <2>1, NullIsApart DEF Stamping
  <2>3. LooseWalls' \subseteq LooseWalls \ {e}
    BY <2>1, <2>2 DEF LooseWalls, Unstamped, StampOf
  <2>4. e \in told => e \in LooseWalls
    BY <2>1, <2>2 DEF Sound, WallSound, LooseWalls
  <2>5. CASE e \in told
    <3>1. Cardinality(LooseWalls') + 1 <= Cardinality(LooseWalls)
      BY <1>0, <2>3, <2>4, <2>5, OneOut
    <3>2. Cardinality(LooseWalls') \in Nat
      BY <1>1, <2>3
    <3> QED
      BY <1>0, <2>1, <2>5, <3>1, <3>2
  <2>6. CASE e \notin told
    <3>1. again' = again /\ LooseWalls' \subseteq LooseWalls
      BY <2>1, <2>3, <2>6
    <3> QED
      BY <1>0, <1>1, <3>1
  <2> QED
    BY <2>5, <2>6
<1>4. CASE Stamp
  <2>1. UNCHANGED <<again, told>>
    BY <1>4 DEF Stamp
  <2>2. LooseWalls' \subseteq LooseWalls
    <3> SUFFICES ASSUME NEW e \in LooseWalls' PROVE e \in LooseWalls
      OBVIOUS
    <3>1. e \in told /\ e \in Episodes /\ Unstamped(e)'
      BY <2>1 DEF LooseWalls, TypeOK
    <3>2. Unstamped(e) /\ e # wall.episode
      BY <1>4, <3>1, StampsForward DEF Sound
    <3> QED
      BY <3>1, <3>2 DEF LooseWalls, Stamping
  <2> QED
    BY <1>0, <1>1, <2>1, <2>2
<1> QED
  BY <1>2, <1>3, <1>4 DEF Engine

(* What a step of a pass does to the loose ones. *)
LEMMA SameLoose ==
  ASSUME TypeOK, NEW p \in Passes, OthersStay(p), UNCHANGED <<touched, ledger>>,
         touch[p] = NULL \/ touch[p].at = "sending",
         touch'[p] = NULL \/ touch'[p].at = "sending"
  PROVE  LooseTouches' = LooseTouches
<1>1. \A i, w : Recording(i, w)' <=> Recording(i, w)
  BY DEF Recording, OthersStay
<1>2. \A i, w : Loose(i, w)' <=> Loose(i, w)
  BY DEF Loose, HasNotice, OutOfOrder
<1> QED
  BY <1>1, <1>2 DEF LooseTouches

(* Whose follow-up is covered, while the loose ones are what they were. *)
LEMMA StaysCovered ==
  ASSUME LooseTouches' = LooseTouches, touched' = touched,
         NEW q \in Passes, touch'[q] = touch[q], NEW last \in BOOLEAN
  PROVE  Covered(touch[q], last)' <=> Covered(touch[q], last)
  BY DEF Covered, OutOfOrder

(* A pass that stops waiting, for whatever reason. *)
LEMMA OneLess ==
  ASSUME NEW last \in BOOLEAN, NEW p \in Sending, Sending' = Sending \ {p}
  PROVE  /\ Waits(last)' \in Nat /\ Waits(last)' <= Cardinality(Sending) - 1
         /\ SomeCovered(last)' => Waits(last)' = Cardinality(Sending) - 2
         /\ Waits(last)' <= Waits(last)
<1>1. IsFiniteSet(Sending) /\ Cardinality(Sending) \in Nat
      /\ Waits(last) >= Cardinality(Sending) - 1 /\ Waits(last) \in Nat
  BY WaitsIs
<1>2. Cardinality(Sending') = Cardinality(Sending) - 1
  BY <1>1, FS_RemoveElement
<1>3. SomeCovered(last)' => Cardinality(Sending') # 0
  <2>1. SomeCovered(last)' => Sending' # {}
    BY DEF SomeCovered
  <2>2. IsFiniteSet(Sending')
    BY <1>1, FS_Subset
  <2> QED
    BY <2>1, <2>2, FS_EmptySet
<1>4. Cardinality(Sending') \in Nat
  BY <1>1, FS_Subset, FS_CardinalityType
<1>5. Waits(last)' = Cardinality(Sending') - (IF SomeCovered(last)' THEN 1 ELSE 0)
  BY DEF Waits
<1> QED
  BY <1>1, <1>2, <1>3, <1>4, <1>5

(* The loose ones shrink, at least by what was sent. *)
LEMMA LooseShrinks ==
  ASSUME TypeOK, LooseTouches' \subseteq LooseTouches, NEW last \in BOOLEAN
  PROVE  /\ Cardinality(LooseOnes(last)') \in Nat
         /\ Cardinality(LooseOnes(last)') <= Cardinality(LooseOnes(last))
<1>1. LooseOnes(last)' \subseteq LooseOnes(last)
  BY DEF LooseOnes, LooseWindows
<1> QED
  BY <1>1, LooseIsFinite, FS_Subset, FS_CardinalityType

LEMMA OneLoosened ==
  ASSUME TypeOK, LooseTouches' \subseteq LooseTouches, NEW last \in BOOLEAN,
         NEW i \in DOMAIN Offsets, NEW w \in Days,
         <<i, w>> \in LooseTouches, <<i, w>> \notin LooseTouches',
         last => \A j \in DOMAIN Offsets : <<j, w>> \notin LooseTouches'
  PROVE  Cardinality(LooseOnes(last)') + 1 <= Cardinality(LooseOnes(last))
<1>1. IsFiniteSet(LooseOnes(last))
  BY LooseIsFinite
<1>2. CASE last
  <2>1. w \in LooseOnes(last) /\ LooseOnes(last)' \subseteq LooseOnes(last) \ {w}
    BY <1>2 DEF LooseOnes, LooseWindows
  <2> QED
    BY <1>1, <2>1, OneOut
<1>3. CASE ~last
  <2> DEFINE x == <<i, w>>
  <2>1. x \in LooseOnes(last) /\ LooseOnes(last)' \subseteq LooseOnes(last) \ {x}
    BY <1>3 DEF LooseOnes
  <2> HIDE DEF x
  <2> QED
    BY <1>1, <2>1, OneOut
<1> QED
  BY <1>2, <1>3

(* A follow-up leaves the loose ones when it, or a later one, is sent. *)
LEMMA SendLoose ==
  ASSUME TypeOK, NEW p \in Passes, SendTouch(p)
  PROVE  LooseTouches' =
           {t \in LooseTouches : ~(t[2] = touch[p].window /\ t[1] <= touch[p].kind)}
<1> DEFINE k == touch[p].kind
           w == touch[p].window
<1>1. /\ OthersStay(p) /\ touch[p] # NULL /\ touch[p].at = "sending" /\ touch'[p] # NULL
      /\ touch'[p].at = "recording" /\ touch'[p].kind = k /\ touch'[p].window = w
      /\ k \in DOMAIN Offsets /\ w \in Days
  BY SendIs, NullIsApart DEF Keeps
<1>2. touched' = touched \cup {<<k, w>>} /\ ledger' = ledger
  BY DEF SendTouch
<1> HIDE DEF k, w
<1>3. \A i, x : Recording(i, x)' <=> Recording(i, x) \/ (x = w /\ i <= k)
  BY <1>1 DEF Recording, OthersStay
<1>4. \A i \in DOMAIN Offsets, x \in Days :
        OutOfOrder(i, x)' <=> OutOfOrder(i, x) \/ (x = w /\ k >= i)
  BY <1>1, <1>2 DEF OutOfOrder
<1>5. \A i, x : HasNotice(i, x)' <=> HasNotice(i, x)
  BY <1>2 DEF HasNotice
<1>6. \A i \in DOMAIN Offsets : i \in Nat
  BY OffsetsAreOrdered
<1>7. ASSUME NEW i \in DOMAIN Offsets, NEW x \in Days
      PROVE  <<i, x>> \in LooseTouches' <=> <<i, x>> \in LooseTouches /\ ~(x = w /\ i <= k)
  <2>1. k >= i <=> i <= k
    BY <1>1, <1>6
  <2> QED
    BY <1>3, <1>4, <1>5, <2>1 DEF LooseTouches, Loose
<1>8. \A t \in LooseTouches \cup LooseTouches' :
        \E i \in DOMAIN Offsets, x \in Days : t = <<i, x>>
  BY DEF LooseTouches
<1>9. \A t : t \in LooseTouches' <=> t \in LooseTouches /\ ~(t[2] = w /\ t[1] <= k)
  BY <1>7, <1>8
<1> QED
  BY <1>9 DEF k, w

(* A repetition is paid for by a loose one, or by one that waited. *)
LEMMA SendCosts ==
  ASSUME TypeOK, Sound, NEW p \in Passes, SendTouch(p), NEW last \in BOOLEAN
  PROVE  again' + Cardinality(LooseOnes(last)') + Waits(last)'
           <= again + Cardinality(LooseOnes(last)) + Waits(last)
<1> DEFINE k == touch[p].kind
           w == touch[p].window
           L == Cardinality(LooseOnes(last))
           M == Cardinality(LooseOnes(last)')
           n == Cardinality(Sending)
<1>1. /\ OthersStay(p) /\ touch[p] # NULL /\ touch[p].at = "sending" /\ touch'[p] # NULL
      /\ touch'[p].at = "recording" /\ k \in DOMAIN Offsets /\ w \in Days
  BY SendIs, NullIsApart DEF Keeps
<1>2. /\ touched' = touched \cup {<<k, w>>}
      /\ again' = IF OutOfOrder(k, w) THEN again + 1 ELSE again
  BY DEF SendTouch
<1>3. LooseTouches' = {t \in LooseTouches : ~(t[2] = w /\ t[1] <= k)}
  BY SendLoose
<1>4. p \in Sending /\ Sending' = Sending \ {p}
  BY <1>1 DEF Sending, At, OthersStay
<1>5. /\ Waits(last)' \in Nat /\ Waits(last)' <= n - 1 /\ Waits(last)' <= Waits(last)
      /\ SomeCovered(last)' => Waits(last)' = n - 2
  BY <1>4, OneLess
<1>6. /\ n \in Nat /\ Waits(last) \in Nat
      /\ SomeCovered(last) => Waits(last) = n - 1
      /\ ~SomeCovered(last) => Waits(last) = n
  BY WaitsIs
<1>7. L \in Nat /\ M \in Nat /\ M <= L /\ again \in Nat
  BY <1>3, LooseShrinks, LooseIsFinite DEF TypeOK
<1>8. \A i \in DOMAIN Offsets : i \in Nat
  BY OffsetsAreOrdered
<1>9. ASSUME NEW i \in DOMAIN Offsets, i <= k, <<i, w>> \in LooseTouches,
             last => \A j \in DOMAIN Offsets : <<j, w>> \in LooseTouches => j <= i
      PROVE  M + 1 <= L
  <2>1. <<i, w>> \notin LooseTouches' /\ LooseTouches' \subseteq LooseTouches
    BY <1>3, <1>9
  <2>2. ASSUME last, NEW j \in DOMAIN Offsets PROVE <<j, w>> \notin LooseTouches'
    <3>1. <<j, w>> \in LooseTouches => j <= k
      BY <1>1, <1>8, <1>9, <2>2
    <3> QED
      BY <1>3, <3>1
  <2> HIDE DEF k, w
  <2> QED
    BY <1>1, <1>9, <2>1, <2>2, OneLoosened
<1>10. CASE ~OutOfOrder(k, w)
  <2>1. again' = again
    BY <1>2, <1>10
  <2> HIDE DEF k, w, L, M, n
  <2>2. again + M + Waits(last)' <= again + L + Waits(last)
    BY <1>5, <1>6, <1>7
  <2> QED
    BY <2>1, <2>2 DEF L, M
<1>11. CASE OutOfOrder(k, w) /\ Covered(touch[p], last)
  <2>1. again' = again + 1
    BY <1>2, <1>11
  <2>2. M + 1 <= L
    <3>1. /\ <<k, w>> \in LooseTouches
          /\ last => \A i \in DOMAIN Offsets : <<i, w>> \in LooseTouches => i <= k
      BY <1>11 DEF Covered
    <3>2. k <= k
      BY <1>1, <1>8
    <3> QED
      BY <1>1, <1>9, <3>1, <3>2
  <2> HIDE DEF k, w, L, M, n
  <2>3. again + 1 + M + Waits(last)' <= again + L + Waits(last)
    BY <1>5, <1>6, <1>7, <2>2
  <2> QED
    BY <2>1, <2>3 DEF L, M
<1>12. CASE OutOfOrder(k, w) /\ ~Covered(touch[p], last)
  <2>1. again' = again + 1
    BY <1>2, <1>12
  <2>2. Waits(last)' + 1 <= Waits(last) \/ M + 1 <= L
    <3>1. CASE ~SomeCovered(last) \/ SomeCovered(last)'
      BY <1>5, <1>6, <3>1
    <3>2. CASE SomeCovered(last) /\ ~SomeCovered(last)'
      <4>1. PICK q \in Sending : Covered(touch[q], last)
        BY <3>2 DEF SomeCovered
      <4>2. q # p /\ q \in Passes /\ touch[q] # NULL /\ touch'[q] = touch[q] /\ q \in Sending'
        BY <1>1, <1>4, <1>12, <4>1 DEF Sending, At, OthersStay
      <4>3. ~Covered(touch[q], last)'
        BY <3>2, <4>2 DEF SomeCovered
      <4> DEFINE i == touch[q].kind
                 x == touch[q].window
      <4>4. i \in DOMAIN Offsets /\ x \in Days
        BY <4>2 DEF TypeOK, Touch
      <4>5. OutOfOrder(i, x)
        <5>1. SUFFICES ASSUME ~OutOfOrder(i, x) PROVE FALSE
          OBVIOUS
        <5>2. OutOfOrder(i, x)'
          BY <4>2, <4>3 DEF Covered
        <5>3. x = w /\ k >= i
          <6>1. touch'[q] = touch[q]
            BY <4>2
          <6>2. PICK j \in DOMAIN Offsets : j >= i /\ <<j, x>> \in touched'
            BY <5>2, <6>1 DEF OutOfOrder
          <6>3. <<j, x>> \notin touched
            BY <5>1, <6>2 DEF OutOfOrder
          <6> HIDE DEF i, x, k, w
          <6> QED
            BY <1>2, <6>2, <6>3
        <5>4. PICK j \in DOMAIN Offsets : j >= k /\ <<j, w>> \in touched
          BY <1>12 DEF OutOfOrder
        <5>5. j >= i
          <6> HIDE DEF i, x, k, w
          <6> QED
            BY <1>1, <1>8, <4>4, <5>3, <5>4
        <5> QED
          BY <5>1, <5>3, <5>4, <5>5 DEF OutOfOrder
      <4>6. /\ <<i, x>> \in LooseTouches
            /\ last => \A j \in DOMAIN Offsets : <<j, x>> \in LooseTouches => j <= i
        BY <4>1, <4>5 DEF Covered
      <4>7. <<i, x>> \notin LooseTouches'
        <5>1. SUFFICES ASSUME <<i, x>> \in LooseTouches' PROVE Covered(touch[q], last)'
          BY <4>3
        <5>2. last => \A j \in DOMAIN Offsets : <<j, x>> \in LooseTouches' => j <= i
          BY <1>3, <4>6
        <5> QED
          BY <4>2, <5>1, <5>2 DEF Covered
      <4>8. x = w /\ i <= k
        BY <1>3, <4>6, <4>7
      <4> HIDE DEF i, x, k, w, M, L
      <4> QED
        BY <1>9, <4>4, <4>6, <4>8
    <3> QED
      BY <3>1, <3>2
  <2> HIDE DEF k, w, L, M, n
  <2>3. again + 1 + M + Waits(last)' <= again + L + Waits(last)
    BY <1>5, <1>6, <1>7, <2>2
  <2> QED
    BY <2>1, <2>3 DEF L, M
<1> QED
  BY <1>10, <1>11, <1>12

(* On a chat that has not come back from a plan, what is loose is due, so  *)
(* that what is picked is the last of it.                                  *)
LEMMA PickIsLast ==
  ASSUME TypeOK, FirstStay, links < 2, NEW p \in Passes, PickTouch(p),
         NEW i \in DOMAIN Offsets, <<i, window>> \in LooseTouches
  PROVE  i <= Latest(Due)
<1>1. links = 0
  <2>1. links \in Nat /\ ~paid
    BY WallNoticeAssumption DEF TypeOK, PickTouch, Candidate
  <2> QED
    BY <2>1 DEF FirstStay
<1>2. stamps.quota_100 # NULL /\ Latest(Due) \in Due /\ \A j \in Due : j <= Latest(Due)
  BY PickIs DEF PickTouch, Candidate
<1>3. ~HasNotice(i, window) /\ \E j \in DOMAIN Offsets : j >= i /\ <<j, window>> \in touched
  BY DEF LooseTouches, Loose, OutOfOrder
<1>4. PICK j \in DOMAIN Offsets : j >= i /\ <<j, window>> \in touched
  BY <1>3
<1>5. DueSince(j, window)
  BY <1>1, <1>4 DEF FirstStay
<1>6. i \in Nat /\ j \in Nat
  BY OffsetsAreOrdered
<1>7. /\ stamps.quota_100 \in Nat /\ now \in Nat /\ Offsets[i] \in Nat /\ Offsets[j] \in Nat
      /\ Offsets[i] <= Offsets[j]
  BY <1>2, <1>4, <1>6, DaysAreNumbers, OffsetsAreOrdered
<1>8. now - stamps.quota_100 >= Offsets[i]
  BY <1>5, <1>7 DEF DueSince
<1>9. i \in Due
  BY <1>3, <1>8 DEF Due
<1> QED
  BY <1>2, <1>9

(* A pass that begins alone is covered, and one that does not is counted. *)
LEMMA PickCosts ==
  ASSUME TypeOK, TypeOK', FirstStay, NEW p \in Passes, PickTouch(p), NEW last \in BOOLEAN,
         last => links < 2
  PROVE  /\ again' = again /\ LooseOnes(last)' = LooseOnes(last)
         /\ Waits(last)' + overlaps <= Waits(last) + overlaps'
<1>1. /\ OthersStay(p) /\ touch[p] = NULL /\ touch'[p] # NULL /\ touch'[p].at = "sending"
      /\ touch'[p].kind = Latest(Due) /\ touch'[p].window = window
      /\ Latest(Due) \in Due /\ Due \subseteq DOMAIN Offsets /\ window \in Days
  BY PickIs, NullIsApart
<1>2. UNCHANGED <<touched, ledger, again>>
  BY DEF PickTouch
<1>3. LooseTouches' = LooseTouches
  BY <1>1, <1>2, SameLoose
<1>4. LooseOnes(last)' = LooseOnes(last)
  BY <1>3 DEF LooseOnes, LooseWindows
<1>5. p \notin Sending /\ Sending' = Sending \cup {p}
  BY <1>1 DEF Sending, At, OthersStay
<1>6. /\ IsFiniteSet(Sending) /\ Cardinality(Sending) \in Nat /\ Waits(last) \in Nat
      /\ Waits(last) >= Cardinality(Sending) - 1
      /\ SomeCovered(last) => Waits(last) = Cardinality(Sending) - 1
      /\ ~SomeCovered(last) => Waits(last) = Cardinality(Sending)
  BY WaitsIs
<1>7. Cardinality(Sending') = Cardinality(Sending) + 1
  BY <1>5, <1>6, FS_AddElement
<1>8. Waits(last)' = Cardinality(Sending') - (IF SomeCovered(last)' THEN 1 ELSE 0)
  BY DEF Waits
<1>9. overlaps \in Nat
  BY WallNoticeAssumption DEF TypeOK
<1>10. CASE UnderWay = {}
  <2>1. \A q \in Passes : touch[q] = NULL
    BY <1>10 DEF UnderWay
  <2>2. Cardinality(Sending) = 0 /\ overlaps' = overlaps
    <3>1. Sending = {}
      BY <2>1 DEF Sending, At
    <3> QED
      BY <1>10, <3>1, FS_EmptySet DEF PickTouch
  <2>3. Covered(touch[p], last)'
    <3> DEFINE k == Latest(Due)
    <3>1. ~HasNotice(k, window) /\ \A i, w : ~Recording(i, w)
      BY <1>1, <2>1 DEF Due, Recording
    <3>2. ASSUME OutOfOrder(k, window) PROVE <<k, window>> \in LooseTouches
      BY <1>1, <3>1, <3>2 DEF LooseTouches, Loose
    <3>3. last => \A i \in DOMAIN Offsets : <<i, window>> \in LooseTouches => i <= k
      BY PickIsLast
    <3>4. touch'[p].kind = k /\ touch'[p].window = window
      BY <1>1
    <3>5. OutOfOrder(touch[p].kind, touch[p].window)' <=> OutOfOrder(k, window)
      <4> HIDE DEF k
      <4> QED
        BY <1>2, <3>4 DEF OutOfOrder
    <3> HIDE DEF k
    <3> QED
      BY <1>3, <3>2, <3>3, <3>4, <3>5 DEF Covered
  <2>4. SomeCovered(last)'
    BY <1>5, <2>3 DEF SomeCovered
  <2> QED
    BY <1>2, <1>4, <1>6, <1>7, <1>8, <1>9, <2>2, <2>4
<1>11. CASE UnderWay # {}
  <2>1. overlaps' = overlaps + 1
    BY <1>11 DEF PickTouch
  <2>2. SomeCovered(last) => SomeCovered(last)'
    <3> SUFFICES ASSUME NEW q \in Sending, Covered(touch[q], last) PROVE SomeCovered(last)'
      BY DEF SomeCovered
    <3>1. q \in Passes /\ q # p /\ touch'[q] = touch[q] /\ q \in Sending'
      BY <1>1, <1>5 DEF Sending, OthersStay
    <3>2. Covered(touch[q], last)'
      BY <1>2, <1>3, <3>1, StaysCovered
    <3> QED
      BY <3>1, <3>2 DEF SomeCovered
  <2> QED
    BY <1>2, <1>4, <1>6, <1>7, <1>8, <1>9, <2>1, <2>2
<1> QED
  BY <1>10, <1>11

(* A pass that gives up, or dies, before it sends. *)
LEMMA DropCosts ==
  ASSUME TypeOK, NEW p \in Passes, OthersStay(p), UNCHANGED <<touched, ledger>>,
         touch[p] # NULL, touch[p].at = "sending", touch'[p] = NULL, NEW last \in BOOLEAN
  PROVE  LooseOnes(last)' = LooseOnes(last) /\ Waits(last)' <= Waits(last)
<1>1. LooseTouches' = LooseTouches
  BY SameLoose
<1>2. p \in Sending /\ Sending' = Sending \ {p}
  BY DEF Sending, At, OthersStay
<1> QED
  BY <1>1, <1>2, OneLess DEF LooseOnes, LooseWindows

(* What is recorded was about to be. *)
LEMMA RecordCosts ==
  ASSUME TypeOK, Sound, NEW p \in Passes, RecordSent(p) \/ Supersede(p), NEW last \in BOOLEAN
  PROVE  Rests(last) /\ again' = again
<1> DEFINE k == touch[p].kind
           w == touch[p].window
<1>1. /\ OthersStay(p) /\ touch[p] # NULL /\ touch[p].at # "sending"
      /\ k \in DOMAIN Offsets /\ w \in Days
      /\ touch[p].due \subseteq DOMAIN Offsets
      /\ \/ touch'[p] = NULL /\ ledger' = ledger \cup (touch[p].due \X {w})
         \/ /\ touch'[p] # NULL /\ Keeps(p) /\ touch'[p].at = "superseding"
            /\ ledger' = ledger \cup ({k} \X {w})
  BY RecordIs
<1>2. touched' = touched /\ again' = again
  BY DEF RecordSent, Supersede
<1>3. /\ k \in touch[p].due /\ \A i \in touch[p].due : i <= k
      /\ \A i \in DOMAIN Offsets : i <= k => i \in touch[p].due \/ HasNotice(i, w)
  BY <1>1 DEF Sound, TouchSound, TouchOK
<1>4. ASSUME NEW i \in DOMAIN Offsets, NEW x \in Days
      PROVE  Loose(i, x)' /\ ~Recording(i, x)' <=> Loose(i, x) /\ ~Recording(i, x)
  <2>1. OutOfOrder(i, x)' <=> OutOfOrder(i, x)
    BY <1>2 DEF OutOfOrder
  <2>2. x = w /\ i <= k => Recording(i, x)
    BY <1>1 DEF Recording
  <2>3. ~(x = w /\ i <= k) => (Recording(i, x)' <=> Recording(i, x))
    BY <1>1 DEF Recording, OthersStay, Keeps
  <2>4. ~(x = w /\ i <= k) => (HasNotice(i, x)' <=> HasNotice(i, x))
    <3>1. k <= k
      BY <1>1, OffsetsAreOrdered
    <3> QED
      BY <1>1, <1>3, <3>1 DEF HasNotice
  <2>5. x = w /\ i <= k => HasNotice(i, x)' \/ Recording(i, x)'
    <3>1. CASE touch'[p] = NULL /\ ledger' = ledger \cup (touch[p].due \X {w})
      BY <1>3, <3>1 DEF HasNotice
    <3>2. CASE touch'[p] # NULL /\ Keeps(p) /\ touch'[p].at = "superseding"
      BY <3>2 DEF Recording, Keeps
    <3> QED
      BY <1>1, <3>1, <3>2
  <2> QED
    BY <2>1, <2>2, <2>3, <2>4, <2>5 DEF Loose
<1>5. LooseTouches' = LooseTouches
  <2> HIDE DEF k, w
  <2>1. \A t \in (DOMAIN Offsets) \X Days : t[1] \in DOMAIN Offsets /\ t[2] \in Days
    OBVIOUS
  <2> QED
    BY <1>4, <2>1 DEF LooseTouches
<1>6. Sending' = Sending
  BY <1>1 DEF Sending, At, OthersStay
<1>7. \A q \in Sending : touch'[q] = touch[q] /\ q \in Passes
  BY <1>1 DEF Sending, At, OthersStay
<1>8. SomeCovered(last)' <=> SomeCovered(last)
  <2>1. \A q \in Sending : Covered(touch[q], last)' <=> Covered(touch[q], last)
    BY <1>2, <1>5, <1>7, StaysCovered
  <2> QED
    BY <1>6, <2>1 DEF SomeCovered
<1> QED
  BY <1>2, <1>5, <1>6, <1>8 DEF Rests, Waits, LooseOnes, LooseWindows

(* A pass that dies between a send and its record loosens the follow-ups   *)
(* of its window.                                                          *)
LEMMA DeathCosts ==
  ASSUME TypeOK, TypeOK', NEW p \in Passes, OthersStay(p), UNCHANGED <<touched, ledger>>,
         touch[p] # NULL, touch[p].at # "sending", touch'[p] = NULL, NEW last \in BOOLEAN
  PROVE  Cardinality(LooseOnes(last)') + Waits(last)'
           <= Cardinality(LooseOnes(last)) + Waits(last) + (IF last THEN 1 ELSE Len(Offsets))
<1> DEFINE w == touch[p].window
           L == Cardinality(LooseOnes(last))
           M == Cardinality(LooseOnes(last)')
           n == Cardinality(Sending)
<1>1. w \in Days
  BY DEF TypeOK, Touch
<1>2. LooseTouches \subseteq LooseTouches'
  BY DEF LooseTouches, Loose, Recording, HasNotice, OutOfOrder, OthersStay
<1>3. LooseTouches' \subseteq LooseTouches \cup ((DOMAIN Offsets) \X {w})
  BY DEF LooseTouches, Loose, Recording, HasNotice, OutOfOrder, OthersStay
<1>4. Sending' = Sending /\ \A q \in Sending : touch'[q] = touch[q]
  BY DEF Sending, At, OthersStay
<1>5. /\ n \in Nat /\ Waits(last) \in Nat /\ Waits(last) \in {n, n - 1}
      /\ SomeCovered(last) => Waits(last) = n - 1
      /\ ~SomeCovered(last) => Waits(last) = n
  BY WaitsIs
<1>6. Waits(last)' = n - (IF SomeCovered(last)' THEN 1 ELSE 0)
  BY <1>4 DEF Waits
<1>7. IsFiniteSet(LooseOnes(last)) /\ L \in Nat
  BY LooseIsFinite
<1>8. M \in Nat
  <2>1. LooseOnes(last)' \subseteq IF last THEN Days ELSE (DOMAIN Offsets) \X Days
    BY DEF LooseOnes, LooseWindows, LooseTouches
  <2>2. IsFiniteSet(LooseOnes(last)')
    BY <2>1, AllIsFinite, FS_Subset
  <2> QED
    BY <2>2, FS_CardinalityType
<1>9. IsFiniteSet({w}) /\ Cardinality({w}) = 1
  BY FS_Singleton
<1>10. CASE ~last
  <2> DEFINE all == (DOMAIN Offsets) \X {w}
  <2>1. /\ IsFiniteSet(DOMAIN Offsets) /\ Cardinality(DOMAIN Offsets) = Len(Offsets)
        /\ Len(Offsets) \in Nat
    BY OffsetsAreOrdered, FS_Interval
  <2>2. IsFiniteSet(all) /\ Cardinality(all) = Len(Offsets)
    <3> DEFINE one == {w}
    <3>1. /\ IsFiniteSet((DOMAIN Offsets) \X one)
          /\ Cardinality((DOMAIN Offsets) \X one) = Cardinality(DOMAIN Offsets) * Cardinality(one)
      <4>1. IsFiniteSet(one)
        BY <1>9
      <4> HIDE DEF one
      <4> QED
        BY <2>1, <4>1, FS_Product
    <3> QED
      BY <1>9, <2>1, <3>1
  <2>3. M <= L + Len(Offsets)
    <3>1. LooseOnes(last)' \subseteq LooseOnes(last) \cup all
      BY <1>3, <1>10 DEF LooseOnes
    <3> HIDE DEF all
    <3> QED
      BY <1>7, <2>2, <3>1, SomeIn
  <2>4. SomeCovered(last) => SomeCovered(last)'
    BY <1>2, <1>4, <1>10 DEF SomeCovered, Covered, OutOfOrder
  <2> HIDE DEF L, M, n
  <2>5. M + Waits(last)' <= L + Waits(last) + Len(Offsets)
    BY <1>5, <1>6, <1>7, <1>8, <2>1, <2>3, <2>4
  <2> QED
    BY <1>10, <2>5 DEF L, M
<1>11. CASE last /\ w \in LooseWindows
  <2>1. LooseOnes(last)' \subseteq LooseOnes(last)
    BY <1>3, <1>11 DEF LooseOnes, LooseWindows
  <2>2. M <= L
    BY <1>7, <2>1, FS_Subset
  <2> HIDE DEF L, M, n
  <2>3. M + Waits(last)' <= L + Waits(last) + 1
    BY <1>5, <1>6, <1>7, <1>8, <2>2
  <2> QED
    BY <1>11, <2>3 DEF L, M
<1>12. CASE last /\ w \notin LooseWindows
  <2>1. LooseOnes(last)' \subseteq LooseOnes(last) \cup {w}
    BY <1>3, <1>12 DEF LooseOnes, LooseWindows
  <2>2. M <= L + 1
    BY <1>7, <1>9, <2>1, SomeIn
  <2>3. SomeCovered(last) => SomeCovered(last)'
    <3> SUFFICES ASSUME NEW q \in Sending, Covered(touch[q], last)
                 PROVE  Covered(touch[q], last)'
      BY <1>4 DEF SomeCovered
    <3>1. touch'[q] = touch[q] /\ q \in Passes /\ touch[q] # NULL
      BY <1>4 DEF Sending, At
    <3> DEFINE i == touch[q].kind
               x == touch[q].window
    <3>2. i \in DOMAIN Offsets /\ x \in Days
      BY <3>1 DEF TypeOK, Touch
    <3>3. CASE ~OutOfOrder(i, x)
      BY <3>1, <3>3 DEF Covered, OutOfOrder
    <3>4. CASE <<i, x>> \in LooseTouches
               /\ \A j \in DOMAIN Offsets : <<j, x>> \in LooseTouches => j <= i
      <4>1. x # w
        BY <1>12, <3>2, <3>4 DEF LooseWindows
      <4>2. \A j \in DOMAIN Offsets : <<j, x>> \in LooseTouches' => <<j, x>> \in LooseTouches
        BY <1>3, <4>1
      <4> QED
        BY <1>2, <3>1, <3>4, <4>2 DEF Covered
    <3> QED
      BY <1>12, <3>3, <3>4 DEF Covered
  <2> HIDE DEF L, M, n
  <2>4. M + Waits(last)' <= L + Waits(last) + 1
    BY <1>5, <1>6, <1>7, <1>8, <2>2, <2>3
  <2> QED
    BY <1>12, <2>4 DEF L, M
<1> QED
  BY <1>10, <1>11, <1>12

(* No step costs more than it may. *)
LEMMA FollowUpCosts ==
  ASSUME TypeOK, TypeOK', Sound, FirstStay, FollowUp, NEW last \in BOOLEAN, last => links < 2
  PROVE  again' + Cardinality(LooseOnes(last)') + Waits(last)' + overlaps
           <= again + Cardinality(LooseOnes(last)) + Waits(last) + overlaps'
<1> DEFINE L == Cardinality(LooseOnes(last))
           M == Cardinality(LooseOnes(last)')
           v == Waits(last)
           u == Waits(last)'
           o == overlaps'
           a == again'
<1>1. PICK p \in Passes :
        PickTouch(p) \/ SendTouch(p) \/ SendTouchFails(p) \/ RecordSent(p) \/ Supersede(p)
  BY DEF FollowUp
<1>2. L \in Nat /\ v \in Nat /\ again \in Nat /\ overlaps \in Nat
  <2>1. L \in Nat /\ v \in Nat
    BY LooseIsFinite, WaitsIs
  <2>2. again \in Nat /\ overlaps \in Nat
    BY WallNoticeAssumption DEF TypeOK
  <2> QED
    BY <2>1, <2>2
<1>3. M \in Int /\ u \in Int
  <2>1. LooseOnes(last)' \subseteq IF last THEN Days ELSE (DOMAIN Offsets) \X Days
    BY DEF LooseOnes, LooseWindows, LooseTouches
  <2>2. IsFiniteSet(LooseOnes(last)')
    BY <2>1, AllIsFinite, FS_Subset
  <2>3. Sending' \subseteq Passes /\ IsFiniteSet(Passes)
    BY WallNoticeAssumption DEF Sending
  <2>4. Cardinality(Sending') \in Nat
    BY <2>3, FS_Subset, FS_CardinalityType
  <2>5. u = Cardinality(Sending') - (IF SomeCovered(last)' THEN 1 ELSE 0)
    BY DEF Waits
  <2> QED
    BY <2>2, <2>4, <2>5, FS_CardinalityType
<1>4. CASE PickTouch(p)
  <2>1. a = again /\ M = L /\ u + overlaps <= v + o
    BY <1>4, PickCosts
  <2>2. o \in Nat
    BY <1>2, <1>4 DEF PickTouch
  <2> HIDE DEF L, M, u, v, o, a
  <2>3. a + M + u + overlaps <= again + L + v + o
    BY <1>2, <1>3, <2>1, <2>2
  <2> QED
    BY <2>3 DEF L, M, u, v, o, a
<1>5. CASE SendTouch(p)
  <2>1. a + M + u <= again + L + v /\ o = overlaps /\ a \in Nat
    BY <1>5, SendCosts DEF SendTouch, bounds, TypeOK
  <2> HIDE DEF L, M, u, v, o, a
  <2>2. a + M + u + overlaps <= again + L + v + o
    BY <1>2, <1>3, <2>1
  <2> QED
    BY <2>2 DEF L, M, u, v, o, a
<1>6. CASE SendTouchFails(p)
  <2>1. /\ OthersStay(p) /\ touch[p] # NULL /\ touch[p].at = "sending" /\ touch'[p] = NULL
        /\ UNCHANGED <<touched, ledger, again, overlaps>>
    BY <1>6, FailIs DEF SendTouchFails, bounds
  <2>2. M = L /\ u <= v /\ a = again /\ o = overlaps
    BY <2>1, DropCosts
  <2> HIDE DEF L, M, u, v, o, a
  <2>3. a + M + u + overlaps <= again + L + v + o
    BY <1>2, <1>3, <2>1, <2>2
  <2> QED
    BY <2>3 DEF L, M, u, v, o, a
<1>7. CASE RecordSent(p) \/ Supersede(p)
  <2>1. M = L /\ u = v /\ a = again /\ o = overlaps
    BY <1>7, RecordCosts DEF Rests, RecordSent, Supersede, bounds
  <2> HIDE DEF L, M, u, v, o, a
  <2>2. a + M + u + overlaps <= again + L + v + o
    BY <1>2, <1>3, <2>1
  <2> QED
    BY <2>2 DEF L, M, u, v, o, a
<1> QED
  BY <1>1, <1>4, <1>5, <1>6, <1>7

LEMMA CrashCosts ==
  ASSUME TypeOK, TypeOK', Crash, NEW last \in BOOLEAN
  PROVE  Cardinality(LooseWalls') + Cardinality(LooseOnes(last)') + Waits(last)'
           <= Cardinality(LooseWalls) + Cardinality(LooseOnes(last)) + Waits(last)
                + (IF last THEN 1 ELSE Len(Offsets))
<1> DEFINE L == Cardinality(LooseOnes(last))
           M == Cardinality(LooseOnes(last)')
           w == Cardinality(LooseWalls)
           x == Cardinality(LooseWalls')
           v == Waits(last)
           u == Waits(last)'
           n == IF last THEN 1 ELSE Len(Offsets)
<1>1. /\ UNCHANGED <<told, stamps, ledger, touched>>
      /\ \/ wall # NULL /\ wall' = NULL /\ touch' = touch
         \/ wall' = wall /\ \E p \in Passes : touch[p] # NULL /\ OthersStay(p) /\ touch'[p] = NULL
  BY CrashIs
<1>2. L \in Nat /\ v \in Nat /\ w \in Nat /\ n \in Nat \ {0} /\ IsFiniteSet(LooseWalls)
  BY LooseIsFinite, WaitsIs, OffsetsAreOrdered
<1>3. CASE wall # NULL /\ wall' = NULL /\ touch' = touch
  <2>1. LooseWalls' \subseteq LooseWalls \cup {wall.episode}
    BY <1>1 DEF LooseWalls, Unstamped, StampOf, Stamping
  <2>2. IsFiniteSet({wall.episode}) /\ Cardinality({wall.episode}) = 1
    BY FS_Singleton
  <2>3. x <= w + 1
    BY <1>2, <2>1, <2>2, SomeIn
  <2>4. IsFiniteSet(LooseWalls')
    BY <1>2, <2>1, <2>2, FS_Union, FS_Subset
  <2>5. x \in Nat
    BY <2>4, FS_CardinalityType
  <2>6. M = L /\ u = v
    BY <1>1, <1>3, DrainRests DEF Rests
  <2> HIDE DEF L, M, u, v, w, x, n
  <2>7. x + M + u <= w + L + v + n
    BY <1>2, <2>3, <2>5, <2>6
  <2> QED
    BY <2>7 DEF L, M, u, v, w, x, n
<1>4. CASE wall' = wall /\ \E p \in Passes : touch[p] # NULL /\ OthersStay(p) /\ touch'[p] = NULL
  <2>1. PICK p \in Passes : touch[p] # NULL /\ OthersStay(p) /\ touch'[p] = NULL
    BY <1>4
  <2>2. x = w
    BY <1>1, <1>4 DEF LooseWalls, Unstamped, StampOf, Stamping
  <2>3. M \in Int /\ u \in Int
    <3>1. LooseOnes(last)' \subseteq IF last THEN Days ELSE (DOMAIN Offsets) \X Days
      BY DEF LooseOnes, LooseWindows, LooseTouches
    <3>2. IsFiniteSet(LooseOnes(last)')
      BY <3>1, AllIsFinite, FS_Subset
    <3>3. Sending' \subseteq Passes /\ IsFiniteSet(Passes)
      BY WallNoticeAssumption DEF Sending
    <3>4. Cardinality(Sending') \in Nat
      BY <3>3, FS_Subset, FS_CardinalityType
    <3>5. u = Cardinality(Sending') - (IF SomeCovered(last)' THEN 1 ELSE 0)
      BY DEF Waits
    <3> QED
      BY <3>2, <3>4, <3>5, FS_CardinalityType
  <2>4. M + u <= L + v + n
    <3>1. CASE touch[p].at # "sending"
      BY <1>1, <2>1, <3>1, DeathCosts
    <3>2. CASE touch[p].at = "sending"
      <4>1. M = L /\ u <= v
        BY <1>1, <2>1, <3>2, DropCosts
      <4> HIDE DEF L, M, u, v, n
      <4> QED
        BY <1>2, <2>3, <4>1
    <3> QED
      BY <3>1, <3>2
  <2> HIDE DEF L, M, u, v, w, x, n
  <2>5. x + M + u <= w + L + v + n
    BY <1>2, <2>2, <2>3, <2>4
  <2> QED
    BY <2>5 DEF L, M, u, v, w, x, n
<1> QED
  BY <1>1, <1>3, <1>4

LEMMA LinksGrow == ASSUME TypeOK, Next PROVE links' \in {links, links + 1} /\ links \in Nat
<1>1. links \in Nat
  BY WallNoticeAssumption DEF TypeOK
<1>2. Engine \/ FollowUp \/ Crash => links' = links
  BY FollowUpLeaves DEF Engine, Refuse, SendWall, SendWallFails, Stamp, Crash, bounds
<1>3. World => links' \in {links, links + 1}
  BY DEF World, Mirror, Open, Spend, Relieve, Relink, Midnight, bounds
<1> QED
  BY <1>1, <1>2, <1>3 DEF Next

(* By how much a step may raise the cost. *)
LEMMA CostMoves ==
  ASSUME TypeOK, TypeOK', Sound, FirstStay, Next, NEW last \in BOOLEAN, last => links < 2
  PROVE  /\ Cost(last) \in Int /\ Cost(last)' \in Int
         /\ crashes \in Nat /\ overlaps \in Nat /\ overlaps' \in Nat
         /\ \/ crashes' = crashes /\ Cost(last)' + overlaps <= Cost(last) + overlaps'
            \/ /\ crashes' = crashes + 1
               /\ Cost(last)' + overlaps
                    <= Cost(last) + overlaps' + (IF last THEN 1 ELSE Len(Offsets))
<1> DEFINE L == Cardinality(LooseOnes(last))
           M == Cardinality(LooseOnes(last)')
           w == Cardinality(LooseWalls)
           x == Cardinality(LooseWalls')
           v == Waits(last)
           u == Waits(last)'
           n == IF last THEN 1 ELSE Len(Offsets)
           o == overlaps'
           a == again'
           c == Cost(last)
           d == Cost(last)'
<1>1. /\ L \in Nat /\ v \in Nat /\ w \in Nat /\ n \in Nat
      /\ again \in Nat /\ a \in Nat /\ crashes \in Nat /\ overlaps \in Nat /\ o \in Nat
  <2>1. L \in Nat /\ v \in Nat /\ w \in Nat /\ n \in Nat
    BY LooseIsFinite, WaitsIs, OffsetsAreOrdered
  <2>2. /\ again \in Nat /\ a \in Nat /\ crashes \in Nat
        /\ overlaps \in Nat /\ o \in Nat
    BY WallNoticeAssumption DEF TypeOK
  <2> QED
    BY <2>1, <2>2
<1>2. M \in Int /\ u \in Int /\ x \in Int
  <2>1. LooseOnes(last)' \subseteq IF last THEN Days ELSE (DOMAIN Offsets) \X Days
    BY DEF LooseOnes, LooseWindows, LooseTouches
  <2>2. LooseWalls' \subseteq Episodes
    BY DEF LooseWalls, TypeOK
  <2>3. IsFiniteSet(LooseOnes(last)') /\ IsFiniteSet(LooseWalls')
    BY <2>1, <2>2, AllIsFinite, FS_Subset
  <2>4. Sending' \subseteq Passes /\ IsFiniteSet(Passes)
    BY WallNoticeAssumption DEF Sending
  <2>5. Cardinality(Sending') \in Nat
    BY <2>4, FS_Subset, FS_CardinalityType
  <2>6. u = Cardinality(Sending') - (IF SomeCovered(last)' THEN 1 ELSE 0)
    BY DEF Waits
  <2> QED
    BY <2>3, <2>5, <2>6, FS_CardinalityType
<1>3. c = again + w + L + v /\ d = a + x + M + u
  BY DEF Cost
<1>4. c \in Int /\ d \in Int
  <2> HIDE DEF L, M, u, v, w, x, a, c, d
  <2> QED
    BY <1>1, <1>2, <1>3
<1>5. CASE Engine
  <2>1. a + x <= again + w
    BY <1>5, EngineCosts
  <2>2. M = L /\ u = v /\ o = overlaps /\ crashes' = crashes
    BY <1>5, OthersLeave, DrainRests DEF Rests, Crash, Engine, Refuse, SendWall, SendWallFails,
       Stamp, drain, bounds
  <2>3. d + overlaps <= c + o
    <3> HIDE DEF L, M, u, v, w, x, o, a, c, d
    <3> QED
      BY <1>1, <1>2, <1>3, <2>1, <2>2
  <2> QED
    BY <1>1, <1>4, <2>2, <2>3
<1>6. CASE FollowUp
  <2>1. a + M + u + overlaps <= again + L + v + o
    BY <1>6, FollowUpCosts
  <2>2. x = w /\ crashes' = crashes
    BY <1>6, FollowUpLeaves DEF walling, LooseWalls, Unstamped, StampOf, Stamping
  <2>3. d + overlaps <= c + o
    <3> HIDE DEF L, M, u, v, w, x, o, a, c, d
    <3> QED
      BY <1>1, <1>2, <1>3, <2>1, <2>2
  <2> QED
    BY <1>1, <1>4, <2>2, <2>3
<1>7. CASE World
  <2>1. UNCHANGED <<again, crashes, overlaps, told, stamps, wall, ledger, touched, touch>>
    BY <1>7 DEF World, Mirror, Open, Spend, Relieve, Relink, Midnight, walling, drain, bounds
  <2>2. x = w /\ a = again /\ o = overlaps
    BY <2>1 DEF LooseWalls, Unstamped, StampOf, Stamping
  <2>3. M = L /\ u = v
    BY <2>1, DrainRests DEF Rests
  <2>4. d + overlaps <= c + o
    <3> HIDE DEF L, M, u, v, w, x, o, a, c, d
    <3> QED
      BY <1>1, <1>2, <1>3, <2>2, <2>3
  <2> QED
    BY <1>1, <1>4, <2>1, <2>4
<1>8. CASE Crash
  <2>1. x + M + u <= w + L + v + n
    BY <1>8, CrashCosts
  <2>2. a = again /\ o = overlaps /\ crashes' = crashes + 1
    BY <1>8, CrashIs
  <2>3. d + overlaps <= c + o + n
    <3> HIDE DEF L, M, u, v, w, x, n, o, a, c, d
    <3> QED
      BY <1>1, <1>2, <1>3, <2>1, <2>2
  <2> QED
    BY <1>1, <1>4, <2>2, <2>3
<1> QED
  BY <1>5, <1>6, <1>7, <1>8 DEF Next

LEMMA CostNext ==
  ASSUME TypeOK, TypeOK', Sound, FirstStay, SequenceCost, MessageCost, Next
  PROVE  SequenceCost' /\ MessageCost'
<1>1. SequenceCost'
  <2> DEFINE n == Len(Offsets)
             c == Cost(FALSE)
             d == Cost(FALSE)'
             o == overlaps'
  <2>1. /\ c \in Int /\ d \in Int /\ crashes \in Nat /\ overlaps \in Nat /\ o \in Nat
        /\ \/ crashes' = crashes /\ d + overlaps <= c + o
           \/ crashes' = crashes + 1 /\ d + overlaps <= c + o + n
    BY CostMoves
  <2>2. n \in Nat
    BY OffsetsAreOrdered
  <2>3. c <= crashes * n + overlaps
    BY DEF SequenceCost
  <2> HIDE DEF n, c, d, o
  <2>4. (crashes + 1) * n = crashes * n + n /\ crashes * n \in Nat
    BY <2>1, <2>2
  <2>5. d <= crashes' * n + o
    BY <2>1, <2>2, <2>3, <2>4
  <2> QED
    BY <2>5 DEF SequenceCost, d, n, o
<1>2. MessageCost'
  <2> SUFFICES ASSUME links' < 2 PROVE Cost(TRUE)' <= crashes' + overlaps'
    BY DEF MessageCost
  <2> DEFINE c == Cost(TRUE)
             d == Cost(TRUE)'
             o == overlaps'
  <2>1. links < 2
    BY LinksGrow
  <2>2. /\ c \in Int /\ d \in Int /\ crashes \in Nat /\ overlaps \in Nat /\ o \in Nat
        /\ \/ crashes' = crashes /\ d + overlaps <= c + o
           \/ crashes' = crashes + 1 /\ d + overlaps <= c + o + 1
    BY <2>1, CostMoves
  <2>3. c <= crashes + overlaps
    BY <2>1 DEF MessageCost
  <2> HIDE DEF c, d, o
  <2>4. d <= crashes' + o
    BY <2>2, <2>3
  <2> QED
    BY <2>4 DEF d, o
<1> QED
  BY <1>1, <1>2

---------------------------------------------------------------------------
(* A chat that has not come back from a plan *)

(* What was due stays due, while the stamp does. *)
LEMMA StaysDue ==
  ASSUME TypeOK, TypeOK', NEW i \in DOMAIN Offsets, NEW w \in Days, DueSince(i, w),
         stamps'.quota_100 = stamps.quota_100, now' \in {now, now + 1}
  PROVE  DueSince(i, w)'
<1>1. stamps.quota_100 \in Nat /\ now \in Nat /\ Offsets[i] \in Nat
  BY DaysAreNumbers, OffsetsAreOrdered DEF DueSince
<1> QED
  BY <1>1 DEF DueSince

(* The first allowance's wall is stamped before it is followed up. *)
LEMMA NotFollowedYet ==
  ASSUME TypeOK, Sound, FirstStay, Stamp, links = 0, wall.episode[2] = "monthly", window # NULL
  PROVE  /\ \A t \in touched : t[2] # window
         /\ \A p \in Passes : touch[p] # NULL => touch[p].window # window
<1>1. wall # NULL /\ wall.episode \in Episodes /\ wall.episode[1] = "free"
  BY StampIs DEF Stamp, FirstStay
<1>2. wall.episode[3] <= window /\ Unstamped(wall.episode)
  BY <1>1 DEF Sound, WallSound
<1>3. stamps.quota_100 \in {NULL} \cup 0..(wall.episode[3] - 1)
  BY <1>2 DEF Unstamped, StampOf, Before
<1>4. ~(stamps.quota_100 # NULL /\ stamps.quota_100 >= window)
  BY <1>1, <1>2, <1>3, DaysAreNumbers
<1> QED
  BY <1>4 DEF FirstStay, DueSince

LEMMA FirstStayEngine == ASSUME TypeOK, TypeOK', Sound, FirstStay, Engine PROVE FirstStay'
<1> USE DEF FirstStay
<1>1. UNCHANGED <<now, paid, mirror, links, touched, touch, ledger>>
  BY DEF Engine, Refuse, SendWall, SendWallFails, Stamp, plan, drain, bounds
<1>2. /\ \A t \in touched : t \in (DOMAIN Offsets) \X Days /\ t[1] \in DOMAIN Offsets /\ t[2] \in Days
      /\ \A p \in Passes : touch[p] # NULL =>
           touch[p].window \in Days /\ touch[p].kind \in DOMAIN Offsets
  BY DEF TypeOK, Touch
<1>3. CASE window' \in {NULL, window} /\ stamps'.quota_100 = stamps.quota_100
  <2>1. ASSUME links = 0, NEW t \in touched, t[2] = window' PROVE DueSince(t[1], window)'
    <3>1. t[2] = window /\ DueSince(t[1], t[2])
      BY <1>2, <1>3, <2>1, NullIsApart
    <3> QED
      BY <1>1, <1>3, <2>1, <3>1 DEF DueSince
  <2>2. ASSUME links = 0, NEW p \in Passes, touch[p] # NULL, touch[p].window = window'
        PROVE  DueSince(touch[p].kind, window)'
    <3>1. touch[p].window = window /\ DueSince(touch[p].kind, touch[p].window)
      BY <1>2, <1>3, <2>2, NullIsApart
    <3> QED
      BY <1>1, <1>3, <2>2, <3>1 DEF DueSince
  <2>3. links = 0 /\ wall' # NULL => wall'.episode[1] = "free"
    <3>1. CASE Refuse
      <4>1. wall'.episode = Episode /\ Limit # NULL
        BY <3>1 DEF Refuse
      <4> QED
        BY <4>1, FreeWall DEF Sound
    <3>2. CASE SendWall
      <4>1. wall # NULL /\ wall'.episode = wall.episode
        BY <3>2 DEF SendWall, TypeOK, Wall
      <4> QED
        BY <4>1
    <3>3. CASE SendWallFails \/ Stamp
      BY <3>3 DEF SendWallFails, Stamp
    <3> QED
      BY <3>1, <3>2, <3>3 DEF Engine
  <2> QED
    BY <1>1, <2>1, <2>2, <2>3
<1>4. CASE Stamp /\ stamps'.quota_100 # stamps.quota_100
  <2>1. wall.episode[2] = "monthly" /\ wall' = NULL /\ window' = window
    BY <1>4, StampIs DEF Stamp, meters
  <2>2. links = 0 => /\ \A t \in touched : t[2] # window
                     /\ \A p \in Passes : touch[p] # NULL => touch[p].window # window
    BY <1>2, <1>4, <2>1, NotFollowedYet, NullIsApart
  <2> QED
    BY <1>1, <2>1, <2>2
<1>5. Stamp => window' = window
  BY DEF Stamp, meters
<1>6. ~Stamp => window' \in {NULL, window} /\ stamps'.quota_100 = stamps.quota_100
  BY DEF Engine, Refuse, Roll, SendWall, SendWallFails, meters
<1> QED
  BY <1>3, <1>4, <1>5, <1>6

LEMMA FirstStayFollowUp == ASSUME TypeOK, TypeOK', Sound, FirstStay, FollowUp PROVE FirstStay'
<1> USE DEF FirstStay
<1>1. UNCHANGED <<now, paid, mirror, links, wall, window, stamps>>
  BY FollowUpLeaves DEF plan, walling, meters
<1>2. \A i, w : DueSince(i, w)' <=> DueSince(i, w)
  BY <1>1 DEF DueSince
<1>3. PICK p \in Passes :
        PickTouch(p) \/ SendTouch(p) \/ SendTouchFails(p) \/ RecordSent(p) \/ Supersede(p)
  BY DEF FollowUp
<1>4. SUFFICES ASSUME links = 0
               PROVE  /\ \A t \in touched' : t[2] = window => DueSince(t[1], window)
                      /\ \A q \in Passes : touch'[q] # NULL /\ touch'[q].window = window =>
                                             DueSince(touch'[q].kind, window)
  BY <1>1, <1>2
<1>5. CASE PickTouch(p)
  <2>1. /\ OthersStay(p) /\ touch'[p].kind = Latest(Due) /\ touch'[p].window = window
        /\ touched' = touched /\ Latest(Due) \in Due
        /\ stamps.quota_100 # NULL /\ stamps.quota_100 >= window
    BY <1>5, PickIs DEF PickTouch, Candidate
  <2>2. DueSince(Latest(Due), window)
    BY <2>1 DEF DueSince, Due
  <2> QED
    BY <1>4, <2>1, <2>2 DEF OthersStay
<1>6. CASE SendTouch(p)
  <2>1. PICK k \in DOMAIN Offsets, w \in Days : k = touch[p].kind /\ w = touch[p].window
    BY <1>6, SendIs
  <2>2. /\ OthersStay(p) /\ touch[p] # NULL /\ touch'[p].kind = k /\ touch'[p].window = w
        /\ touched' = touched \cup {<<k, w>>}
    BY <1>6, <2>1, SendIs DEF SendTouch, Keeps
  <2> QED
    BY <1>4, <2>1, <2>2 DEF OthersStay
<1>7. CASE SendTouchFails(p)
  <2>1. OthersStay(p) /\ touch'[p] = NULL /\ touched' = touched
    BY <1>7, FailIs DEF SendTouchFails
  <2> QED
    BY <1>4, <2>1 DEF OthersStay
<1>8. CASE RecordSent(p) \/ Supersede(p)
  <2>1. /\ OthersStay(p) /\ touch[p] # NULL /\ touched' = touched
        /\ touch'[p] # NULL =>
             touch'[p].kind = touch[p].kind /\ touch'[p].window = touch[p].window
    BY <1>8, RecordIs DEF RecordSent, Supersede, Keeps
  <2> QED
    BY <1>4, <2>1 DEF OthersStay
<1> QED
  BY <1>3, <1>5, <1>6, <1>7, <1>8

LEMMA FirstStayWorld == ASSUME TypeOK, TypeOK', Sound, FirstStay, World \/ Crash PROVE FirstStay'
<1> USE DEF FirstStay
<1>1. /\ UNCHANGED <<stamps, touched>> /\ now' \in {now, now + 1} /\ wall' \in {NULL, wall}
  BY DEF World, Mirror, Open, Spend, Relieve, Relink, Midnight, Crash, walling, drain
<1>2. \A p \in Passes : touch'[p] \in {NULL, touch[p]}
  BY OthersLeave
<1>3. /\ \A t \in touched : t[1] \in DOMAIN Offsets /\ t[2] \in Days
      /\ \A p \in Passes : touch[p] # NULL =>
           touch[p].window \in Days /\ touch[p].kind \in DOMAIN Offsets
  BY DEF TypeOK, Touch
<1>4. \A i \in DOMAIN Offsets, w \in Days : DueSince(i, w) => DueSince(i, w)'
  BY <1>1, StaysDue
<1>5. links \in Nat
  BY WallNoticeAssumption DEF TypeOK
<1>6. CASE window' = window
  <2>1. /\ links' = 0 => links = 0 /\ paid' = paid /\ (mirror' = mirror \/ paid)
        /\ links' = 1 => paid'
        /\ links' < 2 => links < 2
    <3>1. CASE Relink
      <4>1. links' = links + 1 /\ paid' = ~paid
        BY <3>1 DEF Relink
      <4>2. links' # 0 /\ (links' = 1 => links = 0) /\ (links' < 2 => links < 2)
        BY <1>5, <4>1
      <4>3. links = 0 => ~paid
        OBVIOUS
      <4>4. links' = 1 => paid'
        BY <4>1, <4>2, <4>3
      <4> QED
        BY <4>2, <4>4
    <3>2. CASE ~Relink
      <4>1. links' = links /\ paid' = paid /\ (mirror' = mirror \/ paid)
        BY <3>2 DEF World, Mirror, Open, Spend, Relieve, Midnight, Crash, plan, bounds
      <4> QED
        BY <4>1
    <3> QED
      BY <3>1, <3>2
  <2> QED
    BY <1>1, <1>2, <1>3, <1>4, <1>6, <2>1
<1>7. CASE Open
  <2>1. window' = now /\ UNCHANGED <<now, paid, mirror, links, wall>>
    BY <1>7 DEF Open, plan, walling, drain, bounds
  <2>2. (\A t \in touched : t[2] # now) /\ (\A p \in Passes : touch[p] # NULL => touch[p].window # now)
    BY <1>3, DaysAreNumbers DEF Sound, Chronology, Days
  <2> QED
    BY <1>1, <1>2, <2>1, <2>2
<1>8. ~Open => window' = window
  BY DEF World, Mirror, Spend, Relieve, Relink, Midnight, Crash, meters
<1> QED
  BY <1>6, <1>7, <1>8

---------------------------------------------------------------------------
(* A chat on its first allowance *)

LEMMA ToldFirstEngine ==
  ASSUME TypeOK, Sound, FirstStay, ToldFirst, Engine
  PROVE  ToldFirst'
<1> SUFFICES ASSUME links' = 0, ~late'
             PROVE  ToldFirst'
  BY DEF ToldFirst
<1>1. /\ UNCHANGED <<now, touch, touched>> /\ links = 0 /\ ~late /\ ~paid
      /\ told \subseteq told'
  <2>1. UNCHANGED <<now, touch, touched, links>> /\ told \subseteq told'
    BY DEF Engine, Refuse, SendWall, SendWallFails, Stamp, drain, bounds
  <2>2. late' \in {late, late \/ now > wall.day}
    BY DEF Engine, Refuse, SendWall, SendWallFails, Stamp
  <2>3. ~late
    BY <2>2 DEF TypeOK
  <2> QED
    BY <2>1, <2>3 DEF FirstStay
<1>2. CASE Refuse
  <2>1. /\ UNCHANGED <<stamps, told>> /\ window' = (IF Expired THEN NULL ELSE window)
        /\ wall' = [at |-> "sending", episode |-> Episode, day |-> now]
    BY <1>2 DEF Refuse, Roll
  <2>2. /\ Episode[2] = Limit
        /\ Limit = "monthly" => ~Expired /\ window # NULL /\ Episode[3] = window
    BY <1>1, <1>2, FreeWall DEF Refuse, Sound
  <2>3. ~Expired => window' = window /\ ~Expired'
    BY <1>1, <2>1 DEF Expired
  <2> QED
    BY <1>1, <2>1, <2>2, <2>3 DEF ToldFirst
<1>3. CASE SendWall
  <2>1. /\ UNCHANGED <<stamps, window>> /\ wall # NULL
        /\ wall'.episode = wall.episode /\ wall'.day = wall.day
    BY <1>3 DEF SendWall, meters, TypeOK, Wall
  <2> QED
    BY <1>1, <2>1 DEF ToldFirst, Expired
<1>4. CASE SendWallFails
  <2>1. UNCHANGED <<stamps, window, told>> /\ wall' = NULL
    BY <1>4 DEF SendWallFails, meters
  <2> QED
    BY <1>1, <2>1 DEF ToldFirst, Expired
<1>5. CASE Stamp
  <2>1. /\ UNCHANGED <<window, told>> /\ wall' = NULL /\ wall # NULL /\ ~(now > wall.day)
    BY <1>5 DEF Stamp, meters
  <2>2. wall \in Wall /\ wall.at = "stamping" /\ wall.episode \in Episodes
    BY <1>5, StampIs
  <2>3. wall.day = now
    <3>1. wall.day \in Nat /\ now \in Nat /\ wall.day <= now
      BY <2>1, <2>2, DaysAreNumbers DEF Wall, Days, Sound, WallSound
    <3> QED
      BY <2>1, <3>1
  <2>4. wall.episode[1] = "free" /\ wall.episode \in told
    BY <1>1, <2>1, <2>2 DEF FirstStay, Sound, WallSound
  <2>5. wall.episode = <<"free", wall.episode[2], wall.episode[3]>> /\ wall.episode[3] \in Days
    BY <2>2, <2>4 DEF Episodes
  <2>6. Expired' = Expired
    BY <1>1, <2>1 DEF Expired
  <2>7. CASE /\ wall.episode[2] = "monthly" /\ stamps'.quota_100 = now
             /\ stamps'.quota_day = stamps.quota_day
    <3>1. window = wall.episode[3] /\ ~Expired /\ window # NULL
      BY <1>1, <2>1, <2>3, <2>5, <2>7, NullIsApart DEF ToldFirst
    <3>2. Walled(window) \in told
      BY <2>4, <2>5, <2>7, <3>1 DEF Walled
    <3> QED
      BY <1>1, <2>1, <2>6, <2>7, <3>1, <3>2 DEF ToldFirst
  <2>8. CASE /\ wall.episode[2] = "daily" /\ stamps'.quota_day = now
             /\ stamps'.quota_100 = stamps.quota_100
    <3>1. wall.episode[3] = now
      BY <2>1, <2>3, <2>4, <2>8 DEF Sound, WallSound
    <3>2. <<"free", "daily", now>> \in told
      BY <2>4, <2>5, <2>8, <3>1
    <3> QED
      BY <1>1, <2>1, <2>6, <2>8, <3>2 DEF ToldFirst
  <2> QED
    BY <1>5, <2>4, <2>7, <2>8, StampIs
<1> QED
  BY <1>2, <1>3, <1>4, <1>5 DEF Engine

LEMMA ToldFirstFollowUp ==
  ASSUME TypeOK, ToldFirst, FollowUp
  PROVE  ToldFirst'
<1>1. UNCHANGED <<now, window, stamps, wall, told, links, late>>
  BY FollowUpLeaves DEF meters, walling
<1>2. Expired' = Expired
  BY <1>1 DEF Expired
<1>3. PICK p \in Passes :
        PickTouch(p) \/ SendTouch(p) \/ SendTouchFails(p) \/ RecordSent(p) \/ Supersede(p)
  BY DEF FollowUp
<1>4. SUFFICES ASSUME links = 0, ~late
               PROVE  /\ \A t \in touched' : Walled(t[2]) \in told
                      /\ \A q \in Passes : touch'[q] # NULL => Walled(touch'[q].window) \in told
  BY <1>1, <1>2 DEF ToldFirst
<1>5. /\ \A t \in touched : Walled(t[2]) \in told
      /\ \A q \in Passes : touch[q] # NULL => Walled(touch[q].window) \in told
  BY <1>4 DEF ToldFirst
<1>6. CASE PickTouch(p)
  <2>1. /\ touched' = touched /\ OthersStay(p) /\ touch'[p].window = window
        /\ window # NULL /\ stamps.quota_100 # NULL /\ stamps.quota_100 >= window
    BY <1>6, PickIs DEF PickTouch, Candidate
  <2>2. Walled(window) \in told
    BY <1>4, <2>1 DEF ToldFirst
  <2> QED
    BY <1>5, <2>1, <2>2 DEF OthersStay
<1>7. CASE SendTouch(p)
  <2>1. PICK k \in DOMAIN Offsets, w \in Days : k = touch[p].kind /\ w = touch[p].window
    BY <1>7, SendIs
  <2>2. /\ OthersStay(p) /\ touch[p] # NULL /\ touch'[p].window = w
        /\ touched' = touched \cup {<<k, w>>}
    BY <1>7, <2>1, SendIs DEF SendTouch, Keeps
  <2> QED
    BY <1>5, <2>1, <2>2 DEF OthersStay
<1>8. CASE SendTouchFails(p) \/ RecordSent(p) \/ Supersede(p)
  <2>1. /\ touched' = touched /\ OthersStay(p)
        /\ touch'[p] # NULL => touch[p] # NULL /\ touch'[p].window = touch[p].window
    BY <1>8, FailIs, RecordIs DEF SendTouchFails, RecordSent, Supersede, Keeps
  <2> QED
    BY <1>5, <2>1 DEF OthersStay
<1> QED
  BY <1>3, <1>6, <1>7, <1>8

LEMMA ToldFirstWorld ==
  ASSUME TypeOK, Sound, ToldFirst, World \/ Crash
  PROVE  ToldFirst'
<1>1. /\ UNCHANGED <<stamps, told, touched, late>>
      /\ wall' \in {NULL, wall} /\ \A p \in Passes : touch'[p] \in {NULL, touch[p]}
  BY OthersLeave DEF World, Mirror, Open, Spend, Relieve, Relink, Midnight, Crash, walling, drain
<1>2. CASE Relink
  <2>1. links' # 0
    BY <1>2, WallNoticeAssumption DEF Relink, TypeOK
  <2> QED
    BY <2>1 DEF ToldFirst
<1>3. CASE Open
  <2>1. window' = now /\ UNCHANGED <<now, links>> /\ (window = NULL \/ Expired)
    BY <1>3 DEF Open, bounds
  <2>2. SUFFICES ASSUME links = 0, ~late PROVE ToldFirst'
    BY <1>1, <2>1 DEF ToldFirst
  <2>3. wall # NULL /\ wall.episode[2] = "monthly" => wall.day # now
    <3>1. wall # NULL => wall.episode[3] # NULL
      BY NullIsApart DEF TypeOK, Wall, Episodes
    <3> QED
      BY <2>1, <2>2, <3>1 DEF ToldFirst
  <2>4. stamps.quota_100 # now
    BY <2>1, <2>2 DEF ToldFirst
  <2>5. stamps.quota_100 # NULL => ~(stamps.quota_100 >= now)
    BY <2>4, DaysAreNumbers DEF Sound, Chronology, NoLaterThan
  <2> QED
    BY <1>1, <2>1, <2>2, <2>3, <2>4, <2>5 DEF ToldFirst
<1>4. CASE Midnight
  <2>1. now' = now + 1 /\ UNCHANGED <<window, links>> /\ (wall # NULL => wall.day = now)
    BY <1>4 DEF Midnight, bounds
  <2>2. SUFFICES ASSUME links = 0, ~late PROVE ToldFirst'
    BY <1>1, <2>1 DEF ToldFirst
  <2>3. /\ now' # now /\ stamps.quota_100 # now' /\ stamps.quota_day # now'
    BY <2>1, DaysAreNumbers, NullAssumption DEF Sound, Chronology, NoLaterThan
  <2> QED
    BY <1>1, <2>1, <2>2, <2>3 DEF ToldFirst
<1>5. CASE Mirror \/ Spend \/ Relieve \/ Crash
  <2>1. UNCHANGED <<now, window, links>>
    BY <1>5 DEF Mirror, Spend, Relieve, Crash, meters, bounds
  <2> QED
    BY <1>1, <2>1 DEF ToldFirst, Expired
<1> QED
  BY <1>2, <1>3, <1>4, <1>5 DEF World

---------------------------------------------------------------------------
(* The theorems *)

(* All of it together is inductive.                                       *)
Inv == TypeOK /\ Sound /\ SequenceCost /\ MessageCost /\ FirstStay /\ ToldFirst

LEMMA InvInit == Init => Inv
<1> SUFFICES ASSUME Init PROVE Inv
  OBVIOUS
<1> USE DEF Init
<1>1. TypeOK
  <2>1. 0 \in Days /\ 0 \in 0..MaxLinks /\ 0 \in 0..MaxOverlaps /\ 0 \in 0..MaxCrashes
    BY WallNoticeAssumption DEF Days
  <2>2. stamps \in [quota_100 : DayOrNull, quota_day : DayOrNull, plan_day : DayOrNull]
    BY DEF DayOrNull
  <2> QED
    BY <2>1, <2>2 DEF TypeOK, DayOrNull
<1>2. Sound
  BY DEF Sound, Chronology, NoLaterThan, WallSound, TouchSound
<1>3. /\ LooseWalls = {} /\ Sending = {}
      /\ \A last \in BOOLEAN : LooseOnes(last) = {} /\ ~SomeCovered(last)
  <2>1. LooseTouches = {} /\ Sending = {}
    BY DEF LooseTouches, Loose, OutOfOrder, Sending, At
  <2> QED
    BY <2>1 DEF LooseWalls, LooseOnes, LooseWindows, SomeCovered
<1>4. SequenceCost /\ MessageCost
  <2>1. Cardinality({}) = 0 /\ Len(Offsets) \in Nat
    BY FS_EmptySet, OffsetsAreOrdered
  <2>2. again = 0 /\ crashes = 0 /\ overlaps = 0
    OBVIOUS
  <2>3. ASSUME NEW last \in BOOLEAN PROVE Cost(last) = 0
    <3>1. Waits(last) = 0
      BY <1>3, <2>1, WaitsIs
    <3>2. Cardinality(LooseWalls) = 0 /\ Cardinality(LooseOnes(last)) = 0
      BY <1>3, <2>1
    <3> QED
      BY <2>2, <3>1, <3>2 DEF Cost
  <2> DEFINE c == Cost(FALSE)
             d == Cost(TRUE)
  <2>4. c = 0 /\ d = 0
    BY <2>3
  <2>5. c <= crashes * Len(Offsets) + overlaps /\ d <= crashes + overlaps
    <3> HIDE DEF c, d
    <3> QED
      BY <2>1, <2>2, <2>4
  <2> QED
    BY <2>5 DEF SequenceCost, MessageCost
<1>5. FirstStay
  BY DEF FirstStay
<1>6. ToldFirst
  <2>1. NULL # 0
    BY NullAssumption
  <2> QED
    BY <2>1 DEF ToldFirst
<1> QED
  BY <1>1, <1>2, <1>4, <1>5, <1>6 DEF Inv

LEMMA InvNext == Inv /\ [Next]_vars => Inv'
<1> SUFFICES ASSUME Inv, [Next]_vars PROVE Inv'
  OBVIOUS
<1>0. /\ TypeOK /\ Sound /\ Chronology /\ SequenceCost /\ MessageCost /\ FirstStay /\ ToldFirst
  BY DEF Inv, Sound
<1>1. CASE Next
  <2>1. TypeOK'
    BY <1>0, <1>1, EngineTyped, FollowUpTyped, OthersTyped DEF Next
  <2>2. Sound'
    BY <1>0, <1>1, EngineSound, FollowUpSound, WorldSound DEF Next
  <2>3. SequenceCost' /\ MessageCost'
    BY <1>0, <1>1, <2>1, CostNext
  <2>4. FirstStay'
    BY <1>0, <1>1, <2>1, FirstStayEngine, FirstStayFollowUp, FirstStayWorld DEF Next
  <2>5. ToldFirst'
    BY <1>0, <1>1, ToldFirstEngine, ToldFirstFollowUp, ToldFirstWorld DEF Next
  <2> QED
    BY <2>1, <2>2, <2>3, <2>4, <2>5 DEF Inv
<1>2. CASE UNCHANGED vars
  <2> USE <1>2 DEF vars, meters, plan, walling, drain, bounds
  <2>1. TypeOK'
    BY <1>0 DEF TypeOK
  <2>2. Sound'
    BY <1>0 DEF Sound, Chronology, WallSound, TouchSound, TouchOK, HasNotice, Unstamped, StampOf
  <2>3. SequenceCost' /\ MessageCost'
    <3>1. LooseWalls' = LooseWalls
      BY DEF LooseWalls, Unstamped, StampOf, Stamping
    <3>2. \A last \in BOOLEAN : Cost(last)' = Cost(last)
      BY <3>1, DrainRests DEF Rests, Cost
    <3> QED
      BY <1>0, <3>2 DEF SequenceCost, MessageCost
  <2>4. FirstStay'
    BY <1>0 DEF FirstStay, DueSince
  <2>5. ToldFirst'
    BY <1>0 DEF ToldFirst, Expired
  <2> QED
    BY <2>1, <2>2, <2>3, <2>4, <2>5 DEF Inv
<1> QED
  BY <1>1, <1>2

LEMMA InvAlways == Spec => []Inv
  BY InvInit, InvNext, PTL DEF Spec

(* Notices, follow-ups, stamps and the ledger keep their shapes in every   *)
(* interleaving of the engine, the drain and the user (refuse_and_notify,  *)
(* wall_followup_pass).                                                    *)
THEOREM TypeCorrect == Spec => []TypeOK
<1>1. Inv => TypeOK
  BY DEF Inv
<1> QED
  BY <1>1, InvAlways, PTL

(* However the engine's refusals, the follow-ups of overlapping passes of  *)
(* the drain and the user's calls interleave, a chat that has not come     *)
(* back from a plan is told twice, or out of order, at most once for every *)
(* crash between a message and its stamp or record, and once for every     *)
(* follow-up that is picked while another is under way; one that has, at   *)
(* most as often as there are follow-ups for every such crash              *)
(* (refuse_and_notify marks after it sends, and so does                    *)
(* wall_followup_pass, which nothing keeps from overlapping itself).       *)
THEOREM ToldOnce == Spec => []NothingTwice
<1>1. Inv => NothingTwice
  <2> SUFFICES ASSUME Inv PROVE NothingTwice
    OBVIOUS
  <2> DEFINE n == Len(Offsets)
             c == Cost(FALSE)
             d == Cost(TRUE)
  <2>1. TypeOK /\ c <= crashes * n + overlaps
        /\ (links < 2 => d <= crashes + overlaps)
    BY DEF Inv, SequenceCost, MessageCost
  <2>2. n \in Nat /\ again \in Nat /\ crashes \in Nat /\ overlaps \in Nat
    BY <2>1, OffsetsAreOrdered, WallNoticeAssumption DEF TypeOK
  <2>3. \A last \in BOOLEAN : Cost(last) \in Nat /\ again <= Cost(last)
    <3> SUFFICES ASSUME NEW last \in BOOLEAN PROVE Cost(last) \in Nat /\ again <= Cost(last)
      OBVIOUS
    <3> DEFINE w == Cardinality(LooseWalls)
               l == Cardinality(LooseOnes(last))
               v == Waits(last)
    <3>1. w \in Nat /\ l \in Nat /\ v \in Nat
      BY <2>1, LooseIsFinite, WaitsIs
    <3>2. Cost(last) = again + w + l + v
      BY DEF Cost
    <3> HIDE DEF w, l, v
    <3> QED
      BY <2>2, <3>1, <3>2
  <2>4. /\ d \in Nat /\ again <= d
        /\ c \in Nat /\ again <= c
    BY <2>3
  <2>5. crashes * n \in Nat /\ crashes * 1 = crashes
    <3> HIDE DEF n
    <3> QED
      BY <2>2
  <2>6. again <= crashes * n + overlaps /\ (links < 2 => again <= crashes + overlaps)
    <3> DEFINE k == crashes * n
    <3> HIDE DEF c, d
    <3>1. k \in Nat /\ c <= k + overlaps
      BY <2>1, <2>5
    <3> HIDE DEF k
    <3>2. again <= k + overlaps
      BY <2>2, <2>4, <3>1
    <3>3. links < 2 => again <= crashes + overlaps
      BY <2>1, <2>2, <2>4
    <3> QED
      BY <3>2, <3>3 DEF k
  <2> QED
    BY <2>5, <2>6 DEF NothingTwice
<1> QED
  BY <1>1, InvAlways, PTL

(* A chat on its first allowance that is refused without a word was told   *)
(* in the same episode, or a stamp of its notices was written past         *)
(* midnight (_notice_due, mark_quota_cta_fired, mark_quota_day_notice).    *)
THEOREM SilenceIsStamped == Spec => []SilencedByStampsOnly
<1>1. Inv => SilencedByStampsOnly
  <2> SUFFICES ASSUME Inv, Limit # NULL, ~NoticeDue, links = 0, ~late
               PROVE  Episode \in told
    <3>1. Inv => links \in Nat
      BY WallNoticeAssumption DEF Inv, TypeOK
    <3> QED
      BY <3>1 DEF SilencedByStampsOnly, Silenced
  <2>1. TypeOK /\ Chronology /\ FirstStay /\ ToldFirst
    BY DEF Inv, Sound
  <2>2. ~paid
    BY <2>1 DEF FirstStay
  <2>3. /\ Limit \in {"monthly", "daily"}
        /\ Limit = "monthly" => window # NULL /\ Episode[3] = window
        /\ Episode = <<"free", Limit, IF Limit = "monthly" THEN window ELSE now>>
    BY <2>1, <2>2, FreeWall DEF Episode
  <2>4. CASE Limit = "monthly"
    <3>1. stamps.quota_100 \notin {NULL} \cup 0..(window - 1)
      BY <2>3, <2>4 DEF NoticeDue, Before
    <3>2. /\ stamps.quota_100 # NULL /\ stamps.quota_100 >= window
      BY <2>1, <2>3, <2>4, <3>1, DaysAreNumbers
    <3> QED
      BY <2>1, <2>3, <2>4, <3>2 DEF ToldFirst, Walled
  <2>5. CASE Limit = "daily"
    <3>1. stamps.quota_day = now
      BY <2>2, <2>5 DEF NoticeDue
    <3> QED
      BY <2>1, <2>3, <2>5, <3>1 DEF ToldFirst
  <2> QED
    BY <2>3, <2>4, <2>5
<1> QED
  BY <1>1, InvAlways, PTL

(* The drain's follow-up on a chat's first allowance is never the first    *)
(* word on its wall, unless a stamp was written past midnight              *)
(* (list_wall_followup_candidates).                                        *)
THEOREM FollowUpsFollow == Spec => []FollowsTheWall
<1>1. Inv => FollowsTheWall
  BY DEF Inv, ToldFirst, FollowsTheWall, Walled
<1> QED
  BY <1>1, InvAlways, PTL

---------------------------------------------------------------------------
(* What comes before a refusal: the requests of users, theorems of         *)
(* Requests, which shares nothing with WallNotice but this module.         *)

(* The shape of the state, in parts. *)
Slots == [Steps -> Coins \cup Tfs \cup {"any", "oneshot", "standing", None}]
ListsOK ==
  /\ subs \subseteq Chats /\ clearing \subseteq Chats
  /\ excused \subseteq Chats
  /\ scans \in [Chats -> SUBSET PushTfs]
  /\ rows \in [Chats -> SUBSET Watches]
  /\ want \in [Chats -> SUBSET Watches]
AtOK == at \in [Seats -> [Wizards -> {0} \cup Steps]]
PickOK ==
  /\ pick \in [Users -> [Wizards -> Slots]]
  /\ \A u \in Users, w \in Wizards : pick[u][w] \in Picks(w)
OwnOK ==
  /\ own \in [Seats -> [Wizards -> Slots]]
  /\ \A s \in Seats, w \in Wizards : own[s][w] \in Picks(w)
TokensOK ==
  /\ pending \in [Tokens -> Batch \cup {None}]
  /\ asked \in [Tokens -> Batch \cup {None}]
  /\ answered \subseteq Tokens
PullOK == pull \in Pull \cup {None}
DialoguesOK == AtOK /\ PickOK /\ OwnOK
ServiceShape == ListsOK /\ DialoguesOK /\ TokensOK /\ PullOK

(* A watch dialogue has the pick that was tapped in it, and a user has one *)
(* of them at a time, unless an exception is made for the user.            *)
PickIsOwn ==
  \A s \in Seats :
    s[2] \notin excused /\ at[s]["watch"] # 0 => own[s]["watch"] = pick[s[2]]["watch"]
OneDialogue ==
  \A s, o \in Seats :
    s # o /\ s[2] = o[2] /\ at[s]["watch"] # 0 /\ at[o]["watch"] # 0 => s[2] \in excused

(* A batch that is pending is the one that was asked for, and was not      *)
(* answered.                                                               *)
TokensFresh ==
  \A t \in Tokens :
    /\ pending[t] # None => pending[t] = asked[t] /\ t \notin answered
    /\ t \in answered => asked[t] # None

(* What an answer costs is charged between the question and the answer.    *)
PullIsCharged ==
  pull # None =>
    /\ pull.stage = "ask" => pull.calls = 0 /\ pull.due = 0 /\ pull.paid = 0
    /\ pull.stage = "charge" =>
         pull.due >= 1 /\ pull.due + pull.paid = Price(pull.lane, pull.calls)
    /\ pull.stage = "answer" =>
         pull.due = 0 /\ pull.paid = Price(pull.lane, pull.calls)
    /\ pull.calls > 0 => pull.lane = "scan" \/ (pull.lane = "call" /\ pull.calls = 1)

DialoguesInv == DialoguesOK /\ PickIsOwn /\ OneDialogue
TokensInv == TokensOK /\ TokensFresh
PullInv == PullOK /\ PullIsCharged
ServiceInv ==
  ListsOK /\ ListIsWhatWasAsked /\ DialoguesInv /\ TokensInv /\ PullInv

(* What leaves a part alone leaves its invariant alone. *)
Growing == excused \subseteq excused' /\ excused' \subseteq Chats

LEMMA SeatsOf ==
  \A s \in Seats :
    s[1] \in Chats /\ s[2] \in Users /\ s[2] \in Chats
  BY DEF Seats, Chats

LEMMA ListsStay ==
  ASSUME ListsOK, ListIsWhatWasAsked, Growing, UNCHANGED <<rows, want>>
  PROVE  ListIsWhatWasAsked'
  BY DEF ListsOK, ListIsWhatWasAsked, Growing

LEMMA DialoguesStay ==
  ASSUME DialoguesInv, Growing, UNCHANGED <<at, pick, own>>
  PROVE  DialoguesInv'
<1>1. DialoguesOK'
  BY DEF DialoguesInv, DialoguesOK, AtOK, PickOK, OwnOK
<1>2. PickIsOwn' /\ OneDialogue'
  BY DEF DialoguesInv, PickIsOwn, OneDialogue, Growing
<1> QED
  BY <1>1, <1>2 DEF DialoguesInv

LEMMA TokensStay ==
  ASSUME TokensInv, UNCHANGED <<pending, asked, answered>>
  PROVE  TokensInv'
  BY DEF TokensInv, TokensOK, TokensFresh

LEMMA PullStays ==
  ASSUME PullInv, UNCHANGED pull
  PROVE  PullInv'
  BY DEF PullInv, PullOK, PullIsCharged

(* One pick, one dialogue at a time. *)
LEMMA SetPickOne ==
  ASSUME PickOK, NEW s \in Seats, NEW w \in Wizards,
         NEW p \in Picks(w), SetPick(s, w, p)
  PROVE  /\ PickOK' /\ pick'[s[2]][w] = p
         /\ \A u \in Users, v \in Wizards :
              u # s[2] \/ v # w => pick'[u][v] = pick[u][v]
<1>1. s[2] \in Users /\ p \in Slots
  BY SeatsOf DEF Picks, Slots
<1>2. pick' = [pick EXCEPT ![s[2]] = [pick[s[2]] EXCEPT ![w] = p]]
  BY DEF SetPick
<1>3. pick[s[2]] \in [Wizards -> Slots]
  BY <1>1 DEF PickOK
<1> DEFINE f == [pick[s[2]] EXCEPT ![w] = p]
<1>4. /\ f \in [Wizards -> Slots]
      /\ f[w] = p /\ \A v \in Wizards : v # w => f[v] = pick[s[2]][v]
  BY <1>1, <1>3
<1>5. \A u \in Users : pick'[u] = IF u = s[2] THEN f ELSE pick[u]
  BY <1>2 DEF PickOK
<1>6. pick' \in [Users -> [Wizards -> Slots]]
  BY <1>1, <1>2, <1>4 DEF PickOK
<1> HIDE DEF f
<1>7. \A u \in Users, v \in Wizards :
        u # s[2] \/ v # w => pick'[u][v] = pick[u][v]
  BY <1>4, <1>5
<1>8. pick'[s[2]][w] = p
  BY <1>1, <1>4, <1>5
<1>9. \A u \in Users, v \in Wizards : pick'[u][v] \in Picks(v)
  BY <1>7, <1>8 DEF PickOK
<1> QED
  BY <1>6, <1>7, <1>8, <1>9 DEF PickOK

LEMMA SetOwnOne ==
  ASSUME OwnOK, NEW s \in Seats, NEW w \in Wizards,
         NEW p \in Picks(w), SetOwn(s, w, p)
  PROVE  /\ OwnOK' /\ own'[s][w] = p
         /\ \A o \in Seats, v \in Wizards :
              o # s \/ v # w => own'[o][v] = own[o][v]
<1>1. p \in Slots
  BY DEF Picks, Slots
<1>2. own' = [own EXCEPT ![s] = [own[s] EXCEPT ![w] = p]]
  BY DEF SetOwn
<1>3. own[s] \in [Wizards -> Slots]
  BY DEF OwnOK
<1> DEFINE f == [own[s] EXCEPT ![w] = p]
<1>4. /\ f \in [Wizards -> Slots]
      /\ f[w] = p /\ \A v \in Wizards : v # w => f[v] = own[s][v]
  BY <1>1, <1>3
<1>5. \A o \in Seats : own'[o] = IF o = s THEN f ELSE own[o]
  BY <1>2 DEF OwnOK
<1>6. own' \in [Seats -> [Wizards -> Slots]]
  BY <1>2, <1>4 DEF OwnOK
<1> HIDE DEF f
<1>7. \A o \in Seats, v \in Wizards :
        o # s \/ v # w => own'[o][v] = own[o][v]
  BY <1>4, <1>5
<1>8. own'[s][w] = p
  BY <1>4, <1>5
<1>9. \A o \in Seats, v \in Wizards : own'[o][v] \in Picks(v)
  BY <1>7, <1>8 DEF OwnOK
<1> QED
  BY <1>6, <1>7, <1>8, <1>9 DEF OwnOK

LEMMA GotoOne ==
  ASSUME AtOK, NEW s \in Seats, NEW w \in Wizards,
         NEW n \in {0} \cup Steps, Goto(s, w, n)
  PROVE  /\ AtOK' /\ at'[s][w] = n
         /\ \A o \in Seats, v \in Wizards :
              o # s \/ v # w => at'[o][v] = at[o][v]
<1>1. at' = [at EXCEPT ![s] = [at[s] EXCEPT ![w] = n]]
  BY DEF Goto
<1>2. at[s] \in [Wizards -> {0} \cup Steps]
  BY DEF AtOK
<1> DEFINE f == [at[s] EXCEPT ![w] = n]
<1>3. /\ f \in [Wizards -> {0} \cup Steps]
      /\ f[w] = n /\ \A v \in Wizards : v # w => f[v] = at[s][v]
  BY <1>2
<1>4. \A o \in Seats : at'[o] = IF o = s THEN f ELSE at[o]
  BY <1>1 DEF AtOK
<1>5. AtOK'
  BY <1>1, <1>3 DEF AtOK
<1> HIDE DEF f
<1> QED
  BY <1>3, <1>4, <1>5

(* A step of one dialogue: what it keeps for the dialogue and for the user *)
(* is the same, or the user is excused, or the dialogue is closed; it is   *)
(* opened only when no other is, or with an excuse.                        *)
LEMMA DialogueMoves ==
  ASSUME DialoguesInv, Growing,
         NEW s \in Seats, NEW w \in Wizards,
         NEW p \in Picks(w), NEW q \in Picks(w),
         NEW n \in {0} \cup Steps,
         SetPick(s, w, p), SetOwn(s, w, q), Goto(s, w, n),
         w # "watch" \/ p = q \/ s[2] \in excused' \/ n = 0,
         w # "watch" \/ at[s][w] # 0 \/ ~SharesPick(s, w) \/ s[2] \in excused'
  PROVE  DialoguesInv'
<1>0. AtOK /\ PickOK /\ OwnOK /\ PickIsOwn /\ OneDialogue /\ s[2] \in Users
  BY SeatsOf DEF DialoguesInv, DialoguesOK
<1>1. /\ PickOK' /\ pick'[s[2]][w] = p
      /\ \A u \in Users, v \in Wizards :
           u # s[2] \/ v # w => pick'[u][v] = pick[u][v]
  BY <1>0, SetPickOne
<1>2. /\ OwnOK' /\ own'[s][w] = q
      /\ \A o \in Seats, v \in Wizards :
           o # s \/ v # w => own'[o][v] = own[o][v]
  BY <1>0, SetOwnOne
<1>3. /\ AtOK' /\ at'[s][w] = n
      /\ \A o \in Seats, v \in Wizards :
           o # s \/ v # w => at'[o][v] = at[o][v]
  BY <1>0, GotoOne
<1>4. "watch" \in Wizards
  BY DEF Wizards
<1>5. ASSUME w = "watch", NEW o \in Seats, o # s, o[2] = s[2], at[o]["watch"] # 0
      PROVE  s[2] \in excused'
  <2>1. CASE at[s][w] # 0
    BY <1>0, <1>5, <2>1 DEF OneDialogue, Growing
  <2>2. CASE at[s][w] = 0
    BY <1>5, <2>2 DEF SharesPick
  <2> QED
    BY <2>1, <2>2
<1>6. PickIsOwn'
  <2> SUFFICES ASSUME NEW o \in Seats, o[2] \notin excused', at'[o]["watch"] # 0
               PROVE  own'[o]["watch"] = pick'[o[2]]["watch"]
    BY DEF PickIsOwn
  <2>0. o[2] \in Users /\ o[2] \notin excused
    BY SeatsOf DEF Growing
  <2>1. CASE w # "watch"
    BY <1>0, <1>1, <1>2, <1>3, <1>4, <2>0, <2>1 DEF PickIsOwn
  <2>2. CASE w = "watch" /\ o = s
    BY <1>1, <1>2, <1>3, <2>2
  <2>3. CASE w = "watch" /\ o # s
    <3>1. at[o]["watch"] # 0 /\ own'[o]["watch"] = own[o]["watch"]
      BY <1>2, <1>3, <1>4, <2>3
    <3>2. o[2] # s[2]
      BY <1>5, <2>3, <3>1
    <3> QED
      BY <1>0, <1>1, <1>4, <2>0, <3>1, <3>2 DEF PickIsOwn
  <2> QED
    BY <2>1, <2>2, <2>3
<1>7. OneDialogue'
  <2> SUFFICES ASSUME NEW x \in Seats, NEW o \in Seats, x # o, x[2] = o[2],
                      at'[x]["watch"] # 0, at'[o]["watch"] # 0
               PROVE  x[2] \in excused'
    BY DEF OneDialogue
  <2>1. CASE w # "watch" \/ (x # s /\ o # s)
    BY <1>0, <1>3, <1>4, <2>1 DEF OneDialogue, Growing
  <2>2. CASE w = "watch" /\ x = s
    BY <1>3, <1>4, <1>5, <2>2
  <2>3. CASE w = "watch" /\ o = s
    BY <1>3, <1>4, <1>5, <2>3
  <2> QED
    BY <2>1, <2>2, <2>3
<1> QED
  BY <1>1, <1>2, <1>3, <1>6, <1>7 DEF DialoguesInv, DialoguesOK

(* The picks there are. *)
LEMMA NoPickIsAPick == \A w \in Wizards : NoPick \in Picks(w)
  BY DEF NoPick, Picks, Choices, WatchChoices,
         ScanChoices, Steps

LEMMA ChoiceIsAPick ==
  ASSUME NEW w \in Wizards, NEW p \in Picks(w), NEW n \in 1..3,
         NEW v \in Choices(w, n)
  PROVE  [p EXCEPT ![n] = v] \in Picks(w)
<1>1. n \in Steps
  BY DEF Steps
<1>2. v \in Coins \cup Tfs \cup {"any", "oneshot", "standing", None}
  BY RequestsAssumption DEF Choices, WatchChoices, ScanChoices
<1>3. \A m \in Steps : [p EXCEPT ![n] = v][m] = IF m = n THEN v ELSE p[m]
  BY DEF Picks
<1>4. [p EXCEPT ![n] = v]
        \in [Steps -> Coins \cup Tfs \cup {"any", "oneshot", "standing", None}]
  BY <1>1, <1>2 DEF Picks
<1> QED
  BY <1>3, <1>4 DEF Picks

LEMMA KindAgainIsAPick ==
  ASSUME NEW p \in Picks("scan")
  PROVE  KindAgain(p) \in Picks("scan")
<1>1. 1 \in Steps /\ "oneshot" \in Choices("scan", 1)
  BY DEF Steps, Choices, ScanChoices
<1>2. \A m \in Steps :
        [p EXCEPT ![1] = "oneshot"][m] = IF m = 1 THEN "oneshot" ELSE p[m]
  BY DEF Picks
<1>3. [p EXCEPT ![1] = "oneshot"]
        \in [Steps -> Coins \cup Tfs \cup {"any", "oneshot", "standing", None}]
  BY <1>1 DEF Picks
<1>4. [p EXCEPT ![1] = "oneshot"] \in Picks("scan")
  BY <1>1, <1>2, <1>3 DEF Picks
<1> QED
  BY <1>4 DEF KindAgain

LEMMA WatchOfAPick ==
  ASSUME NEW p \in Picks("watch"), Complete(p, "watch")
  PROVE  <<p[1], p[2]>> \in Watches
<1>1. /\ p[1] \in Choices("watch", 1) \cup {None}
      /\ p[2] \in Choices("watch", 2) \cup {None}
  BY DEF Picks, Steps
<1>2. p[1] # None /\ p[2] # None
  BY DEF Complete, Needs
<1> QED
  BY <1>1, <1>2 DEF Choices, WatchChoices, Watches

(* What the commands and the taps do to the lists. *)
LEMMA PutOK ==
  ASSUME ListsOK, NEW c \in Chats, NEW new \in SUBSET Watches, Put(c, new)
  PROVE  /\ rows' \in [Chats -> SUBSET Watches]
         /\ \A x \in Chats : rows'[x] = IF x = c THEN rows[c] \cup new ELSE rows[x]
  BY DEF ListsOK, Put

LEMMA RemoveOK ==
  ASSUME ListsOK, NEW c \in Chats, NEW old, Remove(c, old)
  PROVE  /\ rows' \in [Chats -> SUBSET Watches]
         /\ \A x \in Chats : rows'[x] = IF x = c THEN rows[c] \ old ELSE rows[x]
  BY DEF ListsOK, Remove

(* A step that changes the lists only. *)
LEMMA ListStep ==
  ASSUME ServiceInv, Growing, ListsOK', ListIsWhatWasAsked',
         UNCHANGED <<at, pick, own, pending, asked, answered, pull>>
  PROVE  ServiceInv'
  BY DialoguesStay, TokensStay, PullStays DEF ServiceInv

LEMMA NoteStep ==
  ASSUME ServiceInv, NEW c \in Chats, Note(c)
  PROVE  ServiceInv'
<1>1. /\ UNCHANGED <<at, pick, own, pending, asked, answered, pull>>
      /\ UNCHANGED <<rows, want, scans, clearing, excused>>
  BY DEF Note, Handling, userData, history
<1>2. Growing /\ ListsOK'
  BY <1>1 DEF Note, Upsert, ServiceInv, ListsOK, Growing
<1> QED
  BY <1>1, <1>2, ListsStay, ListStep DEF ServiceInv

LEMMA WatchStep ==
  ASSUME ServiceInv, NEW s \in Seats, NEW coins \in SUBSET Coins,
         NEW tfs \in SUBSET PushTfs, NEW verdict, Watch(s, coins, tfs, verdict)
  PROVE  ServiceInv'
<1> DEFINE new == coins \X tfs
<1>1. /\ UNCHANGED <<at, pick, own, pending, asked, answered, pull>>
      /\ UNCHANGED <<scans, clearing, excused>>
      /\ Upsert(s[1])
      /\ \/ Put(s[1], new) /\ want' = [want EXCEPT ![s[1]] = @ \cup new]
         \/ UNCHANGED <<rows, want>>
  BY DEF Watch, Handling, userData
<1>2. s[1] \in Chats /\ new \in SUBSET Watches
  BY SeatsOf DEF Watches
<1>3. Growing /\ subs' \subseteq Chats
  BY <1>1, <1>2 DEF Upsert, ServiceInv, ListsOK, Growing
<1> HIDE DEF new
<1>4. CASE UNCHANGED <<rows, want>>
  <2>1. ListsOK'
    BY <1>1, <1>3, <1>4 DEF ServiceInv, ListsOK
  <2> QED
    BY <1>1, <1>3, <1>4, <2>1, ListsStay, ListStep DEF ServiceInv
<1>5. CASE Put(s[1], new) /\ want' = [want EXCEPT ![s[1]] = @ \cup new]
  <2>1. /\ rows' \in [Chats -> SUBSET Watches]
        /\ \A x \in Chats : rows'[x] = IF x = s[1] THEN rows[s[1]] \cup new ELSE rows[x]
    BY <1>2, <1>5, PutOK DEF ServiceInv
  <2>2. /\ want' \in [Chats -> SUBSET Watches]
        /\ \A x \in Chats : want'[x] = IF x = s[1] THEN want[s[1]] \cup new ELSE want[x]
    BY <1>2, <1>5 DEF ServiceInv, ListsOK
  <2>3. ListsOK'
    BY <1>1, <1>3, <2>1, <2>2 DEF ServiceInv, ListsOK
  <2>4. ListIsWhatWasAsked'
    BY <1>1, <1>2, <2>1, <2>2 DEF ServiceInv, ListIsWhatWasAsked
  <2> QED
    BY <1>1, <1>3, <2>3, <2>4, ListStep
<1> QED
  BY <1>1, <1>4, <1>5

LEMMA AskBatchStep ==
  ASSUME ServiceInv, NEW s \in Seats, NEW t \in Tokens, NEW b \in Batch,
         AskBatch(s, t, b)
  PROVE  ServiceInv'
<1>1. /\ UNCHANGED <<at, pick, own, pull, rows, want, scans, clearing, excused, answered>>
      /\ Upsert(s[1])
      /\ asked[t] = None
      /\ pending' = [pending EXCEPT ![t] = b]
      /\ asked' = [asked EXCEPT ![t] = b]
  BY DEF AskBatch, Handling
<1>2. Growing /\ ListsOK'
  BY <1>1, SeatsOf DEF Upsert, ServiceInv, ListsOK, Growing
<1>3. TokensOK'
  BY <1>1 DEF ServiceInv, TokensInv, TokensOK
<1>4. \A x \in Tokens : /\ pending'[x] = (IF x = t THEN b ELSE pending[x])
                       /\ asked'[x] = (IF x = t THEN b ELSE asked[x])
  BY <1>1 DEF ServiceInv, TokensInv, TokensOK
<1>5. TokensFresh'
  BY <1>1, <1>4 DEF ServiceInv, TokensInv, TokensFresh
<1> QED
  BY <1>1, <1>2, <1>3, <1>5, ListsStay, DialoguesStay, PullStays DEF ServiceInv, TokensInv

LEMMA TapBatchStep ==
  ASSUME ServiceInv, NEW u \in Users, NEW t \in Tokens, NEW choice,
         NEW universe \in SUBSET Coins, NEW verdict,
         TapBatch(u, t, choice, universe, verdict)
  PROVE  ServiceInv'
<1> DEFINE b == Popped(u, t)
           new == BatchCoins(b, choice, universe) \X b.tfs
<1>1. /\ UNCHANGED <<at, pick, own, pull, subs, scans, clearing, asked>>
      /\ asked[t] # None
      /\ Pop(u, t)
      /\ answered' = IF asked[t].user = u THEN answered \cup {t} ELSE answered
      /\ \/ UNCHANGED <<rows, want, excused>>
         \/ /\ b # None
            /\ Put(u, new)
            /\ want' = IF t \in answered THEN want
                        ELSE [want EXCEPT ![asked[t].chat] = @ \cup new]
            /\ excused' = excused \cup (IF u = b.chat THEN {} ELSE {u, b.chat})
  BY DEF TapBatch, Handling
<1>2. u \in Chats /\ asked[t] \in Batch
  BY <1>1 DEF Chats, ServiceInv, TokensInv, TokensOK
<1>3. b # None => /\ b = pending[t] /\ b = asked[t] /\ b.user = u /\ t \notin answered
                  /\ new \in SUBSET Watches /\ b.chat \in Chats
  <2> SUFFICES ASSUME b # None
               PROVE  /\ b = pending[t] /\ b = asked[t] /\ b.user = u /\ t \notin answered
                      /\ new \in SUBSET Watches /\ b.chat \in Chats
    OBVIOUS
  <2>1. b = pending[t] /\ b.user = u
    BY DEF Popped
  <2>2. b = asked[t] /\ t \notin answered
    BY <2>1 DEF ServiceInv, TokensInv, TokensFresh
  <2>3. b \in Batch
    BY <1>2, <2>2
  <2>4. BatchCoins(b, choice, universe) \subseteq Coins
    BY <2>3, RequestsAssumption DEF BatchCoins, Batch
  <2>5. b.tfs \subseteq PushTfs /\ b.chat \in Chats
    BY <2>3 DEF Batch
  <2> QED
    BY <2>1, <2>2, <2>4, <2>5 DEF Watches
<1>4. pending' = IF b = None THEN pending ELSE [pending EXCEPT ![t] = None]
  BY <1>1 DEF Pop
<1>5. TokensInv'
  <2>1. TokensOK'
    BY <1>1, <1>4 DEF ServiceInv, TokensInv, TokensOK
  <2>2. \A x \in Tokens : x # t => pending'[x] = pending[x] /\ (x \in answered' <=> x \in answered)
    BY <1>1, <1>4 DEF ServiceInv, TokensInv, TokensOK
  <2>3. pending'[t] # None => pending'[t] = asked'[t] /\ t \notin answered'
    <3> SUFFICES ASSUME pending'[t] # None PROVE pending'[t] = asked'[t] /\ t \notin answered'
      OBVIOUS
    <3>1. b = None /\ pending' = pending
      BY <1>4 DEF ServiceInv, TokensInv, TokensOK
    <3>2. pending[t] # None /\ pending[t].user # u
      BY <3>1 DEF Popped
    <3> QED
      BY <1>1, <3>1, <3>2 DEF ServiceInv, TokensInv, TokensFresh
  <2> QED
    BY <1>1, <2>1, <2>2, <2>3 DEF ServiceInv, TokensInv, TokensFresh
<1> HIDE DEF new, b
<1>6. CASE UNCHANGED <<rows, want, excused>>
  <2>1. Growing /\ ListsOK'
    BY <1>1, <1>6 DEF ServiceInv, ListsOK, Growing
  <2> QED
    BY <1>1, <1>5, <1>6, <2>1, ListsStay, DialoguesStay, PullStays DEF ServiceInv
<1>7. CASE /\ b # None
           /\ Put(u, new)
           /\ want' = IF t \in answered THEN want
                       ELSE [want EXCEPT ![asked[t].chat] = @ \cup new]
           /\ excused' = excused \cup (IF u = b.chat THEN {} ELSE {u, b.chat})
  <2>1. /\ rows' \in [Chats -> SUBSET Watches]
        /\ \A x \in Chats : rows'[x] = IF x = u THEN rows[u] \cup new ELSE rows[x]
    BY <1>2, <1>3, <1>7, PutOK DEF ServiceInv
  <2>2. want' = [want EXCEPT ![b.chat] = @ \cup new]
    BY <1>3, <1>7
  <2>3. /\ want' \in [Chats -> SUBSET Watches]
        /\ \A x \in Chats : want'[x] = IF x = b.chat THEN want[b.chat] \cup new ELSE want[x]
    BY <1>3, <1>7, <2>2 DEF ServiceInv, ListsOK
  <2>4. Growing
    BY <1>2, <1>3, <1>7 DEF ServiceInv, ListsOK, Growing
  <2>5. ListsOK'
    BY <1>1, <2>1, <2>3, <2>4 DEF ServiceInv, ListsOK, Growing
  <2>6. ListIsWhatWasAsked'
    <3> SUFFICES ASSUME NEW x \in Chats, x \notin excused' PROVE rows'[x] = want'[x]
      BY DEF ListIsWhatWasAsked
    <3>1. rows[x] = want[x] /\ (x = u <=> x = b.chat)
      BY <1>7 DEF ServiceInv, ListIsWhatWasAsked
    <3> QED
      BY <2>1, <2>3, <3>1
  <2> QED
    BY <1>1, <1>5, <2>4, <2>5, <2>6, DialoguesStay, PullStays DEF ServiceInv
<1> QED
  BY <1>1, <1>6, <1>7

LEMMA UnwatchStep ==
  ASSUME ServiceInv, NEW c \in Chats, NEW coins, NEW tfs, Unwatch(c, coins, tfs)
  PROVE  ServiceInv'
<1> DEFINE old == coins \X tfs
<1>1. /\ UNCHANGED <<at, pick, own, pending, asked, answered, pull>>
      /\ UNCHANGED <<scans, clearing, excused>>
      /\ Upsert(c)
      /\ Remove(c, old)
      /\ want' = [want EXCEPT ![c] = @ \ old]
  BY DEF Unwatch, Handling, userData
<1> HIDE DEF old
<1>2. Growing /\ subs' \subseteq Chats
  BY <1>1 DEF Upsert, ServiceInv, ListsOK, Growing
<1>3. /\ rows' \in [Chats -> SUBSET Watches]
      /\ \A x \in Chats : rows'[x] = IF x = c THEN rows[c] \ old ELSE rows[x]
  BY <1>1, RemoveOK DEF ServiceInv
<1>4. /\ want' \in [Chats -> SUBSET Watches]
      /\ \A x \in Chats : want'[x] = IF x = c THEN want[c] \ old ELSE want[x]
  BY <1>1 DEF ServiceInv, ListsOK
<1>5. ListsOK'
  BY <1>1, <1>2, <1>3, <1>4 DEF ServiceInv, ListsOK
<1>6. ListIsWhatWasAsked'
  BY <1>1, <1>3, <1>4 DEF ServiceInv, ListIsWhatWasAsked
<1> QED
  BY <1>1, <1>2, <1>5, <1>6, ListStep

LEMMA UnwatchallStep ==
  ASSUME ServiceInv, NEW c \in Chats, Unwatchall(c)
  PROVE  ServiceInv'
<1>1. /\ UNCHANGED <<at, pick, own, pending, asked, answered, pull>>
      /\ UNCHANGED <<rows, want, scans, excused>>
  BY DEF Unwatchall, Handling, userData, history
<1>2. Growing /\ ListsOK'
  BY <1>1 DEF Unwatchall, Upsert, ServiceInv, ListsOK, Growing
<1> QED
  BY <1>1, <1>2, ListsStay, ListStep DEF ServiceInv

LEMMA TapUnwatchallStep ==
  ASSUME ServiceInv, NEW s \in Seats, NEW yes \in BOOLEAN, NEW edited \in BOOLEAN,
         TapUnwatchall(s, yes, edited)
  PROVE  ServiceInv'
<1>1. /\ UNCHANGED <<at, pick, own, pending, asked, answered, pull>>
      /\ UNCHANGED <<subs, scans>> /\ clearing' \subseteq clearing
      /\ \/ UNCHANGED <<rows, want, excused>>
         \/ /\ Remove(s[2], rows[s[2]])
            /\ want' = [want EXCEPT ![s[1]] = {}]
            /\ excused' = excused \cup (IF s[2] = s[1] THEN {} ELSE {s[2], s[1]})
  BY DEF TapUnwatchall, Handling, userData
<1>2. s[1] \in Chats /\ s[2] \in Chats
  BY SeatsOf
<1>3. CASE UNCHANGED <<rows, want, excused>>
  <2>1. Growing /\ ListsOK'
    BY <1>1, <1>3 DEF ServiceInv, ListsOK, Growing
  <2> QED
    BY <1>1, <1>3, <2>1, ListsStay, ListStep DEF ServiceInv
<1>4. CASE /\ Remove(s[2], rows[s[2]])
           /\ want' = [want EXCEPT ![s[1]] = {}]
           /\ excused' = excused \cup (IF s[2] = s[1] THEN {} ELSE {s[2], s[1]})
  <2>1. /\ rows' \in [Chats -> SUBSET Watches]
        /\ \A x \in Chats : rows'[x] = IF x = s[2] THEN {} ELSE rows[x]
    <3> DEFINE old == rows[s[2]]
    <3>1. ListsOK /\ Remove(s[2], old)
      BY <1>4 DEF ServiceInv
    <3> HIDE DEF old
    <3>2. /\ rows' \in [Chats -> SUBSET Watches]
          /\ \A x \in Chats :
               rows'[x] = IF x = s[2] THEN rows[s[2]] \ old ELSE rows[x]
      BY <1>2, <3>1, RemoveOK
    <3> QED
      BY <3>2 DEF old
  <2>2. /\ want' \in [Chats -> SUBSET Watches]
        /\ \A x \in Chats : want'[x] = IF x = s[1] THEN {} ELSE want[x]
    BY <1>2, <1>4 DEF ServiceInv, ListsOK
  <2>3. Growing
    BY <1>2, <1>4 DEF ServiceInv, ListsOK, Growing
  <2>4. ListsOK'
    BY <1>1, <2>1, <2>2, <2>3 DEF ServiceInv, ListsOK, Growing
  <2>5. ListIsWhatWasAsked'
    <3> SUFFICES ASSUME NEW x \in Chats, x \notin excused' PROVE rows'[x] = want'[x]
      BY DEF ListIsWhatWasAsked
    <3>1. rows[x] = want[x] /\ (x = s[1] <=> x = s[2])
      BY <1>4 DEF ServiceInv, ListIsWhatWasAsked
    <3> QED
      BY <2>1, <2>2, <3>1
  <2> QED
    BY <1>1, <2>3, <2>4, <2>5, ListStep
<1> QED
  BY <1>1, <1>3, <1>4

LEMMA TapAdoptionStep ==
  ASSUME ServiceInv, NEW u \in Users, NEW watch \in Watches, TapAdoption(u, watch)
  PROVE  ServiceInv'
<1>1. /\ UNCHANGED <<at, pick, own, pending, asked, answered, pull>>
      /\ UNCHANGED <<scans, clearing, excused>>
      /\ Upsert(u)
      /\ Put(u, {watch})
      /\ want' = [want EXCEPT ![u] = @ \cup {watch}]
  BY DEF TapAdoption, OneTapWatch, Handling, userData
<1>2. u \in Chats
  BY DEF Chats
<1>3. Growing /\ subs' \subseteq Chats
  BY <1>1, <1>2 DEF Upsert, ServiceInv, ListsOK, Growing
<1>4. /\ rows' \in [Chats -> SUBSET Watches]
      /\ \A x \in Chats : rows'[x] = IF x = u THEN rows[u] \cup {watch} ELSE rows[x]
  BY <1>1, <1>2, PutOK DEF ServiceInv
<1>5. /\ want' \in [Chats -> SUBSET Watches]
      /\ \A x \in Chats : want'[x] = IF x = u THEN want[u] \cup {watch} ELSE want[x]
  BY <1>1, <1>2 DEF ServiceInv, ListsOK
<1>6. ListsOK'
  BY <1>1, <1>3, <1>4, <1>5 DEF ServiceInv, ListsOK
<1>7. ListIsWhatWasAsked'
  BY <1>1, <1>2, <1>4, <1>5 DEF ServiceInv, ListIsWhatWasAsked
<1> QED
  BY <1>1, <1>3, <1>6, <1>7, ListStep

(* The standing digests. *)
LEMMA DigestsStep ==
  ASSUME ServiceInv, NEW c \in Chats, Upsert(c),
         NEW tfs \in SUBSET PushTfs,
         \/ UNCHANGED scans
         \/ scans' = [scans EXCEPT ![c] = tfs],
         UNCHANGED <<at, pick, own, pending, asked, answered, pull>>,
         UNCHANGED <<rows, want, clearing, excused>>
  PROVE  ServiceInv'
<1>1. Growing /\ ListsOK'
  BY DEF Upsert, ServiceInv, ListsOK, Growing
<1> QED
  BY <1>1, ListsStay, ListStep DEF ServiceInv

LEMMA ScanwatchIs ==
  ASSUME ListsOK, NEW c \in Chats, NEW tf, Scanwatch(c, tf)
  PROVE  /\ Upsert(c)
         /\ \E tfs \in SUBSET PushTfs :
              UNCHANGED scans \/ scans' = [scans EXCEPT ![c] = tfs]
<1>1. CASE tf \in PushTfs
  <2>1. scans[c] \cup {tf} \in SUBSET PushTfs
    BY <1>1 DEF ListsOK
  <2> QED
    BY <1>1, <2>1 DEF Scanwatch, Pushable, AddScanWatch
<1>2. CASE tf \notin PushTfs
  BY <1>2 DEF Scanwatch, Pushable
<1> QED
  BY <1>1, <1>2

LEMMA DigestSteps ==
  ASSUME ServiceInv,
         \/ \E s \in Seats, tf \in Tfs : TypedScanwatch(s, tf)
         \/ \E u \in Users, tf \in PushTfs : TapAdoptionScan(u, tf)
         \/ \E c \in Chats, tf \in PushTfs : Unscanwatch(c, tf)
  PROVE  ServiceInv'
<1>0. ListsOK
  BY DEF ServiceInv
<1>1. /\ UNCHANGED <<at, pick, own, pending, asked, answered, pull>>
      /\ UNCHANGED <<rows, want, clearing, excused>>
  BY DEF TypedScanwatch, TapAdoptionScan, Unscanwatch,
         Handling, userData, history
<1>2. ASSUME NEW s \in Seats, NEW tf \in Tfs, TypedScanwatch(s, tf)
      PROVE  ServiceInv'
  BY <1>0, <1>1, <1>2, SeatsOf, ScanwatchIs, DigestsStep DEF TypedScanwatch
<1>3. ASSUME NEW u \in Users, NEW tf \in PushTfs, TapAdoptionScan(u, tf)
      PROVE  ServiceInv'
  <2>1. u \in Chats
    BY DEF Chats
  <2>2. scans[u] \cup {tf} \in SUBSET PushTfs
    BY <1>0, <2>1 DEF ListsOK
  <2>3. Upsert(u) /\ scans' = [scans EXCEPT ![u] = scans[u] \cup {tf}]
    BY <1>3 DEF TapAdoptionScan, OneTapScan, AddScanWatch
  <2> QED
    BY <1>1, <2>1, <2>2, <2>3, DigestsStep
<1>4. ASSUME NEW c \in Chats, NEW tf \in PushTfs, Unscanwatch(c, tf)
      PROVE  ServiceInv'
  <2>1. scans[c] \ {tf} \in SUBSET PushTfs
    BY <1>0 DEF ListsOK
  <2>2. Upsert(c) /\ scans' = [scans EXCEPT ![c] = scans[c] \ {tf}]
    BY <1>4 DEF Unscanwatch, RemoveScanWatch
  <2> QED
    BY <1>1, <2>1, <2>2, DigestsStep
<1> QED
  BY <1>2, <1>3, <1>4

LEMMA CommandsStep ==
  ASSUME ServiceInv, Commands
  PROVE  ServiceInv'
<1>1. ASSUME NEW s \in Seats, NEW coins \in SUBSET Coins, NEW tfs \in SUBSET PushTfs,
             NEW t \in Tokens, NEW all \in BOOLEAN,
             AskBatch(s, t, [chat |-> s[1], user |-> s[2], all |-> all,
                                     coins |-> coins, tfs |-> tfs])
      PROVE  ServiceInv'
  <2>1. [chat |-> s[1], user |-> s[2], all |-> all, coins |-> coins, tfs |-> tfs]
          \in Batch
    BY SeatsOf DEF Batch
  <2> QED
    BY <1>1, <2>1, AskBatchStep
<1>2. ASSUME NEW u \in Users, Menu(u)
      PROVE  ServiceInv'
  BY <1>2, NoteStep DEF Menu, List, Help, Unreadable, Chats
<1>3. ASSUME NEW c \in Chats,
             List(c) \/ Help(c) \/ Upgrade(c) \/ Unreadable(c)
      PROVE  ServiceInv'
  BY <1>3, NoteStep DEF List, Help, Upgrade, Unreadable
<1>4. ASSUME NEW u \in Users, NEW t \in Tokens, NEW choice \in {"add", "top", "cancel"},
             NEW universe \in {{}, Coins}, NEW verdict \in Verdicts,
             TapBatch(u, t, choice, universe, verdict)
      PROVE  ServiceInv'
  BY <1>4, TapBatchStep
<1> QED
  BY <1>1, <1>2, <1>3, <1>4, WatchStep, UnwatchStep, UnwatchallStep, TapUnwatchallStep,
     TapAdoptionStep, DigestSteps DEF Commands

(* The dialogues. *)
LEMMA DialogueFacts ==
  ASSUME ServiceInv, NEW s \in Seats, NEW w \in Wizards
  PROVE  /\ s[2] \in Users /\ s[2] \in Chats
         /\ pick[s[2]][w] \in Picks(w) /\ own[s][w] \in Picks(w)
         /\ at[s][w] \in {0} \cup Steps
         /\ w = "watch" /\ at[s][w] # 0 /\ s[2] \notin excused => own[s][w] = pick[s[2]][w]
BY SeatsOf DEF ServiceInv, DialoguesInv, DialoguesOK, PickOK, OwnOK, AtOK, PickIsOwn

(* A step of a dialogue that leaves the lists alone. *)
LEMMA DialogueStep ==
  ASSUME ServiceInv, Growing, DialoguesInv',
         UNCHANGED <<subs, rows, scans, clearing, want, pending, asked, answered, pull>>
  PROVE  ServiceInv'
<1>1. ListsOK'
  BY DEF ServiceInv, ListsOK, Growing
<1> QED
  BY <1>1, ListsStay, TokensStay, PullStays DEF ServiceInv

LEMMA EnterStep ==
  ASSUME ServiceInv, NEW s \in Seats, NEW w \in Wizards,
         NEW edited \in BOOLEAN, Enter(s, w, edited)
  PROVE  ServiceInv'
<1> DEFINE n == IF edited THEN 1 ELSE 0
<1>1. /\ UNCHANGED <<subs, rows, scans, clearing, want, pending, asked, answered, pull>>
      /\ SetPick(s, w, NoPick) /\ SetOwn(s, w, NoPick)
      /\ Goto(s, w, n)
      /\ excused' = IF SharesPick(s, w) THEN excused \cup {s[2]} ELSE excused
  BY DEF Enter, Handling, Excuse
<1>2. n \in {0} \cup Steps /\ NoPick \in Picks(w)
  BY NoPickIsAPick DEF Steps
<1>3. Growing /\ (~SharesPick(s, w) \/ s[2] \in excused')
  BY <1>1, DialogueFacts DEF Growing, ServiceInv, ListsOK
<1> HIDE DEF n
<1>4. DialoguesInv'
  BY <1>1, <1>2, <1>3, DialogueMoves DEF ServiceInv
<1> QED
  BY <1>1, <1>3, <1>4, DialogueStep

LEMMA ChooseStep ==
  ASSUME ServiceInv, NEW s \in Seats, NEW w \in Wizards, NEW v,
         NEW edited \in BOOLEAN, Choose(s, w, v, edited)
  PROVE  ServiceInv'
<1> DEFINE n == at[s][w]
           p == [pick[s[2]][w] EXCEPT ![n] = v]
           q == [own[s][w] EXCEPT ![n] = v]
           m == IF edited THEN n + 1 ELSE n
<1>1. /\ UNCHANGED <<subs, rows, scans, clearing, want, pending, asked, answered, pull, excused>>
      /\ n \in 1..3 /\ v \in Choices(w, n)
      /\ SetPick(s, w, p) /\ SetOwn(s, w, q) /\ Goto(s, w, m)
  BY DEF Choose, Handling
<1>2. p \in Picks(w) /\ q \in Picks(w)
  BY <1>1, DialogueFacts, ChoiceIsAPick
<1>3. m \in {0} \cup Steps /\ n # 0
  BY <1>1 DEF Steps
<1>4. w # "watch" \/ p = q \/ s[2] \in excused'
  BY <1>1, <1>3, DialogueFacts
<1>5. Growing
  BY <1>1 DEF Growing, ServiceInv, ListsOK
<1> HIDE DEF p, q, m
<1>6. DialoguesInv'
  BY <1>1, <1>2, <1>3, <1>4, <1>5, DialogueMoves DEF ServiceInv
<1> QED
  BY <1>1, <1>5, <1>6, DialogueStep

LEMMA BackStep ==
  ASSUME ServiceInv, NEW s \in Seats, NEW w \in Wizards,
         NEW edited \in BOOLEAN, Back(s, w, edited)
  PROVE  ServiceInv'
<1> DEFINE n == at[s][w]
           filled(x) == IF w = "scan" /\ n = 3 THEN KindAgain(x) ELSE x
           p == filled(pick[s[2]][w])
           q == filled(own[s][w])
           m == IF edited THEN n - 1 ELSE n
<1>1. /\ UNCHANGED <<subs, rows, scans, clearing, want, pending, asked, answered, pull, excused>>
      /\ n \in 2..4
      /\ SetPick(s, w, p) /\ SetOwn(s, w, q) /\ Goto(s, w, m)
  BY DEF Back, Handling
<1>2. p \in Picks(w) /\ q \in Picks(w)
  BY DialogueFacts, KindAgainIsAPick
<1>3. m \in {0} \cup Steps /\ n # 0
  BY <1>1 DEF Steps
<1>4. w # "watch" \/ p = q \/ s[2] \in excused'
  BY <1>1, <1>3, DialogueFacts
<1>5. Growing
  BY <1>1 DEF Growing, ServiceInv, ListsOK
<1> HIDE DEF p, q, m
<1>6. DialoguesInv'
  BY <1>1, <1>2, <1>3, <1>4, <1>5, DialogueMoves DEF ServiceInv
<1> QED
  BY <1>1, <1>5, <1>6, DialogueStep

LEMMA CancelStep ==
  ASSUME ServiceInv, NEW s \in Seats, NEW w \in Wizards,
         NEW edited \in BOOLEAN, Cancel(s, w, edited)
  PROVE  ServiceInv'
<1> DEFINE n == IF edited THEN 0 ELSE at[s][w]
<1>1. /\ UNCHANGED <<subs, rows, scans, clearing, want, pending, asked, answered, pull>>
      /\ at[s][w] # 0
      /\ SetPick(s, w, NoPick) /\ SetOwn(s, w, NoPick)
      /\ Goto(s, w, n)
      /\ excused' = IF ~edited THEN excused \cup {s[2]} ELSE excused
  BY DEF Cancel, Handling, Excuse
<1>2. n \in {0} \cup Steps /\ NoPick \in Picks(w)
  BY NoPickIsAPick, DialogueFacts
<1>3. Growing
  BY <1>1, DialogueFacts DEF Growing, ServiceInv, ListsOK
<1> HIDE DEF n
<1>4. DialoguesInv'
  BY <1>1, <1>2, <1>3, DialogueMoves DEF ServiceInv
<1> QED
  BY <1>1, <1>3, <1>4, DialogueStep

(* The last step of a scan dialogue, or of its answer. *)
LEMMA ClosedOK ==
  ASSUME ServiceInv, Growing, NEW s \in Seats, NEW edited \in BOOLEAN,
         Closed(s, edited)
  PROVE  DialoguesInv'
<1>1. CASE edited
  <2>1. "scan" \in Wizards /\ NoPick \in Picks("scan")
    BY NoPickIsAPick DEF Wizards
  <2>2. /\ SetPick(s, "scan", NoPick) /\ SetOwn(s, "scan", NoPick)
        /\ Goto(s, "scan", 0)
    BY <1>1 DEF Closed
  <2> QED
    BY <2>1, <2>2, DialogueMoves DEF ServiceInv
<1>2. CASE ~edited
  BY <1>2, DialoguesStay DEF Closed, ServiceInv
<1> QED
  BY <1>1, <1>2

LEMMA FinishWatchStep ==
  ASSUME ServiceInv, NEW s \in Seats, NEW edited \in BOOLEAN, FinishWatch(s, edited)
  PROVE  ServiceInv'
<1> DEFINE u == s[2]
           p == pick[u]["watch"]
           q == own[s]["watch"]
           n == IF edited THEN 0 ELSE 4
<1>1. /\ UNCHANGED <<subs, scans, clearing, pending, asked, answered, pull>>
      /\ at[s]["watch"] = 4
      /\ want' = IF Complete(q, "watch")
                   THEN [want EXCEPT ![u] = @ \cup {<<q[1], q[2]>>}] ELSE want
  BY DEF FinishWatch, Handling
<1>2. "watch" \in Wizards /\ 4 \in {0} \cup Steps
  BY DEF Wizards, Steps
<1>3. /\ u \in Users /\ u \in Chats
      /\ p \in Picks("watch") /\ q \in Picks("watch")
      /\ u \notin excused => p = q
  <2>1. at[s]["watch"] # 0
    BY <1>1
  <2> QED
    BY <1>2, <2>1, DialogueFacts
<1>4. /\ want' \in [Chats -> SUBSET Watches]
      /\ \A x \in Chats :
           want'[x] = IF x = u /\ Complete(q, "watch")
                      THEN want[u] \cup {<<q[1], q[2]>>} ELSE want[x]
  <2>1. CASE Complete(q, "watch")
    <3>1. <<q[1], q[2]>> \in Watches
      BY <1>3, <2>1, WatchOfAPick
    <3> QED
      BY <1>1, <1>3, <2>1, <3>1 DEF ServiceInv, ListsOK
  <2>2. CASE ~Complete(q, "watch")
    BY <1>1, <2>2 DEF ServiceInv, ListsOK
  <2> QED
    BY <2>1, <2>2
<1>5. CASE Complete(p, "watch") /\ u \in subs
  <2>1. /\ Put(u, {<<p[1], p[2]>>})
        /\ excused' = IF ~Complete(q, "watch") THEN excused \cup {u} ELSE excused
        /\ Goto(s, "watch", n)
        /\ IF edited THEN SetPick(s, "watch", NoPick)
                            /\ SetOwn(s, "watch", NoPick)
                     ELSE UNCHANGED <<pick, own>>
    BY <1>5 DEF FinishWatch, Excuse
  <2>2. <<p[1], p[2]>> \in Watches
    BY <1>3, <1>5, WatchOfAPick
  <2>3. /\ rows' \in [Chats -> SUBSET Watches]
        /\ \A x \in Chats :
             rows'[x] = IF x = u THEN rows[u] \cup {<<p[1], p[2]>>} ELSE rows[x]
    <3> DEFINE new == {<<p[1], p[2]>>}
    <3>1. ListsOK /\ Put(u, new) /\ new \in SUBSET Watches
      BY <2>1, <2>2 DEF ServiceInv
    <3> HIDE DEF new
    <3>2. /\ rows' \in [Chats -> SUBSET Watches]
          /\ \A x \in Chats : rows'[x] = IF x = u THEN rows[u] \cup new ELSE rows[x]
      BY <1>3, <3>1, PutOK
    <3> QED
      BY <3>2 DEF new
  <2>4. Growing
    BY <1>3, <2>1 DEF Growing, ServiceInv, ListsOK
  <2>5. ListsOK'
    BY <1>1, <1>4, <2>3, <2>4 DEF ServiceInv, ListsOK, Growing
  <2>6. ListIsWhatWasAsked'
    <3> SUFFICES ASSUME NEW x \in Chats, x \notin excused' PROVE rows'[x] = want'[x]
      BY DEF ListIsWhatWasAsked
    <3>1. rows[x] = want[x] /\ x \notin excused
      BY <2>4 DEF Growing, ServiceInv, ListIsWhatWasAsked
    <3>2. x = u => p = q /\ Complete(q, "watch")
      BY <1>3, <2>1, <3>1
    <3>3. x # u => rows'[x] = rows[x] /\ want'[x] = want[x]
      BY <1>4, <2>3
    <3>4. x = u => /\ rows'[x] = rows[x] \cup {<<p[1], p[2]>>}
                   /\ want'[x] = want[x] \cup {<<q[1], q[2]>>}
      BY <1>4, <2>3, <3>2
    <3> HIDE DEF p, q
    <3> QED
      BY <3>1, <3>2, <3>3, <3>4
  <2>7. DialoguesInv'
    <3>1. CASE edited
      <4>1. /\ SetPick(s, "watch", NoPick)
            /\ SetOwn(s, "watch", NoPick)
            /\ Goto(s, "watch", 0) /\ at[s]["watch"] # 0
        BY <1>1, <2>1, <3>1
      <4> QED
        BY <1>2, <2>4, <4>1, NoPickIsAPick, DialogueMoves DEF ServiceInv
    <3>2. CASE ~edited
      <4>1. Goto(s, "watch", 4) /\ UNCHANGED <<pick, own>>
        BY <2>1, <3>2
      <4>2. at' = [at EXCEPT ![s] = [at[s] EXCEPT !["watch"] = 4]]
        BY <4>1 DEF Goto
      <4>3. at[s] = [at[s] EXCEPT !["watch"] = 4]
        BY <1>1, <1>2 DEF ServiceInv, DialoguesInv, DialoguesOK, AtOK
      <4>4. at' = at
        BY <4>2, <4>3 DEF ServiceInv, DialoguesInv, DialoguesOK, AtOK
      <4> QED
        BY <2>4, <4>1, <4>4, DialoguesStay DEF ServiceInv
    <3> QED
      BY <3>1, <3>2
  <2> QED
    BY <1>1, <2>5, <2>6, <2>7, TokensStay, PullStays DEF ServiceInv
<1>6. CASE ~(Complete(p, "watch") /\ u \in subs)
  <2>1. /\ UNCHANGED <<rows, at, pick, own>>
        /\ excused' = IF u \notin subs THEN excused \cup {u} ELSE excused
    BY <1>6 DEF FinishWatch, Excuse
  <2>2. Growing
    BY <1>3, <2>1 DEF Growing, ServiceInv, ListsOK
  <2>3. ListsOK'
    BY <1>1, <1>4, <2>1, <2>2 DEF ServiceInv, ListsOK, Growing
  <2>4. ListIsWhatWasAsked'
    <3> SUFFICES ASSUME NEW x \in Chats, x \notin excused' PROVE rows'[x] = want'[x]
      BY DEF ListIsWhatWasAsked
    <3>1. rows[x] = want[x] /\ x \notin excused
      BY <2>2 DEF Growing, ServiceInv, ListIsWhatWasAsked
    <3>2. x = u => ~Complete(q, "watch")
      BY <1>3, <1>6, <2>1, <3>1
    <3> QED
      BY <1>4, <2>1, <3>1, <3>2
  <2> QED
    BY <1>1, <2>1, <2>2, <2>3, <2>4, DialoguesStay, TokensStay, PullStays DEF ServiceInv
<1> QED
  BY <1>5, <1>6

LEMMA FinishStandingStep ==
  ASSUME ServiceInv, NEW s \in Seats, NEW edited \in BOOLEAN,
         FinishStanding(s, edited)
  PROVE  ServiceInv'
<1> DEFINE tf == pick[s[2]]["scan"][3]
<1>1. /\ UNCHANGED <<rows, want, clearing, pending, asked, answered, pull, excused>>
      /\ Scanwatch(s[2], tf) /\ Closed(s, edited)
  BY DEF FinishStanding, Handling
<1> HIDE DEF tf
<1>2. PICK tfs \in SUBSET PushTfs :
        /\ Upsert(s[2])
        /\ UNCHANGED scans \/ scans' = [scans EXCEPT ![s[2]] = tfs]
  BY <1>1, SeatsOf, ScanwatchIs DEF ServiceInv
<1>3. Growing /\ ListsOK'
  BY <1>1, <1>2, SeatsOf DEF Upsert, ServiceInv, ListsOK, Growing
<1> QED
  BY <1>1, <1>3, ClosedOK, ListsStay, TokensStay, PullStays DEF ServiceInv

(* The requests on demand. *)
LEMMA GateOK ==
  ASSUME PullInv, NEW c \in Chats, NEW lane \in Lanes,
         NEW seat \in Seats \cup {None}, NEW room \in 0..MaxRoom,
         Gate(c, lane, seat, room)
  PROVE  PullInv'
<1> DEFINE r == [chat |-> c, lane |-> lane, seat |-> seat, stage |-> "ask",
                 room |-> room, calls |-> 0, due |-> 0, paid |-> 0]
<1>1. pull' = None \/ pull' = r
  BY DEF Gate
<1>2. r \in Pull
  BY RequestsAssumption DEF Pull
<1>3. r.stage = "ask" /\ r.calls = 0 /\ r.due = 0 /\ r.paid = 0
  OBVIOUS
<1> HIDE DEF r
<1> QED
  BY <1>1, <1>2, <1>3 DEF PullInv, PullOK, PullIsCharged

LEMMA AskSteps ==
  ASSUME ServiceInv, NEW room \in 0..MaxRoom,
         \/ \E s \in Seats, lane \in Lanes : Ask(s, lane, room)
         \/ \E u \in Users : MenuFunding(u, room)
  PROVE  ServiceInv'
<1>1. PICK c \in Chats, lane \in Lanes :
        /\ Gate(c, lane, None, room)
        /\ UNCHANGED <<rows, want, scans, clearing, excused>>
        /\ UNCHANGED <<at, pick, own, pending, asked, answered>>
  <2>1. ASSUME NEW s \in Seats, NEW lane \in Lanes, Ask(s, lane, room)
        PROVE  /\ s[1] \in Chats /\ Gate(s[1], lane, None, room)
               /\ UNCHANGED <<rows, want, scans, clearing, excused>>
               /\ UNCHANGED <<at, pick, own, pending, asked, answered>>
    BY <2>1, SeatsOf DEF Ask, userData, history
  <2>2. ASSUME NEW u \in Users, MenuFunding(u, room)
        PROVE  /\ u \in Chats /\ Gate(u, "funding", None, room)
               /\ UNCHANGED <<rows, want, scans, clearing, excused>>
               /\ UNCHANGED <<at, pick, own, pending, asked, answered>>
    BY <2>2 DEF MenuFunding, userData, history, Chats
  <2>3. "funding" \in Lanes
    BY DEF Lanes
  <2> QED
    BY <2>1, <2>2, <2>3
<1>2. Growing /\ ListsOK'
  BY <1>1 DEF Gate, Upsert, ServiceInv, ListsOK, Growing
<1>3. PullInv'
  BY <1>1, GateOK DEF ServiceInv
<1> QED
  BY <1>1, <1>2, <1>3, ListsStay, DialoguesStay, TokensStay DEF ServiceInv

LEMMA FinishOneshotStep ==
  ASSUME ServiceInv, NEW s \in Seats, NEW room \in 0..MaxRoom, NEW edited \in BOOLEAN,
         FinishOneshot(s, room, edited)
  PROVE  ServiceInv'
<1>1. /\ UNCHANGED <<rows, want, scans, clearing, pending, asked, answered, excused>>
      /\ Gate(s[2], "scan", s, room)
      /\ Closed(s, edited) \/ UNCHANGED <<pick, own, at>>
  BY DEF FinishOneshot
<1>2. Growing /\ ListsOK'
  BY <1>1, SeatsOf DEF Gate, Upsert, ServiceInv, ListsOK, Growing
<1>3. PullInv'
  <2>1. "scan" \in Lanes
    BY DEF Lanes
  <2> QED
    BY <1>1, <2>1, GateOK, SeatsOf DEF ServiceInv
<1>4. DialoguesInv'
  BY <1>1, <1>2, ClosedOK, DialoguesStay DEF ServiceInv
<1> QED
  BY <1>1, <1>2, <1>3, <1>4, ListsStay, TokensStay DEF ServiceInv

LEMMA DialoguesStep ==
  ASSUME ServiceInv, Dialogues
  PROVE  ServiceInv'
<1>1. "watch" \in Wizards /\ "scan" \in Wizards
  BY DEF Wizards
<1>2. PICK s \in Seats, edited \in BOOLEAN :
        \/ EnterWatch(s, edited) \/ EnterScan(s, edited)
        \/ \E v : PickWatch(s, v, edited) \/ PickScan(s, v, edited)
        \/ BackWatch(s, edited) \/ BackScan(s, edited)
        \/ CancelWatch(s, edited) \/ CancelScan(s, edited)
        \/ FinishWatch(s, edited)
        \/ FinishStanding(s, edited)
        \/ \E room \in 0..MaxRoom : FinishOneshot(s, room, edited)
  BY DEF Dialogues, TypedCancel
<1>3. CASE EnterWatch(s, edited) \/ EnterScan(s, edited)
  BY <1>1, <1>3, EnterStep DEF EnterWatch, EnterScan
<1>4. CASE \E v : PickWatch(s, v, edited) \/ PickScan(s, v, edited)
  BY <1>1, <1>4, ChooseStep DEF PickWatch, PickScan
<1>5. CASE BackWatch(s, edited) \/ BackScan(s, edited)
  BY <1>1, <1>5, BackStep DEF BackWatch, BackScan
<1>6. CASE CancelWatch(s, edited) \/ CancelScan(s, edited)
  BY <1>1, <1>6, CancelStep DEF CancelWatch, CancelScan
<1> QED
  BY <1>2, <1>3, <1>4, <1>5, <1>6, FinishWatchStep, FinishStandingStep, FinishOneshotStep

(* The price is at most a unit more than the calls, and at least them. *)
LEMMA PriceOf ==
  ASSUME NEW lane \in Lanes, NEW calls \in 0..MaxCalls,
         calls > 0 => lane = "scan" \/ (lane = "call" /\ calls = 1)
  PROVE  /\ Price(lane, calls) \in 0..(MaxCalls + 1)
         /\ Price(lane, calls) >= calls
         /\ lane # "call" => Price(lane, calls) >= 1
         /\ lane = "call" => Price(lane, calls) = calls
BY RequestsAssumption DEF Price, ScanPrice, CallPrice, RegimePrice, FundingPrice, Lanes

(* A step of a request on demand that stores nothing. *)
LEMMA PullStep ==
  ASSUME ServiceInv, PullInv', UNCHANGED <<subs, rows, want, scans, clearing, excused>>,
         UNCHANGED <<at, pick, own, pending, asked, answered>>
  PROVE  ServiceInv'
<1>1. Growing /\ ListsOK'
  BY DEF ServiceInv, ListsOK, Growing
<1> QED
  BY <1>1, ListsStay, DialoguesStay, TokensStay DEF ServiceInv

LEMMA AnsweredStep ==
  ASSUME ServiceInv, NEW calls \in 0..MaxCalls, Answered(calls)
  PROVE  ServiceInv'
<1> DEFINE due == Price(pull.lane, calls)
           r == [pull EXCEPT !.calls = calls, !.due = due,
                             !.stage = IF due = 0 THEN "answer" ELSE "charge"]
<1>1. /\ UNCHANGED <<subs, rows, want, scans, clearing, excused>>
      /\ UNCHANGED <<at, pick, own, pending, asked, answered>>
      /\ pull # None /\ pull.stage = "ask"
      /\ calls > 0 => pull.lane = "scan" \/ (pull.lane = "call" /\ calls = 1)
      /\ pull' = None \/ pull' = r
  BY DEF Answered, userData, history
<1>2. pull \in Pull /\ pull.lane \in Lanes /\ pull.paid = 0
  BY <1>1 DEF ServiceInv, PullInv, PullOK, PullIsCharged, Pull
<1>3. due \in 0..(MaxCalls + 1)
  BY <1>1, <1>2, PriceOf
<1> HIDE DEF due
<1>4. /\ r \in Pull
      /\ r.stage = (IF due = 0 THEN "answer" ELSE "charge")
      /\ r.calls = calls /\ r.due = due /\ r.paid = 0 /\ r.lane = pull.lane
  BY <1>2, <1>3 DEF Pull
<1> HIDE DEF r
<1>5. PullInv'
  <2>1. due = Price(r.lane, r.calls)
    BY <1>4 DEF due
  <2>2. due = 0 \/ due >= 1
    BY <1>3
  <2>3. due + 0 = due
    BY <1>3
  <2> QED
    BY <1>1, <1>4, <2>1, <2>2, <2>3 DEF PullInv, PullOK, PullIsCharged
<1> QED
  BY <1>1, <1>5, PullStep

LEMMA ChargeStep ==
  ASSUME ServiceInv, Charge
  PROVE  ServiceInv'
<1> DEFINE r == [pull EXCEPT !.due = @ - 1, !.paid = @ + 1,
                             !.stage = IF pull.due = 1 THEN "answer" ELSE "charge"]
           price == Price(pull.lane, pull.calls)
<1>1. /\ UNCHANGED <<subs, rows, want, scans, clearing, excused>>
      /\ UNCHANGED <<at, pick, own, pending, asked, answered>>
      /\ pull # None /\ pull.stage = "charge" /\ pull' = r
  BY DEF Charge, userData, history
<1>2. /\ pull \in Pull /\ pull.lane \in Lanes /\ pull.calls \in 0..MaxCalls
      /\ pull.due \in 0..(MaxCalls + 1) /\ pull.paid \in 0..(MaxCalls + 1)
      /\ pull.due >= 1 /\ pull.due + pull.paid = price
      /\ pull.calls > 0 => pull.lane = "scan" \/ (pull.lane = "call" /\ pull.calls = 1)
  BY <1>1 DEF ServiceInv, PullInv, PullOK, PullIsCharged, Pull
<1>3. price \in 0..(MaxCalls + 1)
  BY <1>2, PriceOf
<1> HIDE DEF price
<1>4. pull.due - 1 \in 0..(MaxCalls + 1) /\ pull.paid + 1 \in 0..(MaxCalls + 1)
  BY <1>2, <1>3, RequestsAssumption
<1>5. /\ r \in Pull
      /\ r.stage = (IF pull.due = 1 THEN "answer" ELSE "charge")
      /\ r.calls = pull.calls /\ r.due = pull.due - 1 /\ r.paid = pull.paid + 1
      /\ r.lane = pull.lane
  BY <1>2, <1>4 DEF Pull
<1> HIDE DEF r
<1>6. Price(r.lane, r.calls) = price
  BY <1>5 DEF price
<1>7. pull.due = 1 \/ r.due >= 1
  BY <1>2, <1>5
<1>8. r.due + r.paid = price /\ (pull.due = 1 => r.due = 0 /\ r.paid = price)
  BY <1>2, <1>3, <1>5
<1>9. PullInv'
  BY <1>1, <1>2, <1>5, <1>6, <1>7, <1>8 DEF PullInv, PullOK, PullIsCharged
<1> QED
  BY <1>1, <1>9, PullStep

LEMMA SpendStep ==
  ASSUME ServiceInv, OthersSpend
  PROVE  ServiceInv'
<1> DEFINE r == [pull EXCEPT !.room = @ - 1]
<1>1. /\ UNCHANGED <<subs, rows, want, scans, clearing, excused>>
      /\ UNCHANGED <<at, pick, own, pending, asked, answered>>
      /\ pull # None /\ pull.room > 0 /\ pull' = r
  BY DEF OthersSpend, userData, history
<1>2. pull \in Pull /\ pull.room \in 0..MaxRoom
  BY <1>1 DEF ServiceInv, PullInv, PullOK, Pull
<1>3. pull.room - 1 \in 0..MaxRoom
  BY <1>1, <1>2, RequestsAssumption
<1>4. /\ r \in Pull
      /\ r.stage = pull.stage /\ r.calls = pull.calls /\ r.due = pull.due
      /\ r.paid = pull.paid /\ r.lane = pull.lane
  BY <1>2, <1>3 DEF Pull
<1> HIDE DEF r
<1>5. PullInv'
  BY <1>1, <1>4 DEF ServiceInv, PullInv, PullOK, PullIsCharged
<1> QED
  BY <1>1, <1>5, PullStep

LEMMA ReplyStep ==
  ASSUME ServiceInv, NEW sent \in BOOLEAN, Reply(sent)
  PROVE  ServiceInv'
<1>1. /\ UNCHANGED <<subs, rows, want, scans, clearing, excused>>
      /\ UNCHANGED <<pending, asked, answered>>
      /\ pull # None /\ pull' = None
      /\ IF pull.seat = None THEN UNCHANGED <<pick, own, at>> ELSE Closed(pull.seat, sent)
  BY DEF Reply
<1>2. pull.seat = None \/ pull.seat \in Seats
  BY <1>1 DEF ServiceInv, PullInv, PullOK, Pull
<1>3. Growing /\ ListsOK' /\ PullInv'
  BY <1>1 DEF ServiceInv, ListsOK, Growing, PullInv, PullOK, PullIsCharged
<1>4. DialoguesInv'
  BY <1>1, <1>2, <1>3, ClosedOK, DialoguesStay DEF ServiceInv
<1> QED
  BY <1>1, <1>3, <1>4, ListsStay, TokensStay DEF ServiceInv

(* What is in memory at a start. *)
LEMMA FreshDialogues ==
  ASSUME at = [s \in Seats |-> [w \in Wizards |-> 0]],
         pick = [u \in Users |-> [w \in Wizards |-> NoPick]],
         own = [s \in Seats |-> [w \in Wizards |-> NoPick]]
  PROVE  DialoguesInv
<1>1. \A w \in Wizards : NoPick \in Picks(w)
  BY NoPickIsAPick
<1>2. NoPick \in Slots
  BY DEF NoPick, Slots
<1>3. \A s \in Seats : at[s]["watch"] = 0
  BY DEF Wizards
<1>4. AtOK /\ OwnOK /\ PickOK
  BY <1>1, <1>2 DEF AtOK, PickOK, OwnOK
<1> QED
  BY <1>3, <1>4 DEF DialoguesInv, DialoguesOK, PickIsOwn, OneDialogue

LEMMA RestartStep ==
  ASSUME ServiceInv, Restart
  PROVE  ServiceInv'
<1>1. DialoguesInv'
  <2> DEFINE a == [s \in Seats |-> [w \in Wizards |-> 0]]
             p == [u \in Users |-> [w \in Wizards |-> NoPick]]
             q == [s \in Seats |-> [w \in Wizards |-> NoPick]]
  <2>1. at' = a /\ pick' = p /\ own' = q
    BY DEF Restart
  <2>2. \A w \in Wizards : NoPick \in Picks(w)
    BY NoPickIsAPick
  <2>3. NoPick \in Slots
    BY DEF NoPick, Slots
  <2>4. \A s \in Seats : at'[s]["watch"] = 0
    BY <2>1 DEF Wizards
  <2>5. AtOK' /\ OwnOK' /\ PickOK'
    BY <2>1, <2>2, <2>3 DEF AtOK, PickOK, OwnOK
  <2> QED
    BY <2>4, <2>5 DEF DialoguesInv, DialoguesOK, PickIsOwn, OneDialogue
<1>2. TokensInv'
  BY DEF Restart, ServiceInv, TokensInv, TokensOK, TokensFresh
<1>3. PullInv'
  BY DEF Restart, PullInv, PullOK, PullIsCharged
<1>4. UNCHANGED <<subs, rows, want, scans, clearing, excused>>
  BY DEF Restart
<1>5. Growing /\ ListsOK'
  BY <1>4 DEF ServiceInv, ListsOK, Growing
<1> QED
  BY <1>1, <1>2, <1>3, <1>4, <1>5, ListsStay DEF ServiceInv

LEMMA ServiceBegins ==
  ASSUME ServiceInit
  PROVE  ServiceInv
<1>1. ListsOK /\ ListIsWhatWasAsked
  BY DEF ServiceInit, ListsOK, ListIsWhatWasAsked
<1>2. TokensInv /\ PullInv
  BY DEF ServiceInit, TokensInv, TokensOK, TokensFresh, PullInv, PullOK, PullIsCharged
<1>3. DialoguesInv
  BY FreshDialogues DEF ServiceInit
<1> QED
  BY <1>1, <1>2, <1>3 DEF ServiceInv

LEMMA ServiceStep ==
  ASSUME ServiceInv, [ServiceNext]_serviceVars
  PROVE  ServiceInv'
<1>1. CASE Pulls
  BY <1>1, AskSteps, AnsweredStep, ChargeStep, ReplyStep DEF Pulls
<1>2. CASE UNCHANGED serviceVars
  <2>1. /\ UNCHANGED <<subs, rows, want, scans, clearing, excused>>
        /\ UNCHANGED <<at, pick, own, pending, asked, answered, pull>>
    BY <1>2 DEF serviceVars, userData, history
  <2> QED
    BY <2>1, PullStays, PullStep DEF ServiceInv
<1> QED
  BY <1>1, <1>2, CommandsStep, DialoguesStep, SpendStep, RestartStep DEF ServiceNext

LEMMA ServiceAlways == ServiceSpec => []ServiceInv
BY ServiceBegins, ServiceStep, PTL DEF ServiceSpec

(* What the service keeps has the shape it should have: the rows of its    *)
(* tables, the steps and picks of its dialogues (ctx.user_data), the       *)
(* batches it holds and the request it is answering.                       *)
THEOREM RequestsTyped == ServiceSpec => []ServiceTypeOK
<1>1. ServiceInv => ServiceTypeOK
  BY DEF ServiceInv, ListsOK, DialoguesInv, DialoguesOK, AtOK, PickOK, OwnOK, TokensInv,
         TokensOK, PullInv, PullOK, ServiceTypeOK
<1> QED
  BY <1>1, ServiceAlways, PTL

(* However the dialogues, confirmations, taps and commands of any number   *)
(* of users and groups cross, and whatever a restart forgets: barring the  *)
(* exceptions, the watchlists rows of a chat are those it was told it has  *)
(* (add_watch_batch, remove_watch_batch, _pick_mode, commit_watch_batch).  *)
THEOREM ListsAreKept == ServiceSpec => []ListIsWhatWasAsked
<1>1. ServiceInv => ListIsWhatWasAsked
  BY DEF ServiceInv
<1> QED
  BY <1>1, ServiceAlways, PTL

(* When handle_scan, handle_regime, handle_funding or handle_call gets to  *)
(* its reply, consume_quota or record_call_delivered was called for every  *)
(* unit the reply is worth; a HOLD of /call is not charged.                *)
THEOREM AnswersArePaid == ServiceSpec => []AnswerIsPaid
<1>1. ASSUME ServiceInv PROVE AnswerIsPaid
  <2> SUFFICES ASSUME pull # None, pull.stage = "answer"
               PROVE  /\ pull.paid >= pull.calls
                      /\ pull.lane # "call" => pull.paid >= 1
                      /\ pull.lane = "call" /\ pull.calls = 0 => pull.paid = 0
    BY DEF AnswerIsPaid
  <2>1. /\ pull.lane \in Lanes /\ pull.calls \in 0..MaxCalls
        /\ pull.paid = Price(pull.lane, pull.calls)
        /\ pull.calls > 0 => pull.lane = "scan" \/ (pull.lane = "call" /\ pull.calls = 1)
    BY <1>1 DEF ServiceInv, PullInv, PullOK, PullIsCharged, Pull
  <2> QED
    BY <2>1, PriceOf
<1> QED
  BY <1>1, ServiceAlways, PTL
=============================================================================
