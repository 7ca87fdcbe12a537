-------------------------- MODULE QuotaMeterProofs --------------------------
(***************************************************************************)
(* What holds of QuotaMeter for every set of chats and workers, every      *)
(* ladder and every bound.                                                 *)
(***************************************************************************)
EXTENDS QuotaMeter, FiniteSetTheorems, TLAPS

USE FreeMeterAssumption, QuotaMeterAssumption

(* One unit is taken either from the headroom or from the bonus pool.      *)
LEMMA ChargeConserves ==
  ASSUME NEW row \in Row, NEW total \in Nat, NEW t, NEW cap
  PROVE  LET new == Charged(row, 1, total, t, cap)
         IN  /\ new.alert_count \in Nat
             /\ new.bonus \in Nat
             /\ new.alert_count - new.bonus = row.alert_count - row.bonus + 1
BY DEF Row, Charged, MonthlyCharge, BonusLeft, Larger, Smaller

(* A charge leaves a well-formed row behind. *)
LEMMA ChargedRow ==
  ASSUME NEW row \in Row, NEW total \in Nat, NEW t \in Day, NEW cap \in Nat \ {0}
  PROVE  Charged(row, 1, total, t, cap) \in Row
<1>1. MonthlyCharge(row, 1, total) \in Nat
  BY DEF Row, MonthlyCharge, Larger, Smaller
<1>2. BonusLeft(row, 1, total) \in Nat
  BY <1>1 DEF Row, BonusLeft, Larger
<1>3. Coalesce(row.window_start, t) \in Day \cup {NULL}
  BY DEF Row, Coalesce
<1>4. Coalesce(row.window_cap, cap) \in (Nat \ {0}) \cup {NULL}
  BY DEF Row, Coalesce
<1>5. DayUsed(row, t) + 1 \in Nat
  BY DEF Row, DayUsed
<1>6. row.alert_count + MonthlyCharge(row, 1, total) \in Nat
  BY <1>1 DEF Row
<1>. QED
  BY <1>2, <1>3, <1>4, <1>5, <1>6 DEF Row, Charged

(* What is mirrored is a ladder: both of its figures are positive. *)
LEMMA MirroredType ==
  ASSUME NEW free \in Publications, Parses(free), NEW t \in Nat
  PROVE  Mirrored(free, t) \in Ladder
<1>1. FreeAllowance(free) \in Pair
  BY DEF FreeAllowance, Publication
<1>. QED BY <1>1 DEF Mirrored, Parses, Complete, Pair, Ladder, Day

LEMMA IdleJobType == IdleJob \in Job
BY DEF IdleJob, Job, Day

(* The ladder always serves a positive figure: the fallback never refuses. *)
LEMMA LiveType ==
  ASSUME NEW m \in Ladder \cup {NULL}, NEW t \in Nat
  PROVE  LiveMonthly(m, t) \in Nat \ {0} /\ LiveDaily(m, t) \in Nat \ {0}
BY DEF LiveMonthly, LiveDaily, Usable, Ladder

LEMMA EffectiveType ==
  ASSUME NEW row \in Row, NEW live \in Nat \ {0}, NEW t \in Nat
  PROVE  EffectiveTotal(live, row, t) \in Nat \ {0}
BY DEF EffectiveTotal, Larger, Row

---------------------------------------------------------------------------
Inv == TypeOK /\ JobInv

LEMMA InvInit == Init => Inv
<1> SUFFICES ASSUME Init PROVE Inv
  OBVIOUS
<1>1. FreshRow \in Row /\ UnstampedRow \in Row
  BY DEF FreshRow, UnstampedRow, Row, Day
<1>2. \A c \in Chats : meter[c] \in Row
  BY <1>1 DEF Init
<1>3. meter \in [Chats -> Row]
  BY <1>1 DEF Init
<1>4. mirror \in Ladder \cup {NULL}
  BY MirroredType DEF Init, Usables
<1>5. \A c \in Chats : meter[c].alert_count \in Nat /\ meter[c].day_count \in Nat
  BY <1>2 DEF Row
<1>6. charged \in [Chats -> Nat] /\ dayCharges \in [Chats -> [0..MaxDay -> Nat]]
  BY <1>5 DEF Init
<1>7. TypeOK
  BY <1>3, <1>4, <1>6, IdleJobType DEF Init, TypeOK, PC
<1>8. JobInv
  BY DEF Init, JobInv, IdleJob
<1>. QED
  BY <1>7, <1>8 DEF Inv

(* What every step of a worker does to its program counter and its job. *)
LEMMA WorkerMove ==
  ASSUME TypeOK, JobInv, NEW w \in Workers, NEW to \in PC, NEW new \in Job,
         to \in {"consume", "charge"} => new.call = "consume",
         new.call = "consume" => new.left > 0,
         pc' = [pc EXCEPT ![w] = to], job' = [job EXCEPT ![w] = new]
  PROVE  /\ pc' \in [Workers -> PC]
         /\ job' \in [Workers -> Job]
         /\ JobInv'
<1>1. pc \in [Workers -> PC] /\ job \in [Workers -> Job]
  BY DEF TypeOK
<1>2. pc' \in [Workers -> PC] /\ job' \in [Workers -> Job]
  BY <1>1
<1>3. \A v \in Workers : pc'[v] = (IF v = w THEN to ELSE pc[v])
  BY <1>1
<1>4. \A v \in Workers : job'[v] = (IF v = w THEN new ELSE job[v])
  BY <1>1
<1>5. JobInv'
  BY <1>3, <1>4 DEF JobInv
<1>. QED
  BY <1>2, <1>5

(* The other state a step reads, typed. *)
LEMMA Typed ==
  ASSUME TypeOK
  PROVE  /\ \A w \in Workers : job[w] \in Job
         /\ \A c \in Chats : meter[c] \in Row
         /\ now \in 0..MaxDay /\ now \in Nat
         /\ LiveMonthly(mirror, now) \in Nat \ {0}
         /\ LiveDaily(mirror, now) \in Nat \ {0}
<1>1. now \in 0..MaxDay /\ now \in Nat
  BY DEF TypeOK
<1>2. mirror \in Ladder \cup {NULL}
  BY DEF TypeOK
<1>3. \A w \in Workers : job[w] \in Job
  BY DEF TypeOK
<1>4. \A c \in Chats : meter[c] \in Row
  BY DEF TypeOK
<1>. QED
  BY <1>1, <1>2, <1>3, <1>4, LiveType

(* Every step keeps the types and the bookkeeping of the jobs. *)
LEMMA InvNext == Inv /\ [Next]_vars => Inv'
<1> SUFFICES ASSUME TypeOK, JobInv, [Next]_vars PROVE Inv'
  BY DEF Inv
<1>0. /\ \A w \in Workers : job[w] \in Job
      /\ \A c \in Chats : meter[c] \in Row
      /\ now \in 0..MaxDay /\ now \in Nat
      /\ LiveMonthly(mirror, now) \in Nat \ {0}
      /\ LiveDaily(mirror, now) \in Nat \ {0}
  BY Typed
<1>1. ASSUME NEW w \in Workers, NEW c \in Chats, Evaluate(w, c) PROVE Inv'
  <2> DEFINE new == WithLadder([IdleJob EXCEPT !.chat = c])
  <2>1. new \in Job /\ new.call = "evaluate"
    BY <1>0, IdleJobType DEF WithLadder, IdleJob, Job
  <2>2. pc' = [pc EXCEPT ![w] = "row"] /\ job' = [job EXCEPT ![w] = new]
    BY <1>1 DEF Evaluate, Goto
  <2>3. "row" \in PC
    BY DEF PC
  <2>4. pc' \in [Workers -> PC] /\ job' \in [Workers -> Job] /\ JobInv'
    <3> HIDE DEF new
    <3>. QED BY <2>1, <2>2, <2>3, WorkerMove
  <2>. QED BY <1>1, <2>4 DEF Evaluate, Inv, TypeOK, rowVars, historyVars
<1>2. ASSUME NEW w \in Workers, Consume(w) PROVE Inv'
  <2> DEFINE new == WithLadder(job[w])
  <2>1. new \in Job /\ new.call = job[w].call /\ new.left = job[w].left
    BY <1>0 DEF WithLadder, Job
  <2>2. /\ pc[w] = "consume"
        /\ pc' = [pc EXCEPT ![w] = "row"] /\ job' = [job EXCEPT ![w] = new]
    BY <1>2 DEF Consume, Goto
  <2>3. "row" \in PC /\ (new.call = "consume" => new.left > 0)
    BY <2>1 DEF PC, JobInv
  <2>4. pc' \in [Workers -> PC] /\ job' \in [Workers -> Job] /\ JobInv'
    <3> HIDE DEF new
    <3>. QED BY <2>1, <2>2, <2>3, WorkerMove
  <2>. QED BY <1>2, <2>4 DEF Consume, Inv, TypeOK, rowVars, historyVars
<1>3. ASSUME NEW w \in Workers, ReadRow(w) PROVE Inv'
  <2> DEFINE row     == meter[job[w].chat]
             total   == EffectiveTotal(job[w].live, row, now)
             verdict == IF Exhausted(row, job[w].live, job[w].daily, now)
                          THEN "refuse" ELSE "serve"
             new     == [job[w] EXCEPT !.total = total, !.verdict = verdict, !.at = now]
             to      == IF Expired(row, now) THEN "roll" ELSE Caller(w)
  <2>1. total \in Nat \ {0}
    <3>1. row \in Row /\ job[w].live \in Nat \ {0}
      BY <1>0 DEF Job
    <3>. QED BY <1>0, <3>1, EffectiveType
  <2>2. verdict \in {"serve", "refuse"}
    OBVIOUS
  <2>3. new \in Job /\ new.call = job[w].call /\ new.left = job[w].left
    <3> HIDE DEF total, verdict
    <3>. QED BY <1>0, <2>1, <2>2 DEF Job
  <2>4. pc' = [pc EXCEPT ![w] = to] /\ job' = [job EXCEPT ![w] = new]
    BY <1>3 DEF ReadRow, Goto
  <2>5. to \in PC /\ (to \in {"consume", "charge"} => job[w].call = "consume")
    <3>1. job[w].call \in {"evaluate", "consume"}
      BY <1>0 DEF Job
    <3>. QED BY <3>1 DEF Caller, PC
  <2>6. pc' \in [Workers -> PC] /\ job' \in [Workers -> Job] /\ JobInv'
    <3> HIDE DEF new, to
    <3>1. new.call = "consume" => new.left > 0
      BY <2>3 DEF JobInv
    <3>. QED BY <2>3, <2>4, <2>5, <3>1, WorkerMove
  <2>. QED BY <1>3, <2>6 DEF ReadRow, Inv, TypeOK, rowVars, historyVars
<1>4. ASSUME NEW w \in Workers, RollWindow(w) PROVE Inv'
  <2> DEFINE c   == job[w].chat
             new == [job[w] EXCEPT !.at = now]
  <2>1. c \in Chats
    BY <1>0 DEF Job
  <2>2. Rolled(meter[c]) \in Row /\ meter[c].alert_count \in Nat
    BY <1>0, <2>1 DEF Row, Rolled
  <2>3. new \in Job /\ new.call = job[w].call /\ new.left = job[w].left
    BY <1>0 DEF Job
  <2>4. Caller(w) \in PC /\ (Caller(w) \in {"consume", "charge"} => job[w].call = "consume")
    <3>1. job[w].call \in {"evaluate", "consume"}
      BY <1>0 DEF Job
    <3>. QED BY <3>1 DEF Caller, PC
  <2>5. pc' = [pc EXCEPT ![w] = Caller(w)] /\ job' = [job EXCEPT ![w] = new]
    BY <1>4 DEF RollWindow, Goto
  <2>6. pc' \in [Workers -> PC] /\ job' \in [Workers -> Job] /\ JobInv'
    <3> HIDE DEF new
    <3>1. new.call = "consume" => new.left > 0
      BY <2>3 DEF JobInv
    <3>. QED BY <2>3, <2>4, <2>5, <3>1, WorkerMove
  <2>7. meter' \in [Chats -> Row]
    <3>1. meter' = [meter EXCEPT ![c] = Rolled(meter[c])]
      BY <1>4 DEF RollWindow
    <3>. QED BY <2>2, <3>1 DEF TypeOK
  <2>8. retired' \in [Chats -> Nat] /\ lost' \in [Chats -> Nat]
    <3>1. retired \in [Chats -> Nat] /\ lost \in [Chats -> Nat]
      BY DEF TypeOK
    <3>2. /\ retired' = [retired EXCEPT ![c] =
               IF Expired(meter[c], now) THEN retired[c] + meter[c].alert_count ELSE retired[c]]
          /\ lost' = [lost EXCEPT ![c] =
               IF Expired(meter[c], now) THEN lost[c] ELSE lost[c] + meter[c].alert_count]
      BY <1>4 DEF RollWindow
    <3>. QED BY <2>1, <2>2, <3>1, <3>2
  <2>. QED BY <1>4, <2>6, <2>7, <2>8 DEF RollWindow, Inv, TypeOK
<1>5. ASSUME NEW w \in Workers, Withhold(w) PROVE Inv'
  <2>1. pc' = [pc EXCEPT ![w] = "idle"] /\ job' = [job EXCEPT ![w] = IdleJob]
    BY <1>5 DEF Withhold, Goto
  <2>2. pc' \in [Workers -> PC] /\ job' \in [Workers -> Job] /\ JobInv'
    <3>1. "idle" \in PC /\ IdleJob.call # "consume"
      BY DEF PC, IdleJob
    <3>. QED BY <2>1, <3>1, IdleJobType, WorkerMove
  <2>. QED BY <1>5, <2>2 DEF Withhold, Inv, TypeOK, rowVars, historyVars
<1>6. ASSUME NEW w \in Workers, NEW n \in 1..MaxItems, Deliver(w, n) PROVE Inv'
  <2> DEFINE new == [job[w] EXCEPT !.call = "consume", !.left = n]
  <2>0. n \in Nat /\ n > 0
    OBVIOUS
  <2>1. new \in Job /\ new.call = "consume" /\ new.left > 0
    BY <1>0, <2>0 DEF Job
  <2>2. pc' = [pc EXCEPT ![w] = "consume"] /\ job' = [job EXCEPT ![w] = new]
    BY <1>6 DEF Deliver, Goto
  <2>3. pc' \in [Workers -> PC] /\ job' \in [Workers -> Job] /\ JobInv'
    <3> HIDE DEF new
    <3>1. "consume" \in PC
      BY DEF PC
    <3>. QED BY <2>1, <2>2, <3>1, WorkerMove
  <2>. QED BY <1>6, <2>3 DEF Deliver, Inv, TypeOK, rowVars, historyVars
<1>7. ASSUME NEW w \in Workers, Charge(w) PROVE Inv'
  <2> DEFINE c    == job[w].chat
             row  == Charged(meter[c], 1, job[w].total, job[w].at, job[w].live)
             new  == IF job[w].left = 1 THEN IdleJob ELSE [job[w] EXCEPT !.left = @ - 1]
             to   == IF job[w].left = 1 THEN "idle" ELSE "consume"
  <2>1. /\ c \in Chats /\ job[w].at \in 0..MaxDay /\ job[w].at \in Day
        /\ job[w].total \in Nat /\ job[w].live \in Nat \ {0}
        /\ job[w].left \in Nat /\ job[w].call \in {"evaluate", "consume"}
    BY <1>0 DEF Job, Day
  <2>2. row \in Row
    BY <1>0, <2>1, ChargedRow
  <2>3. job[w].call = "consume" /\ job[w].left > 0
    BY <1>7 DEF Charge, Goto, JobInv
  <2>4. /\ new \in Job /\ (new.call = "consume" => new.left > 0)
        /\ (to = "consume" => new.call = "consume")
    <3>1. CASE job[w].left = 1
      BY <3>1, IdleJobType DEF IdleJob
    <3>2. CASE job[w].left # 1
      <4> DEFINE less == [job[w] EXCEPT !.left = job[w].left - 1]
      <4>1. less \in Job /\ less.call = "consume" /\ less.left > 0
        BY <3>2, <1>0, <2>1, <2>3 DEF Job
      <4>. QED BY <3>2, <4>1
    <3>. QED BY <3>1, <3>2
  <2>5. pc' = [pc EXCEPT ![w] = to] /\ job' = [job EXCEPT ![w] = new]
    BY <1>7 DEF Charge, Goto
  <2>6. pc' \in [Workers -> PC] /\ job' \in [Workers -> Job] /\ JobInv'
    <3>1. to \in PC /\ to # "charge"
      BY DEF PC
    <3> HIDE DEF new, to
    <3>. QED BY <2>4, <2>5, <3>1, WorkerMove
  <2>7. meter' \in [Chats -> Row]
    <3>1. meter' = [meter EXCEPT ![c] = row]
      BY <1>7 DEF Charge
    <3> HIDE DEF row, c
    <3>. QED BY <2>1, <2>2, <3>1 DEF TypeOK
  <2>8. charged' \in [Chats -> Nat]
    <3>1. charged' = [charged EXCEPT ![c] = charged[c] + 1]
      BY <1>7 DEF Charge
    <3>2. charged \in [Chats -> Nat]
      BY DEF TypeOK
    <3> HIDE DEF c
    <3>. QED BY <2>1, <3>1, <3>2
  <2>9. dayCharges' \in [Chats -> [0..MaxDay -> Nat]]
    <3> DEFINE d   == job[w].at
               day == [dayCharges[c] EXCEPT ![d] = dayCharges[c][d] + 1]
    <3>1. dayCharges' = [dayCharges EXCEPT ![c] = day]
      BY <1>7 DEF Charge
    <3>2. day \in [0..MaxDay -> Nat]
      <4>1. dayCharges[c] \in [0..MaxDay -> Nat]
        BY <2>1 DEF TypeOK
      <4>. QED BY <2>1, <4>1
    <3> HIDE DEF day, c
    <3>. QED BY <2>1, <3>1, <3>2 DEF TypeOK
  <2>. QED BY <1>7, <2>6, <2>7, <2>8, <2>9 DEF Charge, Inv, TypeOK
<1>8. ASSUME NEW w \in Workers, Crash(w) PROVE Inv'
  <2>1. pc' = [pc EXCEPT ![w] = "idle"] /\ job' = [job EXCEPT ![w] = IdleJob]
    BY <1>8 DEF Crash
  <2>2. pc' \in [Workers -> PC] /\ job' \in [Workers -> Job] /\ JobInv'
    <3>1. "idle" \in PC /\ IdleJob.call # "consume"
      BY DEF PC, IdleJob
    <3>. QED BY <2>1, <3>1, IdleJobType, WorkerMove
  <2>. QED BY <1>8, <2>2 DEF Crash, Inv, TypeOK, rowVars, historyVars
<1>9. ASSUME NEW free \in Publications, NEW at \in 0..MaxDay, RefreshLadder(free, at)
      PROVE Inv'
  <2>1. mirror' \in Ladder \cup {NULL}
    BY <1>9, MirroredType DEF RefreshLadder, UpsertLadder
  <2>2. meter' \in [Chats -> Row]
    <3>1. meter' = StampOpenWindows(at)
      BY <1>9 DEF RefreshLadder, UpsertLadder
    <3>2. CASE mirror = NULL
      BY <3>1, <3>2 DEF StampOpenWindows, TypeOK
    <3>3. CASE mirror # NULL
      <4>1. mirror \in Ladder
        BY <3>3 DEF TypeOK
      <4>2. mirror.free_monthly \in Nat \ {0}
        BY <4>1 DEF Ladder
      <4>3. ASSUME NEW c \in Chats
            PROVE  Stamped(meter[c], mirror.free_monthly, at) \in Row
        BY <1>0, <4>2 DEF Stamped, Row
      <4>4. meter' = [c \in Chats |-> Stamped(meter[c], mirror.free_monthly, at)]
        BY <3>1, <3>3 DEF StampOpenWindows
      <4>. QED BY <4>3, <4>4
    <3>. QED BY <3>2, <3>3
  <2>. QED BY <1>9, <2>1, <2>2 DEF RefreshLadder, UpsertLadder, Inv, TypeOK, JobInv, historyVars
<1>10. ASSUME NEW c \in Chats, NEW calls \in Grants, GrantBonus(c, calls) PROVE Inv'
  <2> DEFINE row == [meter[c] EXCEPT !.bonus = meter[c].bonus + calls]
  <2>1. calls \in Nat
    OBVIOUS
  <2>2. row \in Row
    BY <1>0, <2>1 DEF Row
  <2>3. meter' = [meter EXCEPT ![c] = row]
    BY <1>10 DEF GrantBonus
  <2>4. meter' \in [Chats -> Row]
    <3> HIDE DEF row
    <3>. QED BY <2>2, <2>3 DEF TypeOK
  <2>5. granted' \in [Chats -> Nat] /\ grants' \in [Chats -> Nat]
    <3>1. granted \in [Chats -> Nat] /\ grants \in [Chats -> Nat]
      BY DEF TypeOK
    <3>. QED BY <1>10, <2>1, <3>1 DEF GrantBonus
  <2>. QED BY <1>10, <2>4, <2>5 DEF GrantBonus, Inv, TypeOK, JobInv
<1>11. CASE Tick
  <2>1. now' \in 0..MaxDay
    BY <1>0, <1>11 DEF Tick
  <2>. QED BY <1>11, <2>1 DEF Tick, Inv, TypeOK, JobInv, rowVars, historyVars
<1>12. CASE UNCHANGED vars
  BY <1>12 DEF vars, rowVars, historyVars, Inv, TypeOK, JobInv
<1>. QED
  BY <1>1, <1>2, <1>3, <1>4, <1>5, <1>6, <1>7, <1>8, <1>9, <1>10, <1>11, <1>12
  DEF Next, WorkerStep

LEMMA SpecInv == Spec => []Inv
BY InvInit, InvNext, PTL DEF Spec

(* Every variable of the meter keeps its type, however get_quota_state,    *)
(* consume_quota and upsert_free_tier_ladder interleave.                   *)
THEOREM TypeCorrect == Spec => []TypeOK
BY SpecInv, PTL DEF Inv

---------------------------------------------------------------------------
(* Charges are accounted for: the invariant is inductive beside the types. *)

LEMMA AccountedInit == Init => ChargesAccountedFor
<1> SUFFICES ASSUME Init, NEW c \in Chats
             PROVE  charged[c] = meter[c].alert_count + (granted[c] - meter[c].bonus)
                                   + retired[c] + lost[c]
  BY DEF ChargesAccountedFor
<1>1. /\ charged[c] = meter[c].alert_count /\ granted[c] = 0
      /\ retired[c] = 0 /\ lost[c] = 0
  BY DEF Init
<1>2. meter[c].bonus = 0 /\ meter[c].alert_count \in Nat
  <2>1. meter[c] \in {FreshRow, UnstampedRow}
    BY DEF Init
  <2>2. FreshRow.bonus = 0 /\ FreshRow.alert_count = 0
    BY DEF FreshRow
  <2>3. UnstampedRow.bonus = 0 /\ UnstampedRow.alert_count = 1
    BY DEF UnstampedRow, FreshRow
  <2>. QED BY <2>1, <2>2, <2>3
<1>. QED BY <1>1, <1>2

LEMMA AccountedNext == Inv /\ ChargesAccountedFor /\ [Next]_vars => ChargesAccountedFor'
<1> SUFFICES ASSUME TypeOK, JobInv, ChargesAccountedFor, [Next]_vars, NEW c \in Chats
             PROVE  (charged[c] = meter[c].alert_count + (granted[c] - meter[c].bonus)
                                    + retired[c] + lost[c])'
  BY DEF ChargesAccountedFor, Inv
<1>0. /\ charged[c] = meter[c].alert_count + (granted[c] - meter[c].bonus)
                        + retired[c] + lost[c]
      /\ meter[c] \in Row /\ charged[c] \in Nat /\ granted[c] \in Nat
      /\ retired[c] \in Nat /\ lost[c] \in Nat
      /\ meter[c].alert_count \in Nat /\ meter[c].bonus \in Nat
  <2>1. meter[c] \in Row /\ charged[c] \in Nat /\ granted[c] \in Nat
          /\ retired[c] \in Nat /\ lost[c] \in Nat
    BY DEF TypeOK
  <2>. QED BY <2>1 DEF ChargesAccountedFor, Row
<1>a. meter \in [Chats -> Row] /\ charged \in [Chats -> Nat] /\ granted \in [Chats -> Nat]
        /\ retired \in [Chats -> Nat] /\ lost \in [Chats -> Nat]
  BY DEF TypeOK
<1>1. ASSUME UNCHANGED <<rowVars, historyVars>>
      PROVE  (charged[c] = meter[c].alert_count + (granted[c] - meter[c].bonus)
                             + retired[c] + lost[c])'
  BY <1>1, <1>0 DEF rowVars, historyVars
<1>2. ASSUME NEW w \in Workers, RollWindow(w)
      PROVE  (charged[c] = meter[c].alert_count + (granted[c] - meter[c].bonus)
                             + retired[c] + lost[c])'
  <2> DEFINE k == job[w].chat
  <2>1. charged' = charged /\ granted' = granted
    BY <1>2 DEF RollWindow
  <2>2. CASE k = c
    <3>1. meter'[c].alert_count = 0 /\ meter'[c].bonus = meter[c].bonus
      <4>1. meter'[c] = Rolled(meter[c])
        BY <1>2, <2>2, <1>a DEF RollWindow
      <4>. QED BY <4>1, <1>0 DEF Rolled, Row
    <3>2. /\ retired'[c] = IF Expired(meter[c], now)
                             THEN retired[c] + meter[c].alert_count ELSE retired[c]
          /\ lost'[c] = IF Expired(meter[c], now)
                          THEN lost[c] ELSE lost[c] + meter[c].alert_count
      BY <1>2, <2>2, <1>a DEF RollWindow
    <3>. QED BY <1>0, <2>1, <3>1, <3>2
  <2>3. CASE k # c
    <3>1. meter'[c] = meter[c] /\ retired'[c] = retired[c] /\ lost'[c] = lost[c]
      BY <1>2, <2>3, <1>a DEF RollWindow
    <3>. QED BY <1>0, <2>1, <3>1
  <2>. QED BY <2>2, <2>3
<1>3. ASSUME NEW w \in Workers, Charge(w)
      PROVE  (charged[c] = meter[c].alert_count + (granted[c] - meter[c].bonus)
                             + retired[c] + lost[c])'
  <2> DEFINE k   == job[w].chat
             new == Charged(meter[k], 1, job[w].total, job[w].at, job[w].live)
  <2>1. granted' = granted /\ retired' = retired /\ lost' = lost
    BY <1>3 DEF Charge
  <2>2. CASE k = c
    <3>1. meter'[c] = new /\ charged'[c] = charged[c] + 1
      BY <1>3, <2>2, <1>a DEF Charge
    <3>2. job[w].total \in Nat
      BY Typed DEF Job
    <3>3. /\ new.alert_count \in Nat /\ new.bonus \in Nat
          /\ new.alert_count - new.bonus = meter[c].alert_count - meter[c].bonus + 1
      BY <1>0, <2>2, <3>2, ChargeConserves
    <3> HIDE DEF new
    <3>. QED BY <1>0, <2>1, <3>1, <3>3
  <2>3. CASE k # c
    <3>1. meter'[c] = meter[c] /\ charged'[c] = charged[c]
      BY <1>3, <2>3, <1>a DEF Charge
    <3>. QED BY <1>0, <2>1, <3>1
  <2>. QED BY <2>2, <2>3
<1>4. ASSUME NEW free \in Publications, NEW at \in 0..MaxDay, RefreshLadder(free, at)
      PROVE  (charged[c] = meter[c].alert_count + (granted[c] - meter[c].bonus)
                             + retired[c] + lost[c])'
  <2>1. meter'[c].alert_count = meter[c].alert_count /\ meter'[c].bonus = meter[c].bonus
    <3>1. meter'[c] \in {meter[c], Stamped(meter[c], mirror.free_monthly, at)}
      BY <1>4 DEF RefreshLadder, UpsertLadder, StampOpenWindows
    <3>. QED BY <3>1, <1>0 DEF Stamped, Row
  <2>. QED BY <1>0, <1>4, <2>1 DEF RefreshLadder, UpsertLadder, historyVars
<1>5. ASSUME NEW k \in Chats, NEW calls \in Grants, GrantBonus(k, calls)
      PROVE  (charged[c] = meter[c].alert_count + (granted[c] - meter[c].bonus)
                             + retired[c] + lost[c])'
  <2>1. charged' = charged /\ retired' = retired /\ lost' = lost /\ calls \in Nat
    BY <1>5 DEF GrantBonus
  <2>2. CASE k = c
    <3>1. /\ meter'[c] = [meter[c] EXCEPT !.bonus = meter[c].bonus + calls]
          /\ granted'[c] = granted[c] + calls
      BY <1>5, <2>2, <1>a DEF GrantBonus
    <3>2. /\ meter'[c].bonus = meter[c].bonus + calls
          /\ meter'[c].alert_count = meter[c].alert_count
      BY <3>1, <1>0 DEF Row
    <3>. QED BY <1>0, <2>1, <3>1, <3>2
  <2>3. CASE k # c
    <3>1. meter'[c] = meter[c] /\ granted'[c] = granted[c]
      BY <1>5, <2>3, <1>a DEF GrantBonus
    <3>. QED BY <1>0, <2>1, <3>1
  <2>. QED BY <2>2, <2>3
<1>. QED
  BY <1>1, <1>2, <1>3, <1>4, <1>5
  DEF Next, WorkerStep, Evaluate, Consume, ReadRow, Withhold, Deliver, Crash, Tick, vars

(* No unit is lost or counted twice except by a late roll, whatever the    *)
(* processes interleave (consume_quota_atomic, get_quota_state).           *)
THEOREM ChargesConserved == Spec => []ChargesAccountedFor
BY SpecInv, AccountedInit, AccountedNext, PTL DEF Spec

---------------------------------------------------------------------------
(* The daily count, and the two action properties. *)

LEMMA DayCountInit == Init => DayCountNeverOverstated
<1> SUFFICES ASSUME Init, NEW c \in Chats, meter[c].day # NULL
             PROVE  meter[c].day_count <= dayCharges[c][meter[c].day]
  BY DEF DayCountNeverOverstated
<1>1. meter[c] \in {FreshRow, UnstampedRow}
  BY DEF Init
<1>2. FreshRow.day = NULL /\ UnstampedRow.day = 0 /\ UnstampedRow.day_count = 1
  BY DEF UnstampedRow, FreshRow
<1>3. meter[c].day = 0 /\ meter[c].day_count = 1
  BY <1>1, <1>2
<1>4. dayCharges[c][0] = meter[c].day_count
  <2>1. dayCharges[c] = [d \in 0..MaxDay |-> IF d = 0 THEN meter[c].day_count ELSE 0]
    BY DEF Init
  <2>. QED BY <2>1
<1>. QED BY <1>3, <1>4

LEMMA DayCountNext ==
  Inv /\ DayCountNeverOverstated /\ [Next]_vars => DayCountNeverOverstated'
<1> SUFFICES ASSUME TypeOK, JobInv, DayCountNeverOverstated, [Next]_vars,
                    NEW c \in Chats, meter'[c].day # NULL
             PROVE  meter'[c].day_count <= dayCharges'[c][meter'[c].day]
  BY DEF DayCountNeverOverstated, Inv
<1>0. /\ meter[c].day # NULL => meter[c].day_count <= dayCharges[c][meter[c].day]
      /\ meter[c] \in Row /\ meter \in [Chats -> Row]
      /\ dayCharges \in [Chats -> [0..MaxDay -> Nat]]
  BY DEF TypeOK, DayCountNeverOverstated
<1>1. ASSUME meter'[c].day = meter[c].day, meter'[c].day_count = meter[c].day_count,
             dayCharges'[c] = dayCharges[c]
      PROVE  meter'[c].day_count <= dayCharges'[c][meter'[c].day]
  BY <1>0, <1>1
<1>2. ASSUME NEW w \in Workers, RollWindow(w)
      PROVE  meter'[c].day_count <= dayCharges'[c][meter'[c].day]
  <2>1. meter'[c] \in {meter[c], Rolled(meter[c])} /\ dayCharges' = dayCharges
    BY <1>0, <1>2 DEF RollWindow
  <2>2. meter'[c].day = meter[c].day /\ meter'[c].day_count = meter[c].day_count
    BY <1>0, <2>1 DEF Rolled, Row
  <2>. QED BY <1>1, <2>1, <2>2
<1>3. ASSUME NEW w \in Workers, Charge(w)
      PROVE  meter'[c].day_count <= dayCharges'[c][meter'[c].day]
  <2> DEFINE k == job[w].chat
             d == job[w].at
             new == Charged(meter[k], 1, job[w].total, d, job[w].live)
  <2>1. k \in Chats /\ d \in 0..MaxDay
    BY Typed DEF Job
  <2>2. CASE k = c
    <3>1. meter'[c] = new
      BY <1>3, <1>0, <2>2 DEF Charge
    <3>2. new.day = d /\ new.day_count = DayUsed(meter[c], d) + 1
      BY <2>2 DEF Charged
    <3>3. dayCharges'[c][d] = dayCharges[c][d] + 1 /\ dayCharges[c][d] \in Nat
      <4>1. dayCharges' = [dayCharges EXCEPT ![c] =
                             [dayCharges[c] EXCEPT ![d] = dayCharges[c][d] + 1]]
        BY <1>3, <2>2 DEF Charge
      <4>2. dayCharges[c] \in [0..MaxDay -> Nat]
        BY <1>0
      <4>. QED BY <1>0, <2>1, <4>1, <4>2
    <3>4. meter[c].day_count \in Nat /\ d # NULL
      BY <1>0, <2>1 DEF Row
    <3>5. DayUsed(meter[c], d) <= dayCharges[c][d]
      BY <1>0, <3>3, <3>4 DEF DayUsed
    <3>6. DayUsed(meter[c], d) \in Nat
      BY <3>4 DEF DayUsed
    <3> HIDE DEF new, d
    <3>. QED BY <3>1, <3>2, <3>3, <3>5, <3>6
  <2>3. CASE k # c
    <3>1. meter'[c] = meter[c] /\ dayCharges'[c] = dayCharges[c]
      BY <1>3, <1>0, <2>3 DEF Charge
    <3>. QED BY <1>1, <3>1
  <2>. QED BY <2>2, <2>3
<1>4. ASSUME NEW free \in Publications, NEW at \in 0..MaxDay, RefreshLadder(free, at)
      PROVE  meter'[c].day_count <= dayCharges'[c][meter'[c].day]
  <2>1. meter'[c] \in {meter[c], Stamped(meter[c], mirror.free_monthly, at)}
    BY <1>4 DEF RefreshLadder, UpsertLadder, StampOpenWindows
  <2>2. meter'[c].day = meter[c].day /\ meter'[c].day_count = meter[c].day_count
    BY <1>0, <2>1 DEF Stamped, Row
  <2>. QED BY <1>1, <1>4, <2>2 DEF RefreshLadder, UpsertLadder, historyVars
<1>5. ASSUME NEW k \in Chats, NEW calls \in Grants, GrantBonus(k, calls)
      PROVE  meter'[c].day_count <= dayCharges'[c][meter'[c].day]
  <2>1. meter'[c] \in {meter[c], [meter[c] EXCEPT !.bonus = meter[c].bonus + calls]}
    BY <1>0, <1>5 DEF GrantBonus
  <2>2. meter'[c].day = meter[c].day /\ meter'[c].day_count = meter[c].day_count
    BY <1>0, <2>1 DEF Row
  <2>. QED BY <1>1, <1>5, <2>2 DEF GrantBonus
<1>6. ASSUME UNCHANGED <<rowVars, historyVars>>
      PROVE  meter'[c].day_count <= dayCharges'[c][meter'[c].day]
  BY <1>1, <1>6 DEF rowVars, historyVars
<1>. QED
  BY <1>2, <1>3, <1>4, <1>5, <1>6
  DEF Next, WorkerStep, Evaluate, Consume, ReadRow, Withhold, Deliver, Crash, Tick, vars

(* No chat is walled for the day by alerts of another day                  *)
(* (consume_quota_atomic).                                                 *)
THEOREM DayCountSound == Spec => []DayCountNeverOverstated
BY SpecInv, DayCountInit, DayCountNext, PTL DEF Spec

LEMMA WindowStartKept ==
  ASSUME TypeOK, [Next]_vars, NEW c \in Chats,
         meter[c].window_start # NULL, meter'[c].window_start # NULL
  PROVE  meter'[c].window_start = meter[c].window_start
<1>0. meter[c] \in Row /\ meter \in [Chats -> Row]
  BY DEF TypeOK
<1>1. ASSUME NEW w \in Workers, RollWindow(w)
      PROVE  meter'[c].window_start = meter[c].window_start
  <2>1. meter'[c] \in {meter[c], Rolled(meter[c])}
    BY <1>0, <1>1 DEF RollWindow
  <2>2. Rolled(meter[c]).window_start = NULL
    BY <1>0 DEF Rolled, Row
  <2>. QED BY <2>1, <2>2
<1>2. ASSUME NEW w \in Workers, Charge(w)
      PROVE  meter'[c].window_start = meter[c].window_start
  <2> DEFINE new == Charged(meter[c], 1, job[w].total, job[w].at, job[w].live)
  <2>1. meter'[c] \in {meter[c], new}
    BY <1>0, <1>2 DEF Charge
  <2>2. new.window_start = Coalesce(meter[c].window_start, job[w].at)
    BY DEF Charged
  <2> HIDE DEF new
  <2>. QED BY <2>1, <2>2 DEF Coalesce
<1>3. ASSUME NEW free \in Publications, NEW at \in 0..MaxDay, RefreshLadder(free, at)
      PROVE  meter'[c].window_start = meter[c].window_start
  <2>1. meter'[c] \in {meter[c], Stamped(meter[c], mirror.free_monthly, at)}
    BY <1>3 DEF RefreshLadder, UpsertLadder, StampOpenWindows
  <2>. QED BY <1>0, <2>1 DEF Stamped, Row
<1>4. ASSUME NEW k \in Chats, NEW calls \in Grants, GrantBonus(k, calls)
      PROVE  meter'[c].window_start = meter[c].window_start
  <2>1. meter'[c] \in {meter[c], [meter[c] EXCEPT !.bonus = meter[c].bonus + calls]}
    BY <1>0, <1>4 DEF GrantBonus
  <2>. QED BY <1>0, <2>1 DEF Row
<1>5. CASE UNCHANGED <<rowVars, historyVars>>
  BY <1>5 DEF rowVars
<1>. QED
  BY <1>1, <1>2, <1>3, <1>4, <1>5
  DEF Next, WorkerStep, Evaluate, Consume, ReadRow, Withhold, Deliver, Crash, Tick, vars

(* No interleaving of charges and rolls moves the start of an open window  *)
(* (consume_quota_atomic).                                                 *)
THEOREM WindowStartSound == Spec => WindowNeverRestarted
<1>1. TypeOK /\ [Next]_vars =>
        \A c \in Chats :
          meter[c].window_start # NULL /\ meter'[c].window_start # NULL
            => meter'[c].window_start = meter[c].window_start
  BY WindowStartKept
<1>. QED BY <1>1, TypeCorrect, PTL DEF Spec, WindowNeverRestarted

LEMMA OpenWindowKept ==
  ASSUME TypeOK, [Next]_vars, mirror # NULL, mirror' # mirror,
         NEW c \in Chats, Open(meter[c], now)
  PROVE  Served(c)' >= OpenedUnder(c)
<1>1. PICK free \in Publications, at \in 0..MaxDay : RefreshLadder(free, at)
  BY DEF Next, WorkerStep, Evaluate, Consume, ReadRow, RollWindow, Withhold, Deliver,
         Charge, Crash, GrantBonus, Tick, vars, rowVars
<1>2. mirror \in Ladder /\ meter[c] \in Row
  BY DEF TypeOK
<1>3. mirror.free_monthly \in Nat \ {0} /\ mirror.free_monthly # NULL
  BY <1>2 DEF Ladder
<1>4. meter'[c] = Stamped(meter[c], mirror.free_monthly, at) /\ now' = now
  BY <1>1 DEF RefreshLadder, UpsertLadder, StampOpenWindows
<1>5. LiveMonthly(mirror, now)' \in Nat
  <2>1. mirror' \in Ladder /\ now' \in Nat
    BY <1>1, <1>4, Typed, MirroredType DEF RefreshLadder, UpsertLadder
  <2>. QED BY <2>1 DEF LiveMonthly, Usable, Ladder
<1>6. meter'[c].window_cap = OpenedUnder(c) /\ OpenedUnder(c) \in Nat
        /\ OpenedUnder(c) # NULL /\ meter'[c].window_start = meter[c].window_start
  <2>1. Open(meter[c], at)
    <3>1. at <= now /\ now \in Nat
      BY <1>1, Typed DEF RefreshLadder, UpsertLadder
    <3>2. meter[c].window_start # NULL => meter[c].window_start \in Nat
      BY <1>2 DEF Row, Day
    <3>. QED BY <3>1, <3>2 DEF Open
  <2>. QED BY <1>2, <1>3, <1>4, <2>1 DEF Stamped, OpenedUnder, Row
<1>7. Open(meter'[c], now')
  BY <1>4, <1>6 DEF Open
<1>8. Served(c)' = Larger(LiveMonthly(mirror, now)', OpenedUnder(c))
  BY <1>6, <1>7 DEF Served, EffectiveTotal
<1>. QED BY <1>5, <1>6, <1>8 DEF Larger

(* A refresh of the ladder never takes back from an open window            *)
(* (upsert_free_tier_ladder).                                              *)
THEOREM RefreshSound == Spec => RefreshNeverClawsBack
<1>1. TypeOK /\ [Next]_vars =>
        [ mirror # NULL /\ mirror' # mirror =>
            \A c \in Chats : Open(meter[c], now) => Served(c)' >= OpenedUnder(c) ]_vars
  BY OpenWindowKept
<1>. QED BY <1>1, TypeCorrect, PTL DEF Spec, RefreshNeverClawsBack

(* The mirror, like every ladder read from it, is one pair that was        *)
(* published.                                                              *)
MirrorPublished == mirror # NULL => Published(mirror.free_monthly, mirror.free_daily)

LadderInv == MirrorPublished /\ OnePublishedLadder

LEMMA MirroredPublished ==
  ASSUME NEW free \in Publications, NEW t
  PROVE  Published(Mirrored(free, t).free_monthly, Mirrored(free, t).free_daily)
<1> DEFINE pair == FreeAllowance(free)
<1>1. pair \in {free.telegram, free.api}
  BY DEF FreeAllowance
<1>2. pair \in Pair
  BY <1>1 DEF Publication
<1>3. pair = [monthly |-> pair.monthly, daily |-> pair.daily]
  BY <1>2 DEF Pair
<1>4. Published(pair.monthly, pair.daily)
  BY <1>1, <1>3 DEF Published
<1>. QED BY <1>4 DEF Mirrored

LEMMA LadderInit == Init => LadderInv
<1>1. ASSUME Init PROVE MirrorPublished
  BY <1>1, MirroredPublished DEF Init, Usables, MirrorPublished
<1>2. ASSUME Init PROVE OnePublishedLadder
  BY <1>2 DEF Init, OnePublishedLadder, IdleJob
<1>. QED BY <1>1, <1>2 DEF LadderInv

(* Whatever is read of the mirror at once is one ladder. *)
LEMMA WithOneLadder ==
  ASSUME TypeOK, LadderInv, NEW j \in Job
  PROVE  LET k == WithLadder(j)
         IN  \/ k.live = FallbackMonthly /\ k.daily = FallbackDaily
             \/ Published(k.live, k.daily)
<1> DEFINE k == WithLadder(j)
<1>1. k.live = LiveMonthly(mirror, now) /\ k.daily = LiveDaily(mirror, now)
  BY DEF WithLadder, Job
<1>2. CASE Usable(mirror, now)
  BY <1>1, <1>2 DEF LiveMonthly, LiveDaily, LadderInv, MirrorPublished, Usable
<1>3. CASE ~Usable(mirror, now)
  BY <1>1, <1>3 DEF LiveMonthly, LiveDaily
<1>. QED BY <1>2, <1>3

LEMMA LadderNext ==
  ASSUME Inv, LadderInv, [Next]_vars
  PROVE  LadderInv'
<1>0. job \in [Workers -> Job] /\ TypeOK
  BY DEF Inv, TypeOK
<1> DEFINE Same(j, k) == j.live = k.live /\ j.daily = k.daily
           One(j) == \/ j.live = FallbackMonthly /\ j.daily = FallbackDaily
                     \/ Published(j.live, j.daily)
<1>1. \A v \in Workers : One(job[v])
  BY DEF LadderInv, OnePublishedLadder
<1>2. One(IdleJob)
  BY DEF IdleJob
<1>3. ASSUME NEW w \in Workers, NEW new, One(new), job' = [job EXCEPT ![w] = new],
             mirror' = mirror
      PROVE  LadderInv'
  <2>1. \A v \in Workers : One(job'[v])
    BY <1>0, <1>1, <1>3
  <2>2. MirrorPublished'
    BY <1>3 DEF LadderInv, MirrorPublished, Published
  <2>. QED BY <2>1, <2>2 DEF LadderInv, OnePublishedLadder, Published
<1>4. ASSUME job' = job, mirror' = mirror
      PROVE  LadderInv'
  BY <1>4 DEF LadderInv, MirrorPublished, OnePublishedLadder, Published
<1>5. ASSUME NEW w \in Workers, NEW c \in Chats, Evaluate(w, c)
      PROVE  LadderInv'
  <2> DEFINE new == WithLadder([IdleJob EXCEPT !.chat = c])
  <2>1. [IdleJob EXCEPT !.chat = c] \in Job
    BY IdleJobType DEF Job
  <2>2. One(new)
    BY <1>0, <2>1, WithOneLadder
  <2>3. job' = [job EXCEPT ![w] = new] /\ mirror' = mirror
    BY <1>5 DEF Evaluate, rowVars
  <2>. QED BY <1>3, <2>2, <2>3
<1>6. ASSUME NEW w \in Workers, Consume(w)
      PROVE  LadderInv'
  <2> DEFINE new == WithLadder(job[w])
  <2>1. One(new)
    BY <1>0, WithOneLadder
  <2>2. job' = [job EXCEPT ![w] = new] /\ mirror' = mirror
    BY <1>6 DEF Consume, rowVars
  <2>. QED BY <1>3, <2>1, <2>2
<1>7. ASSUME NEW w \in Workers, ReadRow(w) \/ RollWindow(w)
      PROVE  LadderInv'
  <2>1. PICK new : job' = [job EXCEPT ![w] = new] /\ Same(new, job[w])
    BY <1>0, <1>7 DEF ReadRow, RollWindow, Job
  <2>2. mirror' = mirror
    BY <1>7 DEF ReadRow, RollWindow, rowVars
  <2>. QED BY <1>1, <1>3, <2>1, <2>2
<1>8. ASSUME NEW w \in Workers, Withhold(w) \/ Crash(w)
      PROVE  LadderInv'
  BY <1>2, <1>3, <1>8 DEF Withhold, Crash, rowVars
<1>9. ASSUME NEW w \in Workers, NEW n \in 1..MaxItems, Deliver(w, n)
      PROVE  LadderInv'
  <2> DEFINE new == [job[w] EXCEPT !.call = "consume", !.left = n]
  <2>1. job' = [job EXCEPT ![w] = new]
    BY <1>9 DEF Deliver
  <2>2. Same(new, job[w])
    BY <1>0 DEF Job
  <2>3. mirror' = mirror
    BY <1>9 DEF Deliver, rowVars
  <2> HIDE DEF new
  <2>. QED BY <1>1, <1>3, <2>1, <2>2, <2>3
<1>10. ASSUME NEW w \in Workers, Charge(w)
      PROVE  LadderInv'
  <2>1. mirror' = mirror
    BY <1>10 DEF Charge
  <2>2. CASE job[w].left = 1
    BY <1>2, <1>3, <1>10, <2>1, <2>2 DEF Charge
  <2>3. CASE job[w].left # 1
    <3> DEFINE new == [job[w] EXCEPT !.left = @ - 1]
    <3>1. job' = [job EXCEPT ![w] = new]
      BY <1>10, <2>3 DEF Charge
    <3>2. Same(new, job[w])
      BY <1>0 DEF Job
    <3> HIDE DEF new
    <3>. QED BY <1>1, <1>3, <2>1, <3>1, <3>2
  <2>. QED BY <2>2, <2>3
<1>11. ASSUME NEW free \in Publications, NEW at \in 0..MaxDay, RefreshLadder(free, at)
      PROVE  LadderInv'
  <2>1. mirror' = Mirrored(free, at) /\ job' = job
    BY <1>11 DEF RefreshLadder, UpsertLadder
  <2>2. MirrorPublished'
    BY <2>1, MirroredPublished DEF MirrorPublished, Published
  <2>. QED BY <2>1, <2>2 DEF LadderInv, OnePublishedLadder, Published
<1>12. ASSUME NEW c \in Chats, NEW calls \in Grants, GrantBonus(c, calls)
      PROVE  LadderInv'
  BY <1>4, <1>12 DEF GrantBonus
<1>13. CASE Tick \/ UNCHANGED vars
  BY <1>4, <1>13 DEF Tick, vars, rowVars
<1>. QED
  BY <1>5, <1>6, <1>7, <1>8, <1>9, <1>10, <1>11, <1>12, <1>13 DEF Next, WorkerStep

(* A decision, and the charge that follows it, rest on one published       *)
(* ladder (upsert_free_tier_ladder, resolve_ladder).                       *)
THEOREM LadderSound == Spec => []OnePublishedLadder
<1>1. LadderInv => OnePublishedLadder
  BY DEF LadderInv
<1>. QED BY <1>1, SpecInv, LadderInit, LadderNext, PTL DEF Spec

---------------------------------------------------------------------------
(* How far a chat may pass its allowance.  Every decision reads the row,   *)
(* every charge comes later, so what counts is what the workers may still  *)
(* charge a chat on the decisions they have made: a unit for each item a   *)
(* worker is metering, MaxItems for a decision to serve.                   *)

(* Every figure in play was published, or is the fallback. *)
FiguresInv ==
  /\ \A w \in Workers : job[w].live \in MonthlyFigures /\ job[w].total \in MonthlyFigures
  /\ \A c \in Chats : meter[c].window_cap # NULL => meter[c].window_cap \in MonthlyFigures
  /\ mirror # NULL => mirror.free_monthly \in MonthlyFigures

(* No worker meters more than one decision delivers. *)
LeftInv == \A w \in Workers : job[w].left <= MaxItems

LEMMA FiguresType ==
  /\ FallbackMonthly \in MonthlyFigures
  /\ MonthlyFigures \subseteq Nat \ {0}
  /\ \A free \in Publications : Parses(free) => FreeAllowance(free).monthly \in MonthlyFigures
<1>1. ASSUME NEW free \in Usables PROVE FreeAllowance(free).monthly \in Nat \ {0}
  <2>1. FreeAllowance(free) \in Pair
    BY <1>1 DEF FreeAllowance, Publication, Usables
  <2>. QED BY <1>1, <2>1 DEF Usables, Parses, Complete, Pair
<1>. QED BY <1>1 DEF MonthlyFigures, Usables

LEMMA FiguresInit == Init => FiguresInv /\ LeftInv
<1> SUFFICES ASSUME Init PROVE FiguresInv /\ LeftInv
  OBVIOUS
<1>1. \A c \in Chats : meter[c].window_cap = NULL
  <2>1. \A c \in Chats : meter[c] \in {FreshRow, UnstampedRow}
    BY DEF Init
  <2>2. FreshRow.window_cap = NULL /\ UnstampedRow.window_cap = NULL
    BY DEF FreshRow, UnstampedRow
  <2>. QED BY <2>1, <2>2
<1>2. mirror # NULL => mirror.free_monthly \in MonthlyFigures
  BY FiguresType DEF Init, Usables, Mirrored
<1>3. \A w \in Workers : job[w] = IdleJob
  BY DEF Init
<1>4. IdleJob.live = FallbackMonthly /\ IdleJob.total = FallbackMonthly /\ IdleJob.left = 0
  BY DEF IdleJob
<1>5. FiguresInv
  BY <1>1, <1>2, <1>3, <1>4, FiguresType DEF FiguresInv
<1>6. LeftInv
  BY <1>3, <1>4 DEF LeftInv
<1>. QED BY <1>5, <1>6

(* The ladder a worker reads and the total it makes of it are figures in   *)
(* play.                                                                   *)
LEMMA ReadFigure ==
  ASSUME FiguresInv, NEW t
  PROVE  LiveMonthly(mirror, t) \in MonthlyFigures
BY FiguresType DEF FiguresInv, LiveMonthly, Usable

LEMMA TotalFigure ==
  ASSUME FiguresInv, NEW c \in Chats, NEW live \in MonthlyFigures, NEW t
  PROVE  EffectiveTotal(live, meter[c], t) \in MonthlyFigures
BY DEF FiguresInv, EffectiveTotal, Larger

LEMMA FiguresNext == Inv /\ FiguresInv /\ LeftInv /\ [Next]_vars => FiguresInv' /\ LeftInv'
<1> SUFFICES ASSUME Inv, FiguresInv, LeftInv, [Next]_vars PROVE FiguresInv' /\ LeftInv'
  OBVIOUS
<1>0. TypeOK /\ job \in [Workers -> Job] /\ meter \in [Chats -> Row]
  BY DEF Inv, TypeOK
<1>a. \A w \in Workers : job[w] \in Job
  BY <1>0
<1> DEFINE Good(j) == j.live \in MonthlyFigures /\ j.total \in MonthlyFigures
                        /\ j.left <= MaxItems
           Capped(row) == row.window_cap # NULL => row.window_cap \in MonthlyFigures
<1>b. \A w \in Workers : Good(job[w])
  BY DEF FiguresInv, LeftInv
<1>c. Good(IdleJob)
  BY FiguresType DEF IdleJob
<1>d. \A c \in Chats : Capped(meter[c])
  BY DEF FiguresInv
<1>e. (\A w \in Workers : Good(job'[w])) /\ (\A c \in Chats : Capped(meter'[c]))
        /\ (mirror' = mirror \/ (mirror' # NULL => mirror'.free_monthly \in MonthlyFigures))
        => FiguresInv' /\ LeftInv'
  <2>1. MonthlyFigures' = MonthlyFigures
    OBVIOUS
  <2>. QED BY <2>1 DEF FiguresInv, LeftInv
<1> HIDE DEF Good, Capped
<1>f. ASSUME NEW w \in Workers, NEW new, job' = [job EXCEPT ![w] = new], Good(new)
      PROVE  \A v \in Workers : Good(job'[v])
  BY <1>b, <1>f, <1>0
<1>1. ASSUME NEW w \in Workers, NEW c \in Chats, Evaluate(w, c)
      PROVE  FiguresInv' /\ LeftInv'
  <2> DEFINE new == WithLadder([IdleJob EXCEPT !.chat = c])
  <2>1. new.live = LiveMonthly(mirror, now) /\ new.total = IdleJob.total /\ new.left = 0
    BY IdleJobType DEF WithLadder, IdleJob, Job
  <2>2. Good(new)
    BY <2>1, <1>c, ReadFigure DEF Good
  <2>3. job' = [job EXCEPT ![w] = new] /\ meter' = meter /\ mirror' = mirror
    BY <1>1 DEF Evaluate, rowVars
  <2> HIDE DEF new
  <2>. QED BY <1>d, <1>e, <1>f, <2>2, <2>3
<1>2. ASSUME NEW w \in Workers, Consume(w)
      PROVE  FiguresInv' /\ LeftInv'
  <2> DEFINE new == WithLadder(job[w])
  <2>1. new.live = LiveMonthly(mirror, now) /\ new.total = job[w].total
          /\ new.left = job[w].left
    BY <1>a DEF WithLadder, Job
  <2>2. Good(new)
    BY <2>1, <1>b, ReadFigure DEF Good
  <2>3. job' = [job EXCEPT ![w] = new] /\ meter' = meter /\ mirror' = mirror
    BY <1>2 DEF Consume, rowVars
  <2> HIDE DEF new
  <2>. QED BY <1>d, <1>e, <1>f, <2>2, <2>3
<1>3. ASSUME NEW w \in Workers, ReadRow(w)
      PROVE  FiguresInv' /\ LeftInv'
  <2> DEFINE total == EffectiveTotal(job[w].live, meter[job[w].chat], now)
  <2>1. PICK verdict \in {"serve", "refuse"} :
          job' = [job EXCEPT ![w] = [job[w] EXCEPT !.total = total, !.verdict = verdict,
                                                   !.at = now]]
    BY <1>3 DEF ReadRow
  <2>2. total \in MonthlyFigures
    BY <1>a, <1>b, TotalFigure DEF Good, Job
  <2> HIDE DEF total
  <2> DEFINE new == [job[w] EXCEPT !.total = total, !.verdict = verdict, !.at = now]
  <2>3. new.live = job[w].live /\ new.total = total /\ new.left = job[w].left
    BY <1>a DEF Job
  <2>4. Good(new)
    BY <2>2, <2>3, <1>b DEF Good
  <2>5. meter' = meter /\ mirror' = mirror
    BY <1>3 DEF ReadRow, rowVars
  <2> HIDE DEF new
  <2>6. job' = [job EXCEPT ![w] = new]
    BY <2>1 DEF new
  <2>. QED BY <1>d, <1>e, <1>f, <2>4, <2>5, <2>6
<1>4. ASSUME NEW w \in Workers, RollWindow(w)
      PROVE  FiguresInv' /\ LeftInv'
  <2> DEFINE new == [job[w] EXCEPT !.at = now]
  <2>1. job' = [job EXCEPT ![w] = new] /\ mirror' = mirror
          /\ meter' = [meter EXCEPT ![job[w].chat] = Rolled(meter[job[w].chat])]
    BY <1>4 DEF RollWindow
  <2>2. Good(new)
    <3>1. new.live = job[w].live /\ new.total = job[w].total /\ new.left = job[w].left
      BY <1>a DEF Job
    <3>. QED BY <3>1, <1>b DEF Good
  <2>3. \A c \in Chats : Capped(meter'[c])
    <3>1. \A c \in Chats : Rolled(meter[c]).window_cap = NULL
      BY <1>0 DEF Rolled, Row
    <3>. QED BY <2>1, <3>1, <1>0, <1>a, <1>d DEF Capped, Job
  <2> HIDE DEF new
  <2>. QED BY <1>e, <1>f, <2>1, <2>2, <2>3
<1>5. ASSUME NEW w \in Workers, Withhold(w) \/ Crash(w)
      PROVE  FiguresInv' /\ LeftInv'
  <2>1. job' = [job EXCEPT ![w] = IdleJob] /\ meter' = meter /\ mirror' = mirror
    BY <1>5 DEF Withhold, Crash, rowVars
  <2>. QED BY <1>c, <1>d, <1>e, <1>f, <2>1
<1>6. ASSUME NEW w \in Workers, NEW n \in 1..MaxItems, Deliver(w, n)
      PROVE  FiguresInv' /\ LeftInv'
  <2> DEFINE new == [job[w] EXCEPT !.call = "consume", !.left = n]
  <2>1. job' = [job EXCEPT ![w] = new] /\ meter' = meter /\ mirror' = mirror
    BY <1>6 DEF Deliver, rowVars
  <2>2. new.live = job[w].live /\ new.total = job[w].total /\ new.left = n
    BY <1>a DEF Job
  <2>3. Good(new)
    BY <2>2, <1>b DEF Good
  <2> HIDE DEF new
  <2>. QED BY <1>d, <1>e, <1>f, <2>1, <2>3
<1>7. ASSUME NEW w \in Workers, Charge(w)
      PROVE  FiguresInv' /\ LeftInv'
  <2> DEFINE row == Charged(meter[job[w].chat], 1, job[w].total, job[w].at, job[w].live)
             new == IF job[w].left = 1 THEN IdleJob ELSE [job[w] EXCEPT !.left = @ - 1]
  <2>1. job' = [job EXCEPT ![w] = new] /\ mirror' = mirror
          /\ meter' = [meter EXCEPT ![job[w].chat] = row]
    BY <1>7 DEF Charge
  <2>2. Good(new)
    <3>1. CASE job[w].left = 1
      BY <3>1, <1>c
    <3>2. CASE job[w].left # 1
      <4> DEFINE less == [job[w] EXCEPT !.left = @ - 1]
      <4>1. less.live = job[w].live /\ less.total = job[w].total
              /\ less.left = job[w].left - 1
        BY <1>a DEF Job
      <4>2. job[w].left \in Nat
        BY <1>a DEF Job
      <4>3. Good(less)
        BY <4>1, <4>2, <1>b DEF Good
      <4>. QED BY <3>2, <4>3
    <3>. QED BY <3>1, <3>2
  <2>3. Capped(row)
    <3>1. row.window_cap \in {meter[job[w].chat].window_cap, job[w].live}
      BY DEF Charged, Coalesce
    <3>2. job[w].chat \in Chats
      BY <1>a DEF Job
    <3>. QED BY <3>1, <3>2, <1>b, <1>d DEF Good, Capped
  <2> HIDE DEF new, row
  <2>4. \A c \in Chats : Capped(meter'[c])
    BY <1>0, <1>d, <2>1, <2>3
  <2>. QED BY <1>e, <1>f, <2>1, <2>2, <2>4
<1>8. ASSUME NEW free \in Publications, NEW at \in 0..MaxDay, RefreshLadder(free, at)
      PROVE  FiguresInv' /\ LeftInv'
  <2>1. job' = job /\ mirror' = Mirrored(free, at) /\ meter' = StampOpenWindows(at)
          /\ Parses(free)
    BY <1>8 DEF RefreshLadder, UpsertLadder
  <2>2. mirror'.free_monthly \in MonthlyFigures
    BY <2>1, FiguresType DEF Mirrored
  <2>3. ASSUME NEW c \in Chats PROVE Capped(meter'[c])
    <3>1. meter'[c] = meter[c] \/ (mirror # NULL /\ meter'[c] = [meter[c] EXCEPT !.window_cap = mirror.free_monthly])
      BY <2>1 DEF StampOpenWindows, Stamped
    <3>2. meter[c] \in Row
      BY <1>0
    <3>3. mirror # NULL => Capped([meter[c] EXCEPT !.window_cap = mirror.free_monthly])
      BY <3>2 DEF Capped, Row, FiguresInv
    <3>. QED BY <3>1, <3>3, <1>d
  <2>. QED BY <1>b, <1>e, <2>1, <2>2, <2>3
<1>9. ASSUME NEW c \in Chats, NEW calls \in Grants, GrantBonus(c, calls)
      PROVE  FiguresInv' /\ LeftInv'
  <2>1. job' = job /\ mirror' = mirror
          /\ meter' = [meter EXCEPT ![c] = [meter[c] EXCEPT !.bonus = @ + calls]]
    BY <1>9 DEF GrantBonus
  <2>2. ASSUME NEW d \in Chats PROVE Capped(meter'[d])
    <3>1. meter'[d].window_cap = meter[d].window_cap
      BY <2>1, <1>0 DEF Row
    <3>. QED BY <3>1, <1>d DEF Capped
  <2>. QED BY <1>b, <1>e, <2>1, <2>2
<1>10. CASE Tick \/ UNCHANGED vars
  BY <1>b, <1>d, <1>e, <1>10 DEF Tick, vars, rowVars
<1>. QED
  BY <1>1, <1>2, <1>3, <1>4, <1>5, <1>6, <1>7, <1>8, <1>9, <1>10 DEF Next, WorkerStep

(* What a worker with job j, being there, may still charge chat c. *)
LoadOf(there, j, c) ==
  CASE j.chat # c                                          -> 0
    [] j.chat = c /\ there = "decided" /\ j.verdict = "serve"  -> MaxItems
    [] j.chat = c /\ there = "decided" /\ j.verdict # "serve"  -> 0
    [] j.chat = c /\ there # "decided" /\ j.call = "consume"   -> j.left
    [] j.chat = c /\ there # "decided" /\ j.call # "consume"   -> 0

Load(c) == [w \in Workers |-> LoadOf(pc[w], job[w], c)]

(* The units of such loads, one element each. *)
Units(load) == {u \in Workers \X (1..MaxItems) : u[2] <= load[u[1]]}
Pending(c)  == Cardinality(Units(Load(c)))

LEMMA InFlightType == InFlight \in Nat \ {0}
<1>1. Cardinality(Workers) \in Nat
  BY FS_CardinalityType
<1>2. Cardinality(Workers) # 0
  BY FS_EmptySet
<1> DEFINE n == Cardinality(Workers)
<1> HIDE DEF n
<1>3. ASSUME n \in Nat \ {0} PROVE n * MaxItems \in Nat \ {0}
  BY <1>3, SMT
<1>4. n \in Nat \ {0}
  BY <1>1, <1>2 DEF n
<1>. QED BY <1>3, <1>4 DEF n, InFlight

(* There are never more than the workers can have in flight. *)
LEMMA UnitsFit ==
  ASSUME NEW load
  PROVE  /\ IsFiniteSet(Units(load))
         /\ Cardinality(Units(load)) \in Nat
         /\ Cardinality(Units(load)) <= InFlight
<1> DEFINE I == 1..MaxItems
<1>1. IsFiniteSet(I) /\ Cardinality(I) = MaxItems
  BY FS_Interval
<1>2. IsFiniteSet(Workers \X I) /\ Cardinality(Workers \X I) = InFlight
  <2> HIDE DEF I
  <2>. QED BY <1>1, FS_Product DEF InFlight
<1>3. Units(load) \in SUBSET (Workers \X I)
  BY DEF Units
<1> HIDE DEF I
<1>. QED BY <1>2, <1>3, FS_Subset, FS_CardinalityType

(* Lighter loads have no more units. *)
LEMMA UnitsShrink ==
  ASSUME NEW load \in [Workers -> Nat], NEW less \in [Workers -> Nat],
         \A w \in Workers : less[w] <= load[w]
  PROVE  Cardinality(Units(less)) <= Cardinality(Units(load))
<1>1. Units(less) \in SUBSET Units(load)
  <2>1. ASSUME NEW u \in Workers \X (1..MaxItems), u[2] <= less[u[1]]
        PROVE  u[2] <= load[u[1]]
    <3>1. u[1] \in Workers /\ u[2] \in Nat
      BY <2>1
    <3>2. less[u[1]] \in Nat /\ load[u[1]] \in Nat /\ less[u[1]] <= load[u[1]]
      BY <3>1
    <3>. QED BY <2>1, <3>1, <3>2
  <2>. QED BY <2>1 DEF Units
<1>. QED BY <1>1, UnitsFit, FS_Subset

(* A unit charged is a unit less. *)
LEMMA UnitsSpent ==
  ASSUME NEW load \in [Workers -> Nat], NEW less \in [Workers -> Nat],
         \A w \in Workers : less[w] <= load[w],
         NEW w \in Workers, load[w] \in 1..MaxItems, less[w] < load[w]
  PROVE  Cardinality(Units(less)) + 1 <= Cardinality(Units(load))
<1> DEFINE u == <<w, load[w]>>
<1>1. u \in Units(load)
  BY DEF Units
<1>2. Units(less) \in SUBSET (Units(load) \ {u})
  <2>1. ASSUME NEW v \in Workers \X (1..MaxItems), v[2] <= less[v[1]]
        PROVE  v[2] <= load[v[1]] /\ v # u
    <3>1. v[1] \in Workers /\ v[2] \in Nat
      BY <2>1
    <3>2. less[v[1]] \in Nat /\ load[v[1]] \in Nat /\ less[v[1]] <= load[v[1]]
      BY <3>1
    <3>3. v # u
      <4>1. CASE v[1] = w
        BY <2>1, <3>1, <3>2, <4>1
      <4>2. CASE v[1] # w
        BY <4>2
      <4>. QED BY <4>1, <4>2
    <3>. QED BY <2>1, <3>1, <3>2, <3>3
  <2>. QED BY <2>1 DEF Units
<1> HIDE DEF u
<1>3. /\ IsFiniteSet(Units(load) \ {u})
      /\ Cardinality(Units(load) \ {u}) = Cardinality(Units(load)) - 1
  BY <1>1, UnitsFit, FS_RemoveElement
<1>4. Cardinality(Units(less)) <= Cardinality(Units(load) \ {u})
  BY <1>2, <1>3, FS_Subset
<1>. QED BY <1>3, <1>4, UnitsFit

(* What a chat may be over after it was granted a bonus that often. *)
Slack(g) == g * (InFlight - 1)

LEMMA SlackGrows ==
  ASSUME NEW g \in Nat
  PROVE  /\ Slack(g) \in Nat /\ Slack(g + 1) \in Nat
         /\ Slack(g + 1) = Slack(g) + (InFlight - 1)
<1>1. ASSUME NEW n \in Nat, NEW a \in Nat
      PROVE  a * n \in Nat /\ (a + 1) * n \in Nat /\ (a + 1) * n = a * n + n
  BY SMT
<1>2. InFlight - 1 \in Nat
  BY InFlightType
<1> DEFINE k == InFlight - 1
<1> HIDE DEF k
<1>3. g * k \in Nat /\ (g + 1) * k \in Nat /\ (g + 1) * k = g * k + k
  BY <1>1, <1>2 DEF k
<1>. QED BY <1>3 DEF k, Slack

LEMMA LoadType ==
  ASSUME TypeOK
  PROVE  \A c \in Chats : Load(c) \in [Workers -> Nat]
<1>1. \A w \in Workers : job[w].left \in Nat
  BY DEF TypeOK, Job
<1>2. \A w \in Workers, c \in Chats : LoadOf(pc[w], job[w], c) \in Nat
  BY <1>1 DEF LoadOf
<1>. QED BY <1>2 DEF Load

LEMMA LoadTypeNext ==
  ASSUME TypeOK'
  PROVE  \A c \in Chats : Load(c)' \in [Workers -> Nat]
<1>1. \A w \in Workers : job'[w].left \in Nat
  BY DEF TypeOK, Job
<1>2. \A w \in Workers, c \in Chats : LoadOf(pc'[w], job'[w], c) \in Nat
  BY <1>1 DEF LoadOf
<1>. QED BY <1>2 DEF Load, LoadOf

LEMMA PendingType ==
  \A c \in Chats : Pending(c) \in Nat /\ Pending(c) <= InFlight
BY UnitsFit DEF Pending

LEMMA PendingTypeNext ==
  \A c \in Chats : Pending(c)' \in Nat /\ Pending(c)' <= InFlight
<1>1. \A load : Cardinality(Units(load)) \in Nat /\ Cardinality(Units(load)) <= InFlight
  BY UnitsFit
<1>. QED BY <1>1 DEF Pending, Units

(* The inductive invariant, of one chat: without a bonus, what it has been *)
(* charged and what is pending on it fit above a figure; with a bonus,     *)
(* which decides whatever is charged, the row alone does, one grant less.  *)
Pace(count, bonus, g, pending) ==
  /\ bonus = 0 => \E m \in MonthlyFigures : count + pending <= m + Slack(g + 1)
  /\ bonus > 0 => \E m \in MonthlyFigures : count <= m + Slack(g)

PaceInv == \A c \in Chats : Pace(meter[c].alert_count, meter[c].bonus, grants[c], Pending(c))

LEMMA PaceLess ==
  ASSUME NEW a \in Nat, NEW b \in Nat, NEW g \in Nat, NEW p \in Nat, NEW q \in Nat,
         Pace(a, b, g, p), q <= p
  PROVE  Pace(a, b, g, q)
<1>1. Slack(g + 1) \in Nat /\ MonthlyFigures \subseteq Nat
  BY SlackGrows, FiguresType
<1>2. ASSUME NEW m \in MonthlyFigures, a + p <= m + Slack(g + 1)
      PROVE  a + q <= m + Slack(g + 1)
  BY <1>1, <1>2
<1>. QED BY <1>2 DEF Pace

(* A decision to serve: there was headroom, or a bonus. *)
LEMMA PaceDecided ==
  ASSUME NEW a \in Nat, NEW b \in Nat, NEW g \in Nat, NEW p \in Nat, NEW q \in Nat,
         Pace(a, b, g, p), q <= InFlight,
         NEW total \in MonthlyFigures, a < total \/ b > 0
  PROVE  Pace(a, b, g, q)
<1>1. Slack(g) \in Nat /\ Slack(g + 1) = Slack(g) + (InFlight - 1)
  BY SlackGrows
<1>2. total \in Nat /\ InFlight \in Nat \ {0}
  BY FiguresType, InFlightType
<1>3. a < total => a + q <= total + Slack(g + 1)
  BY <1>1, <1>2
<1>. QED BY <1>3 DEF Pace

(* A roll leaves an empty window, whatever is pending. *)
LEMMA PaceRolled ==
  ASSUME NEW b \in Nat, NEW g \in Nat, NEW q \in Nat, q <= InFlight
  PROVE  Pace(0, b, g, q)
<1>1. Slack(g) \in Nat /\ Slack(g + 1) = Slack(g) + (InFlight - 1)
  BY SlackGrows
<1>2. InFlight \in Nat \ {0} /\ FallbackMonthly \in MonthlyFigures
  BY FiguresType, InFlightType
<1>3. 0 + q <= FallbackMonthly + Slack(g + 1) /\ 0 <= FallbackMonthly + Slack(g)
  BY <1>1, <1>2
<1>. QED BY <1>2, <1>3 DEF Pace

(* A charge turns a pending unit into a counted one, or takes it from the  *)
(* bonus; it fills the window up to a figure at most while there is one.   *)
LEMMA PaceCharged ==
  ASSUME NEW row \in Row, NEW g \in Nat, NEW p \in Nat, NEW q \in Nat,
         Pace(row.alert_count, row.bonus, g, p), q + 1 <= p, p <= InFlight,
         NEW total \in MonthlyFigures, NEW t, NEW cap
  PROVE  LET new == Charged(row, 1, total, t, cap)
         IN  Pace(new.alert_count, new.bonus, g, q)
<1> DEFINE new == Charged(row, 1, total, t, cap)
           a   == row.alert_count
<1>0. a \in Nat /\ row.bonus \in Nat
  BY DEF Row
<1>1. Slack(g) \in Nat /\ Slack(g + 1) = Slack(g) + (InFlight - 1)
  BY SlackGrows
<1>2. total \in Nat /\ InFlight \in Nat \ {0} /\ MonthlyFigures \subseteq Nat
  BY FiguresType, InFlightType
<1>3. CASE row.bonus = 0
  <2>1. new.alert_count = a + 1 /\ new.bonus = 0
    BY <1>3 DEF Charged, MonthlyCharge, BonusLeft
  <2>2. PICK m \in MonthlyFigures : a + p <= m + Slack(g + 1)
    BY <1>3 DEF Pace
  <2>3. (a + 1) + q <= m + Slack(g + 1)
    BY <1>0, <1>1, <1>2, <2>2
  <2>. QED BY <2>1, <2>2, <2>3 DEF Pace
<1>4. CASE row.bonus > 0
  <2>1. PICK m \in MonthlyFigures : a <= m + Slack(g)
    BY <1>4 DEF Pace
  <2>2. CASE a < total
    <3>1. new.alert_count = a + 1 /\ new.bonus = row.bonus
      BY <1>0, <1>2, <1>4, <2>2 DEF Charged, MonthlyCharge, BonusLeft, Larger, Smaller
    <3>2. a + 1 <= total + Slack(g)
      BY <1>0, <1>1, <1>2, <2>2
    <3>. QED BY <1>4, <3>1, <3>2 DEF Pace
  <2>3. CASE ~(a < total)
    <3>1. new.alert_count = a /\ new.bonus = row.bonus - 1
      BY <1>0, <1>2, <1>4, <2>3 DEF Charged, MonthlyCharge, BonusLeft, Larger, Smaller
    <3>2. a + q <= m + Slack(g + 1)
      BY <1>0, <1>1, <1>2, <2>1
    <3>. QED BY <2>1, <3>1, <3>2 DEF Pace
  <2>. QED BY <2>2, <2>3
<1>. QED BY <1>0, <1>3, <1>4

(* A grant is worth another window of pending decisions. *)
LEMMA PaceGranted ==
  ASSUME NEW a \in Nat, NEW b \in Nat, NEW g \in Nat, NEW p \in Nat,
         Pace(a, b, g, p), NEW calls \in Nat
  PROVE  Pace(a, b + calls, g + 1, p)
<1>1. /\ Slack(g) \in Nat /\ Slack(g + 1) \in Nat
      /\ Slack(g + 1) = Slack(g) + (InFlight - 1)
      /\ Slack((g + 1) + 1) = Slack(g + 1) + (InFlight - 1)
  BY SlackGrows
<1>2. InFlight \in Nat \ {0} /\ MonthlyFigures \subseteq Nat
  BY FiguresType, InFlightType
<1>3. CASE b = 0
  <2>1. PICK m \in MonthlyFigures : a + p <= m + Slack(g + 1)
    BY <1>3 DEF Pace
  <2>2. a + p <= m + Slack((g + 1) + 1) /\ a <= m + Slack(g + 1)
    BY <1>1, <1>2, <2>1
  <2>. QED BY <2>2 DEF Pace
<1>4. CASE b > 0
  <2>1. PICK m \in MonthlyFigures : a <= m + Slack(g)
    BY <1>4 DEF Pace
  <2>2. a <= m + Slack(g + 1)
    BY <1>1, <1>2, <2>1
  <2>3. b + calls # 0
    BY <1>4
  <2>. QED BY <2>2, <2>3 DEF Pace
<1>. QED BY <1>3, <1>4

---------------------------------------------------------------------------
(* A step of a worker changes its own load only. *)
LEMMA LoadMove ==
  ASSUME TypeOK, NEW c \in Chats, NEW w \in Workers, NEW to, NEW new,
         pc' = [pc EXCEPT ![w] = to], job' = [job EXCEPT ![w] = new]
  PROVE  /\ \A v \in Workers \ {w} : Load(c)'[v] = Load(c)[v]
         /\ Load(c)'[w] = LoadOf(to, new, c)
<1>1. pc \in [Workers -> PC] /\ job \in [Workers -> Job]
  BY DEF TypeOK
<1>2. \A v \in Workers \ {w} : pc'[v] = pc[v] /\ job'[v] = job[v]
  BY <1>1
<1>3. pc'[w] = to /\ job'[w] = new
  BY <1>1
<1>. QED BY <1>2, <1>3 DEF Load

(* What is pending on a chat, when a worker's load does not grow. *)
LEMMA PendingLess ==
  ASSUME TypeOK, TypeOK', NEW c \in Chats, NEW w \in Workers,
         \A v \in Workers \ {w} : Load(c)'[v] = Load(c)[v],
         Load(c)'[w] <= Load(c)[w]
  PROVE  Pending(c)' <= Pending(c)
<1>1. Load(c) \in [Workers -> Nat] /\ Load(c)' \in [Workers -> Nat]
  BY LoadType, LoadTypeNext
<1>2. \A v \in Workers : Load(c)'[v] <= Load(c)[v]
  <2>1. ASSUME NEW v \in Workers, v # w PROVE Load(c)'[v] <= Load(c)[v]
    <3>1. Load(c)'[v] = Load(c)[v] /\ Load(c)[v] \in Nat
      BY <1>1, <2>1
    <3>. QED BY <3>1
  <2>. QED BY <2>1
<1> DEFINE load == Load(c)
           less == Load(c)'
<1>3. Cardinality(Units(less)) <= Cardinality(Units(load))
  <2> HIDE DEF load, less
  <2>. QED BY <1>1, <1>2, UnitsShrink DEF load, less
<1>4. Pending(c)' = Cardinality(Units(less))
  BY DEF Pending, Units
<1>. QED BY <1>3, <1>4 DEF Pending

LEMMA PaceInit == Init => PaceInv
<1> SUFFICES ASSUME Init, NEW c \in Chats
             PROVE  Pace(meter[c].alert_count, meter[c].bonus, grants[c], Pending(c))
  BY DEF PaceInv
<1>1. meter[c].bonus = 0 /\ meter[c].alert_count \in {0, 1} /\ grants[c] = 0
  <2>1. meter[c] \in {FreshRow, UnstampedRow} /\ grants[c] = 0
    BY DEF Init
  <2>2. FreshRow.bonus = 0 /\ FreshRow.alert_count = 0
    BY DEF FreshRow
  <2>3. UnstampedRow.bonus = 0 /\ UnstampedRow.alert_count = 1
    BY DEF UnstampedRow, FreshRow
  <2>. QED BY <2>1, <2>2, <2>3
<1>2. Pending(c) = 0
  <2>1. \A w \in Workers : Load(c)[w] = 0
    BY DEF Init, Load, LoadOf, IdleJob
  <2>2. Units(Load(c)) = {}
    BY <2>1 DEF Units
  <2>. QED BY <2>2, FS_EmptySet DEF Pending
<1>3. Slack(1) \in Nat
  <2>1. Slack(0 + 1) \in Nat
    BY SlackGrows
  <2>. QED BY <2>1
<1>4. meter[c].alert_count + 0 <= FallbackMonthly + Slack(1)
  BY <1>1, <1>3
<1>. QED BY <1>1, <1>2, <1>4, FiguresType DEF Pace

LEMMA PaceNext ==
  ASSUME Inv, Inv', FiguresInv, LeftInv, PaceInv, [Next]_vars
  PROVE  PaceInv'
<1> SUFFICES ASSUME NEW c \in Chats
             PROVE  Pace(meter'[c].alert_count, meter'[c].bonus, grants'[c], Pending(c)')
  BY DEF PaceInv, Pace, MonthlyFigures, Usables, Slack, InFlight
<1> DEFINE Goal == Pace(meter'[c].alert_count, meter'[c].bonus, grants'[c], Pending(c)')
<1>0. /\ TypeOK /\ TypeOK' /\ JobInv
      /\ pc \in [Workers -> PC] /\ job \in [Workers -> Job] /\ meter \in [Chats -> Row]
      /\ grants \in [Chats -> Nat] /\ meter[c] \in Row
  BY DEF Inv, TypeOK
<1>a. /\ Pending(c) \in Nat /\ Pending(c) <= InFlight
      /\ Pending(c)' \in Nat /\ Pending(c)' <= InFlight
  BY PendingType, PendingTypeNext
<1>b. /\ meter[c].alert_count \in Nat /\ meter[c].bonus \in Nat /\ grants[c] \in Nat
      /\ Pace(meter[c].alert_count, meter[c].bonus, grants[c], Pending(c))
  BY <1>0 DEF Row, PaceInv
<1>c. ASSUME NEW w \in Workers PROVE Load(c)[w] \in Nat
  BY <1>0, LoadType
<1>1. ASSUME meter'[c].alert_count = meter[c].alert_count, meter'[c].bonus = meter[c].bonus,
             grants'[c] = grants[c], Pending(c)' <= Pending(c)
      PROVE  Goal
  BY <1>1, <1>a, <1>b, PaceLess
<1>2. ASSUME NEW w \in Workers, NEW to, NEW new,
             pc' = [pc EXCEPT ![w] = to], job' = [job EXCEPT ![w] = new],
             meter' = meter, grants' = grants,
             \/ new.chat # c
             \/ new.call # "consume" /\ to # "decided"
             \/ to # "decided" /\ job[w].chat = c /\ new.left <= Load(c)[w]
      PROVE  Goal
  <2>1. /\ \A v \in Workers \ {w} : Load(c)'[v] = Load(c)[v]
        /\ Load(c)'[w] <= Load(c)[w]
    <3>1. \A v \in Workers \ {w} : Load(c)'[v] = Load(c)[v]
      BY <1>0, <1>2, LoadMove
    <3>0. pc' = [pc EXCEPT ![w] = to] /\ job' = [job EXCEPT ![w] = new]
      BY <1>2
    <3>2. Load(c)'[w] = LoadOf(to, new, c)
      BY <1>0, <3>0, LoadMove
    <3>3. Load(c)'[w] <= Load(c)[w]
      <4>1. LoadOf(to, new, c) \in {0, new.left}
        BY <1>2 DEF LoadOf
      <4>2. \/ LoadOf(to, new, c) = 0
            \/ LoadOf(to, new, c) = new.left /\ new.left <= Load(c)[w]
        BY <1>2, <4>1 DEF LoadOf
      <4>. QED BY <1>c, <3>2, <4>2
    <3>. QED BY <3>1, <3>3
  <2>2. Pending(c)' <= Pending(c)
    BY <1>0, <2>1, PendingLess
  <2>. QED BY <1>1, <1>2, <2>2
<1>3. ASSUME NEW w \in Workers, NEW d \in Chats, Evaluate(w, d)
      PROVE  Goal
  <2> DEFINE new == WithLadder([IdleJob EXCEPT !.chat = d])
  <2>1. new.call # "consume"
    BY IdleJobType DEF WithLadder, IdleJob, Job
  <2>2. /\ pc' = [pc EXCEPT ![w] = "row"] /\ job' = [job EXCEPT ![w] = new]
        /\ meter' = meter /\ grants' = grants
    BY <1>3 DEF Evaluate, Goto, rowVars, historyVars
  <2> HIDE DEF new
  <2>. QED BY <1>2, <2>1, <2>2
<1>4. ASSUME NEW w \in Workers, Consume(w)
      PROVE  Goal
  <2> DEFINE new == WithLadder(job[w])
  <2>1. new.chat = job[w].chat /\ new.call = job[w].call /\ new.left = job[w].left
    BY <1>0 DEF WithLadder, Job
  <2>2. /\ pc' = [pc EXCEPT ![w] = "row"] /\ job' = [job EXCEPT ![w] = new]
        /\ meter' = meter /\ grants' = grants /\ pc[w] = "consume"
    BY <1>4 DEF Consume, Goto, rowVars, historyVars
  <2>3. job[w].call = "consume"
    BY <1>0, <2>2 DEF JobInv
  <2>4. job[w].chat = c => Load(c)[w] = job[w].left
    BY <2>2, <2>3 DEF Load, LoadOf
  <2>5. job[w].left \in Nat
    BY <1>0 DEF Job
  <2>6. \/ new.chat # c
        \/ "row" # "decided" /\ job[w].chat = c /\ new.left <= Load(c)[w]
    <3> HIDE DEF new
    <3>. QED BY <2>1, <2>4, <2>5
  <2> HIDE DEF new
  <2>. QED BY <1>2, <2>2, <2>6
<1>5. ASSUME NEW w \in Workers, ReadRow(w)
      PROVE  Goal
  <2> DEFINE k     == job[w].chat
             total == EffectiveTotal(job[w].live, meter[k], now)
             to    == IF Expired(meter[k], now) THEN "roll" ELSE Caller(w)
             bad   == Exhausted(meter[k], job[w].live, job[w].daily, now)
             new   == [job[w] EXCEPT !.total = total,
                         !.verdict = IF bad THEN "refuse" ELSE "serve", !.at = now]
  <2>1. /\ pc' = [pc EXCEPT ![w] = to] /\ job' = [job EXCEPT ![w] = new]
        /\ meter' = meter /\ grants' = grants /\ pc[w] = "row"
    BY <1>5 DEF ReadRow, Goto, rowVars, historyVars
  <2>2. /\ new.chat = job[w].chat /\ new.call = job[w].call /\ new.left = job[w].left
        /\ new.verdict = IF bad THEN "refuse" ELSE "serve"
        /\ job[w].left \in Nat /\ job[w].call \in {"evaluate", "consume"}
    BY <1>0 DEF Job
  <2>3. CASE k # c
    <3> HIDE DEF new, to
    <3>. QED BY <1>2, <2>1, <2>2, <2>3
  <2>4. CASE k = c /\ to # "decided"
    <3>1. job[w].call = "consume" => Load(c)[w] = job[w].left
      BY <2>1, <2>4 DEF Load, LoadOf
    <3>2. \/ new.call # "consume" /\ to # "decided"
          \/ to # "decided" /\ job[w].chat = c /\ new.left <= Load(c)[w]
      <4> HIDE DEF new, to
      <4>. QED BY <2>2, <2>4, <3>1
    <3> HIDE DEF new, to
    <3>. QED BY <1>2, <2>1, <3>2
  <2>5. CASE k = c /\ to = "decided" /\ bad
    <3>1. Load(c)'[w] <= Load(c)[w]
      <4> HIDE DEF new, to, bad
      <4>1. Load(c)'[w] = 0
        <5>1. Load(c)'[w] = LoadOf(to, new, c)
          BY <1>0, <2>1, LoadMove
        <5>. QED BY <2>2, <2>5, <5>1 DEF LoadOf
      <4>. QED BY <1>c, <4>1
    <3>2. \A v \in Workers \ {w} : Load(c)'[v] = Load(c)[v]
      <4> HIDE DEF new, to
      <4>. QED BY <1>0, <2>1, LoadMove
    <3>3. Pending(c)' <= Pending(c)
      BY <1>0, <3>1, <3>2, PendingLess
    <3>. QED BY <1>1, <2>1, <3>3
  <2>6. CASE k = c /\ to = "decided" /\ ~bad
    <3>1. ~Expired(meter[c], now)
      BY <2>6
    <3>2. ~MonthlyExhausted(meter[c], job[w].live, now)
      BY <2>6 DEF Exhausted
    <3>3. total \in MonthlyFigures
      BY <2>6, TotalFigure DEF FiguresInv
    <3>4. total \in Nat
      BY <3>3, FiguresType
    <3>5. meter[c].alert_count < total \/ meter[c].bonus > 0
      <4> HIDE DEF total
      <4>1. total = EffectiveTotal(job[w].live, meter[c], now)
        BY <2>6 DEF total
      <4>. QED BY <1>b, <3>1, <3>2, <3>4, <4>1 DEF MonthlyExhausted, Used
    <3>6. Pace(meter[c].alert_count, meter[c].bonus, grants[c], Pending(c)')
      BY <1>a, <1>b, <3>3, <3>5, PaceDecided
    <3>. QED BY <2>1, <3>6
  <2>. QED BY <2>3, <2>4, <2>5, <2>6
<1>6. ASSUME NEW w \in Workers, RollWindow(w)
      PROVE  Goal
  <2> DEFINE k   == job[w].chat
             new == [job[w] EXCEPT !.at = now]
  <2>1. /\ pc' = [pc EXCEPT ![w] = Caller(w)] /\ job' = [job EXCEPT ![w] = new]
        /\ meter' = [meter EXCEPT ![k] = Rolled(meter[k])] /\ grants' = grants
        /\ pc[w] = "roll"
    BY <1>6 DEF RollWindow, Goto
  <2>2. new.chat = k
    BY <1>0 DEF Job
  <2>3. CASE k = c
    <3>1. meter'[c].alert_count = 0 /\ meter'[c].bonus = meter[c].bonus
      <4>1. meter'[c] = Rolled(meter[c])
        BY <1>0, <2>1, <2>3
      <4>. QED BY <1>0, <4>1 DEF Rolled, Row
    <3>. QED BY <1>a, <1>b, <2>1, <3>1, PaceRolled
  <2>4. CASE k # c
    <3> HIDE DEF new
    <3>1. meter'[c] = meter[c]
      BY <1>0, <2>1, <2>4
    <3>2. /\ \A v \in Workers \ {w} : Load(c)'[v] = Load(c)[v]
          /\ Load(c)'[w] = LoadOf(Caller(w), new, c)
      BY <1>0, <2>1, LoadMove
    <3>4. Load(c)'[w] = 0
      BY <2>2, <2>4, <3>2 DEF LoadOf
    <3>3. Pending(c)' <= Pending(c)
      BY <1>0, <1>c, <3>2, <3>4, PendingLess
    <3>. QED BY <1>1, <2>1, <3>1, <3>3
  <2>. QED BY <2>3, <2>4
<1>7. ASSUME NEW w \in Workers, Withhold(w) \/ Crash(w)
      PROVE  Goal
  <2>1. /\ pc' = [pc EXCEPT ![w] = "idle"] /\ job' = [job EXCEPT ![w] = IdleJob]
        /\ meter' = meter /\ grants' = grants
    BY <1>7 DEF Withhold, Crash, Goto, rowVars, historyVars
  <2>2. IdleJob.call # "consume"
    BY DEF IdleJob
  <2>. QED BY <1>2, <2>1, <2>2
<1>8. ASSUME NEW w \in Workers, NEW n \in 1..MaxItems, Deliver(w, n)
      PROVE  Goal
  <2> DEFINE new == [job[w] EXCEPT !.call = "consume", !.left = n]
  <2>1. /\ pc' = [pc EXCEPT ![w] = "consume"] /\ job' = [job EXCEPT ![w] = new]
        /\ meter' = meter /\ grants' = grants /\ pc[w] = "decided"
        /\ job[w].verdict = "serve"
    BY <1>8 DEF Deliver, Goto, rowVars, historyVars
  <2>2. new.chat = job[w].chat /\ new.left = n
    BY <1>0 DEF Job
  <2>3. job[w].chat = c => Load(c)[w] = MaxItems
    BY <2>1 DEF Load, LoadOf
  <2>4. \/ new.chat # c
        \/ "consume" # "decided" /\ job[w].chat = c /\ new.left <= Load(c)[w]
    <3> HIDE DEF new
    <3>. QED BY <2>2, <2>3
  <2> HIDE DEF new
  <2>. QED BY <1>2, <2>1, <2>4
<1>9. ASSUME NEW w \in Workers, Charge(w)
      PROVE  Goal
  <2> DEFINE k   == job[w].chat
             row == Charged(meter[k], 1, job[w].total, job[w].at, job[w].live)
             new == IF job[w].left = 1 THEN IdleJob ELSE [job[w] EXCEPT !.left = @ - 1]
             to  == IF job[w].left = 1 THEN "idle" ELSE "consume"
  <2>1. /\ pc' = [pc EXCEPT ![w] = to] /\ job' = [job EXCEPT ![w] = new]
        /\ meter' = [meter EXCEPT ![k] = row] /\ grants' = grants /\ pc[w] = "charge"
    BY <1>9 DEF Charge, Goto
  <2>2. job[w].call = "consume" /\ job[w].left \in 1..MaxItems /\ k \in Chats
    <3>1. job[w].call = "consume" /\ job[w].left > 0
      BY <1>0, <2>1 DEF JobInv
    <3>2. job[w].left \in Nat /\ k \in Chats
      BY <1>0 DEF Job
    <3>. QED BY <3>1, <3>2 DEF LeftInv
  <2>3. /\ new.call = "consume" => new.left = job[w].left - 1 /\ new.chat = k
        /\ to # "decided"
    <3>1. IdleJob.call # "consume"
      BY DEF IdleJob
    <3>2. [job[w] EXCEPT !.left = @ - 1].left = job[w].left - 1
            /\ [job[w] EXCEPT !.left = @ - 1].chat = k
      BY <1>0 DEF Job
    <3>. QED BY <3>1, <3>2
  <2>4. /\ \A v \in Workers \ {w} : Load(c)'[v] = Load(c)[v]
        /\ Load(c)'[w] = IF new.chat = c /\ new.call = "consume" THEN new.left ELSE 0
    <3> HIDE DEF new, to
    <3>1. \A v \in Workers \ {w} : Load(c)'[v] = Load(c)[v]
      BY <1>0, <2>1, LoadMove
    <3>2. Load(c)'[w] = LoadOf(to, new, c)
      BY <1>0, <2>1, LoadMove
    <3>. QED BY <2>3, <3>1, <3>2 DEF LoadOf
  <2>5. CASE k = c
    <3> HIDE DEF new, to
    <3>1. Load(c)[w] = job[w].left
      BY <2>1, <2>2, <2>5 DEF Load, LoadOf
    <3>2. Load(c)'[w] < Load(c)[w]
      BY <2>2, <2>3, <2>4, <3>1
    <3> DEFINE load == Load(c)
               less == Load(c)'
    <3>3. load \in [Workers -> Nat] /\ less \in [Workers -> Nat]
      BY <1>0, LoadType, LoadTypeNext
    <3>4. \A v \in Workers : less[v] <= load[v]
      <4>1. ASSUME NEW v \in Workers PROVE less[v] <= load[v]
        <5>1. CASE v = w
          BY <3>2, <3>3, <5>1
        <5>2. CASE v # w
          BY <2>4, <3>3, <5>2
        <5>. QED BY <5>1, <5>2
      <4>. QED BY <4>1
    <3>5. Cardinality(Units(less)) + 1 <= Cardinality(Units(load))
      <4>1. load[w] \in 1..MaxItems /\ less[w] < load[w]
        BY <2>2, <3>1, <3>2
      <4> HIDE DEF load, less
      <4>. QED BY <3>3, <3>4, <4>1, UnitsSpent
    <3>6. Pending(c)' + 1 <= Pending(c)
      BY <3>5 DEF Pending, Units
    <3>7. meter'[c] = row /\ row = Charged(meter[c], 1, job[w].total, job[w].at, job[w].live)
      BY <1>0, <2>1, <2>5
    <3>8. job[w].total \in MonthlyFigures
      BY DEF FiguresInv
    <3> HIDE DEF row
    <3>. QED BY <1>0, <1>a, <1>b, <2>1, <3>6, <3>7, <3>8, PaceCharged
  <2>6. CASE k # c
    <3>1. meter'[c] = meter[c]
      BY <1>0, <2>1, <2>6
    <3>2. Load(c)'[w] = 0
      BY <2>3, <2>4, <2>6
    <3>3. Pending(c)' <= Pending(c)
      BY <1>0, <1>c, <2>4, <3>2, PendingLess
    <3>. QED BY <1>1, <2>1, <3>1, <3>3
  <2>. QED BY <2>5, <2>6
<1>10. ASSUME pc' = pc, job' = job
       PROVE  Pending(c)' = Pending(c)
  BY <1>10 DEF Pending, Load, Units
<1>11. ASSUME NEW free \in Publications, NEW at \in 0..MaxDay, RefreshLadder(free, at)
       PROVE  Goal
  <2>1. pc' = pc /\ job' = job /\ grants' = grants /\ meter' = StampOpenWindows(at)
    BY <1>11 DEF RefreshLadder, UpsertLadder, historyVars
  <2>2. meter'[c].alert_count = meter[c].alert_count /\ meter'[c].bonus = meter[c].bonus
    <3>1. \/ meter'[c] = meter[c]
          \/ meter'[c] = [meter[c] EXCEPT !.window_cap = mirror.free_monthly]
      BY <2>1 DEF StampOpenWindows, Stamped
    <3>. QED BY <1>0, <3>1 DEF Row
  <2>. QED BY <1>1, <1>10, <1>a, <2>1, <2>2
<1>12. ASSUME NEW d \in Chats, NEW calls \in Grants, GrantBonus(d, calls)
       PROVE  Goal
  <2>1. /\ pc' = pc /\ job' = job
        /\ meter' = [meter EXCEPT ![d] = [meter[d] EXCEPT !.bonus = @ + calls]]
        /\ grants' = [grants EXCEPT ![d] = grants[d] + 1]
    BY <1>12 DEF GrantBonus
  <2>2. Pending(c)' = Pending(c)
    BY <1>10, <2>1
  <2>3. CASE d = c
    <3>1. /\ meter'[c].alert_count = meter[c].alert_count
          /\ meter'[c].bonus = meter[c].bonus + calls
          /\ grants'[c] = grants[c] + 1
      BY <1>0, <2>1, <2>3 DEF Row
    <3>2. calls \in Nat
      OBVIOUS
    <3>3. Pace(meter[c].alert_count, meter[c].bonus + calls, grants[c] + 1, Pending(c))
      BY <1>a, <1>b, <3>2, PaceGranted
    <3>. QED BY <2>2, <3>1, <3>3
  <2>4. CASE d # c
    <3>1. meter'[c] = meter[c] /\ grants'[c] = grants[c]
      BY <1>0, <2>1, <2>4
    <3>. QED BY <1>b, <2>2, <3>1
  <2>. QED BY <2>3, <2>4
<1>13. CASE Tick \/ UNCHANGED vars
  <2>1. pc' = pc /\ job' = job /\ meter' = meter /\ grants' = grants
    BY <1>13 DEF Tick, vars, rowVars, historyVars
  <2>. QED BY <1>10, <1>b, <2>1
<1>. QED
  BY <1>3, <1>4, <1>5, <1>6, <1>7, <1>8, <1>9, <1>11, <1>12, <1>13 DEF Next, WorkerStep

(* The invariant says what it must: a row is never further over a figure   *)
(* than the bound allows.                                                  *)
LEMMA PaceBounds == TypeOK /\ PaceInv => OvershootBounded
<1> SUFFICES ASSUME TypeOK, PaceInv, NEW c \in Chats
             PROVE  \E m \in MonthlyFigures :
                      meter[c].alert_count <= m + (grants[c] + 1) * (InFlight - 1)
  BY DEF OvershootBounded
<1>1. /\ meter[c].alert_count \in Nat /\ meter[c].bonus \in Nat /\ grants[c] \in Nat
      /\ Pace(meter[c].alert_count, meter[c].bonus, grants[c], Pending(c))
  <2>1. meter[c] \in Row /\ grants[c] \in Nat
    BY DEF TypeOK
  <2>. QED BY <2>1 DEF Row, PaceInv
<1>2. /\ Slack(grants[c]) \in Nat /\ Slack(grants[c] + 1) \in Nat
      /\ Slack(grants[c] + 1) = Slack(grants[c]) + (InFlight - 1)
  BY <1>1, SlackGrows
<1>3. InFlight \in Nat \ {0} /\ MonthlyFigures \subseteq Nat /\ Pending(c) \in Nat
  BY InFlightType, FiguresType, PendingType
<1>4. \E m \in MonthlyFigures : meter[c].alert_count <= m + Slack(grants[c] + 1)
  <2>1. CASE meter[c].bonus = 0
    <3>1. PICK m \in MonthlyFigures :
            meter[c].alert_count + Pending(c) <= m + Slack(grants[c] + 1)
      BY <1>1, <2>1 DEF Pace
    <3>2. meter[c].alert_count <= m + Slack(grants[c] + 1)
      BY <1>1, <1>2, <1>3, <3>1
    <3>. QED BY <3>2
  <2>2. CASE meter[c].bonus > 0
    <3>1. PICK m \in MonthlyFigures : meter[c].alert_count <= m + Slack(grants[c])
      BY <1>1, <2>2 DEF Pace
    <3>2. meter[c].alert_count <= m + Slack(grants[c] + 1)
      BY <1>1, <1>2, <1>3, <3>1
    <3>. QED BY <3>2
  <2>. QED BY <1>1, <2>1, <2>2
<1>. QED BY <1>4 DEF Slack

(* Deciding and charging apart, a chat passes its allowance by no more     *)
(* than what the workers had in flight, and once more for each grant       *)
(* (evaluate_delivery, then consume_quota_atomic).                         *)
THEOREM OvershootSound == Spec => []OvershootBounded
<1>1. TypeOK /\ PaceInv => OvershootBounded
  BY PaceBounds
<1>2. Inv => TypeOK
  BY DEF Inv
<1>. QED
  BY <1>1, <1>2, SpecInv, FiguresInit, FiguresNext, PaceInit, PaceNext, PTL DEF Spec
=============================================================================
