-------------------------- MODULE EngineTickProofs --------------------------
(***************************************************************************)
(* What EngineTick promises of the sessions it opens at signal-MCP, of the *)
(* pressure its detector is told of and of the rows its loop selects, for  *)
(* every load, budget and detector, and whatever number of faults; and,    *)
(* from the middle on, what the auditor of the dispatch never takes for    *)
(* sound, for every timeframe, setting and ledger.                         *)
(***************************************************************************)
EXTENDS EngineTick, DispatchAudit, FiniteSetTheorems, SequenceTheorems, WellFoundedInduction, TLAPS

(* A client knows the id of its session exactly from the answer that gives *)
(* it until the block is left: so no session is forgotten before the       *)
(* DELETE, and none is opened over another.                                *)
Place ==
  /\ minute \in 0..MaxMinute
  /\ part \in {"watch", "scan"}
Holds ==
  /\ stage \in {"closed", "opening", "notifying", "ready"}
  /\ stage \in {"closed", "opening"} => sid = NULL
SessionInv == Place /\ Holds /\ NoSessionLeft

LEMMA PlaceKept == ASSUME Place, [TickNext]_allVars PROVE Place'
<1>1. CASE UNCHANGED allVars
  BY <1>1 DEF Place, allVars, tickVars
<1>2. CASE \E gap \in 1..MaxGap : NothingDue(gap)
  BY <1>2 DEF Place, NothingDue
<1>3. CASE \E gap \in 1..MaxGap, load \in SUBSET Watches : StartTick(gap, load)
  BY <1>3 DEF Place, StartTick
<1>4. CASE TickStep
  BY <1>4 DEF Place, TickStep, Scheduling, EnterSession, SessionOpens, SessionRaises,
              SessionLeft, SessionRefused, Record, Write, Alert, NotWritten,
              AfterSession, Ends, tickVars
<1>5. CASE Killed \/ ServerRestarts
  BY <1>5 DEF Place, Killed, ServerRestarts, Ends, tickVars
<1> QED
  BY <1>1, <1>2, <1>3, <1>4, <1>5 DEF TickNext

LEMMA OpenedKeeps ==
  ASSUME SessionInv, Client!Opened(<<minute, part>>)
  PROVE  Holds' /\ NoSessionLeft'
<1>1. <<minute, part>> # NULL
  BY NoSessionAssumption DEF SessionInv, Place, Ids
<1> QED
  BY <1>1 DEF SessionInv, Holds, NoSessionLeft, Client!Opened

LEMMA SessionKeeps ==
  ASSUME SessionInv, [TickNext]_allVars
  PROVE  Holds' /\ NoSessionLeft'
<1> USE DEF SessionInv, Holds, NoSessionLeft
<1>1. CASE UNCHANGED mcpVars
  BY <1>1 DEF mcpVars
<1>2. CASE Client!Enter
  BY <1>2 DEF Client!Enter
<1>3. CASE Client!Notified
  BY <1>3 DEF Client!Notified
<1>4. ASSUME NEW answer, NEW ids, Client!NotOpened(answer, ids)
      PROVE  Holds' /\ NoSessionLeft'
  BY <1>4 DEF Client!NotOpened, Client!Left
<1>5. CASE Client!NotNotified
  BY <1>5 DEF Client!NotNotified, Client!Left
<1>6. ASSUME NEW heard \in BOOLEAN, Client!Leave(heard)
      PROVE  Holds' /\ NoSessionLeft'
  BY <1>6 DEF Client!Leave, Client!Left
<1>7. CASE Client!Abandoned
  BY <1>7 DEF Client!Abandoned, Client!Left
<1>8. CASE Client!Restarted
  BY <1>8 DEF Client!Restarted
<1>9. CASE SessionOpens
  BY <1>3, <1>9, OpenedKeeps DEF SessionOpens
<1>10. CASE \E answer \in Client!Failures, opened \in BOOLEAN : SessionRefused(answer, opened)
  BY <1>4, <1>10 DEF SessionRefused
<1>11. CASE TickStep /\ ~SessionOpens
            /\ ~\E answer \in Client!Failures, opened \in BOOLEAN : SessionRefused(answer, opened)
  BY <1>1, <1>2, <1>5, <1>6, <1>11
     DEF TickStep, Scheduling, EnterSession, SessionRaises, SessionLeft, Record, Write,
         NotWritten, Alert
<1>12. CASE \E gap \in 1..MaxGap : NothingDue(gap)
  BY <1>1, <1>12 DEF NothingDue
<1>13. CASE \E gap \in 1..MaxGap, load \in SUBSET Watches : StartTick(gap, load)
  BY <1>1, <1>13 DEF StartTick
<1>14. CASE Killed \/ ServerRestarts
  BY <1>7, <1>8, <1>14 DEF Killed, ServerRestarts
<1>15. CASE UNCHANGED allVars
  BY <1>1, <1>15 DEF allVars
<1> QED
  BY <1>9, <1>10, <1>11, <1>12, <1>13, <1>14, <1>15 DEF TickNext

(* Whatever fails in a tick, in either part of main, and wherever the      *)
(* process is killed: the sessions it has left at signal-MCP are the one   *)
(* it uses and those whose DELETE was lost, was never sent because the     *)
(* block failed before it was entered, or died with the process            *)
(* (McpClient.__enter__, McpClient.__exit__, alert_engine.main).           *)
THEOREM SessionsAreClosed == TickSpec => []NoSessionLeft
<1>1. TickInit => SessionInv
  BY EngineTickAssumption
     DEF TickInit, Client!SessionInit, SessionInv, Place, Holds, NoSessionLeft
<1>2. SessionInv /\ [TickNext]_allVars => SessionInv'
  BY PlaceKept, SessionKeeps DEF SessionInv
<1>3. SessionInv => NoSessionLeft
  BY DEF SessionInv
<1> QED
  BY <1>1, <1>2, <1>3, PTL DEF TickSpec

---------------------------------------------------------------------------
(* What the detector knows.                                                *)

RunIn(h) == {e \in h : \A f \in h : f.at >= e.at => f.deferred}

(* A run began at b. *)
Begins(b, h) ==
  /\ b.deferred
  /\ \A f \in h : f.at < b.at /\ f.deferred
                  => \E g \in h : f.at < g.at /\ g.at < b.at /\ ~g.deferred

IsLatest(e, h) == e \in h /\ \A f \in h : f.at <= e.at

(* Outcomes of ticks, one of each minute. *)
IsHistory(h) ==
  /\ IsFiniteSet(h)
  /\ \A e \in h : e.at \in Nat /\ e.deferred \in BOOLEAN
  /\ \A e, f \in h : e.at = f.at => e = f
  /\ h = {} \/ \E e \in h : IsLatest(e, h)

(* The state stops short of an alert and tells the run and the bursts of   *)
(* the history: it may know of more, if an alert was raised and the file   *)
(* could not be written, and is one tick from the next alert then.         *)
Tells(s, h) ==
  /\ s.consecutive \in Nat /\ s.consecutive < SaturationTicks
  /\ s.starts \subseteq Nat
  /\ IsFiniteSet(s.starts) /\ Cardinality(s.starts) < SaturationEpisodes
  /\ s.consecutive = RunOf(h) \/ (s.consecutive = SaturationTicks - 1 /\ h = {})
  /\ BurstsOf(h) \subseteq s.starts

(* The detector counts as the rest does. *)
LEMMA SameCount == \A S : Detector!Cardinality(S) = Cardinality(S)
<1> TAKE S
<1> QED BY DEF Detector!Cardinality, Cardinality

LEMMA RunOfIs == \A h : RunOf(h) = Cardinality(RunIn(h))
BY DEF RunOf, RunIn

LEMMA BurstMembers ==
  \A h, x : x \in BurstsOf(h) <=>
    \E b \in h : x = b.at /\ Latest(h).at - b.at < SaturationWindow /\ Begins(b, h)
BY DEF BurstsOf, Begins

LEMMA LatestIs ==
  ASSUME NEW h, IsHistory(h), NEW e, IsLatest(e, h)
  PROVE  Latest(h) = e
<1>1. \A d : d \in h /\ (\A f \in h : f.at <= d.at) <=> d = e
  BY DEF IsHistory, IsLatest
<1>2. Latest(h) \in h /\ \A f \in h : f.at <= Latest(h).at
  BY <1>1 DEF Latest
<1> QED BY <1>1, <1>2

LEMMA NothingKnown == RunOf({}) = 0 /\ BurstsOf({}) = {} /\ IsHistory({})
<1>1. RunIn({}) = {}
  BY DEF RunIn
<1>2. BurstsOf({}) = {}
  BY DEF BurstsOf
<1> QED BY <1>1, <1>2, RunOfIs, FS_EmptySet DEF IsHistory

LEMMA ClearedTells == Tells(Detector!Cleared, {})
<1>1. /\ Detector!Cleared.consecutive = 0 /\ Detector!Cleared.starts = {}
  BY DEF Detector!Cleared
<1> QED BY <1>1, NothingKnown, FS_EmptySet, EngineTickAssumption DEF Tells

---------------------------------------------------------------------------
(* One more tick. *)

LEMMA HistoryGrows ==
  ASSUME NEW h, IsHistory(h), NEW t \in Nat, \A e \in h : e.at < t, NEW d \in BOOLEAN
  PROVE  LET o == [at |-> t, deferred |-> d]
         IN  /\ IsHistory(h \cup {o}) /\ o \notin h
             /\ Latest(h \cup {o}) = o
             /\ RunOf(h \cup {o}) = IF d THEN RunOf(h) + 1 ELSE 0
             /\ RunOf(h) \in Nat
<1> SUFFICES ASSUME NEW o, o = [at |-> t, deferred |-> d]
             PROVE  /\ IsHistory(h \cup {o}) /\ o \notin h
                    /\ Latest(h \cup {o}) = o
                    /\ RunOf(h \cup {o}) = IF d THEN RunOf(h) + 1 ELSE 0
                    /\ RunOf(h) \in Nat
  OBVIOUS
<1>0. o.at = t /\ o.deferred = d /\ \A e \in h : e.at \in Nat /\ e.at < t
  BY DEF IsHistory
<1>1. o \notin h
  BY <1>0
<1>2. IsLatest(o, h \cup {o})
  BY <1>0 DEF IsLatest
<1>3. IsHistory(h \cup {o})
  <2>1. IsFiniteSet(h \cup {o})
    BY FS_AddElement DEF IsHistory
  <2>2. \A e \in h \cup {o} : e.at \in Nat /\ e.deferred \in BOOLEAN
    BY <1>0 DEF IsHistory
  <2>3. \A e, f \in h \cup {o} : e.at = f.at => e = f
    BY <1>0 DEF IsHistory
  <2> QED BY <1>2, <2>1, <2>2, <2>3 DEF IsHistory
<1>4. Latest(h \cup {o}) = o
  BY <1>2, <1>3, LatestIs
<1>5. IsFiniteSet(RunIn(h)) /\ Cardinality(RunIn(h)) \in Nat /\ o \notin RunIn(h)
  <2>1. RunIn(h) \in SUBSET h
    BY DEF RunIn
  <2> QED BY <1>1, <2>1, FS_Subset, FS_CardinalityType DEF IsHistory
<1>6. CASE d
  <2>1. RunIn(h \cup {o}) = RunIn(h) \cup {o}
    BY <1>0, <1>6 DEF RunIn
  <2>2. Cardinality(RunIn(h) \cup {o}) = Cardinality(RunIn(h)) + 1
    BY <1>5, FS_AddElement
  <2> QED BY <1>1, <1>3, <1>4, <1>5, <1>6, <2>1, <2>2, RunOfIs
<1>7. CASE ~d
  <2>1. RunIn(h \cup {o}) = {}
    BY <1>0, <1>7 DEF RunIn
  <2> QED BY <1>1, <1>3, <1>4, <1>5, <1>7, <2>1, RunOfIs, FS_EmptySet
<1> QED BY <1>6, <1>7

(* The bursts of the longer history: those there were, and the tick itself *)
(* if it defers and no run was under way.                                  *)
LEMMA BurstsGrow ==
  ASSUME NEW h, IsHistory(h), NEW t \in Nat, \A e \in h : e.at < t, NEW d \in BOOLEAN,
         NEW o, o = [at |-> t, deferred |-> d],
         NEW x \in BurstsOf(h \cup {o})
  PROVE  /\ t - x < SaturationWindow
         /\ x \in BurstsOf(h) \/ (x = t /\ d /\ RunOf(h) = 0)
<1>0. o.at = t /\ o.deferred = d /\ \A e \in h : e.at \in Nat /\ e.at < t
  BY DEF IsHistory
<1>1. Latest(h \cup {o}) = o
  BY HistoryGrows
<1>2. PICK b \in h \cup {o} : x = b.at /\ t - b.at < SaturationWindow /\ Begins(b, h \cup {o})
  BY <1>0, <1>1, BurstMembers
<1>3. CASE b \in h
  <2>1. Begins(b, h)
    BY <1>0, <1>2, <1>3 DEF Begins
  <2>2. PICK e \in h : IsLatest(e, h)
    BY <1>3 DEF IsHistory
  <2>3. Latest(h) = e /\ e.at \in Nat /\ e.at < t /\ b.at \in Nat
    BY <1>0, <1>3, <2>2, LatestIs
  <2>4. SaturationWindow \in Nat
    BY EngineTickAssumption
  <2>5. Latest(h).at - b.at < SaturationWindow
    BY <1>2, <2>3, <2>4
  <2> QED BY <1>2, <1>3, <2>1, <2>5, BurstMembers
<1>4. CASE b = o
  <2>1. d
    BY <1>0, <1>2, <1>4 DEF Begins
  <2>2. \A f \in h : f.deferred => \E g \in h : f.at < g.at /\ ~g.deferred
    BY <1>0, <1>2, <1>4 DEF Begins
  <2>3. RunIn(h) = {}
    <3>1. ASSUME NEW e \in RunIn(h) PROVE FALSE
      <4>1. e \in h /\ \A f \in h : f.at >= e.at => f.deferred
        BY <3>1 DEF RunIn
      <4>2. e.deferred
        BY <1>0, <4>1
      <4>3. PICK g \in h : e.at < g.at /\ ~g.deferred
        BY <2>2, <4>1, <4>2
      <4> QED BY <1>0, <4>1, <4>3
    <3> QED BY <3>1
  <2> QED BY <1>0, <1>2, <1>4, <2>1, <2>3, RunOfIs, FS_EmptySet
<1> QED BY <1>2, <1>3, <1>4

(* The detector is told of a tick: it alerts, and knows nothing any more;  *)
(* or it knows of the tick too.  When it alerts it was one tick from it,   *)
(* or between two runs.                                                    *)
LEMMA DetectorTells ==
  ASSUME NEW h, IsHistory(h), NEW s, Tells(s, h),
         NEW t \in Nat, \A e \in h : e.at < t, NEW d \in BOOLEAN
  PROVE  LET u == Detector!Updated(s, d, t)
         IN  /\ u.alert \in BOOLEAN
             /\ u.state \in Detector!State
             /\ u.alert => u.state = Detector!Cleared /\ Tells(s, {})
             /\ ~u.alert => Tells(u.state, h \cup {[at |-> t, deferred |-> d]})
<1> DEFINE run    == Detector!Run(s, d)
           starts == Detector!Starts(s, d, t)
           u      == Detector!Updated(s, d, t)
<1> SUFFICES ASSUME NEW o, o = [at |-> t, deferred |-> d]
             PROVE  /\ u.alert \in BOOLEAN
                    /\ u.state \in Detector!State
                    /\ u.alert => u.state = Detector!Cleared /\ Tells(s, {})
                    /\ ~u.alert => Tells(u.state, h \cup {o})
  OBVIOUS
<1>0. /\ SaturationTicks \in Nat \ {0} /\ SaturationEpisodes \in Nat \ {0}
      /\ SaturationWindow \in Nat \ {0}
  BY EngineTickAssumption
<1>1. /\ s.consecutive \in Nat /\ s.consecutive < SaturationTicks
      /\ s.starts \subseteq Nat
      /\ IsFiniteSet(s.starts) /\ Cardinality(s.starts) < SaturationEpisodes
      /\ s.consecutive = RunOf(h) \/ (s.consecutive = SaturationTicks - 1 /\ h = {})
      /\ BurstsOf(h) \subseteq s.starts
  BY DEF Tells
<1>2. /\ run = IF d THEN s.consecutive + 1 ELSE 0
      /\ starts = {b \in s.starts \cup (IF d /\ s.consecutive = 0 THEN {t} ELSE {}) :
                     t - b < SaturationWindow}
  BY DEF Detector!Run, Detector!Starts
<1>3. /\ u.alert = (run >= SaturationTicks \/ Cardinality(starts) >= SaturationEpisodes)
      /\ u.state = IF u.alert THEN Detector!Cleared
                   ELSE [consecutive |-> run, starts |-> starts]
  BY SameCount DEF Detector!Updated, Detector!Fires
<1> HIDE DEF run, starts, u
<1>4. run \in Nat
  BY <1>1, <1>2
<1>5. IsFiniteSet(starts) /\ Cardinality(starts) \in Nat
  <2>1. IsFiniteSet(s.starts \cup {t})
    BY <1>1, FS_AddElement
  <2>2. starts \in SUBSET (s.starts \cup {t})
    BY <1>2
  <2> QED BY <2>1, <2>2, FS_Subset, FS_CardinalityType
<1>6. ASSUME ~(d /\ s.consecutive = 0) PROVE Cardinality(starts) < SaturationEpisodes
  <2>1. starts \in SUBSET s.starts
    BY <1>2, <1>6
  <2>2. Cardinality(starts) <= Cardinality(s.starts) /\ Cardinality(s.starts) \in Nat
    BY <1>1, <2>1, FS_Subset, FS_CardinalityType
  <2> QED BY <1>0, <1>1, <1>5, <2>2
<1>7. u.alert \in BOOLEAN /\ u.state \in Detector!State
  <2>1. starts \subseteq Nat
    BY <1>1, <1>2
  <2>2. [consecutive |-> run, starts |-> starts] \in Detector!State
    BY <1>4, <2>1 DEF Detector!State
  <2>3. Detector!Cleared \in Detector!State
    BY DEF Detector!State, Detector!Cleared
  <2> QED BY <1>3, <2>2, <2>3
<1>8. ASSUME u.alert PROVE u.state = Detector!Cleared /\ Tells(s, {})
  <2>1. s.consecutive = 0 \/ s.consecutive = SaturationTicks - 1
    <3>1. CASE run >= SaturationTicks
      BY <1>0, <1>1, <1>2, <3>1
    <3>2. CASE Cardinality(starts) >= SaturationEpisodes
      BY <1>0, <1>5, <1>6, <3>2
    <3> QED BY <1>3, <1>8, <3>1, <3>2
  <2> QED BY <1>1, <1>3, <1>8, <2>1, NothingKnown DEF Tells
<1>9. ASSUME ~u.alert PROVE Tells(u.state, h \cup {o})
  <2>1. /\ u.state = [consecutive |-> run, starts |-> starts]
        /\ run < SaturationTicks /\ Cardinality(starts) < SaturationEpisodes
    <3>1. u.state = [consecutive |-> run, starts |-> starts]
      BY <1>3, <1>9
    <3>2. ~(run >= SaturationTicks) /\ ~(Cardinality(starts) >= SaturationEpisodes)
      BY <1>3, <1>9
    <3> QED BY <1>0, <1>4, <1>5, <3>1, <3>2
  <2>2. u.state.consecutive = run /\ u.state.starts = starts
    BY <2>1
  <2>3. /\ RunOf(h \cup {o}) = IF d THEN RunOf(h) + 1 ELSE 0
        /\ RunOf(h) \in Nat
    BY HistoryGrows
  <2>4. d => s.consecutive = RunOf(h)
    BY <1>0, <1>1, <1>2, <2>1
  <2>5. run = RunOf(h \cup {o})
    BY <1>2, <2>3, <2>4
  <2>6. ASSUME NEW x \in BurstsOf(h \cup {o}) PROVE x \in starts
    <3>1. t - x < SaturationWindow /\ (x \in BurstsOf(h) \/ (x = t /\ d /\ RunOf(h) = 0))
      BY <2>6, BurstsGrow
    <3>2. x \in s.starts \cup (IF d /\ s.consecutive = 0 THEN {t} ELSE {})
      BY <1>1, <2>4, <3>1
    <3> QED BY <1>2, <3>1, <3>2
  <2>7. starts \subseteq Nat
    BY <1>1, <1>2
  <2> QED BY <1>4, <1>5, <2>1, <2>2, <2>5, <2>6, <2>7 DEF Tells
<1> QED BY <1>7, <1>8, <1>9

---------------------------------------------------------------------------
(* Every tick. *)

(* An alert that is about to be raised ends the history. *)
Alerting == phase = "alert" /\ new.alert
Tacit    == IF Alerting THEN {} ELSE unsaid

(* The outcome of this tick is still to be recorded. *)
Unrecorded == phase \in {"schedule", "record", "write"} \/ (phase = "session" /\ part = "watch")

PressureInv ==
  /\ minute \in Nat /\ pressed \in BOOLEAN
  /\ IsHistory(unsaid)
  /\ \A e \in unsaid : e.at <= minute
  /\ Unrecorded => \A e \in unsaid : e.at < minute
  /\ phase = "write" => new = Detector!Updated(Contents, pressed, minute)
  /\ phase = "alert" => new.alert \in BOOLEAN
  /\ Tells(Contents, Tacit)

LEMMA PressureInit == TickInit => PressureInv
<1> SUFFICES ASSUME TickInit PROVE PressureInv
  OBVIOUS
<1>1. /\ minute = 0 /\ pressed = FALSE /\ phase = "idle" /\ file = NULL /\ unsaid = {}
  BY DEF TickInit
<1>2. Contents = Detector!Cleared /\ Tacit = {}
  BY <1>1 DEF Contents, Tacit, Alerting
<1> QED BY <1>1, <1>2, NothingKnown, ClearedTells DEF PressureInv

(* Steps of the process that do not record. *)
LEMMA PressureStays ==
  ASSUME PressureInv, UNCHANGED <<minute, file, unsaid>>, pressed' \in BOOLEAN,
         phase # "alert", phase' \notin {"write", "alert"},
         Unrecorded' => Unrecorded
  PROVE  PressureInv'
<1>1. Contents' = Contents /\ Tacit' = Tacit
  BY DEF Contents, Tacit, Alerting
<1> QED BY <1>1 DEF PressureInv

(* A history that is forgotten with the file. *)
LEMMA PressureForgotten ==
  ASSUME PressureInv, minute' = minute, file' = NULL, unsaid' = {}, pressed' \in BOOLEAN,
         phase' = "idle" \/ (phase' = "alert" /\ new' = new /\ new.alert \in BOOLEAN)
  PROVE  PressureInv'
<1>1. Contents' = Detector!Cleared /\ Tacit' = {}
  BY DEF Contents, Tacit, Alerting
<1> QED BY <1>1, NothingKnown, ClearedTells DEF PressureInv, Unrecorded

(* The clock goes on, and a tick begins. *)
LEMMA PressureTicks ==
  ASSUME PressureInv, NEW gap \in 1..MaxGap, minute' = minute + gap, phase = "idle",
         phase' \in {"schedule", "record"}, UNCHANGED <<pressed, satVars>>
  PROVE  PressureInv'
<1>1. Contents' = Contents /\ Tacit' = Tacit
  BY DEF Contents, Tacit, Alerting, satVars
<1>2. minute' \in Nat /\ minute < minute'
  BY DEF PressureInv
<1>3. \A e \in unsaid : e.at \in Nat /\ e.at <= minute
  BY DEF PressureInv, IsHistory
<1>4. \A e \in unsaid : e.at < minute'
  BY <1>2, <1>3 DEF PressureInv
<1> QED BY <1>1, <1>2, <1>3, <1>4 DEF PressureInv, satVars

LEMMA PressureSession ==
  ASSUME PressureInv, UNCHANGED <<minute, file, unsaid>>, phase = "session",
         AfterSession \/ Ends
  PROVE  PressureInv'
<1>1. \/ part = "watch" /\ phase' = "record" /\ pressed' = pressed
      \/ phase' = "idle" /\ pressed' = FALSE
  BY DEF AfterSession, Ends
<1>2. pressed' \in BOOLEAN /\ phase' \notin {"write", "alert"}
  BY <1>1 DEF PressureInv
<1>3. Unrecorded' => Unrecorded
  BY <1>1 DEF Unrecorded
<1> QED BY <1>2, <1>3, PressureStays

(* What Record made is known by the time it is written. *)
LEMMA PressureWrites ==
  ASSUME PressureInv, phase = "write"
  PROVE  /\ new.alert \in BOOLEAN
         /\ new.state # NULL
         /\ new.alert => new.state = Detector!Cleared /\ Tells(Contents, {})
         /\ ~new.alert => Tells(new.state, unsaid \cup {Outcome})
         /\ IsHistory(unsaid \cup {Outcome}) /\ Outcome.at = minute
<1>1. /\ minute \in Nat /\ pressed \in BOOLEAN /\ IsHistory(unsaid)
      /\ \A e \in unsaid : e.at < minute
      /\ new = Detector!Updated(Contents, pressed, minute)
      /\ Tells(Contents, unsaid)
  BY DEF PressureInv, Unrecorded, Tacit, Alerting
<1>2. Outcome = [at |-> minute, deferred |-> pressed]
  BY DEF Outcome
<1>3. IsHistory(unsaid \cup {Outcome})
  BY <1>1, <1>2, HistoryGrows
<1>4. /\ new.alert \in BOOLEAN /\ new.state \in Detector!State
      /\ new.alert => new.state = Detector!Cleared /\ Tells(Contents, {})
      /\ ~new.alert => Tells(new.state, unsaid \cup {Outcome})
  BY <1>1, <1>2, DetectorTells
<1> QED BY <1>2, <1>3, <1>4, NoFileAssumption

LEMMA PressureWritten == PressureInv /\ Write => PressureInv'
<1> SUFFICES ASSUME PressureInv, Write PROVE PressureInv'
  OBVIOUS
<1>1. /\ phase = "write" /\ phase' = "alert" /\ file' = new.state
      /\ unsaid' = unsaid \cup {Outcome}
      /\ UNCHANGED <<minute, part, pressed, new>>
  BY DEF Write, Goto
<1>2. /\ new.alert \in BOOLEAN
      /\ new.state # NULL
      /\ new.alert => new.state = Detector!Cleared
      /\ ~new.alert => Tells(new.state, unsaid \cup {Outcome})
      /\ IsHistory(unsaid \cup {Outcome}) /\ Outcome.at = minute
  BY <1>1, PressureWrites
<1>3. Contents' = new.state
  BY <1>1, <1>2 DEF Contents
<1>4. Tacit' = IF new.alert THEN {} ELSE unsaid \cup {Outcome}
  BY <1>1 DEF Tacit, Alerting
<1>5. Tells(Contents, Tacit)'
  <2>1. Tells(Contents', Tacit')
    BY <1>2, <1>3, <1>4, ClearedTells
  <2> QED BY <2>1 DEF Tells, RunOf, BurstsOf, Latest
<1>6. \A e \in unsaid' : e.at <= minute
  BY <1>1, <1>2 DEF PressureInv
<1>7. IsHistory(unsaid)'
  BY <1>1, <1>2 DEF IsHistory, IsLatest
<1>8. ~Unrecorded'
  BY <1>1 DEF Unrecorded
<1> QED BY <1>1, <1>2, <1>5, <1>6, <1>7, <1>8 DEF PressureInv

LEMMA PressureNotWritten ==
  ASSUME PressureInv, NEW truncated \in BOOLEAN, NotWritten(truncated)
  PROVE  PressureInv'
<1>1. /\ phase = "write" /\ phase' = "alert"
      /\ UNCHANGED <<minute, part, pressed, new>>
      /\ pressed \in BOOLEAN
  BY DEF NotWritten, Goto, PressureInv
<1>2. new.alert \in BOOLEAN /\ (new.alert => Tells(Contents, {}))
  BY <1>1, PressureWrites
<1>3. CASE truncated
  <2>1. file' = NULL /\ unsaid' = {}
    BY <1>3 DEF NotWritten
  <2> QED BY <1>1, <1>2, <2>1, PressureForgotten
<1>4. CASE ~truncated
  <2>1. UNCHANGED <<file, unsaid>>
    BY <1>4 DEF NotWritten
  <2>2. Contents' = Contents /\ Tacit' = IF new.alert THEN {} ELSE unsaid
    BY <1>1, <2>1 DEF Contents, Tacit, Alerting
  <2>3. Tells(Contents, unsaid)
    BY <1>1 DEF PressureInv, Tacit, Alerting
  <2>4. Tells(Contents', Tacit')
    BY <1>2, <2>2, <2>3
  <2>5. ~Unrecorded'
    BY <1>1 DEF Unrecorded
  <2> QED BY <1>1, <1>2, <2>1, <2>4, <2>5 DEF PressureInv
<1> QED BY <1>3, <1>4

(* An alert is raised, or was not due. *)
LEMMA PressureSaid ==
  ASSUME PressureInv, phase = "alert", UNCHANGED <<minute, file>>,
         phase' = "idle" \/ (phase' = "session" /\ part' = "scan"),
         unsaid' = Tacit, pressed' = FALSE
  PROVE  PressureInv'
<1>1. Contents' = Contents /\ Tacit' = Tacit
  BY DEF Contents, Tacit, Alerting
<1>2. ~Unrecorded'
  BY DEF Unrecorded
<1>3. Tacit = {} \/ Tacit = unsaid
  BY DEF Tacit
<1>4. IsHistory(unsaid') /\ \A e \in unsaid' : e.at <= minute
  BY <1>3, NothingKnown DEF PressureInv
<1>5. phase' \notin {"write", "alert"} /\ pressed' \in BOOLEAN
  OBVIOUS
<1> QED BY <1>1, <1>2, <1>4, <1>5 DEF PressureInv

LEMMA PressureNext == PressureInv /\ [TickNext]_allVars => PressureInv'
<1> SUFFICES ASSUME PressureInv, [TickNext]_allVars PROVE PressureInv'
  OBVIOUS
<1>0. pressed \in BOOLEAN
  BY DEF PressureInv
<1>1. ASSUME NEW gap \in 1..MaxGap,
             NothingDue(gap) \/ \E load \in SUBSET Watches : StartTick(gap, load)
      PROVE  PressureInv'
  BY <1>1, PressureTicks DEF NothingDue, StartTick, Goto
<1>2. ASSUME UNCHANGED <<tickVars, satVars>> PROVE PressureInv'
  BY <1>2 DEF tickVars, satVars, PressureInv, Unrecorded, Contents, Tacit, Alerting
<1>3. CASE Scheduling \/ ServerRestarts
  BY <1>2, <1>3 DEF Scheduling, ServerRestarts
<1>4. ASSUME NEW late \in BOOLEAN, EnterSession(late) PROVE PressureInv'
  <2>1. /\ phase = "schedule" /\ phase' = "session"
        /\ pressed' \in BOOLEAN
        /\ UNCHANGED <<minute, file, unsaid>>
    BY <1>4 DEF EnterSession, Goto, satVars
  <2>2. Unrecorded
    BY <2>1 DEF Unrecorded
  <2> QED BY <2>1, <2>2, PressureStays
<1>5. CASE SessionOpens
  BY <1>2, <1>5 DEF SessionOpens
<1>6. CASE SessionRaises
  BY <1>6, PressureSession DEF SessionRaises
<1>7. CASE SessionLeft
  BY <1>7, PressureSession DEF SessionLeft
<1>8. ASSUME NEW answer, NEW opened, SessionRefused(answer, opened) PROVE PressureInv'
  BY <1>8, PressureSession DEF SessionRefused
<1>9. CASE Record
  <2>1. /\ phase = "record" /\ phase' = "write"
        /\ new' = Detector!Updated(Contents, pressed, minute)
        /\ UNCHANGED <<minute, pressed, file, unsaid>>
    BY <1>9 DEF Record, Goto
  <2>2. Contents' = Contents /\ Tacit' = Tacit
    BY <2>1 DEF Contents, Tacit, Alerting
  <2>3. Unrecorded
    BY <2>1 DEF Unrecorded
  <2> QED BY <2>1, <2>2, <2>3 DEF PressureInv
<1>10. CASE Write
  BY <1>10, PressureWritten
<1>11. ASSUME NEW truncated \in BOOLEAN, NotWritten(truncated) PROVE PressureInv'
  BY <1>11, PressureNotWritten
<1>12. CASE Alert
  <2>1. /\ phase = "alert" /\ (phase' = "idle" \/ (phase' = "session" /\ part' = "scan"))
        /\ unsaid' = IF new.alert THEN {} ELSE unsaid
        /\ pressed' = FALSE /\ UNCHANGED <<minute, file>>
    BY <1>12 DEF Alert
  <2>2. unsaid' = Tacit
    BY <2>1 DEF Tacit, Alerting
  <2> QED BY <2>1, <2>2, PressureSaid
<1>13. CASE Killed
  <2>1. /\ phase' = "idle" /\ pressed' = FALSE /\ minute' = minute
        /\ phase \notin {"idle", "schedule"}
        /\ \/ phase = "write" /\ file' = NULL /\ unsaid' = {}
           \/ /\ file' = file
              /\ unsaid' = IF phase = "alert" /\ new.alert THEN {} ELSE unsaid
    BY <1>13 DEF Killed, Ends
  <2>2. CASE file' = NULL /\ unsaid' = {}
    BY <2>1, <2>2, PressureForgotten
  <2>3. CASE phase = "alert" /\ file' = file
               /\ unsaid' = IF phase = "alert" /\ new.alert THEN {} ELSE unsaid
    <3>1. unsaid' = Tacit
      BY <2>3 DEF Tacit, Alerting
    <3> QED BY <2>1, <2>3, <3>1, PressureSaid
  <2>4. CASE phase # "alert" /\ file' = file /\ unsaid' = unsaid
    <3>1. ~Unrecorded'
      BY <2>1 DEF Unrecorded
    <3> QED BY <2>1, <2>4, <3>1, PressureStays
  <2> QED BY <2>1, <2>2, <2>3, <2>4
<1>14. CASE UNCHANGED allVars
  BY <1>2, <1>14 DEF allVars
<1> QED
  BY <1>1, <1>3, <1>4, <1>5, <1>6, <1>7, <1>8, <1>9, <1>10, <1>11, <1>12, <1>13, <1>14
     DEF TickNext, TickStep

(* Whatever the ticks defer, whatever cannot be written or is cut off:     *)
(* when the deferrals recorded since the last alert amount to one, it is   *)
(* raised before the tick is over.  So a state that is kept in a file that *)
(* may not be written never knows less than it was told                    *)
(* (update_saturation_state, _record_saturation).                          *)
THEOREM PressureNeverUnsaid == TickSpec => []PressureIsSaid
<1>1. ASSUME PressureInv PROVE PressureIsSaid
  <2> SUFFICES ASSUME phase \in {"idle", "schedule"}
               PROVE  /\ RunOf(unsaid) < SaturationTicks
                      /\ Cardinality(BurstsOf(unsaid)) < SaturationEpisodes
    BY DEF PressureIsSaid
  <2> DEFINE s == Contents
  <2>1. Tells(s, unsaid)
    BY <1>1 DEF PressureInv, Tacit, Alerting
  <2> HIDE DEF s
  <2>2. /\ s.consecutive \in Nat /\ s.consecutive < SaturationTicks
        /\ IsFiniteSet(s.starts) /\ Cardinality(s.starts) < SaturationEpisodes
        /\ s.consecutive = RunOf(unsaid) \/ unsaid = {}
        /\ BurstsOf(unsaid) \subseteq s.starts
    BY <2>1 DEF Tells
  <2>3. RunOf(unsaid) < SaturationTicks
    <3>1. SaturationTicks \in Nat \ {0}
      BY EngineTickAssumption
    <3>2. RunOf(unsaid) = 0 \/ RunOf(unsaid) = s.consecutive
      BY <2>2, NothingKnown
    <3> QED BY <2>2, <3>1, <3>2
  <2>4. /\ Cardinality(BurstsOf(unsaid)) <= Cardinality(s.starts)
        /\ Cardinality(BurstsOf(unsaid)) \in Nat /\ Cardinality(s.starts) \in Nat
    BY <2>2, FS_Subset, FS_CardinalityType
  <2> QED BY <2>2, <2>3, <2>4, EngineTickAssumption
<1> QED BY <1>1, PressureInit, PressureNext, PTL DEF TickSpec

---------------------------------------------------------------------------
(* A finite set in a strict order: the number of those that come before    *)
(* tells its members apart, and says which comes first.                    *)
Preceding(S, R, x) == {y \in S : <<y, x>> \in R}
PlaceOf(S, R, x) == Cardinality(Preceding(S, R, x))

Orders(R, S) ==
  /\ \A x, y \in S : x = y \/ <<x, y>> \in R \/ <<y, x>> \in R
  /\ \A x \in S : <<x, x>> \notin R
  /\ \A x, y, z \in S : <<x, y>> \in R /\ <<y, z>> \in R => <<x, z>> \in R

LEMMA PlacesAre ==
  ASSUME NEW S, IsFiniteSet(S), NEW R, Orders(R, S)
  PROVE  /\ Cardinality(S) \in Nat
         /\ \A x \in S : PlaceOf(S, R, x) \in 0..(Cardinality(S) - 1)
         /\ \A x, y \in S : <<x, y>> \in R <=> PlaceOf(S, R, x) < PlaceOf(S, R, y)
         /\ \A x, y \in S : PlaceOf(S, R, x) = PlaceOf(S, R, y) => x = y
         /\ \A n \in 0..(Cardinality(S) - 1) : \E x \in S : PlaceOf(S, R, x) = n
<1> DEFINE size == Cardinality(S)
           place == [x \in S |-> PlaceOf(S, R, x)]
<1>1. size \in Nat
  BY FS_CardinalityType
<1>2. ASSUME NEW x \in S
      PROVE  IsFiniteSet(Preceding(S, R, x)) /\ PlaceOf(S, R, x) \in 0..(size - 1)
  <2>1. Preceding(S, R, x) \in SUBSET (S \ {x})
    BY DEF Preceding, Orders
  <2>2. IsFiniteSet(S \ {x}) /\ Cardinality(S \ {x}) = size - 1
    BY FS_RemoveElement
  <2>3. IsFiniteSet(Preceding(S, R, x)) /\ Cardinality(Preceding(S, R, x)) <= size - 1
    BY <2>1, <2>2, FS_Subset
  <2>4. Cardinality(Preceding(S, R, x)) \in Nat
    BY <2>3, FS_CardinalityType
  <2> QED
    BY <1>1, <2>3, <2>4 DEF PlaceOf
<1>3. ASSUME NEW x \in S, NEW y \in S, <<x, y>> \in R
      PROVE  PlaceOf(S, R, x) < PlaceOf(S, R, y)
  <2>1. /\ Preceding(S, R, x) \in SUBSET Preceding(S, R, y)
        /\ x \in Preceding(S, R, y) /\ x \notin Preceding(S, R, x)
    BY <1>3 DEF Preceding, Orders
  <2>2. /\ Cardinality(Preceding(S, R, x)) <= Cardinality(Preceding(S, R, y))
        /\ Cardinality(Preceding(S, R, x)) # Cardinality(Preceding(S, R, y))
    BY <1>2, <2>1, FS_Subset
  <2>3. PlaceOf(S, R, x) \in Int /\ PlaceOf(S, R, y) \in Int
    BY <1>1, <1>2
  <2> QED
    BY <2>2, <2>3 DEF PlaceOf
<1>4. ASSUME NEW x \in S, NEW y \in S
      PROVE  /\ <<x, y>> \in R <=> PlaceOf(S, R, x) < PlaceOf(S, R, y)
             /\ PlaceOf(S, R, x) = PlaceOf(S, R, y) => x = y
  <2>1. PlaceOf(S, R, x) \in Int /\ PlaceOf(S, R, y) \in Int
    BY <1>1, <1>2
  <2>2. x = y \/ <<x, y>> \in R \/ <<y, x>> \in R
    BY DEF Orders
  <2>3. x = y => <<x, y>> \notin R
    BY DEF Orders
  <2> QED
    BY <1>3, <2>1, <2>2, <2>3
<1>5. place \in Injection(S, 0..(size - 1))
  <2>1. place \in [S -> 0..(size - 1)]
    BY <1>2
  <2>2. \A x, y \in S : place[x] = place[y] => x = y
    BY <1>4
  <2> HIDE DEF place
  <2> QED
    BY <2>1, <2>2 DEF Injection, IsInjective
<1>6. IsFiniteSet(0..(size - 1)) /\ Cardinality(0..(size - 1)) = size
  <2> DEFINE top == size - 1
  <2>1. 0 \in Int /\ top \in Int
    BY <1>1
  <2>2. /\ IsFiniteSet(0..top)
        /\ Cardinality(0..top) = IF 0 > top THEN 0 ELSE top - 0 + 1
    <3> HIDE DEF top
    <3> QED
      BY <2>1, FS_Interval DEF top
  <2> HIDE DEF size
  <2> QED
    BY <1>1, <2>2
<1>7. place \in Surjection(S, 0..(size - 1))
  <2> HIDE DEF place
  <2> QED
    BY <1>5, <1>6, FS_Injection
<1>8. ASSUME NEW n \in 0..(size - 1) PROVE \E x \in S : PlaceOf(S, R, x) = n
  <2>1. PICK x \in S : place[x] = n
    BY <1>7 DEF Surjection
  <2> QED
    BY <2>1
<1> QED
  BY <1>1, <1>2, <1>4, <1>8

(* What is in order is a list of the set, each at its place. *)
ListOf(S, R) == [i \in 1..Cardinality(S) |-> CHOOSE x \in S : PlaceOf(S, R, x) = i - 1]

LEMMA Listed ==
  ASSUME NEW S, IsFiniteSet(S), NEW R, Orders(R, S), NEW T, S \in SUBSET T,
         NEW list, list = ListOf(S, R)
  PROVE  /\ list \in Seq(T) /\ Len(list) = Cardinality(S) /\ Len(list) \in Nat
         /\ \A i \in 1..Len(list) : list[i] \in S /\ PlaceOf(S, R, list[i]) = i - 1
         /\ \A x \in S : \E i \in 1..Len(list) : list[i] = x
         /\ \A i, j \in 1..Len(list) : <<list[i], list[j]>> \in R <=> i < j
<1> DEFINE size == Cardinality(S)
<1>1. /\ size \in Nat
      /\ \A x \in S : PlaceOf(S, R, x) \in 0..(size - 1)
      /\ \A x, y \in S : <<x, y>> \in R <=> PlaceOf(S, R, x) < PlaceOf(S, R, y)
      /\ \A x, y \in S : PlaceOf(S, R, x) = PlaceOf(S, R, y) => x = y
      /\ \A n \in 0..(size - 1) : \E x \in S : PlaceOf(S, R, x) = n
  BY PlacesAre
<1>2. list = [i \in 1..size |-> CHOOSE x \in S : PlaceOf(S, R, x) = i - 1]
  BY DEF ListOf
<1> HIDE DEF size
<1>3. ASSUME NEW i \in 1..size
      PROVE  list[i] \in S /\ PlaceOf(S, R, list[i]) = i - 1
  <2>1. i - 1 \in 0..(size - 1)
    BY <1>1
  <2>2. \E x \in S : PlaceOf(S, R, x) = i - 1
    BY <1>1, <2>1
  <2>3. list[i] = CHOOSE x \in S : PlaceOf(S, R, x) = i - 1
    BY <1>2
  <2> QED
    BY <2>2, <2>3
<1>4. list \in [1..size -> T]
  BY <1>2, <1>3
<1>5. list \in Seq(T)
  BY <1>1, <1>4, SeqDef
<1>6. Len(list) = size
  <2>1. DOMAIN list = 1..size
    BY <1>2
  <2>2. Len(list) \in Nat /\ DOMAIN list = 1..Len(list)
    BY <1>5, LenProperties
  <2> QED
    BY <1>1, <2>1, <2>2
<1>7. ASSUME NEW x \in S PROVE \E i \in 1..size : list[i] = x
  <2> DEFINE i == PlaceOf(S, R, x) + 1
  <2>1. i \in 1..size /\ i - 1 = PlaceOf(S, R, x)
    BY <1>1
  <2>2. list[i] \in S /\ PlaceOf(S, R, list[i]) = i - 1
    BY <1>3, <2>1
  <2> QED
    BY <1>1, <2>1, <2>2
<1>8. ASSUME NEW i \in 1..size, NEW j \in 1..size
      PROVE  <<list[i], list[j]>> \in R <=> i < j
  <2>1. <<list[i], list[j]>> \in R <=> i - 1 < j - 1
    BY <1>1, <1>3
  <2> QED
    BY <1>1, <2>1
<1> QED
  BY <1>1, <1>3, <1>5, <1>6, <1>7, <1>8 DEF size

(* The rows of a subscriber, in the order of its queue. *)
LEMMA RowsFinite ==
  ASSUME NEW load \in SUBSET Watches
  PROVE  /\ IsFiniteSet(load) /\ Cardinality(load) \in Nat
         /\ \A some \in SUBSET load : IsFiniteSet(some) /\ Cardinality(some) \in Nat
BY FetchBudgetAssumption, FS_Subset, FS_CardinalityType

LEMMA AheadOrders ==
  ASSUME NEW some \in SUBSET Watches
  PROVE  Orders({w \in some \X some : Ahead(w[1], w[2])}, some)
<1>1. \A q \in some : Timeframe[q] \in Nat /\ Position[q] \in Nat
  BY FetchBudgetAssumption
<1>2. \A q, r \in some : Position[q] = Position[r] => q = r
  BY FetchBudgetAssumption
<1>3. \A q, r \in some : q = r \/ Ahead(q, r) \/ Ahead(r, q)
  BY <1>1, <1>2 DEF Ahead
<1>4. \A q \in some : ~Ahead(q, q)
  BY <1>1 DEF Ahead
<1>5. \A q, r, s \in some : Ahead(q, r) /\ Ahead(r, s) => Ahead(q, s)
  BY <1>1 DEF Ahead
<1> QED
  BY <1>3, <1>4, <1>5 DEF Orders

LEMMA QueueIs ==
  ASSUME NEW load \in SUBSET Watches, NEW c \in Chats
  PROVE  /\ Queue(load, c) \in Seq(Watches) /\ Len(Queue(load, c)) \in Nat
         /\ \A i \in 1..Len(Queue(load, c)) :
              /\ Queue(load, c)[i] \in load /\ Owner[Queue(load, c)[i]] = c
              /\ Round(load, Queue(load, c)[i]) = i - 1
         /\ \A r \in load : Owner[r] = c => \E i \in 1..Len(Queue(load, c)) : Queue(load, c)[i] = r
<1> DEFINE mine == RowsOf(load, c)
           R == {w \in mine \X mine : Ahead(w[1], w[2])}
           list == Queue(load, c)
<1>1. mine \in SUBSET Watches /\ IsFiniteSet(mine) /\ \A r \in mine : r \in load /\ Owner[r] = c
  BY RowsFinite DEF RowsOf
<1>2. Orders(R, mine)
  BY <1>1, AheadOrders
<1>3. ASSUME NEW x \in mine
      PROVE  /\ Preceding(mine, R, x) = {y \in mine : Ahead(y, x)}
             /\ PlaceOf(mine, R, x) = Round(load, x)
  <2>1. Preceding(mine, R, x) = {y \in mine : Ahead(y, x)}
    BY DEF Preceding
  <2>2. {q \in load : Owner[q] = Owner[x] /\ Ahead(q, x)} = {y \in mine : Ahead(y, x)}
    BY DEF RowsOf
  <2> QED
    BY <2>1, <2>2 DEF PlaceOf, Round
<1>4. list = [i \in 1..Cardinality(mine) |->
                CHOOSE x \in mine : Cardinality({y \in mine : Ahead(y, x)}) = i - 1]
  BY DEF Queue, InOrder
<1>5. list = ListOf(mine, R)
  <2> HIDE DEF mine, R
  <2> QED
    BY <1>3, <1>4 DEF PlaceOf, ListOf
<1> HIDE DEF list, R, mine
<1>6. /\ list \in Seq(Watches) /\ Len(list) \in Nat
      /\ \A i \in 1..Len(list) : list[i] \in mine /\ PlaceOf(mine, R, list[i]) = i - 1
      /\ \A x \in mine : \E i \in 1..Len(list) : list[i] = x
  <2>1. IsFiniteSet(mine) /\ mine \in SUBSET Watches
    BY <1>1
  <2> QED
    BY <1>2, <1>5, <2>1, Listed
<1>7. \A r \in load : Owner[r] = c => r \in mine
  BY DEF mine, RowsOf
<1> QED
  BY <1>1, <1>3, <1>6, <1>7 DEF list

(* Subscribers, in the order of their first row. *)
LEMMA Smallest ==
  ASSUME NEW S \in SUBSET Nat, S # {}
  PROVE  \E least \in S : \A y \in S : least <= y
<1> DEFINE R == {p \in Nat \X Nat : p[1] < p[2]}
<1>1. PICK least \in S : \A y \in S : <<y, least>> \notin R
  <2>1. IsWellFoundedOn(R, Nat)
    BY NatLessThanWellFounded DEF OpToRel
  <2> HIDE DEF R
  <2> QED
    BY <2>1, WFMin
<1>2. ASSUME NEW y \in S PROVE least <= y
  <2>1. <<y, least>> \in Nat \X Nat /\ <<y, least>> \notin R
    BY <1>1
  <2> QED
    BY <2>1
<1> QED
  BY <1>2

LEMMA FirstRow ==
  ASSUME NEW load \in SUBSET Watches, NEW c \in Owners(load)
  PROVE  \E q \in load : Owner[q] = c /\ \A r \in load : Owner[r] = c => Position[q] <= Position[r]
<1> DEFINE places == {Position[r] : r \in RowsOf(load, c)}
<1>1. \A r \in load : Position[r] \in Nat
  BY FetchBudgetAssumption
<1>2. places \in SUBSET Nat /\ places # {}
  BY <1>1 DEF RowsOf, Owners
<1>3. PICK least \in places : \A y \in places : least <= y
  <2> HIDE DEF places
  <2> QED
    BY <1>2, Smallest
<1>4. PICK q \in RowsOf(load, c) : least = Position[q]
  OBVIOUS
<1>5. ASSUME NEW r \in load, Owner[r] = c PROVE Position[q] <= Position[r]
  <2>1. Position[r] \in places
    BY <1>5 DEF RowsOf
  <2> QED
    BY <1>3, <1>4, <2>1
<1>6. q \in load /\ Owner[q] = c
  BY DEF RowsOf
<1> QED
  BY <1>5, <1>6

LEMMA TurnOrders ==
  ASSUME NEW load \in SUBSET Watches
  PROVE  Orders({w \in Owners(load) \X Owners(load) : TurnBefore(load, w[1], w[2])}, Owners(load))
<1>0. \A r \in load : Position[r] \in Nat /\ r \in Watches
  BY FetchBudgetAssumption
<1>1. ASSUME NEW c \in Owners(load), NEW d \in Owners(load), c # d
      PROVE  TurnBefore(load, c, d) \/ TurnBefore(load, d, c)
  <2>1. PICK q \in load : Owner[q] = c /\ \A r \in load : Owner[r] = c => Position[q] <= Position[r]
    BY FirstRow
  <2>2. PICK r \in load : Owner[r] = d /\ \A s \in load : Owner[s] = d => Position[r] <= Position[s]
    BY FirstRow
  <2>3. Position[q] # Position[r]
    BY <1>0, <1>1, <2>1, <2>2, FetchBudgetAssumption
  <2>4. CASE Position[q] < Position[r]
    <3>1. \A s \in load : Owner[s] = d => Position[q] < Position[s]
      BY <1>0, <2>2, <2>4
    <3> QED
      BY <2>1, <3>1 DEF TurnBefore
  <2>5. CASE Position[r] < Position[q]
    <3>1. \A s \in load : Owner[s] = c => Position[r] < Position[s]
      BY <1>0, <2>1, <2>5
    <3> QED
      BY <2>2, <3>1 DEF TurnBefore
  <2> QED
    BY <1>0, <2>3, <2>4, <2>5
<1>2. ASSUME NEW c \in Owners(load), TurnBefore(load, c, c) PROVE FALSE
  <2>1. PICK q \in load : Owner[q] = c /\ \A r \in load : Owner[r] = c => Position[q] < Position[r]
    BY <1>2 DEF TurnBefore
  <2> QED
    BY <1>0, <2>1
<1>3. ASSUME NEW c \in Owners(load), NEW d \in Owners(load), NEW e \in Owners(load),
             TurnBefore(load, c, d), TurnBefore(load, d, e)
      PROVE  TurnBefore(load, c, e)
  <2>1. PICK q \in load : Owner[q] = c /\ \A s \in load : Owner[s] = d => Position[q] < Position[s]
    BY <1>3 DEF TurnBefore
  <2>2. PICK r \in load : Owner[r] = d /\ \A s \in load : Owner[s] = e => Position[r] < Position[s]
    BY <1>3 DEF TurnBefore
  <2>3. \A s \in load : Owner[s] = e => Position[q] < Position[s]
    BY <1>0, <2>1, <2>2
  <2> QED
    BY <2>1, <2>3 DEF TurnBefore
<1> QED
  BY <1>1, <1>2, <1>3 DEF Orders

LEMMA OrderIs ==
  ASSUME NEW load \in SUBSET Watches
  PROVE  /\ Order(load) \in Seq(Chats) /\ Len(Order(load)) \in Nat
         /\ \A r \in load : \E i \in 1..Len(Order(load)) : Order(load)[i] = Owner[r]
         /\ \A i, j \in 1..Len(Order(load)) :
              TurnBefore(load, Order(load)[i], Order(load)[j]) <=> i < j
<1> DEFINE all == Owners(load)
           R == {w \in all \X all : TurnBefore(load, w[1], w[2])}
           list == Order(load)
<1>1. all \in SUBSET Chats /\ IsFiniteSet(all)
  <2>1. all \in SUBSET Chats
    BY FetchBudgetAssumption DEF Owners
  <2> DEFINE f == [r \in load |-> Owner[r]]
  <2>2. f \in Surjection(load, all)
    BY DEF Owners, Surjection
  <2>3. IsFiniteSet(load)
    BY RowsFinite
  <2> HIDE DEF f, all
  <2> QED
    BY <2>1, <2>2, <2>3, FS_Surjection
<1>2. Orders(R, all)
  BY TurnOrders
<1>3. ASSUME NEW x \in all
      PROVE  Preceding(all, R, x) = {y \in all : TurnBefore(load, y, x)}
  BY DEF Preceding
<1>4. list = [i \in 1..Cardinality(all) |->
                CHOOSE x \in all : Cardinality({y \in all : TurnBefore(load, y, x)}) = i - 1]
  BY DEF Order, InOrder
<1>5. list = ListOf(all, R)
  <2> HIDE DEF all, R
  <2> QED
    BY <1>3, <1>4 DEF PlaceOf, ListOf
<1>6. \A x, y \in all : <<x, y>> \in R <=> TurnBefore(load, x, y)
  OBVIOUS
<1>7. \A r \in load : Owner[r] \in all
  BY DEF Owners
<1> HIDE DEF list, R, all
<1>8. /\ list \in Seq(Chats) /\ Len(list) \in Nat
      /\ \A i \in 1..Len(list) : list[i] \in all
      /\ \A x \in all : \E i \in 1..Len(list) : list[i] = x
      /\ \A i, j \in 1..Len(list) : <<list[i], list[j]>> \in R <=> i < j
  <2>1. IsFiniteSet(all) /\ all \in SUBSET Chats
    BY <1>1
  <2>2. /\ list \in Seq(Chats) /\ Len(list) = Cardinality(all) /\ Len(list) \in Nat
        /\ \A i \in 1..Len(list) : list[i] \in all /\ PlaceOf(all, R, list[i]) = i - 1
        /\ \A x \in all : \E i \in 1..Len(list) : list[i] = x
        /\ \A i, j \in 1..Len(list) : <<list[i], list[j]>> \in R <=> i < j
    BY <1>2, <1>5, <2>1, Listed
  <2> QED
    BY <2>2
<1> QED
  BY <1>6, <1>7, <1>8 DEF list

---------------------------------------------------------------------------
(* The loop.  In round k every subscriber before the one whose turn it is  *)
(* has given k + 1 rows, if it had them, and every other one k.            *)
Had(c) == \E i \in 1..Len(order) : i < turn /\ order[i] = c
Given(k, c) == IF Had(c) THEN k + 1 ELSE k

(* The rows of c in queue q are all but the first n, in order. *)
LeftOf(load, c, q, n) ==
  /\ \A i \in 1..Len(q) :
       q[i] \in load /\ Owner[q[i]] = c /\ Round(load, q[i]) = n + (i - 1)
  /\ \A r \in load : Owner[r] = c /\ n <= Round(load, r) => \E i \in 1..Len(q) : q[i] = r

Rest(k) == \A c \in Chats : LeftOf(eligible, c, queues[c], Given(k, c))
Taken(k) ==
  ToSet(scheduled) = {r \in eligible : Round(eligible, r) < Given(k, Owner[r])}

LoopShape ==
  /\ eligible \in SUBSET Watches
  /\ order = Order(eligible)
  /\ queues \in [Chats -> Seq(Watches)]
  /\ scheduled \in Seq(Watches)
  /\ turn \in Nat \ {0}
LoopCounts ==
  /\ Len(scheduled) = Cardinality(ToSet(scheduled))
  /\ ~done => Len(scheduled) < Budget
  /\ done => \/ Len(scheduled) = Budget
             \/ ToSet(scheduled) = eligible /\ Len(scheduled) <= Budget
LoopFair ==
  ~progressed => \A i \in 1..Len(order) : i < turn => queues[order[i]] = <<>>

Looping == LoopShape /\ LoopCounts /\ LoopFair /\ \E k \in Nat : Rest(k) /\ Taken(k)
Resting == eligible = {} /\ scheduled = <<>> /\ done
LoopInv == Looping \/ Resting

LEMMA RoundsAre ==
  ASSUME NEW load \in SUBSET Watches, NEW r \in load
  PROVE  Round(load, r) \in Nat
<1>1. {q \in load : Owner[q] = Owner[r] /\ Ahead(q, r)} \in SUBSET load
  OBVIOUS
<1> QED
  BY <1>1, RowsFinite DEF Round

LEMMA ListIs ==
  ASSUME NEW S, NEW list \in Seq(S)
  PROVE  /\ Len(list) \in Nat /\ DOMAIN list = 1..Len(list)
         /\ \A i \in 1..Len(list) : list[i] \in S
         /\ ToSet(list) = {list[i] : i \in 1..Len(list)} /\ ToSet(list) \subseteq S
         /\ list = <<>> <=> Len(list) = 0
<1>1. Len(list) \in Nat /\ DOMAIN list = 1..Len(list) /\ list \in [1..Len(list) -> S]
  BY LenProperties
<1>2. list = <<>> <=> Len(list) = 0
  BY EmptySeq
<1> QED
  BY <1>1, <1>2 DEF ToSet

(* Before the loop. *)
LEMMA LoopBegins ==
  ASSUME NEW load \in SUBSET Watches, Begin(load)
  PROVE  LoopInv'
<1>1. /\ eligible' = load /\ order' = Order(load)
      /\ queues' = [c \in Chats |-> Queue(load, c)]
      /\ scheduled' = <<>> /\ turn' = 1 /\ progressed' = FALSE /\ done' = FALSE
  BY DEF Begin
<1>2. \A c \in Chats : Queue(load, c) \in Seq(Watches)
  BY QueueIs
<1>3. ToSet(<<>>) = {} /\ Len(<<>>) = 0 /\ <<>> \in Seq(Watches)
  BY DEF ToSet
<1>4. LoopShape'
  BY <1>1, <1>2, <1>3 DEF LoopShape, Order, InOrder, Owners, TurnBefore
<1>5. LoopCounts'
  <2>1. Cardinality({}) = 0 /\ Budget \in Nat \ {0}
    BY FS_EmptySet, FetchBudgetAssumption
  <2>2. ToSet(scheduled') = {} /\ Len(scheduled') = 0
    BY <1>1, <1>3
  <2> QED
    BY <1>1, <2>1, <2>2 DEF LoopCounts
<1>6. Len(order') \in Nat
  BY <1>1, OrderIs
<1>7. LoopFair'
  BY <1>1, <1>6 DEF LoopFair
<1>8. ASSUME NEW c PROVE ~Had(c)'
  BY <1>1, <1>6 DEF Had
<1>9. Rest(0)'
  <2>1. ASSUME NEW c \in Chats PROVE LeftOf(load, c, Queue(load, c), 0)
    <3> DEFINE q == Queue(load, c)
    <3>1. /\ Len(q) \in Nat
          /\ \A i \in 1..Len(q) : q[i] \in load /\ Owner[q[i]] = c /\ Round(load, q[i]) = i - 1
          /\ \A r \in load : Owner[r] = c => \E i \in 1..Len(q) : q[i] = r
      BY QueueIs
    <3> HIDE DEF q
    <3>2. \A i \in 1..Len(q) : 0 + (i - 1) = i - 1
      BY <3>1
    <3>3. LeftOf(load, c, q, 0)
      BY <3>1, <3>2 DEF LeftOf
    <3> QED
      BY <3>3 DEF q
  <2>2. ASSUME NEW c \in Chats PROVE Given(0, c)' = 0
    BY <1>8 DEF Given
  <2>3. \A c \in Chats : queues'[c] = Queue(load, c)
    BY <1>1
  <2>4. \A c \in Chats : LeftOf(load, c, queues'[c], Given(0, c)')
    BY <2>1, <2>2, <2>3
  <2> QED
    BY <1>1, <2>4 DEF Rest, LeftOf, Round, Ahead
<1>10. Taken(0)'
  <2>1. \A r \in load : ~(Round(load, r) < 0)
    BY RoundsAre
  <2> QED
    BY <1>1, <1>3, <1>8, <2>1 DEF Taken, Given, Round, Ahead
<1> QED
  BY <1>4, <1>5, <1>7, <1>9, <1>10 DEF LoopInv, Looping

(* With its turn over a subscriber has given k + 1 rows, if it had them.    *)
LEMMA TurnMoves ==
  ASSUME LoopShape, turn <= Len(order), turn' = turn + 1, order' = order,
         NEW k \in Nat, NEW c, c = order[turn]
  PROVE  /\ c \in Chats /\ turn \in 1..Len(order)
         /\ Given(k, c) = k /\ Given(k, c)' = k + 1
         /\ \A d : d # c => Given(k, d)' = Given(k, d)
<1>1. order = Order(eligible) /\ order \in Seq(Chats) /\ Len(order) \in Nat /\ turn \in Nat \ {0}
      /\ \A i, j \in 1..Len(order) : TurnBefore(eligible, order[i], order[j]) <=> i < j
  BY OrderIs DEF LoopShape
<1>2. turn \in 1..Len(order) /\ c \in Chats
  BY <1>1, ListIs
<1>3. \A i \in 1..Len(order) : order[i] = c => i = turn
  <2> SUFFICES ASSUME NEW i \in 1..Len(order), order[i] = c PROVE i = turn
    OBVIOUS
  <2>1. (i < turn <=> turn < turn) /\ (turn < i <=> turn < turn)
    BY <1>1, <1>2
  <2> QED
    BY <1>1, <1>2, <2>1
<1>4. ~Had(c)
  BY <1>1, <1>3 DEF Had
<1>5. Had(c)'
  BY <1>1, <1>2 DEF Had
<1>6. ASSUME NEW d, d # c PROVE Had(d)' <=> Had(d)
  <2>1. \A i \in 1..Len(order) : order[i] = d => i # turn
    BY <1>6
  <2>2. \A i \in 1..Len(order) : i # turn => (i < turn + 1 <=> i < turn)
    BY <1>1
  <2> QED
    BY <2>1, <2>2 DEF Had
<1> QED
  BY <1>2, <1>4, <1>5, <1>6 DEF Given

(* A subscriber gives its first row, which is of round k: it had given k.   *)
LEMMA LoopTakes ==
  ASSUME LoopShape, LoopCounts, LoopFair, NEW k \in Nat, Rest(k), Taken(k), Take
  PROVE  Looping'
<1>a. PICK c : c = order[turn]
  OBVIOUS
<1>b. PICK r : r = Head(queues[c])
  OBVIOUS
<1>1. /\ ~done /\ turn <= Len(order) /\ queues[c] # <<>>
      /\ scheduled' = Append(scheduled, r)
      /\ queues' = [queues EXCEPT ![c] = Tail(queues[c])]
      /\ progressed' = TRUE /\ turn' = turn + 1
      /\ done' = (Len(scheduled) + 1 >= Budget)
      /\ eligible' = eligible /\ order' = order
  BY <1>a, <1>b DEF Take, InRound
<1>2. /\ eligible \in SUBSET Watches /\ order = Order(eligible) /\ order \in Seq(Chats)
      /\ Len(order) \in Nat /\ turn \in Nat \ {0} /\ scheduled \in Seq(Watches)
      /\ queues \in [Chats -> Seq(Watches)]
  BY OrderIs DEF LoopShape
<1>7. /\ turn \in 1..Len(order) /\ c \in Chats
      /\ Given(k, c) = k /\ Given(k, c)' = k + 1 /\ \A d : d # c => Given(k, d)' = Given(k, d)
  BY <1>1, <1>a, TurnMoves DEF Given, Had
<1>8. /\ queues[c] \in Seq(Watches) /\ Len(queues[c]) \in Nat /\ Len(queues[c]) > 0
      /\ r = queues[c][1] /\ Tail(queues[c]) \in Seq(Watches)
      /\ Len(Tail(queues[c])) = Len(queues[c]) - 1
      /\ \A i \in 1..Len(Tail(queues[c])) : Tail(queues[c])[i] = queues[c][i + 1]
  <2>1. queues[c] \in Seq(Watches)
    BY <1>2, <1>7
  <2> QED
    BY <1>1, <1>b, <2>1, EmptySeq, HeadTailProperties
<1>9. /\ \A i \in 1..Len(queues[c]) :
           /\ queues[c][i] \in eligible /\ Owner[queues[c][i]] = c
           /\ Round(eligible, queues[c][i]) = k + (i - 1)
      /\ \A s \in eligible : Owner[s] = c /\ k <= Round(eligible, s)
           => \E i \in 1..Len(queues[c]) : queues[c][i] = s
  BY <1>7 DEF Rest, LeftOf
<1>10. /\ r \in eligible /\ Owner[r] = c /\ Round(eligible, r) = k /\ r \in Watches
       /\ \A s \in eligible : Owner[s] = c /\ Round(eligible, s) = k => s = r
  <2> DEFINE q == queues[c]
  <2> HIDE DEF q
  <2>1. r = q[1] /\ Len(q) \in Nat /\ Len(q) > 0
    BY <1>8 DEF q
  <2>2. \A i \in 1..Len(q) : q[i] \in eligible /\ Owner[q[i]] = c
                           /\ Round(eligible, q[i]) = k + (i - 1)
    BY <1>9 DEF q
  <2>3. 1 \in 1..Len(q)
    BY <2>1
  <2>4. r \in eligible /\ Owner[r] = c /\ Round(eligible, r) = k
    BY <2>1, <2>2, <2>3
  <2>5. ASSUME NEW s \in eligible, Owner[s] = c, Round(eligible, s) = k PROVE s = r
    <3>1. PICK i \in 1..Len(q) : q[i] = s
      BY <1>9, <2>5 DEF q
    <3>2. k + (i - 1) = k
      BY <2>2, <2>5, <3>1
    <3>3. i = 1
      BY <2>1, <3>2
    <3> QED
      BY <2>1, <3>1, <3>3
  <2> QED
    BY <1>2, <2>4, <2>5
<1>11. ToSet(scheduled') = ToSet(scheduled) \cup {r} /\ Len(scheduled') = Len(scheduled) + 1
       /\ scheduled' \in Seq(Watches)
  <2>1. /\ scheduled' \in Seq(Watches) /\ Len(scheduled') = Len(scheduled) + 1
        /\ \A i \in 1..Len(scheduled) : scheduled'[i] = scheduled[i]
        /\ scheduled'[Len(scheduled) + 1] = r
    BY <1>1, <1>2, <1>10, AppendProperties
  <2>2. /\ Len(scheduled) \in Nat /\ ToSet(scheduled) = {scheduled[i] : i \in 1..Len(scheduled)}
        /\ ToSet(scheduled') = {scheduled'[i] : i \in 1..Len(scheduled')}
    BY <1>2, <2>1, ListIs
  <2>3. 1..(Len(scheduled) + 1) = (1..Len(scheduled)) \cup {Len(scheduled) + 1}
    BY <2>2
  <2> QED
    BY <2>1, <2>2, <2>3
<1>12. r \notin ToSet(scheduled)
  <2> QED
    BY <1>7, <1>10 DEF Taken
<1>13. IsFiniteSet(ToSet(scheduled)) /\ ToSet(scheduled) \subseteq eligible
  <2>1. ToSet(scheduled) \in SUBSET eligible
    BY DEF Taken
  <2> QED
    BY <1>2, <2>1, RowsFinite
<1>14. LoopCounts'
  <2> DEFINE n == Len(scheduled)
  <2>1. n \in Nat /\ n < Budget /\ Budget \in Nat
    BY <1>1, <1>2, ListIs, FetchBudgetAssumption DEF LoopCounts
  <2>2. Cardinality(ToSet(scheduled')) = Cardinality(ToSet(scheduled)) + 1
    <3> QED
      BY <1>11, <1>12, <1>13, FS_AddElement
  <2>3. Len(scheduled') = Cardinality(ToSet(scheduled')) /\ Len(scheduled') = n + 1
    BY <1>11, <2>2 DEF LoopCounts
  <2>4. (done' => n + 1 >= Budget) /\ (~done' => ~(n + 1 >= Budget))
    <3>1. done' = (n + 1 >= Budget)
      BY <1>1 DEF n
    <3> HIDE DEF n
    <3> QED
      BY <3>1, Zenon
  <2> HIDE DEF n
  <2>5. n + 1 >= Budget => n + 1 = Budget
    BY <2>1
  <2>6. ~(n + 1 >= Budget) => n + 1 < Budget
    BY <2>1
  <2> QED
    BY <2>3, <2>4, <2>5, <2>6, Zenon DEF LoopCounts
<1>15. LoopShape'
  <2>1. order' = Order(eligible')
    BY <1>1, <1>2
  <2>2. queues' \in [Chats -> Seq(Watches)]
    BY <1>1, <1>2, <1>8
  <2>3. turn' \in Nat \ {0}
    BY <1>1, <1>2
  <2> QED
    BY <1>1, <1>2, <1>11, <2>1, <2>2, <2>3 DEF LoopShape, Order, InOrder, Owners, TurnBefore
<1>16. LoopFair'
  BY <1>1 DEF LoopFair
<1>17. Taken(k)'
  <2>1. \A s \in eligible : Round(eligible, s) \in Nat
    BY <1>2, RoundsAre
  <2>2. ASSUME NEW s \in eligible
        PROVE  Round(eligible, s) < Given(k, Owner[s])' <=>
                 Round(eligible, s) < Given(k, Owner[s]) \/ s = r
    <3>1. CASE Owner[s] = c
      <4>1. Round(eligible, s) < k + 1 <=> Round(eligible, s) < k \/ Round(eligible, s) = k
        BY <2>1
      <4>2. Round(eligible, s) = k <=> s = r
        BY <1>10, <3>1
      <4>3. Given(k, Owner[s])' = k + 1 /\ Given(k, Owner[s]) = k
        BY <1>7, <3>1
      <4> QED
        BY <4>1, <4>2, <4>3
    <3>2. CASE Owner[s] # c
      <4>1. Given(k, Owner[s])' = Given(k, Owner[s]) /\ s # r
        BY <1>7, <1>10, <3>2
      <4> QED
        BY <4>1
    <3> QED
      BY <3>1, <3>2
  <2>3. ToSet(scheduled') = {s \in eligible : Round(eligible, s) < Given(k, Owner[s])'}
    BY <1>10, <1>11, <2>2 DEF Taken
  <2> QED
    BY <1>1, <2>3 DEF Taken, Round, Ahead
<1>18. Rest(k)'
  <2>0. ASSUME NEW d \in Chats PROVE LeftOf(eligible, d, queues'[d], Given(k, d)')
    <3>1. CASE d # c
      <4>1. queues'[d] = queues[d] /\ Given(k, d)' = Given(k, d)
        BY <1>1, <1>2, <1>7, <3>1
      <4> QED
        BY <4>1 DEF Rest
    <3>2. CASE d = c
      <4> DEFINE q == queues[c]
                 t == Tail(queues[c])
      <4> HIDE DEF q, t
      <4>1. /\ queues'[d] = t /\ Given(k, d)' = k + 1
        BY <1>1, <1>2, <1>7, <3>2 DEF t
      <4>2. /\ Len(q) \in Nat /\ Len(q) > 0 /\ Len(t) = Len(q) - 1
            /\ \A i \in 1..Len(t) : t[i] = q[i + 1]
        BY <1>8 DEF q, t
      <4>3. /\ \A i \in 1..Len(q) : q[i] \in eligible /\ Owner[q[i]] = c
                                    /\ Round(eligible, q[i]) = k + (i - 1)
            /\ \A s \in eligible : Owner[s] = c /\ k <= Round(eligible, s)
                 => \E i \in 1..Len(q) : q[i] = s
        BY <1>9 DEF q
      <4>4. ASSUME NEW i \in 1..Len(t)
            PROVE  t[i] \in eligible /\ Owner[t[i]] = c /\ Round(eligible, t[i]) = k + 1 + (i - 1)
        <5>1. i + 1 \in 1..Len(q) /\ k + ((i + 1) - 1) = k + 1 + (i - 1)
          BY <4>2
        <5> QED
          BY <4>2, <4>3, <5>1
      <4>5. ASSUME NEW s \in eligible, Owner[s] = c, k + 1 <= Round(eligible, s)
            PROVE  \E i \in 1..Len(t) : t[i] = s
        <5>1. Round(eligible, s) \in Nat
          BY <1>2, RoundsAre
        <5>2. PICK i \in 1..Len(q) : q[i] = s
          BY <4>3, <4>5, <5>1
        <5>3. Round(eligible, s) = k + (i - 1)
          BY <4>3, <5>2
        <5>4. i - 1 \in 1..Len(t) /\ (i - 1) + 1 = i
          BY <4>2, <4>5, <5>1, <5>3
        <5>5. t[i - 1] = s
          BY <4>2, <5>2, <5>4
        <5> QED
          BY <5>4, <5>5
      <4> QED
        BY <3>2, <4>1, <4>4, <4>5 DEF LeftOf
    <3> QED
      BY <3>1, <3>2
  <2>1. \A d \in Chats : LeftOf(eligible, d, queues'[d], Given(k, d)')
    BY <2>0
  <2>2. eligible' = eligible
    BY <1>1
  <2> QED
    BY <2>1, <2>2 DEF Rest, LeftOf, Round, Ahead
<1> QED
  BY <1>14, <1>15, <1>16, <1>17, <1>18 DEF Looping

(* A subscriber with no row left has none of round k, nor of a later one.  *)
LEMMA LoopPasses ==
  ASSUME LoopShape, LoopCounts, LoopFair, NEW k \in Nat, Rest(k), Taken(k), Pass
  PROVE  Looping'
<1>a. PICK c : c = order[turn]
  OBVIOUS
<1>1. /\ ~done /\ turn <= Len(order) /\ queues[c] = <<>> /\ turn' = turn + 1
      /\ eligible' = eligible /\ order' = order /\ queues' = queues
      /\ scheduled' = scheduled /\ progressed' = progressed /\ done' = done
  BY <1>a DEF Pass, InRound
<1>2. /\ eligible \in SUBSET Watches /\ order = Order(eligible) /\ order \in Seq(Chats)
      /\ Len(order) \in Nat /\ turn \in Nat \ {0}
  BY OrderIs DEF LoopShape
<1>7. /\ turn \in 1..Len(order) /\ c \in Chats
      /\ Given(k, c) = k /\ Given(k, c)' = k + 1 /\ \A d : d # c => Given(k, d)' = Given(k, d)
  BY <1>1, <1>a, TurnMoves DEF Given, Had
<1>8. \A s \in eligible : Owner[s] = c => ~(k <= Round(eligible, s)) /\ Round(eligible, s) \in Nat
  <2>1. \A s \in eligible : Owner[s] = c /\ k <= Round(eligible, s)
           => \E i \in 1..Len(<<>>) : <<>>[i] = s
    BY <1>1, <1>7 DEF Rest, LeftOf
  <2>2. \A i \in 1..Len(<<>>) : FALSE
    OBVIOUS
  <2> QED
    BY <1>2, <2>1, <2>2, RoundsAre
<1>9. LoopShape'
  <2>1. order' = Order(eligible')
    BY <1>1, <1>2
  <2>2. turn' \in Nat \ {0}
    BY <1>1, <1>2
  <2> QED
    BY <1>1, <2>1, <2>2 DEF LoopShape, Order, InOrder, Owners, TurnBefore
<1>10. LoopCounts'
  BY <1>1 DEF LoopCounts
<1>11. LoopFair'
  <2>1. ASSUME ~progressed, NEW i \in 1..Len(order), i < turn + 1
        PROVE  queues[order[i]] = <<>>
    <3>1. i < turn \/ i = turn
      BY <1>2, <2>1
    <3> QED
      BY <1>1, <1>a, <2>1, <3>1 DEF LoopFair
  <2> QED
    BY <1>1, <2>1 DEF LoopFair
<1>12. Taken(k)'
  <2>1. ASSUME NEW s \in eligible
        PROVE  Round(eligible, s) < Given(k, Owner[s])' <=> Round(eligible, s) < Given(k, Owner[s])
    <3>1. CASE Owner[s] = c
      <4>1. Round(eligible, s) < k + 1 /\ Round(eligible, s) < k
        BY <1>8, <3>1
      <4>2. Given(k, Owner[s])' = k + 1 /\ Given(k, Owner[s]) = k
        BY <1>7, <3>1
      <4> QED
        BY <4>1, <4>2
    <3>2. CASE Owner[s] # c
      <4>1. Given(k, Owner[s])' = Given(k, Owner[s])
        BY <1>7, <3>2
      <4> QED
        BY <4>1
    <3> QED
      BY <3>1, <3>2
  <2>2. ToSet(scheduled') = {s \in eligible : Round(eligible, s) < Given(k, Owner[s])'}
    BY <1>1, <2>1 DEF Taken
  <2> QED
    BY <1>1, <2>2 DEF Taken, Round, Ahead
<1>13. Rest(k)'
  <2>1. ASSUME NEW d \in Chats PROVE LeftOf(eligible, d, queues'[d], Given(k, d)')
    <3>1. CASE d # c
      <4>1. queues'[d] = queues[d] /\ Given(k, d)' = Given(k, d)
        BY <1>1, <1>7, <3>1
      <4> QED
        BY <4>1 DEF Rest
    <3>2. CASE d = c
      <4>1. queues'[d] = <<>> /\ Given(k, d)' = k + 1
        BY <1>1, <1>7, <3>2
      <4>2. \A s \in eligible : Owner[s] = c => ~(k + 1 <= Round(eligible, s))
        BY <1>8
      <4>3. \A i \in 1..Len(<<>>) : FALSE
        OBVIOUS
      <4> QED
        BY <3>2, <4>1, <4>2, <4>3 DEF LeftOf
    <3> QED
      BY <3>1, <3>2
  <2>2. eligible' = eligible
    BY <1>1
  <2> QED
    BY <2>1, <2>2 DEF Rest, LeftOf, Round, Ahead
<1> QED
  BY <1>9, <1>10, <1>11, <1>12, <1>13 DEF Looping

(* At the end of a round every subscriber with a row has given k + 1, or   *)
(* has none left: and if nothing was taken nobody has.                     *)
LEMMA LoopRounds ==
  ASSUME LoopShape, LoopCounts, LoopFair, NEW k \in Nat, Rest(k), Taken(k), EndRound
  PROVE  Looping'
<1>1. /\ ~done /\ turn > Len(order)
      /\ eligible' = eligible /\ order' = order /\ queues' = queues /\ scheduled' = scheduled
  BY DEF EndRound
<1>2. /\ eligible \in SUBSET Watches /\ order = Order(eligible)
      /\ Len(order) \in Nat /\ turn \in Nat \ {0}
      /\ \A r \in eligible : \E i \in 1..Len(order) : order[i] = Owner[r]
  BY OrderIs DEF LoopShape
<1>3. \A r \in eligible : Round(eligible, r) \in Nat /\ Owner[r] \in Chats
  BY <1>2, RoundsAre, FetchBudgetAssumption
<1>4. \A i \in 1..Len(order) : i < turn
  BY <1>1, <1>2
<1>5. \A r \in eligible : Given(k, Owner[r]) = k + 1
  <2> SUFFICES ASSUME NEW r \in eligible PROVE Had(Owner[r])
    BY DEF Given
  <2> QED
    BY <1>2, <1>4 DEF Had
<1>6. order' = Order(eligible')
  BY <1>1, <1>2
<1>7. CASE progressed
  <2>1. turn' = 1 /\ progressed' = FALSE /\ done' = FALSE
    BY <1>7 DEF EndRound
  <2>2. ASSUME NEW c PROVE ~Had(c)'
    BY <1>1, <1>2, <2>1 DEF Had
  <2>3. ASSUME NEW c PROVE Given(k + 1, c)' = k + 1
    BY <2>2 DEF Given
  <2>4. LoopShape'
    BY <1>1, <1>6, <2>1 DEF LoopShape, Order, InOrder, Owners, TurnBefore
  <2>5. LoopCounts'
    BY <1>1, <2>1 DEF LoopCounts
  <2>6. LoopFair'
    BY <1>1, <1>2, <2>1 DEF LoopFair
  <2>7. Taken(k + 1)'
    <3>1. ToSet(scheduled') = {r \in eligible : Round(eligible, r) < Given(k + 1, Owner[r])'}
      BY <1>1, <1>5, <2>3 DEF Taken
    <3> QED
      BY <1>1, <3>1 DEF Taken, Round, Ahead
  <2>8. Rest(k + 1)'
    <3>1. ASSUME NEW c \in Chats PROVE LeftOf(eligible, c, queues'[c], Given(k + 1, c)')
      <4>1. LeftOf(eligible, c, queues[c], Given(k, c))
        BY DEF Rest
      <4>2. CASE \E r \in eligible : Owner[r] = c
        <5>1. Given(k, c) = k + 1
          BY <1>5, <4>2
        <5> QED
          BY <1>1, <2>3, <4>1, <5>1
      <4>3. CASE ~\E r \in eligible : Owner[r] = c
        <5>1. LeftOf(eligible, c, queues[c], k + 1)
          BY <4>1, <4>3 DEF LeftOf
        <5> QED
          BY <1>1, <2>3, <5>1
      <4> QED
        BY <4>2, <4>3
    <3>2. eligible' = eligible
      BY <1>1
    <3> QED
      BY <3>1, <3>2 DEF Rest, LeftOf, Round, Ahead
  <2>9. k + 1 \in Nat
    OBVIOUS
  <2> QED
    BY <2>4, <2>5, <2>6, <2>7, <2>8, <2>9 DEF Looping
<1>8. CASE ~progressed
  <2>1. turn' = turn /\ progressed' = progressed /\ done' = TRUE
    BY <1>8 DEF EndRound
  <2>2. ASSUME NEW c PROVE Given(k, c)' = Given(k, c)
    BY <1>1, <2>1 DEF Given, Had
  <2>3. LoopShape'
    BY <1>1, <1>6, <2>1 DEF LoopShape, Order, InOrder, Owners, TurnBefore
  <2>4. ASSUME NEW r \in eligible PROVE Round(eligible, r) < Given(k, Owner[r])
    <3>1. PICK i \in 1..Len(order) : order[i] = Owner[r]
      BY <1>2
    <3>2. queues[Owner[r]] = <<>>
      BY <1>4, <1>8, <3>1 DEF LoopFair
    <3>3. LeftOf(eligible, Owner[r], <<>>, k + 1)
      BY <1>3, <1>5, <3>2 DEF Rest
    <3>4. \A n \in 1..Len(<<>>) : FALSE
      OBVIOUS
    <3>5. ~(k + 1 <= Round(eligible, r))
      BY <3>3, <3>4 DEF LeftOf
    <3> QED
      BY <1>3, <1>5, <3>5
  <2>5. ToSet(scheduled) = eligible
    BY <2>4 DEF Taken
  <2>6. LoopCounts'
    <3>1. Len(scheduled) \in Nat /\ Budget \in Nat
      BY ListIs, FetchBudgetAssumption DEF LoopShape
    <3> QED
      BY <1>1, <2>1, <2>5, <3>1 DEF LoopCounts
  <2>7. LoopFair'
    BY <1>1, <2>1 DEF LoopFair
  <2>8. Taken(k)'
    <3>1. ToSet(scheduled') = {r \in eligible : Round(eligible, r) < Given(k, Owner[r])'}
      BY <1>1, <2>2 DEF Taken
    <3> QED
      BY <1>1, <3>1 DEF Taken, Round, Ahead
  <2>9. Rest(k)'
    <3>1. \A c \in Chats : LeftOf(eligible, c, queues'[c], Given(k, c)')
      BY <1>1, <2>2 DEF Rest
    <3>2. eligible' = eligible
      BY <1>1
    <3> QED
      BY <3>1, <3>2 DEF Rest, LeftOf, Round, Ahead
  <2> QED
    BY <2>3, <2>6, <2>7, <2>8, <2>9 DEF Looping
<1> QED
  BY <1>7, <1>8

LEMMA LoopRuns == LoopInv /\ LoopNext => LoopInv'
<1> SUFFICES ASSUME LoopInv, LoopNext PROVE LoopInv'
  OBVIOUS
<1>1. Looping
  BY DEF LoopInv, Resting, LoopNext, Take, Pass, EndRound, InRound
<1>2. PICK k \in Nat : Rest(k) /\ Taken(k)
  BY <1>1 DEF Looping
<1>3. Looping'
  BY <1>1, <1>2, LoopTakes, LoopPasses, LoopRounds DEF Looping, LoopNext
<1> QED
  BY <1>3 DEF LoopInv

LEMMA LoopStays == LoopInv /\ UNCHANGED loopVars => LoopInv'
<1> SUFFICES ASSUME LoopInv, UNCHANGED loopVars PROVE LoopInv'
  OBVIOUS
<1>1. /\ eligible' = eligible /\ order' = order /\ queues' = queues /\ scheduled' = scheduled
      /\ turn' = turn /\ progressed' = progressed /\ done' = done
  BY DEF loopVars
<1>2. CASE Resting
  BY <1>1, <1>2 DEF Resting, LoopInv
<1>3. CASE Looping
  <2>1. PICK k \in Nat : Rest(k) /\ Taken(k)
    BY <1>3 DEF Looping
  <2>2. ASSUME NEW c PROVE Given(k, c)' = Given(k, c)
    BY <1>1 DEF Given, Had
  <2>3. Rest(k)'
    <3>1. \A c \in Chats : LeftOf(eligible, c, queues'[c], Given(k, c)')
      BY <1>1, <2>1, <2>2 DEF Rest
    <3> QED
      BY <1>1, <3>1 DEF Rest, LeftOf, Round, Ahead
  <2>4. Taken(k)'
    <3>1. ToSet(scheduled') = {r \in eligible : Round(eligible, r) < Given(k, Owner[r])'}
      BY <1>1, <2>1, <2>2 DEF Taken
    <3> QED
      BY <1>1, <3>1 DEF Taken, Round, Ahead
  <2>5. order' = Order(eligible')
    BY <1>1, <1>3 DEF Looping, LoopShape
  <2>6. LoopShape' /\ LoopCounts' /\ LoopFair'
    BY <1>1, <1>3, <2>5 DEF Looping, LoopShape, LoopCounts, LoopFair, Order, InOrder, Owners, TurnBefore
  <2> QED
    BY <2>3, <2>4, <2>6 DEF LoopInv, Looping
<1> QED
  BY <1>2, <1>3 DEF LoopInv

LEMMA LoopOnward == LoopInv /\ [TickNext]_allVars => LoopInv'
<1> SUFFICES ASSUME LoopInv, [TickNext]_allVars PROVE LoopInv'
  OBVIOUS
<1>1. CASE \E gap \in 1..MaxGap : NothingDue(gap)
  <2>1. UNCHANGED loopVars
    BY <1>1 DEF NothingDue
  <2> QED
    BY <2>1, LoopStays
<1>2. CASE \E gap \in 1..MaxGap, load \in SUBSET Watches : StartTick(gap, load)
  <2>1. PICK load \in SUBSET Watches : Begin(load)
    BY <1>2 DEF StartTick
  <2> QED
    BY <2>1, LoopBegins
<1>3. CASE Scheduling
  BY <1>3, LoopRuns DEF Scheduling
<1>4. CASE \E late \in BOOLEAN : EnterSession(late)
  BY <1>4 DEF EnterSession, Forget, LoopInv, Resting
<1>5. CASE TickStep /\ ~Scheduling /\ ~\E late \in BOOLEAN : EnterSession(late)
  <2>1. UNCHANGED loopVars
    BY <1>5 DEF TickStep, SessionOpens, SessionRaises, SessionLeft, SessionRefused, Record, Write,
                NotWritten, Alert
  <2> QED
    BY <2>1, LoopStays
<1>6. CASE Killed \/ ServerRestarts
  <2>1. UNCHANGED loopVars
    BY <1>6 DEF Killed, ServerRestarts
  <2> QED
    BY <2>1, LoopStays
<1>7. CASE UNCHANGED allVars
  <2>1. UNCHANGED loopVars
    BY <1>7 DEF allVars
  <2> QED
    BY <2>1, LoopStays
<1> QED
  BY <1>1, <1>2, <1>3, <1>4, <1>5, <1>6, <1>7 DEF TickNext

(* Of two rows of a subscriber one is of an earlier round.                 *)
LEMMA RoundsDiffer ==
  ASSUME NEW load \in SUBSET Watches, NEW q \in load, NEW r \in load,
         Owner[q] = Owner[r], Round(load, q) = Round(load, r)
  PROVE  q = r
<1> DEFINE mine == {s \in load : Owner[s] = Owner[q]}
           R == {w \in mine \X mine : Ahead(w[1], w[2])}
<1>1. mine \in SUBSET Watches /\ IsFiniteSet(mine) /\ q \in mine /\ r \in mine
  BY RowsFinite
<1>2. Orders(R, mine)
  BY <1>1, AheadOrders
<1>3. ASSUME NEW x \in mine PROVE PlaceOf(mine, R, x) = Round(load, x)
  <2>1. Preceding(mine, R, x) = {s \in load : Owner[s] = Owner[x] /\ Ahead(s, x)}
    BY <1>3 DEF Preceding
  <2> QED
    BY <2>1 DEF PlaceOf, Round
<1> HIDE DEF mine, R
<1>4. \A x, y \in mine : PlaceOf(mine, R, x) = PlaceOf(mine, R, y) => x = y
  BY <1>1, <1>2, PlacesAre
<1> QED
  BY <1>1, <1>3, <1>4

(* The rows that were taken are all those that come before one of them.    *)
LEMMA LoopSelects == LoopInv => SelectsScheduled
<1> SUFFICES ASSUME LoopInv, done PROVE ToSet(scheduled) = Scheduled(eligible)
  BY DEF SelectsScheduled
<1>1. CASE Resting
  BY <1>1 DEF Resting, Scheduled, ToSet
<1>2. CASE Looping
  <2> DEFINE T == ToSet(scheduled)
             Before(r) == {q \in eligible : TakenBefore(eligible, q, r)}
  <2>1. PICK k \in Nat : Taken(k)
    BY <1>2 DEF Looping
  <2>2. /\ eligible \in SUBSET Watches /\ order = Order(eligible)
        /\ Len(order) \in Nat /\ turn \in Nat \ {0}
        /\ \A r \in eligible : \E i \in 1..Len(order) : order[i] = Owner[r]
        /\ \A i, j \in 1..Len(order) : TurnBefore(eligible, order[i], order[j]) <=> i < j
    BY <1>2, OrderIs DEF Looping, LoopShape
  <2>3. \A r \in eligible : Round(eligible, r) \in Nat
    BY <2>2, RoundsAre
  <2>4. T = {r \in eligible : Round(eligible, r) < Given(k, Owner[r])}
    BY <2>1 DEF Taken
  <2>5. ASSUME NEW q \in eligible, NEW r \in eligible, TakenBefore(eligible, q, r), r \in T
        PROVE  q \in T
    <3>1. Round(eligible, q) \in Nat /\ Round(eligible, r) \in Nat
      BY <2>3
    <3>2. Round(eligible, r) < Given(k, Owner[r])
      BY <2>4, <2>5
    <3>3. CASE Round(eligible, q) < Round(eligible, r)
      <4>1. Given(k, Owner[r]) <= k + 1 /\ Given(k, Owner[q]) >= k
        BY DEF Given
      <4>2. Given(k, Owner[r]) \in Nat /\ Given(k, Owner[q]) \in Nat
        BY DEF Given
      <4>3. Round(eligible, q) < Given(k, Owner[q])
        BY <3>1, <3>2, <3>3, <4>1, <4>2
      <4> QED
        BY <2>4, <4>3
    <3>4. CASE Round(eligible, q) = Round(eligible, r) /\ TurnBefore(eligible, Owner[q], Owner[r])
      <4>1. PICK i \in 1..Len(order) : order[i] = Owner[q]
        BY <2>2
      <4>2. ASSUME NEW j \in 1..Len(order), j < turn, order[j] = Owner[r] PROVE i < turn
        <5>1. i < j
          BY <2>2, <3>4, <4>1, <4>2
        <5> QED
          BY <2>2, <4>2, <5>1
      <4>3. Had(Owner[r]) => Had(Owner[q])
        BY <4>1, <4>2 DEF Had
      <4>4. Given(k, Owner[q]) \in Nat /\ Given(k, Owner[r]) \in Nat
            /\ Given(k, Owner[r]) <= Given(k, Owner[q])
        BY <4>3 DEF Given
      <4>5. Round(eligible, q) < Given(k, Owner[q])
        BY <3>1, <3>2, <3>4, <4>4
      <4> QED
        BY <2>4, <4>5
    <3> QED
      BY <2>5, <3>3, <3>4 DEF TakenBefore
  <2>6. ASSUME NEW q \in eligible, NEW r \in eligible, ~TakenBefore(eligible, q, r)
        PROVE  q = r \/ TakenBefore(eligible, r, q)
    <3>1. Round(eligible, q) \in Nat /\ Round(eligible, r) \in Nat
      BY <2>3
    <3>2. CASE Round(eligible, q) # Round(eligible, r)
      BY <2>6, <3>1, <3>2 DEF TakenBefore
    <3>3. CASE Round(eligible, q) = Round(eligible, r)
      <4>1. PICK i \in 1..Len(order) : order[i] = Owner[q]
        BY <2>2
      <4>2. PICK j \in 1..Len(order) : order[j] = Owner[r]
        BY <2>2
      <4>3. ~(i < j)
        BY <2>2, <2>6, <3>3, <4>1, <4>2 DEF TakenBefore
      <4>4. j < i \/ i = j
        BY <4>3
      <4>5. CASE j < i
        <5>1. TurnBefore(eligible, Owner[r], Owner[q])
          BY <2>2, <4>1, <4>2, <4>5
        <5> QED
          BY <3>3, <5>1 DEF TakenBefore
      <4>6. CASE i = j
        <5>1. Owner[q] = Owner[r]
          BY <4>1, <4>2, <4>6
        <5> QED
          BY <2>2, <3>3, <5>1, RoundsDiffer
      <4> QED
        BY <4>4, <4>5, <4>6
    <3> QED
      BY <3>2, <3>3
  <2>7. ASSUME NEW r \in eligible PROVE ~TakenBefore(eligible, r, r)
    <3>1. PICK i \in 1..Len(order) : order[i] = Owner[r]
      BY <2>2
    <3>2. ~TurnBefore(eligible, Owner[r], Owner[r])
      BY <2>2, <3>1
    <3> QED
      BY <2>3, <3>2 DEF TakenBefore
  <2>8. /\ Len(scheduled) = Cardinality(T) /\ Budget \in Nat
        /\ \/ Len(scheduled) = Budget
           \/ T = eligible /\ Len(scheduled) <= Budget
    BY <1>2, FetchBudgetAssumption DEF Looping, LoopCounts
  <2>9. T \in SUBSET eligible /\ \A r \in eligible : Before(r) \in SUBSET eligible
    BY <2>4
  <2> HIDE DEF T
  <2>10. \A some \in SUBSET eligible : IsFiniteSet(some) /\ Cardinality(some) \in Nat
    BY <2>2, RowsFinite
  <2>11. ASSUME NEW r \in eligible, r \in T PROVE Cardinality(Before(r)) < Budget
    <3>1. Before(r) \in SUBSET (T \ {r})
      BY <2>5, <2>7, <2>11
    <3>2. IsFiniteSet(T) /\ IsFiniteSet(T \ {r}) /\ Cardinality(T \ {r}) = Cardinality(T) - 1
      BY <2>9, <2>10, <2>11, FS_RemoveElement
    <3> HIDE DEF Before
    <3>3. Cardinality(Before(r)) <= Cardinality(T) - 1
      BY <3>1, <3>2, FS_Subset
    <3>4. Cardinality(Before(r)) \in Nat /\ Cardinality(T) \in Nat
      BY <2>9, <2>10
    <3> QED
      BY <2>8, <3>3, <3>4
  <2>12. ASSUME NEW r \in eligible, r \notin T PROVE ~(Cardinality(Before(r)) < Budget)
    <3>1. T \in SUBSET Before(r)
      BY <2>5, <2>6, <2>9, <2>12
    <3>2. IsFiniteSet(Before(r)) /\ Cardinality(Before(r)) \in Nat /\ Cardinality(T) \in Nat
      BY <2>9, <2>10
    <3> HIDE DEF Before
    <3>3. Cardinality(T) <= Cardinality(Before(r))
      BY <3>1, <3>2, FS_Subset
    <3> QED
      BY <2>8, <2>12, <3>2, <3>3
  <2>13. \A r \in eligible : r \in T <=> Cardinality(Before(r)) < Budget
    BY <2>11, <2>12
  <2>14. T = {r \in eligible : Cardinality(Before(r)) < Budget}
    BY <2>9, <2>13
  <2> QED
    BY <2>14 DEF T, Scheduled
<1> QED
  BY <1>1, <1>2 DEF LoopInv

(* Whatever is due, for any number of subscribers and any budget: the loop *)
(* that pops the queues in turn ends with exactly the rows of the closed   *)
(* form: those of the first rounds, and of the last one those whose turn   *)
(* comes first, up to the budget and no further (schedule).                *)
THEOREM LoopSelectsScheduled == TickSpec => []SelectsScheduled
<1>1. TickInit => LoopInv
  BY DEF TickInit, LoopInit, LoopInv, Resting
<1> QED
  BY <1>1, LoopOnward, LoopSelects, PTL DEF TickSpec

---------------------------------------------------------------------------
(* What the auditor makes of what the dispatcher wrote down: theorems of   *)
(* DispatchAudit, which shares nothing with EngineTick but this module.    *)

(* Arithmetic of bars. *)
LEMMA Times ==
  ASSUME NEW a \in Int, NEW b \in Int, NEW p \in Nat
  PROVE  a <= b => a * p <= b * p
  BY SMT

LEMMA FloorIs ==
  ASSUME NEW t \in Int, NEW p \in Nat \ {0}
  PROVE  /\ Floor(t, p) \in Int
         /\ Floor(t, p) <= t /\ t < Floor(t, p) + p
         /\ t % p = t - Floor(t, p)
         /\ \E k \in Int : Floor(t, p) = k * p
         /\ \A k \in Int : k * p <= t => k * p <= Floor(t, p)
<1> DEFINE q == t \div p
           m == t % p
<1>1. q \in Int /\ m \in 0..(p - 1) /\ t = p * q + m
  BY SMT
<1>2. Floor(t, p) = q * p
  BY DEF Floor
<1> DEFINE f == q * p
<1>3. f \in Int /\ f = p * q
  BY <1>1
<1>4. m \in Int /\ 0 <= m /\ m < p
  BY <1>1
<1>5. f <= t /\ t < f + p /\ m = t - f
  <2> HIDE DEF f, m, q
  <2> QED
    BY <1>1, <1>3, <1>4
<1>6. ASSUME NEW k \in Int, k * p <= t PROVE k * p <= f
  <2> HIDE DEF m, q
  <2>1. CASE k <= q
    BY <1>1, <2>1, Times
  <2>2. CASE q + 1 <= k
    <3>1. (q + 1) * p <= k * p
      BY <1>1, <2>2, Times
    <3>2. (q + 1) * p = q * p + p
      BY <1>1
    <3>3. k * p \in Int
      OBVIOUS
    <3> HIDE DEF f
    <3>4. (q + 1) * p = f + p
      BY <3>2 DEF f
    <3> QED
      BY <1>3, <1>5, <1>6, <3>1, <3>3, <3>4
  <2> QED
    BY <1>1, <2>1, <2>2
<1> QED
  BY <1>1, <1>2, <1>3, <1>5, <1>6

LEMMA Greatest ==
  ASSUME NEW S, NEW bound \in Int, S # {}, \A x \in S : x \in Int /\ x <= bound
  PROVE  Max(S) \in S /\ \A x \in S : x <= Max(S)
<1> DEFINE D == {bound - x : x \in S}
<1>1. D \in SUBSET Nat /\ D # {}
  OBVIOUS
<1>2. PICK d \in D : \A y \in D : d <= y
  <2> HIDE DEF D
  <2> QED
    BY <1>1, Smallest
<1>3. PICK m \in S : d = bound - m
  OBVIOUS
<1>4. ASSUME NEW x \in S PROVE m >= x
  <2>1. bound - m <= bound - x
    BY <1>2, <1>3
  <2>2. x \in Int /\ m \in Int
    OBVIOUS
  <2> QED
    BY <2>1, <2>2
<1>5. \E x \in S : \A y \in S : x >= y
  BY <1>4
<1>6. Max(S) \in S /\ \A y \in S : Max(S) >= y
  BY <1>5 DEF Max
<1> QED
  BY <1>6

LEMMA MaxOfTwo ==
  ASSUME NEW a \in Int, NEW b \in Int
  PROVE  LET m == Max({a, b}) IN m \in {a, b} /\ m >= a /\ m >= b
<1>1. CASE a <= b
  <2>1. \A x \in {a, b} : x <= b
    BY <1>1
  <2> QED
    BY <2>1, Greatest
<1>2. CASE b <= a
  <2>1. \A x \in {a, b} : x <= a
    BY <1>2
  <2> QED
    BY <2>1, Greatest
<1> QED
  BY <1>1, <1>2

LEMMA AuditConstants ==
  /\ Tick \in Nat /\ Tick > 0 /\ Hour \in Nat \ {0} /\ MaxAttempts \in Nat
  /\ RealignBars \in Nat /\ Retention \in Nat /\ Start \in Nat /\ Tick <= Retention
  /\ \A r \in Rows : Period[r] \in Nat \ {0}
  /\ \A c \in Settings, r \in Rows : Shift[c][r] \in Nat /\ Shift[c][r] <= Start
  /\ \A e \in Execs : e \in Nat
BY DispatchAuditAssumption

(* Hours. *)
LEMMA Hours ==
  ASSUME NEW t \in Int, NEW u \in Int, t <= u
  PROVE  /\ HourOf(t) \in Int /\ HourOf(t) <= t /\ t < HourOf(t) + Hour
         /\ \E k \in Int : HourOf(t) = k * Hour
         /\ HourOf(t) <= HourOf(u)
         /\ HourOf(u) <= t => HourOf(u) = HourOf(t)
<1>1. Hour \in Nat \ {0}
  BY AuditConstants
<1>2. PICK k \in Int : HourOf(t) = k * Hour
  BY <1>1, FloorIs DEF HourOf
<1>3. PICK m \in Int : HourOf(u) = m * Hour
  BY <1>1, FloorIs DEF HourOf
<1>4. /\ HourOf(t) \in Int /\ HourOf(t) <= t /\ t < HourOf(t) + Hour
      /\ HourOf(u) \in Int
  BY <1>1, FloorIs DEF HourOf
<1>5. HourOf(t) <= HourOf(u)
  BY <1>1, <1>2, <1>4, FloorIs DEF HourOf
<1>6. HourOf(u) <= t => HourOf(u) <= HourOf(t)
  BY <1>1, <1>3, <1>4, FloorIs DEF HourOf
<1> QED
  BY <1>2, <1>4, <1>5, <1>6

(* How long the record bears the marks of the old settings, from the bar   *)
(* that follows a change of them.                                          *)
Wide(r) == (RealignBars - 1) * Period[r] + Max({Period[r], Hour})

LEMMA WideIs ==
  ASSUME NEW r \in Rows
  PROVE  /\ Wide(r) \in Int /\ RealignBars * Period[r] \in Int
         /\ RealignBars * Period[r] <= Wide(r)
         /\ RealignBars * Period[r] + Max({Period[r], Hour}) = Period[r] + Wide(r)
<1> DEFINE p == Period[r]
           longer == Max({p, Hour})
           some == (RealignBars - 1) * p
           all == RealignBars * p
<1>1. p \in Nat /\ Hour \in Nat /\ RealignBars \in Nat
  BY AuditConstants
<1>2. longer \in Int /\ longer >= p
  <2> HIDE DEF p
  <2> QED
    BY <1>1, MaxOfTwo
<1>3. some \in Int /\ all \in Int /\ all = some + p
  <2> HIDE DEF p
  <2> QED
    BY <1>1
<1>4. Wide(r) = some + longer
  BY DEF Wide
<1> HIDE DEF p, longer, some, all
<1>5. Wide(r) \in Int /\ all <= Wide(r) /\ all + longer = p + Wide(r)
  BY <1>1, <1>2, <1>3, <1>4
<1> QED
  BY <1>3, <1>5 DEF all, longer, p

(* The shape of the state, as far as the two properties rest on it. *)
Records ==
  [bucket : Int, due : Int, first : Nat, n : Nat \ {0},
   disposition : Dispositions, fired : Int]
Doing == [acted : BOOLEAN, served : Nat]
AuditShape ==
  /\ now \in Nat /\ setting \in Settings
  /\ ledger \in [Rows -> SUBSET Records]
  /\ \A r \in Rows : IsFiniteSet(ledger[r])
  /\ account # None => \E due0 \in SUBSET Rows : account \in Accounts(due0)
  /\ did \in [Rows -> Doing]
  /\ settled \in [Rows -> Int]

(* No event is of a bar to come; something was done in the bar of an event *)
(* of this hour; a shift that is not the present one is of long ago.       *)
BookInv ==
  \A r \in Rows :
    /\ \A e \in ledger[r] :
         /\ e.bucket <= now /\ e.due <= now
         /\ e.bucket = Bar => did[r].acted
         /\ e.due - e.bucket # Shift[setting][r] => e.bucket + Wide(r) < settled[r]
    /\ account # None /\ r \in DOMAIN account /\ Target(r, now) = Bar => did[r].acted

(* The services of the bar are on record, all but the one in the account.  *)
Owing(r) ==
  /\ account # None /\ r \in DOMAIN account
  /\ account[r].disposition \in Stamping
  /\ Target(r, now) = Bar
Recorded(r, k) ==
  /\ k >= 1 => Served(r, Bar) # {}
  /\ k >= 2 => \/ \E e \in Served(r, Bar) : e.n > 1
               \/ \E e, o \in Served(r, Bar) : e # o
TwiceInv ==
  "lost" \notin seen =>
    \A r \in Rows : Recorded(r, did[r].served - (IF Owing(r) THEN 1 ELSE 0))

AuditInv == AuditShape /\ BookInv /\ TwiceInv

LEMMA TargetIs ==
  ASSUME NEW r \in Rows, NEW t \in Int, setting \in Settings
  PROVE  /\ Target(r, t) \in Int /\ Target(r, t) <= t
         /\ DueInstant(r, t) \in Int /\ DueInstant(r, t) <= t
         /\ DueInstant(r, t) - Target(r, t) = Shift[setting][r]
<1>1. Shift[setting][r] \in Nat /\ Period[r] \in Nat \ {0}
  BY AuditConstants
<1>2. t - Shift[setting][r] \in Int
  BY <1>1
<1>3. Target(r, t) \in Int /\ Target(r, t) <= t - Shift[setting][r]
  BY <1>1, <1>2, FloorIs DEF Target
<1> QED
  BY <1>1, <1>3 DEF DueInstant

LEMMA AuditBegins ==
  ASSUME Init
  PROVE  AuditInv
<1>1. AuditShape
  <2>1. ledger = [r \in Rows |-> {}] /\ did = [r \in Rows |-> [acted |-> FALSE, served |-> 0]]
    BY DEF Init, Nothing
  <2>2. \A r \in Rows : ledger[r] = {}
    BY <2>1
  <2>3. \A r \in Rows : IsFiniteSet(ledger[r])
    BY <2>2, FS_EmptySet
  <2>4. now \in Nat /\ settled = [r \in Rows |-> 0]
    BY AuditConstants DEF Init
  <2>5. settled \in [Rows -> Int]
    BY <2>4
  <2>6. account = None /\ setting \in Settings
    BY DEF Init
  <2> QED
    BY <2>1, <2>3, <2>4, <2>5, <2>6 DEF AuditShape, Doing
<1>2. BookInv /\ TwiceInv
  BY DEF Init, Nothing, BookInv, TwiceInv, Recorded, Owing
<1> QED
  BY <1>1, <1>2 DEF AuditInv

(* A tick, as far as the books go: time goes on, and what is to be said of *)
(* the rows that were due is in the account and in what was done.          *)
Ticked(rowsDue) ==
  /\ account = None /\ now' = now + Tick /\ UNCHANGED <<setting, ledger, settled>>
  /\ seen \subseteq seen' /\ rowsDue \subseteq Rows
  /\ \/ account' = None /\ rowsDue = {}
     \/ account' # None /\ account' \in Accounts(rowsDue)
  /\ did' = [r \in Rows |->
       IF r \in rowsDue THEN Note(Kept(r, now + Tick), r, account'[r].disposition,
                                       now + Tick, HourOf(now + Tick))
       ELSE Kept(r, now + Tick)]

LEMMA KeptIs ==
  ASSUME AuditShape, NEW r \in Rows, NEW t
  PROVE  Kept(r, t) \in Doing
BY DEF AuditShape, Kept, Nothing, Doing

LEMMA NoteIs ==
  ASSUME NEW d \in Doing, NEW r, NEW fate, NEW t, NEW b
  PROVE  /\ Note(d, r, fate, t, b) \in Doing
         /\ Target(r, t) # b => Note(d, r, fate, t, b) = d
         /\ Target(r, t) = b =>
              /\ Note(d, r, fate, t, b).acted
              /\ Note(d, r, fate, t, b).served =
                   d.served + (IF fate \in Stamping THEN 1 ELSE 0)
BY DEF Note, Doing

LEMMA TickedKeeps ==
  ASSUME AuditInv, NEW S, Ticked(S)
  PROVE  AuditInv'
<1> DEFINE t == now + Tick
<1>1. /\ now \in Nat /\ t \in Nat /\ now < t /\ now' = t /\ setting \in Settings
      /\ setting' = setting /\ ledger' = ledger
  BY AuditConstants DEF Ticked, AuditInv, AuditShape
<1>2. /\ Bar \in Int /\ Bar = HourOf(now) /\ Bar' = HourOf(t)
      /\ \A b \in Int : b <= now /\ b = HourOf(t) => b = Bar
      /\ HourOf(t) \in Int
  <2>1. Bar' = HourOf(t)
    BY <1>1 DEF Bar, HourOf, Floor
  <2>2. now \in Int /\ t \in Int /\ now <= t
    BY <1>1
  <2> HIDE DEF t
  <2> QED
    BY <2>1, <2>2, Hours DEF Bar
<1>3. \A r \in Rows : Target(r, now)' = Target(r, t)
  BY <1>1 DEF Target, Floor
<1>4. did' \in [Rows -> Doing]
  BY KeptIs, NoteIs DEF Ticked, AuditInv
<1>5. ASSUME NEW r \in Rows
      PROVE  /\ r \in S /\ Target(r, t) = HourOf(t) =>
                  /\ did'[r].acted
                  /\ did'[r].served = Kept(r, t).served
                       + (IF account'[r].disposition \in Stamping THEN 1 ELSE 0)
             /\ ~(r \in S /\ Target(r, t) = HourOf(t)) => did'[r] = Kept(r, t)
  <2>1. did'[r] = IF r \in S THEN Note(Kept(r, t), r, account'[r].disposition,
                                           t, HourOf(t))
                  ELSE Kept(r, t)
    BY DEF Ticked
  <2>2. Kept(r, t) \in Doing
    BY KeptIs DEF AuditInv
  <2> HIDE DEF t
  <2> QED
    BY <2>1, <2>2, NoteIs
<1>6. account' # None => account' \in Accounts(S) /\ DOMAIN account' = S /\ S \in SUBSET Rows
  BY DEF Ticked, Accounts
<1>7. AuditShape'
  BY <1>1, <1>4, <1>6 DEF AuditInv, AuditShape, Ticked
<1>8. BookInv'
  <2> SUFFICES ASSUME NEW r \in Rows
               PROVE  /\ \A e \in ledger[r] :
                           /\ e.bucket <= t /\ e.due <= t
                           /\ e.bucket = HourOf(t) => did'[r].acted
                           /\ e.due - e.bucket # Shift[setting][r]
                                => e.bucket + Wide(r) < settled[r]
                      /\ account' # None /\ r \in DOMAIN account'
                         /\ Target(r, t) = HourOf(t) => did'[r].acted
    BY <1>1, <1>2, <1>3 DEF BookInv, Ticked
  <2>1. account' # None /\ r \in DOMAIN account'
         /\ Target(r, t) = HourOf(t) => did'[r].acted
    BY <1>5, <1>6
  <2>2. ASSUME NEW e \in ledger[r]
        PROVE  /\ e.bucket <= t /\ e.due <= t
               /\ e.bucket = HourOf(t) => did'[r].acted
               /\ e.due - e.bucket # Shift[setting][r]
                    => e.bucket + Wide(r) < settled[r]
    <3>1. /\ e.bucket \in Int /\ e.bucket <= now /\ e.due \in Int /\ e.due <= now
          /\ e.bucket = Bar => did[r].acted
          /\ e.due - e.bucket # Shift[setting][r]
                    => e.bucket + Wide(r) < settled[r]
      BY DEF AuditInv, AuditShape, BookInv, Records
    <3>2. e.bucket <= t /\ e.due <= t
      BY <1>1, <3>1
    <3>3. e.bucket = HourOf(t) => did[r].acted /\ Kept(r, t) = did[r]
      BY <1>2, <3>1 DEF Kept
    <3> QED
      BY <1>5, <3>1, <3>2, <3>3
  <2> QED
    BY <2>1, <2>2
<1>9. TwiceInv'
  <2> SUFFICES ASSUME "lost" \notin seen', NEW r \in Rows
               PROVE  Recorded(r, did[r].served - (IF Owing(r) THEN 1 ELSE 0))'
    BY DEF TwiceInv
  <2>1. Recorded(r, did[r].served)
    <3>1. "lost" \notin seen /\ ~Owing(r)
      BY DEF Ticked, Owing
    <3>2. did[r].served \in Nat /\ did[r].served - 0 = did[r].served
      BY DEF AuditInv, AuditShape, Doing
    <3>3. Recorded(r, did[r].served - (IF Owing(r) THEN 1 ELSE 0))
      BY <3>1 DEF AuditInv, TwiceInv
    <3> QED
      BY <3>1, <3>2, <3>3
  <2>2. Owing(r)' <=> /\ r \in S /\ account' # None
                      /\ account'[r].disposition \in Stamping
                      /\ Target(r, t) = HourOf(t)
    BY <1>2, <1>3, <1>6 DEF Owing
  <2>3. r \in S => account' # None
    BY DEF Ticked
  <2>4. did'[r].served - (IF Owing(r)' THEN 1 ELSE 0) = Kept(r, t).served
    <3>1. Kept(r, t).served \in Nat
      BY KeptIs DEF AuditInv, Doing
    <3> QED
      BY <1>5, <2>2, <2>3, <3>1
  <2>5. CASE HourOf(t) = Bar
    <3>1. Kept(r, t) = did[r]
      BY <2>5 DEF Kept
    <3>2. Served(r, Bar)' = Served(r, Bar)
      BY <1>1, <1>2, <2>5 DEF Served, At
    <3> QED
      BY <2>1, <2>4, <3>1, <3>2 DEF Recorded
  <2>6. CASE HourOf(t) # Bar
    <3>1. Kept(r, t).served = 0
      BY <2>6 DEF Kept, Nothing
    <3> QED
      BY <2>4, <3>1 DEF Recorded
  <2> QED
    BY <2>5, <2>6
<1> QED
  BY <1>7, <1>8, <1>9 DEF AuditInv

LEMMA FatesAre ==
  ASSUME AuditShape, RunCycle
  PROVE  \E S \in SUBSET Rows : Ticked(S)
<1> DEFINE t == now + Tick
           S == {r \in Rows : IsDue(r, t)}
<1>0. PICK odd \in Rows : \E fate \in Fates(odd), exec \in Execs :
        LET fates == [r \in S |-> IF r = odd THEN fate ELSE Ordinary(r)]
            stamp == [r \in S |-> t + IF r = odd THEN exec ELSE Min(Execs)]
        IN  /\ account' = [r \in S |->
                 [disposition |-> fates[r],
                  fired |-> IF fates[r] \in Stamping THEN stamp[r] ELSE Never]]
            /\ did' = [r \in Rows |->
                 IF r \in S THEN Note(Kept(r, t), r, fates[r], t, HourOf(t))
                 ELSE Kept(r, t)]
            /\ seen' = IF \E r \in S : fates[r] \in Stamping
                                       /\ Target(r, stamp[r]) # Target(r, t)
                       THEN seen \cup {"crossed"} ELSE seen
  BY DEF RunCycle
<1>1. PICK fate \in Fates(odd), exec \in Execs :
        LET fates == [r \in S |-> IF r = odd THEN fate ELSE Ordinary(r)]
            stamp == [r \in S |-> t + IF r = odd THEN exec ELSE Min(Execs)]
        IN  /\ account' = [r \in S |->
                 [disposition |-> fates[r],
                  fired |-> IF fates[r] \in Stamping THEN stamp[r] ELSE Never]]
            /\ did' = [r \in Rows |->
                 IF r \in S THEN Note(Kept(r, t), r, fates[r], t, HourOf(t))
                 ELSE Kept(r, t)]
            /\ seen' = IF \E r \in S : fates[r] \in Stamping
                                       /\ Target(r, stamp[r]) # Target(r, t)
                       THEN seen \cup {"crossed"} ELSE seen
  BY <1>0
<1> DEFINE fates == [r \in S |-> IF r = odd THEN fate ELSE Ordinary(r)]
           stamp == [r \in S |-> t + IF r = odd THEN exec ELSE Min(Execs)]
<1>2. /\ account' = [r \in S |->
           [disposition |-> fates[r],
            fired |-> IF fates[r] \in Stamping THEN stamp[r] ELSE Never]]
      /\ did' = [r \in Rows |->
           IF r \in S THEN Note(Kept(r, t), r, fates[r], t, HourOf(t))
           ELSE Kept(r, t)]
      /\ seen \subseteq seen'
  BY <1>1
<1>3. /\ account = None /\ now' = t /\ UNCHANGED <<setting, ledger, settled>>
  BY DEF RunCycle
<1>4. \A r \in Rows : Ordinary(r) \in Dispositions
  BY DEF Ordinary, Dispositions, Stamping
<1>5. fate \in Dispositions
  BY <1>4 DEF Fates, Failed, Dispositions, Stamping
<1>6. exec \in Nat /\ Min(Execs) \in Nat
  <2>1. Execs \in SUBSET Nat /\ Execs # {} /\ exec \in Nat
    BY AuditConstants
  <2>2. \E x \in Execs : \A y \in Execs : x <= y
    BY <2>1, Smallest
  <2>3. Min(Execs) \in Execs
    BY <2>2 DEF Min
  <2> QED
    BY <2>1, <2>3
<1>7. t \in Int
  BY AuditConstants DEF AuditShape
<1>8. \A r \in S : fates[r] \in Dispositions /\ stamp[r] \in Int
  BY <1>4, <1>5, <1>6, <1>7
<1>9. account' \in Accounts(S) /\ \A r \in S : account'[r].disposition = fates[r]
  <2> HIDE DEF fates, stamp, S, t
  <2>1. Never \in Int
    BY DEF Never
  <2>2. ASSUME NEW r \in S
        PROVE  [disposition |-> fates[r],
                fired |-> IF fates[r] \in Stamping THEN stamp[r] ELSE Never]
                 \in [disposition : Dispositions, fired : Int]
    BY <1>8, <2>1
  <2> QED
    BY <1>2, <2>2 DEF Accounts
<1>10. account' # None
  BY <1>9, NoneAssumption
<1>11. did' = [r \in Rows |->
           IF r \in S THEN Note(Kept(r, t), r, account'[r].disposition, t, HourOf(t))
           ELSE Kept(r, t)]
  <2> HIDE DEF fates, stamp, S, t
  <2> QED
    BY <1>2, <1>9
<1>12. Ticked(S)
  <2> HIDE DEF fates, stamp
  <2> QED
    BY <1>2, <1>3, <1>9, <1>10, <1>11 DEF Ticked
<1> QED
  BY <1>12

LEMMA ErrsAre ==
  ASSUME AuditShape, CycleErrs
  PROVE  \E S \in SUBSET Rows : Ticked(S)
<1> DEFINE t == now + Tick
           S == {r \in Rows : IsDue(r, t)}
           fate(r) == IF r \in walled THEN "skipped_exhausted" ELSE "errored"
<1>1. /\ account = None /\ now' = t /\ UNCHANGED <<setting, ledger, settled, seen>>
      /\ account' = [r \in S |-> [disposition |-> fate(r), fired |-> Never]]
      /\ did' = [r \in Rows |->
           IF r \in S THEN Note(Kept(r, t), r, "errored", t, HourOf(t))
           ELSE Kept(r, t)]
  BY DEF CycleErrs
<1>2. \A r : fate(r) \in Dispositions /\ fate(r) \notin Stamping
  BY DEF Dispositions, Stamping
<1>3. \A r, d, b : Note(d, r, fate(r), t, b) = Note(d, r, "errored", t, b)
  BY DEF Note, Stamping
<1> HIDE DEF fate, S, t
<1>4. account' \in Accounts(S) /\ \A r \in S : account'[r].disposition = fate(r)
  BY <1>1, <1>2 DEF Accounts, Never
<1>5. account' # None
  BY <1>4, NoneAssumption DEF S
<1>6. did' = [r \in Rows |->
           IF r \in S THEN Note(Kept(r, t), r, account'[r].disposition, t, HourOf(t))
           ELSE Kept(r, t)]
  BY <1>1, <1>3, <1>4
<1>7. S \in SUBSET Rows
  BY DEF S
<1>8. Ticked(S)
  BY <1>1, <1>4, <1>5, <1>6, <1>7 DEF Ticked, t
<1> QED
  BY <1>7, <1>8

LEMMA DarkIs ==
  ASSUME Dark
  PROVE  Ticked({})
BY DEF Dark, dispatcher, Ticked

(* The flush. *)
LEMMA UpsertIs ==
  ASSUME NEW events \in SUBSET Records, IsFiniteSet(events), NEW e \in Records, e.n = 1
  PROVE  /\ Upsert(events, e) \in SUBSET Records
         /\ IsFiniteSet(Upsert(events, e))
         /\ \A x \in Upsert(events, e) :
              \/ x \in events \/ x = e
              \/ \E o \in events : /\ x.bucket = o.bucket /\ x.due = o.due
                                   /\ x.disposition = o.disposition
                                   /\ o.bucket = e.bucket /\ o.disposition = e.disposition
         /\ \A o \in events :
              o.bucket # e.bucket \/ o.disposition # e.disposition => o \in Upsert(events, e)
         /\ \/ /\ e \in Upsert(events, e)
               /\ \A o \in events : o.bucket # e.bucket \/ o.disposition # e.disposition
            \/ \E x \in Upsert(events, e) :
                 x.bucket = e.bucket /\ x.disposition = e.disposition /\ x.n > 1
<1> DEFINE same == {o \in events : o.bucket = e.bucket /\ o.disposition = e.disposition}
           up(o) == [o EXCEPT !.n = @ + 1, !.fired = IF e.fired = Never THEN @ ELSE e.fired]
           more == {up(o) : o \in same}
<1>1. Upsert(events, e) = IF same = {} THEN events \cup {e} ELSE (events \ same) \cup more
  BY DEF Upsert
<1>2. ASSUME NEW o \in events
      PROVE  /\ up(o) \in Records /\ up(o).bucket = o.bucket /\ up(o).due = o.due
             /\ up(o).disposition = o.disposition /\ up(o).n > 1
  <2> DEFINE fired == IF e.fired = Never THEN o.fired ELSE e.fired
  <2>1. o \in Records /\ o.n \in Nat \ {0} /\ o.n + 1 \in Nat \ {0} /\ o.n + 1 > 1
    BY DEF Records
  <2>2. fired \in Int
    BY DEF Records
  <2>3. up(o) = [o EXCEPT !.n = o.n + 1, !.fired = fired]
    BY <2>1 DEF Records
  <2> HIDE DEF up, fired
  <2> QED
    BY <2>1, <2>2, <2>3 DEF Records
<1>3. CASE same = {}
  <2>1. IsFiniteSet(events \cup {e})
    BY FS_AddElement
  <2> QED
    BY <1>1, <1>3, <2>1
<1>4. CASE same # {}
  <2>1. IsFiniteSet(same) /\ IsFiniteSet(events \ same)
    BY FS_Subset
  <2>2. IsFiniteSet(more)
    <3> DEFINE f == [o \in same |-> up(o)]
    <3> HIDE DEF up, same
    <3>1. f \in Surjection(same, more)
      BY DEF Surjection
    <3> HIDE DEF f, more
    <3> QED
      BY <2>1, <3>1, FS_Surjection
  <2>3. IsFiniteSet((events \ same) \cup more)
    BY <2>1, <2>2, FS_Union
  <2> HIDE DEF up
  <2>4. PICK o \in same : TRUE
    BY <1>4
  <2>5. up(o) \in more /\ up(o).bucket = e.bucket /\ up(o).disposition = e.disposition /\ up(o).n > 1
    BY <1>2
  <2> QED
    BY <1>1, <1>2, <1>4, <2>3, <2>5
<1> QED
  BY <1>3, <1>4

LEMMA EventIs ==
  ASSUME AuditShape, NEW r \in Rows, account # None, r \in DOMAIN account
  PROVE  /\ Event(r) \in Records /\ Event(r).n = 1
         /\ Event(r).bucket = Target(r, now)
         /\ Event(r).disposition = account[r].disposition
         /\ Event(r).bucket <= now /\ Event(r).due <= now
         /\ Event(r).due - Event(r).bucket = Shift[setting][r]
<1>1. now \in Nat /\ setting \in Settings
  BY DEF AuditShape
<1>2. PICK due0 \in SUBSET Rows : account \in Accounts(due0)
  BY DEF AuditShape
<1>3. account[r].disposition \in Dispositions /\ account[r].fired \in Int
  BY <1>2 DEF Accounts
<1>4. /\ Target(r, now) \in Int /\ Target(r, now) <= now
      /\ DueInstant(r, now) \in Int /\ DueInstant(r, now) <= now
      /\ DueInstant(r, now) - Target(r, now) = Shift[setting][r]
  BY <1>1, TargetIs
<1> QED
  BY <1>1, <1>3, <1>4 DEF Event, Records

(* What the pruning takes is of before this hour. *)
LEMMA PrunedIs ==
  ASSUME AuditShape, NEW events \in SUBSET Records, IsFiniteSet(events)
  PROVE  /\ Pruned(events) \subseteq events /\ IsFiniteSet(Pruned(events))
         /\ \A e \in events : e.bucket = Bar => e \in Pruned(events)
<1>1. Pruned(events) \subseteq events
  BY DEF Pruned
<1>2. IsFiniteSet(Pruned(events))
  BY <1>1, FS_Subset
<1>3. Bar \in Int /\ Bar >= 0 /\ now % Hour = now - Bar
  <2>1. now \in Int /\ Hour \in Nat \ {0} /\ 0 * Hour <= now /\ 0 * Hour = 0
    BY AuditConstants DEF AuditShape
  <2>2. /\ Floor(now, Hour) \in Int /\ now % Hour = now - Floor(now, Hour)
        /\ \A k \in Int : k * Hour <= now => k * Hour <= Floor(now, Hour)
    BY <2>1, FloorIs
  <2>3. 0 * Hour <= Floor(now, Hour)
    BY <2>1, <2>2
  <2> QED
    BY <2>1, <2>2, <2>3 DEF Bar, HourOf
<1>4. Bar >= Cutoff
  <2>1. now \in Nat /\ Tick \in Nat /\ Retention \in Nat /\ Tick <= Retention
    BY AuditConstants DEF AuditShape
  <2> QED
    BY <1>3, <2>1 DEF Cutoff, Never
<1> QED
  BY <1>1, <1>2, <1>4 DEF Pruned

LEMMA FlushKeeps ==
  ASSUME AuditInv, Flush
  PROVE  AuditInv'
<1>1. /\ account # None /\ account' = None
      /\ UNCHANGED <<now, setting, rows, did, seen, settled>>
      /\ ledger' = [r \in Rows |-> Pruned(Written(r))]
      /\ Bar' = Bar
  BY DEF Flush, history, Bar, HourOf, Floor
<1>0. AuditShape /\ BookInv /\ TwiceInv
  BY DEF AuditInv
<1>2. ASSUME NEW r \in Rows
      PROVE  /\ Written(r) \in SUBSET Records /\ IsFiniteSet(Written(r))
             /\ ledger'[r] \in SUBSET Records /\ IsFiniteSet(ledger'[r])
             /\ ledger'[r] \subseteq Written(r)
             /\ \A e \in Written(r) : e.bucket = Bar => e \in ledger'[r]
  <2>1. ledger[r] \in SUBSET Records /\ IsFiniteSet(ledger[r])
    BY <1>0 DEF AuditShape
  <2>2. Written(r) \in SUBSET Records /\ IsFiniteSet(Written(r))
    BY <1>0, <1>1, <2>1, EventIs, UpsertIs DEF Written
  <2>3. ledger'[r] = Pruned(Written(r))
    BY <1>1
  <2> QED
    BY <1>0, <2>2, <2>3, PrunedIs
<1>3. AuditShape'
  <2>1. ledger' \in [Rows -> SUBSET Records] /\ \A r \in Rows : IsFiniteSet(ledger'[r])
    BY <1>1, <1>2
  <2> QED
    BY <1>0, <1>1, <2>1 DEF AuditShape
<1>4. BookInv'
  <2> SUFFICES ASSUME NEW r \in Rows, NEW e \in Written(r)
               PROVE  /\ e.bucket <= now /\ e.due <= now
                      /\ e.bucket = Bar => did[r].acted
                      /\ e.due - e.bucket # Shift[setting][r] => e.bucket + Wide(r) < settled[r]
    BY <1>1, <1>2 DEF BookInv
  <2>1. ASSUME NEW o \in ledger[r]
        PROVE  /\ o.bucket <= now /\ o.due <= now
               /\ o.bucket = Bar => did[r].acted
               /\ o.due - o.bucket # Shift[setting][r] => o.bucket + Wide(r) < settled[r]
    BY <1>0 DEF BookInv
  <2>2. CASE r \notin DOMAIN account
    BY <2>1, <2>2 DEF Written
  <2>3. CASE r \in DOMAIN account
    <3> DEFINE entry == Event(r)
    <3>1. /\ entry \in Records /\ entry.n = 1 /\ entry.bucket = Target(r, now)
          /\ entry.bucket <= now /\ entry.due <= now /\ entry.due - entry.bucket = Shift[setting][r]
      BY <1>0, <1>1, <2>3, EventIs
    <3>2. entry.bucket = Bar => did[r].acted
      BY <1>0, <1>1, <2>3, <3>1 DEF BookInv
    <3>3. ledger[r] \in SUBSET Records /\ IsFiniteSet(ledger[r]) /\ e \in Upsert(ledger[r], entry)
      BY <1>0, <2>3 DEF AuditShape, Written
    <3> HIDE DEF entry
    <3>4. \/ e \in ledger[r] \/ e = entry
          \/ \E o \in ledger[r] : e.bucket = o.bucket /\ e.due = o.due
      BY <3>1, <3>3, UpsertIs
    <3> QED
      BY <2>1, <3>1, <3>2, <3>4
  <2> QED
    BY <2>2, <2>3
<1>5. TwiceInv'
  <2> SUFFICES ASSUME "lost" \notin seen, NEW r \in Rows
               PROVE  Recorded(r, did[r].served - (IF Owing(r) THEN 1 ELSE 0))'
    BY <1>1 DEF TwiceInv
  <2>1. ~Owing(r)' /\ did'[r] = did[r] /\ did[r].served \in Nat
    BY <1>0, <1>1 DEF Owing, AuditShape, Doing
  <2>2. Recorded(r, did[r].served - (IF Owing(r) THEN 1 ELSE 0))
    BY <1>0 DEF TwiceInv
  <2> DEFINE before == Served(r, Bar)
             after  == Served(r, Bar)'
             now2   == {e \in Written(r) : e.bucket = Bar /\ e.disposition \in Stamping}
  <2>3. before = {e \in ledger[r] : e.bucket = Bar /\ e.disposition \in Stamping}
    BY DEF Served, At
  <2>4. after = now2
    BY <1>1, <1>2 DEF Served, At
  <2>5. CASE r \notin DOMAIN account
    <3>1. after = before /\ ~Owing(r)
      BY <2>3, <2>4, <2>5 DEF Written, Owing
    <3> QED
      BY <2>1, <2>2, <3>1 DEF Recorded
  <2>6. CASE r \in DOMAIN account
    <3> DEFINE entry == Event(r)
    <3>1. /\ entry \in Records /\ entry.n = 1 /\ entry.bucket = Target(r, now)
          /\ entry.disposition = account[r].disposition
      BY <1>0, <1>1, <2>6, EventIs
    <3>2. ledger[r] \in SUBSET Records /\ IsFiniteSet(ledger[r])
          /\ Written(r) = Upsert(ledger[r], entry)
      BY <1>0, <2>6 DEF AuditShape, Written
    <3>3. Owing(r) <=> entry.bucket = Bar /\ entry.disposition \in Stamping
      BY <1>1, <2>6, <3>1 DEF Owing
    <3> HIDE DEF entry
    <3>4. /\ \A o \in ledger[r] : o.bucket # entry.bucket \/ o.disposition # entry.disposition
               => o \in Written(r)
          /\ \/ /\ entry \in Written(r)
                /\ \A o \in ledger[r] :
                     o.bucket # entry.bucket \/ o.disposition # entry.disposition
             \/ \E x \in Written(r) :
                  x.bucket = entry.bucket /\ x.disposition = entry.disposition /\ x.n > 1
      BY <3>1, <3>2, UpsertIs
    <3>5. CASE ~Owing(r)
      <4>1. before \subseteq after
        BY <2>3, <2>4, <3>3, <3>4, <3>5
      <4>2. Recorded(r, did[r].served)
        BY <2>1, <2>2, <3>5
      <4> HIDE DEF before, after
      <4>3. /\ did[r].served >= 1 => after # {}
            /\ did[r].served >= 2 => (\E e \in after : e.n > 1) \/ (\E e, o \in after : e # o)
        BY <4>1, <4>2 DEF Recorded, before
      <4> QED
        BY <2>1, <4>3 DEF Recorded, after
    <3>6. CASE Owing(r)
      <4>1. (\E x \in after : x.n > 1) \/ (entry \in after /\ before \subseteq after /\ entry \notin before)
        BY <2>3, <2>4, <3>3, <3>4, <3>6
      <4>2. Recorded(r, did[r].served - 1)
        BY <2>2, <3>6
      <4> HIDE DEF before, after
      <4>3. did[r].served >= 2 => before # {}
        BY <2>1, <4>2 DEF Recorded, before
      <4>4. /\ after # {}
            /\ did[r].served >= 2 => (\E e \in after : e.n > 1) \/ (\E e, o \in after : e # o)
        BY <4>1, <4>3
      <4> QED
        BY <2>1, <4>4 DEF Recorded, after
    <3> QED
      BY <3>5, <3>6
  <2> QED
    BY <2>5, <2>6
<1> QED
  BY <1>3, <1>4, <1>5 DEF AuditInv

LEMMA LostKeeps ==
  ASSUME AuditInv, FlushFails
  PROVE  AuditInv'
<1>1. /\ account' = None /\ "lost" \in seen'
      /\ UNCHANGED <<now, setting, rows, ledger, did, settled>>
      /\ Bar' = Bar
  BY DEF FlushFails, Bar, HourOf, Floor
<1>2. AuditShape' /\ BookInv'
  BY <1>1 DEF AuditInv, AuditShape, BookInv
<1>3. TwiceInv'
  BY <1>1 DEF TwiceInv
<1> QED
  BY <1>2, <1>3 DEF AuditInv

(* A change of the settings is over, for a row, in a bar to come.          *)
LEMMA OverIs ==
  ASSUME AuditShape, NEW r \in Rows
  PROVE  /\ Over(r) \in Int /\ now \in Int /\ Wide(r) \in Int
         /\ Floor(now, Period[r]) \in Int
         /\ Over(r) = Floor(now, Period[r]) + Period[r] + Wide(r)
         /\ now < Over(r) - Wide(r)
<1> DEFINE p == Period[r]
           all == RealignBars * p
           longer == Max({p, Hour})
           bar == Floor(now, p)
           wide == Wide(r)
<1>1. now \in Int /\ p \in Nat \ {0} /\ Hour \in Nat
  BY AuditConstants DEF AuditShape
<1>2. bar \in Int /\ now < bar + p
  <2> HIDE DEF p
  <2> QED
    BY <1>1, FloorIs
<1>3. longer \in Int
  <2>1. p \in Int /\ Hour \in Int
    BY <1>1
  <2> HIDE DEF p
  <2> QED
    BY <2>1, MaxOfTwo
<1>4. all \in Int /\ wide \in Int /\ all + longer = p + wide
  BY WideIs
<1>5. Over(r) = bar + all + longer
  BY DEF Over
<1> HIDE DEF p, all, longer, bar, wide
<1>6. Over(r) \in Int /\ Over(r) = bar + p + wide /\ now < Over(r) - wide
  BY <1>1, <1>2, <1>3, <1>4, <1>5
<1> QED
  BY <1>1, <1>2, <1>4, <1>6 DEF p, bar, wide

(* What happens between ticks, and leaves the books alone.                 *)
LEMMA QuietKeeps ==
  ASSUME AuditInv, account = None,
         UNCHANGED <<now, account, ledger, did>>, seen \subseteq seen',
         setting' \in Settings, settled' \in [Rows -> Int],
         \A r \in Rows : settled[r] <= settled'[r],
         setting' = setting \/ \A r \in Rows : Over(r) <= settled'[r]
  PROVE  AuditInv'
<1>0. AuditShape /\ BookInv /\ TwiceInv /\ Bar' = Bar
  BY DEF AuditInv, Bar, HourOf, Floor
<1>1. AuditShape'
  BY <1>0 DEF AuditShape
<1>2. BookInv'
  <2> SUFFICES ASSUME NEW r \in Rows, NEW e \in ledger[r], e.due - e.bucket # Shift[setting'][r]
               PROVE  e.bucket + Wide(r) < settled'[r]
    BY <1>0 DEF BookInv
  <2> DEFINE x == Wide(r)
             s == settled'[r]
  <2>1. /\ e.bucket \in Int /\ e.bucket <= now
        /\ e.due - e.bucket # Shift[setting][r] => e.bucket + x < settled[r]
    BY <1>0 DEF AuditShape, BookInv, Records
  <2>2. x \in Int /\ settled[r] \in Int /\ s \in Int /\ settled[r] <= s
    BY <1>0, WideIs DEF AuditShape
  <2>3. CASE setting' = setting
    <3>1. e.bucket + x < settled[r]
      BY <2>1, <2>3
    <3> HIDE DEF x, s
    <3>2. e.bucket + x < s
      BY <2>1, <2>2, <3>1
    <3> QED
      BY <3>2 DEF x, s
  <2>4. CASE \A q \in Rows : Over(q) <= settled'[q]
    <3>1. now < Over(r) - x /\ Over(r) \in Int /\ Over(r) <= s /\ now \in Int
      BY <1>0, <2>4, OverIs
    <3> HIDE DEF x, s
    <3>2. e.bucket + x < s
      BY <2>1, <2>2, <3>1
    <3> QED
      BY <3>2 DEF x, s
  <2> QED
    BY <2>3, <2>4
<1>3. TwiceInv'
  <2>1. \A r \in Rows : ~Owing(r) /\ ~Owing(r)'
    BY DEF Owing
  <2>2. \A r \in Rows : Served(r, Bar)' = Served(r, Bar)
    BY <1>0 DEF Served, At
  <2> QED
    BY <1>0, <2>1, <2>2 DEF TwiceInv, Recorded
<1> QED
  BY <1>1, <1>2, <1>3 DEF AuditInv

(* A change of the settings or of the watch list moves "settled" on.       *)
LEMMA SettlesLater ==
  ASSUME AuditShape
  PROVE  /\ \A r \in Rows : Readd(r) =>
               /\ settled' \in [Rows -> Int] /\ \A q \in Rows : settled[q] <= settled'[q]
               /\ Floor(now, Period[r]) + Period[r] <= settled'[r]
         /\ \A c \in Settings : Retune(c) =>
               /\ settled' \in [Rows -> Int] /\ \A q \in Rows : settled[q] <= settled'[q]
               /\ \A q \in Rows : Over(q) <= settled'[q]
<1>1. settled \in [Rows -> Int] /\ now \in Int
  BY DEF AuditShape
<1>2. ASSUME NEW r \in Rows, Readd(r)
      PROVE  /\ settled' \in [Rows -> Int] /\ \A q \in Rows : settled[q] <= settled'[q]
             /\ Floor(now, Period[r]) + Period[r] <= settled'[r]
  <2> DEFINE next == Floor(now, Period[r]) + Period[r]
             old == settled[r]
             later == Max({old, next})
  <2>1. next \in Int /\ old \in Int
    <3>1. Period[r] \in Nat \ {0}
      BY AuditConstants
    <3>2. Floor(now, Period[r]) \in Int
      BY <1>1, <3>1, FloorIs
    <3> QED
      BY <1>1, <3>1, <3>2
  <2>2. settled' = [settled EXCEPT ![r] = later]
    BY <1>2 DEF Readd
  <2> HIDE DEF next, old
  <2>3. later \in Int /\ later >= old /\ later >= next
    BY <2>1, MaxOfTwo
  <2> HIDE DEF later
  <2>4. settled' \in [Rows -> Int] /\ settled'[r] = later /\ \A q \in Rows \ {r} : settled'[q] = settled[q]
    BY <1>1, <2>2, <2>3
  <2>5. old <= later /\ next <= later
    BY <2>1, <2>3
  <2>6. \A q \in Rows \ {r} : settled[q] <= settled'[q]
    BY <1>1, <2>4
  <2> QED
    BY <2>4, <2>5, <2>6 DEF next, old
<1>3. ASSUME NEW c \in Settings, Retune(c)
      PROVE  /\ settled' \in [Rows -> Int] /\ \A q \in Rows : settled[q] <= settled'[q]
             /\ \A q \in Rows : Over(q) <= settled'[q]
  <2>1. settled' = [r \in Rows |-> Max({settled[r], Over(r)})]
    BY <1>3 DEF Retune
  <2>2. ASSUME NEW q \in Rows
        PROVE  LET m == Max({settled[q], Over(q)}) IN m \in Int /\ settled[q] <= m /\ Over(q) <= m
    <3>1. settled[q] \in Int /\ Over(q) \in Int
      BY <1>1, OverIs
    <3> QED
      BY <3>1, MaxOfTwo
  <2> QED
    BY <2>1, <2>2
<1> QED
  BY <1>2, <1>3

LEMMA AuditNext ==
  ASSUME AuditInv, [Next]_vars
  PROVE  AuditInv'
<1>0. /\ AuditShape /\ setting \in Settings /\ settled \in [Rows -> Int]
      /\ \A r \in Rows : settled[r] <= settled[r]
  BY DEF AuditInv, AuditShape
<1>1. CASE RunCycle
  BY <1>0, <1>1, FatesAre, TickedKeeps
<1>2. CASE CycleErrs
  BY <1>0, <1>2, ErrsAre, TickedKeeps
<1>3. CASE Dark
  BY <1>3, DarkIs, TickedKeeps
<1>4. CASE UNCHANGED vars
  <2>1. UNCHANGED <<now, setting, ledger, account, did, seen, settled>>
    BY <1>4 DEF vars, dispatcher, history
  <2>2. Bar' = Bar /\ \A r \in Rows : Target(r, now)' = Target(r, now)
    BY <2>1 DEF Bar, HourOf, Floor, Target
  <2>3. AuditShape' /\ BookInv'
    BY <2>1, <2>2 DEF AuditInv, AuditShape, BookInv
  <2>5. TwiceInv'
    <3> SUFFICES ASSUME "lost" \notin seen, NEW r \in Rows
                 PROVE  Recorded(r, did[r].served - (IF Owing(r) THEN 1 ELSE 0))'
      BY <2>1 DEF TwiceInv
    <3> DEFINE k == did[r].served - (IF Owing(r) THEN 1 ELSE 0)
               before == Served(r, Bar)
    <3>1. Recorded(r, k)
      BY DEF AuditInv, TwiceInv
    <3>2. k' = k /\ before' = before
      <4>1. before' = before
        BY <2>1, <2>2 DEF Served, At
      <4>2. did' = did
        BY <2>1
      <4>3. Owing(r)' <=> Owing(r)
        BY <2>1, <2>2 DEF Owing
      <4>4. k' = k
        BY <4>2, <4>3, Zenon
      <4> QED
        BY <4>1, <4>4
    <3>3. /\ k >= 1 => before # {}
          /\ k >= 2 => (\E e \in before : e.n > 1) \/ (\E e, o \in before : e # o)
      BY <3>1 DEF Recorded
    <3>4. /\ k' >= 1 => before' # {}
          /\ k' >= 2 => (\E e \in before' : e.n > 1) \/ (\E e, o \in before' : e # o)
      <4> HIDE DEF k, before
      <4> QED
        BY <3>2, <3>3
    <3> QED
      BY <3>4 DEF Recorded
  <2> QED
    BY <2>3, <2>5 DEF AuditInv
<1>5. ASSUME NEW r \in Rows, Rewind(r) \/ Wall(r) \/ Relieve(r)
      PROVE  AuditInv'
  <2>1. /\ account = None /\ UNCHANGED <<now, account, ledger, did, setting, settled>>
        /\ seen \subseteq seen'
    BY <1>5 DEF Rewind, Wall, Relieve, history
  <2> QED
    BY <1>0, <2>1, QuietKeeps
<1>6. ASSUME NEW r \in Rows, Readd(r) PROVE AuditInv'
  <2>1. account = None /\ UNCHANGED <<now, account, ledger, did, setting, seen>>
    BY <1>6 DEF Readd
  <2>2. settled' \in [Rows -> Int] /\ \A q \in Rows : settled[q] <= settled'[q]
    BY <1>0, <1>6, SettlesLater
  <2> QED
    BY <1>0, <2>1, <2>2, QuietKeeps
<1>7. ASSUME NEW c \in Settings, Retune(c) PROVE AuditInv'
  <2>1. /\ account = None /\ UNCHANGED <<now, account, ledger, did, seen>>
        /\ setting' \in Settings
    BY <1>7 DEF Retune
  <2>2. /\ settled' \in [Rows -> Int] /\ \A q \in Rows : settled[q] <= settled'[q]
        /\ \A q \in Rows : Over(q) <= settled'[q]
    BY <1>0, <1>7, SettlesLater
  <2> QED
    BY <2>1, <2>2, QuietKeeps
<1> QED
  BY <1>1, <1>2, <1>3, <1>4, <1>5, <1>6, <1>7, FlushKeeps, LostKeeps DEF Next

LEMMA AuditAlways ==
  Spec => []AuditInv
BY AuditBegins, AuditNext, PTL DEF Spec

WatchesTyped == rows \in [Rows -> [stamp : Int, fails : Int, added : Int]]

LEMMA WatchesStayTyped ==
  ASSUME AuditInv, WatchesTyped, [Next]_vars
  PROVE  WatchesTyped'
<1> DEFINE Watch == [stamp : Int, fails : Int, added : Int]
<1>1. /\ now \in Nat /\ Tick \in Nat /\ \A e \in Execs : e \in Nat
      /\ \A r \in Rows : Period[r] \in Nat
  BY AuditConstants DEF AuditInv, AuditShape
<1>2. ASSUME NEW row \in Watch, NEW fate, NEW t \in Int
      PROVE  After(row, fate, t) \in Watch
  <2>1. CASE fate \in Stamping
    <3>1. fate # "fetch_failed"
      BY <2>1 DEF Stamping
    <3>2. After(row, fate, t) = [row EXCEPT !.stamp = t, !.fails = 0]
      BY <2>1, <3>1 DEF After
    <3> DEFINE stamped == [row EXCEPT !.stamp = t]
    <3>3. stamped \in Watch
      OBVIOUS
    <3>4. [stamped EXCEPT !.fails = 0] \in Watch
      <4> HIDE DEF stamped
      <4> QED
        BY <3>3
    <3> QED
      BY <3>2, <3>4
  <2>2. CASE fate = "fetch_failed"
    <3>1. fate \notin Stamping
      BY <2>2 DEF Stamping
    <3>2. row.fails + 1 \in Int /\ After(row, fate, t) = [row EXCEPT !.fails = row.fails + 1]
      BY <2>2, <3>1 DEF After
    <3> QED
      BY <3>2
  <2>3. CASE fate \notin Stamping \cup {"fetch_failed"}
    BY <2>3 DEF After
  <2> QED
    BY <2>1, <2>2, <2>3
<1>3. CASE RunCycle
  <2> DEFINE t == now + Tick
             S == {r \in Rows : IsDue(r, t)}
  <2>0. PICK odd \in Rows : \E fate \in Fates(odd), exec \in Execs :
          LET fates == [r \in S |-> IF r = odd THEN fate ELSE Ordinary(r)]
              stamp == [r \in S |-> t + IF r = odd THEN exec ELSE Min(Execs)]
          IN  rows' = [r \in Rows |-> IF r \in S THEN After(rows[r], fates[r], stamp[r])
                                      ELSE rows[r]]
    BY <1>3 DEF RunCycle
  <2>1. PICK fate \in Fates(odd), exec \in Execs :
          LET fates == [r \in S |-> IF r = odd THEN fate ELSE Ordinary(r)]
              stamp == [r \in S |-> t + IF r = odd THEN exec ELSE Min(Execs)]
          IN  rows' = [r \in Rows |-> IF r \in S THEN After(rows[r], fates[r], stamp[r])
                                      ELSE rows[r]]
    BY <2>0
  <2>2. Execs \in SUBSET Nat /\ exec \in Nat /\ Min(Execs) \in Nat /\ t \in Int
    <3>1. \E x \in Execs : \A y \in Execs : x <= y
      BY <1>1, Smallest
    <3>2. Min(Execs) \in Execs
      BY <3>1 DEF Min
    <3> QED
      BY <1>1, <3>2
  <2> DEFINE fates == [r \in S |-> IF r = odd THEN fate ELSE Ordinary(r)]
             stamp == [r \in S |-> t + IF r = odd THEN exec ELSE Min(Execs)]
  <2>3. \A r \in S : stamp[r] \in Int
    BY <2>2
  <2>4. rows' = [r \in Rows |-> IF r \in S THEN After(rows[r], fates[r], stamp[r])
                                ELSE rows[r]]
    BY <2>1
  <2> HIDE DEF S, fates, stamp, Watch
  <2> QED
    BY <1>2, <2>3, <2>4 DEF WatchesTyped, Watch
<1>4. CASE CycleErrs \/ Flush \/ FlushFails \/ Dark \/ UNCHANGED vars
  BY <1>4 DEF WatchesTyped, CycleErrs, Flush, FlushFails, Dark,
              vars, dispatcher
<1>5. ASSUME NEW r \in Rows, Rewind(r) PROVE WatchesTyped'
  <2>1. rows[r] \in Watch /\ rows[r].stamp - Period[r] \in Int
    BY <1>1 DEF WatchesTyped
  <2>2. rows' = [rows EXCEPT ![r] = [rows[r] EXCEPT !.stamp = rows[r].stamp - Period[r]]]
    BY <1>5 DEF Rewind
  <2>3. [rows[r] EXCEPT !.stamp = rows[r].stamp - Period[r]] \in Watch
    BY <2>1
  <2> HIDE DEF Watch
  <2> QED
    BY <2>2, <2>3 DEF WatchesTyped, Watch
<1>6. ASSUME NEW r \in Rows, Readd(r) PROVE WatchesTyped'
  <2>1. NewRow(now + 1) \in Watch
    BY <1>1 DEF NewRow, Never
  <2>2. rows' = [rows EXCEPT ![r] = NewRow(now + 1)]
    BY <1>6 DEF Readd
  <2> HIDE DEF Watch
  <2> QED
    BY <2>1, <2>2 DEF WatchesTyped, Watch
<1>7. ASSUME NEW r \in Rows, Wall(r) \/ Relieve(r) PROVE WatchesTyped'
  BY <1>7 DEF WatchesTyped, Wall, Relieve
<1>8. ASSUME NEW c \in Settings, Retune(c) PROVE WatchesTyped'
  BY <1>8 DEF WatchesTyped, Retune
<1> QED
  BY <1>3, <1>4, <1>5, <1>6, <1>7, <1>8 DEF Next

LEMMA WatchesAlwaysTyped ==
  Spec => []WatchesTyped
<1>1. Init => WatchesTyped
  BY AuditConstants DEF Init, WatchesTyped, NewRow, Never
<1> QED
  BY <1>1, AuditAlways, WatchesStayTyped, PTL DEF Spec

(* What the auditor says of a row by the first rules, and the verdict.     *)
LEMMA FirstRule ==
  ASSUME NEW r \in Rows, NEW b
  PROVE  /\ Integrity(r) # None => Classify(r, b) = Integrity(r)
         /\ Integrity(r) = None /\ Determinism(r, b) # None
              => Classify(r, b) = Determinism(r, b)
         /\ Integrity(r) = None /\ Determinism(r, b) = None =>
              /\ Unjudged(r, b) # None => Classify(r, b) = Unjudged(r, b)
              /\ Unjudged(r, b) = None =>
                   /\ Unacted(r, b) # None => Classify(r, b) = Unacted(r, b)
                   /\ Unacted(r, b) = None =>
                        Classify(r, b) = IF Unserved(r, b) # None THEN Unserved(r, b)
                                         ELSE JudgedService(r, b)
<1> DEFINE rules == <<Integrity(r), Determinism(r, b), Unjudged(r, b),
                      Unacted(r, b), Unserved(r, b)>>
           apply == {i \in DOMAIN rules : rules[i] # None}
<1>1. Classify(r, b) = IF apply # {} THEN rules[Min(apply)]
                             ELSE JudgedService(r, b)
  BY DEF Classify
<1>2. /\ DOMAIN rules = 1..5 /\ rules[1] = Integrity(r) /\ rules[2] = Determinism(r, b)
      /\ rules[3] = Unjudged(r, b) /\ rules[4] = Unacted(r, b) /\ rules[5] = Unserved(r, b)
  OBVIOUS
<1> HIDE DEF rules
<1>3. ASSUME NEW i \in 1..5, i \in apply, \A j \in apply : i <= j
      PROVE  Min(apply) = i
  <2>1. apply \subseteq 1..5
    BY <1>2
  <2>2. Min(apply) \in apply /\ \A j \in apply : Min(apply) <= j
    <3> HIDE DEF apply
    <3> QED
      BY <1>3 DEF Min
  <2> DEFINE m == Min(apply)
  <2>3. m \in 1..5 /\ m <= i /\ i <= m
    <3> HIDE DEF apply
    <3> QED
      BY <1>3, <2>1, <2>2
  <2> HIDE DEF m, apply
  <2>4. m = i
    BY <2>3
  <2> QED
    BY <2>4 DEF m
<1>4. rules[1] # None => Min(apply) = 1 /\ apply # {}
  BY <1>2, <1>3
<1>5. rules[1] = None /\ rules[2] # None => Min(apply) = 2 /\ apply # {}
  BY <1>2, <1>3
<1>6. rules[1] = None /\ rules[2] = None =>
        /\ rules[3] # None => Min(apply) = 3 /\ apply # {}
        /\ rules[3] = None /\ rules[4] # None => Min(apply) = 4 /\ apply # {}
        /\ rules[3] = None /\ rules[4] = None /\ rules[5] # None => Min(apply) = 5 /\ apply # {}
        /\ rules[3] = None /\ rules[4] = None /\ rules[5] = None => apply = {}
  BY <1>2, <1>3
<1> HIDE DEF apply
<1> QED
  BY <1>1, <1>2, <1>4, <1>5, <1>6

LEMMA ClassIs ==
  ASSUME NEW r \in Rows, NEW class \in Classes, NEW cause \in Causes
  PROVE  /\ Class(r, class, cause) # None
         /\ Class(r, class, cause).class = class
         /\ Class(r, class, cause).chronic = FALSE
<1>1. ASSUME NEW odd \in BOOLEAN
      PROVE  [row |-> r, class |-> class, cause |-> cause, chronic |-> odd] \in Findings
  BY DEF Findings
<1>2. FALSE \in BOOLEAN
  OBVIOUS
<1>3. Class(r, class, cause) = [row |-> r, class |-> class, cause |-> cause, chronic |-> FALSE]
  BY DEF Class
<1>4. Class(r, class, cause) \in Findings
  BY <1>1, <1>2, <1>3, Zenon
<1>5. Class(r, class, cause) # None
  BY <1>4, NoneAssumption
<1>6. Class(r, class, cause).class = class
  BY <1>3
<1>7. Class(r, class, cause).chronic = FALSE
  BY <1>3
<1> QED
  BY <1>5, <1>6, <1>7

(* The verdicts on the classes that matter here. *)
LEMMA VerdictOfIs ==
  ASSUME NEW f, f.chronic = FALSE
  PROVE  /\ f.class \in {"UNPROVENANCED", "STAMP_MISMATCH"}
              => VerdictOf(f) = "DEPLOY_REGRESSION"
         /\ f.class = "MISSED" => VerdictOf(f) = "TIMING_FAULT"
<1>1. ~f.chronic
  OBVIOUS
<1>2. CASE f.class \in {"UNPROVENANCED", "STAMP_MISMATCH"}
  BY <1>1, <1>2 DEF VerdictOf
<1>3. CASE f.class = "MISSED"
  BY <1>1, <1>3 DEF VerdictOf
<1> QED
  BY <1>2, <1>3

LEMMA RegressionOf ==
  ASSUME NEW r \in Rows
  PROVE  /\ Integrity(r) # None => VerdictOf(Integrity(r)) = "DEPLOY_REGRESSION"
         /\ \A b : Determinism(r, b) # None
              => VerdictOf(Determinism(r, b)) = "DEPLOY_REGRESSION"
<1>1. ASSUME NEW cause \in Causes, NEW class \in {"UNPROVENANCED", "STAMP_MISMATCH"}
      PROVE  VerdictOf(Class(r, class, cause)) = "DEPLOY_REGRESSION"
  <2>1. class \in Classes
    BY DEF Classes
  <2>2. /\ Class(r, class, cause).class = class
        /\ Class(r, class, cause).chronic = FALSE
    BY <2>1, ClassIs
  <2> QED
    BY <2>2, VerdictOfIs
<1>2. \/ Integrity(r) = Class(r, "UNPROVENANCED", "stamp_without_event")
      \/ Integrity(r) = Class(r, "STAMP_MISMATCH", "stamp_rewound")
      \/ Integrity(r) = Class(r, "STAMP_MISMATCH", "stamp_cleared")
      \/ Integrity(r) = None
  BY DEF Integrity
<1>3. \A b : \/ Determinism(r, b) = Class(r, "STAMP_MISMATCH", "double_service")
             \/ Determinism(r, b) = None
  BY DEF Determinism
<1>4. {"stamp_without_event", "stamp_rewound", "stamp_cleared", "double_service"}
        \subseteq Causes
  BY DEF Causes
<1>5. Integrity(r) # None => VerdictOf(Integrity(r)) = "DEPLOY_REGRESSION"
  BY <1>1, <1>2, <1>4
<1>6. \A b : Determinism(r, b) # None
              => VerdictOf(Determinism(r, b)) = "DEPLOY_REGRESSION"
  BY <1>1, <1>3, <1>4
<1> QED
  BY <1>5, <1>6

LEMMA VerdictCounts ==
  ASSUME NEW r \in Audited
  PROVE  /\ VerdictOf(Classify(r, Bar)) = "DEPLOY_REGRESSION"
              => Verdict = "DEPLOY_REGRESSION"
         /\ VerdictOf(Classify(r, Bar)) = "TIMING_FAULT"
              => Verdict \in {"DEPLOY_REGRESSION", "TIMING_FAULT"}
BY DEF Verdict

LEMMA TwoAreMore ==
  ASSUME NEW S, IsFiniteSet(S), NEW a \in S, NEW b \in S, a # b
  PROVE  Cardinality(S) > 1
<1>1. IsFiniteSet({a}) /\ Cardinality({a}) = 1
  BY FS_Singleton
<1>2. Cardinality({a} \cup {b}) = 2
  BY <1>1, FS_AddElement
<1>3. {a} \cup {b} \subseteq S
  OBVIOUS
<1>4. Cardinality({a} \cup {b}) <= Cardinality(S) /\ Cardinality(S) \in Nat
  BY <1>3, FS_Subset, FS_CardinalityType
<1> QED
  BY <1>2, <1>4

LEMMA ServedIs ==
  ASSUME AuditInv, NEW r \in Rows
  PROVE  /\ Served(r, Bar) \subseteq Records
         /\ IsFiniteSet(Served(r, Bar))
<1>1. Served(r, Bar) \subseteq ledger[r]
  BY DEF Served, At
<1>2. ledger[r] \subseteq Records /\ IsFiniteSet(ledger[r])
  BY DEF AuditInv, AuditShape
<1> QED
  BY <1>1, <1>2, FS_Subset

(* A row that was stamped twice in a bar while no flush was lost: the      *)
(* auditor counts the services in the ledger and calls it a regression,    *)
(* whatever the row's class (classify_row).                                *)
THEOREM TwiceServiceIsSeen == Spec => []TwiceIsSeen
<1>1. ASSUME AuditInv PROVE TwiceIsSeen
  <2> SUFFICES ASSUME NEW r \in Audited, account = None, did[r].served > 1,
                      "lost" \notin seen
               PROVE  Verdict = "DEPLOY_REGRESSION"
    BY DEF TwiceIsSeen
  <2> DEFINE served == Served(r, Bar)
  <2>1. r \in Rows
    BY DEF Audited
  <2>2. did[r].served \in Nat /\ ~Owing(r)
    BY <1>1, <2>1 DEF AuditInv, AuditShape, Doing, Owing
  <2>3. Recorded(r, did[r].served)
    <3>1. Recorded(r, did[r].served - (IF Owing(r) THEN 1 ELSE 0))
      BY <1>1, <2>1 DEF AuditInv, TwiceInv
    <3>2. did[r].served - (IF Owing(r) THEN 1 ELSE 0) = did[r].served
      BY <2>2
    <3> QED
      BY <3>1, <3>2
  <2>4. (\E e \in served : e.n > 1) \/ (\E e, o \in served : e # o)
    BY <2>2, <2>3 DEF Recorded
  <2>5. IsFiniteSet(served)
    BY <1>1, <2>1, ServedIs
  <2>6. (\E e \in served : e.n > 1) \/ Cardinality(served) > 1
    <3> HIDE DEF served
    <3> QED
      BY <2>4, <2>5, TwoAreMore
  <2>7. Determinism(r, Bar) = Class(r, "STAMP_MISMATCH", "double_service")
    <3> DEFINE twice == Cardinality(served) > 1 \/ \E e \in served : e.n > 1
    <3>1. Determinism(r, Bar)
            = IF twice THEN Class(r, "STAMP_MISMATCH", "double_service") ELSE None
      BY DEF Determinism
    <3>2. twice
      <4> HIDE DEF served
      <4> QED
        BY <2>6
    <3> HIDE DEF twice
    <3> QED
      BY <3>1, <3>2
  <2>8. Determinism(r, Bar) # None
    <3>1. "STAMP_MISMATCH" \in Classes /\ "double_service" \in Causes
      BY DEF Classes, Causes
    <3> QED
      BY <2>1, <2>7, <3>1, ClassIs
  <2>9. VerdictOf(Classify(r, Bar)) = "DEPLOY_REGRESSION"
    <3>1. CASE Integrity(r) # None
      <4>1. Classify(r, Bar) = Integrity(r)
        BY <2>1, <3>1, FirstRule
      <4> QED
        BY <2>1, <3>1, <4>1, RegressionOf
    <3>2. CASE Integrity(r) = None
      <4>1. Classify(r, Bar) = Determinism(r, Bar)
        BY <2>1, <2>8, <3>2, FirstRule
      <4> QED
        BY <2>1, <2>8, <4>1, RegressionOf
    <3> QED
      BY <3>1, <3>2
  <2> QED
    BY <2>9, VerdictCounts
<1> QED
  BY <1>1, AuditAlways, PTL

(* The record begins at its first event, if it has one.                    *)
LEMMA ProvenanceIs ==
  ASSUME AuditInv
  PROVE  Provenance \in Int
<1> DEFINE firsts == {e.first : e \in UNION {ledger[r] : r \in Rows}}
<1>1. firsts \in SUBSET Nat
  BY DEF AuditInv, AuditShape, Records
<1>2. CASE firsts = {}
  BY <1>2 DEF Provenance, Never
<1>3. CASE firsts # {}
  <2>1. Provenance = Min(firsts)
    BY <1>3 DEF Provenance
  <2> HIDE DEF firsts
  <2>2. \E x \in firsts : \A y \in firsts : x <= y
    BY <1>1, <1>3, Smallest
  <2> DEFINE least == Min(firsts)
  <2>3. least \in firsts
    BY <2>2 DEF Min
  <2>4. Provenance = least
    BY <2>1
  <2> HIDE DEF least
  <2>5. least \in Nat
    BY <1>1, <2>3
  <2> QED
    BY <2>4, <2>5
<1> QED
  BY <1>2, <1>3

(* Once a change of the settings is settled, the bars the auditor compares *)
(* are all of one shift.                                                   *)
LEMMA OneShift ==
  ASSUME AuditInv, NEW r \in Rows, Bar >= settled[r]
  PROVE  LET shifts == Shifts(r, Bar - RealignBars * Period[r], Bar)
         IN  shifts \subseteq {Shift[setting][r]} /\ ~(Cardinality(shifts) > 1)
<1> DEFINE narrow == RealignBars * Period[r]
           b == Bar
           s == settled[r]
           shifts == Shifts(r, b - narrow, b)
<1>1. now \in Int /\ now <= now /\ s \in Int /\ narrow \in Int
  BY AuditConstants DEF AuditInv, AuditShape
<1>3. Wide(r) \in Int /\ narrow <= Wide(r)
  BY WideIs
<1>2. b \in Int
  BY <1>1, Hours DEF Bar
<1>5. ASSUME NEW e \in ledger[r], b - narrow <= e.bucket
      PROVE  e.due - e.bucket = Shift[setting][r]
  <2>1. e.bucket \in Int /\ (e.due - e.bucket # Shift[setting][r] => e.bucket + Wide(r) < s)
    BY DEF AuditInv, AuditShape, BookInv, Records
  <2>2. s <= b
    BY <1>1, <1>2
  <2>3. ~(e.bucket + Wide(r) < s)
    <3> HIDE DEF narrow, b, s
    <3> QED
      BY <1>1, <1>2, <1>3, <1>5, <2>1, <2>2
  <2> QED
    BY <2>1, <2>3
<1>6. shifts \subseteq {Shift[setting][r]}
  BY <1>5 DEF Shifts
<1>7. ~(Cardinality(shifts) > 1)
  <2> HIDE DEF shifts
  <2>1. IsFiniteSet({Shift[setting][r]}) /\ Cardinality({Shift[setting][r]}) = 1
    BY FS_Singleton
  <2>2. IsFiniteSet(shifts) /\ Cardinality(shifts) <= 1
    BY <1>6, <2>1, FS_Subset
  <2>3. Cardinality(shifts) \in Nat
    BY <2>2, FS_CardinalityType
  <2> QED
    BY <2>2, <2>3
<1> QED
  BY <1>6, <1>7

(* The due time the auditor goes by is one of the ledger, or the settings'. *)
LEMMA OverdueIsMissed ==
  ASSUME AuditInv, NEW r \in Rows, Overdue(r),
         At(r, Bar) = {}
  PROVE  Unacted(r, Bar) = Class(r, "MISSED", "no_event")
<1> DEFINE buckets == {e.bucket : e \in ledger[r]}
           latest == Max(buckets)
           shifts == {e.due - e.bucket : e \in At(r, latest)}
           shift == IF ledger[r] = {} THEN Shift[setting][r] ELSE Max(shifts)
<1>1. /\ now \in Int /\ now <= now /\ MaxAttempts \in Nat /\ Tick \in Nat
      /\ Shift[setting][r] \in Int
      /\ \A e \in ledger[r] : /\ e.bucket \in Int /\ e.due \in Int
                              /\ e.bucket <= now /\ e.due <= now
  BY AuditConstants DEF AuditInv, AuditShape, BookInv, Records
<1>2. Bar \in Int
  BY <1>1, Hours DEF Bar
<1>3. shift \in Int /\ now >= Bar + shift + MaxAttempts * Tick
  <2>1. CASE ledger[r] = {}
    BY <1>1, <2>1 DEF Overdue
  <2>2. CASE ledger[r] # {}
    <3>1. latest \in buckets
      <4>1. buckets # {} /\ \A x \in buckets : x \in Int /\ x <= now
        BY <1>1, <2>2
      <4> HIDE DEF buckets
      <4> QED
        BY <1>1, <4>1, Greatest
    <3> HIDE DEF latest
    <3>2. \A e \in At(r, latest) : e \in ledger[r] /\ e.bucket = latest
      BY DEF At
    <3>3. latest \in Int /\ At(r, latest) # {}
      BY <1>1, <3>1 DEF At
    <3>4. shifts # {} /\ now - latest \in Int /\ \A x \in shifts : x \in Int /\ x <= now - latest
      BY <1>1, <3>2, <3>3
    <3>5. Max(shifts) \in shifts
      <4> HIDE DEF shifts
      <4> QED
        BY <3>4, Greatest
    <3>6. shift \in {e.due - e.bucket : e \in ledger[r]}
      BY <2>2, <3>2, <3>5
    <3>7. shift \in Int
      BY <1>1, <3>6
    <3> HIDE DEF shift
    <3> QED
      BY <3>6, <3>7 DEF Overdue
  <2> QED
    BY <2>1, <2>2
<1>4. ~(Bar + shift + MaxAttempts * Tick > now)
  <2> DEFINE retries == MaxAttempts * Tick
  <2>1. retries \in Int /\ now >= Bar + shift + retries
    BY <1>1, <1>3
  <2> HIDE DEF shift, retries
  <2>2. ~(Bar + shift + retries > now)
    BY <1>1, <1>2, <1>3, <2>1
  <2> QED
    BY <2>2 DEF retries
<1>5. Unacted(r, Bar) =
        IF At(r, Bar) # {} THEN None
        ELSE IF Bar + shift + MaxAttempts * Tick > now
             THEN Class(r, "NOT_YET_DUE", "before_retry_budget")
             ELSE Class(r, "MISSED", "no_event")
  BY DEF Unacted
<1> HIDE DEF shift
<1> QED
  BY <1>4, <1>5

(* Whatever goes wrong: a bar in which nothing was done with a row, though *)
(* its retries are over by the settings and by every due time on record,   *)
(* is never called sound, once a change of the settings is over by the     *)
(* bars of the row (classify_row, audit).                                  *)
THEOREM DarkBarsAreSeen == Spec => []DarkBarIsSeen
<1>1. ASSUME AuditInv, WatchesTyped PROVE DarkBarIsSeen
  <2> SUFFICES ASSUME NEW r \in Rows, Judgeable(r), account = None, ~did[r].acted,
                      Overdue(r)
               PROVE  Verdict # "OK"
    BY DEF DarkBarIsSeen
  <2> DEFINE b == Bar
             p == Period[r]
  <2>1. /\ r \in Audited /\ r \in Rows /\ rows[r].added <= b /\ b >= settled[r]
        /\ Provenance # Never
        /\ b >= Floor(Provenance, p) + RealignBars * p
    BY DEF Judgeable, Audited
  <2>2. At(r, b) = {} /\ Served(r, b) = {}
    BY <1>1 DEF AuditInv, BookInv, At, Served
  <2>3. Determinism(r, b) = None
    <3>1. Cardinality({}) = 0
      BY FS_EmptySet
    <3>2. ~(Cardinality(Served(r, b)) > 1)
      BY <2>2, <3>1
    <3>3. ~ \E e \in Served(r, b) : e.n > 1
      BY <2>2
    <3> QED
      BY <3>2, <3>3 DEF Determinism
  <2>4. Unjudged(r, b) = None
    <3> DEFINE start == Floor(Provenance, p) + RealignBars * p
    <3>1. b \in Int /\ rows[r].added \in Int
      <4>1. now \in Int /\ now <= now
        BY <1>1 DEF AuditInv, AuditShape
      <4> QED
        BY <1>1, <4>1, Hours DEF WatchesTyped, Bar
    <3>2. start \in Int
      <4>1. p \in Nat \ {0} /\ RealignBars * p \in Int
        BY AuditConstants
      <4>2. Floor(Provenance, p) \in Int
        BY <1>1, <4>1, ProvenanceIs, FloorIs
      <4> QED
        BY <4>1, <4>2
    <3>3. ~(rows[r].added > b) /\ ~(b < start)
      <4> HIDE DEF b, start
      <4> QED
        BY <2>1, <3>1, <3>2 DEF start
    <3>4. ~(Cardinality(Shifts(r, b - RealignBars * p, b)) > 1)
      BY <1>1, <2>1, OneShift
    <3> QED
      BY <3>3, <3>4 DEF Unjudged
  <2>5. Unacted(r, b) = Class(r, "MISSED", "no_event")
    BY <1>1, <2>2, OverdueIsMissed
  <2>6. /\ Unacted(r, b) # None
        /\ VerdictOf(Unacted(r, b)) = "TIMING_FAULT"
    <3>1. "MISSED" \in Classes /\ "no_event" \in Causes
      BY DEF Classes, Causes
    <3> DEFINE missed == Class(r, "MISSED", "no_event")
    <3>2. missed # None /\ missed.class = "MISSED" /\ missed.chronic = FALSE
      BY <3>1, ClassIs
    <3> HIDE DEF missed
    <3>3. VerdictOf(missed) = "TIMING_FAULT"
      BY <3>2, VerdictOfIs
    <3> QED
      BY <2>5, <3>2, <3>3 DEF missed
  <2>7. CASE Integrity(r) # None
    <3>1. VerdictOf(Classify(r, b)) = "DEPLOY_REGRESSION"
      BY <2>7, FirstRule, RegressionOf
    <3> QED
      BY <2>1, <3>1, VerdictCounts
  <2>8. CASE Integrity(r) = None
    <3>1. VerdictOf(Classify(r, b)) = "TIMING_FAULT"
      BY <2>3, <2>4, <2>6, <2>8, FirstRule
    <3> QED
      BY <2>1, <3>1, VerdictCounts
  <2> QED
    BY <2>7, <2>8
<1> QED
  BY <1>1, AuditAlways, WatchesAlwaysTyped, PTL

---------------------------------------------------------------------------
(* What waits by design, and how the auditor takes it.                     *)

LEMMA Cadence ==
  /\ Tick \in Nat /\ Tick >= 2 /\ Hour \in Nat \ {0} /\ MaxAttempts \in Nat /\ MaxAttempts >= 2
  /\ RealignBars \in Nat /\ RealignBars >= 2 /\ Retention \in Nat /\ Tick <= Retention
  /\ Start \in Nat
  /\ \A r \in Rows : /\ Period[r] \in Nat \ {0}
                     /\ MaxAttempts * Tick <= Period[r] /\ 2 * Tick <= Period[r]
  /\ \A c \in Settings, r \in Rows : /\ Shift[c][r] \in Nat /\ Shift[c][r] <= Start
                                    /\ Shift[c][r] + Tick <= Period[r] + Hour
<1>1. /\ Tick \in Nat /\ Tick >= 2 /\ MaxAttempts \in Nat /\ MaxAttempts >= 2
      /\ \A r \in Rows : MaxAttempts * Tick <= Period[r]
      /\ RealignBars \in Nat /\ RealignBars >= 2
  BY AuditConstants, CadenceAssumption
<1>2. 2 * Tick <= MaxAttempts * Tick
  BY <1>1, Times
<1>3. MaxAttempts * Tick \in Int
  BY <1>1
<1>4. \A r \in Rows : Period[r] \in Nat \ {0} /\ 2 * Tick <= Period[r]
  <2> DEFINE retries == MaxAttempts * Tick
  <2>1. retries \in Int /\ 2 * Tick <= retries /\ \A r \in Rows : retries <= Period[r]
    BY <1>1, <1>2, <1>3
  <2> HIDE DEF retries
  <2> QED
    BY <1>1, <2>1, AuditConstants
<1> QED
  BY <1>1, <1>4, AuditConstants, CadenceAssumption

(* The bars of a row; that of the hour is one when the row is audited.     *)
IsBar(r, b) == \E k \in Int : b = k * Period[r]

LEMMA Multiples ==
  ASSUME NEW x \in Int, NEW d \in Nat \ {0}, x % d = 0
  PROVE  \E k \in Int : x = k * d
<1>1. Floor(x, d) \in Int /\ x % d = x - Floor(x, d) /\ \E k \in Int : Floor(x, d) = k * d
  BY FloorIs
<1> QED
  BY <1>1

LEMMA Bars ==
  ASSUME now \in Int
  PROVE  /\ Bar \in Int /\ Bar <= now /\ now < Bar + Hour
         /\ \E k \in Int : Bar = k * Hour
         /\ \A r \in Audited : r \in Rows /\ IsBar(r, Bar)
<1>1. now <= now
  OBVIOUS
<1>2. Bar \in Int /\ Bar <= now /\ now < Bar + Hour /\ \E k \in Int : Bar = k * Hour
  BY <1>1, Hours DEF Bar
<1>3. \A r \in Audited : r \in Rows /\ IsBar(r, Bar)
  <2> SUFFICES ASSUME NEW r \in Audited
               PROVE  r \in Rows /\ IsBar(r, Bar)
    OBVIOUS
  <2>1. r \in Rows /\ Bar % Period[r] = 0 /\ Period[r] \in Nat \ {0}
    BY Cadence DEF Audited
  <2> QED
    BY <1>2, <2>1, Multiples DEF IsBar
<1> QED
  BY <1>2, <1>3

(* The hours and the start are counted in ticks, so the first hour begins  *)
(* with the start or before it.                                            *)
LEMMA FirstBar ==
  ASSUME NEW b \in Int, \E k \in Int : b = k * Hour, b <= Start + 1
  PROVE  b <= Start
<1>1. Tick \in Nat /\ Tick >= 2 /\ Hour \in Int /\ Start \in Int
  BY Cadence
<1>2. PICK k \in Int : b = k * Hour
  OBVIOUS
<1>3. PICK h \in Int : Hour = h * Tick
  BY <1>1, Multiples, DispatchAuditAssumption
<1>4. PICK s \in Int : Start = s * Tick
  BY <1>1, Multiples, DispatchAuditAssumption
<1>5. b = (k * h) * Tick /\ k * h \in Int
  <2>1. k * (h * Tick) = (k * h) * Tick /\ k * h \in Int
    BY <1>1
  <2> QED
    BY <1>2, <1>3, <2>1
<1> DEFINE m == k * h
<1>6. m \in Int /\ b = m * Tick
  BY <1>5
<1> HIDE DEF m
<1>7. CASE m <= s
  <2>1. m * Tick <= s * Tick
    BY <1>1, <1>6, <1>7, Times
  <2> QED
    BY <1>4, <1>6, <2>1
<1>8. CASE s + 1 <= m
  <2>1. (s + 1) * Tick <= m * Tick /\ (s + 1) * Tick = s * Tick + Tick /\ s * Tick \in Int
    BY <1>1, <1>6, <1>8, Times
  <2> DEFINE start == s * Tick
             bar == m * Tick
             next == (s + 1) * Tick
  <2>2. start = Start /\ bar = b /\ next <= bar /\ next = start + Tick /\ start \in Int
    BY <1>4, <1>6, <2>1
  <2> HIDE DEF start, bar, next
  <2> QED
    BY <1>1, <2>2
<1> QED
  BY <1>6, <1>7, <1>8

(* How wide that is: a bar and an hour, a bar and two ticks.               *)
LEMMA WideOf ==
  ASSUME NEW r \in Rows
  PROVE  /\ Wide(r) \in Int /\ IsBar(r, Wide(r))
         /\ Period[r] + Hour <= Wide(r) /\ Period[r] + 2 * Tick <= Wide(r)
<1> DEFINE p == Period[r]
           longer == Max({p, Hour})
           some == (RealignBars - 1) * p
           all == RealignBars * p
           wide == Wide(r)
<1>1. /\ p \in Nat \ {0} /\ Hour \in Nat \ {0} /\ RealignBars \in Nat /\ RealignBars >= 2
      /\ Tick \in Nat /\ 2 * Tick <= p /\ (Hour % p = 0 \/ p % Hour = 0)
  BY Cadence, DispatchAuditAssumption
<1>2. longer \in {p, Hour} /\ longer >= p /\ longer >= Hour
  <2>1. p \in Int /\ Hour \in Int
    BY <1>1
  <2> HIDE DEF p
  <2> QED
    BY <2>1, MaxOfTwo
<1>3. wide = some + longer
  BY DEF Wide
<1>4. some \in Int /\ p <= some
  <2> HIDE DEF p
  <2>1. RealignBars - 1 \in Int /\ 1 <= RealignBars - 1 /\ p \in Nat
    BY <1>1
  <2>2. 1 * p <= (RealignBars - 1) * p
    BY <2>1, Times
  <2> QED
    BY <1>1, <2>2
<1>5. IsBar(r, wide)
  <2>1. CASE longer = p
    <3> HIDE DEF p, longer
    <3>1. (RealignBars - 1) * p + p = RealignBars * p /\ RealignBars \in Int
      BY <1>1
    <3> QED
      BY <1>3, <2>1, <3>1 DEF IsBar, p
  <2>2. CASE longer = Hour /\ Hour % p = 0
    <3> HIDE DEF p, longer
    <3>1. PICK h \in Int : Hour = h * p
      BY <1>1, <2>2, Multiples
    <3>2. (RealignBars - 1) * p + h * p = (RealignBars - 1 + h) * p /\ RealignBars - 1 + h \in Int
      BY <1>1
    <3> QED
      BY <1>3, <2>2, <3>1, <3>2 DEF IsBar, p
  <2>3. CASE longer = Hour /\ longer # p /\ p % Hour = 0
    <3> HIDE DEF p, longer
    <3>1. p < Hour
      BY <1>1, <1>2, <2>3
    <3>2. PICK k \in Int : p = k * Hour
      BY <1>1, <2>3, Multiples
    <3>3. CASE k <= 0
      <4>1. k * Hour <= 0 * Hour /\ 0 * Hour = 0
        BY <1>1, <3>3, Times
      <4> QED
        BY <1>1, <3>2, <4>1
    <3>4. CASE 1 <= k
      <4>1. 1 * Hour <= k * Hour /\ 1 * Hour = Hour
        BY <1>1, <3>4, Times
      <4> QED
        BY <1>1, <3>1, <3>2, <4>1
    <3> QED
      BY <3>3, <3>4
  <2> QED
    BY <1>1, <1>2, <2>1, <2>2, <2>3
<1> HIDE DEF p, longer, some, all, wide
<1>6. wide \in Int /\ p + Hour <= wide /\ p + 2 * Tick <= wide
  BY <1>1, <1>2, <1>3, <1>4
<1> QED
  BY <1>5, <1>6 DEF wide, p

(* A time is of a bar from the bar's due time to that of the next. *)
LEMMA TargetAt ==
  ASSUME NEW r \in Rows, setting \in Settings, NEW t \in Int,
         NEW b \in Int, IsBar(r, b)
  PROVE  /\ Target(r, t) \in Int
         /\ Target(r, t) >= b <=> t >= b + Shift[setting][r]
         /\ Target(r, t) = b <=> /\ b + Shift[setting][r] <= t
                                 /\ t < b + Shift[setting][r] + Period[r]
<1> DEFINE p == Period[r]
           s == Shift[setting][r]
           f == Floor(t - s, p)
<1>1. p \in Nat \ {0} /\ s \in Nat /\ t - s \in Int
  BY AuditConstants
<1>2. PICK k \in Int : b = k * p
  BY DEF IsBar
<1>3. Target(r, t) = f
  BY DEF Target
<1> HIDE DEF p, s
<1>4. /\ f \in Int /\ f <= t - s /\ t - s < f + p
      /\ \E m \in Int : f = m * p
      /\ \A m \in Int : m * p <= t - s => m * p <= f
  BY <1>1, FloorIs
<1>5. PICK m \in Int : f = m * p
  BY <1>4
<1> HIDE DEF f
<1>6. b <= t - s => b <= f
  BY <1>2, <1>4
<1>7. f > b => f >= b + p
  <2>1. CASE m <= k
    BY <1>1, <1>2, <1>4, <1>5, <2>1, Times
  <2>2. CASE k + 1 <= m
    <3>1. (k + 1) * p <= m * p
      BY <1>1, <2>2, Times
    <3>2. (k + 1) * p = k * p + p
      BY <1>1
    <3> QED
      BY <1>2, <1>5, <3>1, <3>2
  <2> QED
    BY <2>1, <2>2
<1>8. f >= b <=> t >= b + s
  BY <1>1, <1>4, <1>6
<1>9. f = b <=> b + s <= t /\ t < b + s + p
  BY <1>1, <1>4, <1>6, <1>7
<1> QED
  BY <1>3, <1>4, <1>8, <1>9 DEF p, s

LEMMA Later ==
  ASSUME NEW r \in Rows, setting \in Settings, NEW t \in Int, NEW u \in Int, t <= u
  PROVE  Target(r, t) \in Int /\ Target(r, u) \in Int /\ Target(r, t) <= Target(r, u)
<1> DEFINE p == Period[r]
           s == Shift[setting][r]
<1>1. p \in Nat \ {0} /\ s \in Nat /\ t - s \in Int /\ u - s \in Int /\ t - s <= u - s
  BY AuditConstants
<1>2. Target(r, t) = Floor(t - s, p) /\ Target(r, u) = Floor(u - s, p)
  BY DEF Target
<1> HIDE DEF p, s
<1>3. PICK k \in Int : Floor(t - s, p) = k * p
  BY <1>1, FloorIs
<1>4. Floor(t - s, p) \in Int /\ Floor(t - s, p) <= t - s
  BY <1>1, FloorIs
<1>5. Floor(u - s, p) \in Int /\ (k * p <= u - s => k * p <= Floor(u - s, p))
  BY <1>1, FloorIs
<1> QED
  BY <1>1, <1>2, <1>3, <1>4, <1>5

(* The ledger's upsert, once more: the events of a bucket have different   *)
(* dispositions, so it makes or changes one.                               *)
Unique(events) ==
  \A e, o \in events : e.bucket = o.bucket /\ e.disposition = o.disposition => e = o

Upped(o, e) ==
  [bucket |-> o.bucket, due |-> o.due, first |-> o.first, n |-> o.n + 1,
   disposition |-> o.disposition, fired |-> IF e.fired = Never THEN o.fired ELSE e.fired]

LEMMA UpsertOne ==
  ASSUME NEW events \in SUBSET Records, Unique(events), NEW e \in Records
  PROVE  \/ /\ \A o \in events : o.bucket # e.bucket \/ o.disposition # e.disposition
            /\ Upsert(events, e) = events \cup {e}
         \/ \E o \in events :
              /\ o.bucket = e.bucket /\ o.disposition = e.disposition
              /\ Upped(o, e) \in Records
              /\ Upsert(events, e) = (events \ {o}) \cup {Upped(o, e)}
<1> DEFINE same == {o \in events : o.bucket = e.bucket /\ o.disposition = e.disposition}
           up(o) == [o EXCEPT !.n = @ + 1, !.fired = IF e.fired = Never THEN @ ELSE e.fired]
           more == {up(o) : o \in same}
<1>1. Upsert(events, e) = IF same = {} THEN events \cup {e} ELSE (events \ same) \cup more
  BY DEF Upsert
<1>2. CASE same = {}
  BY <1>1, <1>2
<1>3. CASE same # {}
  <2>1. PICK o \in same : same = {o}
    BY <1>3 DEF Unique
  <2>2. o \in Records /\ o.n \in Nat \ {0} /\ o.fired \in Int /\ e.fired \in Int
    BY DEF Records
  <2>3. Upped(o, e) \in Records
    BY <2>2 DEF Records, Upped
  <2>4. up(o) = Upped(o, e)
    <3> DEFINE fired == IF e.fired = Never THEN o.fired ELSE e.fired
               mid == [o EXCEPT !.n = o.n + 1]
    <3>1. mid = [bucket |-> o.bucket, due |-> o.due, first |-> o.first, n |-> o.n + 1,
                 disposition |-> o.disposition, fired |-> o.fired]
      BY <2>2 DEF Records
    <3>2. up(o) = [mid EXCEPT !.fired = fired]
      <4> HIDE DEF fired
      <4>1. up(o) = [o EXCEPT !.n = o.n + 1, !.fired = fired]
        BY <2>2 DEF Records, fired
      <4> QED
        BY <4>1
    <3> HIDE DEF fired, mid
    <3>3. [mid EXCEPT !.fired = fired]
            = [bucket |-> o.bucket, due |-> o.due, first |-> o.first, n |-> o.n + 1,
               disposition |-> o.disposition, fired |-> fired]
      BY <3>1
    <3> QED
      BY <3>2, <3>3 DEF Upped, fired
  <2> HIDE DEF up
  <2>5. more = {Upped(o, e)}
    BY <2>1, <2>4
  <2> QED
    BY <1>1, <1>3, <2>1, <2>3, <2>5
<1> QED
  BY <1>2, <1>3

(* How many ticks the events of a bucket tell of. *)
Kinds(events) == \A e, o \in events : e.disposition = o.disposition => e = o
Waits == {"fetch_failed", "errored", "deferred_budget", "skipped_exhausted"}
Waiting(events) == {e \in events : e.disposition \notin Stamping}

LEMMA KindsOfFate == /\ Dispositions = Stamping \cup Waits /\ Stamping \cap Waits = {}
BY DEF Dispositions, Stamping, Waits

LEMMA CountIs ==
  ASSUME NEW events, Kinds(events), NEW kind
  PROVE  /\ \A e \in events : e.disposition = kind => Count(events, kind) = e.n
         /\ (\A e \in events : e.disposition # kind) => Count(events, kind) = 0
<1>1. ASSUME NEW e \in events, e.disposition = kind PROVE Count(events, kind) = e.n
  <2> DEFINE chosen == CHOOSE o \in events : o.disposition = kind
  <2>1. chosen \in events /\ chosen.disposition = kind
    BY <1>1
  <2>2. chosen = e
    <3> HIDE DEF chosen
    <3> QED
      BY <1>1, <2>1 DEF Kinds
  <2>3. Count(events, kind) = chosen.n
    BY <1>1 DEF Count
  <2> QED
    BY <2>2, <2>3
<1>2. (\A e \in events : e.disposition # kind) => Count(events, kind) = 0
  BY DEF Count
<1> QED
  BY <1>1, <1>2

LEMMA CountType ==
  ASSUME NEW events \in SUBSET Records, Kinds(events)
  PROVE  (\A kind : Count(events, kind) \in Nat) /\ Ticks(events) \in Nat
<1>1. ASSUME NEW kind PROVE Count(events, kind) \in Nat
  <2>1. CASE \E e \in events : e.disposition = kind
    <3>1. PICK e \in events : e.disposition = kind
      BY <2>1
    <3>2. e.n \in Nat
      BY DEF Records
    <3> QED
      BY <3>1, <3>2, CountIs
  <2>2. CASE \A e \in events : e.disposition # kind
    BY <2>2, CountIs
  <2> QED
    BY <2>1, <2>2
<1> QED
  BY <1>1 DEF Ticks

LEMMA CountOfWaiting ==
  ASSUME NEW events, Kinds(events)
  PROVE  /\ Kinds(Waiting(events))
         /\ \A kind \in Waits : Count(Waiting(events), kind) = Count(events, kind)
         /\ Ticks(Waiting(events)) = Ticks(events)
<1>1. Kinds(Waiting(events))
  BY DEF Kinds, Waiting
<1>2. ASSUME NEW kind \in Waits PROVE Count(Waiting(events), kind) = Count(events, kind)
  <2>0. kind \notin Stamping
    BY KindsOfFate
  <2>1. CASE \E e \in events : e.disposition = kind
    <3>1. PICK e \in events : e.disposition = kind
      BY <2>1
    <3>2. e \in Waiting(events)
      BY <2>0, <3>1 DEF Waiting
    <3>3. Count(events, kind) = e.n
      BY <3>1, CountIs
    <3>4. Count(Waiting(events), kind) = e.n
      BY <1>1, <3>1, <3>2, CountIs
    <3> QED
      BY <3>3, <3>4
  <2>2. CASE \A e \in events : e.disposition # kind
    <3>1. \A e \in Waiting(events) : e.disposition # kind
      BY <2>2 DEF Waiting
    <3> QED
      BY <1>1, <2>2, <3>1, CountIs
  <2> QED
    BY <2>1, <2>2
<1>3. Ticks(Waiting(events)) = Ticks(events)
  BY <1>2 DEF Ticks, Waits
<1> QED
  BY <1>1, <1>2, <1>3

LEMMA CountsUp ==
  ASSUME NEW events \in SUBSET Records, NEW e \in Records, e.n = 1,
         Kinds(events), \A o \in events : o.bucket = e.bucket
  PROVE  /\ Kinds(Upsert(events, e)) /\ Upsert(events, e) \in SUBSET Records
         /\ \A o \in Upsert(events, e) : o.bucket = e.bucket
         /\ \A kind : Count(Upsert(events, e), kind)
                        = Count(events, kind) + (IF kind = e.disposition THEN 1 ELSE 0)
         /\ Ticks(Upsert(events, e))
              = Ticks(events) + (IF e.disposition \in Stamping THEN 0 ELSE 1)
<1> DEFINE up == Upsert(events, e)
<1>0. Unique(events) /\ \A kind : Count(events, kind) \in Nat
  BY CountType DEF Unique, Kinds
<1>1. /\ Kinds(up) /\ up \in SUBSET Records /\ \A o \in up : o.bucket = e.bucket
      /\ \A kind : Count(up, kind) = Count(events, kind) + (IF kind = e.disposition THEN 1 ELSE 0)
  <2>1. CASE /\ \A o \in events : o.bucket # e.bucket \/ o.disposition # e.disposition
             /\ up = events \cup {e}
    <3>1. \A o \in events : o.disposition # e.disposition
      BY <2>1
    <3>2. Kinds(up) /\ up \in SUBSET Records /\ \A o \in up : o.bucket = e.bucket
      BY <2>1, <3>1 DEF Kinds
    <3>3. e \in up /\ events \subseteq up /\ \A o \in up : o \in events \/ o = e
      BY <2>1
    <3> HIDE DEF up
    <3>4. ASSUME NEW kind
          PROVE  Count(up, kind) = Count(events, kind) + (IF kind = e.disposition THEN 1 ELSE 0)
      <4>1. CASE kind = e.disposition
        <5>1. Count(up, kind) = 1
          BY <3>2, <3>3, <4>1, CountIs
        <5>2. Count(events, kind) = 0
          BY <3>1, <4>1, CountIs
        <5> QED
          BY <4>1, <5>1, <5>2
      <4>2. CASE kind # e.disposition /\ \E o \in events : o.disposition = kind
        <5>1. PICK o \in events : o.disposition = kind
          BY <4>2
        <5>2. Count(up, kind) = o.n
          BY <3>2, <3>3, <5>1, CountIs
        <5>3. Count(events, kind) = o.n
          BY <5>1, CountIs
        <5> QED
          BY <1>0, <4>2, <5>2, <5>3
      <4>3. CASE kind # e.disposition /\ \A o \in events : o.disposition # kind
        <5>1. \A o \in up : o.disposition # kind
          BY <3>3, <4>3
        <5>2. Count(up, kind) = 0
          BY <3>2, <5>1, CountIs
        <5>3. Count(events, kind) = 0
          BY <4>3, CountIs
        <5> QED
          BY <4>3, <5>2, <5>3
      <4> QED
        BY <4>1, <4>2, <4>3
    <3> QED
      BY <3>2, <3>4
  <2>2. ASSUME NEW o \in events, o.bucket = e.bucket, o.disposition = e.disposition,
               Upped(o, e) \in Records, up = (events \ {o}) \cup {Upped(o, e)}
        PROVE  /\ Kinds(up) /\ up \in SUBSET Records /\ \A y \in up : y.bucket = e.bucket
               /\ \A kind : Count(up, kind)
                              = Count(events, kind) + (IF kind = e.disposition THEN 1 ELSE 0)
    <3> DEFINE x == Upped(o, e)
    <3>1. x \in Records /\ x.disposition = e.disposition /\ x.bucket = e.bucket /\ x.n = o.n + 1
      BY <2>2 DEF Upped
    <3>2. x \in up /\ \A y \in up : y = x \/ (y \in events /\ y # o)
      BY <2>2
    <3>3. \A y \in events : y = o \/ (y \in up /\ y.disposition # e.disposition)
      BY <2>2 DEF Kinds
    <3> HIDE DEF up, x
    <3>4. Kinds(up) /\ up \in SUBSET Records /\ \A y \in up : y.bucket = e.bucket
      BY <2>2, <3>1, <3>2, <3>3 DEF Kinds
    <3>5. ASSUME NEW kind
          PROVE  Count(up, kind) = Count(events, kind) + (IF kind = e.disposition THEN 1 ELSE 0)
      <4>1. CASE kind = e.disposition
        <5>1. Count(up, kind) = x.n
          BY <3>1, <3>2, <3>4, <4>1, CountIs
        <5>2. Count(events, kind) = o.n
          BY <2>2, <4>1, CountIs
        <5> QED
          BY <3>1, <4>1, <5>1, <5>2
      <4>2. CASE kind # e.disposition /\ \E y \in events : y.disposition = kind
        <5>1. PICK y \in events : y.disposition = kind
          BY <4>2
        <5>2. y \in up
          BY <2>2, <3>3, <4>2, <5>1
        <5>3. Count(up, kind) = y.n
          BY <3>4, <5>1, <5>2, CountIs
        <5>4. Count(events, kind) = y.n
          BY <5>1, CountIs
        <5> QED
          BY <1>0, <4>2, <5>3, <5>4
      <4>3. CASE kind # e.disposition /\ \A y \in events : y.disposition # kind
        <5>1. \A y \in up : y.disposition # kind
          BY <3>1, <3>2, <4>3
        <5>2. Count(up, kind) = 0
          BY <3>4, <5>1, CountIs
        <5>3. Count(events, kind) = 0
          BY <4>3, CountIs
        <5> QED
          BY <4>3, <5>2, <5>3
      <4> QED
        BY <4>1, <4>2, <4>3
    <3> QED
      BY <3>4, <3>5
  <2> HIDE DEF up
  <2>3. \/ (\A o \in events : o.bucket # e.bucket \/ o.disposition # e.disposition)
             /\ up = events \cup {e}
        \/ \E o \in events :
             /\ o.bucket = e.bucket /\ o.disposition = e.disposition
             /\ Upped(o, e) \in Records /\ up = (events \ {o}) \cup {Upped(o, e)}
    BY <1>0, UpsertOne DEF up
  <2> QED
    BY <2>1, <2>2, <2>3
<1> HIDE DEF up
<1>2. Ticks(up) = Ticks(events) + (IF e.disposition \in Stamping THEN 0 ELSE 1)
  <2> DEFINE c(kind) == Count(events, kind)
             u(kind) == Count(up, kind)
  <2>1. \A kind : c(kind) \in Nat /\ u(kind) = c(kind) + (IF kind = e.disposition THEN 1 ELSE 0)
    BY <1>0, <1>1
  <2>2. /\ Ticks(up) = u("fetch_failed") + u("errored") + u("deferred_budget") + u("skipped_exhausted")
        /\ Ticks(events) = c("fetch_failed") + c("errored") + c("deferred_budget") + c("skipped_exhausted")
    BY DEF Ticks
  <2>3. e.disposition \in Stamping \cup Waits
    BY KindsOfFate DEF Records
  <2> HIDE DEF c, u
  <2>4. CASE e.disposition \in Stamping
    <3>1. \A kind \in Waits : u(kind) = c(kind) /\ c(kind) \in Nat
      <4>1. \A kind \in Waits : kind # e.disposition
        BY <2>4, KindsOfFate
      <4> QED
        BY <2>1, <4>1
    <3>2. Ticks(up) = Ticks(events) /\ Ticks(events) \in Nat
      BY <2>2, <3>1 DEF Waits
    <3> QED
      BY <2>4, <3>2
  <2>5. CASE e.disposition \in Waits
    <3>1. e.disposition \notin Stamping
      BY <2>5, KindsOfFate
    <3>2. \A kind \in Waits : /\ c(kind) \in Nat
                              /\ u(kind) = c(kind) + (IF kind = e.disposition THEN 1 ELSE 0)
      BY <2>1
    <3>3. Ticks(up) = Ticks(events) + 1
      BY <2>2, <2>5, <3>2 DEF Waits
    <3> QED
      BY <3>1, <3>3
  <2> QED
    BY <2>3, <2>4, <2>5
<1> QED
  BY <1>1, <1>2 DEF up

(* One event alone, and none. *)
LEMMA CountOfOne ==
  ASSUME NEW e \in Records, e.disposition \in Waits
  PROVE  Ticks({e}) = e.n
<1>1. Kinds({e}) /\ e.n \in Nat
  BY DEF Kinds, Records
<1>2. Count({e}, e.disposition) = e.n /\ \A kind : kind # e.disposition => Count({e}, kind) = 0
  BY <1>1, CountIs
<1> QED
  BY <1>1, <1>2 DEF Ticks, Waits

LEMMA CountOfNone == Ticks({}) = 0 /\ \A kind : Count({}, kind) = 0
BY DEF Ticks, Count

(* A tick of which nothing is to be said but what it did with the rows.    *)
LeftWaiting(r) ==
  /\ account'[r].fired = Never /\ rows'[r].stamp = rows[r].stamp
  /\ \/ /\ account'[r].disposition = "fetch_failed"
        /\ rows'[r].fails = rows[r].fails + 1 /\ rows[r].fails + 1 < MaxAttempts
     \/ /\ account'[r].disposition \in Waits \ {"fetch_failed"}
        /\ rows'[r].fails = rows[r].fails
Serviced(r, t) ==
  /\ account'[r].disposition \in Stamping /\ account'[r].fired = rows'[r].stamp
  /\ rows'[r].stamp \in Int /\ t <= rows'[r].stamp /\ rows'[r].stamp < t + Tick
  /\ Target(r, rows'[r].stamp) = Target(r, t) /\ rows'[r].fails = 0
RowTick(r, t) ==
  /\ rows'[r].added = rows[r].added
  /\ IF IsDue(r, t) THEN r \in DOMAIN account' /\ (LeftWaiting(r) \/ Serviced(r, t))
     ELSE r \notin DOMAIN account' /\ rows'[r] = rows[r]
Cycled ==
  /\ account = None /\ account' # None /\ now' = now + Tick
  /\ UNCHANGED <<setting, ledger, settled>>
  /\ \A r \in Rows : RowTick(r, now + Tick)

LEMMA AfterIs ==
  ASSUME NEW row \in [stamp : Int, fails : Int, added : Int], NEW t \in Int,
         NEW fate \in Dispositions
  PROVE  LET after == After(row, fate, t)
         IN  /\ after.added = row.added
             /\ fate \in Stamping => after.stamp = t /\ after.fails = 0
             /\ fate = "fetch_failed" => after.stamp = row.stamp /\ after.fails = row.fails + 1
             /\ fate \in Waits \ {"fetch_failed"} => after = row
<1>1. CASE fate \in Stamping
  <2>1. fate # "fetch_failed" /\ fate \notin Waits
    BY <1>1 DEF Stamping, Waits
  <2>2. After(row, fate, t) = [row EXCEPT !.stamp = t, !.fails = 0]
    BY <1>1, <2>1 DEF After
  <2> DEFINE stamped == [row EXCEPT !.stamp = t]
             after == [stamped EXCEPT !.fails = 0]
  <2>3. stamped = [stamp |-> t, fails |-> row.fails, added |-> row.added]
    OBVIOUS
  <2>4. after = [stamp |-> t, fails |-> 0, added |-> row.added]
    <3> HIDE DEF stamped
    <3> QED
      BY <2>3
  <2>5. After(row, fate, t) = after
    BY <2>2
  <2> HIDE DEF after
  <2> QED
    BY <1>1, <2>1, <2>4, <2>5
<1>2. CASE fate = "fetch_failed"
  <2>1. fate \notin Stamping
    BY <1>2 DEF Stamping
  <2>2. After(row, fate, t) = [row EXCEPT !.fails = row.fails + 1]
    BY <1>2, <2>1 DEF After
  <2> QED
    BY <1>2, <2>1, <2>2
<1>3. CASE fate \in Waits \ {"fetch_failed"}
  <2>1. fate \notin Stamping \cup {"fetch_failed"}
    BY <1>3, KindsOfFate
  <2>2. After(row, fate, t) = row
    BY <2>1 DEF After
  <2> QED
    BY <1>3, <2>1, <2>2
<1> QED
  BY <1>1, <1>2, <1>3, KindsOfFate

LEMMA RunIsCycled ==
  ASSUME AuditShape, WatchesTyped, RunCycle, seen' = {}
  PROVE  Cycled
<1> DEFINE t == now + Tick
           S == {r \in Rows : IsDue(r, t)}
<1>0. PICK odd \in Rows : \E fate \in Fates(odd), exec \in Execs :
        LET fates == [r \in S |-> IF r = odd THEN fate ELSE Ordinary(r)]
            stamp == [r \in S |-> t + IF r = odd THEN exec ELSE Min(Execs)]
        IN  /\ account' = [r \in S |->
                 [disposition |-> fates[r],
                  fired |-> IF fates[r] \in Stamping THEN stamp[r] ELSE Never]]
            /\ rows' = [r \in Rows |->
                 IF r \in S THEN After(rows[r], fates[r], stamp[r]) ELSE rows[r]]
            /\ seen' = IF \E r \in S : fates[r] \in Stamping
                                       /\ Target(r, stamp[r]) # Target(r, t)
                       THEN seen \cup {"crossed"} ELSE seen
  BY DEF RunCycle
<1>1. PICK fate \in Fates(odd), exec \in Execs :
        LET fates == [r \in S |-> IF r = odd THEN fate ELSE Ordinary(r)]
            stamp == [r \in S |-> t + IF r = odd THEN exec ELSE Min(Execs)]
        IN  /\ account' = [r \in S |->
                 [disposition |-> fates[r],
                  fired |-> IF fates[r] \in Stamping THEN stamp[r] ELSE Never]]
            /\ rows' = [r \in Rows |->
                 IF r \in S THEN After(rows[r], fates[r], stamp[r]) ELSE rows[r]]
            /\ seen' = IF \E r \in S : fates[r] \in Stamping
                                       /\ Target(r, stamp[r]) # Target(r, t)
                       THEN seen \cup {"crossed"} ELSE seen
  BY <1>0
<1> DEFINE fates == [r \in S |-> IF r = odd THEN fate ELSE Ordinary(r)]
           stamp == [r \in S |-> t + IF r = odd THEN exec ELSE Min(Execs)]
<1>2. /\ account' = [r \in S |->
           [disposition |-> fates[r],
            fired |-> IF fates[r] \in Stamping THEN stamp[r] ELSE Never]]
      /\ rows' = [r \in Rows |->
           IF r \in S THEN After(rows[r], fates[r], stamp[r]) ELSE rows[r]]
      /\ \A r \in S : fates[r] \in Stamping => Target(r, stamp[r]) = Target(r, t)
  BY <1>1
<1>3. account = None /\ now' = t /\ UNCHANGED <<setting, ledger, settled>>
  BY DEF RunCycle
<1>4. t \in Int /\ now \in Nat /\ Tick \in Nat /\ Tick > 0
  BY AuditConstants DEF AuditShape
<1>5. \A e \in Execs : e \in Nat /\ e < Tick
  BY DispatchAuditAssumption
<1>6. exec \in Execs /\ Min(Execs) \in Execs
  <2>1. Execs \in SUBSET Nat /\ Execs # {}
    BY <1>5
  <2>2. \E x \in Execs : \A y \in Execs : x <= y
    BY <2>1, Smallest
  <2> QED
    BY <2>2 DEF Min
<1>7. \A r \in S : stamp[r] \in Int /\ t <= stamp[r] /\ stamp[r] < t + Tick
  BY <1>4, <1>5, <1>6
<1>8. \A r \in S : /\ fates[r] \in Dispositions
                   /\ fates[r] = "fetch_failed" => rows[r].fails + 1 < MaxAttempts
  <2>1. ASSUME NEW r \in Rows
        PROVE  Ordinary(r) \in Dispositions /\ Ordinary(r) # "fetch_failed"
    BY DEF Ordinary, Dispositions, Stamping
  <2>2. /\ fate \in Dispositions
        /\ fate = "fetch_failed" => rows[odd].fails + 1 < MaxAttempts
    <3>1. \/ fate = Ordinary(odd) \/ fate = Failed(odd) \/ fate \in {"errored", "deferred_budget"}
      BY DEF Fates
    <3>2. Failed(odd) \in Dispositions
      BY DEF Failed, Dispositions, Stamping
    <3>3. Failed(odd) = "fetch_failed" => ~(rows[odd].fails + 1 >= MaxAttempts)
      BY DEF Failed
    <3>4. rows[odd].fails \in Int /\ MaxAttempts \in Int
      BY AuditConstants DEF WatchesTyped
    <3>5. {"errored", "deferred_budget"} \subseteq Dispositions \ {"fetch_failed"}
      BY DEF Dispositions
    <3> QED
      BY <2>1, <3>1, <3>2, <3>3, <3>4, <3>5
  <2> QED
    BY <2>1, <2>2
<1>9. \A r \in Rows : rows[r] \in [stamp : Int, fails : Int, added : Int]
  BY DEF WatchesTyped
<1>10. account' # None
  <2>1. account' \in Accounts(S)
    <3> HIDE DEF S, t, fates, stamp
    <3>1. Never \in Int
      BY DEF Never
    <3>2. ASSUME NEW r \in S
          PROVE  [disposition |-> fates[r],
                  fired |-> IF fates[r] \in Stamping THEN stamp[r] ELSE Never]
                   \in [disposition : Dispositions, fired : Int]
      BY <1>7, <1>8, <3>1
    <3> QED
      BY <1>2, <3>2 DEF Accounts
  <2> QED
    BY <2>1, NoneAssumption
<1>11. ASSUME NEW r \in Rows PROVE RowTick(r, t)
  <2>1. CASE ~IsDue(r, t)
    <3>1. r \notin S
      BY <2>1
    <3> HIDE DEF S, t, fates, stamp
    <3>2. rows'[r] = rows[r] /\ r \notin DOMAIN account'
      BY <1>2, <3>1
    <3> QED
      BY <2>1, <3>2 DEF RowTick
  <2>2. CASE IsDue(r, t)
    <3>1. r \in S
      BY <2>2
    <3> HIDE DEF S, t, fates, stamp
    <3> DEFINE f == fates[r]
               s == stamp[r]
               row == rows[r]
    <3>2. /\ rows'[r] = After(row, f, s) /\ r \in DOMAIN account'
          /\ account'[r].disposition = f
          /\ account'[r].fired = IF f \in Stamping THEN s ELSE Never
          /\ f \in Stamping => Target(r, s) = Target(r, t)
      BY <1>2, <3>1
    <3>3. /\ f \in Dispositions /\ s \in Int /\ t <= s /\ s < t + Tick
          /\ f = "fetch_failed" => row.fails + 1 < MaxAttempts
          /\ row \in [stamp : Int, fails : Int, added : Int]
      BY <1>7, <1>8, <1>9, <3>1
    <3> HIDE DEF f, s, row
    <3>4. /\ rows'[r].added = row.added
          /\ f \in Stamping => rows'[r].stamp = s /\ rows'[r].fails = 0
          /\ f = "fetch_failed" => rows'[r].stamp = row.stamp /\ rows'[r].fails = row.fails + 1
          /\ f \in Waits \ {"fetch_failed"} => rows'[r] = row
      BY <3>2, <3>3, AfterIs
    <3>5. f \in Stamping => Serviced(r, t)
      BY <3>2, <3>3, <3>4 DEF Serviced
    <3>6. f \in Waits => LeftWaiting(r)
      <4>1. f \in Waits => f \notin Stamping
        BY KindsOfFate
      <4> QED
        BY <3>2, <3>3, <3>4, <4>1 DEF LeftWaiting, row
    <3>7. f \in Stamping \cup Waits
      BY <3>3, KindsOfFate
    <3> QED
      BY <2>2, <3>2, <3>4, <3>5, <3>6, <3>7 DEF RowTick, row
  <2> QED
    BY <2>1, <2>2
<1> QED
  BY <1>3, <1>10, <1>11 DEF Cycled

LEMMA ErrsIsCycled ==
  ASSUME AuditShape, CycleErrs
  PROVE  Cycled
<1> DEFINE t == now + Tick
           S == {r \in Rows : IsDue(r, t)}
           fate(r) == IF r \in walled THEN "skipped_exhausted" ELSE "errored"
<1>1. /\ account = None /\ now' = t /\ UNCHANGED <<setting, rows, ledger, settled>>
      /\ account' = [r \in S |-> [disposition |-> fate(r), fired |-> Never]]
  BY DEF CycleErrs
<1>2. \A r : fate(r) \in Waits \ {"fetch_failed"} /\ fate(r) \in Dispositions
  BY DEF Dispositions, Waits
<1>3. account' # None
  <2> HIDE DEF fate, S, t
  <2>1. account' \in Accounts(S)
    BY <1>1, <1>2 DEF Accounts, Never
  <2> QED
    BY <2>1, NoneAssumption DEF S
<1>4. ASSUME NEW r \in Rows PROVE RowTick(r, t)
  <2>1. r \in S <=> IsDue(r, t)
    OBVIOUS
  <2> HIDE DEF fate, S, t
  <2>2. CASE ~IsDue(r, t)
    BY <1>1, <2>1, <2>2 DEF RowTick
  <2>3. CASE IsDue(r, t)
    <3>1. /\ r \in DOMAIN account' /\ account'[r].disposition = fate(r)
          /\ account'[r].fired = Never
      BY <1>1, <2>1, <2>3
    <3> QED
      BY <1>1, <1>2, <2>3, <3>1 DEF RowTick, LeftWaiting
  <2> QED
    BY <2>2, <2>3
<1> QED
  BY <1>1, <1>3, <1>4 DEF Cycled

(* A flush, as far as the bar of the hour goes. *)
Pending(r) == account # None /\ r \in DOMAIN account /\ Target(r, now) = Bar
Dues(r) == Bar + Shift[setting][r]
BarEnds(r) == Dues(r) + Period[r]

LEMMA AtFlush ==
  ASSUME AuditInv, Flush, NEW r \in Rows, Unique(ledger[r])
  PROVE  /\ Bar' = Bar
         /\ At(r, Bar)' = IF Pending(r) THEN Upsert(At(r, Bar), Event(r)) ELSE At(r, Bar)
<1>0. /\ AuditShape /\ account # None /\ now' = now
      /\ ledger' = [q \in Rows |-> Pruned(Written(q))]
      /\ ledger[r] \in SUBSET Records /\ IsFiniteSet(ledger[r])
  BY DEF AuditInv, AuditShape, Flush
<1>1. Bar' = Bar
  BY <1>0 DEF Bar, HourOf, Floor
<1> DEFINE b == Bar
           old == At(r, b)
           later == {e \in Written(r) : e.bucket = b}
           ev == Event(r)
<1>2. old = {e \in ledger[r] : e.bucket = b}
  BY DEF At
<1>3. r \in DOMAIN account =>
        /\ ev \in Records /\ ev.n = 1 /\ ev.bucket = Target(r, now)
        /\ Written(r) = Upsert(ledger[r], ev)
  BY <1>0, EventIs DEF Written
<1>4. Written(r) \in SUBSET Records /\ IsFiniteSet(Written(r))
  BY <1>0, <1>3, UpsertIs DEF Written
<1>5. At(r, Bar)' = later
  <2>1. ledger'[r] = Pruned(Written(r))
    BY <1>0
  <2>2. /\ Pruned(Written(r)) \subseteq Written(r)
        /\ \A e \in Written(r) : e.bucket = Bar => e \in Pruned(Written(r))
    BY <1>0, <1>4, PrunedIs
  <2>3. At(r, Bar)' = {e \in ledger'[r] : e.bucket = Bar}
    BY <1>1 DEF At
  <2> QED
    BY <2>1, <2>2, <2>3
<1>6. CASE r \notin DOMAIN account
  BY <1>1, <1>2, <1>5, <1>6 DEF Written, Pending
<1>7. CASE r \in DOMAIN account
  <2>1. ev \in Records /\ ev.bucket = Target(r, now) /\ Written(r) = Upsert(ledger[r], ev)
    BY <1>3, <1>7
  <2>2. Pending(r) <=> ev.bucket = b
    BY <1>0, <1>7, <2>1 DEF Pending
  <2>3. old \in SUBSET Records /\ Unique(old) /\ ledger[r] \in SUBSET Records
    BY <1>0, <1>2 DEF Unique
  <2> HIDE DEF ev
  <2>4. CASE ev.bucket # b
    <3>1. later = old
      <4>1. CASE Upsert(ledger[r], ev) = ledger[r] \cup {ev}
        BY <1>2, <2>1, <2>4, <4>1
      <4>2. ASSUME NEW o \in ledger[r], o.bucket = ev.bucket,
                   Upsert(ledger[r], ev) = (ledger[r] \ {o}) \cup {Upped(o, ev)}
            PROVE  later = old
        <5>1. Upped(o, ev).bucket = o.bucket
          BY DEF Upped
        <5> QED
          BY <1>2, <2>1, <2>4, <4>2, <5>1
      <4> QED
        BY <2>1, <2>3, <4>1, <4>2, UpsertOne
    <3> QED
      BY <1>1, <1>5, <2>2, <2>4, <3>1
  <2>5. CASE ev.bucket = b
    <3>1. later = Upsert(old, ev)
      <4> DEFINE same(events) == {o \in events : o.bucket = ev.bucket /\ o.disposition = ev.disposition}
                 up(o) == [o EXCEPT !.n = @ + 1,
                                    !.fired = IF ev.fired = Never THEN @ ELSE ev.fired]
      <4>1. same(ledger[r]) = same(old)
        BY <1>2, <2>5
      <4>2. \A events : Upsert(events, ev) =
              IF same(events) = {} THEN events \cup {ev}
              ELSE (events \ same(events)) \cup {up(o) : o \in same(events)}
        BY DEF Upsert
      <4>3. \A o \in same(old) : o \in Records /\ o.bucket = b
        BY <1>2, <2>3
      <4>4. \A o \in Records : up(o).bucket = o.bucket
        BY DEF Records
      <4> DEFINE twins == same(old)
                 more == {up(o) : o \in twins}
      <4>5. /\ Upsert(ledger[r], ev) = IF twins = {} THEN ledger[r] \cup {ev}
                                       ELSE (ledger[r] \ twins) \cup more
            /\ Upsert(old, ev) = IF twins = {} THEN old \cup {ev} ELSE (old \ twins) \cup more
        BY <4>1, <4>2
      <4>6. \A x \in more : x.bucket = b
        BY <4>3, <4>4
      <4> HIDE DEF more, twins
      <4> QED
        <5>1. twins \subseteq old /\ twins \subseteq ledger[r]
          BY <1>2 DEF twins
        <5>2. later = {e \in Upsert(ledger[r], ev) : e.bucket = b}
          BY <2>1
        <5>3. CASE twins = {}
          BY <1>2, <2>5, <4>5, <5>2, <5>3
        <5>4. CASE twins # {}
          <6>1. Upsert(ledger[r], ev) = (ledger[r] \ twins) \cup more
            BY <4>5, <5>4
          <6>2. Upsert(old, ev) = (old \ twins) \cup more
            BY <4>5, <5>4
          <6> HIDE DEF later, old, b
          <6> QED
            BY <1>2, <4>6, <5>1, <5>2, <6>1, <6>2
        <5> QED
          BY <5>3, <5>4
    <3> QED
      BY <1>1, <1>5, <2>2, <2>5, <3>1 DEF ev
  <2> QED
    BY <2>4, <2>5
<1> QED
  BY <1>1, <1>6, <1>7

(* What holds of a row and its events while nothing unforeseen happens.    *)
Stamped(r) == account # None /\ r \in DOMAIN account /\ account[r].disposition \in Stamping

(* A stamp is of no tick to come; the account says what was stamped. *)
RowInv(r) ==
  /\ now > Start /\ (now = Start + 1 => rows[r].stamp = Never)
  /\ rows[r].stamp = Never \/ Start < rows[r].stamp
  /\ Start <= rows[r].added
  /\ Never <= rows[r].stamp /\ rows[r].stamp < now + Tick
  /\ 0 <= rows[r].fails /\ rows[r].fails < MaxAttempts
  /\ account # None /\ r \in DOMAIN account =>
       account[r].fired = IF Stamped(r) THEN rows[r].stamp ELSE Never
  /\ Stamped(r) => now <= rows[r].stamp /\ Target(r, rows[r].stamp) = Target(r, now)

(* An event has its place on the clock, and carries a stamp if it tells of one. *)
OnClock(first) == \E m \in Int : now - first = m * Tick
EventInv(r) ==
  /\ \A e \in ledger[r] :
       /\ Start < e.first /\ e.first <= now /\ OnClock(e.first)
       /\ e.bucket <= e.due /\ e.due <= e.first
       /\ Never <= e.fired /\ (e.fired # Never <=> e.disposition \in Stamping)
  /\ Unique(ledger[r])

LEMMA RowTicks ==
  ASSUME AuditShape, WatchesTyped, WatchesTyped', Cycled, NEW r \in Rows, RowInv(r)
  PROVE  RowInv(r)'
<1> DEFINE t == now + Tick
<1>1. /\ now \in Nat /\ t \in Int /\ now' = t /\ t > now /\ Tick \in Nat /\ Hour \in Nat
      /\ MaxAttempts \in Nat /\ MaxAttempts > 0 /\ now > Start /\ Start \in Nat
      /\ rows'[r].added = rows[r].added
  BY Cadence DEF AuditShape, Cycled, RowInv, RowTick
<1>2. /\ setting' = setting /\ account' # None /\ RowTick(r, t)
      /\ \A x : Target(r, x)' = Target(r, x')
  BY DEF Cycled, Target, Floor
<1>3. /\ rows[r].stamp \in Int /\ rows'[r].stamp \in Int /\ rows[r].fails \in Int
      /\ Never <= rows[r].stamp /\ rows[r].stamp < t
      /\ 0 <= rows[r].fails /\ rows[r].fails < MaxAttempts
  BY DEF WatchesTyped, RowInv
<1> HIDE DEF t
<1>4. CASE ~IsDue(r, t)
  <2>1. r \notin DOMAIN account' /\ rows'[r] = rows[r]
    BY <1>2, <1>4 DEF RowTick
  <2> QED
    BY <1>1, <1>3, <2>1 DEF RowInv, Stamped
<1>5. CASE IsDue(r, t) /\ LeftWaiting(r)
  <2>1. account'[r].disposition \notin Stamping
    BY <1>5, KindsOfFate DEF LeftWaiting, Waits, Stamping
  <2>2. ~Stamped(r)' /\ account'[r].fired = Never /\ rows'[r].stamp = rows[r].stamp
    BY <1>5, <2>1 DEF Stamped, LeftWaiting
  <2>3. 0 <= rows'[r].fails /\ rows'[r].fails < MaxAttempts
    BY <1>1, <1>3, <1>5 DEF LeftWaiting
  <2> QED
    BY <1>1, <1>3, <2>2, <2>3 DEF RowInv
<1>6. CASE IsDue(r, t) /\ Serviced(r, t)
  <2>1. r \in DOMAIN account'
    BY <1>2, <1>6 DEF RowTick
  <2>2. /\ Stamped(r)' /\ account'[r].fired = rows'[r].stamp
        /\ t <= rows'[r].stamp /\ rows'[r].stamp < t + Tick /\ rows'[r].fails = 0
        /\ Target(r, rows'[r].stamp) = Target(r, t)
    BY <1>2, <1>6, <2>1 DEF Serviced, Stamped
  <2>3. Target(r, rows[r].stamp)' = Target(r, now)'
    BY <1>1, <1>2, <2>2
  <2>4. Never <= rows'[r].stamp /\ Start < rows'[r].stamp
    BY <1>1, <1>3, <2>2 DEF Never
  <2> QED
    BY <1>1, <2>2, <2>3, <2>4 DEF RowInv
<1> QED
  BY <1>2, <1>4, <1>5, <1>6 DEF RowTick

(* Between ticks a row is as it was, or is the one that was added anew. *)
LEMMA RowBetween ==
  ASSUME AuditShape, NEW r \in Rows, RowInv(r), now' = now, account' = None,
         rows'[r] = rows[r] \/ rows'[r] = NewRow(now + 1)
  PROVE  RowInv(r)'
<1>1. /\ now \in Nat /\ Tick \in Nat /\ MaxAttempts \in Nat /\ MaxAttempts > 0
      /\ Start \in Nat /\ Start < now
  BY Cadence DEF AuditShape, RowInv
<1>2. ~Stamped(r)'
  BY DEF Stamped
<1> QED
  BY <1>1, <1>2 DEF RowInv, NewRow, Never

(* What the books have of a row after the flush. *)
LEMMA WrittenIs ==
  ASSUME AuditInv, account # None, NEW r \in Rows, Unique(ledger[r])
  PROVE  /\ Unique(Written(r))
         /\ \A e \in Written(r) :
              \/ e \in ledger[r]
              \/ /\ r \in DOMAIN account
                 /\ \/ e = Event(r)
                    \/ \E o \in ledger[r] : /\ o.disposition = Event(r).disposition
                                            /\ e = Upped(o, Event(r))
         /\ \A o \in ledger[r] : \E e \in Written(r) : e.bucket = o.bucket
         /\ \A o \in ledger[r] :
              \/ r \in DOMAIN account /\ o.disposition = Event(r).disposition
              \/ o \in Written(r)
         /\ r \in DOMAIN account =>
              \E e \in Written(r) :
                e.bucket = Event(r).bucket /\ (Event(r).fired # Never => e.fired = Event(r).fired)
<1> DEFINE ev == Event(r)
<1>1. ledger[r] \in SUBSET Records /\ AuditShape
  BY DEF AuditInv, AuditShape
<1>2. CASE r \notin DOMAIN account
  BY <1>2 DEF Written
<1>3. CASE r \in DOMAIN account
  <2>1. ev \in Records /\ Written(r) = Upsert(ledger[r], ev)
    BY <1>1, <1>3, EventIs DEF Written
  <2> HIDE DEF ev
  <2>2. CASE /\ \A o \in ledger[r] : o.bucket # ev.bucket \/ o.disposition # ev.disposition
             /\ Upsert(ledger[r], ev) = ledger[r] \cup {ev}
    <3>1. Written(r) = ledger[r] \cup {ev}
      BY <2>1, <2>2
    <3>2. Unique(Written(r))
      BY <2>2, <3>1 DEF Unique
    <3> QED
      BY <1>3, <3>1, <3>2 DEF ev
  <2>3. ASSUME NEW o \in ledger[r], o.bucket = ev.bucket, o.disposition = ev.disposition,
               Upsert(ledger[r], ev) = (ledger[r] \ {o}) \cup {Upped(o, ev)}
        PROVE  /\ Unique(Written(r))
               /\ \A e \in Written(r) :
                    \/ e \in ledger[r]
                    \/ \E x \in ledger[r] : x.disposition = ev.disposition /\ e = Upped(x, ev)
               /\ \A x \in ledger[r] : \E e \in Written(r) : e.bucket = x.bucket
               /\ \A x \in ledger[r] : x.disposition = ev.disposition \/ x \in Written(r)
               /\ \E e \in Written(r) :
                    e.bucket = ev.bucket /\ (ev.fired # Never => e.fired = ev.fired)
    <3> DEFINE u == Upped(o, ev)
    <3>1. u.bucket = o.bucket /\ u.disposition = o.disposition /\ (ev.fired # Never => u.fired = ev.fired)
      BY DEF Upped
    <3>2. Written(r) = (ledger[r] \ {o}) \cup {u} /\ u = Upped(o, ev)
      BY <2>1, <2>3
    <3> HIDE DEF u
    <3>3. \A x \in ledger[r] : x = o \/ x \in Written(r)
      BY <3>2
    <3>4. u \in Written(r) /\ \A e \in Written(r) : e = u \/ (e \in ledger[r] /\ e # o)
      BY <3>2
    <3>5. Unique(Written(r))
      BY <2>3, <3>1, <3>4 DEF Unique
    <3> QED
      BY <2>3, <3>1, <3>2, <3>3, <3>4, <3>5
  <2> QED
    BY <1>1, <1>3, <2>1, <2>2, <2>3, UpsertOne DEF ev
<1> QED
  BY <1>2, <1>3

LEMMA EventTicks ==
  ASSUME AuditShape, Cycled, NEW r \in Rows, EventInv(r)
  PROVE  EventInv(r)'
<1>1. now \in Nat /\ Tick \in Nat /\ now' = now + Tick /\ ledger' = ledger
  BY Cadence DEF AuditShape, Cycled
<1>2. ASSUME NEW e \in ledger[r] PROVE OnClock(e.first)' /\ e.first <= now'
  <2>1. e.first \in Nat /\ e.first <= now
    BY DEF AuditShape, Records, EventInv
  <2>2. PICK m \in Int : now - e.first = m * Tick
    BY DEF EventInv, OnClock
  <2>3. (m + 1) * Tick = m * Tick + Tick /\ m + 1 \in Int /\ m * Tick \in Int
    BY <1>1
  <2>4. now' - e.first = (m + 1) * Tick
    BY <1>1, <2>1, <2>2, <2>3
  <2>5. now' - e.first = (m + 1) * Tick /\ e.first <= now'
    BY <1>1, <2>1, <2>4
  <2> QED
    BY <2>3, <2>5 DEF OnClock
<1> QED
  BY <1>1, <1>2 DEF EventInv, Unique

LEMMA EventFlushed ==
  ASSUME AuditInv, Flush, NEW r \in Rows, RowInv(r), EventInv(r), WatchesTyped
  PROVE  EventInv(r)'
<1>1. /\ AuditShape /\ account # None /\ now' = now /\ now \in Nat /\ Tick \in Nat
      /\ ledger'[r] \subseteq Written(r) /\ ledger[r] \subseteq Records
      /\ Unique(ledger[r]) /\ now > Start
  BY Cadence DEF AuditInv, AuditShape, Flush, Pruned, EventInv, RowInv
<1> DEFINE ev == Event(r)
           Fine(e) == /\ Start < e.first /\ e.first <= now /\ OnClock(e.first)
                      /\ e.bucket <= e.due /\ e.due <= e.first
                      /\ Never <= e.fired /\ (e.fired # Never <=> e.disposition \in Stamping)
<1>2. \A e \in ledger[r] : Fine(e)
  BY DEF EventInv
<1>3. r \in DOMAIN account => Fine(ev)
  <2> HAVE r \in DOMAIN account
  <2>0. setting \in Settings /\ Shift[setting][r] \in Nat
    BY <1>1, Cadence DEF AuditShape
  <2>1. /\ ev.first = now /\ ev.due <= now /\ ev.bucket <= ev.due
        /\ ev.disposition = account[r].disposition /\ ev.fired = account[r].fired
    <3>1. /\ ev \in Records /\ ev.due <= now /\ ev.disposition = account[r].disposition
          /\ ev.due - ev.bucket = Shift[setting][r]
      BY <1>1, EventIs
    <3>2. ev.first = now /\ ev.fired = account[r].fired
      BY DEF Event
    <3> HIDE DEF ev
    <3> QED
      BY <2>0, <3>1, <3>2 DEF Records
  <2>2. ev.fired # Never <=> ev.disposition \in Stamping
    BY <1>1, <2>1 DEF RowInv, Stamped, Never
  <2>3. Never <= ev.fired
    BY <1>1, <2>1 DEF RowInv, Stamped, Never
  <2>4. now - now = 0 * Tick
    BY <1>1
  <2> HIDE DEF ev
  <2> QED
    BY <1>1, <2>1, <2>2, <2>3, <2>4 DEF OnClock
<1>4. ASSUME NEW e \in Written(r) PROVE Fine(e)
  <2>1. \/ e \in ledger[r]
        \/ r \in DOMAIN account /\ e = ev
        \/ r \in DOMAIN account /\ \E o \in ledger[r] : /\ o.disposition = ev.disposition
                                                        /\ e = Upped(o, ev)
    BY <1>1, WrittenIs
  <2> HIDE DEF ev
  <2>2. ASSUME NEW o \in ledger[r], o.disposition = ev.disposition, e = Upped(o, ev),
               r \in DOMAIN account
        PROVE  Fine(e)
    <3>1. /\ e.first = o.first /\ e.due = o.due /\ e.disposition = o.disposition
          /\ e.bucket = o.bucket
          /\ e.fired = IF ev.fired = Never THEN o.fired ELSE ev.fired
      BY <2>2 DEF Upped
    <3>2. Fine(o) /\ Fine(ev)
      BY <1>2, <1>3, <2>2
    <3> QED
      BY <2>2, <3>1, <3>2
  <2> QED
    BY <1>2, <1>3, <2>1, <2>2
<1>5. Unique(Written(r))
  BY <1>1, WrittenIs
<1>6. Unique(ledger'[r])
  BY <1>1, <1>5 DEF Unique
<1>7. \A e : OnClock(e.first)' <=> OnClock(e.first)
  BY <1>1 DEF OnClock
<1> QED
  BY <1>1, <1>4, <1>6, <1>7 DEF EventInv, Unique

(* No event of a watch bears a stamp later than the row's; the row's stamp *)
(* is borne by an event, unless that one is forgotten.                     *)
Orderly(r) ==
  \A e \in ledger[r] :
    e.disposition \in Stamping /\ e.first >= rows[r].added => e.fired <= rows[r].stamp
Attested(r) ==
  rows[r].stamp # Never /\ ~Stamped(r) =>
    \/ Forgotten(r)
    \/ \E e \in ledger[r], c \in Settings :
         e.fired = rows[r].stamp /\ e.bucket = Floor(rows[r].stamp - Shift[c][r], Period[r])

LEMMA StampsGrow ==
  ASSUME AuditShape, WatchesTyped, WatchesTyped', Cycled, NEW r \in Rows, RowInv(r)
  PROVE  /\ rows[r].stamp <= rows'[r].stamp /\ rows'[r].added = rows[r].added
         /\ Stamped(r)' \/ rows'[r].stamp = rows[r].stamp
<1> DEFINE t == now + Tick
<1>1. /\ now \in Nat /\ t \in Int /\ rows[r].stamp \in Int /\ rows'[r].stamp \in Int
      /\ rows[r].stamp < t
  BY Cadence DEF AuditShape, RowInv, WatchesTyped
<1>2. RowTick(r, t) /\ account' # None
  BY DEF Cycled
<1> HIDE DEF t
<1>3. CASE IsDue(r, t) /\ Serviced(r, t)
  <2>1. Stamped(r)' /\ rows[r].stamp <= rows'[r].stamp /\ rows'[r].added = rows[r].added
    BY <1>1, <1>2, <1>3 DEF RowTick, Serviced, Stamped
  <2> QED
    BY <2>1
<1>4. CASE ~(IsDue(r, t) /\ Serviced(r, t))
  <2>1. rows'[r].stamp = rows[r].stamp /\ rows'[r].added = rows[r].added
    BY <1>2, <1>4 DEF RowTick, LeftWaiting
  <2> QED
    BY <1>1, <2>1
<1> QED
  BY <1>3, <1>4

LEMMA OrderlyTicks ==
  ASSUME AuditShape, WatchesTyped, WatchesTyped', Cycled, NEW r \in Rows, RowInv(r), Orderly(r)
  PROVE  Orderly(r)'
<1>1. ledger' = ledger
  BY DEF Cycled
<1>2. /\ rows[r].stamp <= rows'[r].stamp /\ rows'[r].added = rows[r].added
      /\ rows[r].stamp \in Int /\ rows'[r].stamp \in Int
      /\ \A e \in ledger[r] : e.fired \in Int
  BY StampsGrow DEF WatchesTyped, AuditShape, Records
<1> QED
  BY <1>1, <1>2 DEF Orderly

LEMMA OrderlyFlushed ==
  ASSUME AuditInv, Flush, WatchesTyped, NEW r \in Rows, RowInv(r), EventInv(r), Orderly(r)
  PROVE  Orderly(r)'
<1>1. /\ AuditShape /\ account # None /\ rows' = rows /\ ledger'[r] \subseteq Written(r)
      /\ Unique(ledger[r]) /\ rows[r].stamp \in Int
  BY DEF AuditInv, Flush, Pruned, EventInv, WatchesTyped
<1> DEFINE ev == Event(r)
<1>2. SUFFICES ASSUME NEW e \in Written(r), e.disposition \in Stamping, e.first >= rows[r].added
               PROVE  e.fired <= rows[r].stamp
  BY <1>1 DEF Orderly
<1>3. CASE e \in ledger[r]
  BY <1>2, <1>3 DEF Orderly
<1>4. r \in DOMAIN account => ev.fired = IF ev.disposition \in Stamping THEN rows[r].stamp ELSE Never
  BY <1>1 DEF RowInv, Stamped, Event
<1>5. CASE r \in DOMAIN account /\ e = ev
  <2> HIDE DEF ev
  <2> QED
    BY <1>1, <1>2, <1>4, <1>5
<1>6. ASSUME NEW o \in ledger[r], o.disposition = ev.disposition, e = Upped(o, ev), r \in DOMAIN account
      PROVE  e.fired <= rows[r].stamp
  <2>1. /\ e.disposition = o.disposition /\ e.first = o.first
        /\ e.fired = IF ev.fired = Never THEN o.fired ELSE ev.fired
    BY <1>6 DEF Upped
  <2>2. o.fired <= rows[r].stamp
    BY <1>2, <2>1 DEF Orderly
  <2> HIDE DEF ev
  <2> QED
    BY <1>1, <1>2, <1>4, <1>6, <2>1, <2>2
<1> QED
  BY <1>1, <1>3, <1>5, <1>6, WrittenIs

LEMMA Earlier ==
  ASSUME NEW r \in Rows, NEW c \in Settings, NEW t \in Int
  PROVE  /\ Floor(t - Shift[c][r], Period[r]) \in Int
         /\ Start < t => 0 <= Floor(t - Shift[c][r], Period[r])
<1> DEFINE s == Shift[c][r]
           p == Period[r]
<1>1. s \in Nat /\ s <= Start /\ p \in Nat \ {0} /\ Start \in Nat
  BY Cadence
<1> HIDE DEF s, p
<1>2. t - s \in Int /\ (Start < t => 0 <= t - s) /\ 0 * p = 0
  BY <1>1
<1> DEFINE x == t - s
           f == Floor(x, p)
<1>3. x \in Int /\ (Start < t => 0 <= x)
  BY <1>2
<1> HIDE DEF x
<1>4. f \in Int /\ \A k \in Int : k * p <= x => k * p <= f
  BY <1>1, <1>3, FloorIs
<1> HIDE DEF f
<1>5. 0 * p <= x => 0 * p <= f
  BY <1>4
<1>6. f \in Int /\ (Start < t => 0 <= f)
  BY <1>2, <1>3, <1>4, <1>5
<1> QED
  BY <1>6 DEF f, x, s, p

(* A row whose stamp is forgotten stays so, and an event is forgotten only *)
(* with the stamp it bears.                                                *)
LEMMA StaysForgotten ==
  ASSUME NEW r \in Rows, Forgotten(r), rows[r].stamp \in Int, now \in Int, now' \in Int,
         rows'[r].stamp = rows[r].stamp, now <= now'
  PROVE  Forgotten(r)'
<1>1. PICK c \in Settings : now - Floor(rows[r].stamp - Shift[c][r], Period[r]) > Retention
  BY DEF Forgotten
<1> DEFINE f == Floor(rows[r].stamp - Shift[c][r], Period[r])
<1>2. f \in Int /\ Retention \in Int
  BY Earlier, Cadence
<1>3. f' = f
  BY DEF Floor
<1> HIDE DEF f
<1>4. now' - f' > Retention
  BY <1>1, <1>2, <1>3 DEF f
<1> QED
  BY <1>4 DEF Forgotten, f

LEMMA AttestedTicks ==
  ASSUME AuditShape, WatchesTyped, WatchesTyped', Cycled, NEW r \in Rows, RowInv(r), Attested(r)
  PROVE  Attested(r)'
<1>1. ledger' = ledger /\ ~Stamped(r) /\ now \in Int /\ now' \in Int /\ now <= now'
  BY Cadence DEF Cycled, AuditShape, Stamped
<1>2. SUFFICES ASSUME rows'[r].stamp # Never, ~Stamped(r)'
               PROVE  \/ Forgotten(r)'
                      \/ \E e \in ledger[r], c \in Settings :
                           /\ e.fired = rows'[r].stamp
                           /\ e.bucket = Floor(rows'[r].stamp - Shift[c][r], Period[r])
  BY <1>1 DEF Attested, Floor
<1>3. rows'[r].stamp = rows[r].stamp /\ rows[r].stamp \in Int
  BY <1>2, StampsGrow DEF WatchesTyped
<1>4. CASE Forgotten(r)
  BY <1>1, <1>3, <1>4, StaysForgotten
<1>5. CASE ~Forgotten(r)
  BY <1>1, <1>2, <1>3, <1>5 DEF Attested
<1> QED
  BY <1>4, <1>5

LEMMA AttestedFlushed ==
  ASSUME AuditInv, Flush, WatchesTyped, NEW r \in Rows, RowInv(r), EventInv(r), Attested(r)
  PROVE  Attested(r)'
<1>1. /\ AuditShape /\ account # None /\ rows' = rows /\ now' = now /\ now \in Int
      /\ ledger'[r] = Pruned(Written(r)) /\ setting \in Settings
      /\ Unique(ledger[r]) /\ rows[r].stamp \in Int /\ Retention \in Nat
  <2>1. AuditShape /\ now \in Int /\ setting \in Settings
    BY DEF AuditInv, AuditShape
  <2>2. account # None /\ rows' = rows /\ now' = now /\ ledger'[r] = Pruned(Written(r))
    BY DEF Flush
  <2>3. Unique(ledger[r])
    BY DEF EventInv
  <2>4. rows[r].stamp \in Int
    BY DEF WatchesTyped
  <2>5. Retention \in Nat
    BY Cadence
  <2> QED
    BY <2>1, <2>2, <2>3, <2>4, <2>5
<1> DEFINE ev == Event(r)
           of(c) == Floor(rows[r].stamp - Shift[c][r], Period[r])
<1>2. SUFFICES ASSUME rows[r].stamp # Never
               PROVE  \/ Forgotten(r)'
                      \/ \E e \in Pruned(Written(r)), c \in Settings :
                           e.fired = rows[r].stamp /\ e.bucket = of(c)
  BY <1>1 DEF Attested, Floor
<1>3. ASSUME NEW e \in Written(r), NEW c \in Settings, e.fired = rows[r].stamp, e.bucket = of(c)
      PROVE  Forgotten(r)' \/ e \in Pruned(Written(r))
  <2>1. e.bucket \in Int /\ 0 <= e.bucket
    BY <1>1, <1>2, <1>3, Earlier DEF RowInv
  <2>2. CASE e.bucket >= Cutoff
    BY <2>2 DEF Pruned
  <2>3. CASE ~(e.bucket >= Cutoff)
    <3>1. Cutoff = now - Retention
      BY <2>1, <2>3 DEF Cutoff, Never
    <3>2. now - e.bucket > Retention
      BY <1>1, <2>1, <2>3, <3>1
    <3> QED
      BY <1>1, <1>2, <1>3, <3>2 DEF Forgotten, Floor
  <2> QED
    BY <2>2, <2>3
<1> HIDE DEF of
<1>4. CASE Stamped(r)
  <2>1. /\ r \in DOMAIN account /\ ev.fired = rows[r].stamp /\ ev.bucket = Target(r, now)
        /\ Target(r, rows[r].stamp) = Target(r, now)
    BY <1>1, <1>4, EventIs DEF RowInv, Stamped, Event
  <2>2. of(setting) = Target(r, rows[r].stamp)
    BY DEF of, Target
  <2>3. \E e \in Written(r) : e.bucket = ev.bucket /\ (ev.fired # Never => e.fired = ev.fired)
    BY <1>1, <2>1, WrittenIs
  <2> HIDE DEF ev
  <2> QED
    BY <1>1, <1>2, <1>3, <2>1, <2>2, <2>3
<1>5. CASE ~Stamped(r) /\ Forgotten(r)
  BY <1>1, <1>5, StaysForgotten
<1>6. CASE ~Stamped(r) /\ ~Forgotten(r)
  <2>1. PICK e \in ledger[r], c \in Settings : e.fired = rows[r].stamp /\ e.bucket = of(c)
    BY <1>2, <1>6 DEF Attested, of
  <2>2. e.disposition \in Stamping
    BY <1>2, <2>1 DEF EventInv
  <2>3. e \in Written(r)
    <3>1. r \in DOMAIN account => ev.disposition \notin Stamping
      BY <1>1, <1>6 DEF Stamped, Event
    <3>2. (r \in DOMAIN account /\ e.disposition = ev.disposition) \/ e \in Written(r)
      BY <1>1, WrittenIs
    <3> HIDE DEF ev
    <3> QED
      BY <2>2, <3>1, <3>2
  <2> QED
    BY <1>3, <2>1, <2>3
<1> QED
  BY <1>4, <1>5, <1>6

(* Hours and ticks. *)
LEMMA Within ==
  ASSUME NEW t \in Int, NEW b \in Int, \E k \in Int : b = k * Hour, b <= t
  PROVE  b <= HourOf(t)
<1>1. Hour \in Nat \ {0}
  BY Cadence
<1>2. PICK k \in Int : b = k * Hour
  OBVIOUS
<1>3. \A m \in Int : m * Hour <= t => m * Hour <= Floor(t, Hour)
  BY <1>1, FloorIs
<1> QED
  BY <1>2, <1>3 DEF HourOf

LEMMA Turns ==
  ASSUME AuditShape, Cycled, now > Start
  PROVE  /\ now \in Nat /\ now' = now + Tick /\ Tick \in Nat /\ Tick >= 2 /\ Hour \in Nat \ {0}
         /\ Bar \in Int /\ Bar' \in Int /\ Bar' = HourOf(now + Tick)
         /\ 0 <= Bar /\ Bar <= Bar' /\ Bar' <= now'
         /\ Bar' = Bar \/ now < Bar'
<1> DEFINE t == now + Tick
           b == HourOf(t)
<1>1. /\ now \in Nat /\ now' = t /\ Tick \in Nat /\ Tick >= 2 /\ Hour \in Nat \ {0}
      /\ t \in Int /\ now <= t
  BY Cadence DEF AuditShape, Cycled
<1>2. Bar' = b
  BY <1>1 DEF Bar, HourOf, Floor
<1>3. /\ b \in Int /\ b <= t
      /\ Bar \in Int /\ Bar <= now /\ Bar <= b
      /\ b <= now => b = Bar
  <2> HIDE DEF t
  <2>1. t <= t /\ now <= now
    BY <1>1
  <2>2. HourOf(t) \in Int /\ HourOf(t) <= t
    BY <1>1, <2>1, Hours
  <2>3. /\ HourOf(now) \in Int /\ HourOf(now) <= now /\ HourOf(now) <= HourOf(t)
        /\ HourOf(t) <= now => HourOf(t) = HourOf(now)
    <3>1. now \in Int /\ t \in Int /\ now <= t
      BY <1>1
    <3> QED
      BY <3>1, Hours
  <2> QED
    BY <2>2, <2>3 DEF Bar
<1>4. 0 <= Bar
  <2>1. 0 = 0 * Hour /\ 0 \in Int /\ 0 <= now /\ now \in Int
    BY <1>1
  <2>2. \E k \in Int : 0 = k * Hour
    BY <2>1
  <2> QED
    BY <2>1, <2>2, Within DEF Bar
<1> HIDE DEF t, b
<1> QED
  BY <1>1, <1>2, <1>3, <1>4 DEF t, b

(* No stamp is of a bar to come, but after a change of the settings. *)
Behind(r) == settled[r] < Over(r) => Target(r, rows[r].stamp) <= Target(r, now)

LEMMA BehindTicks ==
  ASSUME AuditShape, WatchesTyped, WatchesTyped', Cycled, NEW r \in Rows, RowInv(r)
  PROVE  Behind(r)'
<1> DEFINE t == now + Tick
<1>1. /\ t \in Int /\ now' = t /\ setting' = setting /\ setting \in Settings
      /\ rows[r].stamp \in Int /\ rows[r].stamp <= t /\ RowTick(r, t)
  BY Cadence DEF AuditShape, Cycled, RowInv, WatchesTyped
<1>2. Target(r, rows[r].stamp) <= Target(r, t) /\ Target(r, t) <= Target(r, t)
  BY <1>1, Later
<1> HIDE DEF t
<1>3. Target(r, rows'[r].stamp) <= Target(r, t)
  BY <1>1, <1>2 DEF RowTick, LeftWaiting, Serviced
<1> QED
  BY <1>1, <1>3 DEF Behind, Target

LEMMA BehindAnew ==
  ASSUME AuditShape, NEW r \in Rows, RowInv(r), now' = now, setting' = setting,
         rows'[r] = NewRow(now + 1)
  PROVE  Behind(r)'
<1>1. /\ rows'[r].stamp = Never /\ Never \in Int /\ now \in Int /\ Never <= now
      /\ setting \in Settings
  BY DEF AuditShape, NewRow, Never
<1>2. Target(r, Never) <= Target(r, now)
  BY <1>1, Later
<1> QED
  BY <1>1, <1>2 DEF Behind, Target

(* A row whose due time of a bar has come is in the account or in the      *)
(* books with that bar or a later one, if no change was made since.        *)
Settles(r, b) ==
  \/ settled[r] + Period[r] <= b + Wide(r)
  \/ Tick <= Shift[setting][r] /\ settled[r] <= b + Wide(r)
Come(r, b) ==
  IsBar(r, b) /\ Settles(r, b) /\ b + Shift[setting][r] <= now /\ now # Start + 1
InBooks(r, b) ==
  \/ \E e \in ledger[r] : e.bucket >= b
  \/ /\ account # None /\ r \in DOMAIN account /\ Target(r, now) >= b
     /\ now < b + Shift[setting][r] + Tick \/ now = Start + 1 + Tick
  \/ ledger[r] = {} /\ b < Bar
Reached(r) == \A b \in Int : Come(r, b) => InBooks(r, b)

LEMMA ReachedTicks ==
  ASSUME AuditShape, WatchesTyped, Cycled, NEW r \in Rows, RowInv(r), Behind(r), Reached(r)
  PROVE  Reached(r)'
<1> DEFINE t == now + Tick
           s == Shift[setting][r]
           w == Wide(r)
           old == settled[r]
           over == Over(r)
<1>1. /\ now \in Nat /\ now' = t /\ Tick \in Nat /\ Tick >= 2
      /\ Bar \in Int /\ Bar' \in Int /\ Bar <= Bar'
      /\ t \in Int /\ now < t /\ now > Start /\ Start \in Nat
  BY Turns, Cadence DEF RowInv
<1>2. /\ setting' = setting /\ setting \in Settings /\ ledger' = ledger /\ settled' = settled
      /\ account = None /\ account' # None /\ old \in Int
      /\ RowTick(r, t) /\ s \in Nat /\ rows[r].stamp \in Int
      /\ Period[r] \in Nat \ {0} /\ 2 * Tick <= Period[r]
  BY Cadence DEF Cycled, AuditShape, WatchesTyped
<1>3. w \in Int /\ over \in Int /\ now < over - w
  BY WideOf, OverIs
<1>4. SUFFICES ASSUME NEW b \in Int, Come(r, b)'
               PROVE  InBooks(r, b)'
  BY DEF Reached
<1> HIDE DEF w, old, over
<1>5. /\ IsBar(r, b) /\ b + s <= t
      /\ old + Period[r] <= b + w \/ (Tick <= s /\ old <= b + w)
  BY <1>1, <1>2, <1>4 DEF Come, Settles, IsBar, Wide, w, old
<1> HIDE DEF t, s
<1>6. \A u \in Int : Target(r, u) \in Int /\ (Target(r, u) >= b <=> u >= b + s)
  BY <1>2, <1>5, TargetAt DEF s
<1>7. IsDue(r, t) /\ (t < b + s + Tick \/ t = Start + 1 + Tick) => InBooks(r, b)'
  <2> HAVE IsDue(r, t) /\ (t < b + s + Tick \/ t = Start + 1 + Tick)
  <2>1. r \in DOMAIN account'
    BY <1>2 DEF RowTick
  <2>2. Target(r, now)' = Target(r, t)
    BY <1>1, <1>2 DEF Target
  <2>3. Target(r, t) >= b
    BY <1>1, <1>5, <1>6
  <2> QED
    BY <1>1, <1>2, <2>1, <2>2, <2>3 DEF InBooks, s
<1>8. CASE now = Start + 1
  <2>1. IsDue(r, t)
    BY <1>8 DEF RowInv, IsDue
  <2> QED
    BY <1>7, <1>8, <2>1 DEF t
<1>9. CASE now # Start + 1 /\ b + s <= now
  <2>1. Come(r, b)
    BY <1>1, <1>2, <1>5, <1>9 DEF Come, Settles, s, old, w
  <2>2. (\E e \in ledger[r] : e.bucket >= b) \/ (ledger[r] = {} /\ b < Bar)
    BY <1>2, <2>1 DEF Reached, InBooks
  <2> QED
    BY <1>1, <1>2, <2>2 DEF InBooks
<1>10. CASE now < b + s
  <2>1. old < over
    BY <1>1, <1>2, <1>3, <1>5 DEF t
  <2>2. Target(r, rows[r].stamp) <= Target(r, now)
    BY <2>1 DEF Behind, old, over
  <2>3. /\ Target(r, now) < b /\ Target(r, t) >= b
        /\ Target(r, rows[r].stamp) \in Int /\ Target(r, now) \in Int /\ Target(r, t) \in Int
    BY <1>1, <1>2, <1>5, <1>6, <1>10
  <2>4. IsDue(r, t)
    BY <2>2, <2>3 DEF IsDue
  <2>5. t < b + s + Tick
    BY <1>1, <1>2, <1>10 DEF t
  <2> QED
    BY <1>7, <2>4, <2>5
<1> QED
  BY <1>1, <1>2, <1>8, <1>9, <1>10

(* What is pruned is of before this hour. *)
LEMMA CutoffIs ==
  ASSUME AuditShape, now > Start
  PROVE  Cutoff \in Int /\ Cutoff <= Bar
<1>1. now \in Nat /\ Hour \in Nat \ {0} /\ Tick \in Nat /\ Retention \in Nat /\ Tick <= Retention
  BY Cadence DEF AuditShape
<1>2. Bar \in Int /\ now % Hour = now - Bar
  <2>1. now \in Int
    BY <1>1
  <2>2. Floor(now, Hour) \in Int /\ now % Hour = now - Floor(now, Hour)
    BY <1>1, <2>1, FloorIs
  <2> QED
    BY <2>2 DEF Bar, HourOf
<1>3. 0 <= Bar
  <2>1. 0 = 0 * Hour /\ 0 \in Int /\ 0 <= now /\ now \in Int
    BY <1>1
  <2>2. \E k \in Int : 0 = k * Hour
    BY <2>1
  <2> QED
    BY <2>1, <2>2, Within DEF Bar
<1> QED
  BY <1>1, <1>2, <1>3 DEF Cutoff, Never

LEMMA ReachedFlushed ==
  ASSUME AuditInv, Flush, NEW r \in Rows, RowInv(r), EventInv(r), Reached(r)
  PROVE  Reached(r)'
<1>1. /\ AuditShape /\ account # None /\ now' = now /\ setting' = setting /\ settled' = settled
      /\ ledger'[r] = Pruned(Written(r)) /\ Unique(ledger[r]) /\ now > Start
      /\ ledger[r] \subseteq Records /\ setting \in Settings /\ now \in Int
      /\ Bar' = Bar /\ Bar \in Int
  <2>1. Bar \in Int
    BY Bars DEF AuditInv, AuditShape
  <2> QED
    BY <2>1, Cadence DEF AuditInv, AuditShape, Flush, EventInv, RowInv, history, Bar, HourOf, Floor
<1>2. SUFFICES ASSUME NEW b \in Int, Come(r, b)'
               PROVE  \/ \E e \in Pruned(Written(r)) : e.bucket >= b
                      \/ Pruned(Written(r)) = {} /\ b < Bar
  BY <1>1 DEF Reached, InBooks
<1>3. Come(r, b)
  BY <1>1, <1>2 DEF Come, Settles, IsBar, Wide
<1>4. Cutoff \in Int /\ Cutoff <= Bar
  BY <1>1, CutoffIs
<1>5. Target(r, now) \in Int /\ Target(r, now) >= b
  <2>1. b + Shift[setting][r] <= now /\ IsBar(r, b)
    BY <1>3 DEF Come
  <2>2. Shift[setting][r] \in Nat
    BY <1>1, Cadence
  <2> QED
    BY <1>1, <2>1, <2>2, TargetAt
<1>6. r \in DOMAIN account => \E e \in Written(r) : e.bucket \in Int /\ e.bucket >= b
  <2> HAVE r \in DOMAIN account
  <2>1. Event(r).bucket = Target(r, now)
    BY <1>1, EventIs
  <2>2. \E x \in Written(r) : x.bucket = Event(r).bucket
    BY <1>1, WrittenIs
  <2> QED
    BY <1>5, <2>1, <2>2
<1>7. \/ \E e \in Written(r) : e.bucket \in Int /\ e.bucket >= b
      \/ Written(r) = {} /\ b < Bar
  <2>1. CASE \E e \in ledger[r] : e.bucket >= b
    <3>1. PICK e \in ledger[r] : e.bucket >= b
      BY <2>1
    <3>2. e.bucket \in Int
      BY <1>1 DEF Records
    <3>3. \E x \in Written(r) : x.bucket = e.bucket
      BY <1>1, WrittenIs
    <3> QED
      BY <3>1, <3>2, <3>3
  <2>2. CASE r \notin DOMAIN account /\ ledger[r] = {} /\ b < Bar
    BY <2>2 DEF Written
  <2> QED
    BY <1>3, <1>6, <2>1, <2>2 DEF Reached, InBooks
<1>8. CASE \E e \in Written(r) : e.bucket \in Int /\ e.bucket >= b
  <2>1. PICK e \in Written(r) : e.bucket \in Int /\ e.bucket >= b
    BY <1>8
  <2>2. CASE e.bucket >= Cutoff
    BY <2>1, <2>2 DEF Pruned
  <2>3. CASE e.bucket < Cutoff
    <3>1. b < Cutoff /\ b < Bar
      BY <1>1, <1>4, <2>1, <2>3
    <3>2. ASSUME NEW x \in Pruned(Written(r)) PROVE x.bucket >= b
      <4>1. x.bucket >= Cutoff /\ x.bucket \in Int
        <5>1. \A y \in Written(r) : y.bucket \in Int
          <6>1. Written(r) \in SUBSET Records
            <7>1. CASE r \in DOMAIN account
              <8>1. Event(r) \in Records /\ Event(r).n = 1 /\ IsFiniteSet(ledger[r])
                BY <1>1, <7>1, EventIs DEF AuditShape
              <8> QED
                BY <1>1, <7>1, <8>1, UpsertIs DEF Written
            <7>2. CASE r \notin DOMAIN account
              BY <1>1, <7>2 DEF Written
            <7> QED
              BY <7>1, <7>2
          <6> QED
            BY <6>1 DEF Records
        <5> QED
          BY <5>1 DEF Pruned
      <4> QED
        BY <1>4, <3>1, <4>1
    <3> QED
      BY <3>1, <3>2
  <2> QED
    BY <1>4, <2>1, <2>2, <2>3
<1>9. CASE Written(r) = {} /\ b < Bar
  BY <1>9 DEF Pruned
<1> QED
  BY <1>7, <1>8, <1>9

(* A change comes to rest later than the bars that were reached before. *)
LEMMA ReachedQuiet ==
  ASSUME AuditShape, NEW r \in Rows, Reached(r), account = None, now' = now, ledger' = ledger,
         settled[r] <= settled'[r], settled'[r] \in Int,
         setting' = setting \/ (setting' \in Settings /\ Over(r) <= settled'[r])
  PROVE  Reached(r)'
<1> DEFINE w == Wide(r)
           p == Period[r]
           old == settled[r]
           new0 == settled'[r]
           over == Over(r)
<1>1. /\ now \in Int /\ Bar' = Bar /\ old \in Int /\ new0 \in Int /\ old <= new0
      /\ p \in Nat /\ w \in Int /\ over \in Int /\ now < over - w
  BY WideOf, OverIs, Cadence DEF AuditShape, Bar, HourOf, Floor
<1>2. SUFFICES ASSUME NEW b \in Int, Come(r, b)'
               PROVE  (\E e \in ledger[r] : e.bucket >= b) \/ (ledger[r] = {} /\ b < Bar)
  BY <1>1 DEF Reached, InBooks
<1>3. /\ IsBar(r, b) /\ b + Shift[setting'][r] <= now /\ now # Start + 1
      /\ new0 + p <= b + w \/ (Tick <= Shift[setting'][r] /\ new0 <= b + w)
  BY <1>2 DEF Come, Settles, IsBar, Wide
<1> HIDE DEF w, p, old, new0, over
<1>4. CASE setting' = setting
  <2>1. old + p <= b + w \/ (Tick <= Shift[setting][r] /\ old <= b + w)
    BY <1>1, <1>3, <1>4
  <2>2. Come(r, b)
    BY <1>3, <1>4, <2>1 DEF Come, Settles, w, p, old
  <2> QED
    BY <2>2 DEF Reached, InBooks
<1>5. CASE setting' \in Settings /\ over <= new0
  <2>1. Shift[setting'][r] \in Nat
    BY <1>5, Cadence
  <2>2. b <= now
    BY <1>1, <1>3, <2>1
  <2> QED
    BY <1>1, <1>3, <1>5, <2>2
<1> QED
  BY <1>4, <1>5 DEF over, new0

(* The bar of the hour of the tick to come; before its hour it is of       *)
(* nothing that is known.                                                  *)
NextBar == HourOf(now + Tick)

LEMMA NewBar ==
  ASSUME AuditInv, WatchesTyped, Cycled, NEW r \in Rows, RowInv(r), Behind(r),
         now < NextBar, settled[r] <= NextBar, IsBar(r, NextBar)
  PROVE  At(r, NextBar) = {} /\ rows[r].stamp < NextBar + Shift[setting][r]
<1> DEFINE b == NextBar
           s == Shift[setting][r]
           w == Wide(r)
           old == settled[r]
           over == Over(r)
<1>1. AuditShape /\ BookInv /\ now > Start
  BY DEF AuditInv, RowInv
<1>2. now \in Int /\ b \in Int /\ b <= now + Tick /\ Tick \in Nat
  BY <1>1, Turns DEF NextBar
<1>3. setting \in Settings /\ s \in Nat /\ old \in Int /\ rows[r].stamp \in Int
  BY <1>1, Cadence DEF AuditShape, WatchesTyped
<1>4. At(r, b) = {}
  <2>1. \A e \in ledger[r] : e.bucket <= now /\ e.bucket \in Int
    BY <1>1 DEF BookInv, AuditShape, Records
  <2> HIDE DEF b
  <2>2. now < b
    BY DEF b
  <2> QED
    BY <1>2, <2>1, <2>2 DEF At
<1>5. Target(r, rows[r].stamp) <= Target(r, now)
  <2>1. /\ Period[r] \in Nat /\ w \in Int /\ Period[r] + 2 * Tick <= w
        /\ over \in Int /\ now < over - w
    BY <1>1, WideOf, OverIs, Cadence
  <2> HIDE DEF w, over, old, b
  <2>2. old <= b
    BY DEF old, b
  <2>3. old < over
    BY <1>2, <1>3, <2>1, <2>2
  <2> QED
    BY <2>3 DEF Behind, over, old
<1>6. now < b + s
  BY <1>2, <1>3
<1>7. \A u \in Int : Target(r, u) \in Int /\ (Target(r, u) >= b <=> u >= b + s)
  BY <1>2, <1>3, TargetAt
<1> HIDE DEF b
<1>8. rows[r].stamp < b + s
  BY <1>2, <1>3, <1>5, <1>6, <1>7
<1> QED
  BY <1>4, <1>8 DEF b

(* A row is due for a bar when its stamp is of before the bar's due time.  *)
LEMMA DueIs ==
  ASSUME setting \in Settings, NEW r \in Rows, NEW b \in Int, b >= 0,
         IsBar(r, b), NEW t \in Int, rows[r].stamp \in Int
  PROVE  /\ IsDue(r, t) /\ Target(r, t) = b => rows[r].stamp < b + Shift[setting][r]
         /\ rows[r].stamp < b + Shift[setting][r] /\ b + Shift[setting][r] <= t => IsDue(r, t)
<1> DEFINE s == Shift[setting][r]
           x == rows[r].stamp
<1>1. s \in Nat /\ x \in Int
  BY Cadence
<1>2. \A u \in Int : Target(r, u) \in Int /\ (Target(r, u) >= b <=> u >= b + s)
  BY TargetAt
<1>3. IsDue(r, t) <=> x = Never \/ Target(r, t) > Target(r, x)
  BY DEF IsDue
<1> HIDE DEF s, x
<1>4. IsDue(r, t) /\ Target(r, t) = b => x < b + s
  BY <1>1, <1>2, <1>3 DEF Never
<1>5. x < b + s /\ b + s <= t => IsDue(r, t)
  BY <1>1, <1>2, <1>3
<1> QED
  BY <1>4, <1>5 DEF s, x

(* What the tick does with the row, as far as the bar of its hour goes.    *)
LEMMA TickOfBar ==
  ASSUME AuditShape, WatchesTyped, WatchesTyped', Cycled, NEW r \in Rows, RowInv(r),
         IsBar(r, NextBar)
  PROVE  LET b == NextBar
             t == now + Tick
             due == b + Shift[setting][r]
         IN  /\ now \in Nat /\ Tick \in Nat /\ Tick >= 2 /\ t \in Int
             /\ now' = t /\ Bar' = b /\ b \in Int /\ due \in Int /\ 0 <= b
             /\ Period[r] \in Nat /\ 2 * Tick <= Period[r] /\ b <= due
             /\ Dues(r)' = due /\ BarEnds(r)' = due + Period[r]
             /\ At(r, Bar)' = At(r, b) /\ Served(r, Bar)' = Served(r, b)
             /\ Waited(r, Bar)' = Waited(r, b)
             /\ rows[r].stamp \in Int /\ rows'[r].stamp \in Int /\ rows[r].stamp <= rows'[r].stamp
             /\ rows[r].fails \in Int /\ rows'[r].fails \in Int
             /\ Pending(r)' <=> IsDue(r, t) /\ due <= t /\ t < due + Period[r]
             /\ rows[r].stamp < due /\ due <= t => IsDue(r, t)
             /\ Pending(r)' => rows[r].stamp < due
             /\ Owing(r)' <=> Pending(r)' /\ Serviced(r, t)
             /\ IsDue(r, t) => LeftWaiting(r) \/ Serviced(r, t)
             /\ Pending(r)' => r \in DOMAIN account'
             /\ ~Serviced(r, t) \/ ~IsDue(r, t) => rows'[r].stamp = rows[r].stamp
             /\ IsDue(r, t) /\ Serviced(r, t) =>
                  /\ t <= rows'[r].stamp /\ rows'[r].fails = 0
                  /\ t < due + Period[r] /\ ~Pending(r)' => t < due /\ rows'[r].stamp < due
<1> DEFINE b == NextBar
           t == now + Tick
           s == Shift[setting][r]
<1>1. /\ now \in Nat /\ Tick \in Nat /\ Tick >= 2 /\ t \in Int /\ now' = t
      /\ Bar' = b /\ b \in Int /\ 0 <= b /\ IsBar(r, b)
  BY Turns DEF RowInv, NextBar
<1>2. /\ setting' = setting /\ setting \in Settings /\ ledger' = ledger /\ account' # None
      /\ RowTick(r, t) /\ s \in Nat /\ Period[r] \in Nat /\ 2 * Tick <= Period[r]
      /\ rows[r].stamp \in Int /\ rows'[r].stamp \in Int
      /\ rows[r].fails \in Int /\ rows'[r].fails \in Int
  BY Cadence DEF Cycled, AuditShape, WatchesTyped
<1>3. /\ \A u \in Int : /\ Target(r, u) \in Int /\ (Target(r, u) >= b <=> u >= b + s)
                        /\ Target(r, u) = b <=> b + s <= u /\ u < b + s + Period[r]
      /\ IsDue(r, t) /\ Target(r, t) = b => rows[r].stamp < b + s
      /\ rows[r].stamp < b + s /\ b + s <= t => IsDue(r, t)
  BY <1>1, <1>2, TargetAt, DueIs
<1>4. Target(r, now)' = Target(r, t)
  BY <1>1, <1>2 DEF Target
<1>5. /\ At(r, Bar)' = At(r, b) /\ Served(r, Bar)' = Served(r, b)
      /\ Waited(r, Bar)' = Waited(r, b)
  BY <1>1, <1>2 DEF At, Served, Waited
<1>6. Dues(r)' = b + s /\ BarEnds(r)' = b + s + Period[r]
  BY <1>1, <1>2 DEF Dues, BarEnds
<1>7. rows[r].stamp <= rows'[r].stamp
  BY StampsGrow
<1> HIDE DEF b, t, s
<1>8. IsDue(r, t) <=> r \in DOMAIN account'
  BY <1>2 DEF RowTick
<1>9. Pending(r)' <=> IsDue(r, t) /\ Target(r, t) = b
  BY <1>1, <1>2, <1>4, <1>8 DEF Pending
<1>10. IsDue(r, t) => LeftWaiting(r) \/ Serviced(r, t)
  BY <1>2 DEF RowTick
<1>11. ~Serviced(r, t) \/ ~IsDue(r, t) => rows'[r].stamp = rows[r].stamp
  BY <1>2, <1>10 DEF RowTick, LeftWaiting
<1>12. Owing(r)' <=> Pending(r)' /\ Serviced(r, t)
  <2>1. Owing(r)' <=> Pending(r)' /\ account'[r].disposition \in Stamping
    BY DEF Owing, Pending
  <2>2. LeftWaiting(r) => account'[r].disposition \notin Stamping
    BY KindsOfFate DEF LeftWaiting, Waits
  <2>3. Serviced(r, t) => account'[r].disposition \in Stamping
    BY DEF Serviced
  <2> QED
    BY <1>9, <1>10, <2>1, <2>2, <2>3
<1>13. IsDue(r, t) /\ Serviced(r, t) =>
         /\ t <= rows'[r].stamp /\ rows'[r].fails = 0
         /\ t < b + s + Period[r] /\ ~Pending(r)' => t < b + s /\ rows'[r].stamp < b + s
  <2> HAVE IsDue(r, t) /\ Serviced(r, t)
  <2>1. /\ t <= rows'[r].stamp /\ rows'[r].fails = 0
        /\ Target(r, rows'[r].stamp) = Target(r, t)
    BY DEF Serviced
  <2>2. t < b + s + Period[r] /\ ~Pending(r)' => t < b + s /\ rows'[r].stamp < b + s
    BY <1>1, <1>2, <1>3, <1>9, <2>1
  <2> QED
    BY <2>1, <2>2
<1>14. Pending(r)' <=> IsDue(r, t) /\ b + s <= t /\ t < b + s + Period[r]
  BY <1>1, <1>3, <1>9
<1>15. b + s \in Int /\ b <= b + s
  BY <1>1, <1>2
<1>16. (Pending(r)' => rows[r].stamp < b + s) /\ (Pending(r)' => r \in DOMAIN account')
  BY <1>3, <1>8, <1>9
<1> QED
  BY <1>1, <1>2, <1>3, <1>5, <1>6, <1>7, <1>10, <1>11, <1>12, <1>13, <1>14, <1>15, <1>16
     DEF b, t, s

(* A row is served once in the bar of the hour, and its stamp tells.       *)
ServedOnce(r, b) ==
  /\ Served(r, b) # {} => rows[r].stamp >= b + Shift[setting][r]
  /\ \A s, o \in Served(r, b) : s = o /\ s.n = 1
  /\ now < b + Shift[setting][r] + Period[r] /\ Served(r, b) = {}
       => rows[r].stamp < b + Shift[setting][r]
Once(r) ==
  /\ Served(r, Bar) # {} \/ Owing(r) => rows[r].stamp >= Dues(r)
  /\ Pending(r) => Served(r, Bar) = {}
  /\ \A s, o \in Served(r, Bar) : s = o /\ s.n = 1
  /\ now < BarEnds(r) /\ Served(r, Bar) = {} /\ ~Owing(r) => rows[r].stamp < Dues(r)

LEMMA OnceBefore ==
  ASSUME AuditInv, WatchesTyped, Cycled, NEW r \in Rows, RowInv(r), Behind(r),
         settled[r] <= Bar /\ IsBar(r, Bar) => Once(r), settled[r] <= NextBar, IsBar(r, NextBar)
  PROVE  ServedOnce(r, NextBar)
<1>1. AuditShape /\ now > Start /\ account = None
  BY DEF AuditInv, RowInv, Cycled
<1>2. CASE now < NextBar
  <2>1. At(r, NextBar) = {} /\ rows[r].stamp < NextBar + Shift[setting][r]
    BY <1>2, NewBar
  <2>2. Served(r, NextBar) = {}
    BY <2>1 DEF Served
  <2> QED
    BY <2>1, <2>2 DEF ServedOnce
<1>3. CASE NextBar = Bar
  BY <1>1, <1>3 DEF Once, ServedOnce, Dues, BarEnds, Owing
<1> QED
  BY <1>1, <1>2, <1>3, Turns DEF NextBar

LEMMA OnceTicks ==
  ASSUME AuditShape, WatchesTyped, WatchesTyped', Cycled, NEW r \in Rows, RowInv(r),
         ServedOnce(r, NextBar), IsBar(r, NextBar)
  PROVE  Once(r)'
<1> DEFINE t == now + Tick
           due == NextBar + Shift[setting][r]
           served == Served(r, NextBar)
<1>1. /\ now \in Nat /\ Tick \in Nat /\ t \in Int /\ now' = t /\ due \in Int
      /\ Period[r] \in Nat /\ Dues(r)' = due /\ BarEnds(r)' = due + Period[r]
      /\ Served(r, Bar)' = served
      /\ rows[r].stamp \in Int /\ rows'[r].stamp \in Int /\ rows[r].stamp <= rows'[r].stamp
      /\ Pending(r)' <=> IsDue(r, t) /\ due <= t /\ t < due + Period[r]
      /\ Pending(r)' => rows[r].stamp < due
      /\ Owing(r)' <=> Pending(r)' /\ Serviced(r, t)
      /\ ~Serviced(r, t) \/ ~IsDue(r, t) => rows'[r].stamp = rows[r].stamp
      /\ IsDue(r, t) /\ Serviced(r, t) =>
           /\ t <= rows'[r].stamp
           /\ t < due + Period[r] /\ ~Pending(r)' => t < due /\ rows'[r].stamp < due
  BY TickOfBar
<1>2. /\ served # {} => rows[r].stamp >= due
      /\ \A s, o \in served : s = o /\ s.n = 1
      /\ now < due + Period[r] /\ served = {} => rows[r].stamp < due
  BY DEF ServedOnce
<1>3. now < t
  BY <1>1, Cadence
<1> HIDE DEF t, due, served
<1>4. served # {} \/ Owing(r)' => rows'[r].stamp >= due
  BY <1>1, <1>2
<1>5. Pending(r)' => served = {}
  BY <1>1, <1>2
<1>6. t < due + Period[r] /\ served = {} /\ ~Owing(r)' => rows'[r].stamp < due
  <2> HAVE t < due + Period[r] /\ served = {} /\ ~Owing(r)'
  <2>1. rows[r].stamp < due
    BY <1>1, <1>2, <1>3
  <2>2. CASE IsDue(r, t) /\ Serviced(r, t)
    BY <1>1, <2>2
  <2>3. CASE ~(IsDue(r, t) /\ Serviced(r, t))
    BY <1>1, <2>1, <2>3
  <2> QED
    BY <2>2, <2>3
<1> QED
  BY <1>1, <1>2, <1>4, <1>5, <1>6 DEF Once

(* What the flush makes of the events of the bar.                          *)
LEMMA UpsertServes ==
  ASSUME NEW events \in SUBSET Records, Unique(events), NEW e \in Records
  PROVE  /\ \A o \in events : \E x \in Upsert(events, e) : x.first = o.first
         /\ (\A o \in events : o.disposition \notin Stamping) /\ e.disposition \in Stamping
              => Upsert(events, e) = events \cup {e}
         /\ e.disposition \notin Stamping
              => {x \in Upsert(events, e) : x.disposition \in Stamping}
                   = {x \in events : x.disposition \in Stamping}
         /\ Upsert(events, e) # {}
<1>1. CASE Upsert(events, e) = events \cup {e}
  BY <1>1
<1>2. ASSUME NEW o \in events, o.disposition = e.disposition,
             Upsert(events, e) = (events \ {o}) \cup {Upped(o, e)}
      PROVE  /\ \A y \in events : \E x \in Upsert(events, e) : x.first = y.first
             /\ \E y \in events : y.disposition = e.disposition
             /\ e.disposition \notin Stamping
                  => {x \in Upsert(events, e) : x.disposition \in Stamping}
                       = {x \in events : x.disposition \in Stamping}
             /\ Upsert(events, e) # {}
  <2> DEFINE u == Upped(o, e)
             up == Upsert(events, e)
  <2>1. u.first = o.first /\ u.disposition = o.disposition
    BY DEF Upped
  <2>2. up = (events \ {o}) \cup {u}
    BY <1>2
  <2> HIDE DEF u, up
  <2>3. u \in up /\ (\A y \in events : y = o \/ y \in up) /\ \A y \in up : y = u \/ (y \in events /\ y # o)
    BY <2>2
  <2>4. \A y \in events : \E x \in up : x.first = y.first
    BY <2>1, <2>3
  <2>5. e.disposition \notin Stamping
          => {x \in up : x.disposition \in Stamping} = {x \in events : x.disposition \in Stamping}
    BY <1>2, <2>1, <2>3
  <2> QED
    BY <1>2, <2>3, <2>4, <2>5 DEF up
<1> QED
  BY <1>1, <1>2, UpsertOne

LEMMA AtIs ==
  ASSUME AuditShape, NEW r \in Rows, Unique(ledger[r]), NEW b
  PROVE  /\ At(r, b) \in SUBSET Records /\ Unique(At(r, b)) /\ Kinds(At(r, b))
         /\ \A e \in At(r, b) : e.bucket = b
         /\ Served(r, b) = {e \in At(r, b) : e.disposition \in Stamping}
         /\ Waited(r, b) = Waiting(At(r, b))
         /\ Ticks(Waited(r, b)) = Ticks(At(r, b)) /\ Ticks(At(r, b)) \in Nat
         /\ \A kind : Count(At(r, b), kind) \in Nat
<1>1. ledger[r] \in SUBSET Records
  BY DEF AuditShape
<1>2. At(r, b) \in SUBSET Records /\ Unique(At(r, b)) /\ Kinds(At(r, b)) /\ \A e \in At(r, b) : e.bucket = b
  BY <1>1 DEF At, Unique, Kinds
<1>3. Served(r, b) = {e \in At(r, b) : e.disposition \in Stamping}
  BY DEF Served
<1>4. Waited(r, b) = Waiting(At(r, b))
  BY <1>3 DEF Waited, Waiting
<1> QED
  BY <1>2, <1>3, <1>4, CountOfWaiting, CountType

LEMMA FlushOfBar ==
  ASSUME AuditInv, Flush, NEW r \in Rows, Unique(ledger[r]), Once(r)
  PROVE  LET b == Bar
             e == Event(r)
             old == At(r, b)
             new0 == At(r, Bar)'
         IN  /\ now' = now /\ rows' = rows /\ account' = None
             /\ Dues(r)' = Dues(r) /\ BarEnds(r)' = BarEnds(r) /\ ~Pending(r)' /\ ~Owing(r)'
             /\ ~Pending(r) => new0 = old /\ Served(r, Bar)' = Served(r, b)
                               /\ Waited(r, Bar)' = Waited(r, b)
             /\ Pending(r) =>
                  /\ e \in Records /\ e.n = 1 /\ e.bucket = b /\ e.first = now
                  /\ e.disposition = account[r].disposition
                  /\ new0 = Upsert(old, e) /\ new0 # {} /\ Served(r, b) = {}
                  /\ Served(r, Bar)' = IF e.disposition \in Stamping THEN {e} ELSE {}
                  /\ Ticks(Waited(r, Bar))' = Ticks(new0)
                  /\ \A o \in old : \E x \in new0 : x.first = o.first
                  /\ e.disposition \in Stamping => e \in new0
<1> DEFINE b == Bar
           e == Event(r)
           old == At(r, b)
           new0 == At(r, Bar)'
<1>1. /\ AuditShape /\ account # None /\ account' = None /\ rows' = rows
      /\ now' = now /\ setting' = setting /\ Bar' = b
      /\ new0 = IF Pending(r) THEN Upsert(old, e) ELSE old
  BY AtFlush DEF AuditInv, Flush
<1>2. /\ Dues(r)' = Dues(r) /\ BarEnds(r)' = BarEnds(r) /\ ~Pending(r)' /\ ~Owing(r)'
  BY <1>1 DEF Dues, BarEnds, Pending, Owing
<1>3. /\ Served(r, Bar)' = {x \in new0 : x.disposition \in Stamping}
      /\ Served(r, b) = {x \in old : x.disposition \in Stamping}
      /\ Waited(r, Bar)' = new0 \ {x \in new0 : x.disposition \in Stamping}
      /\ Waited(r, b) = old \ {x \in old : x.disposition \in Stamping}
  <2>1. Served(r, Bar)' = {x \in new0 : x.disposition \in Stamping}
    BY DEF Served
  <2>2. Waited(r, Bar)' = new0 \ Served(r, Bar)'
    BY DEF Waited
  <2> QED
    BY <2>1, <2>2 DEF Served, Waited
<1>4. old \in SUBSET Records /\ Unique(old) /\ Kinds(old) /\ \A o \in old : o.bucket = b
  BY <1>1, AtIs
<1>5. ASSUME ~Pending(r)
      PROVE  new0 = old /\ Served(r, Bar)' = Served(r, b) /\ Waited(r, Bar)' = Waited(r, b)
  <2>1. new0 = old
    BY <1>1, <1>5
  <2> HIDE DEF new0, old
  <2> QED
    BY <1>3, <2>1
<1>6. ASSUME Pending(r)
      PROVE  /\ e \in Records /\ e.n = 1 /\ e.bucket = b /\ e.first = now
             /\ e.disposition = account[r].disposition
             /\ new0 = Upsert(old, e) /\ new0 # {} /\ Served(r, b) = {}
             /\ Served(r, Bar)' = IF e.disposition \in Stamping THEN {e} ELSE {}
             /\ Ticks(Waited(r, Bar))' = Ticks(new0)
             /\ \A o \in old : \E x \in new0 : x.first = o.first
             /\ e.disposition \in Stamping => e \in new0
  <2>1. /\ e \in Records /\ e.n = 1 /\ e.bucket = b /\ e.disposition = account[r].disposition
    BY <1>1, <1>6, EventIs DEF Pending
  <2>2. e.first = now
    BY DEF Event
  <2>3. new0 = Upsert(old, e)
    BY <1>1, <1>6
  <2>4. Served(r, b) = {}
    BY <1>6 DEF Once
  <2> HIDE DEF new0, old, e, b
  <2>5. Kinds(new0)
    BY <1>4, <2>1, <2>3, CountsUp
  <2>6. Waited(r, Bar)' = Waiting(new0)
    BY <1>3 DEF Waiting
  <2>7. Ticks(Waited(r, Bar))' = Ticks(new0)
    <3>1. Ticks(Waited(r, Bar))' = Ticks(Waiting(new0))
      BY <2>6 DEF Ticks, Count
    <3> QED
      BY <2>5, <3>1, CountOfWaiting
  <2>8. \A o \in old : o.disposition \notin Stamping
    BY <1>3, <2>4
  <2>9. /\ \A o \in old : \E x \in new0 : x.first = o.first
        /\ e.disposition \in Stamping => new0 = old \cup {e}
        /\ e.disposition \notin Stamping
              => {x \in new0 : x.disposition \in Stamping} = {x \in old : x.disposition \in Stamping}
        /\ new0 # {}
    BY <1>4, <2>1, <2>3, <2>8, UpsertServes
  <2>10. Served(r, Bar)' = IF e.disposition \in Stamping THEN {e} ELSE {}
    BY <1>3, <2>8, <2>9
  <2> QED
    BY <2>1, <2>2, <2>3, <2>4, <2>7, <2>9, <2>10
<1> QED
  BY <1>1, <1>2, <1>5, <1>6

LEMMA OnceFlushed ==
  ASSUME AuditInv, Flush, NEW r \in Rows, EventInv(r), Once(r)
  PROVE  Once(r)'
<1> DEFINE served == Served(r, Bar)
           e == Event(r)
<1>0. Unique(ledger[r])
  BY DEF EventInv
<1>1. /\ now' = now /\ rows' = rows
      /\ Dues(r)' = Dues(r) /\ BarEnds(r)' = BarEnds(r) /\ ~Pending(r)' /\ ~Owing(r)'
      /\ ~Pending(r) => Served(r, Bar)' = served
      /\ Pending(r) =>
           /\ served = {} /\ e.n = 1 /\ e.disposition = account[r].disposition
           /\ Served(r, Bar)' = IF e.disposition \in Stamping THEN {e} ELSE {}
  BY <1>0, FlushOfBar
<1>2. Owing(r) <=> Pending(r) /\ account[r].disposition \in Stamping
  BY DEF Owing, Pending
<1>3. /\ served # {} \/ Owing(r) => rows[r].stamp >= Dues(r)
      /\ \A s, o \in served : s = o /\ s.n = 1
      /\ now < BarEnds(r) /\ served = {} /\ ~Owing(r) => rows[r].stamp < Dues(r)
  BY DEF Once
<1> DEFINE later == Served(r, Bar)'
<1>4. /\ later # {} => served # {} \/ Owing(r)
      /\ later = {} => served = {} /\ ~Owing(r)
      /\ \A s, o \in later : s = o /\ s.n = 1
  <2> HIDE DEF served, e, later
  <2>1. ~Pending(r) => later = served /\ ~Owing(r)
    BY <1>1, <1>2 DEF later
  <2>2. Pending(r) => served = {} /\ e.n = 1 /\ later = IF Owing(r) THEN {e} ELSE {}
    BY <1>1, <1>2 DEF later
  <2> QED
    BY <1>3, <2>1, <2>2
<1> HIDE DEF served, e
<1> QED
  BY <1>1, <1>3, <1>4 DEF Once

(* The events of a bar that is settled are all of its due time.            *)
LEMMA DueOfBar ==
  ASSUME AuditInv, NEW r \in Rows, settled[r] <= Bar
  PROVE  \A e \in At(r, Bar) : e.due = Dues(r) /\ Dues(r) <= now
<1> SUFFICES ASSUME NEW e \in At(r, Bar)
             PROVE  e.due = Dues(r) /\ Dues(r) <= now
  OBVIOUS
<1> DEFINE w == Wide(r)
           old == settled[r]
<1>1. /\ e \in ledger[r] /\ e.bucket = Bar /\ e.due <= now /\ e.due \in Int
      /\ e.due - e.bucket # Shift[setting][r] => e.bucket + w < old
  BY DEF At, AuditInv, AuditShape, BookInv, Records
<1>2. Bar \in Int /\ old \in Int /\ Shift[setting][r] \in Int
  BY Bars, Cadence DEF AuditInv, AuditShape
<1>3. w \in Int /\ Period[r] + Hour <= w /\ Period[r] \in Nat /\ Hour \in Nat
  BY WideOf, Cadence
<1> HIDE DEF w, old
<1>4. e.due - e.bucket = Shift[setting][r]
  <2>1. old <= Bar
    BY DEF old
  <2> QED
    BY <1>1, <1>2, <1>3, <2>1
<1> QED
  BY <1>1, <1>2, <1>4 DEF Dues

(* Failed fetches of a bar are no more than the row has counted.           *)
FailedIn(r) ==
  Count(At(r, Bar), "fetch_failed")
    + IF Pending(r) /\ account[r].disposition = "fetch_failed" THEN 1 ELSE 0
Failing(r) ==
  /\ FailedIn(r) < MaxAttempts
  /\ now < BarEnds(r) /\ rows[r].stamp < Dues(r) => FailedIn(r) <= rows[r].fails
FailedBefore(r, b) ==
  LET due == b + Shift[setting][r]
      failed == Count(At(r, b), "fetch_failed")
  IN  /\ failed \in Nat /\ failed < MaxAttempts
      /\ now < due + Period[r] /\ rows[r].stamp < due => failed <= rows[r].fails
      /\ now < due => At(r, b) = {}

LEMMA FailedBeforeTick ==
  ASSUME AuditInv, WatchesTyped, Cycled, NEW r \in Rows, RowInv(r), EventInv(r), Behind(r),
         settled[r] <= Bar /\ IsBar(r, Bar) => Failing(r), settled[r] <= NextBar,
         IsBar(r, NextBar)
  PROVE  FailedBefore(r, NextBar)
<1>1. /\ AuditShape /\ now > Start /\ account = None /\ Unique(ledger[r])
      /\ rows[r].fails \in Int /\ 0 <= rows[r].fails /\ MaxAttempts \in Nat /\ MaxAttempts > 0
  BY Cadence DEF AuditInv, RowInv, Cycled, EventInv, WatchesTyped
<1>2. CASE now < NextBar
  <2>1. At(r, NextBar) = {}
    BY <1>2, NewBar
  <2>2. Count(At(r, NextBar), "fetch_failed") = 0
    BY <2>1, CountOfNone
  <2> QED
    BY <1>1, <2>1, <2>2 DEF FailedBefore
<1>3. CASE NextBar = Bar
  <2> DEFINE failed == Count(At(r, Bar), "fetch_failed")
  <2>1. failed \in Nat
    BY <1>1, AtIs
  <2>2. ~Pending(r)
    BY <1>1 DEF Pending
  <2>3. FailedIn(r) = failed + 0
    <3> HIDE DEF failed
    <3>1. FailedIn(r) = failed + IF Pending(r) /\ account[r].disposition = "fetch_failed" THEN 1 ELSE 0
      BY DEF FailedIn, failed
    <3> QED
      BY <2>2, <3>1
  <2>4. now < Dues(r) => At(r, Bar) = {}
    <3>1. \A e \in At(r, Bar) : Dues(r) <= now
      BY <1>3, DueOfBar
    <3>2. now \in Int /\ Dues(r) \in Int
      BY <1>1, Bars, Cadence DEF AuditShape, Dues
    <3> QED
      BY <3>1, <3>2
  <2> HIDE DEF failed
  <2>5. failed < MaxAttempts /\ (now < BarEnds(r) /\ rows[r].stamp < Dues(r) => failed <= rows[r].fails)
    BY <1>3, <2>1, <2>3 DEF Failing
  <2> QED
    BY <1>3, <2>1, <2>4, <2>5 DEF FailedBefore, failed, Dues, BarEnds
<1> QED
  BY <1>1, <1>2, <1>3, Turns DEF NextBar

LEMMA FailingTicks ==
  ASSUME AuditShape, WatchesTyped, WatchesTyped', Cycled, NEW r \in Rows, RowInv(r),
         FailedBefore(r, NextBar), IsBar(r, NextBar)
  PROVE  Failing(r)'
<1> DEFINE t == now + Tick
           due == NextBar + Shift[setting][r]
           failed == Count(At(r, NextBar), "fetch_failed")
           fails == rows[r].fails
           more == IF Pending(r)' /\ account'[r].disposition = "fetch_failed" THEN 1 ELSE 0
<1>1. /\ now \in Nat /\ Tick \in Nat /\ Tick >= 2 /\ t \in Int /\ now' = t /\ due \in Int
      /\ Period[r] \in Nat /\ Dues(r)' = due /\ BarEnds(r)' = due + Period[r]
      /\ At(r, Bar)' = At(r, NextBar)
      /\ rows[r].stamp \in Int /\ rows'[r].stamp \in Int /\ rows[r].stamp <= rows'[r].stamp
      /\ rows[r].fails \in Int /\ rows'[r].fails \in Int
      /\ Pending(r)' <=> IsDue(r, t) /\ due <= t /\ t < due + Period[r]
      /\ Pending(r)' => rows[r].stamp < due
      /\ IsDue(r, t) => LeftWaiting(r) \/ Serviced(r, t)
      /\ IsDue(r, t) /\ Serviced(r, t) => t <= rows'[r].stamp /\ rows'[r].fails = 0
  BY TickOfBar
<1>2. /\ failed \in Nat /\ failed < MaxAttempts
      /\ now < due + Period[r] /\ rows[r].stamp < due => failed <= fails
      /\ now < due => failed = 0
      /\ MaxAttempts \in Nat
  BY CountOfNone, Cadence DEF FailedBefore
<1>3. FailedIn(r)' = failed + more
  <2>1. FailedIn(r)' = Count(At(r, Bar)', "fetch_failed") + more
    BY DEF FailedIn, Count
  <2> QED
    BY <1>1, <2>1
<1>4. now < t /\ RowTick(r, t)
  BY <1>1 DEF Cycled
<1> HIDE DEF t, due, failed
<1>5. CASE ~IsDue(r, t)
  <2>1. more = 0
    BY <1>1, <1>5
  <2>2. rows'[r] = rows[r]
    BY <1>4, <1>5 DEF RowTick
  <2>3. FailedIn(r)' = failed
    BY <1>2, <1>3, <2>1
  <2> QED
    BY <1>1, <1>2, <1>4, <2>2, <2>3 DEF Failing
<1>6. CASE IsDue(r, t) /\ Serviced(r, t)
  <2>1. more = 0
    <3>1. "fetch_failed" \notin Stamping
      BY DEF Stamping
    <3> QED
      BY <1>6, <3>1 DEF Serviced
  <2>2. FailedIn(r)' = failed
    BY <1>2, <1>3, <2>1
  <2>3. rows'[r].stamp < due => failed = 0
    BY <1>1, <1>2, <1>4, <1>6
  <2> QED
    BY <1>1, <1>2, <1>6, <2>2, <2>3 DEF Failing
<1>7. CASE IsDue(r, t) /\ LeftWaiting(r)
  <2>1. rows'[r].stamp = rows[r].stamp
    BY <1>7 DEF LeftWaiting
  <2>2. CASE Pending(r)' /\ account'[r].disposition = "fetch_failed"
    <3>1. rows'[r].fails = fails + 1 /\ fails + 1 < MaxAttempts
      BY <1>7, <2>2 DEF LeftWaiting
    <3>2. more = 1
      BY <2>2
    <3>3. failed <= fails
      BY <1>1, <1>2, <1>4, <2>2
    <3>4. FailedIn(r)' = failed + 1
      BY <1>3, <3>2
    <3> QED
      BY <1>1, <1>2, <3>1, <3>3, <3>4 DEF Failing
  <2>3. CASE ~(Pending(r)' /\ account'[r].disposition = "fetch_failed")
    <3>1. more = 0
      BY <2>3
    <3>2. FailedIn(r)' = failed
      BY <1>2, <1>3, <3>1
    <3>3. fails <= rows'[r].fails
      BY <1>1, <1>7 DEF LeftWaiting
    <3> QED
      BY <1>1, <1>2, <1>4, <2>1, <3>2, <3>3 DEF Failing
  <2> QED
    BY <2>2, <2>3
<1> QED
  BY <1>1, <1>5, <1>6, <1>7

LEMMA FailingFlushed ==
  ASSUME AuditInv, Flush, NEW r \in Rows, EventInv(r), Once(r), Failing(r)
  PROVE  Failing(r)'
<1> DEFINE e == Event(r)
           old == At(r, Bar)
           new0 == At(r, Bar)'
           kind == "fetch_failed"
<1>0. Unique(ledger[r]) /\ AuditShape
  BY DEF EventInv, AuditInv
<1>1. /\ now' = now /\ rows' = rows
      /\ Dues(r)' = Dues(r) /\ BarEnds(r)' = BarEnds(r) /\ ~Pending(r)'
      /\ ~Pending(r) => new0 = old
      /\ Pending(r) =>
           /\ e \in Records /\ e.n = 1 /\ e.bucket = Bar /\ e.disposition = account[r].disposition
           /\ new0 = Upsert(old, e)
  BY <1>0, FlushOfBar
<1>2. /\ old \in SUBSET Records /\ Kinds(old) /\ \A o \in old : o.bucket = Bar
      /\ Count(old, kind) \in Nat
  BY <1>0, AtIs
<1>3. FailedIn(r)' = Count(new0, kind) + 0
  <2>1. FailedIn(r)' = Count(new0, kind)
          + IF Pending(r)' /\ account'[r].disposition = kind THEN 1 ELSE 0
    BY DEF FailedIn, Count
  <2> HIDE DEF new0
  <2> QED
    BY <1>1, <2>1
<1>4. FailedIn(r) = Count(old, kind) + IF Pending(r) /\ account[r].disposition = kind THEN 1 ELSE 0
  BY DEF FailedIn
<1> HIDE DEF e, old, new0, kind
<1>5. Count(new0, kind) + 0 = Count(old, kind)
                                + IF Pending(r) /\ account[r].disposition = kind THEN 1 ELSE 0
  <2>1. CASE Pending(r)
    <3>1. Count(new0, kind) = Count(old, kind) + (IF kind = e.disposition THEN 1 ELSE 0)
      BY <1>1, <1>2, <2>1, CountsUp
    <3> QED
      BY <1>1, <1>2, <2>1, <3>1
  <2>2. CASE ~Pending(r)
    BY <1>1, <1>2, <2>2
  <2> QED
    BY <2>1, <2>2
<1>6. FailedIn(r)' = FailedIn(r)
  BY <1>3, <1>4, <1>5
<1> QED
  BY <1>1, <1>6 DEF Failing

LEMMA Spans ==
  ASSUME NEW x \in Int, NEW p \in Nat \ {0}
  PROVE  /\ x \div p \in Int
         /\ \A k \in Int : k * p <= x => k <= x \div p
         /\ \A k \in Int : k * p <= x /\ x < k * p + p => x \div p = k
         /\ 0 <= x /\ x < p => x \div p = 0
         /\ x \div p <= 0 => x < p
         /\ (x + p) \div p = x \div p + 1
<1> DEFINE q == x \div p
           q1 == (x + p) \div p
<1>1. q \in Int /\ q1 \in Int
  BY SMT
<1>2. Floor(x, p) = q * p /\ Floor(x + p, p) = q1 * p /\ x + p \in Int
  BY DEF Floor
<1>3. q * p <= x /\ x < q * p + p
  <2>1. Floor(x, p) <= x /\ x < Floor(x, p) + p
    BY FloorIs
  <2> QED
    BY <1>2, <2>1
<1>4. q1 * p <= x + p /\ x + p < q1 * p + p
  <2>1. Floor(x + p, p) <= x + p /\ x + p < Floor(x + p, p) + p
    BY <1>2, FloorIs
  <2> QED
    BY <1>2, <2>1
<1> HIDE DEF q, q1
<1>5. ASSUME NEW k \in Int, NEW m \in Int, NEW y \in Int, k * p <= y, y < m * p + p
      PROVE  k <= m
  <2> SUFFICES ASSUME m + 1 <= k PROVE FALSE
    OBVIOUS
  <2>1. (m + 1) * p <= k * p
    BY Times
  <2>2. (m + 1) * p = m * p + p /\ m * p \in Int /\ k * p \in Int
    OBVIOUS
  <2> DEFINE a == m * p
             c == k * p
  <2>3. a \in Int /\ c \in Int /\ a + p <= c /\ c <= y /\ y < a + p
    BY <1>5, <2>1, <2>2
  <2> HIDE DEF a, c
  <2> QED
    BY <2>3
<1>6. \A k \in Int : k * p <= x => k <= q
  BY <1>1, <1>3, <1>5
<1>7. \A k \in Int : k * p <= x /\ x < k * p + p => q = k
  <2> SUFFICES ASSUME NEW k \in Int, k * p <= x, x < k * p + p PROVE q = k
    OBVIOUS
  <2>1. k <= q /\ q <= k
    BY <1>1, <1>3, <1>5
  <2> QED
    BY <1>1, <2>1
<1>8. q <= 0 => x < p
  <2> HAVE q <= 0
  <2>1. q * p <= 0 * p /\ 0 * p = 0 /\ q * p \in Int
    BY <1>1, Times
  <2> DEFINE a == q * p
  <2>2. a \in Int /\ a <= 0 /\ x < a + p
    BY <1>3, <2>1
  <2> HIDE DEF a
  <2> QED
    BY <2>2
<1>9. q1 = q + 1
  <2>1. (q + 1) * p = q * p + p /\ q + 1 \in Int /\ q * p \in Int /\ q1 * p \in Int
    BY <1>1
  <2> DEFINE a == q * p
             c == q1 * p
  <2>2. a \in Int /\ c \in Int /\ a <= x /\ x < a + p /\ c <= x + p /\ x + p < c + p
    BY <1>3, <1>4, <2>1
  <2> HIDE DEF a, c
  <2>3. a + p <= x + p /\ x + p < a + p + p /\ c <= x + p /\ x + p < c + p
    BY <2>2
  <2>4. (q + 1) * p <= x + p /\ x + p < (q + 1) * p + p /\ q1 * p <= x + p /\ x + p < q1 * p + p
    BY <2>1, <2>3 DEF a, c
  <2>5. q + 1 <= q1 /\ q1 <= q + 1
    BY <1>1, <1>2, <1>5, <2>1, <2>4
  <2> QED
    BY <1>1, <2>5
<1>10. 0 <= x /\ x < p => q = 0
  <2>1. 0 * p = 0 /\ 0 \in Int
    OBVIOUS
  <2>2. 0 * p <= x /\ x < 0 * p + p => q = 0
    BY <1>7, <2>1, Zenon
  <2> QED
    BY <2>1, <2>2
<1> QED
  BY <1>1, <1>6, <1>7, <1>8, <1>9, <1>10 DEF q, q1

(* Every tick from a bar's due time to its service has its event, and a    *)
(* row that was never served has one for every tick to the end of the bar. *)
Since(due, t) == (t - due) \div Tick
Flushed(r) == Since(Dues(r), now) + IF account = None THEN 1 ELSE 0
Counted(r) ==
  /\ Served(r, Bar) = {} /\ Dues(r) <= now =>
       IF now < BarEnds(r) THEN /\ Ticks(Waited(r, Bar)) = Flushed(r)
                                /\ account # None => Pending(r)
       ELSE Ticks(Waited(r, Bar)) >= MaxAttempts
  /\ \A s \in Served(r, Bar) : Ticks(Waited(r, Bar)) = Since(Dues(r), s.first)
  /\ At(r, Bar) # {} => \E e \in At(r, Bar) : e.first < Dues(r) + Tick
CountedBefore(r, b) ==
  LET due == b + Shift[setting][r]
  IN  /\ Served(r, b) = {} /\ due <= now =>
           IF now < due + Period[r] THEN Ticks(Waited(r, b)) = Since(due, now) + 1
           ELSE Ticks(Waited(r, b)) >= MaxAttempts
      /\ \A s \in Served(r, b) : Ticks(Waited(r, b)) = Since(due, s.first)
      /\ At(r, b) # {} => \E e \in At(r, b) : e.first < due + Tick
      /\ now < due => At(r, b) = {}

LEMMA CountedBeforeTick ==
  ASSUME AuditInv, WatchesTyped, Cycled, NEW r \in Rows, RowInv(r), EventInv(r), Behind(r),
         settled[r] <= Bar /\ IsBar(r, Bar) /\ Start < Bar => Counted(r),
         settled[r] <= NextBar, IsBar(r, NextBar), Start < NextBar
  PROVE  CountedBefore(r, NextBar)
<1>1. AuditShape /\ now > Start /\ account = None /\ now \in Int /\ Tick \in Nat \ {0}
  BY Cadence DEF AuditInv, AuditShape, RowInv, Cycled
<1>2. CASE now < NextBar
  <2>1. At(r, NextBar) = {}
    BY <1>2, NewBar
  <2>2. Served(r, NextBar) = {}
    BY <2>1 DEF Served
  <2>3. NextBar + Shift[setting][r] > now
    <3>1. NextBar \in Int /\ Shift[setting][r] \in Nat
      BY <1>1, Turns, Cadence DEF NextBar, AuditShape
    <3> QED
      BY <1>1, <1>2, <3>1
  <2>4. ~(NextBar + Shift[setting][r] <= now)
    <3>1. NextBar + Shift[setting][r] \in Int
      BY <1>1, Turns, Cadence DEF NextBar, AuditShape
    <3> QED
      BY <1>1, <2>3, <3>1
  <2> QED
    BY <2>1, <2>2, <2>4 DEF CountedBefore
<1>3. CASE NextBar = Bar
  <2>1. Counted(r)
    BY <1>3
  <2>2. now < Dues(r) => At(r, Bar) = {}
    <3>1. \A e \in At(r, Bar) : Dues(r) <= now
      BY <1>3, DueOfBar
    <3>2. Dues(r) \in Int
      BY <1>1, Bars, Cadence DEF AuditShape, Dues
    <3> QED
      BY <1>1, <3>1, <3>2
  <2>3. Flushed(r) = Since(Dues(r), now) + 1
    BY <1>1 DEF Flushed
  <2> QED
    BY <1>3, <2>1, <2>2, <2>3 DEF Counted, CountedBefore, Dues, BarEnds
<1> QED
  BY <1>1, <1>2, <1>3, Turns DEF NextBar

LEMMA CountedTicks ==
  ASSUME AuditShape, WatchesTyped, WatchesTyped', Cycled, NEW r \in Rows, RowInv(r), EventInv(r),
         ServedOnce(r, NextBar), CountedBefore(r, NextBar), IsBar(r, NextBar)
  PROVE  Counted(r)'
<1> DEFINE b == NextBar
           t == now + Tick
           due == b + Shift[setting][r]
           served == Served(r, b)
           at == At(r, b)
           waited == Waited(r, b)
           p == Period[r]
<1>1. /\ now \in Nat /\ Tick \in Nat /\ Tick >= 2 /\ t \in Int /\ now' = t /\ due \in Int
      /\ p \in Nat /\ 2 * Tick <= p /\ Dues(r)' = due /\ BarEnds(r)' = due + p
      /\ At(r, Bar)' = at /\ Served(r, Bar)' = served /\ Waited(r, Bar)' = waited
      /\ Pending(r)' <=> IsDue(r, t) /\ due <= t /\ t < due + p
      /\ rows[r].stamp < due /\ due <= t => IsDue(r, t)
  BY TickOfBar
<1>2. now < t /\ account' # None /\ MaxAttempts \in Nat /\ MaxAttempts * Tick <= p
  BY <1>1, Cadence DEF Cycled
<1>3. now < due + p /\ served = {} => rows[r].stamp < due
  BY DEF ServedOnce
<1>4. /\ served = {} /\ due <= now =>
           IF now < due + p THEN Ticks(waited) = Since(due, now) + 1
           ELSE Ticks(waited) >= MaxAttempts
      /\ \A s \in served : Ticks(waited) = Since(due, s.first)
      /\ at # {} => \E e \in at : e.first < due + Tick
      /\ now < due => at = {}
  BY DEF CountedBefore
<1>5. Ticks(waited) \in Nat /\ (at = {} => Ticks(waited) = 0)
  <2>1. Ticks(waited) = Ticks(at) /\ Ticks(at) \in Nat
    BY AtIs DEF EventInv
  <2> HIDE DEF at, waited
  <2> QED
    BY <2>1, CountOfNone
<1>6. Since(due, t) = Since(due, now) + 1 /\ Since(due, now) \in Int
  <2>1. now - due \in Int /\ t - due = (now - due) + Tick /\ Tick \in Nat \ {0}
    BY <1>1
  <2> DEFINE x == now - due
  <2> HIDE DEF x, t, due
  <2>2. (x + Tick) \div Tick = x \div Tick + 1 /\ x \div Tick \in Int
    BY <2>1, Spans DEF x
  <2> QED
    BY <2>1, <2>2 DEF Since, x
<1>7. now < due /\ due <= t => Since(due, t) = 0
  <2> HAVE now < due /\ due <= t
  <2>1. t - due \in Int /\ 0 <= t - due /\ t - due < Tick /\ Tick \in Nat \ {0}
    BY <1>1
  <2> DEFINE x == t - due
  <2> HIDE DEF x, t, due
  <2>2. 0 <= x /\ x < Tick /\ x \in Int
    BY <2>1 DEF x
  <2>3. x \div Tick = 0
    BY <2>1, <2>2, Spans
  <2> QED
    BY <2>3 DEF Since, x
<1>8. t >= due + p => Since(due, t) >= MaxAttempts
  <2> HAVE t >= due + p
  <2>1. t - due \in Int /\ p <= t - due /\ Tick \in Nat \ {0}
    BY <1>1
  <2> DEFINE x == t - due
             retries == MaxAttempts * Tick
  <2>2. x \in Int /\ retries \in Int /\ retries <= p /\ p <= x
    BY <1>1, <1>2, <2>1
  <2> HIDE DEF x, t, due, p, retries
  <2>3. retries <= x
    BY <1>1, <2>2
  <2>4. MaxAttempts <= x \div Tick /\ x \div Tick \in Int
    <3>1. (\A k \in Int : k * Tick <= x => k <= x \div Tick) /\ x \div Tick \in Int
      BY <2>1, <2>2, Spans
    <3>2. MaxAttempts \in Int /\ MaxAttempts * Tick <= x
      BY <1>2, <2>3 DEF retries
    <3> QED
      BY <3>1, <3>2, Zenon
  <2> QED
    BY <1>2, <2>4 DEF Since, x
<1> HIDE DEF t, due, served, at, waited, p
<1>9. ASSUME served = {}, due <= t
      PROVE  IF t < due + p THEN Ticks(waited) = Since(due, t) /\ Pending(r)'
             ELSE Ticks(waited) >= MaxAttempts
  <2>1. CASE t < due + p
    <3>1. Pending(r)'
      BY <1>1, <1>2, <1>3, <1>9, <2>1
    <3>2. Ticks(waited) = Since(due, t)
      BY <1>1, <1>2, <1>4, <1>5, <1>6, <1>7, <1>9, <2>1
    <3> QED
      BY <2>1, <3>1, <3>2
  <2>2. CASE ~(t < due + p) /\ ~(now < due + p)
    BY <1>1, <1>4, <1>9, <2>2
  <2>3. CASE ~(t < due + p) /\ now < due + p
    <3>1. due <= now
      BY <1>1, <2>3 DEF t
    <3> QED
      BY <1>1, <1>2, <1>4, <1>6, <1>8, <1>9, <2>3, <3>1
  <2> QED
    BY <2>1, <2>2, <2>3
<1>10. Flushed(r)' = Since(due, t)
  <2>1. Flushed(r)' = Since(due, t) + 0
    <3>1. Since(Dues(r), now)' = Since(due, t)
      BY <1>1 DEF Since
    <3> QED
      BY <1>2, <3>1 DEF Flushed
  <2>2. Since(due, t) \in Int
    BY <1>6
  <2> QED
    BY <2>1, <2>2
<1>11. \A x : Since(Dues(r), x)' = Since(due, x')
  BY <1>1 DEF Since
<1>12. Ticks(Waited(r, Bar))' = Ticks(waited)
  <2>1. Ticks(Waited(r, Bar))' = Ticks(Waited(r, Bar)')
    BY DEF Ticks, Count
  <2> QED
    BY <1>1, <2>1
<1>13. \A s \in served : Ticks(waited) = (s.first - due) \div Tick
  BY <1>4 DEF Since
<1> QED
  BY <1>1, <1>2, <1>4, <1>9, <1>10, <1>12, <1>13 DEF Counted, Since

LEMMA CountedFlushed ==
  ASSUME AuditInv, Flush, NEW r \in Rows, EventInv(r), Once(r), Counted(r), IsBar(r, Bar)
  PROVE  Counted(r)'
<1> DEFINE due == Dues(r)
           ends == BarEnds(r)
           e == Event(r)
           old == At(r, Bar)
           new0 == At(r, Bar)'
           served == Served(r, Bar)
           later == Served(r, Bar)'
           ticks == Ticks(Waited(r, Bar))
           past == Since(due, now)
<1>0. Unique(ledger[r]) /\ AuditShape /\ now \in Int /\ account # None /\ setting \in Settings
  BY DEF EventInv, AuditInv, AuditShape, Flush
<1>1. /\ now' = now /\ account' = None
      /\ Dues(r)' = due /\ BarEnds(r)' = ends /\ ~Pending(r)'
      /\ ~Pending(r) => new0 = old /\ later = served /\ Waited(r, Bar)' = Waited(r, Bar)
      /\ Pending(r) =>
           /\ e \in Records /\ e.n = 1 /\ e.bucket = Bar /\ e.first = now
           /\ new0 = Upsert(old, e) /\ new0 # {} /\ served = {}
           /\ later = IF e.disposition \in Stamping THEN {e} ELSE {}
           /\ Ticks(Waited(r, Bar))' = Ticks(new0)
           /\ \A o \in old : \E x \in new0 : x.first = o.first
           /\ e.disposition \in Stamping => e \in new0
  BY <1>0, FlushOfBar
<1>2. /\ old \in SUBSET Records /\ Kinds(old) /\ \A o \in old : o.bucket = Bar
      /\ ticks = Ticks(old) /\ Ticks(old) \in Nat
  BY <1>0, AtIs
<1>3. /\ served = {} /\ due <= now =>
           IF now < ends THEN ticks = past + 0 /\ Pending(r)
           ELSE ticks >= MaxAttempts
      /\ \A s \in served : ticks = Since(due, s.first)
      /\ old # {} => \E x \in old : x.first < due + Tick
  BY <1>0 DEF Counted, Flushed
<1>4. Pending(r) => due <= now /\ now < ends
  <2> HAVE Pending(r)
  <2>1. Target(r, now) = Bar /\ Bar \in Int
    BY <1>0, Bars DEF Pending
  <2>2. /\ Bar + Shift[setting][r] <= now /\ now < Bar + Shift[setting][r] + Period[r]
    BY <1>0, <2>1, TargetAt
  <2> QED
    BY <2>2 DEF Dues, BarEnds
<1>5. due \in Int /\ Tick \in Nat \ {0} /\ past \in Int
  <2>1. due \in Int /\ Tick \in Nat \ {0}
    BY <1>0, Bars, Cadence DEF Dues
  <2>2. now - due \in Int
    BY <1>0, <2>1
  <2> DEFINE x == now - due
  <2> HIDE DEF x
  <2>3. x \div Tick \in Int
    BY <2>1, <2>2, Spans DEF x
  <2> QED
    BY <2>1, <2>3 DEF Since, x
<1>6. past = 0 => now < due + Tick
  <2> DEFINE x == now - due
  <2>1. x \in Int
    BY <1>0, <1>5
  <2> HIDE DEF x
  <2>2. x \div Tick <= 0 => x < Tick
    BY <1>5, <2>1, Spans
  <2> HAVE past = 0
  <2>3. x \div Tick = 0
    BY DEF Since, x
  <2>4. x < Tick
    BY <2>2, <2>3
  <2> HIDE DEF due
  <2> QED
    BY <1>0, <1>5, <2>4 DEF x
<1> DEFINE ticksNow == Ticks(Waited(r, Bar))'
<1>7. /\ Flushed(r)' = past + 1
      /\ \A x : Since(Dues(r), x)' = Since(due, x')
      /\ Waited(r, Bar)' = Waited(r, Bar) => ticksNow = ticks
  <2>1. Since(Dues(r), now)' = past
    BY <1>1 DEF Since
  <2>2. Flushed(r)' = past + 1
    BY <1>1, <2>1 DEF Flushed
  <2>3. ticksNow = Ticks(Waited(r, Bar)')
    BY DEF Ticks, Count
  <2> QED
    BY <1>1, <2>2, <2>3 DEF Since
<1> HIDE DEF due, ends, e, old, new0, served, later, ticks, past, ticksNow
<1>8. SUFFICES
        /\ later = {} /\ due <= now =>
             IF now < ends THEN ticksNow = past + 1 ELSE ticksNow >= MaxAttempts
        /\ \A s \in later : ticksNow = Since(due, s.first)
        /\ new0 # {} => \E x \in new0 : x.first < due + Tick
  BY <1>1, <1>7 DEF Counted, later, new0, ticksNow, Since
<1>9. CASE ~Pending(r)
  BY <1>1, <1>3, <1>7, <1>9 DEF ticksNow, later, new0
<1>10. CASE Pending(r)
  <2>1. ticks = past
    BY <1>1, <1>3, <1>4, <1>5, <1>10
  <2>2. ticksNow = ticks + IF e.disposition \in Stamping THEN 0 ELSE 1
    BY <1>1, <1>2, <1>10, CountsUp DEF ticksNow
  <2>3. \E x \in new0 : x.first < due + Tick
    <3>1. CASE old = {}
      <4>1. past = 0
        BY <1>2, <2>1, <3>1, CountOfNone
      <4>2. PICK x \in new0 : TRUE
        BY <1>1, <1>10
      <4>3. new0 = {e}
        <5>1. new0 = Upsert({}, e)
          BY <1>1, <1>10, <3>1
        <5>2. Upsert({}, e) = {e}
          BY DEF Upsert
        <5> QED
          BY <5>1, <5>2
      <4> QED
        BY <1>1, <1>6, <1>10, <4>1, <4>3
    <3>2. CASE old # {}
      BY <1>1, <1>3, <1>10, <3>2
    <3> QED
      BY <3>1, <3>2
  <2>4. CASE e.disposition \in Stamping
    <3>1. later = {e} /\ ticksNow = past /\ e.first = now
      BY <1>1, <1>2, <1>5, <1>10, <2>1, <2>2, <2>4
    <3> QED
      BY <2>3, <3>1 DEF past
  <2>5. CASE e.disposition \notin Stamping
    BY <1>1, <1>4, <1>10, <2>1, <2>2, <2>3, <2>5
  <2> QED
    BY <2>4, <2>5
<1> QED
  BY <1>9, <1>10

(* What the design comes to: the first six parts whatever is changed, the  *)
(* rest of bars that opened after the last change.                         *)
DesignRow(r) ==
  /\ RowInv(r) /\ EventInv(r) /\ Orderly(r) /\ Attested(r) /\ Behind(r) /\ Reached(r)
  /\ settled[r] <= Bar /\ IsBar(r, Bar) => Once(r) /\ Failing(r) /\ (Start < Bar => Counted(r))
DesignInv == seen = {} => \A r \in Rows : DesignRow(r)

LEMMA DesignBegins ==
  ASSUME Init
  PROVE  DesignInv
<1> SUFFICES ASSUME NEW r \in Rows PROVE DesignRow(r)
  BY DEF DesignInv
<1>1. /\ now = Start + 1 /\ setting \in Settings /\ account = None
      /\ rows[r] = NewRow(Start) /\ ledger[r] = {} /\ settled[r] = 0
  BY DEF Init
<1>2. /\ rows[r].stamp = Never /\ rows[r].fails = 0 /\ rows[r].added = Start
  BY <1>1 DEF NewRow
<1>3. /\ Hour \in Nat \ {0} /\ Start \in Nat /\ Tick \in Nat /\ Tick >= 2
      /\ MaxAttempts \in Nat /\ MaxAttempts > 0
      /\ now \in Int /\ Shift[setting][r] \in Nat /\ Period[r] \in Nat
  BY <1>1, Cadence
<1>4. AuditShape
  BY AuditBegins DEF AuditInv
<1>5. Bar \in Int /\ Bar <= now /\ 0 <= Bar /\ \E k \in Int : Bar = k * Hour
  <2>1. 0 = 0 * Hour /\ 0 \in Int /\ 0 <= now
    BY <1>1, <1>3
  <2>2. \E k \in Int : 0 = k * Hour
    BY <2>1
  <2>3. 0 <= Bar
    BY <1>3, <2>1, <2>2, Within DEF Bar
  <2> QED
    BY <1>3, <2>3, Bars
<1>6. ~(Start < Bar)
  <2>1. Bar <= Start
    BY <1>1, <1>5, FirstBar
  <2> QED
    BY <1>3, <1>5, <2>1
<1>7. RowInv(r) /\ EventInv(r) /\ Orderly(r) /\ Attested(r)
  BY <1>1, <1>2, <1>3 DEF RowInv, EventInv, Orderly, Attested, Stamped, Unique, Never
<1>8. Behind(r)
  <2>1. Target(r, Never) <= Target(r, now)
    BY <1>1, <1>3, Later DEF Never
  <2> QED
    BY <1>2, <2>1 DEF Behind
<1>9. Reached(r)
  BY <1>1 DEF Reached, Come
<1>10. At(r, Bar) = {} /\ Served(r, Bar) = {} /\ ~Owing(r) /\ ~Pending(r)
  BY <1>1 DEF At, Served, Owing, Pending
<1>11. Never < Dues(r)
  BY <1>3, <1>5 DEF Dues, Never
<1>12. Once(r)
  BY <1>2, <1>10, <1>11 DEF Once
<1>13. Failing(r)
  <2>1. FailedIn(r) = 0
    BY <1>10, CountOfNone DEF FailedIn
  <2> QED
    BY <1>2, <1>3, <2>1 DEF Failing
<1> QED
  BY <1>6, <1>7, <1>8, <1>9, <1>12, <1>13 DEF DesignRow

LEMMA DesignTicks ==
  ASSUME AuditInv, WatchesTyped, WatchesTyped', Cycled, NEW r \in Rows, DesignRow(r)
  PROVE  DesignRow(r)'
<1>1. /\ AuditShape /\ RowInv(r) /\ EventInv(r) /\ Orderly(r) /\ Attested(r)
      /\ Behind(r) /\ Reached(r)
      /\ settled[r] <= Bar /\ IsBar(r, Bar) =>
           Once(r) /\ Failing(r) /\ (Start < Bar => Counted(r))
  BY DEF AuditInv, DesignRow
<1>2. RowInv(r)' /\ EventInv(r)' /\ Orderly(r)' /\ Attested(r)' /\ Behind(r)' /\ Reached(r)'
  BY <1>1, RowTicks, EventTicks, OrderlyTicks, AttestedTicks, BehindTicks, ReachedTicks
<1>3. Bar' = NextBar /\ settled' = settled
  BY <1>1, Turns DEF NextBar, RowInv, Cycled
<1>4. ASSUME settled[r] <= NextBar, IsBar(r, NextBar)
      PROVE  Once(r)' /\ Failing(r)' /\ (Start < NextBar => Counted(r)')
  <2>1. ServedOnce(r, NextBar)
    BY <1>1, <1>4, OnceBefore
  <2>2. FailedBefore(r, NextBar)
    BY <1>1, <1>4, FailedBeforeTick
  <2>3. Once(r)' /\ Failing(r)'
    BY <1>1, <1>4, <2>1, <2>2, OnceTicks, FailingTicks
  <2>4. ASSUME Start < NextBar PROVE Counted(r)'
    <3>1. CountedBefore(r, NextBar)
      BY <1>1, <1>4, <2>4, CountedBeforeTick
    <3> QED
      BY <1>1, <1>4, <2>1, <3>1, CountedTicks
  <2> QED
    BY <2>3, <2>4
<1> QED
  BY <1>2, <1>3, <1>4 DEF DesignRow, IsBar

LEMMA DesignFlushed ==
  ASSUME AuditInv, WatchesTyped, Flush, NEW r \in Rows, DesignRow(r)
  PROVE  DesignRow(r)'
<1>1. /\ AuditShape /\ RowInv(r) /\ EventInv(r) /\ Orderly(r) /\ Attested(r)
      /\ Behind(r) /\ Reached(r)
      /\ settled[r] <= Bar /\ IsBar(r, Bar) =>
           Once(r) /\ Failing(r) /\ (Start < Bar => Counted(r))
  BY DEF AuditInv, DesignRow
<1>2. EventInv(r)' /\ Orderly(r)' /\ Attested(r)' /\ Reached(r)'
  BY <1>1, EventFlushed, OrderlyFlushed, AttestedFlushed, ReachedFlushed
<1>3. /\ now' = now /\ setting' = setting /\ rows' = rows /\ settled' = settled
      /\ account' = None /\ Bar' = Bar
  BY DEF Flush, history, Bar, HourOf, Floor
<1>4. RowInv(r)'
  BY <1>1, <1>3, RowBetween
<1>5. Behind(r)'
  BY <1>1, <1>3 DEF Behind, Target, Over, Floor
<1>6. ASSUME settled[r] <= Bar, IsBar(r, Bar)
      PROVE  Once(r)' /\ Failing(r)' /\ (Start < Bar => Counted(r)')
  BY <1>1, <1>6, OnceFlushed, FailingFlushed, CountedFlushed
<1> QED
  BY <1>2, <1>3, <1>4, <1>5, <1>6 DEF DesignRow, IsBar

(* A change: what is said of settled bars is said later. *)
LEMMA DesignChanges ==
  ASSUME AuditInv, WatchesTyped, NEW r \in Rows, DesignRow(r),
         account = None, account' = None, now' = now, ledger' = ledger,
         settled[r] <= settled'[r], settled'[r] \in Int, IsBar(r, Bar) => Bar < settled'[r],
         \/ setting' = setting
         \/ setting' \in Settings /\ Over(r) <= settled'[r] /\ rows'[r] = rows[r],
         rows'[r] = rows[r] \/ rows'[r] = NewRow(now + 1)
  PROVE  DesignRow(r)'
<1>1. /\ AuditShape /\ RowInv(r) /\ EventInv(r) /\ Orderly(r) /\ Attested(r)
      /\ Behind(r) /\ Reached(r)
  BY DEF AuditInv, DesignRow
<1>2. /\ Bar' = Bar /\ Bar \in Int /\ now \in Nat /\ settled[r] \in Int
      /\ Over(r)' = Over(r) /\ Over(r) \in Int
  BY <1>1, Bars, OverIs DEF AuditShape, Bar, HourOf, Over, Floor
<1>8. ~(settled'[r] <= Bar /\ IsBar(r, Bar))
  BY <1>2
<1>3. RowInv(r)'
  BY <1>1, RowBetween
<1>4. EventInv(r)'
  BY <1>1 DEF EventInv, OnClock, Unique
<1>5. Reached(r)'
  BY <1>1, ReachedQuiet
<1>6. CASE rows'[r] = rows[r]
  <2>1. Orderly(r)'
    BY <1>1, <1>6 DEF Orderly
  <2>2. Attested(r)'
    BY <1>1, <1>6 DEF Attested, Stamped, Forgotten, Floor
  <2>3. Behind(r)'
    <3>1. CASE setting' = setting
      BY <1>1, <1>2, <1>6, <3>1 DEF Behind, Target
    <3>2. CASE Over(r) <= settled'[r]
      BY <1>2, <3>2 DEF Behind
    <3> QED
      BY <3>1, <3>2
  <2> QED
    BY <1>2, <1>3, <1>4, <1>5, <1>8, <2>1, <2>2, <2>3 DEF DesignRow, IsBar
<1>7. CASE setting' = setting /\ rows'[r] = NewRow(now + 1)
  <2>1. rows'[r].stamp = Never /\ rows'[r].added = now + 1
    BY <1>7 DEF NewRow
  <2>2. Orderly(r)'
    <3>1. \A e \in ledger[r] : e.first \in Int /\ ~(e.first >= now + 1)
      <4>1. \A e \in ledger[r] : e.first \in Nat /\ e.first <= now
        BY <1>1 DEF EventInv, AuditShape, Records
      <4> QED
        BY <1>2, <4>1
    <3> QED
      BY <2>1, <3>1 DEF Orderly
  <2>3. Attested(r)'
    BY <2>1 DEF Attested
  <2>4. Behind(r)'
    BY <1>1, <1>7, BehindAnew
  <2> QED
    BY <1>2, <1>3, <1>4, <1>5, <1>8, <2>2, <2>3, <2>4 DEF DesignRow, IsBar
<1> QED
  BY <1>6, <1>7

LEMMA DesignSame ==
  ASSUME NEW r \in Rows, DesignRow(r),
         UNCHANGED <<now, setting, rows[r], account, ledger, settled[r]>>
  PROVE  DesignRow(r)'
<1>1. /\ Bar' = Bar /\ Dues(r)' = Dues(r) /\ BarEnds(r)' = BarEnds(r)
      /\ At(r, Bar)' = At(r, Bar) /\ Served(r, Bar)' = Served(r, Bar)
      /\ Waited(r, Bar)' = Waited(r, Bar)
      /\ Stamped(r)' = Stamped(r) /\ Pending(r)' = Pending(r) /\ Owing(r)' = Owing(r)
      /\ \A x : Target(r, x)' = Target(r, x')
  BY DEF Bar, HourOf, Floor, Dues, BarEnds, At, Served, Waited, Stamped, Pending, Owing, Target
<1>2. RowInv(r)'
  BY DEF DesignRow, RowInv, Stamped, Target, Floor
<1>3. EventInv(r)' /\ Orderly(r)' /\ Attested(r)'
  BY DEF DesignRow, EventInv, OnClock, Unique, Orderly, Attested, Stamped, Forgotten, Floor
<1>4. Behind(r)' /\ Reached(r)'
  BY DEF DesignRow, Behind, Reached, Come, Settles, InBooks, Target, Bar, HourOf, Floor, Over,
         IsBar, Wide
<1>5. Once(r)' = Once(r)
  BY <1>1 DEF Once
<1>6. Failing(r)' = Failing(r)
  BY <1>1 DEF Failing, FailedIn, Count
<1>7. Counted(r)' = Counted(r)
  BY <1>1 DEF Counted, Flushed, Since, Ticks, Count
<1> QED
  BY <1>1, <1>2, <1>3, <1>4, <1>5, <1>6, <1>7 DEF DesignRow, IsBar

LEMMA DesignNext ==
  ASSUME AuditInv, WatchesTyped, WatchesTyped', DesignInv, [Next]_vars
  PROVE  DesignInv'
<1> SUFFICES ASSUME seen' = {}, NEW r \in Rows PROVE DesignRow(r)'
  BY DEF DesignInv
<1>0. AuditShape /\ now \in Int /\ settled \in [Rows -> Int] /\ setting \in Settings
  BY DEF AuditInv, AuditShape
<1>1. seen = {} => DesignRow(r)
  BY DEF DesignInv
<1>2. CASE RunCycle
  <2>1. seen = {}
    BY <1>0, <1>2, FatesAre DEF Ticked
  <2> QED
    BY <1>0, <1>1, <1>2, <2>1, RunIsCycled, DesignTicks
<1>3. CASE CycleErrs
  <2>1. seen = {}
    BY <1>3 DEF CycleErrs
  <2> QED
    BY <1>0, <1>1, <1>3, <2>1, ErrsIsCycled, DesignTicks
<1>4. CASE Flush
  <2>1. seen = {}
    BY <1>4 DEF Flush, history
  <2> QED
    BY <1>1, <1>4, <2>1, DesignFlushed
<1>5. CASE FlushFails \/ Dark \/ \E q \in Rows : Rewind(q)
  BY <1>5 DEF FlushFails, Dark, Rewind
<1>6. CASE UNCHANGED vars \/ \E q \in Rows : Wall(q) \/ Relieve(q)
  <2>1. UNCHANGED <<now, setting, rows, account, ledger, settled, seen>>
    BY <1>6 DEF vars, dispatcher, history, Wall, Relieve
  <2> QED
    BY <1>1, <2>1, DesignSame
<1>7. Bar \in Int /\ Bar <= now
  BY <1>0, Bars
<1>8. ASSUME NEW q \in Rows, Readd(q) PROVE DesignRow(r)'
  <2> DEFINE row == NewRow(now + 1)
             later == Max({settled[q], Floor(now, Period[q]) + Period[q]})
  <2>1. /\ seen = {} /\ account = None /\ account' = None
        /\ now' = now /\ ledger' = ledger /\ setting' = setting
        /\ rows' = [rows EXCEPT ![q] = row] /\ settled' = [settled EXCEPT ![q] = later]
    BY <1>8 DEF Readd
  <2> HIDE DEF row, later
  <2>2. CASE r # q
    <3>1. rows'[r] = rows[r] /\ settled'[r] = settled[r]
      BY <1>0, <2>1, <2>2 DEF WatchesTyped
    <3> QED
      BY <1>1, <2>1, <3>1, DesignSame
  <2>3. CASE r = q
    <3>1. rows'[r] = NewRow(now + 1)
      BY <2>1, <2>3 DEF WatchesTyped, row
    <3>2. /\ settled'[r] \in Int /\ settled[r] <= settled'[r]
          /\ Floor(now, Period[r]) + Period[r] <= settled'[r]
      BY <1>0, <1>8, <2>3, SettlesLater
    <3>3. IsBar(r, Bar) => Bar < settled'[r]
      <4> DEFINE floor == Floor(now, Period[r])
      <4>1. /\ floor \in Int /\ Period[r] \in Nat \ {0}
            /\ \A k \in Int : k * Period[r] <= now => k * Period[r] <= floor
        BY <1>0, Cadence, FloorIs
      <4> HIDE DEF floor
      <4>2. IsBar(r, Bar) => Bar <= floor
        BY <1>7, <4>1 DEF IsBar
      <4>3. floor + Period[r] <= settled'[r]
        BY <3>2 DEF floor
      <4> QED
        BY <1>7, <3>2, <4>1, <4>2, <4>3
    <3> QED
      BY <1>1, <2>1, <3>1, <3>2, <3>3, DesignChanges
  <2> QED
    BY <2>2, <2>3
<1>9. ASSUME NEW c \in Settings, Retune(c) PROVE DesignRow(r)'
  <2>1. /\ seen = {} /\ account = None /\ account' = None
        /\ now' = now /\ ledger' = ledger /\ rows' = rows /\ setting' \in Settings
    BY <1>9 DEF Retune
  <2>2. settled'[r] \in Int /\ settled[r] <= settled'[r] /\ Over(r) <= settled'[r]
    BY <1>0, <1>9, SettlesLater
  <2>3. Bar < settled'[r]
    <3>1. /\ Over(r) \in Int /\ now < Over(r) - Wide(r) /\ Wide(r) \in Int
          /\ Period[r] + Hour <= Wide(r) /\ Period[r] \in Nat /\ Hour \in Nat
      BY <1>0, OverIs, WideOf, Cadence
    <3> DEFINE later == settled'[r]
    <3>2. later \in Int /\ Over(r) <= later
      BY <2>2
    <3> HIDE DEF later
    <3>3. Bar < later
      BY <1>0, <1>7, <3>1, <3>2
    <3> QED
      BY <3>3 DEF later
  <2> QED
    BY <1>1, <2>1, <2>2, <2>3, DesignChanges
<1> QED
  BY <1>2, <1>3, <1>4, <1>5, <1>6, <1>8, <1>9 DEF Next

LEMMA DesignAlways ==
  Spec => []DesignInv
<1>1. AuditInv /\ AuditInv' /\ WatchesTyped /\ WatchesTyped' /\ DesignInv /\ [Next]_vars => DesignInv'
  BY DesignNext
<1> QED
  BY <1>1, DesignBegins, AuditAlways, WatchesAlwaysTyped, PTL DEF Spec

(* What the auditor makes of it.  A finding pages no one if its verdict is *)
(* neither of the two, and it neither makes a timeframe dark nor shows a   *)
(* due time that the settings do not explain.                              *)
Quiet(f) ==
  /\ VerdictOf(f) \notin {"TIMING_FAULT", "DEPLOY_REGRESSION"}
  /\ f.class # "MISSED" /\ ~Skewed(f)

LEMMA QuietVerdict ==
  ASSUME \A r \in Audited : Quiet(Classify(r, Bar))
  PROVE  Verdict \notin {"TIMING_FAULT", "DEPLOY_REGRESSION"}
<1> DEFINE findings == {Classify(r, Bar) : r \in Audited}
           judged(p) == {f \in findings : Period[f.row] = p /\ VerdictOf(f) # None}
           dark == \E p \in {Period[r] : r \in Audited} :
                     judged(p) # {} /\ \A f \in judged(p) : f.class = "MISSED"
           votes == {VerdictOf(f) : f \in findings}
                    \cup (IF dark THEN {"DEPLOY_REGRESSION"} ELSE {})
                    \cup (IF \E f \in findings : Skewed(f) THEN {"TIMING_FAULT"} ELSE {})
<1>1. \A f \in findings : Quiet(f)
  OBVIOUS
<1>2. \A f \in findings : /\ VerdictOf(f) # "TIMING_FAULT" /\ VerdictOf(f) # "DEPLOY_REGRESSION"
                          /\ f.class # "MISSED" /\ ~Skewed(f)
  BY <1>1 DEF Quiet
<1> HIDE DEF findings
<1>3. ~dark
  <2> SUFFICES ASSUME NEW p, judged(p) # {}, \A f \in judged(p) : f.class = "MISSED"
               PROVE  FALSE
    OBVIOUS
  <2>1. PICK f \in judged(p) : TRUE
    OBVIOUS
  <2> QED
    BY <1>2, <2>1
<1>4. "TIMING_FAULT" \notin votes /\ "DEPLOY_REGRESSION" \notin votes
  <2> HIDE DEF dark
  <2> QED
    BY <1>2, <1>3
<1>5. Verdict = IF "DEPLOY_REGRESSION" \in votes THEN "DEPLOY_REGRESSION"
                ELSE IF "TIMING_FAULT" \in votes THEN "TIMING_FAULT"
                ELSE IF "CHRONIC_LATE" \in votes THEN "CHRONIC_LATE"
                ELSE IF "OK" \in votes THEN "OK" ELSE "INDETERMINATE"
  BY DEF Verdict, findings
<1> HIDE DEF votes
<1> QED
  BY <1>4, <1>5

LEMMA QuietClass ==
  ASSUME NEW r \in Rows, NEW cause \in Causes,
         NEW class \in {"UNSERVICED_SKIPPED", "PENDING_DEFERRED", "ERRORING",
                        "NOT_YET_DUE", "REALIGNING", "NEW_ROW"}
  PROVE  Quiet(Class(r, class, cause))
<1> DEFINE f == Class(r, class, cause)
<1>1. f.class = class /\ f.chronic = FALSE
  BY DEF Class
<1>0. None \notin {"TIMING_FAULT", "DEPLOY_REGRESSION"}
  BY NoneAssumption DEF Verdicts
<1> HIDE DEF f
<1>2. VerdictOf(f) \in {"OK", "CHRONIC_LATE", None}
  <2>1. CASE class \in {"UNSERVICED_SKIPPED", "PENDING_DEFERRED"}
    BY <1>1, <2>1 DEF VerdictOf
  <2>2. CASE class = "ERRORING"
    BY <1>1, <2>2 DEF VerdictOf
  <2>3. CASE class \in {"NOT_YET_DUE", "REALIGNING", "NEW_ROW"}
    BY <1>1, <2>3 DEF VerdictOf
  <2> QED
    BY <2>1, <2>2, <2>3
<1>3. f.class # "MISSED" /\ ~Skewed(f)
  BY <1>1 DEF Skewed
<1> QED
  BY <1>0, <1>2, <1>3 DEF Quiet, f

LEMMA QuietDue ==
  ASSUME NEW f, f.chronic \in BOOLEAN, Due(f.row, Bar) - Bar = Shift[setting][f.row],
         f.class \in {"ON_TIME", "LATE_EXPLAINED", "GAVE_UP", "LATENCY_BREACH"}
  PROVE  Quiet(f)
<1>1. VerdictOf(f) \in {"OK", "CHRONIC_LATE"}
  <2>1. CASE f.chronic
    BY <2>1 DEF VerdictOf
  <2>2. CASE ~f.chronic /\ f.class \in {"ON_TIME", "LATE_EXPLAINED", "GAVE_UP"}
    BY <2>2 DEF VerdictOf
  <2>3. CASE ~f.chronic /\ f.class = "LATENCY_BREACH"
    BY <2>3 DEF VerdictOf
  <2> QED
    BY <2>1, <2>2, <2>3
<1>2. f.class # "MISSED" /\ ~Skewed(f)
  BY DEF Skewed
<1> QED
  BY <1>1, <1>2 DEF Quiet

(* The stamps are those on record. *)
LEMMA IntegrityHolds ==
  ASSUME AuditInv, WatchesTyped, NEW r \in Rows, DesignRow(r), ~Forgotten(r), ~Merged(r)
  PROVE  Integrity(r) = None
<1> DEFINE x == rows[r].stamp
           stamps == {e.fired : e \in
                        {o \in ledger[r] : o.disposition \in Stamping /\ o.first >= rows[r].added}}
           latest == Max({Never} \cup stamps)
<1>1. /\ RowInv(r) /\ EventInv(r) /\ Orderly(r) /\ Attested(r) /\ AuditShape
      /\ now \in Nat /\ Tick \in Nat /\ Tick >= 2 /\ x \in Int /\ Never <= x
      /\ rows[r].added \in Int /\ ledger[r] \subseteq Records
  BY Cadence DEF AuditInv, AuditShape, DesignRow, RowInv, WatchesTyped
<1>2. LatestFired(r) = latest
  BY DEF LatestFired
<1>3. \A y \in {Never} \cup stamps : y \in Int /\ y <= x /\ Never <= y
  <2>1. \A e \in ledger[r] : /\ e.fired \in Int /\ Never <= e.fired
                             /\ e.disposition \in Stamping /\ e.first >= rows[r].added => e.fired <= x
    BY <1>1 DEF Orderly, EventInv, Records
  <2> HIDE DEF x
  <2> QED
    BY <1>1, <2>1 DEF Never
<1>4. x # Never /\ ~Stamped(r) => x \in stamps
  <2> HAVE x # Never /\ ~Stamped(r)
  <2>1. PICK e \in ledger[r] : e.fired = x
    BY <1>1 DEF Attested
  <2>2. e.disposition \in Stamping /\ e.first \in Int
    BY <1>1, <2>1 DEF EventInv, Records
  <2>3. ~(e.first < rows[r].added)
    BY <2>1 DEF Merged
  <2> QED
    BY <1>1, <2>1, <2>2, <2>3
<1>5. Stamped(r) => now <= x
  BY <1>1 DEF RowInv
<1> HIDE DEF x, stamps
<1>6. latest \in {Never} \cup stamps /\ \A y \in {Never} \cup stamps : y <= latest
  <2> DEFINE all == {Never} \cup stamps
  <2>1. all # {} /\ \A y \in all : y \in Int /\ y <= x
    BY <1>3
  <2> HIDE DEF all
  <2> QED
    BY <1>1, <2>1, Greatest DEF all
<1> HIDE DEF latest
<1>7. latest \in Int /\ latest <= x /\ Never <= latest
  BY <1>3, <1>6
<1>8. x # Never /\ ~Stamped(r) => latest = x
  BY <1>1, <1>4, <1>6, <1>7
<1> DEFINE landed(t) == t # Never /\ now - t >= 2 * Tick
<1>9. ~(landed(x) /\ x > latest)
  BY <1>1, <1>5, <1>7, <1>8
<1>10. ~(x < latest)
  BY <1>1, <1>7
<1>11. ~(x = Never /\ landed(latest))
  BY <1>1, <1>7 DEF Never
<1> HIDE DEF landed
<1> QED
  BY <1>2, <1>9, <1>10, <1>11 DEF Integrity, landed, x

LEMMA AtMostOne ==
  ASSUME NEW S, \A a, b \in S : a = b
  PROVE  IsFiniteSet(S) /\ ~(Cardinality(S) > 1)
<1>1. CASE S = {}
  BY <1>1, FS_EmptySet
<1>2. CASE S # {}
  <2>1. PICK a \in S : S = {a}
    BY <1>2
  <2>2. IsFiniteSet({a}) /\ Cardinality({a}) = 1
    BY FS_Singleton
  <2> QED
    BY <2>1, <2>2
<1> QED
  BY <1>1, <1>2

LEMMA DeterminismHolds ==
  ASSUME NEW r \in Rows, Once(r)
  PROVE  Determinism(r, Bar) = None
<1> DEFINE served == Served(r, Bar)
<1>1. \A s, o \in served : s = o /\ s.n = 1
  BY DEF Once
<1> HIDE DEF served
<1>2. ~(Cardinality(served) > 1)
  BY <1>1, AtMostOne
<1>3. ~(\E e \in served : e.n > 1)
  BY <1>1
<1> QED
  BY <1>2, <1>3 DEF Determinism, served

(* The record begins after the start; a bar that can be judged with a      *)
(* record is later.                                                        *)
LEMMA RecordBegins ==
  ASSUME AuditInv, \A q \in Rows : EventInv(q), NEW r \in Rows, ledger[r] # {}
  PROVE  Provenance \in Int /\ Start < Provenance
<1> DEFINE firsts == {e.first : e \in UNION {ledger[q] : q \in Rows}}
<1>1. \A q \in Rows : ledger[q] \subseteq Records
  BY DEF AuditInv, AuditShape
<1>2. \A x \in firsts : x \in Nat /\ Start < x
  BY <1>1 DEF EventInv, Records
<1>3. firsts # {} /\ firsts \in SUBSET Nat
  BY <1>2
<1>4. Provenance = Min(firsts)
  BY <1>3 DEF Provenance
<1> HIDE DEF firsts
<1>5. \E x \in firsts : \A y \in firsts : x <= y
  BY <1>3, Smallest
<1> DEFINE least == Min(firsts)
<1>6. least \in firsts
  BY <1>5 DEF Min
<1> HIDE DEF least
<1>7. least \in Int /\ Start < least
  BY <1>2, <1>6
<1> QED
  BY <1>4, <1>7 DEF least

LEMMA UnjudgedIs ==
  ASSUME AuditInv, WatchesTyped, \A q \in Rows : EventInv(q), NEW r \in Rows
  PROVE  /\ Unjudged(r, Bar) # None => Quiet(Unjudged(r, Bar))
         /\ Unjudged(r, Bar) = None => rows[r].added <= Bar
         /\ Unjudged(r, Bar) = None /\ (\E q \in Rows : ledger[q] # {}) => Start < Bar
<1> DEFINE p == Period[r]
           b == Bar
           start == Floor(Provenance, p) + RealignBars * p
           blank == Class(r, "NEW_ROW", "added_in_bar")
           short == Class(r, "REALIGNING", "provenance")
           moved == Class(r, "REALIGNING", "shift_change")
<1>1. {"added_in_bar", "provenance", "shift_change"} \subseteq Causes
      /\ {"NEW_ROW", "REALIGNING"} \subseteq Classes
  BY DEF Causes, Classes
<1>2. Quiet(blank) /\ Quiet(short) /\ Quiet(moved) /\ blank # None /\ short # None /\ moved # None
  BY <1>1, QuietClass, ClassIs
<1>3. /\ b \in Int /\ rows[r].added \in Int /\ p \in Nat \ {0} /\ RealignBars \in Nat
      /\ RealignBars >= 2 /\ Provenance \in Int /\ Start \in Nat
  <2>1. b \in Int
    BY Bars DEF AuditInv, AuditShape
  <2>2. rows[r].added \in Int
    BY DEF WatchesTyped
  <2>3. Provenance \in Int
    BY ProvenanceIs
  <2> HIDE DEF b
  <2> QED
    BY <2>1, <2>2, <2>3, Cadence
<1>4. \/ Unjudged(r, b) = blank /\ rows[r].added > b
      \/ Unjudged(r, b) = short
      \/ /\ ~(rows[r].added <= b /\ Provenance # Never /\ b < start)
         /\ ~(rows[r].added > b)
         /\ Unjudged(r, b) = moved \/ Unjudged(r, b) = None
  BY DEF Unjudged
<1>5. ASSUME Unjudged(r, b) = None, NEW q \in Rows, ledger[q] # {}
      PROVE  Start < b
  <2>1. Provenance \in Int /\ Start < Provenance
    BY <1>5, RecordBegins
  <2>2. ~(b < start)
    <3>1. rows[r].added <= b
      BY <1>2, <1>3, <1>4, <1>5
    <3>2. Provenance # Never
      BY <1>3, <2>1 DEF Never
    <3> HIDE DEF start, b, blank, short, moved
    <3> QED
      BY <1>2, <1>4, <1>5, <3>1, <3>2
  <2> DEFINE f == Floor(Provenance, p)
             wide == RealignBars * p
  <2>3. f \in Int /\ Provenance < f + p
    BY <1>3, FloorIs
  <2>4. wide \in Int /\ p <= wide
    <3> HIDE DEF p
    <3>1. 1 * p <= RealignBars * p /\ 1 * p = p /\ RealignBars * p \in Int
      BY <1>3, Times
    <3> QED
      BY <1>3, <3>1
  <2>5. start = f + wide
    OBVIOUS
  <2> HIDE DEF f, wide, start, b, p
  <2> QED
    BY <1>3, <2>1, <2>2, <2>3, <2>4, <2>5
<1> HIDE DEF blank, short, moved, start
<1>6. Unjudged(r, b) = None => rows[r].added <= b
  BY <1>2, <1>3, <1>4
<1> QED
  BY <1>2, <1>4, <1>5, <1>6

(* The last event of a row, when the bar is well under way, is not of so   *)
(* long ago that it could have another shift than the present one.         *)
LEMMA ReachedLately ==
  ASSUME AuditShape, NEW r \in Rows, Reached(r), settled[r] <= Bar, IsBar(r, Bar),
         Start < Bar, Bar + 2 * Tick <= now, ledger[r] # {}
  PROVE  \E e \in ledger[r] : e.bucket >= Bar - Wide(r)
<1> DEFINE s == Shift[setting][r]
           p == Period[r]
           w == Wide(r)
           old == settled[r]
<1>1. /\ now \in Nat /\ Tick \in Nat /\ Tick >= 2 /\ p \in Nat \ {0} /\ Hour \in Nat
      /\ s \in Nat /\ s + Tick <= p + Hour /\ old \in Int /\ Start \in Nat
  BY Cadence DEF AuditShape
<1>2. w \in Int /\ p + Hour <= w /\ p + 2 * Tick <= w /\ IsBar(r, w)
  BY WideOf
<1>3. Bar \in Int /\ Bar <= now
  BY <1>1, Bars
<1>4. PICK k \in Int : Bar = k * p
  BY DEF IsBar
<1>5. PICK j \in Int : w = j * p
  BY <1>2 DEF IsBar
<1>6. /\ Bar - w = (k - j) * p /\ Bar - w + p = (k - j + 1) * p
      /\ k - j \in Int /\ k - j + 1 \in Int
  <2> HIDE DEF w, p
  <2> QED
    BY <1>1, <1>4, <1>5
<1>7. old <= Bar
  OBVIOUS
<1> HIDE DEF s, p, w, old
<1>8. ASSUME NEW b \in Int, \E m \in Int : b = m * p,
             old + p <= b + w \/ (Tick <= s /\ old <= b + w),
             b + s + Tick <= now
      PROVE  \E e \in ledger[r] : e.bucket >= b
  <2>1. now # Start + 1 /\ now # Start + 1 + Tick /\ b + s <= now
    BY <1>1, <1>3, <1>8
  <2>2. Come(r, b)
    BY <1>8, <2>1 DEF Come, Settles, IsBar, s, p, w, old
  <2>3. ~(now < b + s + Tick)
    BY <1>1, <1>8
  <2> QED
    BY <2>1, <2>2, <2>3 DEF Reached, InBooks, s
<1>9. CASE Tick <= s
  <2> DEFINE b == Bar - w
  <2>0. \E m \in Int : b = m * p
    BY <1>6
  <2>1. b \in Int /\ old <= b + w /\ b + s + Tick <= now
    BY <1>1, <1>2, <1>3, <1>7
  <2> HIDE DEF b
  <2>2. \E e \in ledger[r] : e.bucket >= b
    BY <1>8, <1>9, <2>0, <2>1
  <2> QED
    BY <2>2 DEF b, w
<1>10. CASE ~(Tick <= s)
  <2> DEFINE b == Bar - w + p
  <2>0. \E m \in Int : b = m * p
    BY <1>6
  <2>1. b \in Int /\ old + p <= b + w /\ b + s + Tick <= now
    BY <1>1, <1>2, <1>3, <1>7, <1>10
  <2>2. Bar - w \in Int /\ Bar - w <= b
    BY <1>1, <1>2, <1>3
  <2> HIDE DEF b
  <2>3. PICK e \in ledger[r] : e.bucket >= b
    BY <1>8, <2>0, <2>1
  <2>4. e.bucket \in Int
    BY DEF AuditShape, Records
  <2>5. e.bucket >= Bar - w
    BY <2>1, <2>2, <2>3, <2>4
  <2> QED
    BY <2>5 DEF w
<1> QED
  BY <1>9, <1>10

(* A bar that went unserved has as many events as ticks have gone by. *)
LEMMA TicksByNow ==
  ASSUME AuditShape, NEW r \in Rows, Counted(r), Served(r, Bar) = {}, Unique(ledger[r]),
         NEW m \in Nat, m <= MaxAttempts, Dues(r) + m * Tick <= now
  PROVE  Ticks(Waited(r, Bar)) >= m
<1> DEFINE due == Dues(r)
           ticks == Ticks(Waited(r, Bar))
           x == now - due
           past == x \div Tick
           wait == m * Tick
<1>1. /\ now \in Int /\ Tick \in Nat \ {0} /\ due \in Int /\ ticks \in Nat /\ wait \in Nat
      /\ MaxAttempts \in Nat
  <2>1. now \in Int /\ Tick \in Nat \ {0} /\ due \in Int /\ MaxAttempts \in Nat
    BY Bars, Cadence DEF AuditShape, Dues
  <2>2. ticks \in Nat
    BY AtIs
  <2>3. wait \in Nat
    BY <2>1
  <2> QED
    BY <2>1, <2>2, <2>3
<1>2. due <= now =>
        IF now < BarEnds(r) THEN ticks = Flushed(r) ELSE ticks >= MaxAttempts
  BY DEF Counted
<1>3. Flushed(r) = past + IF account = None THEN 1 ELSE 0
  BY DEF Flushed, Since
<1>4. due + wait <= now
  OBVIOUS
<1> HIDE DEF due, ticks, past, wait
<1>5. due <= now /\ wait <= x /\ x \in Int
  BY <1>1, <1>4
<1> HIDE DEF x
<1>6. past \in Int /\ m <= past
  <2>1. past \in Int /\ \A k \in Int : k * Tick <= x => k <= past
    BY <1>1, <1>5, Spans DEF past
  <2>2. m \in Int /\ m * Tick <= x
    BY <1>5 DEF wait
  <2> QED
    BY <2>1, <2>2, Zenon
<1>7. CASE now < BarEnds(r)
  BY <1>1, <1>2, <1>3, <1>5, <1>6, <1>7 DEF ticks
<1>8. CASE ~(now < BarEnds(r))
  BY <1>1, <1>2, <1>5, <1>8 DEF ticks
<1> QED
  BY <1>7, <1>8

LEMMA OfOne ==
  ASSUME NEW s \in Int
  PROVE  Max({s}) = s /\ Min({s}) = s
BY DEF Max, Min

(* A bar without an event is not yet due. *)
LEMMA UnactedIs ==
  ASSUME AuditInv, WatchesTyped, \A q \in Rows : DesignRow(q),
         NEW r \in Rows, settled[r] <= Bar, IsBar(r, Bar),
         Unjudged(r, Bar) = None, Unacted(r, Bar) # None
  PROVE  Quiet(Unacted(r, Bar))
<1> DEFINE b == Bar
           buckets == {o.bucket : o \in ledger[r]}
           latest == Max(buckets)
           shifts == {e.due - e.bucket : e \in At(r, latest)}
           shift == IF ledger[r] = {} THEN Shift[setting][r] ELSE Max(shifts)
           s == Shift[setting][r]
           wait == MaxAttempts * Tick
           w == Wide(r)
           old == settled[r]
           soon == Class(r, "NOT_YET_DUE", "before_retry_budget")
           missed == Class(r, "MISSED", "no_event")
<1>1. Unacted(r, b) = IF At(r, b) # {} THEN None
                      ELSE IF b + shift + wait > now THEN soon ELSE missed
  BY DEF Unacted
<1>2. Quiet(soon)
  <2>1. "before_retry_budget" \in Causes
    BY DEF Causes
  <2> QED
    BY <2>1, QuietClass
<1>3. /\ AuditShape /\ BookInv /\ RowInv(r) /\ EventInv(r) /\ Reached(r) /\ Unique(ledger[r])
      /\ Start < b => Counted(r)
      /\ \A q \in Rows : EventInv(q)
  BY DEF AuditInv, DesignRow, EventInv
<1>4. /\ now \in Int /\ b \in Int /\ b <= now /\ s \in Nat /\ old \in Int /\ old <= b
      /\ Tick \in Nat /\ Tick >= 2 /\ Start \in Nat
      /\ wait \in Int /\ 2 * Tick <= wait /\ MaxAttempts \in Nat /\ MaxAttempts >= 2
      /\ w \in Int /\ Period[r] <= w /\ Period[r] \in Nat \ {0}
  <2>1. /\ now \in Int /\ old \in Int /\ setting \in Settings
        /\ Tick \in Nat /\ MaxAttempts \in Nat /\ MaxAttempts >= 2 /\ s \in Nat
    BY <1>3, Cadence DEF AuditShape
  <2>2. b \in Int /\ b <= now
    BY <2>1, Bars
  <2>3. 2 * Tick <= MaxAttempts * Tick /\ MaxAttempts * Tick \in Int
    BY <2>1, Times
  <2>4. w \in Int /\ Period[r] <= w /\ Period[r] \in Nat \ {0}
    <3>1. /\ w \in Int /\ Period[r] + Hour <= w /\ Period[r] \in Nat \ {0}
          /\ Hour \in Nat
      BY WideOf, Cadence
    <3> HIDE DEF w
    <3> QED
      BY <3>1
  <2> HIDE DEF w, s
  <2> QED
    BY <2>1, <2>2, <2>3, <2>4, Cadence
<1>5. At(r, b) = {}
  BY <1>1
<1>6. ASSUME b + s + wait <= now PROVE FALSE
  <2>1. CASE Start < b
    <3>1. Counted(r) /\ Served(r, b) = {} /\ Waited(r, b) = {}
      BY <1>3, <1>5, <2>1 DEF Served, Waited
    <3>2. Dues(r) + 2 * Tick <= now
      <4> HIDE DEF wait, s
      <4> QED
        BY <1>4, <1>6 DEF Dues, s
    <3>3. Ticks(Waited(r, b)) >= 2
      BY <1>3, <1>4, <3>1, <3>2, TicksByNow
    <3> QED
      BY <3>1, <3>3, CountOfNone
  <2>2. CASE ~(Start < b)
    <3>1. ledger[r] = {} /\ rows[r].added <= b
      BY <1>3, <2>2, UnjudgedIs
    <3>2. rows[r].added \in Int /\ Start <= rows[r].added
      BY <1>3 DEF RowInv, WatchesTyped
    <3> HIDE DEF wait, s, w, old
    <3>3. b = Start
      BY <1>4, <2>2, <3>1, <3>2
    <3>4. /\ now # Start + 1 /\ now # Start + 1 + Tick /\ ~(now < b + s + Tick)
          /\ b + s <= now /\ old + Period[r] <= b + w
      BY <1>4, <1>6, <3>3
    <3>5. Come(r, b)
      BY <3>4 DEF Come, Settles, s, w, old
    <3>6. InBooks(r, b)
      BY <1>3, <1>4, <3>5 DEF Reached
    <3>7. ~(b < Bar)
      BY <1>4
    <3> HIDE DEF b
    <3> QED
      BY <3>1, <3>4, <3>6, <3>7 DEF InBooks, s
  <2> QED
    BY <2>1, <2>2
<1>7. CASE ledger[r] = {}
  <2>1. ~(b + s + wait <= now) /\ shift = s
    BY <1>6, <1>7
  <2> HIDE DEF shift, wait, s, soon, missed
  <2>2. b + shift + wait > now
    BY <1>4, <2>1
  <2> QED
    BY <1>1, <1>2, <1>5, <2>2
<1>8. CASE ledger[r] # {}
  <2>1. Start < b
    BY <1>3, <1>8, UnjudgedIs
  <2>2. \A o \in ledger[r] : /\ o.bucket \in Int /\ o.due \in Int /\ o.bucket <= now
                             /\ o.bucket <= o.due /\ o.due <= now
                             /\ o.due - o.bucket # s => o.bucket + w < old
    BY <1>3 DEF AuditShape, BookInv, EventInv, Records
  <2>3. latest \in buckets /\ latest \in Int /\ \A o \in ledger[r] : o.bucket <= latest
    <3>1. /\ buckets # {} /\ \A y \in buckets : y \in Int /\ y <= now
          /\ \A o \in ledger[r] : o.bucket \in buckets
      BY <1>8, <2>2
    <3> HIDE DEF buckets
    <3> QED
      BY <1>4, <3>1, Greatest
  <2>4. /\ At(r, latest) # {}
        /\ \A o \in At(r, latest) : o \in ledger[r] /\ o.bucket = latest
    <3> DEFINE last == latest
    <3>1. \E o \in ledger[r] : o.bucket = last
      BY <2>3
    <3> HIDE DEF last
    <3>2. At(r, last) # {} /\ \A o \in At(r, last) : o \in ledger[r] /\ o.bucket = last
      BY <3>1 DEF At
    <3> QED
      BY <3>2 DEF last
  <2>5. shift \in Int /\ 0 <= shift
    <3> DEFINE last == latest
               some == {e.due - e.bucket : e \in At(r, last)}
    <3>1. last \in Int /\ At(r, last) # {} /\ \A o \in At(r, last) : o \in ledger[r] /\ o.bucket = last
      BY <2>3, <2>4
    <3> HIDE DEF last
    <3>2. \A o \in At(r, last) : /\ o.due - o.bucket \in Int /\ 0 <= o.due - o.bucket
                                 /\ o.due - o.bucket <= now - last
      BY <1>4, <2>2, <3>1
    <3>3. some # {} /\ \A y \in some : y \in Int /\ 0 <= y /\ y <= now - last
      BY <3>1, <3>2
    <3>4. now - last \in Int
      BY <1>4, <3>1
    <3> HIDE DEF some
    <3>5. Max(some) \in some
      BY <3>3, <3>4, Greatest
    <3>6. shift = Max(some)
      BY <1>8 DEF some, last
    <3> HIDE DEF shift
    <3> QED
      BY <3>3, <3>5, <3>6
  <2> HIDE DEF latest, buckets
  <2>6. ASSUME b + shift + wait <= now PROVE FALSE
    <3>1. b + 2 * Tick <= now
      <4> HIDE DEF shift, wait, b
      <4> QED
        BY <1>4, <2>5, <2>6
    <3>2. PICK e \in ledger[r] : e.bucket >= b - w
      BY <1>3, <1>8, <2>1, <3>1, ReachedLately
    <3>3. ~(latest + w < old)
      <4>1. e.bucket \in Int /\ e.bucket <= latest /\ latest \in Int
        BY <2>2, <2>3
      <4> HIDE DEF w, old, b
      <4> QED
        BY <1>4, <3>2, <4>1
    <3>4. shifts = {s}
      <4>1. \A o \in At(r, latest) : o.due - o.bucket = s
        BY <2>2, <2>4, <3>3
      <4> QED
        BY <2>4, <4>1
    <3>5. shift = s
      <4>1. s \in Int
        BY <1>4
      <4> HIDE DEF shifts, s
      <4>2. Max({s}) = s
        BY <4>1, OfOne
      <4>3. shift = Max(shifts)
        BY <1>8
      <4> QED
        BY <3>4, <4>2, <4>3
    <3> HIDE DEF shift
    <3> QED
      BY <1>6, <2>6, <3>5
  <2> HIDE DEF shift, wait, s, soon, missed
  <2>7. b + shift + wait > now
    BY <1>4, <2>5, <2>6
  <2> QED
    BY <1>1, <1>2, <1>5, <2>7
<1> QED
  BY <1>7, <1>8

(* A bar that is not served: its retries are not over, or it waits for one *)
(* reason, a wall, a deferral or an exception.                             *)
LEMMA UnservedIs ==
  ASSUME AuditInv, WatchesTyped, \A q \in Rows : DesignRow(q),
         NEW r \in Rows, settled[r] <= Bar, IsBar(r, Bar), ~Blended(r), Unjudged(r, Bar) = None, Unserved(r, Bar) # None
  PROVE  Quiet(Unserved(r, Bar))
<1> DEFINE b == Bar
           kinds == {e.disposition : e \in Waited(r, b)}
           errors == {e \in Waited(r, b) : e.disposition = "errored"}
           superseded == /\ "fetch_failed" \in kinds
                         /\ MaxAttempts * Tick > Period[r]
                         /\ \E e \in ledger[r] : e.bucket > b
           waiting == Due(r, b) + MaxAttempts * Tick > now
           skipped == kinds = {"skipped_exhausted"}
           deferred == kinds \subseteq {"deferred_budget", "skipped_exhausted"}
           erring == Ticks(errors) >= MaxAttempts
<1>1. /\ At(r, b) # {} /\ Served(r, b) = {}
      /\ Unserved(r, b) =
           IF skipped THEN Class(r, "UNSERVICED_SKIPPED", "skipped")
           ELSE IF deferred THEN Class(r, "PENDING_DEFERRED", "deferred")
           ELSE IF erring THEN Class(r, "ERRORING", "errored")
           ELSE IF superseded THEN Class(r, "LATE_EXPLAINED", "fetch_failed")
           ELSE IF waiting THEN Class(r, "NOT_YET_DUE", "in_retry")
           ELSE Class(r, "LATE_UNEXPLAINED", "unserviced")
  BY DEF Unserved
<1>2. /\ AuditShape /\ EventInv(r) /\ Unique(ledger[r]) /\ Failing(r)
      /\ Start < b => Counted(r)
      /\ \A q \in Rows : EventInv(q)
  BY DEF AuditInv, DesignRow, EventInv
<1>3. Counted(r)
  <2>1. ledger[r] # {}
    BY <1>1 DEF At
  <2> QED
    BY <1>2, <2>1, UnjudgedIs
<1>4. /\ At(r, b) \in SUBSET Records /\ Kinds(At(r, b)) /\ IsFiniteSet(At(r, b))
      /\ Waited(r, b) = At(r, b) /\ Served(r, b) = {e \in At(r, b) : e.disposition \in Stamping}
      /\ \A kind : Count(At(r, b), kind) \in Nat
  <2>1. IsFiniteSet(At(r, b))
    <3>1. IsFiniteSet(ledger[r]) /\ At(r, b) \in SUBSET ledger[r]
      BY <1>2 DEF AuditShape, At
    <3> QED
      BY <3>1, FS_Subset
  <2>2. Waited(r, b) = At(r, b)
    BY <1>1 DEF Waited
  <2> QED
    BY <1>2, <2>1, <2>2, AtIs
<1>5. Due(r, b) = Dues(r)
  <2> DEFINE dues == {e.due : e \in At(r, b)}
  <2>1. dues = {Dues(r)}
    BY <1>1, DueOfBar
  <2>2. Dues(r) \in Int
    BY <1>2, Bars, Cadence DEF AuditShape, Dues
  <2>3. Min({Dues(r)}) = Dues(r)
    BY <2>2, OfOne
  <2> QED
    BY <2>1, <2>3 DEF Due
<1>6. ~superseded
  <2> DEFINE wait == MaxAttempts * Tick
  <2>1. wait \in Int /\ wait <= Period[r] /\ Period[r] \in Int
    BY Cadence
  <2> HIDE DEF wait
  <2>2. ~(wait > Period[r])
    BY <2>1
  <2> QED
    BY <2>2 DEF wait
<1>7. ASSUME ~deferred, ~erring, ~waiting PROVE FALSE
  <2> DEFINE wait == MaxAttempts * Tick
             past == now >= Due(r, b) + wait
  <2>1. Dues(r) \in Int /\ now \in Int /\ wait \in Int /\ MaxAttempts \in Nat
    BY <1>2, Bars, Cadence DEF AuditShape, Dues
  <2>2. past
    <3>1. ~(Dues(r) + wait > now)
      BY <1>5, <1>7
    <3> HIDE DEF wait
    <3> QED
      BY <1>5, <2>1, <3>1
  <2>3. PICK e \in At(r, b) : TRUE
    BY <1>1
  <2>4. At(r, b) = {e}
    <3>1. ASSUME NEW o \in At(r, b), o # e PROVE FALSE
      <4>1. Cardinality(At(r, b)) > 1
        BY <1>4, <2>3, <3>1, TwoAreMore
      <4> QED
        BY <1>1, <2>2, <4>1 DEF Blended
    <3> QED
      BY <2>3, <3>1
  <2>5. e \in Records /\ e.disposition \in Waits /\ e.n \in Nat
    <3>1. e \in Records /\ e.disposition \in Dispositions /\ e.n \in Nat
      BY <1>4, <2>3 DEF Records
    <3>2. e.disposition \notin Stamping
      BY <1>1, <1>4, <2>3
    <3> QED
      BY <3>1, <3>2, KindsOfFate
  <2>6. Ticks({e}) = e.n
    BY <2>5, CountOfOne
  <2>7. e.n >= MaxAttempts
    <3>1. Dues(r) + MaxAttempts * Tick <= now
      <4>1. Dues(r) + wait <= now
        <5> HIDE DEF wait
        <5> QED
          BY <1>5, <2>1, <2>2
      <4> QED
        BY <4>1
    <3>2. MaxAttempts <= MaxAttempts
      BY <2>1
    <3>3. Ticks(Waited(r, b)) >= MaxAttempts
      BY <1>1, <1>2, <1>3, <2>1, <3>1, <3>2, TicksByNow
    <3> QED
      BY <1>4, <2>4, <2>6, <3>3
  <2>8. Waited(r, b) = {e}
    BY <1>4, <2>4
  <2>9. kinds = {e.disposition}
    BY <2>8
  <2>10. e.disposition \in {"fetch_failed", "errored"}
    <3> HIDE DEF kinds
    <3> QED
      BY <1>7, <2>5, <2>9 DEF Waits, deferred
  <2>11. CASE e.disposition = "errored"
    <3>1. errors = {e}
      BY <2>8, <2>11
    <3> HIDE DEF errors
    <3> QED
      BY <1>7, <2>6, <2>7, <3>1
  <2>12. CASE e.disposition = "fetch_failed"
    <3>1. Count(At(r, b), "fetch_failed") = e.n
      BY <1>4, <2>3, <2>12, CountIs
    <3>2. e.n + (IF Pending(r) /\ account[r].disposition = "fetch_failed" THEN 1 ELSE 0)
            < MaxAttempts
      BY <1>2, <3>1 DEF Failing, FailedIn
    <3> QED
      BY <2>1, <2>5, <2>7, <3>2
  <2> QED
    BY <2>10, <2>11, <2>12
<1>8. \A f \in {Class(r, "UNSERVICED_SKIPPED", "skipped"), Class(r, "PENDING_DEFERRED", "deferred"),
                Class(r, "ERRORING", "errored"), Class(r, "NOT_YET_DUE", "in_retry")} : Quiet(f)
  <2>1. {"skipped", "deferred", "errored", "in_retry"} \subseteq Causes
    BY DEF Causes
  <2> QED
    BY <2>1, QuietClass
<1> HIDE DEF skipped, deferred, erring, superseded, waiting
<1>9. Unserved(r, b) \in
        {Class(r, "UNSERVICED_SKIPPED", "skipped"), Class(r, "PENDING_DEFERRED", "deferred"),
         Class(r, "ERRORING", "errored"), Class(r, "NOT_YET_DUE", "in_retry")}
  BY <1>1, <1>6, <1>7
<1> QED
  BY <1>8, <1>9

(* A bar that is served: from its due time to the service every tick has   *)
(* its event, and the first of them is the tick of the due time.           *)
LEMMA ServiceIs ==
  ASSUME AuditInv, WatchesTyped, \A q \in Rows : DesignRow(q),
         NEW r \in Rows, settled[r] <= Bar, IsBar(r, Bar),
         Unjudged(r, Bar) = None, Unacted(r, Bar) = None, Unserved(r, Bar) = None
  PROVE  Quiet(JudgedService(r, Bar))
<1> DEFINE b == Bar
           due == Dues(r)
           s == CHOOSE e \in Served(r, b) : TRUE
           first == FirstTick(r, b)
           lag == first - Due(r, b)
           spanned == (s.first - first) \div Tick
           breach == Class(r, "LATENCY_BREACH", "exec")
           judged == IF spanned # Ticks(Waited(r, b)) THEN Class(r, "LATE_UNEXPLAINED", "tick_gap")
                     ELSE IF s.fired = Never THEN Class(r, "STAMP_MISMATCH", "fired_missing")
                     ELSE IF s.fired - s.first > Allowance THEN breach
                     ELSE Explained(r, b, s)
<1>1. At(r, b) # {}
  <2>1. {"before_retry_budget", "no_event"} \subseteq Causes /\ {"NOT_YET_DUE", "MISSED"} \subseteq Classes
    BY DEF Causes, Classes
  <2>2. /\ Class(r, "NOT_YET_DUE", "before_retry_budget") # None
        /\ Class(r, "MISSED", "no_event") # None
    BY <2>1, ClassIs
  <2> QED
    BY <2>2 DEF Unacted
<1>2. Served(r, b) # {}
  <2>1. /\ {"skipped", "deferred", "errored", "fetch_failed", "in_retry", "unserviced"} \subseteq Causes
        /\ {"UNSERVICED_SKIPPED", "PENDING_DEFERRED", "ERRORING", "LATE_EXPLAINED",
            "NOT_YET_DUE", "LATE_UNEXPLAINED"} \subseteq Classes
    BY DEF Causes, Classes
  <2> DEFINE told(class, cause) == Class(r, class, cause) # None
  <2>2. \A class \in Classes, cause \in Causes : told(class, cause)
    BY ClassIs
  <2> HIDE DEF told
  <2>3. /\ told("UNSERVICED_SKIPPED", "skipped") /\ told("PENDING_DEFERRED", "deferred")
        /\ told("ERRORING", "errored") /\ told("LATE_EXPLAINED", "fetch_failed")
        /\ told("NOT_YET_DUE", "in_retry") /\ told("LATE_UNEXPLAINED", "unserviced")
    BY <2>1, <2>2
  <2>4. /\ Class(r, "UNSERVICED_SKIPPED", "skipped") # None
        /\ Class(r, "PENDING_DEFERRED", "deferred") # None
        /\ Class(r, "ERRORING", "errored") # None
        /\ Class(r, "LATE_EXPLAINED", "fetch_failed") # None
        /\ Class(r, "NOT_YET_DUE", "in_retry") # None
        /\ Class(r, "LATE_UNEXPLAINED", "unserviced") # None
    BY <2>3 DEF told
  <2> QED
    BY <1>1, <2>4 DEF Unserved
<1>3. /\ AuditShape /\ EventInv(r) /\ Unique(ledger[r])
      /\ Start < b => Counted(r)
      /\ \A q \in Rows : EventInv(q)
  BY DEF AuditInv, DesignRow, EventInv
<1>4. Counted(r)
  <2>1. ledger[r] # {}
    BY <1>1 DEF At
  <2> QED
    BY <1>3, <2>1, UnjudgedIs
<1>5. s \in Served(r, b) /\ s \in At(r, b) /\ s.disposition \in Stamping
  BY <1>2 DEF Served
<1> HIDE DEF s
<1>6. /\ At(r, b) \in SUBSET Records
      /\ Ticks(Waited(r, b)) = Since(due, s.first)
      /\ \E e \in At(r, b) : e.first < due + Tick
  <2>1. At(r, b) \in SUBSET Records
    BY <1>3, AtIs
  <2> QED
    BY <1>1, <1>4, <1>5, <2>1 DEF Counted
<1>7. /\ now \in Int /\ due \in Int /\ Tick \in Nat \ {0} /\ Slack \in Nat
      /\ Shift[setting][r] \in Nat /\ b \in Int
  <2>1. now \in Int /\ setting \in Settings
    BY <1>3 DEF AuditShape
  <2>2. Slack \in Nat
    BY DispatchAuditAssumption
  <2> QED
    BY <2>1, <2>2, Bars, Cadence DEF Dues
<1>8. Due(r, b) = due /\ Due(r, b) - b = Shift[setting][r]
  <2> DEFINE dues == {e.due : e \in At(r, b)}
  <2>1. dues = {due}
    BY <1>1, DueOfBar
  <2>2. Min({due}) = due
    BY <1>7, OfOne
  <2>3. Due(r, b) = due
    BY <2>1, <2>2 DEF Due
  <2>4. Dues(r) - b = Shift[setting][r]
    BY <1>7 DEF Dues
  <2> QED
    BY <2>3, <2>4
<1>9. \A e \in At(r, b) : /\ e \in ledger[r] /\ e.first \in Nat /\ due <= e.first /\ OnClock(e.first)
                          /\ (e.fired # Never <=> e.disposition \in Stamping)
  <2>1. \A e \in At(r, b) : e \in ledger[r] /\ e.first \in Nat
    BY <1>6 DEF At, Records
  <2>2. \A e \in At(r, b) : e.due = due
    BY DueOfBar
  <2> QED
    BY <1>3, <2>1, <2>2 DEF EventInv
<1>10. /\ first \in Int /\ due <= first /\ first < due + Tick /\ first <= s.first
       /\ s.first \in Int
       /\ OnClock(first)
  <2> DEFINE firsts == {e.first : e \in At(r, b)}
  <2>1. firsts # {} /\ firsts \subseteq Nat
    BY <1>1, <1>9
  <2>2. PICK least \in firsts : \A y \in firsts : least <= y
    <3> HIDE DEF firsts
    <3> QED
      BY <2>1, Smallest
  <2>3. first = Min(firsts)
    BY DEF FirstTick
  <2>4. Min(firsts) \in firsts /\ \A y \in firsts : Min(firsts) <= y
    <3> HIDE DEF firsts
    <3> QED
      BY <2>1, <2>2 DEF Min
  <2>5. PICK e \in At(r, b) : first = e.first
    BY <2>3, <2>4
  <2>6. PICK o \in At(r, b) : o.first < due + Tick
    BY <1>6
  <2>7. s.first \in firsts /\ o.first \in firsts /\ o.first \in Int /\ s.first \in Int
    BY <1>5, <1>9
  <2>8. first <= s.first /\ first <= o.first
    BY <2>3, <2>4, <2>7
  <2> HIDE DEF first, due, firsts
  <2>9. first \in Int /\ due <= first /\ OnClock(first)
    BY <1>9, <2>5
  <2> QED
    BY <1>7, <2>6, <2>7, <2>8, <2>9
<1>11. Due(r, b) \in Int /\ lag \in Int /\ 0 <= lag /\ lag < Tick /\ ~(lag < 0) /\ ~(lag > Tick + Slack)
  <2> HIDE DEF first, due
  <2> QED
    BY <1>7, <1>8, <1>10
<1>12. spanned = Ticks(Waited(r, b))
  <2>1. PICK i \in Int : now - first = i * Tick
    BY <1>10 DEF OnClock
  <2>2. PICK j \in Int : now - s.first = j * Tick
    BY <1>5, <1>9 DEF OnClock
  <2> DEFINE k == i - j
             x == s.first - first
             y == s.first - due
             whole == k * Tick
             ofFirst == i * Tick
             ofService == j * Tick
  <2>3. /\ k \in Int /\ whole = ofFirst - ofService
        /\ ofFirst \in Int /\ ofService \in Int /\ whole \in Int
    BY <1>7
  <2>4. now - first = ofFirst /\ now - s.first = ofService
    BY <2>1, <2>2
  <2>5. x = whole /\ x \in Int /\ y \in Int /\ whole <= x /\ x < whole + Tick
        /\ whole <= y /\ y < whole + Tick
    <3> HIDE DEF first, due, whole, ofFirst, ofService
    <3> QED
      BY <1>7, <1>10, <2>3, <2>4
  <2> HIDE DEF x, y
  <2>6. \A m \in Int : m * Tick <= x /\ x < m * Tick + Tick => x \div Tick = m
    BY <1>7, <2>5, Spans
  <2>7. \A m \in Int : m * Tick <= y /\ y < m * Tick + Tick => y \div Tick = m
    BY <1>7, <2>5, Spans
  <2> HIDE DEF k
  <2>8. x \div Tick = k
    BY <2>3, <2>5, <2>6, Zenon DEF whole
  <2>9. y \div Tick = k
    BY <2>3, <2>5, <2>7, Zenon DEF whole
  <2> QED
    BY <1>6, <2>8, <2>9 DEF Since, x, y
<1>13. s.fired # Never
  BY <1>5, <1>9
<1>14. JudgedService(r, b) = IF s.disposition = "serviced_first" THEN Class(r, "NEW_ROW", "first")
                             ELSE judged
  <2>1. JudgedService(r, b) =
          CASE s.disposition = "serviced_first" -> Class(r, "NEW_ROW", "first")
            [] s.disposition # "serviced_first" /\ lag < 0 -> Class(r, "EARLY", "before_due")
            [] s.disposition # "serviced_first" /\ lag > Tick + Slack ->
                 Class(r, "LATE_UNEXPLAINED", "first_tick_late")
            [] OTHER -> judged
    BY DEF JudgedService, s
  <2> HIDE DEF judged, lag
  <2>2. CASE s.disposition = "serviced_first"
    BY <2>1, <2>2
  <2>3. CASE s.disposition # "serviced_first"
    BY <1>11, <2>1, <2>3
  <2> QED
    BY <2>2, <2>3
<1>15. Quiet(Class(r, "NEW_ROW", "first"))
  <2>1. "first" \in Causes
    BY DEF Causes
  <2> QED
    BY <2>1, QuietClass
<1>16. Quiet(breach)
  <2>1. breach.row = r /\ breach.class = "LATENCY_BREACH" /\ breach.chronic = FALSE
    BY DEF Class
  <2>2. /\ breach.class \in {"ON_TIME", "LATE_EXPLAINED", "GAVE_UP", "LATENCY_BREACH"}
        /\ breach.chronic \in BOOLEAN
        /\ Due(breach.row, Bar) - Bar = Shift[setting][breach.row]
    BY <1>8, <2>1
  <2> HIDE DEF breach
  <2> QED
    BY <2>2, QuietDue
<1>17. s.disposition # "serviced_first" => Quiet(Explained(r, b, s))
  <2> SUFFICES ASSUME s.disposition # "serviced_first" PROVE Quiet(Explained(r, b, s))
    OBVIOUS
  <2> DEFINE f == Explained(r, b, s)
  <2>1. f.row = r /\ f.chronic \in BOOLEAN
    BY DEF Explained
  <2>2. s.disposition = "gave_up" \/ s.disposition = "serviced"
    BY <1>5 DEF Stamping
  <2>3. f.class \in {"ON_TIME", "LATE_EXPLAINED", "GAVE_UP"}
    BY <2>2 DEF Explained
  <2> HIDE DEF f
  <2>4. Quiet(f)
    BY <1>8, <2>1, <2>3, QuietDue
  <2> QED
    BY <2>4 DEF f
<1>18. CASE s.disposition = "serviced_first"
  BY <1>14, <1>15, <1>18
<1>19. CASE s.disposition # "serviced_first"
  <2>1. JudgedService(r, b) = judged
    BY <1>14, <1>19
  <2>2. judged \in {breach, Explained(r, b, s)}
    BY <1>12, <1>13
  <2> HIDE DEF judged, breach
  <2> QED
    BY <1>16, <1>17, <1>19, <2>1, <2>2
<1> QED
  BY <1>18, <1>19

(* Whatever rows wait for, for any rows, periods and shifts: while the     *)
(* ticks come and their flushes succeed, no stamp is set back and none is  *)
(* written in the next bar, what is not served in time is served late or   *)
(* waits for a reason that the ledger tells, and the auditor, which reads  *)
(* nothing else, pages no one for it (classify_row, audit).                *)
THEOREM DesignPagesNobody == Spec => []DesignNeverPages
<1>1. ASSUME AuditInv, WatchesTyped, DesignInv PROVE DesignNeverPages
  <2> SUFFICES ASSUME Designed
               PROVE  Verdict \notin {"TIMING_FAULT", "DEPLOY_REGRESSION"}
    BY DEF DesignNeverPages
  <2>1. \A q \in Rows : DesignRow(q)
    BY <1>1 DEF DesignInv, Designed
  <2>2. \A q \in Audited : /\ q \in Rows /\ settled[q] <= Bar /\ IsBar(q, Bar)
                          /\ ~Forgotten(q) /\ ~Merged(q) /\ ~Blended(q)
    <3> SUFFICES ASSUME NEW q \in Audited
                 PROVE  /\ q \in Rows /\ settled[q] <= Bar /\ IsBar(q, Bar)
                        /\ ~Forgotten(q) /\ ~Merged(q) /\ ~Blended(q)
      OBVIOUS
    <3>1. now \in Int /\ settled \in [Rows -> Int]
      BY <1>1 DEF AuditInv, AuditShape
    <3>2. q \in Rows /\ IsBar(q, Bar) /\ Bar \in Int
      BY <3>1, Bars
    <3>3. Bar >= settled[q] /\ settled[q] \in Int
      BY <3>1, <3>2 DEF Designed
    <3>4. settled[q] <= Bar
      BY <3>2, <3>3
    <3> QED
      BY <3>2, <3>4 DEF Designed
  <2>3. ASSUME NEW r \in Audited PROVE Quiet(Classify(r, Bar))
    <3>1. /\ r \in Rows /\ settled[r] <= Bar /\ IsBar(r, Bar)
          /\ ~Forgotten(r) /\ ~Merged(r) /\ ~Blended(r)
      BY <2>2
    <3>2. \A q \in Rows : EventInv(q)
      BY <2>1 DEF DesignRow
    <3>3. Integrity(r) = None
      BY <1>1, <2>1, <3>1, IntegrityHolds
    <3>4. Determinism(r, Bar) = None
      <4>1. Once(r)
        BY <2>1, <2>2, <3>1 DEF DesignRow
      <4> QED
        BY <3>1, <4>1, DeterminismHolds
    <3>5. CASE Unjudged(r, Bar) # None
      <4>1. Classify(r, Bar) = Unjudged(r, Bar)
        BY <3>1, <3>3, <3>4, <3>5, FirstRule
      <4> QED
        BY <1>1, <3>1, <3>2, <3>5, <4>1, UnjudgedIs
    <3>6. CASE Unjudged(r, Bar) = None /\ Unacted(r, Bar) # None
      <4>1. Classify(r, Bar) = Unacted(r, Bar)
        BY <3>1, <3>3, <3>4, <3>6, FirstRule
      <4> QED
        BY <1>1, <2>1, <2>2, <3>1, <3>6, <4>1, UnactedIs
    <3>7. CASE /\ Unjudged(r, Bar) = None /\ Unacted(r, Bar) = None
               /\ Unserved(r, Bar) # None
      <4>1. Classify(r, Bar) = Unserved(r, Bar)
        BY <3>1, <3>3, <3>4, <3>7, FirstRule
      <4> QED
        BY <1>1, <2>1, <2>2, <3>1, <3>7, <4>1, UnservedIs
    <3>8. CASE /\ Unjudged(r, Bar) = None /\ Unacted(r, Bar) = None
               /\ Unserved(r, Bar) = None
      <4>1. Classify(r, Bar) = JudgedService(r, Bar)
        BY <3>1, <3>3, <3>4, <3>8, FirstRule
      <4> QED
        BY <1>1, <2>1, <2>2, <3>1, <3>8, <4>1, ServiceIs
    <3> QED
      BY <3>5, <3>6, <3>7, <3>8
  <2> QED
    BY <2>3, QuietVerdict
<1> QED
  BY <1>1, AuditAlways, WatchesAlwaysTyped, DesignAlways, PTL
=============================================================================
