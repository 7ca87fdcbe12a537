------------------------- MODULE WatchDispatchProofs -------------------------
(***************************************************************************)
(* What WatchDispatch keeps for every watchlist, budget, number of         *)
(* attempts and bars, and whatever goes wrong.                             *)
(***************************************************************************)
EXTENDS WatchDispatch, FiniteSetTheorems, TLAPS

Busy(r) == pc[r] \in {"queued", "regime", "calls", "stamp"}

(* The part of TypeOK that the properties rest on.  A row that the tick    *)
(* has in hand has its locals.                                             *)
Shape ==
  /\ watch \in [Watches -> Row \cup {NULL}]
  /\ bar \in [Watches -> Bars]
  /\ due \subseteq Watches
  /\ tickBar \in [Watches -> Bars]
  /\ pc \in [Watches -> {"out", "queued", "regime", "calls", "stamp", "done"}]
  /\ job \in [Watches -> Job \cup {NULL}]
  /\ run \in [Watches -> SUBSET Bars]
  /\ faults \in Nat
  /\ \A r \in Watches :
       /\ Busy(r) => r \in due /\ job[r] \in Job
       /\ job[r] # NULL => Busy(r)
       /\ tickBar[r] <= bar[r]

---------------------------------------------------------------------------
(* Values *)

LEMMA Constants ==
  /\ MaxAttempts \in Nat /\ MaxAttempts > 0
  /\ MaxBar \in Nat /\ MaxBar > 0
  /\ Bars \subseteq Nat /\ \A b \in Bars : b > 0
<1>1. MaxAttempts \in Nat \ {0} /\ MaxBar \in Nat \ {0}
  BY WatchDispatchAssumption
<1> QED
  BY <1>1 DEF Bars

LEMMA FreshRowIs == ASSUME NEW type \in Types PROVE FreshRow(type) \in Row
  BY Constants DEF FreshRow, Row

(* What a stamp makes of a row, and what it leaves of it. *)
Keeps(new, row, j) ==
  /\ new \in Row
  /\ new.streak = j.streak
  /\ new.seen = IF j.seen # NULL THEN j.seen ELSE row.seen

LEMMA LearnedIs ==
  ASSUME NEW row \in Row, NEW j \in Job
  PROVE  /\ Keeps(Learned(row, j), row, j)
         /\ Learned(row, j).fetched = row.fetched
         /\ Learned(row, j).fail = row.fail
<1> DEFINE seen == IF j.seen # NULL THEN j.seen ELSE row.seen
<1>1. seen \in Regimes \cup {NULL}
  BY DEF Row, Job
<1>2. Learned(row, j) = [row EXCEPT !.verdict = j.verdict, !.streak = j.streak, !.seen = seen]
  BY DEF Learned
<1> HIDE DEF seen
<1>3. /\ Learned(row, j) \in Row
      /\ Learned(row, j).streak = j.streak /\ Learned(row, j).seen = seen
      /\ Learned(row, j).fetched = row.fetched /\ Learned(row, j).fail = row.fail
  BY <1>1, <1>2 DEF Row, Job
<1> QED
  BY <1>3 DEF Keeps, seen

LEMMA RetriedIs ==
  ASSUME NEW row \in Row, NEW j \in Job, ~GivesUp(row)
  PROVE  /\ Keeps(Retried(row, j), row, j)
         /\ Retried(row, j).fetched = row.fetched
         /\ Retried(row, j).fail = row.fail + 1
<1>1. row.fail + 1 \in 0..(MaxAttempts - 1)
  BY Constants DEF GivesUp, Row
<1>2. Retried(row, j) = [Learned(row, j) EXCEPT !.fail = row.fail + 1]
  BY LearnedIs DEF Retried
<1> QED
  BY <1>1, <1>2, LearnedIs DEF Keeps, Row

Closed(row, j, b) == [Learned(row, j) EXCEPT !.fetched = b, !.fail = 0]

LEMMA ClosedIs ==
  ASSUME NEW row \in Row, NEW j \in Job, NEW b \in Bars
  PROVE  /\ Keeps(Closed(row, j, b), row, j)
         /\ Closed(row, j, b).fetched = b
         /\ Closed(row, j, b).fail = 0
<1>1. b \in 0..MaxBar /\ 0 \in 0..(MaxAttempts - 1)
  BY Constants DEF Bars
<1> QED
  BY <1>1, LearnedIs DEF Closed, Keeps, Row

LEMMA TaughtIs ==
  ASSUME Shape, NEW r \in Watches, Busy(r), NEW g \in Regimes, NEW seen \in Regimes \cup {NULL}
  PROVE  /\ Taught(r, g, seen) \in Job
         /\ Taught(r, g, seen).row = job[r].row
         /\ Taught(r, g, seen).streak = Streak(r, g)
         /\ Taught(r, g, seen).seen = seen
         /\ Taught(r, g, seen).bars = Agreeing(r, g)
<1>1. job[r] \in Job
  BY DEF Shape
<1>2. Streak(r, g) \in Nat
  BY <1>1 DEF Streak, Job, Row
<1>3. Agreeing(r, g) \in SUBSET Bars
  BY <1>1 DEF Agreeing, Job, Shape
<1> QED
  BY <1>1, <1>2, <1>3 DEF Taught, Job

---------------------------------------------------------------------------
(* Steps *)

(* A step of the tick with row r: where it goes, and what it knows.        *)
Moves(r, place, j) ==
  /\ pc' = [pc EXCEPT ![r] = place]
  /\ job' = [job EXCEPT ![r] = j]
  /\ UNCHANGED <<bar, due, tickBar, errored>>

LEMMA MovesShape ==
  ASSUME Shape, NEW r \in Watches, Busy(r), NEW place, NEW j, Moves(r, place, j),
         \/ place \in {"regime", "calls", "stamp"} /\ j \in Job
         \/ place = "done" /\ j = NULL,
         watch' \in [Watches -> Row \cup {NULL}], run' \in [Watches -> SUBSET Bars],
         faults' \in Nat
  PROVE  Shape'
  BY DEF Shape, Moves, Busy

(* The steps of a row, each as a move with what it does to the row. *)
Learns(r, g) ==
  RegimeKnown(r, g) \/ RegimeAlert(r, g) \/ (AlertUnsure(r, g) /\ faults' = faults + 1)

LEMMA RegimeMoves ==
  ASSUME Shape, NEW r \in Watches, NEW g \in Regimes, Learns(r, g)
  PROVE  \E place \in {"calls", "stamp"}, seen \in {job[r].seen, g} :
           /\ pc[r] = "regime"
           /\ Moves(r, place, Taught(r, g, seen))
           /\ Taught(r, g, seen) \in Job
           /\ UNCHANGED <<watch, run, calls>>
<1>1. Busy(r) /\ pc[r] = "regime" /\ UNCHANGED <<watch, run, calls, bar, due, tickBar, errored>>
  BY DEF Learns, RegimeKnown, RegimeAlert, AlertUnsure, Busy, clock, rowVars
<1>2. job[r] \in Job /\ job[r].seen \in Regimes \cup {NULL}
  BY <1>1 DEF Shape, Job
<1>3. \E place \in {"calls", "stamp"} : pc' = [pc EXCEPT ![r] = place]
  BY DEF Learns, RegimeKnown, RegimeAlert, AlertUnsure, AfterRegime
<1>4. \E seen \in {job[r].seen, g} : job' = [job EXCEPT ![r] = Taught(r, g, seen)]
  BY DEF Learns, RegimeKnown, RegimeAlert, AlertUnsure
<1> QED
  BY <1>1, <1>2, <1>3, <1>4, TaughtIs DEF Moves

(* A lane that learns nothing. *)
Blank(r) ==
  \/ Begin(r) \/ RegimeEmpty(r) \/ RegimeFails(r)
  \/ CallSilent(r) \/ CallAlert(r) \/ CallFails(r)

LEMMA BlankMoves ==
  ASSUME Shape, NEW r \in Watches, Blank(r)
  PROVE  \E place \in {"regime", "calls", "stamp"}, failed \in BOOLEAN :
           /\ Busy(r) /\ (pc[r] = "queued" \/ place # "regime")
           /\ job[r] \in Job
           /\ Moves(r, place, [job[r] EXCEPT !.failed = failed])
           /\ UNCHANGED <<watch, run, alerted, repeats, faults>>
<1>1. Busy(r)
  BY DEF Blank, RegimeEmpty, RegimeFails, CallSilent, CallAlert, CallFails, Begin, MyTurn, Busy
<1>2. job[r] \in Job
  BY <1>1 DEF Shape
<1>3. \E failed \in BOOLEAN : job' = [job EXCEPT ![r] = [job[r] EXCEPT !.failed = failed]]
  <2>1. CASE RegimeFails(r) \/ CallFails(r)
    BY <2>1 DEF RegimeFails, CallFails
  <2>2. CASE job' = job
    <3>1. job[r].failed \in BOOLEAN /\ job[r] = [job[r] EXCEPT !.failed = job[r].failed]
      BY <1>2 DEF Job
    <3>2. job = [job EXCEPT ![r] = job[r]]
      BY DEF Shape
    <3> QED
      BY <2>2, <3>1, <3>2
  <2> QED
    BY <2>1, <2>2 DEF Blank, RegimeEmpty, CallSilent, CallAlert, Begin
<1>4. \E place \in {"regime", "calls", "stamp"} :
        pc' = [pc EXCEPT ![r] = place] /\ (pc[r] = "queued" \/ place # "regime")
  BY DEF Blank, RegimeEmpty, RegimeFails, CallSilent, CallAlert, CallFails, Begin, AfterRegime, MyTurn
<1>5. UNCHANGED <<watch, run, alerted, repeats, faults, bar, due, tickBar, errored>>
  BY DEF Blank, RegimeEmpty, RegimeFails, CallSilent, CallAlert, CallFails, Begin, rowVars, clock
<1> QED
  BY <1>1, <1>2, <1>3, <1>4, <1>5 DEF Moves

(* An end that stores nothing. *)
Drops(r) == DeferLate(r) \/ (RowErrors(r) /\ faults' = faults + 1)

LEMMA DropMoves ==
  ASSUME NEW r \in Watches, Drops(r)
  PROVE  Busy(r) /\ Moves(r, "done", NULL) /\ UNCHANGED rowVars
  BY DEF Drops, DeferLate, MyTurn, RowErrors, Record, Moves, Busy, clock

(* A stamp, of a row that may be gone. *)
Stamps(r) == StampServiced(r) \/ StampFailure(r)

LEMMA StampMoves ==
  ASSUME Shape, NEW r \in Watches, Stamps(r)
  PROVE  /\ pc[r] = "stamp" /\ job[r] \in Job
         /\ Moves(r, "done", NULL)
         /\ UNCHANGED <<alerted, repeats, calls, faults>>
         /\ \/ watch[r] = NULL /\ UNCHANGED <<watch, run>>
            \/ /\ watch[r] \in Row
               /\ \/ Store(r, Closed(watch[r], job[r], bar[r]))
                  \/ /\ ~GivesUp(watch[r]) /\ job[r].failed
                     /\ Store(r, Retried(watch[r], job[r]))
<1>1. pc[r] = "stamp" /\ job[r] \in Job
  BY DEF Stamps, StampServiced, StampFailure, Shape, Busy
<1>2. Moves(r, "done", NULL) /\ UNCHANGED <<alerted, repeats, calls, faults>>
  BY DEF Stamps, StampServiced, StampFailure, Record, Moves, clock
<1>3. watch[r] # NULL => watch[r] \in Row
  BY DEF Shape
<1> QED
  BY <1>1, <1>2, <1>3 DEF Stamps, StampServiced, StampFailure, Closed

(* The end of a tick, and steps that leave rows and tick alone. *)
Over  == EndTick \/ (Crash /\ faults' = faults + 1)
Aside ==
  \/ UNCHANGED vars
  \/ /\ UNCHANGED <<rowVars, bar, due, tickBar, pc, job, disp>>
     /\ faults' \in {faults, faults + 1}
     /\ errored' = errored

LEMMA NextIs ==
  ASSUME Shape, [Next]_vars
  PROVE  \/ Aside
         \/ Over
         \/ \E walled \in SUBSET Chats : StartTick(walled)
         \/ ClientFails /\ faults' = faults + 1
         \/ \E r \in Watches :
              \/ Blank(r) \/ Drops(r) \/ Stamps(r)
              \/ \E g \in Regimes : Learns(r, g)
              \/ NewBar(r) \/ RemoveWatch(r)
              \/ \E type \in Types : AddWatch(r, type)
<1>1. due \subseteq Watches /\ faults \in Nat
  BY DEF Shape
<1>2. CASE TickStep
  <2>1. CASE EmptyTick
    BY <2>1 DEF EmptyTick, Aside, tickVars
  <2>2. ASSUME NEW r \in due, RowStep(r)
        PROVE  Blank(r) \/ Drops(r) \/ Stamps(r) \/ \E g \in Regimes : Learns(r, g)
    BY <2>2 DEF RowStep, Blank, Drops, Stamps, Learns
  <2> QED
    BY <1>1, <1>2, <2>1, <2>2 DEF TickStep, Over
<1>3. CASE Deadline
  BY <1>3 DEF Deadline, Aside, clock
<1>4. CASE Fault
  <2>1. CASE SlowStart
    BY <1>4, <2>1 DEF Fault, SlowStart, Aside, clock
  <2> QED
    BY <1>1, <1>4, <2>1 DEF Fault, Drops, Learns, Over
<1> QED
  BY <1>2, <1>3, <1>4 DEF Next, Aside

LEMMA InitShape == Init => Shape
<1> SUFFICES ASSUME Init PROVE Shape
  OBVIOUS
<1>1. watch \in [Watches -> Row]
  BY FreshRowIs DEF Init
<1>2. 1 \in Bars
  BY Constants DEF Bars
<1> QED
  BY <1>1, <1>2 DEF Init, Shape, Nowhere, Nothing, Busy

LEMMA NewJobIs ==
  ASSUME Shape, NEW r \in Watches, watch[r] \in Row
  PROVE  /\ NewJob(r) \in Job
         /\ NewJob(r).row = watch[r] /\ NewJob(r).streak = watch[r].streak
         /\ NewJob(r).seen = watch[r].seen /\ NewJob(r).bars = run[r]
  BY DEF NewJob, Job, Row, Shape

LEMMA StartPicks ==
  ASSUME Shape, NEW walled \in SUBSET Chats, StartTick(walled), NEW r \in Watches
  PROVE  \/ /\ pc'[r] = "queued" /\ job'[r] = NewJob(r)
            /\ r \in due' /\ Due(r) /\ watch[r] \in Row
         \/ pc'[r] = "out" /\ job'[r] = NULL
  BY DEF StartTick, Shape, Scheduled, DueRows, Due

LEMMA ShapeNext == ASSUME Shape, [Next]_vars PROVE Shape'
<1> USE DEF Shape
<1>1. CASE Aside
  BY <1>1 DEF Aside, vars, rowVars, clock, tickVars, Busy
<1>2. CASE Over
  <2>1. 1 \in Bars /\ \A r \in Watches : 1 <= bar[r]
    BY Constants DEF Bars
  <2> QED
    BY <1>2, <2>1 DEF Over, EndTick, Crash, Forget, Nowhere, Nothing, rowVars, clock, Busy
<1>3. ASSUME NEW walled \in SUBSET Chats, StartTick(walled) PROVE Shape'
  <2>1. /\ UNCHANGED <<watch, run, bar, faults>> /\ tickBar' = bar /\ due' \subseteq Watches
        /\ pc' \in [Watches -> {"queued", "out"}]
        /\ job' = [r \in Watches |-> job'[r]]
    BY <1>3 DEF StartTick, DueRows, rowVars
  <2>2. \A r \in Watches :
          \/ pc'[r] = "queued" /\ job'[r] \in Job /\ r \in due'
          \/ pc'[r] = "out" /\ job'[r] = NULL
    BY <1>3, StartPicks, NewJobIs
  <2>3. job' \in [Watches -> Job \cup {NULL}]
    BY <2>1, <2>2
  <2>4. \A r \in Watches : tickBar'[r] <= bar'[r]
    BY <2>1, Constants
  <2>5. pc' \in [Watches -> {"out", "queued", "regime", "calls", "stamp", "done"}]
    BY <2>1
  <2> QED
    BY <2>1, <2>2, <2>3, <2>4, <2>5 DEF Busy
<1>4. CASE ClientFails /\ faults' = faults + 1
  <2>1. \A r \in Watches : pc'[r] \in {"out", "done"}
    BY <1>4 DEF ClientFails, Started, Busy
  <2> QED
    BY <1>4, <2>1 DEF ClientFails, Nothing, rowVars, clock, Busy
<1>5. ASSUME NEW r \in Watches, Blank(r) PROVE Shape'
  <2>1. PICK place \in {"regime", "calls", "stamp"}, failed \in BOOLEAN :
          /\ Busy(r) /\ job[r] \in Job /\ Moves(r, place, [job[r] EXCEPT !.failed = failed])
          /\ UNCHANGED <<watch, run, faults>>
    BY <1>5, BlankMoves
  <2>2. [job[r] EXCEPT !.failed = failed] \in Job
    BY <2>1 DEF Job
  <2> QED
    BY <2>1, <2>2, MovesShape
<1>6. ASSUME NEW r \in Watches, Drops(r) PROVE Shape'
  <2>1. faults' \in Nat
    BY <1>6 DEF Drops, DeferLate
  <2>2. Busy(r) /\ Moves(r, "done", NULL) /\ UNCHANGED <<watch, run>>
    BY <1>6, DropMoves DEF rowVars
  <2> QED
    BY <2>1, <2>2, MovesShape
<1>7. ASSUME NEW r \in Watches, Stamps(r) PROVE Shape'
  <2>1. /\ watch' \in [Watches -> Row \cup {NULL}]
        /\ run' \in [Watches -> SUBSET Bars]
    <3>1. CASE UNCHANGED <<watch, run>>
      BY <3>1
    <3>2. ASSUME NEW row \in Row, Store(r, row), job[r] \in Job
          PROVE  /\ watch' \in [Watches -> Row \cup {NULL}]
                 /\ run' \in [Watches -> SUBSET Bars]
      BY <3>2 DEF Store, Job
    <3> QED
      BY <1>7, <3>1, <3>2, StampMoves, ClosedIs, RetriedIs DEF Keeps
  <2>2. Busy(r) /\ Moves(r, "done", NULL) /\ faults' \in Nat
    BY <1>7, StampMoves DEF Busy
  <2> QED
    BY <2>1, <2>2, MovesShape
<1>8. ASSUME NEW r \in Watches, NEW g \in Regimes, Learns(r, g) PROVE Shape'
  <2>1. faults' \in Nat
    BY <1>8 DEF Learns, RegimeKnown, RegimeAlert
  <2>2. PICK place \in {"calls", "stamp"}, j \in Job :
          Busy(r) /\ Moves(r, place, j) /\ UNCHANGED <<watch, run>>
    BY <1>8, RegimeMoves DEF Busy
  <2> QED
    BY <2>1, <2>2, MovesShape
<1>9. ASSUME NEW r \in Watches, NewBar(r) PROVE Shape'
  <2>1. bar' = [bar EXCEPT ![r] = bar[r] + 1] /\ bar[r] \in Bars /\ bar[r] < MaxBar
    BY <1>9 DEF NewBar
  <2>2. bar[r] + 1 \in Bars
    BY <2>1, Constants DEF Bars
  <2>3. UNCHANGED <<watch, due, tickBar, pc, job, run, faults>>
    BY <1>9 DEF NewBar, tickVars
  <2>4. bar' \in [Watches -> Bars]
    BY <2>1, <2>2
  <2>5. \A q \in Watches : tickBar[q] <= bar'[q]
    <3> SUFFICES ASSUME NEW q \in Watches PROVE tickBar[q] <= bar'[q]
      OBVIOUS
    <3>1. tickBar[q] \in Nat /\ bar[q] \in Nat /\ tickBar[q] <= bar[q]
      BY Constants
    <3>2. bar'[q] = bar[q] \/ bar'[q] = bar[q] + 1
      BY <2>1
    <3> QED
      BY <3>1, <3>2
  <2> QED
    BY <2>3, <2>4, <2>5 DEF Busy
<1>10. ASSUME NEW r \in Watches, RemoveWatch(r) PROVE Shape'
  BY <1>10 DEF RemoveWatch, clock, tickVars, Busy
<1>11. ASSUME NEW r \in Watches, NEW type \in Types, AddWatch(r, type) PROVE Shape'
  <2>1. watch' \in [Watches -> Row \cup {NULL}] /\ run' \in [Watches -> SUBSET Bars]
    <3>1. CASE watch' = [watch EXCEPT ![r] = FreshRow(type)] /\ run' = [run EXCEPT ![r] = {}]
      BY <3>1, FreshRowIs
    <3>2. CASE /\ watch[r] # NULL /\ run' = run
               /\ watch' = [watch EXCEPT ![r] = [watch[r] EXCEPT !.type = type]]
      <4>1. [watch[r] EXCEPT !.type = type] \in Row
        BY <3>2 DEF Row
      <4> QED
        BY <3>2, <4>1
    <3> QED
      BY <1>11, <3>1, <3>2 DEF AddWatch
  <2> QED
    BY <1>11, <2>1 DEF AddWatch, clock, tickVars, Busy
<1> QED
  BY <1>1, <1>2, <1>3, <1>4, <1>5, <1>6, <1>7, <1>8, <1>9, <1>10, <1>11, NextIs

(* The rest of TypeOK. *)
Tally ==
  /\ ticks \in [Watches -> 0..TicksPerBar]
  /\ disp \in [Watches -> Dispositions \cup {NULL}]
  /\ late \in BOOLEAN
  /\ errored \in BOOLEAN
  /\ alerted \in [Watches -> Regimes \cup {NULL}]
  /\ repeats \in [Watches -> Nat]
  /\ calls \in [Watches -> [Bars -> 0..Many]]
  /\ faults \in 0..MaxFaults
  /\ edits \in 0..MaxEdits

LEMMA TallyNext == ASSUME Shape, Tally, [Next]_vars PROVE Tally'
<1> USE DEF Tally
<1>1. /\ TicksPerBar \in Nat \ {0} /\ MaxFaults \in Nat /\ MaxEdits \in Nat
      /\ due \subseteq Watches
      /\ 0 \in 0..TicksPerBar /\ NoCalls \in [Bars -> 0..Many]
  <2>1. TicksPerBar \in Nat \ {0} /\ MaxFaults \in Nat /\ MaxEdits \in Nat
    BY WatchDispatchAssumption
  <2> QED
    BY <2>1, Constants DEF NoCalls, Many, Shape
<1>2. ASSUME BeginMinute PROVE ticks' \in [Watches -> 0..TicksPerBar]
  BY <1>1, <1>2 DEF BeginMinute
<1>3. ASSUME NEW r \in Watches, NEW d \in Dispositions, Record(r, d)
      PROVE  disp' \in [Watches -> Dispositions \cup {NULL}]
  BY <1>3 DEF Record
<1>4. ASSUME Forget PROVE disp' \in [Watches -> Dispositions \cup {NULL}] /\ late' \in BOOLEAN /\ errored' \in BOOLEAN
  BY <1>4 DEF Forget, Nothing
<1>5. ASSUME NEW r \in Watches, NEW g \in Regimes, ReceiveAlert(r, g)
      PROVE  alerted' \in [Watches -> Regimes \cup {NULL}] /\ repeats' \in [Watches -> Nat]
  BY <1>5 DEF ReceiveAlert
<1>6. CASE UNCHANGED vars
  BY <1>6 DEF vars, rowVars, clock, tickVars
<1>7. ASSUME NEW walled \in SUBSET Chats, StartTick(walled) PROVE Tally'
  BY <1>2, <1>7 DEF StartTick, rowVars, Dispositions
<1>8. CASE EmptyTick
  BY <1>2, <1>8 DEF EmptyTick, rowVars, tickVars
<1>9. ASSUME NEW r \in Watches, RowStep(r) PROVE Tally'
  <2>1. CASE DeferLate(r)
    BY <1>3, <2>1 DEF DeferLate, rowVars, clock, Dispositions
  <2>2. CASE Begin(r)
    BY <2>2 DEF Begin, clock
  <2>3. ASSUME NEW g \in Regimes, RegimeKnown(r, g) \/ RegimeAlert(r, g) PROVE Tally'
    BY <1>5, <1>9, <2>3 DEF RegimeKnown, RegimeAlert, rowVars, clock
  <2>4. CASE RegimeEmpty(r) \/ RegimeFails(r) \/ CallSilent(r) \/ CallFails(r)
    BY <2>4 DEF RegimeEmpty, RegimeFails, CallSilent, CallFails, rowVars, clock
  <2>5. CASE CallAlert(r)
    <3>1. tickBar[r] \in Bars
      BY <1>9 DEF Shape
    <3>2. OneMore(calls[r][tickBar[r]]) \in 0..Many
      <4>1. Many \in Nat
        BY <1>1, Constants DEF Many
      <4>2. calls[r][tickBar[r]] \in 0..Many
        BY <1>9, <3>1
      <4> QED
        BY <4>1, <4>2 DEF OneMore
    <3>3. calls' \in [Watches -> [Bars -> 0..Many]]
      BY <1>9, <2>5, <3>1, <3>2 DEF CallAlert
    <3> QED
      BY <2>5, <3>3 DEF CallAlert, clock
  <2>6. CASE StampServiced(r) \/ StampFailure(r)
    <3>1. \E d \in Dispositions : Record(r, d)
      BY <2>6 DEF StampServiced, StampFailure, Dispositions, Stamping
    <3> QED
      BY <1>3, <1>9, <2>6, <3>1 DEF StampServiced, StampFailure, clock
  <2> QED
    BY <1>9, <2>1, <2>2, <2>3, <2>4, <2>5, <2>6 DEF RowStep
<1>10. CASE EndTick
  BY <1>4, <1>10 DEF EndTick, rowVars, clock
<1>11. CASE Deadline
  BY <1>11 DEF Deadline, rowVars, clock
<1>12. CASE Fault
  <2>1. faults' \in 0..MaxFaults /\ edits' = edits
    <3>1. faults < MaxFaults /\ faults' = faults + 1 /\ edits' = edits
      BY <1>12 DEF Fault
    <3> QED
      BY <1>1, <3>1
  <2>2. CASE SlowStart \/ ClientFails
    BY <2>1, <2>2 DEF SlowStart, ClientFails, rowVars, clock
  <2>3. ASSUME NEW r \in due, RowErrors(r) PROVE Tally'
    <3>1. "errored" \in Dispositions /\ Record(r, "errored")
      BY <2>3 DEF RowErrors, Dispositions
    <3> QED
      BY <1>1, <1>3, <2>1, <2>3, <3>1 DEF RowErrors, rowVars, clock
  <2>4. ASSUME NEW r \in due, NEW g \in Regimes, AlertUnsure(r, g) PROVE Tally'
    <3>1. alerted' \in [Watches -> Regimes \cup {NULL}] /\ repeats' \in [Watches -> Nat]
      BY <1>1, <1>5, <2>4 DEF AlertUnsure
    <3> QED
      BY <2>1, <2>4, <3>1 DEF AlertUnsure, clock
  <2>5. CASE Crash
    BY <1>4, <2>1, <2>5 DEF Crash, rowVars, clock
  <2> QED
    BY <1>12, <2>2, <2>3, <2>4, <2>5 DEF Fault
<1>13. ASSUME NEW r \in Watches, NewBar(r) PROVE Tally'
  BY <1>1, <1>13 DEF NewBar, tickVars
<1>14. ASSUME NEW r \in Watches,
              (\E type \in Types : AddWatch(r, type)) \/ RemoveWatch(r)
       PROVE  Tally'
  <2>1. edits' \in 0..MaxEdits
    BY <1>1, <1>14 DEF AddWatch, RemoveWatch
  <2>2. /\ alerted' \in [Watches -> Regimes \cup {NULL}]
        /\ calls' \in [Watches -> [Bars -> 0..Many]]
    BY <1>1, <1>14 DEF AddWatch, RemoveWatch
  <2> QED
    BY <1>14, <2>1, <2>2 DEF AddWatch, RemoveWatch, clock, tickVars
<1> QED
  BY <1>1, <1>6, <1>7, <1>8, <1>9, <1>10, <1>11, <1>12, <1>13, <1>14 DEF Next, TickStep

LEMMA InitTyped == Init => Shape /\ Tally
<1> SUFFICES ASSUME Init PROVE Tally
  BY InitShape
<1>1. /\ TicksPerBar \in Nat \ {0} /\ MaxFaults \in Nat /\ MaxEdits \in Nat
  BY WatchDispatchAssumption
<1>2. 0 \in 0..MaxFaults /\ 0 \in 0..MaxEdits /\ NoCalls \in [Bars -> 0..Many]
  BY <1>1, Constants DEF NoCalls, Many
<1> QED
  BY <1>2 DEF Init, Tally, Nothing

LEMMA Typed == Spec => [](Shape /\ Tally)
<1>1. Shape /\ Tally /\ [Next]_vars => (Shape /\ Tally)'
  BY ShapeNext, TallyNext
<1> QED
  BY <1>1, InitTyped, PTL DEF Spec

(* Every variable keeps its type, whatever the rows, the budget, the       *)
(* number of attempts and the faults (run_cycle, process_one_row).         *)
THEOREM DispatchIsTyped == Spec => []TypeOK
<1>1. Shape /\ Tally => TypeOK
  BY DEF Shape, Tally, TypeOK
<1> QED
  BY <1>1, Typed, PTL

---------------------------------------------------------------------------
(* What a step does to one row, the others left out *)

RowKept(q)  == watch'[q] = watch[q] /\ run'[q] = run[q]
ToldKept(q) == alerted'[q] = alerted[q] /\ repeats'[q] = repeats[q]
TickKept(q) ==
  /\ pc'[q] = pc[q] /\ job'[q] = job[q] /\ tickBar'[q] = tickBar[q]
  /\ disp'[q] = disp[q] /\ (q \in due' <=> q \in due)
InTick(q) ==
  /\ tickBar'[q] = tickBar[q] /\ (q \in due' <=> q \in due)
  /\ bar'[q] = bar[q] /\ errored' = errored

(* Another row moves, or the world around the tick. *)
Rests(q) ==
  /\ RowKept(q) /\ ToldKept(q) /\ calls'[q] = calls[q] /\ TickKept(q)
  /\ bar'[q] \in {bar[q], bar[q] + 1}
  /\ faults' \in {faults, faults + 1}
  /\ errored => errored'

(* The tick is done with the row, or over: only a fault takes a row whose  *)
(* lanes have begun.                                                       *)
Leaves(q) ==
  /\ RowKept(q) /\ ToldKept(q) /\ calls'[q] = calls[q]
  /\ bar'[q] = bar[q]
  /\ pc'[q] \in {"out", "done"} /\ job'[q] = NULL
  /\ \/ faults' = faults + 1
     \/ faults' = faults /\ pc[q] \notin {"regime", "calls", "stamp"}
  /\ q \in due' => Busy(q) /\ (disp'[q] \in Dispositions \/ errored')

(* The tick begins. *)
Picked(q) ==
  /\ RowKept(q) /\ ToldKept(q) /\ calls'[q] = calls[q]
  /\ bar'[q] = bar[q] /\ tickBar'[q] = bar[q] /\ faults' = faults
  /\ ~Busy(q)
  /\ \/ /\ pc'[q] = "queued" /\ job'[q] = NewJob(q)
        /\ Due(q) /\ watch[q] \in Row
     \/ /\ pc'[q] = "out" /\ job'[q] = NULL
        /\ q \in due' => Due(q) /\ disp'[q] \in Dispositions

Works(q) ==
  /\ RowKept(q) /\ ToldKept(q) /\ InTick(q) /\ faults' = faults
  /\ Busy(q) /\ pc[q] # "stamp"
  /\ pc'[q] \in {"regime", "calls", "stamp"}
  /\ pc'[q] = "regime" => pc[q] = "queued"
  /\ job[q] \in Job
  /\ \E failed \in BOOLEAN : job'[q] = [job[q] EXCEPT !.failed = failed]
  /\ \/ calls'[q] = calls[q]
     \/ /\ pc'[q] = "stamp"
        /\ calls'[q] = [calls[q] EXCEPT ![tickBar[q]] = OneMore(@)]

Hears(q, g) ==
  /\ RowKept(q) /\ calls'[q] = calls[q] /\ InTick(q)
  /\ pc[q] = "regime" /\ pc'[q] \in {"calls", "stamp"}
  /\ \E seen \in {job[q].seen, g} :
       /\ job'[q] = Taught(q, g, seen)
       /\ \/ ToldKept(q) /\ faults' = faults /\ seen = job[q].seen
          \/ /\ g # job[q].row.seen
             /\ alerted'[q] = g
             /\ repeats'[q] = IF alerted[q] = g THEN repeats[q] + 1 ELSE repeats[q]
             /\ \/ faults' = faults /\ seen = g
                \/ faults' = faults + 1

Stored(q) ==
  /\ ToldKept(q) /\ calls'[q] = calls[q] /\ InTick(q) /\ faults' = faults
  /\ pc[q] = "stamp" /\ job[q] \in Job
  /\ pc'[q] = "done" /\ job'[q] = NULL /\ disp'[q] \in Dispositions
  /\ \/ watch[q] = NULL /\ RowKept(q)
     \/ /\ watch[q] # NULL /\ watch[q] \in Row /\ run'[q] = job[q].bars
        /\ \/ disp'[q] \in Stamping /\ watch'[q] = Closed(watch[q], job[q], bar[q])
           \/ ~GivesUp(watch[q]) /\ watch'[q] = Retried(watch[q], job[q])

Edited(q) ==
  /\ TickKept(q) /\ bar'[q] = bar[q] /\ errored' = errored /\ faults' = faults
  /\ repeats'[q] = repeats[q]
  /\ \/ watch'[q] = NULL /\ alerted'[q] = alerted[q] /\ calls'[q] = calls[q]
     \/ /\ \E type \in Types : watch'[q] = FreshRow(type)
        /\ run'[q] = {} /\ alerted'[q] = NULL /\ calls'[q] = NoCalls
     \/ /\ watch[q] # NULL /\ watch[q] \in Row
        /\ \E type \in Types : watch'[q] = [watch[q] EXCEPT !.type = type]
        /\ run'[q] = run[q] /\ alerted'[q] = alerted[q] /\ calls'[q] = calls[q]

LEMMA LocalStep ==
  ASSUME Shape, Tally, [Next]_vars, NEW q \in Watches
  PROVE  \/ Rests(q) \/ Leaves(q) \/ Picked(q) \/ Works(q)
         \/ \E g \in Regimes : Hears(q, g)
         \/ Stored(q) \/ Edited(q)
<1> USE DEF RowKept, ToldKept, TickKept, InTick
<1>0. /\ bar[q] \in Nat /\ faults \in Nat /\ q \in due => TRUE
      /\ Busy(q) => q \in due
  BY Constants DEF Shape
<1>1. CASE Aside
  BY <1>0, <1>1 DEF Aside, Rests, vars, rowVars, clock, tickVars
<1>2. CASE Over
  <2>1. Busy(q) => faults' = faults + 1
    BY <1>0, <1>2 DEF Over, EndTick, TickDone, Busy
  <2> QED
    BY <1>2, <2>1 DEF Over, EndTick, Crash, Forget, Nowhere, Nothing, rowVars, clock, Leaves, Busy
<1>3. ASSUME NEW walled \in SUBSET Chats, StartTick(walled) PROVE Picked(q)
  <2>1. ~Busy(q)
    BY <1>0, <1>3 DEF StartTick, Running
  <2>2. pc'[q] = "out" /\ q \in due' => Due(q) /\ disp'[q] \in Dispositions
    BY <1>3 DEF StartTick, DueRows, Deferred, Dispositions
  <2> QED
    BY <1>3, <2>1, <2>2, StartPicks DEF StartTick, Picked, rowVars
<1>4. CASE ClientFails /\ faults' = faults + 1
  <2>1. Busy(q) => pc[q] = "queued"
    BY <1>0, <1>4 DEF ClientFails, Started, Busy
  <2>2. /\ RowKept(q) /\ ToldKept(q) /\ calls'[q] = calls[q] /\ bar'[q] = bar[q]
        /\ job'[q] = NULL /\ tickBar' = tickBar /\ disp' = disp /\ due' = due /\ errored'
        /\ pc'[q] = IF pc[q] = "queued" THEN "done" ELSE pc[q]
    BY <1>4 DEF ClientFails, Nothing, rowVars, clock
  <2>3. job[q] # NULL => Busy(q)
    BY DEF Shape
  <2>4. CASE pc[q] = "queued"
    BY <1>4, <2>2, <2>4 DEF Leaves, Busy
  <2>5. CASE pc[q] # "queued"
    BY <1>4, <2>1, <2>2, <2>3, <2>5 DEF Rests
  <2> QED
    BY <2>4, <2>5
<1>5. ASSUME NEW r \in Watches, q # r,
             \/ Blank(r) \/ Drops(r) \/ Stamps(r)
             \/ \E g \in Regimes : Learns(r, g)
             \/ NewBar(r) \/ RemoveWatch(r)
             \/ \E type \in Types : AddWatch(r, type)
      PROVE  Rests(q)
  <2>1. CASE Blank(r)
    <3>1. calls'[q] = calls[q] /\ disp' = disp
      BY <1>5, <2>1 DEF Blank, Begin, RegimeEmpty, RegimeFails, CallSilent, CallAlert, CallFails, rowVars, Tally
    <3> QED
      BY <1>0, <1>5, <2>1, <3>1, BlankMoves DEF Moves, Rests, Shape
  <2>2. CASE Drops(r)
    <3>1. disp'[q] = disp[q] /\ faults' \in {faults, faults + 1}
      BY <1>5, <2>2 DEF Drops, DeferLate, RowErrors, Record, Tally
    <3> QED
      BY <1>0, <1>5, <2>2, <3>1, DropMoves DEF Moves, Rests, Shape, rowVars
  <2>3. CASE Stamps(r)
    <3>1. disp'[q] = disp[q]
      BY <1>5, <2>3 DEF Stamps, StampServiced, StampFailure, Record, Tally
    <3>2. RowKept(q)
      BY <1>5, <2>3, StampMoves DEF Store, Shape
    <3> QED
      BY <1>0, <1>5, <2>3, <3>1, <3>2, StampMoves DEF Moves, Rests, Shape
  <2>4. ASSUME NEW g \in Regimes, Learns(r, g) PROVE Rests(q)
    <3>1. disp' = disp /\ faults' \in {faults, faults + 1} /\ ToldKept(q)
      BY <1>5, <2>4 DEF Learns, RegimeKnown, RegimeAlert, AlertUnsure, ReceiveAlert, rowVars, Tally
    <3> QED
      BY <1>0, <1>5, <2>4, <3>1, RegimeMoves DEF Moves, Rests, Shape
  <2>5. CASE NewBar(r)
    BY <1>0, <1>5, <2>5 DEF NewBar, Rests, tickVars, Shape
  <2>6. CASE RemoveWatch(r) \/ \E type \in Types : AddWatch(r, type)
    BY <1>0, <1>5, <2>6 DEF RemoveWatch, AddWatch, Rests, tickVars, clock, Shape, Tally
  <2> QED
    BY <1>5, <2>1, <2>2, <2>3, <2>4, <2>5, <2>6
<1>6. CASE Blank(q)
  <2>1. pc[q] # "stamp"
    BY <1>6 DEF Blank, Begin, MyTurn, RegimeEmpty, RegimeFails, CallSilent, CallAlert, CallFails
  <2>2. \/ calls'[q] = calls[q]
        \/ /\ pc'[q] = "stamp"
           /\ calls'[q] = [calls[q] EXCEPT ![tickBar[q]] = OneMore(@)]
    BY <1>6 DEF Blank, Begin, RegimeEmpty, RegimeFails, CallSilent, CallAlert, CallFails, rowVars, Tally, Shape
  <2>3. PICK place \in {"regime", "calls", "stamp"}, failed \in BOOLEAN :
           /\ Busy(q) /\ (pc[q] = "queued" \/ place # "regime")
           /\ job[q] \in Job
           /\ Moves(q, place, [job[q] EXCEPT !.failed = failed])
           /\ UNCHANGED <<watch, run, alerted, repeats, faults>>
    BY <1>6, BlankMoves
  <2>4. pc'[q] = place /\ job'[q] = [job[q] EXCEPT !.failed = failed]
    BY <2>3 DEF Moves, Shape
  <2> QED
    BY <2>1, <2>2, <2>3, <2>4 DEF Moves, Works
<1>7. CASE Drops(q)
  <2>1. disp'[q] \in Dispositions
    BY <1>7 DEF Drops, DeferLate, RowErrors, Record, Tally, Dispositions
  <2>2. \/ faults' = faults + 1
        \/ faults' = faults /\ pc[q] \notin {"regime", "calls", "stamp"}
    BY <1>7 DEF Drops, DeferLate, MyTurn
  <2>3. pc'[q] = "done" /\ job'[q] = NULL
    BY <1>7, DropMoves DEF Moves, Shape
  <2> QED
    BY <1>7, <2>1, <2>2, <2>3, DropMoves DEF Moves, Leaves, rowVars
<1>8. CASE Stamps(q)
  <2>1. disp'[q] \in Dispositions
    BY <1>8 DEF Stamps, StampServiced, StampFailure, Record, Tally, Dispositions, Stamping
  <2>2. pc'[q] = "done" /\ job'[q] = NULL
    BY <1>8, StampMoves DEF Moves, Shape
  <2>3. \/ watch[q] = NULL /\ RowKept(q)
        \/ /\ watch[q] # NULL /\ watch[q] \in Row /\ run'[q] = job[q].bars
           /\ \/ disp'[q] \in Stamping /\ watch'[q] = Closed(watch[q], job[q], bar[q])
              \/ ~GivesUp(watch[q]) /\ watch'[q] = Retried(watch[q], job[q])
    <3>1. watch[q] # NULL => watch[q] \in Row
      BY DEF Shape
    <3> QED
      BY <1>8, <3>1 DEF Stamps, StampServiced, StampFailure, Store, Record, Closed, Shape, Tally, Stamping
  <2> QED
    BY <1>8, <2>1, <2>2, <2>3, StampMoves DEF Moves, Stored
<1>9. ASSUME NEW g \in Regimes, Learns(q, g) PROVE Hears(q, g)
  <2>1. /\ pc[q] = "regime" /\ job[q] \in Job
        /\ UNCHANGED <<watch, run, calls, bar, due, tickBar, errored>>
    BY <1>9 DEF Learns, RegimeKnown, RegimeAlert, AlertUnsure, clock, rowVars, Shape, Busy
  <2>2. pc'[q] \in {"calls", "stamp"}
    BY <1>9 DEF Learns, RegimeKnown, RegimeAlert, AlertUnsure, AfterRegime, Shape
  <2>3. CASE RegimeKnown(q, g)
    <3>1. job'[q] = Taught(q, g, job[q].seen) /\ ToldKept(q) /\ faults' = faults
      BY <2>3 DEF RegimeKnown, rowVars, Shape
    <3> QED
      BY <2>1, <2>2, <3>1 DEF Hears
  <2>4. CASE RegimeAlert(q, g) \/ (AlertUnsure(q, g) /\ faults' = faults + 1)
    <3>1. /\ alerted'[q] = g /\ g # job[q].row.seen
          /\ repeats'[q] = IF alerted[q] = g THEN repeats[q] + 1 ELSE repeats[q]
      BY <2>4 DEF RegimeAlert, AlertUnsure, ReceiveAlert, AlertDue, Tally
    <3>2. \/ job'[q] = Taught(q, g, g) /\ faults' = faults
          \/ job'[q] = Taught(q, g, job[q].seen) /\ faults' = faults + 1
      BY <2>4 DEF RegimeAlert, AlertUnsure, Shape
    <3> QED
      BY <2>1, <2>2, <3>1, <3>2 DEF Hears
  <2> QED
    BY <1>9, <2>3, <2>4 DEF Learns
<1>10. CASE NewBar(q)
  BY <1>0, <1>10 DEF NewBar, Rests, tickVars, Shape
<1>11. CASE RemoveWatch(q)
  BY <1>11 DEF RemoveWatch, Edited, tickVars, clock, Shape
<1>12. ASSUME NEW type \in Types, AddWatch(q, type) PROVE Edited(q)
  <2>1. TickKept(q) /\ bar'[q] = bar[q] /\ errored' = errored /\ faults' = faults /\ repeats'[q] = repeats[q]
    BY <1>12 DEF AddWatch, tickVars, clock
  <2>2. CASE watch[q] = NULL
    <3>1. watch'[q] = FreshRow(type) /\ run'[q] = {} /\ alerted'[q] = NULL /\ calls'[q] = NoCalls
      BY <1>12, <2>2 DEF AddWatch, Shape, Tally
    <3> QED
      BY <2>1, <3>1 DEF Edited
  <2>3. CASE watch[q] # NULL
    <3>1. /\ watch'[q] = [watch[q] EXCEPT !.type = type]
          /\ run'[q] = run[q] /\ alerted'[q] = alerted[q] /\ calls'[q] = calls[q]
      BY <1>12, <2>3 DEF AddWatch, Shape
    <3> QED
      BY <2>1, <2>3, <3>1 DEF Edited, Shape
  <2> QED
    BY <2>2, <2>3
<1> QED
  BY <1>1, <1>2, <1>3, <1>4, <1>5, <1>6, <1>7, <1>8, <1>9, <1>10, <1>11, <1>12, NextIs

---------------------------------------------------------------------------
(* The streak counts bars.  A row that is not being retried has seen no    *)
(* bar it is not stamped for, so its next bar is a new one; a retry may    *)
(* meet the bar again, and does not count it.                              *)
RowCounts(q) ==
  watch[q] # NULL =>
    /\ watch[q].streak <= Cardinality(run[q])
    /\ \A b \in run[q] : b <= bar[q]
    /\ watch[q].fail = 0 => \A b \in run[q] : b <= watch[q].fetched

JobCounts(q) ==
  Busy(q) =>
    /\ job[q].streak <= Cardinality(job[q].bars)
    /\ \A b \in job[q].bars : b <= tickBar[q]
    /\ pc[q] \in {"queued", "regime"} =>
         /\ job[q].row.streak <= Cardinality(job[q].bars)
         /\ job[q].row.fail = 0 => \A b \in job[q].bars : b < tickBar[q]

Counts(q) == RowCounts(q) /\ JobCounts(q)

LEMMA BarsCount ==
  ASSUME NEW bars \in SUBSET Bars, NEW b \in Bars
  PROVE  /\ Cardinality(bars) \in Nat
         /\ Cardinality(bars) <= Cardinality(bars \cup {b})
         /\ b \notin bars => Cardinality(bars \cup {b}) = Cardinality(bars) + 1
         /\ Cardinality({b}) = 1
<1>0. Cardinality({b}) = 1
  BY FS_Singleton
<1>1. IsFiniteSet(Bars)
  BY Constants, FS_Interval DEF Bars
<1>2. IsFiniteSet(bars)
  BY <1>1, FS_Subset
<1>3. Cardinality(bars) \in Nat
  BY <1>2, FS_CardinalityType
<1>4. Cardinality(bars \cup {b}) =
        IF b \in bars THEN Cardinality(bars) ELSE Cardinality(bars) + 1
  BY <1>2, FS_AddElement
<1> QED
  BY <1>0, <1>3, <1>4

LEMMA CountsNext ==
  ASSUME Shape, Shape', Tally, [Next]_vars, NEW q \in Watches, Counts(q)
  PROVE  Counts(q)'
<1> USE DEF Counts
<1>1. /\ bar[q] \in Nat /\ bar'[q] \in Nat /\ tickBar[q] \in Bars /\ tickBar[q] \in Nat
      /\ tickBar[q] <= bar[q]
      /\ run[q] \in SUBSET Nat
      /\ watch[q] # NULL => watch[q] \in Row
      /\ Busy(q) => job[q] \in Job /\ job[q].bars \in SUBSET Nat
  BY Constants DEF Shape, Job
<1>2. CASE Rests(q)
  BY <1>1, <1>2 DEF Rests, RowKept, TickKept, RowCounts, JobCounts, Busy
<1>3. CASE Leaves(q)
  BY <1>3 DEF Leaves, RowKept, RowCounts, JobCounts, Busy
<1>4. CASE Picked(q)
  <2>1. RowCounts(q)'
    BY <1>4 DEF Picked, RowKept, RowCounts
  <2>2. CASE pc'[q] = "out"
    BY <2>1, <2>2 DEF JobCounts, Busy
  <2>3. CASE job'[q] = NewJob(q) /\ Due(q) /\ watch[q] \in Row
    <3>1. /\ job'[q].row = watch[q] /\ job'[q].streak = watch[q].streak
          /\ job'[q].bars = run[q]
      BY <2>3, NewJobIs
    <3>2. watch[q].fetched \in Nat /\ watch[q].fetched < bar[q] /\ tickBar'[q] = bar[q]
      BY <1>4, <2>3, Constants DEF Due, Row, Picked
    <3>3. watch[q] # NULL
      BY <2>3 DEF Due
    <3>4. JobCounts(q)'
      BY <1>1, <3>1, <3>2, <3>3 DEF RowCounts, JobCounts
    <3> QED
      BY <2>1, <3>4
  <2> QED
    BY <1>4, <2>2, <2>3 DEF Picked
<1>5. CASE Works(q)
  <2>1. /\ job'[q].row = job[q].row /\ job'[q].streak = job[q].streak
        /\ job'[q].bars = job[q].bars
    BY <1>5 DEF Works, Job
  <2> QED
    BY <1>5, <2>1 DEF Works, RowKept, InTick, RowCounts, JobCounts
<1>6. ASSUME NEW g \in Regimes, Hears(q, g) PROVE Counts(q)'
  <2>1. RowCounts(q)'
    BY <1>6 DEF Hears, RowKept, InTick, RowCounts
  <2>2. Busy(q) /\ job[q] \in Job /\ job[q].bars \in SUBSET Bars
    BY <1>6 DEF Hears, Busy, Shape, Job
  <2>3. /\ job'[q].streak = Streak(q, g) /\ job'[q].bars = Agreeing(q, g)
        /\ pc'[q] \notin {"queued", "regime"} /\ tickBar'[q] = tickBar[q]
    <3>1. PICK seen \in {job[q].seen, g} : job'[q] = Taught(q, g, seen)
      BY <1>6 DEF Hears
    <3>2. seen \in Regimes \cup {NULL}
      BY <2>2 DEF Job
    <3> QED
      BY <1>6, <2>2, <3>1, <3>2, TaughtIs DEF Hears, InTick
  <2>4. /\ job[q].row.streak \in Nat /\ job[q].row.streak <= Cardinality(job[q].bars)
        /\ job[q].row.fail \in Nat
        /\ \A b \in job[q].bars : b <= tickBar[q]
        /\ job[q].row.fail = 0 => \A b \in job[q].bars : b < tickBar[q]
    <3>1. pc[q] = "regime"
      BY <1>6 DEF Hears
    <3> QED
      BY <2>2, <3>1, Constants DEF JobCounts, Job, Row
  <2>5. \A b \in Agreeing(q, g) : b <= tickBar[q]
    BY <1>1, <2>4 DEF Agreeing
  <2>6. Streak(q, g) <= Cardinality(Agreeing(q, g))
    <3>1. CASE g # job[q].row.verdict
      BY <1>1, <2>2, <3>1, BarsCount DEF Streak, Agreeing
    <3>2. CASE g = job[q].row.verdict /\ job[q].row.fail = 0
      <4>1. tickBar[q] \notin job[q].bars
        BY <1>1, <2>4, <3>2
      <4>2. Cardinality(job[q].bars \cup {tickBar[q]}) = Cardinality(job[q].bars) + 1
            /\ Cardinality(job[q].bars) \in Nat
        BY <1>1, <2>2, <4>1, BarsCount
      <4> QED
        BY <2>4, <3>2, <4>2 DEF Streak, Agreeing
    <3>3. CASE g = job[q].row.verdict /\ job[q].row.fail > 0
      <4>1. /\ Cardinality(job[q].bars) <= Cardinality(job[q].bars \cup {tickBar[q]})
            /\ Cardinality(job[q].bars) \in Nat
            /\ Cardinality(job[q].bars \cup {tickBar[q]}) \in Nat
        BY <1>1, <2>2, BarsCount
      <4> QED
        BY <2>4, <3>3, <4>1 DEF Streak, Agreeing
    <3> QED
      BY <2>4, <3>1, <3>2, <3>3
  <2> QED
    BY <2>1, <2>3, <2>5, <2>6 DEF JobCounts
<1>7. CASE Stored(q)
  <2>1. JobCounts(q)'
    BY <1>7 DEF Stored, JobCounts, Busy
  <2>2. CASE watch[q] = NULL /\ RowKept(q)
    BY <2>1, <2>2 DEF RowKept, RowCounts
  <2>3. CASE /\ watch[q] \in Row /\ run'[q] = job[q].bars
             /\ \/ watch'[q] = Closed(watch[q], job[q], bar[q])
                \/ ~GivesUp(watch[q]) /\ watch'[q] = Retried(watch[q], job[q])
    <3>1. /\ Busy(q) /\ job[q] \in Job /\ bar'[q] = bar[q] /\ bar[q] \in Bars
      BY <1>7 DEF Stored, InTick, Shape, Busy
    <3>2. /\ job[q].streak <= Cardinality(job[q].bars)
          /\ \A b \in job[q].bars : b <= bar[q]
      BY <1>1, <3>1 DEF JobCounts
    <3>3. /\ watch'[q].streak = job[q].streak
          /\ watch'[q].fail = 0 => watch'[q].fetched = bar[q]
      <4>1. watch[q].fail \in Nat
        BY <2>3, Constants DEF Row
      <4> QED
        BY <2>3, <3>1, <4>1, ClosedIs, RetriedIs DEF Keeps
    <3> QED
      BY <2>1, <2>3, <3>1, <3>2, <3>3 DEF RowCounts
  <2> QED
    BY <1>7, <2>2, <2>3 DEF Stored
<1>8. CASE Edited(q)
  <2>1. JobCounts(q)'
    BY <1>8 DEF Edited, TickKept, JobCounts, Busy
  <2>2. CASE watch'[q] = NULL
    BY <2>1, <2>2 DEF RowCounts
  <2>3. CASE \E type \in Types : watch'[q] = FreshRow(type) /\ run'[q] = {}
    BY <2>1, <2>3, FS_EmptySet DEF RowCounts, FreshRow
  <2>4. ASSUME watch[q] # NULL, watch[q] \in Row, run'[q] = run[q], bar'[q] = bar[q],
               NEW type \in Types, watch'[q] = [watch[q] EXCEPT !.type = type]
        PROVE  Counts(q)'
    <3>1. /\ watch'[q].streak = watch[q].streak /\ watch'[q].fail = watch[q].fail
          /\ watch'[q].fetched = watch[q].fetched
      BY <2>4 DEF Row
    <3> QED
      BY <2>1, <2>4, <3>1 DEF RowCounts
  <2> QED
    BY <1>8, <2>2, <2>3, <2>4 DEF Edited
<1> QED
  BY <1>2, <1>3, <1>4, <1>5, <1>6, <1>7, <1>8, LocalStep

---------------------------------------------------------------------------
(* An alert is repeated only by a row that has lost one: the user was told *)
(* of a regime that neither the row nor the attempt in hand remembers, and *)
(* only a fault makes it so.                                               *)
Owes(q) ==
  /\ alerted[q] # NULL
  /\ IF Busy(q) THEN job[q].seen # alerted[q]
     ELSE watch[q] # NULL /\ watch[q].seen # alerted[q]

Debt(q) ==
  /\ repeats[q] <= faults
  /\ Owes(q) => repeats[q] + 1 <= faults
  /\ pc[q] \in {"queued", "regime"} =>
       /\ job[q].seen = job[q].row.seen
       /\ watch[q] # NULL /\ alerted[q] # NULL => watch[q].seen = job[q].seen

LEMMA DebtNext ==
  ASSUME Shape, Shape', Tally, [Next]_vars, NEW q \in Watches, Debt(q)
  PROVE  Debt(q)'
<1> USE DEF Debt
<1>1. /\ repeats[q] \in Nat /\ faults \in Nat
      /\ alerted[q] \in Regimes \cup {NULL}
      /\ NULL \notin Regimes
  BY WatchDispatchAssumption DEF Shape, Tally
<1>2. CASE Rests(q)
  BY <1>1, <1>2 DEF Rests, RowKept, ToldKept, TickKept, Owes, Busy
<1>3. CASE Leaves(q)
  <2>1. CASE faults' = faults + 1
    BY <1>1, <1>3, <2>1 DEF Leaves, ToldKept
  <2>2. CASE faults' = faults /\ pc[q] \notin {"regime", "calls", "stamp"}
    <3>1. ~Busy(q)' /\ Owes(q)' => Owes(q)
      BY <1>3, <2>2 DEF Leaves, RowKept, ToldKept, Owes, Busy
    <3> QED
      BY <1>3, <2>2, <3>1 DEF Leaves, ToldKept, Busy
  <2> QED
    BY <1>3, <2>1, <2>2 DEF Leaves
<1>4. CASE Picked(q)
  <2>1. CASE pc'[q] = "out"
    BY <1>4, <2>1 DEF Picked, RowKept, ToldKept, Owes, Busy
  <2>2. CASE pc'[q] = "queued" /\ job'[q] = NewJob(q) /\ Due(q) /\ watch[q] \in Row
    <3>1. job'[q].seen = watch[q].seen /\ job'[q].row = watch[q] /\ watch[q] # NULL
      BY <2>2, NewJobIs DEF Due
    <3> QED
      BY <1>4, <2>2, <3>1 DEF Picked, RowKept, ToldKept, Owes, Busy
  <2> QED
    BY <1>4, <2>1, <2>2 DEF Picked
<1>5. CASE Works(q)
  <2>1. job'[q].seen = job[q].seen /\ job'[q].row = job[q].row
    BY <1>5 DEF Works, Job
  <2>2. Owes(q)' <=> Owes(q)
    BY <1>5, <2>1 DEF Works, ToldKept, Owes, Busy
  <2> QED
    BY <1>5, <2>1, <2>2 DEF Works, RowKept, ToldKept
<1>6. ASSUME NEW g \in Regimes, Hears(q, g) PROVE Debt(q)'
  <2>1. /\ Busy(q) /\ Busy(q)' /\ pc'[q] \notin {"queued", "regime"}
        /\ job[q] \in Job /\ job[q].seen = job[q].row.seen
    BY <1>6 DEF Hears, Busy, Shape
  <2>2. PICK seen \in {job[q].seen, g} :
          /\ job'[q] = Taught(q, g, seen)
          /\ \/ ToldKept(q) /\ faults' = faults /\ seen = job[q].seen
             \/ /\ g # job[q].row.seen
                /\ alerted'[q] = g
                /\ repeats'[q] = IF alerted[q] = g THEN repeats[q] + 1 ELSE repeats[q]
                /\ \/ faults' = faults /\ seen = g
                   \/ faults' = faults + 1
    BY <1>6 DEF Hears
  <2>3. job'[q].seen = seen
    <3>1. seen \in Regimes \cup {NULL}
      BY <2>1, <2>2 DEF Job
    <3> QED
      BY <2>1, <2>2, <3>1, TaughtIs
  <2>4. CASE ToldKept(q) /\ faults' = faults /\ seen = job[q].seen
    BY <2>1, <2>3, <2>4 DEF ToldKept, Owes
  <2>5. CASE /\ g # job[q].row.seen
             /\ alerted'[q] = g
             /\ repeats'[q] = IF alerted[q] = g THEN repeats[q] + 1 ELSE repeats[q]
             /\ \/ faults' = faults /\ seen = g
                \/ faults' = faults + 1
    <3>1. alerted[q] = g => repeats[q] + 1 <= faults
      BY <1>1, <2>1, <2>5 DEF Owes
    <3>2. repeats'[q] <= faults
      BY <1>1, <2>5, <3>1
    <3>3. seen = g => ~Owes(q)'
      BY <2>1, <2>3, <2>5 DEF Owes
    <3>4. repeats'[q] \in Nat
      BY <1>1, <2>5
    <3> QED
      BY <1>1, <2>1, <2>5, <3>2, <3>3, <3>4
  <2> QED
    BY <2>2, <2>4, <2>5
<1>7. CASE Stored(q)
  <2>1. Busy(q) /\ ~Busy(q)' /\ pc'[q] \notin {"queued", "regime"} /\ job[q] \in Job
    BY <1>7 DEF Stored, Busy
  <2>2. ToldKept(q) /\ faults' = faults
    BY <1>7 DEF Stored
  <2>3. Owes(q)' => Owes(q)
    <3>1. CASE watch[q] = NULL /\ RowKept(q)
      BY <2>1, <3>1 DEF Owes, RowKept
    <3>2. CASE /\ watch[q] \in Row
               /\ \/ watch'[q] = Closed(watch[q], job[q], bar[q])
                  \/ ~GivesUp(watch[q]) /\ watch'[q] = Retried(watch[q], job[q])
      <4>1. bar[q] \in Bars
        BY DEF Shape
      <4>2. watch'[q].seen = IF job[q].seen # NULL THEN job[q].seen ELSE watch[q].seen
        BY <2>1, <3>2, <4>1, ClosedIs, RetriedIs DEF Keeps
      <4> QED
        BY <2>1, <2>2, <4>2 DEF Owes, ToldKept
    <3> QED
      BY <1>7, <3>1, <3>2 DEF Stored
  <2> QED
    BY <2>1, <2>2, <2>3 DEF ToldKept
<1>8. CASE Edited(q)
  <2>1. TickKept(q) /\ repeats'[q] = repeats[q] /\ faults' = faults
    BY <1>8 DEF Edited
  <2>2. CASE watch'[q] = NULL /\ alerted'[q] = alerted[q]
    BY <2>1, <2>2 DEF TickKept, Owes, Busy
  <2>3. CASE alerted'[q] = NULL
    BY <2>1, <2>3 DEF TickKept, Owes
  <2>4. ASSUME watch[q] # NULL, watch[q] \in Row, alerted'[q] = alerted[q],
               NEW type \in Types, watch'[q] = [watch[q] EXCEPT !.type = type]
        PROVE  Debt(q)'
    <3>1. watch'[q].seen = watch[q].seen
      BY <2>4 DEF Row
    <3> QED
      BY <2>1, <2>4, <3>1 DEF TickKept, Owes, Busy
  <2> QED
    BY <1>8, <2>2, <2>3, <2>4 DEF Edited
<1> QED
  BY <1>2, <1>3, <1>4, <1>5, <1>6, <1>7, <1>8, LocalStep

---------------------------------------------------------------------------
(* The trade calls of a bar: one for each attempt that the row counts, one *)
(* for each fault, and one of the attempt in hand.  A bar that is closed   *)
(* is not fetched again.                                                   *)
Rung(q, b) == IF pc[q] = "stamp" /\ b = tickBar[q] THEN 1 ELSE 0

Within(q, b) ==
  /\ calls[q][b] <= MaxAttempts + faults
  /\ b > bar[q] => calls[q][b] = 0
  /\ watch[q] # NULL /\ b > watch[q].fetched =>
       calls[q][b] <= watch[q].fail + faults + Rung(q, b)

Attempts(q) ==
  /\ \A b \in Bars : Within(q, b)
  /\ pc[q] \in {"queued", "regime", "calls"} =>
       calls[q][tickBar[q]] + 1 <= MaxAttempts + faults

LEMMA AttemptsNext ==
  ASSUME Shape, Shape', Tally, Tally', [Next]_vars, NEW q \in Watches, Attempts(q)
  PROVE  Attempts(q)'
<1>1. /\ faults \in Nat /\ MaxAttempts \in Nat /\ MaxAttempts > 0 /\ Many \in Nat
      /\ bar[q] \in Bars /\ tickBar[q] \in Bars /\ tickBar[q] <= bar[q]
      /\ bar[q] \in Nat /\ tickBar[q] \in Nat
  <2>1. MaxFaults \in Nat
    BY WatchDispatchAssumption
  <2>2. Many \in Nat
    BY <2>1, Constants DEF Many
  <2>3. bar[q] \in Bars /\ tickBar[q] \in Bars /\ tickBar[q] <= bar[q] /\ faults \in Nat
    BY DEF Shape
  <2> QED
    BY <2>2, <2>3, Constants
<1>2. watch[q] # NULL =>
        /\ watch[q] \in Row /\ watch[q].fail \in Nat /\ watch[q].fetched \in Nat
        /\ watch[q].fail + 1 <= MaxAttempts
  BY Constants DEF Shape, Row
<1>3. ASSUME NEW b \in Bars
      PROVE  b \in Nat /\ calls[q][b] \in Nat /\ Within(q, b) /\ Rung(q, b) \in {0, 1}
  <2>1. calls[q] \in [Bars -> 0..Many]
    BY DEF Tally
  <2>2. calls[q][b] \in 0..Many
    BY <2>1
  <2> QED
    BY <1>1, <2>2, Constants DEF Attempts, Rung
<1>4. CASE Rests(q)
  <2>1. /\ watch'[q] = watch[q] /\ calls'[q] = calls[q] /\ pc'[q] = pc[q]
        /\ tickBar'[q] = tickBar[q] /\ bar'[q] \in {bar[q], bar[q] + 1}
        /\ faults' \in {faults, faults + 1}
    BY <1>4 DEF Rests, RowKept, TickKept
  <2>2. ASSUME NEW b \in Bars PROVE Within(q, b)'
    <3>1. Rung(q, b)' = Rung(q, b)
      BY <2>1 DEF Rung
    <3> QED
      BY <1>1, <1>2, <1>3, <2>1, <3>1 DEF Within
  <2>3. calls[q][tickBar[q]] \in Nat
    BY <1>1, <1>3
  <2>4. pc'[q] \in {"queued", "regime", "calls"} =>
          calls'[q][tickBar'[q]] + 1 <= MaxAttempts + faults'
    BY <1>1, <2>1, <2>3 DEF Attempts
  <2> QED
    BY <2>2, <2>4 DEF Attempts
<1>5. CASE Leaves(q)
  <2>1. /\ watch'[q] = watch[q] /\ calls'[q] = calls[q] /\ bar'[q] = bar[q]
        /\ pc'[q] \in {"out", "done"}
        /\ faults' = faults + 1 \/ (faults' = faults /\ pc[q] # "stamp")
    BY <1>5 DEF Leaves, RowKept
  <2>2. ASSUME NEW b \in Bars PROVE Within(q, b)'
    <3>1. Rung(q, b)' = 0 /\ faults + Rung(q, b) <= faults' /\ faults' \in Nat
      BY <1>1, <2>1 DEF Rung
    <3> QED
      BY <1>1, <1>2, <1>3, <2>1, <3>1 DEF Within
  <2> QED
    BY <2>1, <2>2 DEF Attempts
<1>6. CASE Picked(q)
  <2>1. /\ watch'[q] = watch[q] /\ calls'[q] = calls[q] /\ bar'[q] = bar[q]
        /\ faults' = faults /\ tickBar'[q] = bar[q] /\ ~Busy(q) /\ pc'[q] \in {"queued", "out"}
        /\ pc'[q] = "queued" => Due(q)
    BY <1>6 DEF Picked, RowKept
  <2>2. ASSUME NEW b \in Bars PROVE Rung(q, b) = 0 /\ Within(q, b)'
    <3>1. Rung(q, b) = 0 /\ Rung(q, b)' = 0
      BY <2>1 DEF Rung, Busy
    <3> QED
      BY <1>3, <2>1, <3>1 DEF Within
  <2>3. Due(q) => calls[q][bar[q]] <= watch[q].fail + faults
    BY <1>1, <1>2, <1>3, <2>2 DEF Due, Within
  <2>4. pc'[q] = "queued" => calls[q][bar[q]] + 1 <= MaxAttempts + faults
    BY <1>1, <1>2, <1>3, <2>1, <2>3 DEF Due
  <2> QED
    BY <2>1, <2>2, <2>4 DEF Attempts
<1>7. CASE Works(q)
  <2>1. /\ watch'[q] = watch[q] /\ bar'[q] = bar[q] /\ faults' = faults
        /\ tickBar'[q] = tickBar[q] /\ pc[q] \in {"queued", "regime", "calls"}
        /\ pc'[q] \in {"regime", "calls", "stamp"}
    BY <1>7 DEF Works, RowKept, InTick, Busy
  <2>2. calls[q][tickBar[q]] + 1 <= MaxAttempts + faults
    BY <2>1 DEF Attempts
  <2>3. ASSUME NEW b \in Bars PROVE Rung(q, b) = 0 /\ Rung(q, b)' \in {0, 1}
    BY <2>1 DEF Rung
  <2>4. CASE calls'[q] = calls[q]
    <3>1. ASSUME NEW b \in Bars PROVE Within(q, b)'
      BY <1>1, <1>2, <1>3, <2>1, <2>3, <2>4 DEF Within
    <3> QED
      BY <2>1, <2>2, <2>4, <3>1 DEF Attempts
  <2>5. CASE /\ pc'[q] = "stamp"
             /\ calls'[q] = [calls[q] EXCEPT ![tickBar[q]] = OneMore(@)]
    <3>1. calls[q] \in [Bars -> 0..Many]
      BY DEF Tally
    <3>2. ASSUME NEW b \in Bars PROVE Within(q, b)'
      <4>1. CASE b = tickBar[q]
        <5>1. Rung(q, b)' = 1
          BY <2>1, <2>5, <4>1 DEF Rung
        <5>2. calls'[q][b] = OneMore(calls[q][b])
          BY <2>5, <3>1, <4>1
        <5>3. OneMore(calls[q][b]) \in Nat /\ OneMore(calls[q][b]) <= calls[q][b] + 1
          BY <1>1, <1>3 DEF OneMore
        <5> QED
          BY <1>1, <1>2, <1>3, <2>1, <2>2, <2>3, <4>1, <5>1, <5>2, <5>3 DEF Within
      <4>2. CASE b # tickBar[q]
        <5>1. calls'[q][b] = calls[q][b]
          BY <2>5, <3>1, <4>2
        <5> QED
          BY <1>1, <1>2, <1>3, <2>1, <2>3, <5>1 DEF Within
      <4> QED
        BY <4>1, <4>2
    <3> QED
      BY <2>5, <3>2 DEF Attempts
  <2> QED
    BY <1>7, <2>4, <2>5 DEF Works
<1>8. ASSUME NEW g \in Regimes, Hears(q, g) PROVE Attempts(q)'
  <2>1. /\ watch'[q] = watch[q] /\ calls'[q] = calls[q] /\ bar'[q] = bar[q]
        /\ tickBar'[q] = tickBar[q] /\ faults' \in {faults, faults + 1}
        /\ pc[q] = "regime" /\ pc'[q] \in {"calls", "stamp"}
    BY <1>8 DEF Hears, RowKept, InTick
  <2>2. ASSUME NEW b \in Bars PROVE Within(q, b)'
    <3>1. Rung(q, b) = 0 /\ Rung(q, b)' \in {0, 1}
      BY <2>1 DEF Rung
    <3> QED
      BY <1>1, <1>2, <1>3, <2>1, <3>1 DEF Within
  <2>3. calls[q][tickBar[q]] + 1 <= MaxAttempts + faults /\ calls[q][tickBar[q]] \in Nat
    BY <1>1, <1>3, <2>1 DEF Attempts
  <2>4. calls'[q][tickBar'[q]] + 1 <= MaxAttempts + faults'
    BY <1>1, <2>1, <2>3
  <2> QED
    BY <2>2, <2>4 DEF Attempts
<1>9. CASE Stored(q)
  <2>1. /\ calls'[q] = calls[q] /\ bar'[q] = bar[q] /\ faults' = faults
        /\ pc[q] = "stamp" /\ pc'[q] = "done" /\ job[q] \in Job
    BY <1>9 DEF Stored, InTick
  <2>2. CASE watch'[q] = NULL
    <3>1. ASSUME NEW b \in Bars PROVE Within(q, b)'
      BY <1>3, <2>1, <2>2 DEF Within
    <3> QED
      BY <2>1, <3>1 DEF Attempts
  <2>3. CASE watch[q] \in Row /\ watch'[q] = Closed(watch[q], job[q], bar[q])
    <3>1. watch'[q].fetched = bar[q] /\ watch'[q].fail = 0
      BY <1>1, <2>1, <2>3, ClosedIs
    <3>2. ASSUME NEW b \in Bars PROVE Within(q, b)'
      <4>1. Rung(q, b)' \in Nat
        BY DEF Rung
      <4> QED
        BY <1>1, <1>3, <2>1, <3>1, <4>1 DEF Within
    <3> QED
      BY <2>1, <3>2 DEF Attempts
  <2>4. CASE watch[q] # NULL /\ ~GivesUp(watch[q]) /\ watch'[q] = Retried(watch[q], job[q])
    <3>1. watch'[q].fetched = watch[q].fetched /\ watch'[q].fail = watch[q].fail + 1
      BY <1>2, <2>1, <2>4, RetriedIs
    <3>2. ASSUME NEW b \in Bars PROVE Within(q, b)'
      <4>1. Rung(q, b)' = 0
        BY <2>1 DEF Rung
      <4> QED
        BY <1>1, <1>2, <1>3, <2>1, <2>4, <3>1, <4>1 DEF Within
    <3> QED
      BY <2>1, <3>2 DEF Attempts
  <2> QED
    BY <1>9, <2>2, <2>3, <2>4 DEF Stored, RowKept
<1>10. CASE Edited(q)
  <2>1. /\ pc'[q] = pc[q] /\ tickBar'[q] = tickBar[q] /\ bar'[q] = bar[q] /\ faults' = faults
    BY <1>10 DEF Edited, TickKept
  <2>2. ASSUME NEW b \in Bars PROVE Rung(q, b)' = Rung(q, b)
    BY <2>1 DEF Rung
  <2>3. CASE watch'[q] = NULL /\ calls'[q] = calls[q]
    <3>1. ASSUME NEW b \in Bars PROVE Within(q, b)'
      BY <1>3, <2>1, <2>3 DEF Within
    <3> QED
      BY <2>1, <2>3, <3>1 DEF Attempts
  <2>4. ASSUME NEW type \in Types, watch'[q] = FreshRow(type), calls'[q] = NoCalls
        PROVE  Attempts(q)'
    <3>1. watch'[q].fail = 0 /\ \A b \in Bars : calls'[q][b] = 0
      BY <2>4 DEF FreshRow, NoCalls
    <3>2. ASSUME NEW b \in Bars PROVE Within(q, b)'
      BY <1>1, <1>3, <2>1, <2>2, <3>1 DEF Within
    <3> QED
      BY <1>1, <2>1, <3>1, <3>2 DEF Attempts
  <2>5. ASSUME watch[q] # NULL, watch[q] \in Row, calls'[q] = calls[q],
               NEW type \in Types, watch'[q] = [watch[q] EXCEPT !.type = type]
        PROVE  Attempts(q)'
    <3>1. watch'[q].fail = watch[q].fail /\ watch'[q].fetched = watch[q].fetched
      BY <2>5 DEF Row
    <3>2. ASSUME NEW b \in Bars PROVE Within(q, b)'
      BY <1>3, <2>1, <2>2, <2>5, <3>1 DEF Within
    <3> QED
      BY <2>1, <2>5, <3>2 DEF Attempts
  <2> QED
    BY <1>10, <2>3, <2>4, <2>5 DEF Edited
<1> QED
  BY <1>4, <1>5, <1>6, <1>7, <1>8, <1>9, <1>10, LocalStep

---------------------------------------------------------------------------
(* The account: a row of the tick that is in hand, or that the tick did    *)
(* not stamp, stays due.                                                   *)
Accounted(q) ==
  q \in due =>
    /\ Busy(q) \/ disp[q] \in Dispositions \/ errored
    /\ (Busy(q) \/ disp[q] \notin Stamping) /\ watch[q] # NULL => watch[q].fetched < bar[q]

LEMMA AccountedNext ==
  ASSUME Shape, Shape', Tally, [Next]_vars, NEW q \in Watches, Accounted(q)
  PROVE  Accounted(q)'
<1> USE DEF Accounted
<1>1. /\ bar[q] \in Bars /\ bar[q] \in Nat /\ bar[q] > 0
      /\ Busy(q) => q \in due
      /\ watch[q] # NULL => watch[q] \in Row /\ watch[q].fetched \in Nat
  <2>1. /\ bar[q] \in Bars /\ (Busy(q) => q \in due)
        /\ watch[q] # NULL => watch[q] \in Row
    BY DEF Shape
  <2>2. watch[q] \in Row => watch[q].fetched \in Nat
    BY Constants DEF Row
  <2> QED
    BY <2>1, <2>2, Constants
<1>2. CASE Rests(q)
  BY <1>1, <1>2 DEF Rests, RowKept, TickKept, Busy
<1>3. CASE Leaves(q)
  BY <1>1, <1>3 DEF Leaves, RowKept, Busy
<1>4. CASE Picked(q)
  BY <1>4 DEF Picked, RowKept, Due, Busy
<1>5. CASE Works(q)
  BY <1>1, <1>5 DEF Works, RowKept, InTick, Busy
<1>6. ASSUME NEW g \in Regimes, Hears(q, g) PROVE Accounted(q)'
  BY <1>1, <1>6 DEF Hears, RowKept, InTick, Busy
<1>7. CASE Stored(q)
  <2>1. /\ Busy(q) /\ q \in due /\ job[q] \in Job /\ disp'[q] \in Dispositions
        /\ bar'[q] = bar[q] /\ ~Busy(q)'
    BY <1>1, <1>7 DEF Stored, InTick, Busy
  <2>2. CASE watch'[q] = NULL \/ disp'[q] \in Stamping
    BY <2>1, <2>2
  <2>3. CASE watch[q] # NULL /\ ~GivesUp(watch[q]) /\ watch'[q] = Retried(watch[q], job[q])
    <3>1. watch'[q].fetched = watch[q].fetched
      BY <1>1, <2>1, <2>3, RetriedIs
    <3> QED
      BY <2>1, <2>3, <3>1
  <2> QED
    BY <1>7, <2>2, <2>3 DEF Stored, RowKept
<1>8. CASE Edited(q)
  <2>1. TickKept(q) /\ bar'[q] = bar[q] /\ errored' = errored
    BY <1>8 DEF Edited
  <2>2. watch'[q] # NULL =>
          \/ watch'[q].fetched = 0
          \/ watch[q] # NULL /\ watch'[q].fetched = watch[q].fetched
    <3>1. ASSUME NEW type \in Types PROVE FreshRow(type).fetched = 0
      BY DEF FreshRow
    <3>2. ASSUME watch[q] \in Row, NEW type \in Types
          PROVE  [watch[q] EXCEPT !.type = type].fetched = watch[q].fetched
      BY <3>2 DEF Row
    <3> QED
      BY <1>8, <3>1, <3>2 DEF Edited
  <2> QED
    BY <1>1, <2>1, <2>2 DEF TickKept, Busy
<1> QED
  BY <1>2, <1>3, <1>4, <1>5, <1>6, <1>7, <1>8, LocalStep

---------------------------------------------------------------------------
(* For every run *)

Books(q) == Counts(q) /\ Debt(q) /\ Attempts(q) /\ Accounted(q)

LEMMA BooksKept == Spec => [](Shape /\ Tally /\ \A q \in Watches : Books(q))
<1>1. Init => Shape /\ Tally /\ \A q \in Watches : Books(q)
  <2> SUFFICES ASSUME Init, NEW q \in Watches PROVE Books(q)
    BY InitTyped
  <2>1. PICK type \in Types : watch[q] = FreshRow(type)
    BY DEF Init
  <2>2. /\ pc[q] = "out" /\ due = {} /\ run[q] = {} /\ alerted[q] = NULL /\ repeats[q] = 0
        /\ calls[q] = NoCalls /\ faults = 0 /\ bar[q] = 1 /\ ~Busy(q)
    BY DEF Init, Nowhere, Nothing, Busy
  <2>3. Counts(q)
    BY <2>1, <2>2, FS_EmptySet DEF Counts, RowCounts, JobCounts, FreshRow
  <2>4. Debt(q)
    BY <2>2 DEF Debt, Owes
  <2>5. Attempts(q)
    BY <2>1, <2>2, Constants DEF Attempts, Within, Rung, NoCalls, FreshRow
  <2> QED
    BY <2>2, <2>3, <2>4, <2>5 DEF Books, Accounted
<1>2. Shape /\ Tally /\ (\A q \in Watches : Books(q)) /\ [Next]_vars
        => (Shape /\ Tally /\ \A q \in Watches : Books(q))'
  <2> SUFFICES ASSUME Shape, Tally, \A q \in Watches : Books(q), [Next]_vars
               PROVE  (Shape /\ Tally /\ \A q \in Watches : Books(q))'
    OBVIOUS
  <2>1. Shape' /\ Tally'
    BY ShapeNext, TallyNext
  <2>2. ASSUME NEW q \in Watches PROVE Books(q)'
    BY <2>1, <2>2, CountsNext, DebtNext, AttemptsNext, AccountedNext DEF Books
  <2> QED
    BY <2>1, <2>2
<1> QED
  BY <1>1, <1>2, PTL DEF Spec

(* An alert is never due on one bar counted twice, however often the bar   *)
(* is retried (process_one_row, the flap suppression).                     *)
THEOREM StreaksAreBars == Spec => []StreakCountsBars
<1>1. Shape /\ Tally /\ (\A q \in Watches : Books(q)) => StreakCountsBars
  BY DEF Books, Counts, RowCounts, JobCounts, StreakCountsBars, Shape
<1> QED
  BY <1>1, BooksKept, PTL

(* Retries, deferrals, refusals and edits never repeat an alert; each      *)
(* repetition answers for a fault (process_one_row, record_fetch_failure). *)
THEOREM RepeatsNeedFaults == Spec => []RepeatsOnlyAfterFaults
<1>1. Shape /\ Tally /\ (\A q \in Watches : Books(q)) => RepeatsOnlyAfterFaults
  BY DEF Books, Debt, RepeatsOnlyAfterFaults
<1> QED
  BY <1>1, BooksKept, PTL

(* A bar rings at most as often as it may be attempted, and once more for  *)
(* each fault (record_fetch_failure).                                      *)
THEOREM CallsAreAttempts == Spec => []CallsPerBarBounded
<1>1. Shape /\ Tally /\ (\A q \in Watches : Books(q)) => CallsPerBarBounded
  BY DEF Books, Attempts, Within, CallsPerBarBounded
<1> QED
  BY <1>1, BooksKept, PTL

(* The account of a tick that did not err names every due row, and what    *)
(* was not stamped comes back (DispatchTick).                              *)
THEOREM AccountIsComplete == Spec => []AccountComplete
<1>1. Shape /\ Tally /\ (\A q \in Watches : Books(q)) => AccountComplete
  <2> SUFFICES ASSUME Shape, \A q \in Watches : Books(q), TickDone, NEW r \in due
               PROVE  /\ disp[r] = NULL => errored
                      /\ disp[r] \notin Stamping /\ watch[r] # NULL => Due(r)
    BY DEF AccountComplete
  <2>1. r \in Watches /\ ~Busy(r)
    BY DEF Shape, TickDone, Busy
  <2>2. NULL \notin Dispositions
    BY WatchDispatchAssumption
  <2> QED
    BY <2>1, <2>2 DEF Books, Accounted, Due
<1> QED
  BY <1>1, BooksKept, PTL
=============================================================================
