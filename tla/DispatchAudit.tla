---------------------------- MODULE DispatchAudit ----------------------------
(***************************************************************************)
(* The dispatcher's account of itself and the auditor that reads it.  At   *)
(* the end of every tick the engine writes into the dispatch ledger what   *)
(* it did with each row that was due; the auditor, which may run at any    *)
(* time, judges the row's stamp and the ledger's events of the bar that    *)
(* opened with the hour, and pages the operator.                           *)
(* WatchDispatch describes the tick in detail; here a tick is one step,    *)
(* in which every due row meets one fate, and at most one row's fate is    *)
(* not the ordinary one.  Time is counted in fractions of a tick.  The     *)
(* offset, the grace and the jitter of dispatch_schedule are one shift per *)
(* setting and row, and the setting is one the parser accepts.  One of the *)
(* two deferrals stands for both.  The auditor reads the env file, and is  *)
(* told of no deploy: the record's own start is the provenance.            *)
(***************************************************************************)
EXTENDS Integers, FiniteSets, FiniteSetsExt

CONSTANTS
  None, Rows, Settings,
  Period,      \* of the timeframe of each row
  Shift,       \* [Settings -> [Rows -> the shift of the due time]]
  Tick,        \* TICK_SECONDS
  Slack,       \* TIMER_SLACK_SECONDS
  Allowance,   \* LATENCY_ALLOWANCE_SECONDS
  Execs,       \* how long after the tick a stamp may be written
  MaxAttempts, \* MAX_FETCH_ATTEMPTS_PER_BUCKET
  RealignBars, ChronicBars,
  Hour, Retention,
  Start,       \* when the bot is set up
  LastTime,    \* bound on the time
  MaxTrouble   \* bound on what is out of the ordinary

ASSUME DispatchAuditAssumption ==
  /\ {Tick, Hour, MaxAttempts, ChronicBars} \subseteq Nat \ {0}
  /\ {Slack, Allowance, RealignBars, Retention, Start, LastTime, MaxTrouble} \subseteq Nat
  /\ Period \in [Rows -> Nat \ {0}]
  /\ \A c \in Settings, r \in Rows : Shift[c][r] \in 0..Start
  /\ \A e \in Execs : e \in Nat /\ e < Tick
  /\ \A r \in Rows : Hour % Period[r] = 0 \/ Period[r] % Hour = 0
  /\ \A r \in Rows : Period[r] % Tick = 0
  /\ Hour % Tick = 0 /\ Start % Tick = 0
  /\ Tick <= Retention

(* What the code gives the constants: a clock in seconds, three attempts,  *)
(* two bars, no timeframe to watch that is shorter than its attempts, an   *)
(* offset that is a percentage of the bar (offset_seconds), a grace of     *)
(* less than an hour, and jitter only where it still leaves a tick of the  *)
(* bar (jitter_window_for).                                                *)
ASSUME CadenceAssumption ==
  /\ Tick >= 2 /\ MaxAttempts >= 2 /\ RealignBars >= 2
  /\ \A r \in Rows : MaxAttempts * Tick <= Period[r]
  /\ \A c \in Settings, r \in Rows : Shift[c][r] + Tick <= Period[r] + Hour

VARIABLES
  now,       \* the time of the tick
  setting,   \* the dispatch settings in force
  rows,      \* watchlists: [stamp, fails, added]
  walled,    \* the rows whose chat is out of quota
  ledger,    \* dispatch_ledger: a set of events for each row
  account,   \* DispatchTick.dispositions, between the tick and its flush
  did,       \* what was done with a row in the bar of the hour (history)
  seen,      \* what happened that is not by design (history)
  settled,   \* the first bar of each row that no change can touch any more (history)
  trouble

dispatcher == <<setting, rows, walled, account>>
history    == <<did, seen, settled>>
vars       == <<now, dispatcher, ledger, history, trouble>>

Never == -1

Stamping == {"serviced", "serviced_first", "gave_up"}
Dispositions == Stamping \cup {"fetch_failed", "errored", "deferred_budget", "skipped_exhausted"}

(* What a tick may say of the rows that were due, and the auditor of one.  *)
Accounts(due) == [due -> [disposition : Dispositions, fired : Int]]
Classes ==
  {"ON_TIME", "LATE_EXPLAINED", "GAVE_UP", "UNSERVICED_SKIPPED", "PENDING_DEFERRED",
   "LATE_UNEXPLAINED", "EARLY", "MISSED", "LATENCY_BREACH", "ERRORING", "UNPROVENANCED",
   "STAMP_MISMATCH", "NOT_YET_DUE", "REALIGNING", "NEW_ROW"}
Causes ==
  {"stamp_without_event", "stamp_rewound", "stamp_cleared", "double_service", "added_in_bar",
   "provenance", "shift_change", "before_retry_budget", "no_event", "skipped", "deferred",
   "errored", "fetch_failed", "in_retry", "unserviced", "first", "before_due",
   "first_tick_late", "tick_gap", "fired_missing", "exec", "explained"}
Findings == [row : Rows, class : Classes, cause : Causes, chronic : BOOLEAN]
Verdicts == {"OK", "CHRONIC_LATE", "TIMING_FAULT", "DEPLOY_REGRESSION"}

ASSUME NoneAssumption ==
  /\ None \notin Findings /\ None \notin Verdicts
  /\ \A due \in SUBSET Rows : None \notin Accounts(due)

NewRow(t) == [stamp |-> Never, fails |-> 0, added |-> t]
Nothing == [acted |-> FALSE, served |-> 0]

Init ==
  /\ now = Start + 1
  /\ setting \in Settings
  /\ rows = [r \in Rows |-> NewRow(Start)]
  /\ walled = {}
  /\ ledger = [r \in Rows |-> {}]
  /\ account = None
  /\ did = [r \in Rows |-> Nothing]
  /\ seen = {}
  /\ settled = [r \in Rows |-> 0]
  /\ trouble = 0

---------------------------------------------------------------------------
(* The schedule *)

Floor(t, p) == (t \div p) * p

(* target_epoch and due_instant, for the settings in force. *)
Target(r, t) == Floor(t - Shift[setting][r], Period[r])
DueInstant(r, t) == Target(r, t) + Shift[setting][r]

IsDue(r, t) == rows[r].stamp = Never \/ Target(r, t) > Target(r, rows[r].stamp)

HourOf(t) == Floor(t, Hour)
Bar == HourOf(now)

---------------------------------------------------------------------------
(* The dispatcher *)

(* What becomes of a due row when nothing goes wrong. *)
Ordinary(r) ==
  CASE r \in walled -> "skipped_exhausted"
    [] r \notin walled /\ rows[r].stamp = Never -> "serviced_first"
    [] r \notin walled /\ rows[r].stamp # Never -> "serviced"

(* A failed fetch is tried again, and given up after MaxAttempts. *)
Failed(r) == IF rows[r].fails + 1 >= MaxAttempts THEN "gave_up" ELSE "fetch_failed"

Fates(r) == {Ordinary(r)} \cup
            IF r \in walled THEN {} ELSE {Failed(r), "errored", "deferred_budget"}

(* The row after the fate, its stamp written at t. *)
After(row, fate, t) ==
  CASE fate \in Stamping -> [row EXCEPT !.stamp = t, !.fails = 0]
    [] fate = "fetch_failed" -> [row EXCEPT !.fails = @ + 1]
    [] fate \notin Stamping \cup {"fetch_failed"} -> row

Note(d, r, fate, t, b) ==
  IF Target(r, t) # b THEN d
  ELSE [acted |-> TRUE, served |-> d.served + IF fate \in Stamping THEN 1 ELSE 0]

(* What is known of the bar of the hour, at time t. *)
Kept(r, t) == IF HourOf(t) = Bar THEN did[r] ELSE Nothing

(* run_cycle: the rows that are due, one of which, odd, may meet another   *)
(* fate or take long.                                                      *)
RunCycle ==
  LET t == now + Tick
      due == {r \in Rows : IsDue(r, t)}
  IN  /\ account = None
      /\ t <= LastTime
      /\ \E odd \in Rows : \E fate \in Fates(odd) : \E exec \in Execs :
           LET ordinary == exec = Min(Execs) /\ fate = Ordinary(odd)
               fates == [r \in due |-> IF r = odd THEN fate ELSE Ordinary(r)]
               stamp == [r \in due |-> t + IF r = odd THEN exec ELSE Min(Execs)]
           IN  /\ odd \notin due => ordinary
               /\ trouble' = IF ordinary THEN trouble ELSE trouble + 1
               /\ trouble' <= MaxTrouble
               /\ account' = [r \in due |->
                    [disposition |-> fates[r],
                     fired |-> IF fates[r] \in Stamping THEN stamp[r] ELSE Never]]
               /\ rows' = [r \in Rows |->
                    IF r \in due THEN After(rows[r], fates[r], stamp[r]) ELSE rows[r]]
               /\ did' = [r \in Rows |->
                    IF r \in due THEN Note(Kept(r, t), r, fates[r], t, HourOf(t)) ELSE Kept(r, t)]
               /\ seen' = IF \E r \in due : fates[r] \in Stamping /\ Target(r, stamp[r]) # Target(r, t)
                          THEN seen \cup {"crossed"} ELSE seen
      /\ now' = t
      /\ UNCHANGED <<setting, walled, ledger, settled>>

(* The client of signal-MCP fails to start, or the tick raises: every row  *)
(* that was not accounted for is recorded as errored.                      *)
CycleErrs ==
  LET t == now + Tick
      due == {r \in Rows : IsDue(r, t)}
  IN  /\ account = None
      /\ t <= LastTime
      /\ due # {}
      /\ trouble < MaxTrouble
      /\ trouble' = trouble + 1
      /\ now' = t
      /\ account' = [r \in due |->
           [disposition |-> IF r \in walled THEN "skipped_exhausted" ELSE "errored", fired |-> Never]]
      /\ did' = [r \in Rows |->
           IF r \in due THEN Note(Kept(r, t), r, "errored", t, HourOf(t)) ELSE Kept(r, t)]
      /\ UNCHANGED <<setting, rows, walled, ledger, seen, settled>>

(* The upsert: a disposition that repeats in a bucket counts up, and keeps *)
(* the first stamp unless it brings one.                                   *)
Upsert(events, e) ==
  LET same == {o \in events : o.bucket = e.bucket /\ o.disposition = e.disposition}
  IN  IF same = {} THEN events \cup {e}
      ELSE (events \ same) \cup
           {[o EXCEPT !.n = @ + 1, !.fired = IF e.fired = Never THEN @ ELSE e.fired] : o \in same}

Event(r) ==
  [bucket |-> Target(r, now), due |-> DueInstant(r, now), first |-> now, n |-> 1,
   disposition |-> account[r].disposition, fired |-> account[r].fired]

Cutoff == IF now % Hour < Tick THEN now - Retention ELSE Never

Pruned(events) == {e \in events : e.bucket >= Cutoff}

(* record_dispatch_dispositions: what the ledger has of a row after it. *)
Written(r) == IF r \in DOMAIN account THEN Upsert(ledger[r], Event(r)) ELSE ledger[r]

(* flush: one transaction, then the pruning, once an hour. *)
FlushSkipsFailures ==
  /\ account # None
  /\ ledger' = [r \in Rows |->
       Pruned(IF r \in DOMAIN account /\ account[r].disposition # "fetch_failed"
              THEN Upsert(ledger[r], Event(r)) ELSE ledger[r])]
  /\ account' = None
  /\ UNCHANGED <<now, setting, rows, walled, history, trouble>>
Flush ==
  /\ account # None
  /\ ledger' = [r \in Rows |-> Pruned(Written(r))]
  /\ account' = None
  /\ UNCHANGED <<now, setting, rows, walled, history, trouble>>

(* The write fails, or the process is killed before it. *)
FlushFails ==
  /\ account # None
  /\ trouble < MaxTrouble
  /\ trouble' = trouble + 1
  /\ account' = None
  /\ seen' = seen \cup {"lost"}
  /\ UNCHANGED <<now, setting, rows, walled, ledger, did, settled>>

---------------------------------------------------------------------------
(* The world *)

(* No tick: the timer or the host is down. *)
Dark ==
  /\ account = None
  /\ now + Tick <= LastTime
  /\ trouble < MaxTrouble
  /\ trouble' = trouble + 1
  /\ now' = now + Tick
  /\ did' = [r \in Rows |-> Kept(r, now + Tick)]
  /\ seen' = seen \cup {"dark"}
  /\ UNCHANGED <<dispatcher, ledger, settled>>

(* The fault the auditor was written for: a stamp that goes back. *)
Rewind(r) ==
  /\ account = None
  /\ rows[r].stamp >= Period[r]
  /\ trouble < MaxTrouble
  /\ trouble' = trouble + 1
  /\ rows' = [rows EXCEPT ![r].stamp = @ - Period[r]]
  /\ seen' = seen \cup {"rewound"}
  /\ UNCHANGED <<now, setting, walled, account, ledger, did, settled>>

(* The user removes a watch and adds it again: the row's bar is over       *)
(* before it is judged like any other.                                     *)
Readd(r) ==
  /\ account = None
  /\ trouble < MaxTrouble
  /\ trouble' = trouble + 1
  /\ rows' = [rows EXCEPT ![r] = NewRow(now + 1)]
  /\ settled' = [settled EXCEPT ![r] = Max({@, Floor(now, Period[r]) + Period[r]})]
  /\ UNCHANGED <<now, setting, walled, account, ledger, did, seen>>

(* The operator changes the settings.  Each row has had its turn under     *)
(* them, and none of the bars that are compared is from before, when so    *)
(* many bars of its own, and an hour at least, are over.                   *)
Over(r) == Floor(now, Period[r]) + RealignBars * Period[r] + Max({Period[r], Hour})

Retune(c) ==
  /\ account = None
  /\ c # setting
  /\ trouble < MaxTrouble
  /\ trouble' = trouble + 1
  /\ setting' = c
  /\ settled' = [r \in Rows |-> Max({settled[r], Over(r)})]
  /\ UNCHANGED <<now, rows, walled, account, ledger, did, seen>>

Wall(r) ==
  /\ account = None
  /\ r \notin walled
  /\ trouble < MaxTrouble
  /\ trouble' = trouble + 1
  /\ walled' = walled \cup {r}
  /\ UNCHANGED <<now, setting, rows, account, ledger, history>>

Relieve(r) ==
  /\ account = None
  /\ r \in walled
  /\ walled' = walled \ {r}
  /\ UNCHANGED <<now, setting, rows, account, ledger, history, trouble>>

Next ==
  \/ RunCycle \/ CycleErrs \/ Flush \/ FlushFails \/ Dark
  \/ \E r \in Rows : Rewind(r) \/ Readd(r) \/ Wall(r) \/ Relieve(r)
  \/ \E c \in Settings : Retune(c)

Spec == Init /\ [][Next]_vars

---------------------------------------------------------------------------
(* The auditor: classify_row *)

(* What the record covers: it speaks of no stamp from before its start. *)
Provenance ==
  LET firsts == {e.first : e \in UNION {ledger[r] : r \in Rows}}
  IN  IF firsts = {} THEN Never ELSE Min(firsts)

LatestFired(r) ==
  Max({Never} \cup {e.fired : e \in
         {x \in ledger[r] : x.disposition \in Stamping /\ x.first >= rows[r].added}})

At(r, bar) == {e \in ledger[r] : e.bucket = bar}
Served(r, bar) == {e \in At(r, bar) : e.disposition \in Stamping}
Waited(r, bar) == At(r, bar) \ Served(r, bar)
Shifts(r, lo, hi) == {e.due - e.bucket : e \in {x \in ledger[r] : lo <= x.bucket /\ x.bucket <= hi}}

(* How many ticks the events of one bucket tell of: of a kind the bucket   *)
(* has one event, which counts up.                                         *)
Count(events, kind) ==
  IF \E e \in events : e.disposition = kind
  THEN (CHOOSE e \in events : e.disposition = kind).n ELSE 0
Ticks(events) ==
  Count(events, "fetch_failed") + Count(events, "errored")
    + Count(events, "deferred_budget") + Count(events, "skipped_exhausted")

Degraded(events) == \E e \in events : e.disposition \in {"fetch_failed", "errored", "gave_up"}

Class(r, class, cause) == [row |-> r, class |-> class, cause |-> cause, chronic |-> FALSE]

(* The stamp must be one that the dispatcher recorded writing. *)
Integrity(r) ==
  LET stamp == rows[r].stamp
      latest == LatestFired(r)
      landed(t) == t # Never /\ now - t >= 2 * Tick
  IN  CASE Provenance # Never /\ landed(stamp) /\ stamp >= Provenance /\ stamp > latest ->
             Class(r, "UNPROVENANCED", "stamp_without_event")
        [] Provenance # Never /\ landed(stamp) /\ stamp >= Provenance /\ stamp < latest ->
             Class(r, "STAMP_MISMATCH", "stamp_rewound")
        [] Provenance # Never /\ stamp = Never /\ landed(latest) ->
             Class(r, "STAMP_MISMATCH", "stamp_cleared")
        [] OTHER -> None

(* A row is served once in a bucket. *)
DeterminismBySameFate(r, bar) ==
  IF \E e \in Served(r, bar) : e.n > 2
  THEN Class(r, "STAMP_MISMATCH", "double_service") ELSE None
Determinism(r, bar) ==
  IF Cardinality(Served(r, bar)) > 1 \/ \E e \in Served(r, bar) : e.n > 1
  THEN Class(r, "STAMP_MISMATCH", "double_service") ELSE None

(* Bars that cannot be judged. *)
Unjudged(r, bar) ==
  LET p == Period[r]
  IN  CASE rows[r].added > bar -> Class(r, "NEW_ROW", "added_in_bar")
        [] rows[r].added <= bar /\ Provenance # Never
           /\ bar < Floor(Provenance, p) + RealignBars * p -> Class(r, "REALIGNING", "provenance")
        [] OTHER ->
             IF Cardinality(Shifts(r, bar - RealignBars * p, bar)) > 1
             THEN Class(r, "REALIGNING", "shift_change") ELSE None

(* No event: due when the row's last event says, or else the settings.     *)
UnactedNeverMissed(r, bar) ==
  IF At(r, bar) = {} THEN Class(r, "NOT_YET_DUE", "before_retry_budget") ELSE None
Unacted(r, bar) ==
  LET latest == Max({e.bucket : e \in ledger[r]})
      shift == IF ledger[r] = {} THEN Shift[setting][r]
               ELSE Max({e.due - e.bucket : e \in At(r, latest)})
  IN  IF At(r, bar) # {} THEN None
      ELSE IF bar + shift + MaxAttempts * Tick > now
           THEN Class(r, "NOT_YET_DUE", "before_retry_budget")
           ELSE Class(r, "MISSED", "no_event")

FirstTick(r, bar) == Min({e.first : e \in At(r, bar)})
Due(r, bar) == Min({e.due : e \in At(r, bar)})

(* Events, and no service. *)
Unserved(r, bar) ==
  LET kinds == {e.disposition : e \in Waited(r, bar)}
      errors == {e \in Waited(r, bar) : e.disposition = "errored"}
      superseded == /\ "fetch_failed" \in kinds
                    /\ MaxAttempts * Tick > Period[r]
                    /\ \E e \in ledger[r] : e.bucket > bar
      waiting == Due(r, bar) + MaxAttempts * Tick > now
  IN  IF At(r, bar) = {} \/ Served(r, bar) # {} THEN None
      ELSE IF kinds = {"skipped_exhausted"} THEN Class(r, "UNSERVICED_SKIPPED", "skipped")
      ELSE IF kinds \subseteq {"deferred_budget", "skipped_exhausted"}
           THEN Class(r, "PENDING_DEFERRED", "deferred")
      ELSE IF Ticks(errors) >= MaxAttempts THEN Class(r, "ERRORING", "errored")
      ELSE IF superseded THEN Class(r, "LATE_EXPLAINED", "fetch_failed")
      ELSE IF waiting THEN Class(r, "NOT_YET_DUE", "in_retry")
      ELSE Class(r, "LATE_UNEXPLAINED", "unserviced")

(* Late for a reason, in the last bars that were served. *)
Chronic(r, bar) ==
  LET served == {b \in {e.bucket : e \in ledger[r]} : b <= bar /\ Served(r, b) # {}}
      last == {b \in served : Cardinality({c \in served : c > b}) < ChronicBars}
  IN  Cardinality(last) = ChronicBars /\ \A b \in last : Degraded(At(r, b))

Explained(r, bar, s) ==
  LET class == CASE s.disposition = "gave_up" -> "GAVE_UP"
                 [] s.disposition = "serviced" /\ Waited(r, bar) = {} -> "ON_TIME"
                 [] s.disposition = "serviced" /\ Waited(r, bar) # {} -> "LATE_EXPLAINED"
  IN  [row |-> r, class |-> class, cause |-> "explained",
       chronic |-> class # "ON_TIME" /\ Degraded(At(r, bar)) /\ Chronic(r, bar)]

(* A service: every tick between the first event and it has one event.     *)
JudgedService(r, bar) ==
  LET s == CHOOSE e \in Served(r, bar) : TRUE
      lag == FirstTick(r, bar) - Due(r, bar)
      spanned == (s.first - FirstTick(r, bar)) \div Tick
  IN  CASE s.disposition = "serviced_first" -> Class(r, "NEW_ROW", "first")
        [] s.disposition # "serviced_first" /\ lag < 0 -> Class(r, "EARLY", "before_due")
        [] s.disposition # "serviced_first" /\ lag > Tick + Slack ->
             Class(r, "LATE_UNEXPLAINED", "first_tick_late")
        [] OTHER ->
             IF spanned # Ticks(Waited(r, bar)) THEN Class(r, "LATE_UNEXPLAINED", "tick_gap")
             ELSE IF s.fired = Never THEN Class(r, "STAMP_MISMATCH", "fired_missing")
             ELSE IF s.fired - s.first > Allowance THEN Class(r, "LATENCY_BREACH", "exec")
             ELSE Explained(r, bar, s)

(* Exactly one class, by the first rule that applies. *)
Classify(r, bar) ==
  LET rules == <<Integrity(r), Determinism(r, bar), Unjudged(r, bar), Unacted(r, bar),
                 Unserved(r, bar)>>
      apply == {i \in DOMAIN rules : rules[i] # None}
  IN  IF apply # {} THEN rules[Min(apply)] ELSE JudgedService(r, bar)

---------------------------------------------------------------------------
(* The auditor: audit *)

VerdictOf(f) ==
  CASE f.chronic -> "CHRONIC_LATE"
    [] ~f.chronic /\ f.class \in {"ON_TIME", "LATE_EXPLAINED", "GAVE_UP",
                                  "UNSERVICED_SKIPPED", "PENDING_DEFERRED"} -> "OK"
    [] ~f.chronic /\ f.class \in {"LATE_UNEXPLAINED", "EARLY", "MISSED"} -> "TIMING_FAULT"
    [] ~f.chronic /\ f.class \in {"LATENCY_BREACH", "ERRORING"} -> "CHRONIC_LATE"
    [] ~f.chronic /\ f.class \in {"UNPROVENANCED", "STAMP_MISMATCH"} -> "DEPLOY_REGRESSION"
    [] ~f.chronic /\ f.class \in {"NOT_YET_DUE", "REALIGNING", "NEW_ROW"} -> None

(* audited_bars: the timeframes whose bar opened with the hour. *)
Audited == {r \in Rows : Bar % Period[r] = 0}

(* A recorded due time that the env file does not explain. *)
Skewed(f) ==
  /\ f.class \in {"ON_TIME", "LATE_EXPLAINED", "GAVE_UP", "LATENCY_BREACH"}
  /\ Due(f.row, Bar) - Bar # Shift[setting][f.row]

Verdict ==
  LET findings == {Classify(r, Bar) : r \in Audited}
      judged(p) == {f \in findings : Period[f.row] = p /\ VerdictOf(f) # None}
      dark == \E p \in {Period[r] : r \in Audited} :
                judged(p) # {} /\ \A f \in judged(p) : f.class = "MISSED"
      votes == {VerdictOf(f) : f \in findings}
               \cup (IF dark THEN {"DEPLOY_REGRESSION"} ELSE {})
               \cup (IF \E f \in findings : Skewed(f) THEN {"TIMING_FAULT"} ELSE {})
  IN  IF "DEPLOY_REGRESSION" \in votes THEN "DEPLOY_REGRESSION"
      ELSE IF "TIMING_FAULT" \in votes THEN "TIMING_FAULT"
      ELSE IF "CHRONIC_LATE" \in votes THEN "CHRONIC_LATE"
      ELSE IF "OK" \in votes THEN "OK" ELSE "INDETERMINATE"

---------------------------------------------------------------------------
(* Properties *)

TypeOK ==
  /\ now \in Nat /\ setting \in Settings /\ walled \subseteq Rows
  /\ \A r \in Rows :
       /\ rows[r].stamp \in {Never} \cup Nat /\ rows[r].fails \in 0..(MaxAttempts - 1)
       /\ \A e \in ledger[r] :
            /\ e.disposition \in Dispositions /\ e.n \in Nat \ {0}
            /\ e.bucket % Period[r] = 0 /\ e.due <= e.first
            /\ (e.fired # Never) <=> (e.disposition \in Stamping)
       /\ \A e, o \in ledger[r] :
            (e.bucket = o.bucket /\ e.disposition = o.disposition) => e = o
  /\ account # None => DOMAIN account \subseteq Rows
  /\ trouble \in 0..MaxTrouble

(* A row whose last service is older than the ledger's retention. *)
Forgotten(r) ==
  /\ rows[r].stamp # Never
  /\ \E c \in Settings : now - Floor(rows[r].stamp - Shift[c][r], Period[r]) > Retention

(* A row added anew whose first service was counted on the event of the    *)
(* watch it replaces.                                                      *)
Merged(r) == \E e \in ledger[r] : e.fired = rows[r].stamp /\ e.fired # Never /\ e.first < rows[r].added

(* A row that waited for two reasons in turn and is past its retries: the  *)
(* auditor excuses each of the two, not both (classify_row).               *)
Blended(r) ==
  /\ Cardinality(At(r, Bar)) > 1 /\ Served(r, Bar) = {}
  /\ now >= Due(r, Bar) + MaxAttempts * Tick

(* The dispatcher behaved as designed, and so did its surroundings. *)
Designed ==
  /\ seen = {}
  /\ \A r \in Audited : Bar >= settled[r] /\ ~Forgotten(r) /\ ~Merged(r) /\ ~Blended(r)

(* Whatever rows wait for by design (a deferral, a retry, an exception, a  *)
(* wall, a first fetch, a tick whose client did not start) is never paged  *)
(* as a fault of timing or of the deploy.                                  *)
DesignNeverPages == Designed => Verdict \notin {"TIMING_FAULT", "DEPLOY_REGRESSION"}

(* The row was there when the bar opened, the record covers it, and no     *)
(* change is within the bars that are compared.                            *)
Judgeable(r) ==
  /\ r \in Audited /\ rows[r].added <= Bar /\ Bar >= settled[r]
  /\ Provenance # Never /\ Bar >= Floor(Provenance, Period[r]) + RealignBars * Period[r]

(* The row was due in the bar long ago: its retries are over, by the       *)
(* settings and by any due time the ledger has of the row.                 *)
Overdue(r) ==
  \A shift \in {Shift[setting][r]} \cup {e.due - e.bucket : e \in ledger[r]} :
    now >= Bar + shift + MaxAttempts * Tick

(* A bar in which nothing was done with a row that was due long ago is     *)
(* never reported as sound.                                                *)
DarkBarIsSeen ==
  \A r \in Rows :
    (Judgeable(r) /\ account = None /\ ~did[r].acted /\ Overdue(r)) => Verdict # "OK"

(* A bar that was served twice, and recorded, is a regression.             *)
TwiceIsSeen ==
  \A r \in Rows : (r \in Audited /\ account = None /\ did[r].served > 1 /\ "lost" \notin seen)
                    => Verdict = "DEPLOY_REGRESSION"
=============================================================================
