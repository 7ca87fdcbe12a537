--------------------------- MODULE WatchDispatch ---------------------------
(***************************************************************************)
(* One cron tick after another over the watchlist (alert_engine.run_cycle  *)
(* and process_one_row), with the service editing the same rows meanwhile. *)
(* A tick snapshots the due rows, drops those of walled chats, fetches as  *)
(* many of the rest as the budget allows -- the rows of one chat in turn,  *)
(* the chats concurrently -- and stamps each row it serviced.  A bar (the  *)
(* bucket of dispatch_schedule.target_epoch) is counted from 1; a row is   *)
(* due when its stamp lies in an earlier bar than the present one.         *)
(*                                                                         *)
(* Whether a chat may be served is decided outside: QuotaMeter models it.  *)
(***************************************************************************)
EXTENDS FetchBudget

CONSTANTS
  NULL,        \* SQL NULL: no row, no value
  Types,       \* alert types of the rows
  Regimes,     \* what get_market_regime may answer
  MaxAttempts, \* MAX_FETCH_ATTEMPTS_PER_BUCKET
  TicksPerBar, \* ticks in the shortest bar
  MaxBar,      \* bound on the bars of a row
  Faults,      \* what may go wrong (see Fault)
  MaxFaults,   \* bound on how often
  MaxEdits     \* bound on the edits of the service

(* What the tick says of a row: it stamped it, or it did not. *)
Stamping     == {"serviced", "serviced_first", "gave_up"}
Dispositions == Stamping \cup
  {"fetch_failed", "errored", "deferred_budget", "deferred_deadline", "skipped_exhausted"}

ASSUME WatchDispatchAssumption ==
  /\ Types \subseteq {"calls", "regime", "both"}
  /\ Faults \subseteq {"slow start", "no client", "row error", "unsure send", "crash"}
  /\ NULL \notin Regimes \cup Nat \cup Dispositions
  /\ MaxAttempts \in Nat \ {0}
  /\ TicksPerBar \in Nat \ {0}
  /\ MaxBar \in Nat \ {0}
  /\ MaxFaults \in Nat
  /\ MaxEdits \in Nat

VARIABLES
  watch,   \* watch[r]: the watchlists row, or NULL
  bar,     \* bar[r]: the bar of the present instant
  ticks,   \* ticks[r]: ticks begun in it, up to TicksPerBar
  due,     \* the due rows of the running tick; {} between ticks
  tickBar, \* tickBar[r]: the bar in which the tick began
  pc,      \* pc[r]: where the tick is with row r
  job,     \* job[r]: the local variables of process_one_row
  disp,    \* disp[r]: the disposition the tick has recorded for r
  late,    \* the tick is past its deadline
  errored, \* DispatchTick.errored
  run,     \* run[r]: bars in which last_verdict was seen, since it last changed (history)
  alerted, \* alerted[r]: the regime of the last alert the user received (history)
  repeats, \* repeats[r]: alerts that repeated the one before (history)
  calls,   \* calls[r][b]: trade calls the user received for bar b, up to Many (history)
  faults,  \* how many faults there were
  edits    \* how many edits there were

rowVars  == <<watch, run, alerted, repeats, calls>>
clock    == <<bar, ticks>>
tickVars == <<due, tickBar, pc, job, disp, late, errored>>
vars     == <<rowVars, clock, tickVars, faults, edits>>

Bars  == 1..MaxBar

(* One more than any bound below allows. *)
Many       == MaxAttempts + MaxFaults + 1
OneMore(n) == IF n < Many THEN n + 1 ELSE n

Row ==
  [type : Types, fetched : 0..MaxBar, verdict : Regimes \cup {NULL}, streak : Nat,
   seen : Regimes \cup {NULL}, fail : 0..(MaxAttempts - 1)]

(* row: the snapshot.  verdict, streak, seen: what the attempt learned.    *)
(* failed: mcp_failed.  bars: run[r] once this attempt is stored.          *)
Job ==
  [row : Row, verdict : Regimes \cup {NULL}, streak : Nat, seen : Regimes \cup {NULL},
   failed : BOOLEAN, bars : SUBSET Bars]

FreshRow(type) ==
  [type |-> type, fetched |-> 0, verdict |-> NULL, streak |-> 0, seen |-> NULL, fail |-> 0]

NoCalls == [b \in Bars |-> 0]

Nothing == [r \in Watches |-> NULL]
Nowhere == [r \in Watches |-> "out"]

Init ==
  /\ watch \in [Watches -> {FreshRow(type) : type \in Types}]
  /\ bar = [r \in Watches |-> 1]
  /\ ticks \in [Watches -> 0..TicksPerBar]
  /\ due = {}
  /\ tickBar = [r \in Watches |-> 1]
  /\ pc = Nowhere
  /\ job = Nothing
  /\ disp = Nothing
  /\ late = FALSE
  /\ errored = FALSE
  /\ run = [r \in Watches |-> {}]
  /\ alerted = Nothing
  /\ repeats = [r \in Watches |-> 0]
  /\ calls = [r \in Watches |-> NoCalls]
  /\ faults = 0
  /\ edits = 0

Running == due # {}

(* is_due: a stamp in an earlier bar, or no stamp. *)
Due(r) == watch[r] # NULL /\ watch[r].fetched < bar[r]

(* list_due_watches *)
DueRows == {r \in Watches : Due(r)}

---------------------------------------------------------------------------
(* The tick: selection *)

Skipped(rows, walled) == {r \in rows : watch[r].type = "calls" /\ Owner[r] \in walled}

BeginMinute ==
  ticks' = [r \in Watches |-> IF ticks[r] < TicksPerBar THEN ticks[r] + 1 ELSE ticks[r]]

NewJob(r) ==
  [row |-> watch[r], verdict |-> watch[r].verdict, streak |-> watch[r].streak,
   seen |-> watch[r].seen, failed |-> FALSE, bars |-> run[r]]

(* The due rows are read, walled chats decided, the budget shared out.     *)
(* Only a row of type calls is skipped for its chat's quota.               *)
StartTick(walled) ==
  LET rows     == DueRows
      skipped  == Skipped(rows, walled)
      eligible == rows \ skipped
  IN  /\ ~Running
      /\ rows # {}
      /\ due' = rows
      /\ tickBar' = bar
      /\ pc' = [r \in Watches |->
           IF r \in Scheduled(eligible) THEN "queued" ELSE "out"]
      /\ job' = [r \in Watches |-> IF r \in Scheduled(eligible) THEN NewJob(r) ELSE NULL]
      /\ disp' = [r \in Watches |->
           IF r \in skipped THEN "skipped_exhausted"
           ELSE IF r \in Deferred(eligible) THEN "deferred_budget" ELSE NULL]
      /\ BeginMinute
      /\ UNCHANGED <<rowVars, bar, late, errored, faults, edits>>

(* No row is due. *)
EmptyTick ==
  /\ ~Running
  /\ DueRows = {}
  /\ BeginMinute
  /\ UNCHANGED <<rowVars, bar, tickVars, faults, edits>>

(* A chat's rows are processed in the order they were scheduled. *)
MyTurn(r) ==
  /\ pc[r] = "queued"
  /\ \A q \in due : Owner[q] = Owner[r] /\ Ahead(q, r) => pc[q] \in {"out", "done"}

Record(r, disposition) ==
  /\ disp' = [disp EXCEPT ![r] = disposition]
  /\ pc' = [pc EXCEPT ![r] = "done"]
  /\ job' = [job EXCEPT ![r] = NULL]

(* The deadline is looked at between rows, never inside one. *)
DeferLate(r) ==
  /\ MyTurn(r)
  /\ late
  /\ Record(r, "deferred_deadline")
  /\ UNCHANGED <<rowVars, clock, due, tickBar, late, errored, faults, edits>>

Begin(r) ==
  /\ MyTurn(r)
  /\ ~late
  /\ pc' = [pc EXCEPT ![r] = IF job[r].row.type = "calls" THEN "calls" ELSE "regime"]
  /\ UNCHANGED <<watch, run, alerted, repeats, calls, clock, due, tickBar, job, disp,
                 late, errored, faults, edits>>

---------------------------------------------------------------------------
(* process_one_row: the regime lane *)

AfterRegime(r) ==
  pc' = [pc EXCEPT ![r] = IF job[r].row.type = "both" THEN "calls" ELSE "stamp"]

(* What the attempt makes of regime g.  A retry of a bar does not count    *)
(* the bar again.                                                          *)
CountEveryAttempt(r, g) ==
  IF g = job[r].row.verdict THEN job[r].row.streak + 1 ELSE 1
Streak(r, g) ==
  IF g = job[r].row.verdict
    THEN job[r].row.streak + (IF job[r].row.fail > 0 THEN 0 ELSE 1)
    ELSE 1

(* The bars that agree on g, this one included. *)
Agreeing(r, g) ==
  (IF g = job[r].row.verdict THEN job[r].bars ELSE {}) \cup {tickBar[r]}

(* What the attempt has learned of it, the user's last alert included. *)
Taught(r, g, seen) ==
  [job[r] EXCEPT !.verdict = g, !.streak = Streak(r, g), !.bars = Agreeing(r, g),
                 !.seen = seen]

AlertDue(r, g) == Streak(r, g) >= 2 /\ g # job[r].row.seen

(* The user receives a regime alert. *)
ReceiveAlert(r, g) ==
  /\ alerted' = [alerted EXCEPT ![r] = g]
  /\ repeats' = [repeats EXCEPT ![r] = IF alerted[r] = g THEN @ + 1 ELSE @]

(* A regime, and no alert: none was due, or the chat was refused, or the   *)
(* send failed.                                                            *)
RegimeKnown(r, g) ==
  /\ pc[r] = "regime"
  /\ AfterRegime(r)
  /\ job' = [job EXCEPT ![r] = Taught(r, g, job[r].seen)]
  /\ UNCHANGED <<rowVars, clock, due, tickBar, disp, late, errored, faults, edits>>

RegimeAlert(r, g) ==
  /\ pc[r] = "regime"
  /\ AlertDue(r, g)
  /\ AfterRegime(r)
  /\ job' = [job EXCEPT ![r] = Taught(r, g, g)]
  /\ ReceiveAlert(r, g)
  /\ UNCHANGED <<watch, run, calls, clock, due, tickBar, disp, late, errored, faults, edits>>

(* The result names no regime. *)
RegimeEmpty(r) ==
  /\ pc[r] = "regime"
  /\ AfterRegime(r)
  /\ UNCHANGED <<rowVars, clock, due, tickBar, job, disp, late, errored, faults, edits>>

(* McpError *)
RegimeFails(r) ==
  /\ pc[r] = "regime"
  /\ AfterRegime(r)
  /\ job' = [job EXCEPT ![r].failed = TRUE]
  /\ UNCHANGED <<rowVars, clock, due, tickBar, disp, late, errored, faults, edits>>

---------------------------------------------------------------------------
(* process_one_row: the trade-call lane *)

(* HOLD, or the chat was refused, or the send failed. *)
CallSilent(r) ==
  /\ pc[r] = "calls"
  /\ pc' = [pc EXCEPT ![r] = "stamp"]
  /\ UNCHANGED <<rowVars, clock, due, tickBar, job, disp, late, errored, faults, edits>>

CallAlert(r) ==
  /\ pc[r] = "calls"
  /\ pc' = [pc EXCEPT ![r] = "stamp"]
  /\ calls' = [calls EXCEPT ![r][tickBar[r]] = OneMore(@)]
  /\ UNCHANGED <<watch, run, alerted, repeats, clock, due, tickBar, job, disp, late,
                 errored, faults, edits>>

(* McpError *)
CallFails(r) ==
  /\ pc[r] = "calls"
  /\ pc' = [pc EXCEPT ![r] = "stamp"]
  /\ job' = [job EXCEPT ![r].failed = TRUE]
  /\ UNCHANGED <<rowVars, clock, due, tickBar, disp, late, errored, faults, edits>>

---------------------------------------------------------------------------
(* process_one_row: the stamp *)

LearnedVerdictOnly(row, j) == [row EXCEPT !.verdict = j.verdict, !.streak = j.streak]

(* Stored whether or not the fetch failed. *)
Learned(row, j) ==
  [row EXCEPT !.verdict = j.verdict, !.streak = j.streak,
              !.seen = IF j.seen # NULL THEN j.seen ELSE @]

Store(r, row) ==
  /\ watch' = [watch EXCEPT ![r] = row]
  /\ run' = [run EXCEPT ![r] = job[r].bars]

(* update_watch_after_fetch: the stamp is the instant of the statement. *)
StampServiced(r) ==
  /\ pc[r] = "stamp"
  /\ ~job[r].failed
  /\ IF watch[r] = NULL
       THEN UNCHANGED <<watch, run>>
       ELSE Store(r, [Learned(watch[r], job[r]) EXCEPT !.fetched = bar[r], !.fail = 0])
  /\ Record(r, IF job[r].row.fetched = 0 THEN "serviced_first" ELSE "serviced")
  /\ UNCHANGED <<alerted, repeats, calls, clock, due, tickBar, late, errored, faults, edits>>

GivesUp(row) == row.fail + 1 >= MaxAttempts

RetriedUncounted(row, j) == Learned(row, j)
Retried(row, j) == [Learned(row, j) EXCEPT !.fail = @ + 1]

(* record_fetch_failure: the bucket stays open for a retry, until the last *)
(* attempt closes it.                                                      *)
StampFailure(r) ==
  /\ pc[r] = "stamp"
  /\ job[r].failed
  /\ \/ /\ watch[r] = NULL
        /\ UNCHANGED <<watch, run>>
        /\ Record(r, "gave_up")
     \/ /\ watch[r] # NULL
        /\ GivesUp(watch[r])
        /\ Store(r, [Learned(watch[r], job[r]) EXCEPT !.fetched = bar[r], !.fail = 0])
        /\ Record(r, "gave_up")
     \/ /\ watch[r] # NULL
        /\ ~GivesUp(watch[r])
        /\ Store(r, Retried(watch[r], job[r]))
        /\ Record(r, "fetch_failed")
  /\ UNCHANGED <<alerted, repeats, calls, clock, due, tickBar, late, errored, faults, edits>>

---------------------------------------------------------------------------
(* The end of the tick, and what may go wrong in it *)

(* What the run of the cron job held is gone with it. *)
Forget ==
  /\ due' = {}
  /\ tickBar' = [r \in Watches |-> 1]
  /\ pc' = Nowhere
  /\ job' = Nothing
  /\ disp' = Nothing
  /\ late' = FALSE
  /\ errored' = FALSE

TickDone == Running /\ \A r \in due : pc[r] \in {"out", "done"}

EndTick ==
  /\ TickDone
  /\ Forget
  /\ UNCHANGED <<rowVars, clock, faults, edits>>

Started == \E r \in due : pc[r] \in {"regime", "calls", "stamp", "done"}

(* The wall clock passes the deadline, once the first row of every chat    *)
(* has begun.                                                              *)
Deadline ==
  /\ Running /\ ~late
  /\ \A r \in due : pc[r] = "queued" =>
       \E q \in due : Owner[q] = Owner[r] /\ pc[q] \notin {"out", "queued"}
  /\ late' = TRUE
  /\ UNCHANGED <<rowVars, clock, due, tickBar, pc, job, disp, errored, faults, edits>>

(* The deadline passes earlier: the client took that long to initialise. *)
SlowStart ==
  /\ Running /\ ~late /\ ~Started
  /\ late' = TRUE
  /\ UNCHANGED <<rowVars, clock, due, tickBar, pc, job, disp, errored>>

(* McpClient does not initialise: no scheduled row is processed. *)
ClientFails ==
  /\ Running /\ ~Started /\ ~late
  /\ errored' = TRUE
  /\ pc' = [r \in Watches |-> IF pc[r] = "queued" THEN "done" ELSE pc[r]]
  /\ job' = Nothing
  /\ UNCHANGED <<rowVars, clock, due, tickBar, disp, late>>

(* Anything but McpError -- a timeout, a lost connection, a failing        *)
(* database -- leaves process_one_row; what it had learned is gone.        *)
RowErrors(r) ==
  /\ pc[r] \in {"regime", "calls", "stamp"}
  /\ Record(r, "errored")
  /\ UNCHANGED <<rowVars, clock, due, tickBar, late, errored>>

(* The user receives the alert, and the send reports an error all the      *)
(* same: _push answers False.                                              *)
AlertUnsure(r, g) ==
  /\ pc[r] = "regime"
  /\ AlertDue(r, g)
  /\ AfterRegime(r)
  /\ job' = [job EXCEPT ![r] = Taught(r, g, job[r].seen)]
  /\ ReceiveAlert(r, g)
  /\ UNCHANGED <<watch, run, calls, clock, due, tickBar, disp, late, errored>>

(* The process is killed: nothing of the tick is written any more. *)
Crash ==
  /\ Running
  /\ Forget
  /\ UNCHANGED <<rowVars, clock>>

Fault ==
  /\ faults < MaxFaults
  /\ faults' = faults + 1
  /\ edits' = edits
  /\ \/ "slow start" \in Faults /\ SlowStart
     \/ "no client" \in Faults /\ ClientFails
     \/ "row error" \in Faults /\ \E r \in due : RowErrors(r)
     \/ "unsure send" \in Faults /\ \E r \in due, g \in Regimes : AlertUnsure(r, g)
     \/ "crash" \in Faults /\ Crash

---------------------------------------------------------------------------
(* The world around the tick *)

(* The bars follow one another; a tick is shorter than the shortest. *)
NewBar(r) ==
  /\ bar[r] < MaxBar
  /\ ticks[r] = TicksPerBar
  /\ r \in due => tickBar[r] = bar[r]
  /\ bar' = [bar EXCEPT ![r] = @ + 1]
  /\ ticks' = [ticks EXCEPT ![r] = 0]
  /\ UNCHANGED <<watch, run, alerted, repeats, calls, tickVars, faults, edits>>

(* add_watch: a new row, or another alert type for the one there is. *)
AddWatch(r, type) ==
  /\ edits < MaxEdits
  /\ edits' = edits + 1
  /\ \/ /\ watch[r] = NULL
        /\ watch' = [watch EXCEPT ![r] = FreshRow(type)]
        /\ run' = [run EXCEPT ![r] = {}]
        /\ alerted' = [alerted EXCEPT ![r] = NULL]
        /\ calls' = [calls EXCEPT ![r] = NoCalls]
     \/ /\ watch[r] # NULL
        /\ watch[r].type # type
        /\ watch' = [watch EXCEPT ![r].type = type]
        /\ UNCHANGED <<run, alerted, calls>>
  /\ UNCHANGED <<repeats, clock, tickVars, faults>>

RemoveWatch(r) ==
  /\ edits < MaxEdits
  /\ edits' = edits + 1
  /\ watch[r] # NULL
  /\ watch' = [watch EXCEPT ![r] = NULL]
  /\ UNCHANGED <<run, alerted, repeats, calls, clock, tickVars, faults>>

---------------------------------------------------------------------------

RowStep(r) ==
  \/ DeferLate(r)
  \/ Begin(r)
  \/ \E g \in Regimes : RegimeKnown(r, g) \/ RegimeAlert(r, g)
  \/ RegimeEmpty(r)
  \/ RegimeFails(r)
  \/ CallSilent(r)
  \/ CallAlert(r)
  \/ CallFails(r)
  \/ StampServiced(r)
  \/ StampFailure(r)

(* What the engine does unless something goes wrong. *)
TickStep ==
  \/ \E walled \in SUBSET Chats : StartTick(walled)
  \/ EmptyTick
  \/ \E r \in due : RowStep(r)
  \/ EndTick

Next ==
  \/ TickStep
  \/ Deadline
  \/ Fault
  \/ \E r \in Watches : NewBar(r)
  \/ \E r \in Watches, type \in Types : AddWatch(r, type)
  \/ \E r \in Watches : RemoveWatch(r)

Spec == Init /\ [][Next]_vars

(* The timer fires every minute, and a tick that has started goes on. *)
FairSpec == Spec /\ WF_vars(TickStep)

---------------------------------------------------------------------------
(* Properties *)

TypeOK ==
  /\ watch \in [Watches -> Row \cup {NULL}]
  /\ bar \in [Watches -> Bars]
  /\ ticks \in [Watches -> 0..TicksPerBar]
  /\ due \subseteq Watches
  /\ tickBar \in [Watches -> Bars]
  /\ pc \in [Watches -> {"out", "queued", "regime", "calls", "stamp", "done"}]
  /\ job \in [Watches -> Job \cup {NULL}]
  /\ disp \in [Watches -> Dispositions \cup {NULL}]
  /\ late \in BOOLEAN
  /\ errored \in BOOLEAN
  /\ run \in [Watches -> SUBSET Bars]
  /\ alerted \in [Watches -> Regimes \cup {NULL}]
  /\ repeats \in [Watches -> Nat]
  /\ calls \in [Watches -> [Bars -> 0..Many]]
  /\ faults \in 0..MaxFaults
  /\ edits \in 0..MaxEdits

(* The streak never counts one bar twice, however often the bar is         *)
(* retried and whatever fails in between: an alert needs two bars that     *)
(* agree (process_one_row, the flap suppression).                          *)
StreakCountsBars ==
  \A r \in Watches :
    /\ watch[r] # NULL => watch[r].streak <= Cardinality(run[r])
    /\ job[r] # NULL => job[r].streak <= Cardinality(job[r].bars)

(* The user is told of the same regime twice in a row only after a fault:  *)
(* retries, deferrals, refusals and edits never repeat an alert            *)
(* (process_one_row, record_fetch_failure).                                *)
RepeatsOnlyAfterFaults == \A r \in Watches : repeats[r] <= faults

(* However the attempts at a bar fail, the user receives no more trade     *)
(* calls for it than there may be attempts (record_fetch_failure).         *)
CallsPerBarBounded ==
  \A r \in Watches, b \in Bars : calls[r][b] <= MaxAttempts + faults

(* When a tick that did not err is over, every due row has a disposition,  *)
(* and a row that it did not stamp is due again in the next one:           *)
(* nothing is dropped by a deferral or a refusal (DispatchTick).           *)
AccountComplete ==
  TickDone => \A r \in due :
    /\ disp[r] = NULL => errored
    /\ disp[r] \notin Stamping /\ watch[r] # NULL => Due(r)

(* Every due row is serviced or given up on, or its chat is refused, even  *)
(* if the upstream fails each time and others take the budget first.       *)
DueRowSettles ==
  \A r \in Watches : Due(r) ~> (~Due(r) \/ disp[r] = "skipped_exhausted")
=============================================================================
