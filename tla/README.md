# A TLA+ model of algovault-bot

algovault-bot is a Telegram bot that watches markets for its subscribers. A
subscriber adds *watches* (asset, timeframe, alert type); a timer looks at each
watch once per bar through the signal-MCP server and pushes what changed. A
*standing scan* does the same for the most active assets. A free chat has a
monthly and a daily allowance; a chat linked to a paid plan is metered by
signal-MCP instead. Everything is kept in one SQLite file, which several
processes write.

The modules here model the parts of the program that decide *what is delivered,
how often, on whose account, and what is remembered of it*. TLC checks them on
small instances; TLAPS proves the most important of their properties for every
value of the constants. Paths below are relative to the repository's
`src/algovault_bot/`.

## 1. The system

### Processes and shared state

| process | started by | what it does |
|---|---|---|
| service (`bot.py`) | systemd | long polling, one update at a time: commands, dialogues, answers on demand, /start |
| engine (`alert_engine.py`) | systemd timer, every minute, oneshot | one tick over the due watches, then the scan digests |
| entitlement drain (`entitlement_drain.py`) | cron | ladder, plan debits, plan mirrors, link validation, wall follow-ups |
| referral drain, digest, showcase, nudge sweep | cron, without a lock | notifications and broadcasts |
| auditor (`dispatch_audit.py`) | timer | reads what the engine recorded and pages the operator |

The processes share the database and nothing else, but for the file of the
saturation detector. Connections are in autocommit, so each statement is atomic
and nothing spans two of them unless the code opens a transaction (the ladder
refresh, the rebuild of `scan_watches`). Inside the engine the chats of a tick run
concurrently (asyncio) and the rows of one chat one after another. This is why a
step of the models is one statement, one request, or one send.

### Components

For each: the state it keeps; its operations; what is hard; what makes it
correct. Section 2 says which module models it, `PROJECT.json` how much of it.

**Free meter** (`quota.py`, `db.py`). *State*: on each `subscribers` row the
monthly count, the window's start and its stamped allowance, the bonus pool, the
day key and the daily count; the mirror of the published ladder. *Operations*:
`get_quota_state` (reads, and rolls an expired window), `evaluate_delivery`,
`consume_quota_atomic`, `upsert_free_tier_ladder`, `grant_referral_bonus`. *Hard*:
decision and charge are separate statements of two processes; the roll acts on a
row read earlier; the ladder moves under open windows. *Correct if*: every
delivered unit is counted once, a chat passes its allowance by no more than was in
flight, an open window keeps its start and what it was opened under.

**Ladder client** (`ladder_client.py`, `plan_ladder.py`). *State*: none but the
mirror. *Hard*: two surfaces publish two figures each, and a stale mirror gives
way to a pinned pair. *Correct if*: nobody is metered by half of one pair and half
of another.

**Fetch budget** (`fetch_budget.py`). *State*: the detector's file. *Operations*:
`schedule`, `update_saturation_state`. *Hard*: round-robin, priorities and a budget
at once; a count kept across processes that may die between any two of its steps.
*Correct if*: the loop selects what its documentation says, and pressure is
alerted.

**Watch dispatch** (`alert_engine.py`, `dispatch_schedule.py`, `db.py`). *State*:
the `watchlists` row: stamp of its last fetch, last verdict and streak, the regime
last alerted, the count of failed attempts; per tick the dispositions and the
deadline. *Operations*: `run_cycle`, `process_one_row`, `update_watch_after_fetch`,
`record_fetch_failure`; the service adds and removes rows. *Hard*: retries within a
bar, one lane of two failing, faults between a send and its stamp, edits under a
running tick, deferral. *Correct if*: a bar is counted once, an alert repeats only
after a fault, no row is dropped in silence, each row is serviced in the end.

**MCP client** (`mcp_client.py`). *State*: a session at signal-MCP, its id here.
*Hard*: three requests, each of which may fail in several ways, not all of which
callers expect. *Correct if*: no session is left behind.

**Dispatch ledger and auditor** (`db.py`, `alert_engine.py`, `dispatch_audit.py`).
*State*: `dispatch_ledger`, one event per row, bucket and disposition. *Operations*:
the flush at the end of a tick, pruning; `classify_row`, the verdict. *Hard*: it
judges the past by the settings, rows and deploys of the present; events of a
bucket are merged; a tick may die before its flush. *Correct if*: what waits by
design does not page, what is dark or doubled does.

**Plan debit outbox** (`quota.py`, `db.py`, `entitlement_drain.py`,
`entitlement_client.py`). *State*: `alerts_fired`, `entitlement_outbox`, at
signal-MCP the ledger of idempotency keys. *Operations*: the recorders
(`record_call_delivered` and its siblings), `drain_entitlement_debits`. *Hard*: lost
requests and answers, passes that overlap, a crash between a delivery, its meter
and its debit, a link that changes. *Correct if*: a delivery is on exactly one
meter, is charged at most once, and what is recorded of it is true.

**Link lifecycle** (`entitlement_drain.py`, `link_validator.py`, `db.py`,
`handlers.py`). *State*: per linked chat its key, the streak of INVALID answers and
its start, the notice. *Operations*: `link_subscriber`, the validation pass, notice,
`unlink_subscriber`. *Hard*: the answer of a faulty server looks like an answer
about the key; a pass judges on a snapshot. *Correct if*: a paying chat survives
any fault and an ended link ends after its grace.

**Plan wall, refusal notices and follow-ups** (`quota.py`, `notices.py`, `db.py`,
`entitlement_drain.py`). *State*: the `plan_*` columns, a copy of what signal-MCP
last said of the plan; three stamps; the notice ledger. *Operations*:
`evaluate_delivery`, `refuse_and_notify`, `update_plan_mirror`,
`wall_followup_pass`. *Hard*: four kinds of walls, three stamps, sends before
stamps, midnight, and a follow-up that must be neither the first word nor a late
one. *Correct if*: who is refused was told, and once.

**Scan digests** (`alert_engine.py`, `scan_digest.py`, `db.py`). *State*: per
`scan_watches` row the bucket last served and the signature last sent.
*Operations*: one scan per group of equal parameters, then a send for each member.
*Hard*: a refused digest moves the one and not the other; edits fall between the
snapshot and the send. *Correct if*: a set is sent once per change, and charged
call by call.

**Database schema** (`db.py`). *State*: the tables and columns. *Operations*:
`_init_schema` at every start, `_migrate_scan_watches_rank_by`. *Hard*: every
process runs it, any of them may be cut off, and the service of the release before
may still write. *Correct if*: no row is lost, and every start succeeds in the end.

**Command handlers, pull lanes, wizards and keyboards** (`handlers.py`, `batch.py`,
`validators.py`, `asset_universe.py`, `reply.py`, `wizard.py`, `keyboards.py`).
*State*: the lists in the database; in memory the step of each dialogue, the pick,
the batches that wait for a confirmation. *Hard*: three memories with three
different keys, buttons that outlive what they were for, a restart that forgets
all. *Correct if*: a list is what its chat was told, an answer is paid for.

**Broadcasts, nudges and referral** (`broadcast.py`, `adoption.py`, `referral*.py`,
the cron scripts). *State*: `tg_broadcasts`, the block mark and the nudge stamp of a
chat, the bonus pool; at the engine attributions and notifications. *Hard*: cron
starts processes beside each other; records follow sends; two systems hold one
referral. *Correct if*: nothing arrives twice, nothing is written off unseen, a
referral is granted once, who comes back is reached again.

The rest keeps no state that the others read: rendering, operator reports, the
capabilities projection, the process shell, hooks and checks.

### Hazards

`PROJECT.json` lists what in this code is hard to test, each at its line, with the
properties that watch it.

## 2. The modules

| module | models | built on |
|---|---|---|
| `FreeMeter` | the arithmetic of `quota.py` and of the metering statements in `db.py` | operators only |
| `QuotaMeter` | the processes that read, roll, decide and charge | extends `FreeMeter` |
| `FetchBudget` | `fetch_budget.schedule`, by the set it selects | operators only |
| `FetchSchedule` | `fetch_budget.schedule`, as the loop it is | extends `FetchBudget` |
| `McpSession` | `McpClient` as a `with` block | |
| `Saturation` | `update_saturation_state` | operators only |
| `EngineTick` | one process of the engine after another: loop, session, detector | extends `FetchSchedule`, instantiates `McpSession`, `Saturation` |
| `WatchDispatch` | `run_cycle`, `process_one_row`, the watchlist row | extends `FetchBudget` |
| `DispatchAudit` | the flush, the ledger, the auditor's classification | |
| `DebitLedger` | what the paid lane promises of a debit | abstract |
| `DebitOutbox` | recorders, outbox, drain passes, signal-MCP | implements `DebitLedger` |
| `LinkLifecycle` | a link, from /start to its teardown | |
| `WallNotice` | walls, their notices and follow-ups | |
| `ScanDigest` | subscriptions, passes, sends and charges of standing scans | |
| `SchemaUpgrade` | the start of a process on a database of any release | |
| `ScanService` | both: an upgrade, then the service of what it left | extends `ScanDigest`, instantiates `SchemaUpgrade` |
| `Requests` | commands, dialogues, confirmations, answers on demand | |
| `Outreach` | broadcasts, nudges, notifications, /start | |
| `...Proofs` | theorems about the module they are named after; `ScanServiceProofs` also those about `ScanDigest` and `SchemaUpgrade`, `EngineTickProofs` those about `FetchSchedule` and `DispatchAudit`, `WallNoticeProofs` those about `Requests` | extend it and `TLAPS` |
| `MC...` | instances for TLC | extend it |

A definition named after a mistake (`GivesUpLate`, `StampDailyAsMonthly`, ...)
stands before the definition it is a variant of. Put in its place it makes one of
the properties fail; `PROJECT.json` says which.

### FreeMeter and QuotaMeter

State: `meter[c]` is the metering part of the `subscribers` row, `mirror` the
`free_tier_ladder` row, `now` the day. A *worker* is a thread of control of either
process; `pc[w]` and `job[w]` are its place in the code and its locals.

| action | code |
|---|---|
| `Evaluate`, `Consume` | entry of `get_quota_state` from `evaluate_delivery` and from `consume_quota`; reads the ladder |
| `ReadRow` | `get_subscriber` and the state computed from it |
| `RollWindow` | the unguarded UPDATE that clears a window found expired |
| `Withhold`, `Deliver` | nothing is delivered after all; `n` items are |
| `Charge` | `consume_quota_atomic`, one item, one UPDATE |
| `RefreshLadder` | the pair chosen of what was published; `upsert_free_tier_ladder`: stamps open windows, then moves the mirror, in one transaction |
| `GrantBonus` | `grant_referral_bonus` |
| `Crash` | the process dies between two statements |

A day is the unit of time, so the rolling window, the calendar day and the age of
the mirror share a clock. Prices are left out. Chats are free chats: a paid chat's
meter does not move. A row whose window was opened before the column for the
stamped allowance existed is an initial state. The counts of what was charged,
retired, lost and granted are history that no action reads, except in the bounds.

### FetchBudget, FetchSchedule, McpSession, Saturation and EngineTick

`FetchSchedule` keeps the loop: a queue per subscriber, the turn, whether the round
made progress. `FetchBudget` states which rows come out: by round, then by the
order in which subscribers first appear. `EngineTick` runs the loop and
`WatchDispatch` uses the closed form; `SelectsScheduled` is what allows it to. The
stable sorts of the code are stated by rank (`InOrder`: the i-th is the one that
i - 1 others come before).

`EngineTick` is the process around them, over and over: `StartTick` (the timer, the
due rows), `Scheduling`, `EnterSession`, then the session's actions
(`SessionOpens`, `SessionRefused`, `SessionRaises`, `SessionLeft`, each an action of
`McpSession` with what `run_cycle` or `process_scan_digests` makes of it), then
`Record`, `Write` or `NotWritten`, `Alert`, and the session of the scan digests.
`Killed` and `ServerRestarts` come anywhere. A failed answer is told from a
transport that fails and from a body that is no JSON, because only some of them are
an `McpError`, and the others end the process before the detector is told. The
file of the detector is truncated before it is written, so a kill there leaves
none.

### WatchDispatch

State: `watch[r]` is the watchlist row (its stamp, `fetched`, is a bar number),
`bar[r]` the bar of the present instant, the rest belongs to the running tick: the
due rows, where each is (`pc`), its locals (`job`), its disposition, the deadline.
`run`, `alerted`, `repeats` and `calls` are history.

| action | code |
|---|---|
| `StartTick`, `EmptyTick` | `list_due_watches`, the quota walls, `schedule` |
| `Begin`, `DeferLate` | the per-chat loop with its look at the deadline |
| `RegimeKnown`, `RegimeAlert`, `RegimeEmpty`, `RegimeFails` | the regime lane and its ends |
| `CallSilent`, `CallAlert`, `CallFails` | the trade-call lane |
| `StampServiced` | `update_watch_after_fetch` |
| `StampFailure` | `record_fetch_failure`: retry, give up, or the row is gone |
| `EndTick` | the tick's account |
| `Deadline`, `Fault` | the wall clock; a client that fails, an exception other than `McpError`, a send that is not sure, a kill |
| `NewBar`, `AddWatch`, `RemoveWatch` | the clock and the service |

Ticks do not overlap: the engine is a oneshot unit (`alert_engine.py:758`). A
lane's fetch and its push are one action; the semaphore that limits requests in
flight is dropped, as any interleaving it allows is one the model has. Whether a
chat is served is decided anew in each tick by the environment (`QuotaMeter` says
when it may be). Bars are counted per row; at most one begins under a tick, because
a tick is cut off before the shortest bar is over, and at least `TicksPerBar` ticks
begin in a bar. Under `Deadline` every chat has begun its first row; an earlier
deadline is the fault "slow start".

### DispatchAudit

A tick is one step here (`RunCycle`), in which every due row meets one fate; the
`Flush` that follows writes the events, or fails, and prunes. Time is counted in
fractions of a tick, so that a stamp may fall behind a bar's end. The auditor is a
state function: `Classify(r)` is `classify_row` in its order (`Integrity`,
`Determinism`, `Unjudged`, `Unacted`, `Unserved`, `JudgedService`), `Verdict` is
`audit`. `Rewind`, `Readd`, `Retune`, `Wall`, `Relieve`, `Dark` are the world. What
is by design and what is not is kept in `did` and `seen`, which the auditor does
not read. It goes by the shift of the last event it has of a row, and by the
settings if it has none, so `DarkBarIsSeen` is about rows whose retries are over by
either (`Overdue`). The deploy record is left out: the record's first event is the
provenance.

A row may be on any timeframe that divides the hour or is a multiple of it, which all
of `PUSH_TIMEFRAMES` do; its shift is a part of its own bar. The auditor compares the
last `RealignBars` bars of the row, so a change of settings is over for each row in its
own time (`settled`, `Over`): the properties speak of a row from then on, and section 6
says what the auditor does before. `Start` only gives the clock a past, so that the
first buckets are not negative.

### DebitLedger and DebitOutbox

State: `link`, `fired` (`alerts_fired`), `outbox` (`entitlement_outbox`), a record
per recorder and per drain pass, `valid` and `ledger` at signal-MCP.

| action | code |
|---|---|
| `Deliver`, `Meter`, `Enqueue` | the recorder's three statements |
| `StartPass` | `pending_entitlement_debits`: one SELECT, joined with the linked key |
| `SkipUnlinked`, `Abandon` | settled without a request |
| `Consume` | `entitlement_client.consume`; the request or the answer may be lost |
| `SettleCharged`, `SettleRefused`, `SettleInvalid` | stamped, and the plan mirror refreshed where the code does |
| `Retry` | `bump_entitlement_debit_attempt` |
| `Link`, `Unlink`, `Revoke`, `Crash` | the world |

signal-MCP is external: `Serve` models it from the answers the client distinguishes
and the idempotency the drain relies on. A chat is on a paid tier exactly when it
holds a key; the look at the link and the INSERT that follows are one action, and
so are a stamp and the refresh of the mirror; a request the bot gave up on is
handled before it asks again; a recorder whose statement raises (the code logs and
goes on) ends like one that crashed; the free meter is a set of deliveries.
`DebitLedger` is what is left when all this is forgotten: owed, charged, confirmed,
written off. The refinement holds for one pass at a time; with two, see section 6.

### LinkLifecycle

State: per chat `link`, `streak`, `age` (of the streak's start); `pass`, a snapshot
of keys to ask about and the answers to judge; `server` (up, down, or denying every
key) and `standing` of each key, which the environment moves at will; `blocked`, the
chats marked as unreachable.

| action | code |
|---|---|
| `Link` | `handle_link` with `validate_api_key`; `link_subscriber` |
| `StartPass`, `Validate` | `paid_linked_chat_ids`; one request per key |
| `Hold`, `EndStreak`, `Advance` | the branches of `_apply_link_observation` |
| `Notify`, `TearDown` | `_send_downgrade_notice`, `unlink_subscriber` |
| `Mark`, `Unmark` | `mark_subscriber_blocked`, the plain /start that clears the mark |
| `Tick`, `Turn`, `Move`, `Crash` | time, the server, Stripe, the process |

A positive answer stands for DUNNING too. A pass leaves out the chats that are marked
(`db.py:1874`), so `ExhaustedLinkEnds` speaks of chats that are reachable from some
point on; see section 6. The streak is counted up to its limit and
its age up to the grace. Passes do not overlap.

### WallNotice

State of one chat: `window`, `spent`, `dayout` of the free meter, `mirror` of the
plan, the three `stamps`, the notice `ledger`, a notice (`wall`) under way and, for
each of the drain's passes that may overlap, a follow-up (`touch`). `Limit`, `Episode` and `NoticeDue` are the decision,
`Refuse`, `SendWall`, `Stamp` are `refuse_and_notify`, `PickTouch`, `SendTouch`,
`RecordSent`, `Supersede` are `wall_followup_pass`. Deliveries, ladders and answers
are abstracted to what they do to the walls (`Open`, `Spend`, `Relieve`, `Mirror`).
What a pass reads to decide on a follow-up it reads in one step: the window an
overlap needs is that between `has_notice` and `record_notice`, with the send in it.
A day is the unit of time. The cap on follow-ups in one pass is left out.

### ScanDigest, SchemaUpgrade and ScanService

`ScanDigest`: `subs` is `scan_watches`, `pass` the snapshot and the group being
served. `StartPass`, `Scan` or `ScanFails` per group, then per member `Quiet`,
`Refuse`, `Unchanged`, or `Push`, `Record` call by call, `MarkSent`; `EndPass`. A
signature is the set of calls itself. The bar of a lens turns at any time.

`SchemaUpgrade`: `schema`, `columns` and `rows` are the database; each process
executes the additive statements one by one, looks at the shape of `scan_watches`,
counts, recreates (one transaction, hence one step) and adds the signature column,
and may be stopped anywhere (`Stop`). The database it finds is of any release, and
the users' commands go on. Three groups of additive statements stand for all: one
that meets an older table, one that is new, one that needs the one before.

`ScanService` is both in sequence: `Upgrading` until all are up, `HandOver` of the
table that came out, `Passing`.

### Requests

State: the lists `rows` and `scans`; per *seat* (a chat and the user who writes in
it) the step of each dialogue, as the conversation handler keys it; per user the
pick, as `ctx.user_data` keys it; per token the batch that waits; the request on
demand under way. The service handles one update at a time (`bot.py`), so a handler
is one action, save for the pulls, which are `Ask`, `Charge`, `Reply` beside the
engine's `OthersSpend`. The dialogues are `Enter...`, `Pick...`, `Back...`, `Cancel...`,
`Finish...`, with edits that may fail; confirmations are `AskBatch` and `TapBatch`.
`want` keeps what each chat was told it has. Symbols are valid or not; an exchange
and an alert type have one value.

### Outreach

State: the flags of `subscribers`, `tg_broadcasts` (`fired`), the engine's
attributions and notifications; `work[w]`, a cron process; `start`, the /start being
handled. A process begins a broadcast, a sweep or a drain, and goes chat by chat
through `Sent`, `Retry`, `Fails`, `Unanswered`, `Forbidden`, then records what it
did. /start is `Attribute`, `Grant`, `Greet`, `Welcome` and the nudge. `TapNudge` is a
tap on the nudge's button, by the user it was sent to or by a member of the group it
was sent to (`Groups`): the watch and the stamp are the tapping user's (`Requests` has the
watch as `OneTapWatch`). A refusal the engine meets and the mark it then sets are one
step (`EngineForbidden`): `StartMakesReachable` leaves a /start between the two out, as it
does for the processes here, where they are two steps. `reached` and
`twice` are what arrived; `excused` names the pairs for which a second arrival was
made possible by one of the faults that `NotTwice` excepts.

## 3. The runs

| run | instance | shows |
|---|---|---|
| `quota_meter` | 1 chat, 2 workers, 2 items a decision, 2 days, 9 charges, three publications of the ladder, a grant | conservation, an honest daily count, one published pair behind each decision, overshoot bounded by what is in flight, no window restarted, no allowance taken back |
| `engine_tick` | 6 rows of 3 chats, budget 3, 6 minutes, 2 faults; an alert for 3 ticks in a run or 2 bursts in 4 minutes | the loop selects the rows of the closed form, pressure is said, no session is left |
| `watch_dispatch` | 1 row, 3 bars, 2 attempts, 2 regimes, one fault of any kind, two edits | streaks count bars, alerts repeat only after faults, calls per bar bounded |
| `dispatch_shared` | 3 rows of 2 chats, budget 2, one fault, fair | every due row is accounted for, and settles |
| `debit_outbox` | 2 deliveries, 2 overlapping passes, a crash, a change of link | charged at most once |
| `debit_ledger` | 2 deliveries, 2 keys, batch of 1, one pass, fair | refines `DebitLedger`, true outcomes, one meter, a key that was left charged no more than a batch, every debit settles |
| `link_lifecycle` | 2 chats, 2 keys, 2 links, grace 1, 2 observations, a crash, fair | a paying chat holds its link against any fault of the server, is told once, the ended link of a reachable chat ends |
| `wall_notice` | 1 chat, window of 6 of 9 days, follow-ups after 1 and 2, 3 changes of link, 2 passes of the drain, an overlap, a crash | no notice twice but for crashes and overlapping passes, no wall silenced but by its stamps, follow-ups follow |
| `scan_digest` | 2 processes, 2 chats, 2 ranks, a stop, 2 edits, a fault | the upgrade keeps the scans and comes up; no repeat, signatures are what was sent, charged call by call |
| `dispatch_audit` | a row of half an hour and one of two hours, 2 settings, 5 hours and a quarter of which 3 and a tick are kept, 2 troubles, the first in 2 hours and a half | designed waits do not page, dark and doubled bars are seen |
| `requests` | 1 user in private and in a group, 2 coins, 2 timeframes, 1 confirmation | lists are what was asked for, answers are paid for |
| `outreach` | 2 chats, one a group, 1 event, 1 notification, 2 processes, 2 attempts a send | nothing twice, no stamp unearned but a member's for the group's nudge, bonus and reachability |

Why the bounds are enough to meet the cases.

* `quota_meter`: the window ends with the day it opened on, so a day boundary
  expires it, and two workers suffice for one to roll on what it read before the
  other did. Nine charges are more than the overshoot bound admits (8 for the
  month, after a grant), so it does not hold for want of charges.
* `engine_tick`: six rows are twice the budget, of three chats with three, two and
  one, so that rounds, priorities and the cut inside a round all occur. Six minutes
  hold a run of pressure, a pause, and a second burst inside the window of the
  detector, or just outside.
* `watch_dispatch`: an alert needs two bars, and a repeat or a wrong count a third;
  two edits let a row be removed and added again under one tick. The histories hold
  more than the bounds allow before they stop counting. `dispatch_shared` has one
  row more than its budget and two rows of one chat, so that rows are deferred by
  the budget and by the deadline, and a chat waits for another.
* `debit_outbox`: two deliveries, two attempts and two passes contain each pair of
  request, loss and retry. Rows of the outbox interact only through the batch,
  which `debit_ledger` cuts to one row.
* `link_lifecycle`: two chats may share a key or vouch for each other; the grace and
  the observations are the least that differ from "at once"; the user of one of them
  may block the bot and come back.
* `wall_notice`: a window that outlasts both follow-ups twice over, so that a
  sequence that starts again ends in it, and days for a second window to open. A
  free chat is followed for eight days and one that has linked a key for five (the
  paid walls have no window); beyond that, only one that comes back from a plan to
  a window opened on the fourth day, without daily walls (`Bounded`, `Returns`):
  this is the way on which one crash costs the most. A behaviour in which passes have
  overlapped is followed for five days of a free chat, in which both follow-ups fall.
  The theorems of section 5 hold without these bounds.
* `scan_digest`: two chats in a group and one table for two starts are where
  interleavings begin. Two edits remove and add a subscription under a pass.
* `dispatch_audit`: the run is of five hours and a quarter, of which
  the ledger keeps three and a tick, so that events are pruned under the auditor's eyes;
  the bars that are compared are two, as in the code, and the attempts two, which the
  shorter row's bar just holds. One row's bars are shorter than the hour and the other's
  longer; the longer one is due at the bar's opening by one setting, and by the other
  after the hour in which it is judged. Two troubles combine any two of the causes the
  auditor must tell apart; the first comes by the opening of the slow row's second bar
  (`Bounded`), after which the time left would hide what an earlier one shows.
* `requests` and `outreach` follow a behaviour to the first of the exceptions their
  properties name (`NoException`, `Bounded`). `outreach` moreover lets one kind of
  process work at a time, beside /start if it is a sweep: other kinds write
  different columns, and the theorems of section 5 hold without this bound.

`CHECK_DEADLOCK FALSE` is used where the model ends: `engine_tick` and
`dispatch_audit` at the end of their time, `scan_digest` when the last scan has
been taken back.

Each module has a `TypeOK` (`LoopTypeOK`, `TickTypeOK`, `ServiceTypeOK`, ... where two
are extended together) that documents the shape of its state. It is a theorem
for `QuotaMeter`, `DebitOutbox`, `WallNotice`, `WatchDispatch` and `Requests`; the runs list
only what could be wrong.

## 4. Fairness

* `WatchDispatch!FairSpec`: weak fairness of `TickStep`. The timer fires every
  minute, and a tick that has begun goes on. Nothing is assumed of outcomes: an
  attempt may fail each time, a send may stay silent, faults and edits are bounded
  by `MaxFaults` and `MaxEdits`. `DueRowSettles` rests on the retry limit and on
  bars that hold enough ticks for the load; under a permanent overload rows of
  short timeframes do wait for ever, by the priority rule.
* `DebitOutbox!FairSpec`: weak fairness of each pass's steps. Cron starts passes for
  ever and a pass that has begun goes on. Nothing is assumed of signal-MCP's
  answers; `EveryDebitSettles` rests on the attempt limit.
* `LinkLifecycle!FairSpec`: weak fairness of the drain and of time. Of signal-MCP:
  while a chat waits to be asked about, the server is up again and again, and
  questions that are asked again and again while it is up get asked
  (strong fairness of both, per chat). Without it the code, by design, holds a link
  for ever.
* `ScanService!ServiceSpec`: weak fairness of each process's opening of the
  database. systemd and cron start it again after a stop, of which there are
  `MaxStops`.

The other specifications have no fairness, and no liveness is claimed of them.

## 5. The proofs

All theorems hold for every value of the constants that the modules' assumptions
admit. The assumptions say that bounds are natural numbers, that limits the code
holds positive are positive (a window, an offset, an attempt), that there is a
process and a follow-up, that sets the code enumerates are finite where something
is counted, that a tick is no longer than what the dispatch ledger keeps and a stamp
is written within one, that bars are of whole ticks and divide the hour or are multiples of it, and that `NULL` (`None`) is none of the values it stands
beside. `CadenceAssumption` of `DispatchAudit` says what the code gives its constants:
a tick is two units of the clock or more, attempts and bars to compare are two or more,
attempts end within the bar (`PUSH_TIMEFRAMES` has no bar of one minute, and three
attempts fill one of three), and the shift of a row stays a tick short of its bar and an
hour: the offset is at most 99 % of the bar and the grace 59 minutes
(`dispatch_schedule.py:105`), and there is jitter only as far as it, the offset, the grace
and a tick fit in the bar (`dispatch_schedule.py:128`). Two theorems
are about one pass at a time (`OnePass`: any two members of `Drains` are one), as
section 6 shows they must; nothing is assumed of a behaviour but its specification.
Two proof modules hold the theorems of two specifications that share nothing.

| module | theorem | property |
|---|---|---|
| `QuotaMeterProofs` | `TypeCorrect` | `TypeOK` |
| | `ChargesConserved` | `ChargesAccountedFor` |
| | `DayCountSound` | `DayCountNeverOverstated` |
| | `WindowStartSound` | `WindowNeverRestarted` |
| | `LadderSound` | `OnePublishedLadder` |
| | `RefreshSound` | `RefreshNeverClawsBack` |
| | `OvershootSound` | `OvershootBounded` |
| `DebitOutboxProofs` | `TypeCorrect` | `TypeOK` |
| | `ChargedAtMostOnce` | `DebitedAtMostOnce` |
| | `ConfirmedWasCharged` | the first half of `OutcomeIsTrue`, for passes that overlap |
| | `OutcomesTrue` | `OutcomeIsTrue`, of one pass at a time |
| | `OutboxKeepsLedger` | `KeepsLedger` (the refinement), of one pass at a time |
| | `OneMeterBut` | `OneMeterBarringFaults` |
| | `StrayChargesBounded` | `StrayBounded` |
| `LinkLifecycleProofs` | `PayingStreakIsHeld` | `PayingStreakHeld` |
| | `IsToldOnce` | `ToldOncePerLapse` |
| `WallNoticeProofs` | `TypeCorrect` | `TypeOK` |
| | `ToldOnce` | `NothingTwice` |
| | `SilenceIsStamped` | `SilencedByStampsOnly` |
| | `FollowUpsFollow` | `FollowsTheWall` |
| | `RequestsTyped` | `ServiceTypeOK` |
| | `ListsAreKept` | `ListIsWhatWasAsked` |
| | `AnswersArePaid` | `AnswerIsPaid` |
| `ScanServiceProofs` | `UpgradeLosesNothing` | `UpgradeKeeps`, of the starts alone |
| | `UpgradeIsSafe` | `UpgradeKeeps` |
| | `RepeatsCostFaults` | `NoRepeat` |
| | `SignaturesAreSent` | `SigIsWhatWasSent` |
| | `DigestsAreCharged` | `ChargedAsSent` |
| `EngineTickProofs` | `SessionsAreClosed` | `NoSessionLeft` |
| | `PressureNeverUnsaid` | `PressureIsSaid` |
| | `LoopSelectsScheduled` | `SelectsScheduled` |
| | `TwiceServiceIsSeen` | `TwiceIsSeen` |
| | `DarkBarsAreSeen` | `DarkBarIsSeen` |
| | `DesignPagesNobody` | `DesignNeverPages` |
| `WatchDispatchProofs` | `DispatchIsTyped` | `TypeOK` |
| | `StreaksAreBars` | `StreakCountsBars` |
| | `RepeatsNeedFaults` | `RepeatsOnlyAfterFaults` |
| | `CallsAreAttempts` | `CallsPerBarBounded` |
| | `AccountIsComplete` | `AccountComplete` |
| `OutreachProofs` | `BonusFollowsTheEngine` | `BonusIsTheEngines` |
| | `StartIsReachable` | `StartMakesReachable` |
| | `StampIsEarned` | `StampedWasTold` |
| | `NothingArrivesTwice` | `NotTwice` |

How the arguments go.

**Free meter.** `TypeOK` is not inductive: a `Charge` subtracts from `job.left`,
which could leave the naturals if a worker could reach a charge with nothing left.
`JobInv` rules this out (whoever is about to meter came from a delivery and has an
item left), and `Inv == TypeOK /\ JobInv` is inductive (`InvNext`, one step per
action; `WorkerMove` does what all worker steps share). Conservation rests on
`ChargeConserves`: a charge of one unit moves `alert_count - bonus` by exactly one
whatever the boundary of the allowance, the pool and the interleaving.
`ChargesAccountedFor` and `DayCountNeverOverstated` are inductive given `Inv`.
`LadderInv` adds that the mirror holds a published pair. The two action properties
follow from `Inv` action by action (`WindowStartKept`: only `Charge`, which
coalesces, and a roll, which clears, touch the start; `OpenWindowKept`: the stamp is
what the mirror held).

The overshoot is a count over workers. `Pending(c)` counts the units that the
workers may still charge on decisions they have made: `MaxItems` for a decision to
serve, what is left for one that is charging. `PaceInv`: without a bonus, the count
and what is pending fit above a published figure; while there is a bonus, which
decides whatever is charged, the count alone does. A decision adds at most
`MaxItems` to what is pending, when the count is below the figure; a charge moves
one unit from pending to the count; a grant opens one more round.

**Outbox.** `Sound` is `TypeOK` with where recorders are (`Recording`) and what
passes read (`Reading`: a batch holds rows of the outbox, in order). `LedgerInv`
ties a charge made to the idempotency key being in signal-MCP's ledger; no step but
`Consume` makes one, and it looks there first; a row stamped without an error had
such an answer. For one pass at a time `Exclusive` adds that what the pass holds is
not settled and that what it was refused was not charged, which makes every outcome
true, and every step one of `DebitLedger` or a stutter (`LedgerStep`). With two
passes `Exclusive` is false, and so is what rests on it.

The two bounds are potentials, as in the meter. `Doubtful` are the deliveries that
are metered and are not, or will not be once their recorder gets there, on one
meter: a crash makes one, a change of a link those the recorders are at.
`Astray` are the places in the batches under way whose chat has another key by now:
a change of a link makes at most all of them stray, and a charge to a stray key
uses one up; places are counted from the end of a batch, so that they keep their
number as the pass goes on.

**Links.** `Truthful` says of the answers a pass has gathered: a paying key is never
exhausted, and in a pass that no fault divided a denial of it comes from a server
that denies every key, so that nothing in the pass corroborates it and the judgement
holds the streak. The proof follows the order in which a pass asks and judges
(`Stage`). `ToldInv` counts notices against lapses and crashes.

**Walls.** `Chronology`, `WallSound` and `TouchSound` say what a notice and a
follow-up under way know: the notice's episode is not stamped yet, and no later one
has moved in under it; the follow-up is the latest of those due, and those before it
are due or on the ledger. `NothingTwice` is then a potential: `LooseWalls` are the
episodes that were announced, are not stamped and are not about to be, `LooseTouches`
the follow-ups that are not on the ledger and are not about to be although they, or a
later one, were sent. Nothing is said again unless it is loose; saying it makes it
fast; only a crash loosens something, one episode or the follow-ups of one window.
Of the passes that are about to send, one may send something new or something loose
(`Covered`); each of the others, which began while another was under way, may repeat
it and is counted beforehand (`Waits`). A pass that loses its cover loses it to one
that has sent what it would have sent, and so paid for it. This gives
`SequenceCost`, as many messages as there are follow-ups for each crash, and one for
each overlap.
That it is one message (`MessageCost`) while the chat has not come back from a plan
needs `FirstStay`: the stamp from which the follow-ups of a window are counted does
not move, so that what was due stays due, the next one sent is the last of the loose
ones, and all of them become fast at once. There a crash is counted by
windows, not by touches (`LooseWindows`). `ToldFirst` relates stamps to what was
announced for a chat on its first allowance, and gives the other two properties.

**Upgrade and scans.** The upgrade's invariant says which statements and columns are
in effect at each place of a start (`Progress`, `ColumnsAreThere`) and that one start
at a time works on the old table (`OneMigrates`), unless two have met there (`met`),
when nothing more is claimed. `UpgradeIsSafe` carries it through the handover.
`Shape` ties the digest on its way to the group being served; `SigInv` adds that it
was told as found, which is what makes the mark that follows it true;
`ChargedAsSent` is inductive given `Shape`. For `NoRepeat` a subscription is
*exposed* when what its chat was told last differs from the signature it will be
compared with. Only a fault exposes one and a repeat covers it, so that repeats and
exposed subscriptions together do not outnumber the faults (`Covered`).

**Ticks.** `SessionInv` says at each place of the process who holds which session:
`McpSession` alone cannot know that the block is left before the process ends. For
`PressureIsSaid`, `Tells` compares the state in the file with the history of
outcomes since the last alert: the state knows of the run and of every burst, or is
one tick from an alert, and stops short of one; it is kept by `Updated`, whether the
write succeeds or not, since a write that fails leaves a state that alerts again.

For `SelectsScheduled`, `LoopInv` says what the loop has done by the time it is some
subscriber's turn in some round *k*: those whose turn is over have given *k* + 1 rows
and the others *k* (`Given`), as long as they had them; the rows taken are exactly
those of a lower rank in their subscriber's queue (`Taken`), and a queue holds the
rest in order (`Rest`). The order of turns is strict, so the rows taken are closed
under `TakenBefore`; a closed set of as many rows as the budget, or of all of them,
is the closed form. That a list made by rank holds each member of its set once, in
order, is the general lemma `Listed`.

**Dispatch.** `LocalStep` says what any step does to one row, the others left out:
it rests, leaves the tick, is picked, works, hears a regime, is stored, or is edited.
The four invariants are then per row. `Counts`: a row that is not being retried has
met no bar later than its stamp, so the bar of the next attempt is new to it, and a
retry does not count. `Debt`: a row that owes an alert (the user was told of a regime
that neither the row nor the attempt remembers) has a fault to its name that no
repetition has used up. `Attempts`: the calls of an open bar are at most the counted
failures, the faults and the one the attempt in hand may have sent; nothing has rung
for a bar to come. `Accounted`: a row in hand is due.

**Outreach.** `WorkSane` bounds where a process can be by what kind it is; `ToldInv`
says that a message about to be stamped has arrived, and that who took up a group's
nudge has one to take up; `BonusInv` that a grant is
preceded by the engine's record and follows it at most once; `CleanInv` that no
process is about to mark a chat that is clean. `OnceInv`, for `NotTwice`: a message
that arrived and is not excused is on record, or is held by the process about to
record it (`Accounts`); what a process is yet to send has not arrived (`NotYet`);
two processes at one message, or at one chat between look and stamp, are excused
there (`AllApart`). `LocalStep` sums up what an action of a process does to it and to the history.

**Requests.** `PickIsOwn`: what a dialogue has chosen is what the user's pick holds,
unless two dialogues of the user share it (`OneDialogue`), which exempts the user.
`TokensFresh`: a batch that waits is the one that was asked about, and was not
answered. With these every commit adds or removes what was said, and
`ListIsWhatWasAsked` is inductive. `PullIsCharged` says what the request under way is
worth, of which so much is paid and so much due, up to its reply.

**Auditor.** The invariant says what the books hold. No event is of a bar to come;
something was done in the bar of any event of this hour (`BookInv`); the services of
the present bar are all on record, but for the one in the account that is not flushed
yet, unless a flush was lost (`TwiceInv`). The theorems then follow `classify_row`
rule by rule: a bar with two services on record is a STAMP_MISMATCH, if the stamp has
not contradicted the ledger before; a bar with no event is judged neither as served
nor as waiting, and once its retries are over it is MISSED; and one row is enough for
the verdict. The set of rows need not be finite.

`DesignNeverPages` needs an invariant that counts, `DesignInv`, which speaks of a
behaviour as long as nothing unforeseen has happened in it (`seen`). Its parts, for
each row (`DesignRow`):

* `RowInv`, `EventInv`: the stamp is no later than its tick allows; each event lies
  on the grid of the ticks, not before its due time, one of a kind in a bar, and bears
  a stamp if it tells of a service.
* `Orderly`, `Attested`: no event of the watch bears a later stamp than the row, and the
  row's stamp is on one of them, or is older than what the ledger keeps (`Forgotten`).
  So the stamp is neither rewound nor without provenance.
* `Behind`: the stamp is of no later bar than the clock, unless the settings have just
  been changed. So a row is due at every tick from the bar's due time to its service.
* `Reached`: of each bar of the row whose due time has come since the last change there
  is an event of that bar or a later one, or the account has it. `BookInv` says the other
  half: an event with another shift than the present one is of a bar that opened at least
  `Wide` before the change is settled, that is `RealignBars - 1` bars and the longer of a
  bar and the hour. So once it is settled, the shift the auditor takes from the last
  event is the present one, and the bars it compares bear one shift.
* If the hour opens a bar of the row, after its last change was settled: `Once` (a bar is served once,
  and the stamp tells of it), `Failing` (failed fetches of a bar are no more than the
  row has counted, so fewer than the attempts), and `Counted`: the events of an unserved
  bar are one for each tick since it fell due, and no fewer than the attempts once it is
  over; those of a served one are one for each tick before its service; the first came
  with the tick of the due time. `Counted` is not claimed of the bar the behaviour starts
  in, which the auditor never judges: the record began in it.

A tick meets these as of the bar of the hour to come (`FailedBefore`, `ServedOnce`,
`CountedBefore`: a new hour has no events yet), and a flush moves what the account says
to the books (`AtFlush`, `FlushOfBar`). The rules of `classify_row` that page are
then excluded one by one: no double service by `Once`, nothing missing by `Reached` and
`Counted`, and a bar past its retries has, of a single kind of event, as many as there
are attempts, which for failures contradicts `Failing` and for errors makes it ERRORING
(`UnservedIs`); a late service is late by as many ticks as have events (`ServiceIs`). Two
kinds in turn are what `Blended` excepts, and this is the only place where it is used.

Only model-checked: every liveness property (`DueRowSettles`, `EveryDebitSettles`,
`ExhaustedLinkEnds`, `ComesUp`). Liveness under fairness and ENABLED are out of the
prover's reach.

## 6. Seen while modelling

Where the code does something other than a comment, a docstring or a test says, or
than a reader would expect. The properties state what remains true, and name these
as their exceptions.

*Meter, walls and links*

* a window rolled on a stale row wipes a charge made to the next window
  (`quota.py:639`); `ChargesAccountedFor` shows it is the only way a unit is lost.
* the stamp of the monthly wall is shared between the free and the paid allowance,
  so a chat that moves from one wall to the other in one episode is not told.
* a daily wall's notice that spans midnight is stamped with the new day and silences
  it (`quota.py:1215`).
* `count_walled_now` counts chats told at a daily wall as silent, where
  `quota.py:1248` says "it is 0 in a healthy system and any non-zero value is a seam
  defect".
* a crash between a follow-up and its record sends it again, or an earlier one late.
  If a plan's monthly wall comes in between, it moves the stamp that the follow-ups
  are counted from (`quota_100_last_fired_at`, shared by both lanes), and a chat that
  then comes back to the same free window is sent the whole sequence again
  (`entitlement_drain.py:647`). `NothingTwice` allows for as many messages as there
  are follow-ups; with two changes of link, one message per crash is too little.
* nothing keeps two passes of the drain apart, and a follow-up is recorded after it
  was sent (`entitlement_drain.py:709`, `:759`): two passes that overlap both find
  nothing in the ledger and send the same follow-up, without any crash. The comment
  at `db.py:1325` speaks of the ledger as what the cadence is idempotent on; the
  `ON CONFLICT DO NOTHING` hides the second message rather than preventing it.
  `NothingTwice` allows one message for each follow-up picked under another.
* a link made under a pass is judged on the row read before; its new key inherits
  the streak of the old (`db.py:1520`, where the comment at `db.py:1535` has a fresh
  link start clean), and the old key's mirror walls it until the next answer.
* `db.py:1589` says that VALID or INDETERMINATE resets a streak; an indeterminate
  answer holds it.
* a crash between notice and unlink tells a chat of its downgrade twice
  (`entitlement_drain.py:361`), and so would two drains that overlap, which
  `LinkLifecycle` leaves out.
* `paid_linked_chat_ids` leaves out chats marked as unreachable (`db.py:1874`), so that
  the ended link of such a chat stays. A plain /start clears the mark and
  /start auth_<key> does not (`handlers.py:349`, `handle_link`), so the key of a chat
  that comes back by that link is not validated either, though messages reach it.
  `ExhaustedLinkEnds` excepts chats that are marked for ever, or again and again.
* a slow ladder pass that overlaps a later one may put an older publication over the
  newer: `fetched_at` is the pass's start.

*Dispatch*

* a row of type *both* whose regime lane fails is retried whole, so a call that was
  delivered is delivered again, up to three times a bar (`alert_engine.py:724`,
  against `dispatch_schedule.py:250`).
* "counted already" is inferred from the failure count, also when the failed attempt
  learned nothing (`alert_engine.py:501`): a bar is missed by the streak, never
  counted twice.
* an exception other than `McpError` skips the store of what the attempt learned,
  after its alert was sent (`alert_engine.py:575`), and is not counted as an attempt,
  so nothing bounds such attempts within a bar.
* `fetch_fail_streak` is cleared by a stamp only (`db.py:2404`), where `db.py:404`
  says that a retry can never leak into the following bar.
* `McpError` is "raised when the MCP server returns an error or the transport fails",
  yet `_post` lets transport errors and undecodable bodies through: `run_cycle` then
  raises, the detector is not told of the tick, and the scans are skipped. A server
  that restarts under a tick fails every call that is left of it.
* a burst that goes on after its alert is counted again as an episode; the detector's
  state is cleared before the alert is attempted; a file that cannot be written
  alerts again.

*Outbox*

* keys are read once per batch, so a chat relinked under a pass is charged on its old
  key (`entitlement_drain.py:415`); `StrayBounded` says how much.
* a charge whose answer was lost is written off as invalid when the key has ended by
  the retry (`entitlement_drain.py:454`, against `db.py:1784`).
* passes that overlap stamp and bump rows without a guard on `sent_at`
  (`db.py:1763`): a settled row can be settled again with another outcome, and
  `KeepsLedger` fails for two passes. A recorder that dies between its statements
  leaves a delivery on no meter; a link that changes between them on none or both.

*Auditor*

* a change of settings makes it judge the past by the new schedule: skew, missed bars
  and double service are reported for a while (`dispatch_audit.py:458`). How long is
  counted in bars of the row: of a 4h row the offset of which is set from 0 to 75 % at
  05:00, the last event is that of 04:00, by whose shift the 08:00 bar is MISSED at 08:05,
  though it is due at 11:00 (`dispatch_audit.py:480`). Nor are its dark bars seen: a
  change of its shift within the last two of its bars makes it REALIGNING, which has no
  verdict, so that a row beside it decides (`dispatch_audit.py:474`). The properties
  speak of it from `RealignBars` bars (and the longer of a bar and the hour) after the
  bar of the change.
* it judges a bar in the hour that opens it (`dispatch_audit.py:594`). A row whose shift
  and retries exceed the hour is NOT_YET_DUE whenever it is looked at, and is judged by
  its stamp alone: with the offset of 75 % these are the rows of two hours and more.
* a watch that is added again inherits the events of its bucket and stays without
  provenance until it is served; so does a chat walled for longer than the ledger is
  kept (`db.py:440`).
* failures mixed with errors or deferrals in one bucket, past the retries, are
  reported as late without an explanation.
* that what waits by design does not page rests on bars that hold their attempts
  (`CadenceAssumption`). For a shorter bar the auditor allows for failed fetches
  (`dispatch_audit.py:519`) but not for errors: if `PUSH_TIMEFRAMES` (`validators.py:44`)
  admitted one minute, an exception would fill the bar, be one event of three, and page.
* `db.py:466` says "`fired_epoch` keeps the first stamp it was given"; the statement
  keeps the last.
* a service that ends in the next bucket is stamped there and skips that bar
  (`db.py:2235`).

*Scans and schema*

* an engine that dies between a digest and its mark leaves the signature of the one
  before it, so the return of that one is withheld as known.
* two starts that both find the old `scan_watches` (`db.py:805`: the look and the
  count are outside the transaction) both migrate: the second resets ranks and
  signatures and replaces the backup, where the docstring says IDEMPOTENT and BACKED
  UP. A scan added between count and copy fails the start, until the next.

*Requests*

* typed /watch, /scan and /scanwatch are swallowed while a dialogue of their kind is
  open; two chats of one user share a pick.
* in a group, confirmations and menu buttons act on the list of who taps; a
  stranger's tap turns the prompt of who asked into "expired".
* a dialogue that commits for a user without a row fails on the foreign key
  (`db.py:71`) after it said "Added".
* the first-command event is looked for before the row is made, so a chat without a
  row emits it again, against `handlers.py:1193` ("never re-emitted").
* a cancel whose edit fails leaves the dialogue open on an empty pick.

*Outreach*

* `/start auth_<key>` leaves a block mark, where `handlers.py:346` says that /start
  is proof and clears it; so does any other command.
* a bonus whose attribution was recorded and whose answer was lost is never granted.
* an event's identity depends on its text: a digest that runs again on new market
  values is another event, and is sent again. A broadcast that dies is sent again to
  those it had reached; a notification too whose mark failed.
* a notification that reached some of a code's chats is marked delivered; one none of
  whose chats can be reached stays pending for ever, ahead of others in a list of a
  hundred (`referral_client.py:98`).
* two sweeps, or a sweep and the bot, between look and stamp nudge twice.
* a member of a group who taps the button of the group's nudge is stamped as nudged,
  though his own chat never was (`handlers.py:1242`, `1874`); should he drop that watch,
  the sweep passes him over for good.

## 7. Not modelled

`PROJECT.json` marks rendering, operator reports, the capabilities projection, the
process shell and the hooks as not modelled: they keep no state that other parts
read. Of the modelled ones: the parsing of answers and of the ladder, prices, texts
and images; how offset, grace and jitter make a shift (pure functions); the poll
that warms the mirrors of idle chats, and the cap on follow-ups in one pass; thirty
of the thirty-three groups of additive statements, which repeat the three that are
modelled; request ids, headers and event streams; `coverage_nudge`, a line of an
answer; the auditor's options; logging and metrics.

## 8. Running

    tlc -config MCQuotaMeter.cfg MCQuotaMeter
    tlapm QuotaMeterProofs.tla

and likewise for the other configurations (`MCDispatchShared.cfg` is for
`MCWatchDispatch`, `MCDebitLedger.cfg` for `MCDebitOutbox`) and proof modules; each
`.cfg` names its instance in its first lines.
