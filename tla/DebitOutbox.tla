---------------------------- MODULE DebitOutbox ----------------------------
(***************************************************************************)
(* The paid lane's debits.  A recorder (record_call_delivered and its      *)
(* sibling) writes a delivery to alerts_fired, meters it on the free meter *)
(* if the chat is free, and queues a debit in entitlement_outbox if it is  *)
(* linked: three statements, with the process free to die between them and *)
(* the link free to change.  A drain pass reads a batch of pending debits, *)
(* joined with the key each chat is linked to, and asks signal-MCP to      *)
(* charge them one by one.  Passes are started by cron; nothing keeps two  *)
(* from overlapping.                                                       *)
(***************************************************************************)
EXTENDS Integers, Sequences, FiniteSets

CONSTANTS
  NULL,
  Chats,
  Keys,          \* API keys
  Workers,       \* threads of control that record deliveries
  Drains,        \* drain passes that may be under way at once
  BatchLimit,    \* entitlement_drain.BATCH_LIMIT
  MaxAttempts,   \* entitlement_drain.MAX_ATTEMPTS
  MaxDeliveries, \* bound on the deliveries
  MaxLinks,      \* bound on the changes of a link
  MaxCrashes     \* bound on the crashes

(* What last_error may say, and what a pass may make of a request. *)
Errors  == {"unlinked", "abandoned", "key_invalid_404", "REFUSED",
            "transport", "INDETERMINATE"}
Answers == {"CHARGED", "ALREADY_CHARGED", "REFUSED", "INDETERMINATE", "404", "transport"}

ASSUME DebitOutboxAssumption ==
  /\ NULL \notin Keys \cup Errors \cup Answers
  /\ NULL \notin Nat
  /\ IsFiniteSet(Workers) /\ IsFiniteSet(Drains)
  /\ BatchLimit \in Nat \ {0}
  /\ MaxAttempts \in Nat \ {0}
  /\ {MaxDeliveries, MaxLinks, MaxCrashes} \subseteq Nat

VARIABLES
  link,    \* link[c]: linked_api_key, on a paid tier, or NULL
  fired,   \* alerts_fired: the chat of each delivery, by id
  outbox,  \* entitlement_outbox, in the order of its ids
  rec,     \* rec[w]: where recorder w is
  pass,    \* pass[d]: where drain pass d is
  mirror,  \* mirror[c]: the key whose plan the plan_* columns of c describe
  valid,   \* keys signal-MCP accepts
  ledger,  \* idempotency keys signal-MCP has charged
  debits,  \* debits[i]: charges made for delivery i (history)
  free,    \* deliveries the free meter has charged (history)
  stray,   \* deliveries charged to a key the chat no longer held (history)
  links,   \* how often a link has changed
  crashes  \* how often a process has died

service == <<link, valid, links>>
server  == <<ledger, debits, stray>>
record  == <<fired, rec, free>>
vars    == <<service, server, record, outbox, pass, mirror, crashes>>

Deliveries == 1..MaxDeliveries

(* id: the delivery.  sent: sent_at is set.  error: last_error. *)
Row == [id : Deliveries, attempts : Nat, sent : BOOLEAN, error : Errors \cup {NULL}]

(* A row of a batch: its place in the outbox, and what the batch's SELECT  *)
(* found there and under its chat.                                         *)
Item == [place : Nat, attempts : Nat, key : Keys \cup {NULL}]

IdleRec  == [at |-> "idle", id |-> NULL]
IdlePass == [batch |-> <<>>, answer |-> NULL]

Init ==
  /\ link \in [Chats -> Keys \cup {NULL}]
  /\ fired = <<>>
  /\ outbox = <<>>
  /\ rec = [w \in Workers |-> IdleRec]
  /\ pass = [d \in Drains |-> IdlePass]
  /\ mirror = [c \in Chats |-> NULL]
  /\ valid = Keys
  /\ ledger = {}
  /\ debits = [i \in Deliveries |-> 0]
  /\ free = {}
  /\ stray = {}
  /\ links = 0
  /\ crashes = 0

---------------------------------------------------------------------------
(* Recording a delivery *)

(* record_alert_fired: the id it returns names the delivery for good. *)
RecordAlertFired(c) == fired' = Append(fired, c)

(* The send succeeded. *)
Deliver(w, c) ==
  LET i == Len(fired) + 1
  IN  /\ rec[w].at = "idle"
      /\ i \in Deliveries
      /\ RecordAlertFired(c)
      /\ rec' = [rec EXCEPT ![w] = [at |-> "meter", id |-> i]]
      /\ UNCHANGED <<service, server, free, outbox, pass, mirror, crashes>>

MeterEvenIfPaid(w) ==
  /\ rec[w].at = "meter"
  /\ rec' = [rec EXCEPT ![w].at = "enqueue"]
  /\ free' = free \cup {rec[w].id}
  /\ UNCHANGED <<service, server, fired, outbox, pass, mirror, crashes>>

(* consume_quota: a linked chat's meter does not move. *)
Meter(w) ==
  LET i == rec[w].id
  IN  /\ rec[w].at = "meter"
      /\ rec' = [rec EXCEPT ![w].at = "enqueue"]
      /\ free' = IF link[fired[i]] = NULL THEN free \cup {i} ELSE free
      /\ UNCHANGED <<service, server, fired, outbox, pass, mirror, crashes>>

(* The idempotency key is the delivery's id and nothing else. *)
IdemKeyPerAttempt(id, attempts) == <<id, attempts>>
IdemKey(id, attempts) == <<id, 0>>

(* enqueue_entitlement_debit: a key that is queued already is passed over. *)
EnqueueDebit(i) ==
  outbox' = IF \E p \in DOMAIN outbox : outbox[p].id = i THEN outbox
            ELSE Append(outbox, [id |-> i, attempts |-> 0, sent |-> FALSE, error |-> NULL])

(* _enqueue_plan_debit: for a chat that is linked by now. *)
Enqueue(w) ==
  LET i == rec[w].id
  IN  /\ rec[w].at = "enqueue"
      /\ rec' = [rec EXCEPT ![w] = IdleRec]
      /\ IF link[fired[i]] = NULL THEN UNCHANGED outbox ELSE EnqueueDebit(i)
      /\ UNCHANGED <<service, server, fired, free, pass, mirror, crashes>>

---------------------------------------------------------------------------
(* Draining *)

PendingOrNot == DOMAIN outbox
Pending == {p \in DOMAIN outbox : ~outbox[p].sent}

(* The places of the pending rows, oldest first. *)
Oldest(places) ==
  [n \in 1..Cardinality(places) |->
     CHOOSE p \in places : Cardinality({q \in places : q < p}) = n - 1]

BatchUnlimited(rows) == rows
BatchSize(rows) == IF rows < BatchLimit THEN rows ELSE BatchLimit

Batch ==
  LET oldest == Oldest(Pending)
      size   == BatchSize(Len(oldest))
  IN  [n \in 1..size |->
         [place    |-> oldest[n],
          attempts |-> outbox[oldest[n]].attempts,
          key      |-> link[fired[outbox[oldest[n]].id]]]]

(* pending_entitlement_debits: one SELECT for the whole pass, keys and all. *)
StartPass(d) ==
  /\ pass[d] = IdlePass
  /\ pass' = [pass EXCEPT ![d].batch = Batch]
  /\ UNCHANGED <<service, server, record, outbox, mirror, crashes>>

Working(d) == pass[d].batch # <<>> /\ pass[d].answer = NULL
Current(d) == Head(pass[d].batch)

GoOn(d) == pass' = [pass EXCEPT ![d] = [batch |-> Tail(@.batch), answer |-> NULL]]

(* mark_entitlement_debit_sent and bump_entitlement_debit_attempt *)
Stamp(place, error) ==
  outbox' = [outbox EXCEPT ![place].sent = TRUE, ![place].error = error]
BumpUncounted(place, error) == outbox' = [outbox EXCEPT ![place].error = error]
Bump(place, error) ==
  outbox' = [outbox EXCEPT ![place].attempts = @ + 1, ![place].error = error]

GivesUp(item) == item.attempts >= MaxAttempts

SkipUnlinked(d) ==
  /\ Working(d)
  /\ Current(d).key = NULL
  /\ Stamp(Current(d).place, "unlinked")
  /\ GoOn(d)
  /\ UNCHANGED <<service, server, record, mirror, crashes>>

Abandon(d) ==
  /\ Working(d)
  /\ Current(d).key # NULL
  /\ GivesUp(Current(d))
  /\ Stamp(Current(d).place, "abandoned")
  /\ GoOn(d)
  /\ UNCHANGED <<service, server, record, mirror, crashes>>

(* signal-MCP on a request to charge delivery i to key k: a debit it has   *)
(* made already is not made again, one over the plan's ceiling is refused, *)
(* and when it cannot tell it says so, whether or not the charge landed.   *)
Serve(i, attempts, k, answer) ==
  LET idem == IdemKey(i, attempts)
      chargesIt ==
        /\ ledger' = ledger \cup {idem}
        /\ debits' = [debits EXCEPT ![i] = @ + 1]
        /\ stray' = IF link[fired[i]] = k THEN stray ELSE stray \cup {i}
  IN  \/ k \notin valid /\ answer = "404" /\ UNCHANGED server
      \/ k \in valid /\ idem \in ledger /\ answer = "ALREADY_CHARGED" /\ UNCHANGED server
      \/ k \in valid /\ idem \notin ledger /\ answer \in {"CHARGED", "INDETERMINATE"}
           /\ chargesIt
      \/ k \in valid /\ idem \notin ledger /\ answer \in {"REFUSED", "INDETERMINATE"}
           /\ UNCHANGED server

(* consume: one request.  It may be lost, and so may its answer.  A        *)
(* request the bot has given up on is handled before it asks again.        *)
Consume(d) ==
  LET item == Current(d)
      i    == outbox[item.place].id
  IN  /\ Working(d)
      /\ item.key # NULL
      /\ ~GivesUp(item)
      /\ \E answer \in Answers :
           /\ \/ Serve(i, item.attempts, item.key, answer)
                   /\ pass' = [pass EXCEPT ![d].answer = answer]
              \/ Serve(i, item.attempts, item.key, answer)
                   /\ pass' = [pass EXCEPT ![d].answer = "transport"]
              \/ answer = "transport" /\ UNCHANGED server
                   /\ pass' = [pass EXCEPT ![d].answer = answer]
      /\ UNCHANGED <<service, record, outbox, mirror, crashes>>

(* update_plan_mirror: the plan of the key that was charged. *)
RefreshMirror(d) ==
  mirror' = [mirror EXCEPT ![fired[outbox[Current(d).place].id]] = Current(d).key]

(* What the pass makes of the answer. *)
UnknownIsSent == {"CHARGED", "ALREADY_CHARGED", "INDETERMINATE"}
Landed        == {"CHARGED", "ALREADY_CHARGED"}

SettleCharged(d) ==
  /\ pass[d].answer \in Landed
  /\ Stamp(Current(d).place, NULL)
  /\ RefreshMirror(d)
  /\ GoOn(d)
  /\ UNCHANGED <<service, server, record, crashes>>

SettleRefused(d) ==
  /\ pass[d].answer = "REFUSED"
  /\ Stamp(Current(d).place, "REFUSED")
  /\ RefreshMirror(d)
  /\ GoOn(d)
  /\ UNCHANGED <<service, server, record, crashes>>

SettleInvalid(d) ==
  /\ pass[d].answer = "404"
  /\ Stamp(Current(d).place, "key_invalid_404")
  /\ GoOn(d)
  /\ UNCHANGED <<service, server, record, mirror, crashes>>

Retry(d) ==
  /\ pass[d].answer \notin Landed \cup {"REFUSED", "404", NULL}
  /\ Bump(Current(d).place, pass[d].answer)
  /\ GoOn(d)
  /\ UNCHANGED <<service, server, record, mirror, crashes>>

---------------------------------------------------------------------------
(* The world around them *)

(* link_subscriber, over another link or over none; and the lifecycle's    *)
(* unlink_subscriber.                                                      *)
Link(c, k) ==
  /\ links < MaxLinks
  /\ links' = links + 1
  /\ k \in valid \ {link[c]}
  /\ link' = [link EXCEPT ![c] = k]
  /\ UNCHANGED <<valid, server, record, outbox, pass, mirror, crashes>>

Unlink(c) ==
  /\ links < MaxLinks
  /\ links' = links + 1
  /\ link[c] # NULL
  /\ link' = [link EXCEPT ![c] = NULL]
  /\ UNCHANGED <<valid, server, record, outbox, pass, mirror, crashes>>

(* A subscription ends. *)
Revoke(k) ==
  /\ k \in valid
  /\ valid' = valid \ {k}
  /\ UNCHANGED <<link, links, server, record, outbox, pass, mirror, crashes>>

(* A process dies; a recorder whose statement fails ends in the same place. *)
Crash ==
  /\ crashes < MaxCrashes
  /\ crashes' = crashes + 1
  /\ \/ \E w \in Workers : rec[w] # IdleRec /\ rec' = [rec EXCEPT ![w] = IdleRec]
                             /\ pass' = pass
     \/ \E d \in Drains : pass[d] # IdlePass /\ pass' = [pass EXCEPT ![d] = IdlePass]
                            /\ rec' = rec
  /\ UNCHANGED <<service, server, fired, free, outbox, mirror>>

---------------------------------------------------------------------------

Recorder(w) == (\E c \in Chats : Deliver(w, c)) \/ Meter(w) \/ Enqueue(w)

DrainStep(d) ==
  \/ StartPass(d)
  \/ SkipUnlinked(d)
  \/ Abandon(d)
  \/ Consume(d)
  \/ SettleCharged(d)
  \/ SettleRefused(d)
  \/ SettleInvalid(d)
  \/ Retry(d)

Next ==
  \/ \E w \in Workers : Recorder(w)
  \/ \E d \in Drains : DrainStep(d)
  \/ \E c \in Chats, k \in Keys : Link(c, k)
  \/ \E c \in Chats : Unlink(c)
  \/ \E k \in Keys : Revoke(k)
  \/ Crash

Spec == Init /\ [][Next]_vars

(* Cron starts one pass after another, and each goes on. *)
FairSpec == Spec /\ \A d \in Drains : WF_vars(DrainStep(d))

---------------------------------------------------------------------------
(* Properties *)

TypeOK ==
  /\ link \in [Chats -> Keys \cup {NULL}]
  /\ fired \in Seq(Chats) /\ Len(fired) <= MaxDeliveries
  /\ outbox \in Seq(Row)
  /\ rec \in [Workers -> [at : {"idle", "meter", "enqueue"}, id : Deliveries \cup {NULL}]]
  /\ pass \in [Drains -> [batch : Seq(Item), answer : Answers \cup {NULL}]]
  /\ mirror \in [Chats -> Keys \cup {NULL}]
  /\ valid \subseteq Keys
  /\ ledger \subseteq (Deliveries \X Nat)
  /\ debits \in [Deliveries -> Nat]
  /\ free \subseteq Deliveries
  /\ stray \subseteq Deliveries
  /\ links \in 0..MaxLinks
  /\ crashes \in 0..MaxCrashes

Ids(rows)  == {outbox[p].id : p \in rows}
Owed       == Ids(DOMAIN outbox)
Charged    == {i \in Deliveries : debits[i] > 0}
Confirmed  == Ids({p \in DOMAIN outbox : outbox[p].sent /\ outbox[p].error = NULL})
WrittenOff == Ids({p \in DOMAIN outbox : outbox[p].sent /\ outbox[p].error # NULL})

(* However often a request is repeated after a lost answer, a crash or an  *)
(* overlapping pass, a delivery is charged to a plan at most once.         *)
DebitedAtMostOnce == \A i \in Deliveries : debits[i] <= 1

(* Deliveries whose recording is over, completed or cut off. *)
Recorded == {i \in DOMAIN fired : \A w \in Workers : rec[w].id # i}

(* A delivery whose recording is over is on one meter, the free one or the *)
(* plan's, and not on both: but for one of a recorder that died, and those *)
(* the recorders were at when a link changed (record_call_delivered).      *)
OneMeterBarringFaults ==
  Cardinality({i \in Recorded : (i \in free) = (i \in Owed)})
    <= crashes + links * Cardinality(Workers)

(* What count_plan_units_debited_last_24h reports as charged was charged,  *)
(* and a debit recorded as refused was not (drain_entitlement_debits).     *)
OutcomeIsTrue ==
  /\ Confirmed \subseteq Charged
  /\ \A p \in DOMAIN outbox : outbox[p].error = "REFUSED" => outbox[p].id \notin Charged

Ledger == INSTANCE DebitLedger WITH
  owed <- Owed, charged <- Charged, confirmed <- Confirmed, writtenOff <- WrittenOff

(* With one pass at a time the outbox keeps the promises of DebitLedger:   *)
(* no charge for what is not owed or is settled, no second settlement.     *)
KeepsLedger == Ledger!Spec

(* The key of a debit is read with its batch: a chat that is unlinked, or  *)
(* linked to another key, is charged for at the key it has left for no     *)
(* more than the batches that were under way when its link changed         *)
(* (drain_entitlement_debits, pending_entitlement_debits).                 *)
StrayBounded == Cardinality(stray) <= links * BatchLimit * Cardinality(Drains)

(* A queued debit is settled in the end, whatever signal-MCP answers.      *)
EveryDebitSettles ==
  \A p \in Deliveries : p \in DOMAIN outbox ~> p \in DOMAIN outbox /\ outbox[p].sent
=============================================================================
