----------------------------- MODULE ScanDigest -----------------------------
(***************************************************************************)
(* Standing scans.  A chat subscribes to a lens (how many assets, of which *)
(* exchange, ranked how, on which timeframe); once in a bar of that        *)
(* timeframe the engine scans each lens that is due, once for all its      *)
(* subscribers, and sends each of them the calls that are not HOLD, unless *)
(* they are the ones it was sent last.  Every call sent is charged.        *)
(* Passes do not overlap; the user's commands run in another process, and  *)
(* fall between any two steps of a pass.                                   *)
(* A signature is the set of calls itself, {} for the empty one.  The bar  *)
(* of a lens turns at any time; a subscription remembers whether it was    *)
(* served in the bar that runs.  Lenses of one timeframe turn one by one,  *)
(* and a chat is walled, or not, by what QuotaMeter describes: it may be   *)
(* refused at any time.                                                    *)
(***************************************************************************)
EXTENDS Integers, FiniteSets

CONSTANTS
  NULL, Chats, Lenses,
  Markets,     \* the sets of calls that a scan may find, {} among them
  MaxCalls,    \* most calls of one scan: the top N of its lens
  MaxEdits,    \* bound on the commands
  MaxFaults    \* bound on crashes, and on sends that seem to fail

Rows == Chats \X Lenses

(* The signatures that a pass compares with, and a pass. *)
Sigs == UNION {[rs -> Markets] : rs \in SUBSET Rows}
Pass == [todo : SUBSET Rows, group : SUBSET Rows, found : Markets, sent : {NULL} \cup Rows,
         left : 0..MaxCalls, sigs : Sigs, stale : SUBSET Lenses]

ASSUME ScanDigestAssumption ==
  /\ NULL \notin Rows \cup Pass
  /\ {} \in Markets
  /\ MaxCalls \in Nat
  /\ \A m \in Markets : IsFiniteSet(m) /\ Cardinality(m) <= MaxCalls
  /\ {MaxEdits, MaxFaults} \subseteq Nat

VARIABLES
  subs,      \* scan_watches: <<chat, lens>> -> [fired, sig]
  pass,      \* process_scan_digests, or NULL
  told,      \* what a subscriber was sent last, {} after a quiet bar (history)
  fresh,     \* subscriptions not sent anything yet (history)
  again,     \* sends of what the subscriber had been sent last (history)
  owed,      \* calls sent and not charged (history)
  edits, faults

history == <<told, fresh, again, owed>>
vars    == <<subs, pass, history, edits, faults>>

Init ==
  /\ subs = [r \in {} |-> NULL]
  /\ pass = NULL
  /\ told = [r \in Rows |-> {}]
  /\ fresh = {}
  /\ again = 0
  /\ owed = 0
  /\ edits = 0
  /\ faults = 0

---------------------------------------------------------------------------
(* The user's commands *)

(* add_scan_watch leaves the bucket and the signature of a subscription    *)
(* that exists.                                                            *)
Scanwatch(c, l) ==
  /\ edits < MaxEdits
  /\ edits' = edits + 1
  /\ <<c, l>> \notin DOMAIN subs
  /\ subs' = [r \in DOMAIN subs \cup {<<c, l>>} |->
                IF r = <<c, l>> THEN [fired |-> FALSE, sig |-> {}] ELSE subs[r]]
  /\ fresh' = fresh \cup {<<c, l>>}
  /\ UNCHANGED <<pass, told, again, owed, faults>>

Unscanwatch(c, l) ==
  /\ edits < MaxEdits
  /\ edits' = edits + 1
  /\ <<c, l>> \in DOMAIN subs
  /\ subs' = [r \in DOMAIN subs \ {<<c, l>>} |-> subs[r]]
  /\ UNCHANGED <<pass, history, faults>>

---------------------------------------------------------------------------
(* A pass: process_scan_digests *)

Due == {r \in DOMAIN subs : ~subs[r].fired}

(* list_all_scan_watches: the rows of the pass are those of its start, and *)
(* so are the signatures it compares with.                                 *)
StartPass ==
  /\ pass = NULL
  /\ Due # {}
  /\ pass' = [todo |-> Due, group |-> {}, found |-> {}, sent |-> NULL, left |-> 0,
              sigs |-> [r \in Due |-> subs[r].sig], stale |-> {}]
  /\ UNCHANGED <<subs, history, edits, faults>>

Idle == pass # NULL /\ pass.group = {}

Members(l) == {r \in pass.todo : r[2] = l}

Scan(l) ==
  /\ Idle
  /\ Members(l) # {}
  /\ \E calls \in Markets :
       pass' = [pass EXCEPT !.found = calls, !.group = Members(l), !.todo = @ \ Members(l)]
  /\ UNCHANGED <<subs, history, edits, faults>>

(* McpError: the bucket of the group stays, and the next minute tries.     *)
ScanFails(l) ==
  /\ Idle
  /\ Members(l) # {}
  /\ pass' = [pass EXCEPT !.todo = @ \ Members(l)]
  /\ UNCHANGED <<subs, history, edits, faults>>

EndPass ==
  /\ Idle
  /\ pass.todo = {}
  /\ pass' = NULL
  /\ UNCHANGED <<subs, history, edits, faults>>

(* The next member of the group. *)
At(r) == pass # NULL /\ r \in pass.group /\ pass.sent = NULL

(* mark_scan_watch_fired, with the bar in which the pass began; a row that *)
(* is gone stays gone.                                                     *)
MarkBucket(r) ==
  subs' = IF r \in DOMAIN subs
          THEN [subs EXCEPT ![r].fired = @ \/ r[2] \notin pass.stale] ELSE subs
MarkBucketOnly(r, sig) == MarkBucket(r)
MarkBucketAndSig(r, sig) ==
  subs' = IF r \in DOMAIN subs
          THEN [subs EXCEPT ![r] = [fired |-> @.fired \/ r[2] \notin pass.stale, sig |-> sig]]
          ELSE subs

Onward(r) == pass' = [pass EXCEPT !.group = @ \ {r}, !.sent = NULL, !.left = 0]

(* A bar of nothing but HOLD is not sent, and forgets what was.            *)
QuietKeepsSig(r) ==
  /\ At(r)
  /\ pass.found = {}
  /\ MarkBucket(r)
  /\ told' = [told EXCEPT ![r] = {}]
  /\ Onward(r)
  /\ UNCHANGED <<fresh, again, owed, edits, faults>>
Quiet(r) ==
  /\ At(r)
  /\ pass.found = {}
  /\ MarkBucketAndSig(r, {})
  /\ told' = [told EXCEPT ![r] = {}]
  /\ Onward(r)
  /\ UNCHANGED <<fresh, again, owed, edits, faults>>

(* evaluate_delivery refuses; the notice is WallNotice's.                  *)
Refuse(r) ==
  /\ At(r)
  /\ pass.found # {}
  /\ MarkBucket(r)
  /\ Onward(r)
  /\ UNCHANGED <<history, edits, faults>>

Wanted(r) == At(r) /\ pass.found # {}

Unchanged(r) ==
  /\ Wanted(r)
  /\ pass.found = pass.sigs[r]
  /\ MarkBucket(r)
  /\ Onward(r)
  /\ UNCHANGED <<history, edits, faults>>

Arrives(r) ==
  /\ told' = [told EXCEPT ![r] = pass.found]
  /\ fresh' = fresh \ {r}
  /\ again' = IF told[r] = pass.found /\ r \notin fresh THEN again + 1 ELSE again
  /\ owed' = owed + Cardinality(pass.found)

Push(r) ==
  /\ Wanted(r)
  /\ pass.found # pass.sigs[r]
  /\ Arrives(r)
  /\ pass' = [pass EXCEPT !.sent = r, !.left = Cardinality(pass.found)]
  /\ UNCHANGED <<subs, edits, faults>>

(* A send that fails moves the bucket and not the signature, also when it  *)
(* arrived and its answer was lost.                                        *)
PushFails(r) ==
  /\ Wanted(r)
  /\ pass.found # pass.sigs[r]
  /\ \/ UNCHANGED <<told, fresh, again, owed, faults>>
     \/ faults < MaxFaults /\ faults' = faults + 1 /\ Arrives(r)
  /\ MarkBucket(r)
  /\ Onward(r)
  /\ UNCHANGED edits

(* record_call_delivered, once for every call of the digest. *)
Record ==
  /\ pass # NULL
  /\ pass.left > 0
  /\ pass' = [pass EXCEPT !.left = @ - 1]
  /\ owed' = owed - 1
  /\ UNCHANGED <<subs, told, fresh, again, edits, faults>>

MarkSentUncharged(r) ==
  /\ pass # NULL
  /\ pass.sent = r
  /\ MarkBucketAndSig(r, pass.found)
  /\ Onward(r)
  /\ UNCHANGED <<history, edits, faults>>
MarkSent(r) ==
  /\ pass # NULL
  /\ pass.sent = r /\ pass.left = 0
  /\ MarkBucketAndSig(r, pass.found)
  /\ Onward(r)
  /\ UNCHANGED <<history, edits, faults>>

(* The process dies, or a statement fails: only McpError is caught within  *)
(* a pass, and the rest of it is left to the next minute.                  *)
Crash ==
  /\ pass # NULL
  /\ faults < MaxFaults
  /\ faults' = faults + 1
  /\ pass' = NULL
  /\ UNCHANGED <<subs, history, edits>>

---------------------------------------------------------------------------
(* The clock *)

(* The bar of a lens turns: timeframe_bucket_epoch moves on. *)
Turn(l) ==
  /\ \E r \in DOMAIN subs : r[2] = l /\ subs[r].fired
  /\ subs' = [r \in DOMAIN subs |-> IF r[2] = l THEN [subs[r] EXCEPT !.fired = FALSE] ELSE subs[r]]
  /\ pass' = IF pass = NULL THEN NULL ELSE [pass EXCEPT !.stale = @ \cup {l}]
  /\ UNCHANGED <<told, fresh, again, owed, edits, faults>>

---------------------------------------------------------------------------

Serve(r) ==
  \/ Quiet(r) \/ Refuse(r) \/ Unchanged(r)
  \/ Push(r) \/ PushFails(r) \/ MarkSent(r)

Engine ==
  \/ StartPass \/ EndPass \/ Record
  \/ \E l \in Lenses : Scan(l) \/ ScanFails(l)
  \/ \E r \in Rows : Serve(r)

World ==
  \/ \E c \in Chats, l \in Lenses : Scanwatch(c, l) \/ Unscanwatch(c, l)
  \/ \E l \in Lenses : Turn(l)

Next == Engine \/ Crash \/ World
Spec == Init /\ [][Next]_vars

---------------------------------------------------------------------------
(* Properties *)

TypeOK ==
  /\ DOMAIN subs \subseteq Rows
  /\ \A r \in DOMAIN subs : subs[r] \in [fired : BOOLEAN, sig : Markets]
  /\ pass # NULL =>
       /\ pass.todo \cup pass.group \subseteq DOMAIN pass.sigs
       /\ pass.todo \cap pass.group = {}
       /\ pass \in Pass /\ pass.sent \in {NULL} \cup pass.group
  /\ told \in [Rows -> Markets] /\ fresh \subseteq Rows
  /\ again \in Nat /\ owed \in Int
  /\ edits \in 0..MaxEdits /\ faults \in 0..MaxFaults

(* The set a subscriber was sent last is not sent again before it changed  *)
(* or the market was quiet, whatever is refused or lost in between, but    *)
(* for faults.                                                             *)
NoRepeat == again <= faults

(* The signature a subscription is compared with is what its chat was sent *)
(* last: else a change would be withheld as known.  A fault breaks this: a *)
(* digest sent and not marked hides the return of the one before it.       *)
SigIsWhatWasSent ==
  faults = 0 => \A r \in DOMAIN subs :
    subs[r].sig \in {{}, told[r]} \/ (pass # NULL /\ pass.sent = r)

(* Every call of a digest that arrived is charged, and no other; a fault   *)
(* costs at most the calls of one digest.                                  *)
ChargedAsSent ==
  LET left == IF pass = NULL THEN 0 ELSE pass.left
  IN  left <= owed /\ owed <= left + faults * MaxCalls
=============================================================================
