------------------------------- MODULE Outreach -------------------------------
(***************************************************************************)
(* What the bot sends without being asked: broadcasts (the daily digest,   *)
(* the weekly showcase), the one-time nudge of a chat that watches         *)
(* nothing, and the notifications of the referral engine; and what /start  *)
(* does besides, the bonus of a referral among it.                         *)
(*                                                                         *)
(* Broadcasts, the sweep of nudges and the drain of notifications are      *)
(* processes started by cron, or by hand, and nothing keeps two of them    *)
(* apart.  The bot handles /start in a process of its own.  All share the  *)
(* database; the referral engine is behind HTTP.                           *)
(*                                                                         *)
(* A send is tried SendMaxAttempts times.  An answer may be lost after the *)
(* message has arrived: the send is then tried again.                      *)
(***************************************************************************)
EXTENDS Naturals, FiniteSets

CONSTANTS
  Chats,
  Groups,           \* those that are groups: a member's own chat is another one
  Digests,          \* daily digests: what one says on one day
  Showcases,        \* weekly showcases, likewise
  Notes,            \* notifications of the referral engine
  Codes,            \* referral codes
  CodeOf,           \* CodeOf[x]: the code of a chat, or of a notification
  Workers,          \* processes started by cron
  SendMaxAttempts,
  NULL

(* An event of tg_broadcasts: a type, a day and what is said.  A cron that *)
(* is run again and has other things to say makes another event.           *)
Events == Digests \cup Showcases
Nudge == "nudge"
Messages == Events \cup Notes \cup {Nudge}

ASSUME OutreachAssumption ==
  /\ Groups \subseteq Chats
  /\ CodeOf \in [Chats \cup Notes -> Codes]
  /\ SendMaxAttempts \in Nat \ {0}
  /\ Events \cap Notes = {} /\ Nudge \notin Events \cup Notes
  /\ NULL \notin Messages \cup Chats

VARIABLES
  subs,       \* chats with a subscribers row
  marked,     \* bot_blocked_at
  nudged,     \* first_watch_nudge_sent_at
  cached,     \* chats whose referral_code is stored
  bonus,      \* bonus[c]: grants of a referral bonus
  engaged,    \* chats with a watch or a scan
  fired,      \* tg_broadcasts
  delivered,  \* the engine's notifications marked delivered
  posted,     \* the engine's notifications there are
  joined,     \* the engine's attributions
  blocks,     \* chats that block the bot
  work,       \* work[w]: what process w is doing
  start,      \* the /start being handled
  reached,    \* <<chat, message>> that arrived (history)
  twice,      \* ... more than once, without an excuse (history)
  excused,    \* ... that may arrive again (history)
  clean,      \* chats whose /start was handled, and that did not block since (history)
  lost,       \* chats attributed whose bonus got lost on the way (history)
  took        \* users who took up the nudge of a group (history)

flags   == <<subs, marked, nudged, cached, bonus, engaged, fired>>
engine  == <<delivered, posted, joined>>
history == <<reached, twice, excused, clean, lost, took>>
vars    == <<flags, engine, blocks, work, start, history>>

Pass ==
  [kind : {"broadcast", "sweep", "drain"}, msg : Messages \cup {NULL}, left : SUBSET Notes,
   cohort : SUBSET Chats, todo : SUBSET Chats, chat : Chats \cup {NULL},
   stage : {"next", "send", "forbidden", "stamp"}, tries : 0..(SendMaxAttempts - 1), ok : BOOLEAN]

Starting ==
  [chat : Chats, kind : {"plain", "ref", "auth"},
   stage : {"attribute", "grant", "greet", "welcome", "nudge", "send", "stamp"}]

ASSUME OutreachNull == NULL \notin Pass \cup Starting

TypeOK ==
  /\ {subs, marked, nudged, cached, engaged, joined, blocks, clean, lost, took} \subseteq SUBSET Chats
  /\ bonus \in [Chats -> Nat]
  /\ fired \subseteq Events
  /\ {delivered, posted} \subseteq SUBSET Notes
  /\ work \in [Workers -> Pass \cup {NULL}]
  /\ start \in Starting \cup {NULL}
  /\ {reached, twice, excused} \subseteq SUBSET (Chats \X Messages)

Init ==
  /\ subs \in SUBSET Chats
  /\ marked = {} /\ nudged = {} /\ cached = {} /\ engaged = {}
  /\ bonus = [c \in Chats |-> 0]
  /\ fired = {} /\ delivered = {} /\ posted = {} /\ joined = {}
  /\ blocks = {}
  /\ work = [w \in Workers |-> NULL]
  /\ start = NULL
  /\ reached = {} /\ twice = {} /\ excused = {}
  /\ clean = {} /\ lost = {} /\ took = {}

---------------------------------------------------------------------------
(* Sending *)

Arrive(c, m) ==
  /\ reached' = reached \cup {<<c, m>>}
  /\ twice' = IF <<c, m>> \in reached \ excused THEN twice \cup {<<c, m>>} ELSE twice

Excuse(who, m) == excused' = excused \cup (who \X {m})

(* _list_non_blocked_chat_ids *)
Reachable == subs \ marked

Becomes(w, p) == work' = [work EXCEPT ![w] = p]

(* The process turns to what comes after a chat. *)
Onward(w, ok) ==
  Becomes(w, [work[w] EXCEPT !.chat = NULL, !.stage = "next", !.tries = 0,
                              !.ok = @ \/ (ok /\ work[w].kind = "drain")])

Sending(w) == work[w] # NULL /\ work[w].stage = "send"

(* _send_with_retry, an attempt that is answered: a nudge is stamped next. *)
Sent(w) ==
  /\ Sending(w)
  /\ work[w].chat \notin blocks
  /\ Arrive(work[w].chat, work[w].msg)
  /\ IF work[w].kind = "sweep" THEN Becomes(w, [work[w] EXCEPT !.stage = "stamp"])
                               ELSE Onward(w, TRUE)
  /\ UNCHANGED <<flags, engine, blocks, start, excused, clean, lost, took>>

(* One that is not: tried again, up to a limit. *)
Retry(w) ==
  IF work[w].tries + 1 < SendMaxAttempts
    THEN Becomes(w, [work[w] EXCEPT !.tries = @ + 1])
    ELSE Onward(w, FALSE)

Fails(w) ==
  /\ Sending(w)
  /\ Retry(w)
  /\ UNCHANGED <<flags, engine, blocks, start, reached, twice, excused, clean, lost, took>>

(* It has arrived, and the answer is lost. *)
Unanswered(w) ==
  /\ Sending(w)
  /\ work[w].chat \notin blocks
  /\ Arrive(work[w].chat, work[w].msg)
  /\ Excuse({work[w].chat}, work[w].msg)
  /\ Retry(w)
  /\ UNCHANGED <<flags, engine, blocks, start, clean, lost, took>>

(* Forbidden: the chat is marked, and left. *)
Forbidden(w) ==
  /\ Sending(w)
  /\ work[w].chat \in blocks
  /\ Becomes(w, [work[w] EXCEPT !.stage = "forbidden"])
  /\ UNCHANGED <<flags, engine, blocks, start, reached, twice, excused, clean, lost, took>>

MarkBlocked(w) ==
  /\ work[w] # NULL /\ work[w].stage = "forbidden"
  /\ marked' = marked \cup {work[w].chat}
  /\ Onward(w, FALSE)
  /\ UNCHANGED <<subs, nudged, cached, bonus, engaged, fired, engine, blocks, start, history>>

---------------------------------------------------------------------------
(* The processes *)

Begins(w, kind, msg, left, chats) ==
  /\ work[w] = NULL
  /\ Becomes(w, [kind |-> kind, msg |-> msg, left |-> left, cohort |-> chats, todo |-> chats,
                 chat |-> NULL, stage |-> "next", tries |-> 0, ok |-> FALSE])

At(w) == work[w] # NULL /\ work[w].stage = "next"

(* Another process is busy with m. *)
Shared(w, m) == \E v \in Workers \ {w} : work[v] # NULL /\ work[v].msg = m

(* _event_already_fired *)
AlreadyFired(e) == e \in fired

(* send_broadcast_async: the chats are listed and the ledger is probed. *)
BeginBroadcast(w, e) ==
  /\ ~AlreadyFired(e)
  /\ Begins(w, "broadcast", e, {}, Reachable)
  /\ Excuse(IF Shared(w, e) THEN Chats ELSE {}, e)
  /\ UNCHANGED <<flags, engine, blocks, start, reached, twice, clean, lost, took>>

(* daily-digest.py and scan-showcase.py, when they are live and have       *)
(* something to say.                                                       *)
RunDigest(w) == \E e \in Digests : BeginBroadcast(w, e)
RunShowcase(w) == \E e \in Showcases : BeginBroadcast(w, e)

(* list_zero_engagement_unnudged *)
Unnudged == Reachable \ (nudged \cup engaged)

(* first-watch-nudge.py *)
BeginSweep(w) ==
  /\ Begins(w, "sweep", Nudge, {}, Unnudged)
  /\ UNCHANGED <<flags, engine, blocks, start, history>>

(* drain_referral_notifications; no answer is an empty list. *)
BeginDrain(w) ==
  /\ posted # delivered
  /\ Begins(w, "drain", NULL, posted \ delivered, {})
  /\ UNCHANGED <<flags, engine, blocks, start, history>>

(* The next chat.  The sweep looks again whether the chat was nudged since *)
(* it was listed; between that look and the stamp another may do the same. *)
Nudging(c) == start # NULL /\ start.chat = c /\ start.stage \in {"send", "stamp"}
Sweeping(v, c) ==
  /\ work[v] # NULL
  /\ work[v].kind = "sweep" /\ work[v].chat = c /\ work[v].stage \in {"send", "stamp"}

SkipNobody(kind, c) == FALSE
Skip(kind, c) == kind = "sweep" /\ c \in nudged

NextChat(w) ==
  /\ At(w)
  /\ \E c \in work[w].todo :
       IF Skip(work[w].kind, c)
         THEN Becomes(w, [work[w] EXCEPT !.todo = @ \ {c}]) /\ UNCHANGED excused
         ELSE /\ Becomes(w, [work[w] EXCEPT !.todo = @ \ {c}, !.chat = c, !.stage = "send"])
              /\ Excuse(IF /\ work[w].kind = "sweep"
                           /\ Nudging(c) \/ \E v \in Workers \ {w} : Sweeping(v, c)
                          THEN {c} ELSE {}, work[w].msg)
  /\ UNCHANGED <<flags, engine, blocks, start, reached, twice, clean, lost, took>>

(* mark_first_watch_nudge_sent *)
Stamp(w) ==
  /\ work[w] # NULL /\ work[w].stage = "stamp"
  /\ nudged' = nudged \cup {work[w].chat}
  /\ Onward(w, TRUE)
  /\ UNCHANGED <<subs, marked, cached, bonus, engaged, fired, engine, blocks, start, history>>

(* chat_ids_for_referral_code *)
Holders(code) == {c \in cached \ marked : CodeOf[c] = code}

(* The next notification of those listed, for the chats that are known by  *)
(* its code; it is left pending when there are none.                       *)
NextNote(w) ==
  /\ At(w) /\ work[w].kind = "drain"
  /\ work[w].todo = {} /\ ~work[w].ok
  /\ \E n \in work[w].left :
       LET chats == Holders(CodeOf[n]) IN
       /\ Becomes(w, [work[w] EXCEPT !.msg = n, !.left = @ \ {n}, !.ok = FALSE,
                                      !.cohort = chats, !.todo = chats])
       /\ Excuse(IF n \in delivered \/ Shared(w, n) THEN chats ELSE {}, n)
  /\ UNCHANGED <<flags, engine, blocks, start, reached, twice, clean, lost, took>>

(* mark_delivered, once any of them was sent to. *)
DeliverAnyway(w) == work[w].todo = {} /\ work[w].msg # NULL
DeliverDue(w) == work[w].todo = {} /\ work[w].ok

Deliver(w, heard) ==
  /\ At(w) /\ work[w].kind = "drain"
  /\ DeliverDue(w)
  /\ delivered' = IF heard THEN delivered \cup {work[w].msg} ELSE delivered
  /\ Excuse(IF heard THEN {} ELSE work[w].cohort, work[w].msg)
  /\ Becomes(w, [work[w] EXCEPT !.ok = FALSE, !.msg = NULL, !.cohort = {}])
  /\ UNCHANGED <<flags, posted, joined, blocks, start, reached, twice, clean, lost, took>>

(* _record_broadcast, after the last chat; a ledger that cannot be written *)
(* is passed over.                                                         *)
AllTried(w) == work[w].todo = {}

Record(w, stored) ==
  /\ At(w) /\ work[w].kind = "broadcast"
  /\ AllTried(w)
  /\ fired' = IF stored THEN fired \cup {work[w].msg} ELSE fired
  /\ Excuse(IF stored THEN {} ELSE work[w].cohort, work[w].msg)
  /\ Becomes(w, NULL)
  /\ UNCHANGED <<subs, marked, nudged, cached, bonus, engaged, engine, blocks, start,
                 reached, twice, clean, lost, took>>

Done(w) ==
  /\ At(w)
  /\ work[w].kind # "broadcast"
  /\ work[w].todo = {} /\ work[w].left = {} /\ ~work[w].ok
  /\ Becomes(w, NULL)
  /\ UNCHANGED <<flags, engine, blocks, start, history>>

(* The process dies: what it sent without a record may be sent again. *)
Dies(w) ==
  /\ work[w] # NULL
  /\ Excuse(IF work[w].kind # "sweep" THEN work[w].cohort
            ELSE IF work[w].stage = "stamp" THEN {work[w].chat} ELSE {}, work[w].msg)
  /\ Becomes(w, NULL)
  /\ UNCHANGED <<flags, engine, blocks, start, reached, twice, clean, lost, took>>

---------------------------------------------------------------------------
(* /start *)

To(stage) == start' = [start EXCEPT !.stage = stage]
In(stage) == start # NULL /\ start.stage = stage

(* A plain one, one with a referral code, or one that links a key. *)
Start(c, kind) ==
  /\ start = NULL
  /\ subs' = subs \cup {c}
  /\ start' = [chat |-> c, kind |-> kind,
               stage |-> IF kind = "ref" THEN "attribute" ELSE "welcome"]
  /\ UNCHANGED <<marked, nudged, cached, bonus, engaged, fired, engine, blocks, work, history>>

(* attribute: the engine records a chat once, and refuses it after that.   *)
(* Its answer may be lost, whatever it did; so may the request.            *)
GrantsAnyway(c) == TRUE
Recorded(c) == c \notin joined

Attribute(heard) ==
  LET c == start.chat IN
  /\ In("attribute")
  /\ joined' = joined \cup {c}
  /\ To(IF Recorded(c) /\ heard THEN "grant" ELSE "welcome")
  /\ lost' = IF c \notin joined /\ ~heard THEN lost \cup {c} ELSE lost
  /\ UNCHANGED <<flags, delivered, posted, blocks, work, reached, twice, excused, clean, took>>

NotAttributed ==
  /\ In("attribute")
  /\ To("welcome")
  /\ UNCHANGED <<flags, engine, blocks, work, history>>

(* grant_referral_bonus *)
Grant ==
  /\ In("grant")
  /\ bonus' = [bonus EXCEPT ![start.chat] = @ + 1]
  /\ To("greet")
  /\ UNCHANGED <<subs, marked, nudged, cached, engaged, fired, engine, blocks, work, history>>

(* The greeting, and the card of one's own code; when it cannot be sent    *)
(* the handler stops there.                                                *)
Greet(sent) ==
  /\ In("greet")
  /\ IF sent THEN To("welcome") ELSE start' = NULL
  /\ UNCHANGED <<flags, engine, blocks, work, history>>

(* handle_start: whoever writes does not block the bot any more.  A key    *)
(* that is linked is answered without it.                                  *)
KeepMark(c) == UNCHANGED marked
Unmark(c) == marked' = marked \ {c}

Welcome(sent) ==
  LET c == start.chat IN
  /\ In("welcome")
  /\ IF start.kind = "auth"
       THEN UNCHANGED <<marked, clean>>
       ELSE /\ Unmark(c)
            /\ clean' = IF \/ c \in blocks
                           \/ \E w \in Workers : work[w] # NULL /\ work[w].chat = c
                                                 /\ work[w].stage = "forbidden"
                          THEN clean ELSE clean \cup {c}
  /\ IF sent THEN To("nudge") ELSE start' = NULL
  /\ UNCHANGED <<subs, nudged, cached, bonus, engaged, fired, engine, blocks, work,
                 reached, twice, excused, lost, took>>

(* _maybe_send_first_watch_nudge, when broadcasts are live *)
NudgeDue ==
  LET c == start.chat IN
  /\ In("nudge")
  /\ c \notin nudged \cup engaged
  /\ To("send")
  /\ Excuse(IF \E w \in Workers : Sweeping(w, c) THEN {c} ELSE {}, Nudge)
  /\ UNCHANGED <<flags, engine, blocks, work, reached, twice, clean, lost, took>>

NudgeNotDue ==
  /\ In("nudge")
  /\ start' = NULL
  /\ UNCHANGED <<flags, engine, blocks, work, history>>

NudgeSent ==
  /\ In("send")
  /\ start.chat \notin blocks
  /\ Arrive(start.chat, Nudge)
  /\ To("stamp")
  /\ UNCHANGED <<flags, engine, blocks, work, excused, clean, lost, took>>

(* It is not sent, or its answer is lost. *)
NudgeFails(arrives) ==
  LET c == start.chat IN
  /\ In("send")
  /\ arrives => c \notin blocks
  /\ IF arrives THEN Arrive(c, Nudge) /\ Excuse({c}, Nudge)
                ELSE UNCHANGED <<reached, twice, excused>>
  /\ start' = NULL
  /\ UNCHANGED <<flags, engine, blocks, work, clean, lost, took>>

NudgeStamp ==
  /\ In("stamp")
  /\ nudged' = nudged \cup {start.chat}
  /\ start' = NULL
  /\ UNCHANGED <<subs, marked, cached, bonus, engaged, fired, engine, blocks, work, history>>

(* The bot dies. *)
BotDies ==
  /\ start # NULL
  /\ start' = NULL
  /\ Excuse(IF start.stage = "stamp" THEN {start.chat} ELSE {}, Nudge)
  /\ lost' = IF start.stage = "grant" THEN lost \cup {start.chat} ELSE lost
  /\ UNCHANGED <<flags, engine, blocks, work, reached, twice, clean, took>>

---------------------------------------------------------------------------
(* The world *)

(* /referral: the code is minted if need be, and stored. *)
Referral(c) ==
  /\ start = NULL
  /\ subs' = subs \cup {c}
  /\ cached' = cached \cup {c}
  /\ UNCHANGED <<marked, nudged, bonus, engaged, fired, engine, blocks, work, start, history>>

(* A watch or a scan, and none left; see Requests. *)
Engage(c) ==
  /\ start = NULL
  /\ subs' = subs \cup {c}
  /\ engaged' = engaged \cup {c}
  /\ UNCHANGED <<marked, nudged, cached, bonus, fired, engine, blocks, work, start, history>>

Disengage(c) ==
  /\ start = NULL
  /\ engaged' = engaged \ {c}
  /\ UNCHANGED <<subs, marked, nudged, cached, bonus, fired, engine, blocks, work, start, history>>

(* handle_adoption_watch_tap: a user taps the button of a nudge, his own   *)
(* chat's or a group's.  The watch is his own chat's, and so is the stamp. *)
TapNudge(c, at) ==
  /\ start = NULL
  /\ <<at, Nudge>> \in reached
  /\ c \notin Groups /\ (at = c \/ at \in Groups)
  /\ subs' = subs \cup {c}
  /\ engaged' = engaged \cup {c}
  /\ nudged' = nudged \cup {c}
  /\ took' = IF at = c THEN took ELSE took \cup {c}
  /\ UNCHANGED <<marked, cached, bonus, fired, engine, blocks, work, start,
                 reached, twice, excused, clean, lost>>

Post(n) ==
  /\ posted' = posted \cup {n}
  /\ UNCHANGED <<flags, delivered, joined, blocks, work, start, history>>

Block(c) ==
  /\ blocks' = blocks \cup {c}
  /\ clean' = clean \ {c}
  /\ UNCHANGED <<flags, engine, work, start, reached, twice, excused, lost, took>>

Unblock(c) ==
  /\ blocks' = blocks \ {c}
  /\ UNCHANGED <<flags, engine, work, start, history>>

(* _handle_forbidden of the engine, which sends alerts. *)
EngineForbidden(c) ==
  /\ c \in blocks
  /\ marked' = marked \cup {c}
  /\ UNCHANGED <<subs, nudged, cached, bonus, engaged, fired, engine, blocks, work, start, history>>

Step(w) ==
  \/ RunDigest(w) \/ RunShowcase(w)
  \/ BeginSweep(w) \/ BeginDrain(w)
  \/ NextChat(w) \/ NextNote(w)
  \/ Sent(w) \/ Fails(w) \/ Unanswered(w) \/ Forbidden(w) \/ MarkBlocked(w)
  \/ Stamp(w)
  \/ \E heard \in BOOLEAN : Deliver(w, heard)
  \/ \E stored \in BOOLEAN : Record(w, stored)
  \/ Done(w)
  \/ Dies(w)

Bot ==
  \/ \E c \in Chats, kind \in {"plain", "ref", "auth"} : Start(c, kind)
  \/ \E heard \in BOOLEAN : Attribute(heard)
  \/ NotAttributed
  \/ Grant
  \/ \E sent \in BOOLEAN : Greet(sent) \/ Welcome(sent)
  \/ NudgeDue \/ NudgeNotDue \/ NudgeSent \/ NudgeStamp
  \/ \E arrives \in BOOLEAN : NudgeFails(arrives)
  \/ BotDies

World ==
  \/ \E c \in Chats : Referral(c) \/ Engage(c) \/ Disengage(c)
  \/ \E c, at \in Chats : TapNudge(c, at)
  \/ \E c \in Chats : Block(c) \/ Unblock(c) \/ EngineForbidden(c)
  \/ \E n \in Notes : Post(n)

Next == (\E w \in Workers : Step(w)) \/ Bot \/ World

Spec == Init /\ [][Next]_vars

---------------------------------------------------------------------------
(* Properties *)

(* No chat gets a broadcast, a nudge or a notification again, whatever     *)
(* processes overlap and however often they are started, but for: an       *)
(* answer that was lost, a process that died before it recorded what it    *)
(* had sent, a record that failed, two processes at one broadcast or one   *)
(* notification, and two at one chat between look and stamp.               *)
NotTwice == twice = {}

(* A nudge is stamped and a notification marked delivered only when it     *)
(* has arrived: at the chat, or at one at least of the chats of the code.  *)
(* Nothing is written off that nobody has seen.  But for one case: a       *)
(* member of a group who takes up the nudge that the group got is stamped  *)
(* as nudged himself, though his own chat may never have been.             *)
StampedWasTold ==
  /\ \A c \in nudged : <<c, Nudge>> \in reached \/ c \in took
  /\ took # {} => \E g \in Groups : <<g, Nudge>> \in reached
  /\ \A n \in delivered : \E c \in Chats : CodeOf[c] = CodeOf[n] /\ <<c, n>> \in reached

(* The bot's bonus follows the engine's attribution: it is granted once,   *)
(* to a chat the engine has recorded, and to every such chat unless the    *)
(* engine's answer was lost or the bot died with it in hand.               *)
BonusIsTheEngines ==
  \A c \in Chats :
    /\ bonus[c] <= 1
    /\ bonus[c] = 1 => c \in joined \ lost
    /\ c \in joined \ lost => bonus[c] = 1 \/ (In("grant") /\ start.chat = c)

(* A chat that has written /start, and has not blocked the bot since, is   *)
(* not marked as blocking it, so that broadcasts and notifications reach   *)
(* it again.  Left out are a /start that links a key, and one that is      *)
(* handled while a refusal from before is still on its way to the row.     *)
StartMakesReachable == clean \cap marked = {}

=============================================================================
