------------------------------ MODULE Requests ------------------------------
(***************************************************************************)
(* The service: what a user asks of the bot and what becomes of it.        *)
(*                                                                         *)
(* The service handles one update at a time, so a handler is a step, and   *)
(* what can come between is another update, a restart, and the engine,     *)
(* which spends the same allowance.  Two guided dialogues ("wizards") and  *)
(* the confirmation of a large batch span several updates.  Their state is *)
(* in memory: which step a dialogue is at is kept for each chat and user,  *)
(* what was picked so far for each user, a batch under its token for the   *)
(* user who asked.  A restart forgets all three.                           *)
(*                                                                         *)
(* A private chat has its user's id.  A dialogue or a confirmation writes  *)
(* to the id of the user who taps, whatever chat the button is in.         *)
(*                                                                         *)
(* An exchange and an alert type have one value here.  A dialogue still    *)
(* asks for them, so that what is missing from a pick can be told.         *)
(***************************************************************************)
EXTENDS Naturals, FiniteSets

CONSTANTS
  Users,        \* users; the private chat of a user has the same id
  Groups,       \* group chats
  Coins,        \* the asset universe
  TopCoins,     \* the most active of them
  Tfs,          \* timeframes the engine answers for
  PushTfs,      \* those of them an alert can be scheduled on
  Threshold,    \* BATCH_CONFIRM_THRESHOLD
  Tokens,       \* bound: confirmations that may be asked for
  MaxRoom,      \* bound on what is left of an allowance
  MaxCalls,     \* bound on the actionable calls of a scan
  MaxAtOnce,    \* bound on what is going on at once: kinds of dialogue open,
                \* confirmations pending, a request on demand
  None

Chats == Users \cup Groups
Seats == {s \in Chats \X Users : s[1] \in Groups \cup {s[2]}}
Watches == Coins \X PushTfs

ASSUME RequestsAssumption ==
  /\ Users \cap Groups = {}
  /\ TopCoins \subseteq Coins
  /\ PushTfs \subseteq Tfs
  /\ None \notin Coins \cup Tfs \cup {"any", "oneshot", "standing"}
  /\ MaxRoom \in Nat /\ MaxCalls \in Nat

VARIABLES
  subs,      \* chats with a subscribers row
  rows,      \* rows[c]: the watchlists rows of c
  scans,     \* scans[c]: the scan_watches rows of c
  at,        \* at[s][w]: the step dialogue w of seat s is at, 0 when closed
  pick,      \* pick[u][w]: ctx.user_data of u, what was picked so far
  pending,   \* pending[t]: ctx.user_data of the user who asked, under token t
  clearing,  \* chats with a "clear all" button on view
  pull,      \* the on-demand request being answered
  own,       \* own[s][w]: what was tapped in this very dialogue (history)
  asked,     \* asked[t]: the batch that token t was issued for (history)
  answered,  \* tokens that were answered by the user they were for (history)
  want,      \* want[c]: the watches c was told it has (history)
  excused    \* chats for which the properties make an exception (history)

userData == <<pick, pending>>
history  == <<own, asked, answered, want, excused>>
serviceVars == <<subs, rows, scans, at, userData, clearing, pull, history>>

---------------------------------------------------------------------------
(* The dialogues, step by step *)

Wizards == {"watch", "scan"}
Steps   == 1..4

(* The buttons of each step: COIN, TF, EXCHANGE and MODE; KIND, TOP_N, TF  *)
(* and EXCHANGE.  The scan dialogue offers every timeframe.                *)
WatchChoices(n) == IF n = 1 THEN Coins ELSE IF n = 2 THEN PushTfs ELSE {"any"}
ScanChoices(n)  == IF n = 1 THEN {"oneshot", "standing"} ELSE IF n = 3 THEN Tfs ELSE {"any"}
Choices(w, n)   == IF w = "watch" THEN WatchChoices(n) ELSE ScanChoices(n)

(* What the last step reads from the pick: a kind that is missing is taken *)
(* for a one-shot.                                                         *)
Needs(w) == IF w = "watch" THEN 1..3 ELSE 2..3

NoPick == [n \in Steps |-> None]
Picks(w) == {p \in [Steps -> Coins \cup Tfs \cup {"any", "oneshot", "standing", None}] :
               \A n \in Steps : p[n] \in Choices(w, n) \cup {None}}

Lanes == {"scan", "regime", "call", "funding"}
Pull ==
  [chat : Chats, lane : Lanes, seat : Seats \cup {None}, stage : {"ask", "charge", "answer"},
   room : 0..MaxRoom, calls : 0..MaxCalls, due : 0..MaxCalls + 1, paid : 0..MaxCalls + 1]

(* What a confirmation stashes: the request as it was typed. *)
Batch == [chat : Chats, user : Users, all : BOOLEAN, coins : SUBSET Coins, tfs : SUBSET PushTfs]

ServiceTypeOK ==
  /\ subs \subseteq Chats
  /\ rows \in [Chats -> SUBSET Watches]
  /\ scans \in [Chats -> SUBSET PushTfs]
  /\ at \in [Seats -> [Wizards -> {0} \cup Steps]]
  /\ \A u \in Users, w \in Wizards : pick[u][w] \in Picks(w)
  /\ \A s \in Seats, w \in Wizards : own[s][w] \in Picks(w)
  /\ \A t \in Tokens : {pending[t], asked[t]} \subseteq Batch \cup {None}
  /\ clearing \subseteq Chats
  /\ pull \in Pull \cup {None}
  /\ answered \subseteq Tokens
  /\ want \in [Chats -> SUBSET Watches]
  /\ excused \subseteq Chats

ServiceInit ==
  /\ subs \in SUBSET Chats
  /\ rows = [c \in Chats |-> {}]
  /\ scans = [c \in Chats |-> {}]
  /\ at = [s \in Seats |-> [w \in Wizards |-> 0]]
  /\ pick = [u \in Users |-> [w \in Wizards |-> NoPick]]
  /\ pending = [t \in Tokens |-> None]
  /\ clearing = {}
  /\ pull = None
  /\ own = [s \in Seats |-> [w \in Wizards |-> NoPick]]
  /\ asked = [t \in Tokens |-> None]
  /\ answered = {}
  /\ want = [c \in Chats |-> {}]
  /\ excused = {}

(* What is going on, for the bound. *)
Ongoing ==
  Cardinality({w \in Wizards : \E s \in Seats : at[s][w] # 0})
    + Cardinality({t \in Tokens : pending[t] # None})

(* Updates are handled one after another. *)
Free     == pull = None
Handling == Free /\ UNCHANGED pull

---------------------------------------------------------------------------
(* Commands that need no dialogue *)

(* upsert_subscriber *)
Upsert(c) == subs' = subs \cup {c}

(* _validate_symbol: what signal-MCP makes of a symbol.  A request that     *)
(* fails is no reason to reject one.                                        *)
Verdicts == {"call", "nothing", "McpError"}
Recognised(verdict) == verdict # "nothing"

(* A symbol that is new to the chat is tried, unless it comes from the      *)
(* universe; one that is rejected stops the whole batch.                    *)
Accepted(c, new, sure, verdict) ==
  sure \/ new \subseteq rows[c] \/ Recognised(verdict)

(* add_watch_batch *)
Put(c, new) == rows' = [rows EXCEPT ![c] = @ \cup new]

(* remove_watch_batch *)
Remove(c, old) == rows' = [rows EXCEPT ![c] = @ \ old]

(* should_confirm *)
ShouldConfirm(new, all) == all \/ Cardinality(new) > Threshold

(* handle_watch, typed in a seat whose dialogue is closed: the dialogue    *)
(* holds the command, and while it is open nothing answers it.             *)
Watch(s, coins, tfs, verdict) ==
  LET new == coins \X tfs IN
  /\ Handling
  /\ at[s]["watch"] = 0
  /\ new # {} /\ ~ShouldConfirm(new, FALSE)
  /\ Upsert(s[1])
  /\ IF Accepted(s[1], new, FALSE, verdict)
       THEN Put(s[1], new) /\ want' = [want EXCEPT ![s[1]] = @ \cup new]
       ELSE UNCHANGED <<rows, want>>
  /\ UNCHANGED <<scans, at, userData, clearing, own, asked, answered, excused>>

(* handle_watch when it has to ask first: the request goes under a new     *)
(* token, and a keyboard with that token to the chat.  With the whole      *)
(* universe asked for, it must be at hand.                                 *)
AskBatch(s, t, b) ==
  /\ Handling
  /\ at[s]["watch"] = 0
  /\ Ongoing < MaxAtOnce
  /\ asked[t] = None
  /\ <<b.chat, b.user>> = s
  /\ b.tfs # {} /\ (b.all <=> b.coins = {})
  /\ ShouldConfirm(b.coins \X b.tfs, b.all)
  /\ Upsert(s[1])
  /\ pending' = [pending EXCEPT ![t] = b]
  /\ asked' = [asked EXCEPT ![t] = b]
  /\ UNCHANGED <<rows, scans, at, pick, clearing, own, answered, want, excused>>

(* The pending request of user u under token t, popped. *)
Popped(u, t) == IF pending[t] # None /\ pending[t].user = u THEN pending[t] ELSE None

PopKeeps(u, t) == UNCHANGED pending
Pop(u, t) ==
  pending' = IF Popped(u, t) = None THEN pending ELSE [pending EXCEPT ![t] = None]

(* commit_watch_batch: the coins of the choice, of a universe that may     *)
(* not be at hand any more.                                                *)
BatchCoins(b, choice, universe) ==
  CASE choice = "cancel" -> {}
    [] choice = "top" -> TopCoins \cap universe
    [] choice \notin {"cancel", "top"} -> IF b.all THEN universe ELSE b.coins

(* A tap on a button of token t by user u.  The batch goes to the list of  *)
(* u, which the table refuses when u has no subscribers row.               *)
TapBatch(u, t, choice, universe, verdict) ==
  LET b   == Popped(u, t)
      new == BatchCoins(b, choice, universe) \X b.tfs
      ok  == new # {} /\ u \in subs /\ Accepted(u, new, choice = "top" \/ b.all, verdict)
  IN  /\ Handling
      /\ asked[t] # None
      /\ <<asked[t].chat, u>> \in Seats
      /\ choice = "top" => asked[t].all
      /\ IF b = None \/ ~ok THEN UNCHANGED <<rows, want, excused>>
         ELSE /\ Put(u, new)
              /\ want' = IF t \in answered THEN want
                          ELSE [want EXCEPT ![asked[t].chat] = @ \cup new]
              /\ excused' = excused \cup (IF u = b.chat THEN {} ELSE {u, b.chat})
      /\ Pop(u, t)
      /\ answered' = IF asked[t].user = u THEN answered \cup {t} ELSE answered
      /\ UNCHANGED <<subs, scans, at, pick, clearing, own, asked>>

(* handle_unwatch: each dimension is a value or all of them. *)
Unwatch(c, coins, tfs) ==
  /\ Handling
  /\ Upsert(c)
  /\ Remove(c, coins \X tfs)
  /\ want' = [want EXCEPT ![c] = @ \ (coins \X tfs)]
  /\ UNCHANGED <<scans, at, userData, clearing, own, asked, answered, excused>>

(* handle_unwatchall asks, if there is something to clear ... *)
AsksToClear(c) == rows[c] # {}

(* ... and the chat gets a keyboard to confirm with. *)
Unwatchall(c) ==
  /\ Handling
  /\ Upsert(c)
  /\ clearing' = IF AsksToClear(c) THEN clearing \cup {c} ELSE clearing
  /\ UNCHANGED <<rows, scans, at, userData, history>>

(* A tap on that keyboard, which stays on view when it cannot be edited.   *)
(* It names no chat: the list of the user who taps is cleared.             *)
TapUnwatchall(s, yes, edited) ==
  LET c == s[1]
      u == s[2]
  IN  /\ Handling
      /\ c \in clearing
      /\ IF yes
           THEN /\ Remove(u, rows[u])
                /\ want' = [want EXCEPT ![c] = {}]
                /\ excused' = excused \cup (IF u = c THEN {} ELSE {u, c})
           ELSE UNCHANGED <<rows, want, excused>>
      /\ clearing' = IF edited THEN clearing \ {c} ELSE clearing
      /\ UNCHANGED <<subs, scans, at, userData, own, asked, answered>>

(* Commands that only read, or cannot be read: the caller is noted. *)
Note(c) == Handling /\ Upsert(c) /\ UNCHANGED <<rows, scans, at, userData, clearing, history>>
List(c) == Note(c)
Unreadable(c) == Note(c)
Help(c) == Note(c)
Upgrade(c) == Note(c)

(* Wherever the menu was shown, its buttons act for the user who taps.     *)
Menu(u) == List(u) \/ Help(u) \/ Unreadable(u)

(* handle_adoption_watch_tap.  The stamp it also writes, that the user was *)
(* nudged, is in Outreach (TapNudge).                                      *)
OneTapWatch(u, watch) == Upsert(u) /\ Put(u, {watch})

(* The one-tap button of a nudge or a digest. *)
TapAdoption(u, watch) ==
  /\ Handling
  /\ OneTapWatch(u, watch)
  /\ want' = [want EXCEPT ![u] = @ \cup {watch}]
  /\ UNCHANGED <<scans, at, userData, clearing, own, asked, answered, excused>>

(* normalize_push_timeframe: a bar as short as the engine's tick cannot be *)
(* waited for.                                                             *)
Pushable(tf) == tf \in PushTfs

(* add_scan_watch, remove_scan_watch *)
AddScanWatch(c, tf)    == scans' = [scans EXCEPT ![c] = @ \cup {tf}]
RemoveScanWatch(c, tf) == scans' = [scans EXCEPT ![c] = @ \ {tf}]

(* handle_scanwatch: a timeframe that cannot be pushed is explained. *)
Scanwatch(c, tf) ==
  /\ Upsert(c)
  /\ IF Pushable(tf) THEN AddScanWatch(c, tf) ELSE UNCHANGED scans

TypedScanwatch(s, tf) ==
  /\ Handling
  /\ at[s]["scan"] = 0
  /\ Scanwatch(s[1], tf)
  /\ UNCHANGED <<rows, at, userData, clearing, history>>

(* handle_adoption_scanwatch_tap: a digest of the defaults. *)
OneTapScan(u, tf) == Upsert(u) /\ AddScanWatch(u, tf)

TapAdoptionScan(u, tf) ==
  /\ Handling
  /\ OneTapScan(u, tf)
  /\ UNCHANGED <<rows, at, userData, clearing, history>>

Unscanwatch(c, tf) ==
  /\ Handling
  /\ Upsert(c)
  /\ RemoveScanWatch(c, tf)
  /\ UNCHANGED <<rows, at, userData, clearing, history>>

---------------------------------------------------------------------------
(* The dialogues.  A handler that fails leaves its dialogue at the step it *)
(* was at, with whatever it had put into the pick: "edited" says whether   *)
(* the message could be edited, which comes after that.                    *)

(* Another dialogue of the same kind is open for the user, in another      *)
(* chat: the two have one pick.                                            *)
SharesPick(s, w) == \E o \in Seats \ {s} : o[2] = s[2] /\ at[o][w] # 0

SetPick(s, w, p) == pick' = [pick EXCEPT ![s[2]][w] = p]
SetOwn(s, w, p)  == own' = [own EXCEPT ![s][w] = p]
Goto(s, w, n)    == at' = [at EXCEPT ![s][w] = n]
Excuse(s, why)   == excused' = IF why THEN excused \cup {s[2]} ELSE excused

(* _entry_menu: the button of the menu.  An open dialogue is not entered   *)
(* again.                                                                  *)
Enter(s, w, edited) ==
  /\ Handling
  /\ at[s][w] = 0
  /\ Ongoing < MaxAtOnce \/ SharesPick(s, w)
  /\ SetPick(s, w, NoPick)
  /\ SetOwn(s, w, NoPick)
  /\ Goto(s, w, IF edited THEN 1 ELSE 0)
  /\ Excuse(s, SharesPick(s, w))
  /\ UNCHANGED <<subs, rows, scans, pending, clearing, asked, answered, want>>

(* _pick_coin, _pick_tf, _pick_exchange and their like: every step but the *)
(* last.  A typed ticker is a pick if the universe has it.                 *)
Choose(s, w, v, edited) ==
  LET n == at[s][w] IN
  /\ Handling
  /\ n \in 1..3
  /\ v \in Choices(w, n)
  /\ SetPick(s, w, [pick[s[2]][w] EXCEPT ![n] = v])
  /\ SetOwn(s, w, [own[s][w] EXCEPT ![n] = v])
  /\ Goto(s, w, IF edited THEN n + 1 ELSE n)
  /\ UNCHANGED <<subs, rows, scans, pending, clearing, asked, answered, want, excused>>

(* _send_topn: the kind is written again, a one-shot if there is none. *)
KindAgain(q) == IF q[1] = None THEN [q EXCEPT ![1] = "oneshot"] ELSE q

(* _back_to_coin and its like. *)
Back(s, w, edited) ==
  LET n == at[s][w]
      p == pick[s[2]][w]
      again(q) == IF w = "scan" /\ n = 3 THEN KindAgain(q) ELSE q
  IN  /\ Handling
      /\ n \in 2..4
      /\ SetPick(s, w, again(p))
      /\ SetOwn(s, w, again(own[s][w]))
      /\ Goto(s, w, IF edited THEN n - 1 ELSE n)
      /\ UNCHANGED <<subs, rows, scans, pending, clearing, asked, answered, want, excused>>

(* _cancel, by its button or by /cancel. *)
Cancel(s, w, edited) ==
  /\ Handling
  /\ at[s][w] # 0
  /\ SetPick(s, w, NoPick)
  /\ SetOwn(s, w, NoPick)
  /\ Goto(s, w, IF edited THEN 0 ELSE at[s][w])
  /\ Excuse(s, ~edited)
  /\ UNCHANGED <<subs, rows, scans, pending, clearing, asked, answered, want>>

EnterWatch(s, edited)    == Enter(s, "watch", edited)
EnterScan(s, edited)     == Enter(s, "scan", edited)
PickWatch(s, v, edited)  == Choose(s, "watch", v, edited)
PickScan(s, v, edited)   == Choose(s, "scan", v, edited)
BackWatch(s, edited)     == Back(s, "watch", edited)
BackScan(s, edited)      == Back(s, "scan", edited)
CancelWatch(s, edited)   == Cancel(s, "watch", edited)
CancelScan(s, edited)    == Cancel(s, "scan", edited)

(* /cancel is offered to the watch dialogue first. *)
TypedCancel(s, sent) ==
  IF at[s]["watch"] # 0 THEN CancelWatch(s, sent) ELSE CancelScan(s, sent)

Complete(p, w) == \A n \in Needs(w) : p[n] # None

(* _pick_mode: "Added" is answered first; then the watch is committed to   *)
(* the list of the user, which takes a complete pick and a subscribers     *)
(* row; then the message becomes its card.                                 *)
FinishWatch(s, edited) ==
  LET u  == s[2]
      p  == pick[u]["watch"]
      ok == Complete(p, "watch") /\ u \in subs
  IN  /\ Handling
      /\ at[s]["watch"] = 4
      /\ IF ok
           THEN /\ Put(u, {<<p[1], p[2]>>})
                /\ Excuse(s, ~Complete(own[s]["watch"], "watch"))
                /\ Goto(s, "watch", IF edited THEN 0 ELSE 4)
                /\ IF edited THEN SetPick(s, "watch", NoPick) /\ SetOwn(s, "watch", NoPick)
                             ELSE UNCHANGED <<pick, own>>
           ELSE Excuse(s, u \notin subs) /\ UNCHANGED <<rows, at, pick, own>>
      /\ want' = IF Complete(own[s]["watch"], "watch")
                   THEN [want EXCEPT ![u] = @ \cup {<<own[s]["watch"][1], own[s]["watch"][2]>>}]
                   ELSE want
      /\ UNCHANGED <<subs, scans, pending, clearing, asked, answered>>

---------------------------------------------------------------------------
(* On-demand requests *)

(* handle_scan, handle_regime, handle_funding: refused when nothing is     *)
(* left, before anything is asked.  handle_call asks first.  What is left  *)
(* is the business of QuotaMeter.                                          *)
Gate(c, lane, seat, room) ==
  /\ Upsert(c)
  /\ pull' = IF lane # "call" /\ room = 0 THEN None
             ELSE [chat |-> c, lane |-> lane, seat |-> seat, stage |-> "ask",
                   room |-> room, calls |-> 0, due |-> 0, paid |-> 0]

Ask(s, lane, room) ==
  /\ Free
  /\ Ongoing < MaxAtOnce
  /\ lane = "scan" => at[s]["scan"] = 0
  /\ Gate(s[1], lane, None, room)
  /\ UNCHANGED <<rows, scans, at, userData, clearing, history>>

(* The menu asks for the funding scan of the user who taps. *)
MenuFunding(u, room) ==
  /\ Free
  /\ Ongoing < MaxAtOnce
  /\ Gate(u, "funding", None, room)
  /\ UNCHANGED <<rows, scans, at, userData, clearing, history>>

(* _pick_exchange of the scan dialogue, its last step: a standing digest   *)
(* is stored, a one-shot is answered in place.  A pick with a gap raises.  *)
Closed(s, edited) ==
  IF edited
    THEN /\ SetPick(s, "scan", NoPick) /\ SetOwn(s, "scan", NoPick) /\ Goto(s, "scan", 0)
    ELSE UNCHANGED <<pick, own, at>>

FinishStanding(s, edited) ==
  LET p == pick[s[2]]["scan"] IN
  /\ Handling
  /\ at[s]["scan"] = 4
  /\ Complete(p, "scan")
  /\ p[1] = "standing"
  /\ Scanwatch(s[2], p[3])
  /\ Closed(s, edited)
  /\ UNCHANGED <<rows, pending, clearing, asked, answered, want, excused>>

FinishOneshot(s, room, edited) ==
  LET p == pick[s[2]]["scan"] IN
  /\ Free
  /\ at[s]["scan"] = 4
  /\ Complete(p, "scan")
  /\ p[1] # "standing"
  /\ Gate(s[2], "scan", s, room)
  /\ IF pull' = None THEN Closed(s, edited) ELSE UNCHANGED <<pick, own, at>>
  /\ UNCHANGED <<rows, scans, pending, clearing, asked, answered, want, excused>>

(* The units a lane charges for what signal-MCP answered. *)
ScanPriceNoFloor(calls) == calls
ScanPrice(calls) == IF calls = 0 THEN 1 ELSE calls
CallPrice(calls) == calls
RegimePrice == 1
FundingPrice == 1
Price(lane, calls) ==
  CASE lane = "scan" -> ScanPrice(calls)
    [] lane = "call" -> CallPrice(calls)
    [] lane = "regime" -> RegimePrice
    [] lane = "funding" -> FundingPrice

(* A result, with so many actionable calls; /call shows a HOLD  *)
(* free and gates a BUY or a SELL.                                         *)
Answered(calls) ==
  /\ pull # None
  /\ pull.stage = "ask"
  /\ calls > 0 => pull.lane = "scan" \/ (pull.lane = "call" /\ calls = 1)
  /\ LET due == Price(pull.lane, calls) IN
     IF pull.lane = "call" /\ calls = 1 /\ pull.room = 0
       THEN pull' = None
       ELSE pull' = [pull EXCEPT !.calls = calls, !.due = due,
                                 !.stage = IF due = 0 THEN "answer" ELSE "charge"]
  /\ UNCHANGED <<subs, rows, scans, at, userData, clearing, history>>

(* consume_quota or record_call_delivered, once for each unit. *)
Charge ==
  /\ pull # None
  /\ pull.stage = "charge"
  /\ pull' = [pull EXCEPT !.due = @ - 1, !.paid = @ + 1,
                           !.stage = IF pull.due = 1 THEN "answer" ELSE "charge"]
  /\ UNCHANGED <<subs, rows, scans, at, userData, clearing, history>>

(* The reply is sent, or cannot be; so is the apology for a call that      *)
(* failed, and the word on a symbol that is unknown.                       *)
Reply(sent) ==
  /\ pull # None
  /\ pull.stage \in {"ask", "answer"}
  /\ pull' = None
  /\ IF pull.seat = None THEN UNCHANGED <<pick, own, at>> ELSE Closed(pull.seat, sent)
  /\ UNCHANGED <<subs, rows, scans, pending, clearing, asked, answered, want, excused>>

---------------------------------------------------------------------------
(* What happens to the service *)

(* The engine, or a request before, spends the allowance. *)
OthersSpend ==
  /\ pull # None
  /\ pull.room > 0
  /\ pull' = [pull EXCEPT !.room = @ - 1]
  /\ UNCHANGED <<subs, rows, scans, at, userData, clearing, history>>

(* A restart: the application is built without persistence. *)
Restart ==
  /\ at' = [s \in Seats |-> [w \in Wizards |-> 0]]
  /\ pick' = [u \in Users |-> [w \in Wizards |-> NoPick]]
  /\ own' = [s \in Seats |-> [w \in Wizards |-> NoPick]]
  /\ pending' = [t \in Tokens |-> None]
  /\ pull' = None
  /\ UNCHANGED <<subs, rows, scans, clearing, asked, answered, want, excused>>

Commands ==
  \/ \E s \in Seats, coins \in SUBSET Coins, tfs \in SUBSET PushTfs :
       \/ \E verdict \in Verdicts : Watch(s, coins, tfs, verdict)
       \/ \E t \in Tokens, all \in BOOLEAN :
            AskBatch(s, t, [chat |-> s[1], user |-> s[2], all |-> all,
                            coins |-> coins, tfs |-> tfs])
  \/ \E u \in Users, t \in Tokens, choice \in {"add", "top", "cancel"},
        universe \in {{}, Coins}, verdict \in Verdicts :
          TapBatch(u, t, choice, universe, verdict)
  \/ \E c \in Chats, coins \in {Coins} \cup {{x} : x \in Coins},
        tfs \in {PushTfs} \cup {{x} : x \in PushTfs} : Unwatch(c, coins, tfs)
  \/ \E c \in Chats :
       Unwatchall(c) \/ List(c) \/ Help(c) \/ Upgrade(c) \/ Unreadable(c)
  \/ \E u \in Users : Menu(u)
  \/ \E s \in Seats, yes, edited \in BOOLEAN : TapUnwatchall(s, yes, edited)
  \/ \E u \in Users, watch \in Watches : TapAdoption(u, watch)
  \/ \E s \in Seats, tf \in Tfs : TypedScanwatch(s, tf)
  \/ \E u \in Users, tf \in PushTfs : TapAdoptionScan(u, tf)
  \/ \E c \in Chats, tf \in PushTfs : Unscanwatch(c, tf)

Dialogues ==
  \E s \in Seats, edited \in BOOLEAN :
    \/ EnterWatch(s, edited) \/ EnterScan(s, edited)
    \/ \E v \in WatchChoices(at[s]["watch"]) : PickWatch(s, v, edited)
    \/ \E v \in ScanChoices(at[s]["scan"]) : PickScan(s, v, edited)
    \/ BackWatch(s, edited) \/ BackScan(s, edited)
    \/ CancelWatch(s, edited) \/ CancelScan(s, edited)
    \/ TypedCancel(s, edited)
    \/ FinishWatch(s, edited)
    \/ FinishStanding(s, edited)
    \/ \E room \in 0..MaxRoom : FinishOneshot(s, room, edited)

Pulls ==
  \/ \E s \in Seats, lane \in Lanes, room \in 0..MaxRoom : Ask(s, lane, room)
  \/ \E u \in Users, room \in 0..MaxRoom : MenuFunding(u, room)
  \/ \E calls \in 0..MaxCalls : Answered(calls)
  \/ Charge
  \/ \E sent \in BOOLEAN : Reply(sent)

ServiceNext ==
  \/ Commands
  \/ Dialogues
  \/ Pulls
  \/ OthersSpend
  \/ Restart

ServiceSpec == ServiceInit /\ [][ServiceNext]_serviceVars

---------------------------------------------------------------------------
(* Properties *)

(* A watch list is what its chat was told it is: whatever dialogues,       *)
(* confirmations and commands cross, whatever is tapped twice or after a   *)
(* restart, no watch is there that was not asked for, or that was removed  *)
(* since, and none is missing.  Excused are a confirmation tapped in a     *)
(* group, two dialogues of a user that share a pick, a cancelled dialogue  *)
(* whose message stays, and a user the table does not know.                *)
ListIsWhatWasAsked == \A c \in Chats \ excused : rows[c] = want[c]

(* What is answered on demand has been charged: every actionable call of   *)
(* it, and of a lane that charges for the asking at least one unit; a HOLD *)
(* of /call is free.  It was charged before it is sent, so that a restart  *)
(* or a failed send costs the user, never the operator.                    *)
AnswerIsPaid ==
  pull # None /\ pull.stage = "answer" =>
    /\ pull.paid >= pull.calls
    /\ pull.lane # "call" => pull.paid >= 1
    /\ pull.lane = "call" /\ pull.calls = 0 => pull.paid = 0
=============================================================================
