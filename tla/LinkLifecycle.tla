--------------------------- MODULE LinkLifecycle ---------------------------
(***************************************************************************)
(* The life of a link between a chat and an API key.  /start auth_<key>    *)
(* asks signal-MCP about the key and links the chat.  The drain asks about *)
(* the key of every linked chat that is not marked as unreachable, all of  *)
(* them first, and only then judges each chat by its answer: an answer     *)
(* that nobody could give holds, a positive one ends the streak of         *)
(* negative ones, and a streak that is old enough and long enough ends the *)
(* link, after a notice.  A negative answer counts only if some other key  *)
(* got a positive one in this pass, or if its reason vouches for itself: a *)
(* fault that makes the server deny every key must not end every link.     *)
(* Drain passes do not overlap here; a process may die between any two     *)
(* steps.  What a chat tells the user is left out.                         *)
(***************************************************************************)
EXTENDS Integers, FiniteSets

CONSTANTS
  NULL,
  Chats,            \* chat ids, in whose order the drain visits its chats
  Keys,             \* API keys
  Blockers,         \* chats whose users may block the bot
  Grace,            \* LINK_INVALID_GRACE, in ticks of the clock
  MinObservations,  \* MIN_INVALID_OBSERVATIONS
  MaxLinks,         \* bound on the links made
  MaxCrashes        \* bound on the crashes

ASSUME LinkLifecycleAssumption ==
  /\ NULL \notin Keys
  /\ Chats \subseteq Nat /\ IsFiniteSet(Chats) /\ Blockers \subseteq Chats
  /\ {Grace, MinObservations} \subseteq Nat \ {0}
  /\ {MaxLinks, MaxCrashes} \subseteq Nat

VARIABLES
  link,      \* link[c]: linked_api_key, or NULL
  streak,    \* link_invalid_streak, counted up to MinObservations
  age,       \* age[c]: ticks since link_invalid_since, up to Grace, or NULL
  pass,      \* where the drain pass is
  server,    \* how signal-MCP is
  standing,  \* standing[k]: what Stripe has of the key's subscription
  blocked,   \* chats with bot_blocked_at set
  relinked,  \* chats whose streak or pass may be another key's (history)
  told,      \* chats told of a downgrade that has not come (history)
  echoes,    \* notices to chats that were told already (history)
  links,     \* how often a chat was linked
  crashes    \* how often the drain died

store   == <<link, streak, age>>
world   == <<server, standing, blocked>>
history == <<relinked, told, echoes>>
bounds  == <<links, crashes>>
vars    == <<store, pass, world, history, bounds>>

(* VALID stands for DUNNING too: a past_due customer is a paying one to    *)
(* every reader of the answer (KeyCheck.corroborates).  EXHAUSTED is the   *)
(* INVALID whose reason is in SELF_CORROBORATING_REASONS.                  *)
Checks    == {"VALID", "INVALID", "EXHAUSTED", "INDETERMINATE"}
Servers   == {"up", "down", "denies"}
Standings == {"active", "ended", "exhausted"}
Good(k)   == standing[k] = "active"

(* keys: those still to be asked about.  checks: the answers still to be   *)
(* judged.  divided: a fault of the server divided the answers (history).  *)
IdlePass == [at |-> "idle", keys |-> <<>>, checks |-> <<>>,
             corroborated |-> FALSE, divided |-> FALSE]
InPass   == DOMAIN pass.keys \cup DOMAIN pass.checks
NoneOf(f) == [c \in Chats |-> f]

Init ==
  /\ link = NoneOf(NULL)
  /\ streak = NoneOf(0)
  /\ age = NoneOf(NULL)
  /\ pass = IdlePass
  /\ server = "up"
  /\ standing = [k \in Keys |-> "active"]
  /\ blocked = {}
  /\ relinked = {}
  /\ told = {}
  /\ echoes = 0
  /\ links = 0
  /\ crashes = 0

---------------------------------------------------------------------------
(* What the validator answers *)

Truth == [active |-> "VALID", ended |-> "INVALID", exhausted |-> "EXHAUSTED"]

(* validate_api_key: "down" is every way of not being answered, "denies" a *)
(* fault of the server's configuration that makes it answer 404 to all.    *)
Check(k) ==
  CASE server = "down"            -> "INDETERMINATE"
    [] server = "denies"          -> "INVALID"
    [] server = "up"              -> Truth[standing[k]]

Determined(check)        == check \in {"INVALID", "EXHAUSTED"}
Corroborates(check)      == check = "VALID"
SelfCorroborating(check) == check = "EXHAUSTED"

(* Some key of the pass got a positive answer: the validator is telling    *)
(* the truth right now.                                                    *)
AlwaysCorroborated(checks) == TRUE
Corroborated(checks) == \E c \in DOMAIN checks : Corroborates(checks[c])

---------------------------------------------------------------------------
(* /start auth_<key> *)

(* handle_link and link_subscriber: the streak is left as it was.  A key   *)
(* that is not confirmed, or comes without a tier, leaves no trace.        *)
Link(c, k) ==
  /\ links < MaxLinks
  /\ links' = links + 1
  /\ Corroborates(Check(k))
  /\ link' = [link EXCEPT ![c] = k]
  /\ relinked' = IF link[c] # NULL /\ (streak[c] > 0 \/ c \in InPass)
                 THEN relinked \cup {c} ELSE relinked
  /\ UNCHANGED <<streak, age, pass, world, told, echoes, crashes>>

---------------------------------------------------------------------------
(* The drain *)

First(f)   == CHOOSE c \in DOMAIN f : \A d \in DOMAIN f : c <= d
Without(f) == [c \in DOMAIN f \ {First(f)} |-> f[c]]
With(f, c, v) == [d \in DOMAIN f \cup {c} |-> IF d = c THEN v ELSE f[d]]

(* paid_linked_chat_ids: a chat that cannot be reached is not asked about. *)
StartPass ==
  LET linked == {c \in Chats \ blocked : link[c] # NULL}
  IN  /\ pass = IdlePass
      /\ linked # {}
      /\ pass' = [IdlePass EXCEPT !.at = "validating", !.keys = [c \in linked |-> link[c]]]
      /\ UNCHANGED <<store, world, history, bounds>>

Validate ==
  LET c == First(pass.keys)
      checks == With(pass.checks, c, Check(pass.keys[c]))
  IN  /\ pass.at = "validating"
      /\ pass' = [pass EXCEPT
                    !.at = IF Without(pass.keys) = <<>> THEN "judging" ELSE @,
                    !.keys = Without(@), !.checks = checks,
                    !.corroborated = Corroborated(checks)]
      /\ UNCHANGED <<store, world, history, bounds>>

Now      == First(pass.checks)
Observed == pass.checks[Now]
Judging  == pass.at = "judging"

(* On to the next chat. *)
Onward(p) ==
  IF Without(p.checks) = <<>> THEN IdlePass
  ELSE [p EXCEPT !.at = "judging", !.checks = Without(p.checks)]

(* Nobody answered, or only a denial that nothing vouches for. *)
NoEvidence ==
  \/ Observed = "INDETERMINATE"
  \/ Determined(Observed) /\ ~pass.corroborated /\ ~SelfCorroborating(Observed)

(* OPS-VALIDATE-KEY-INDETERMINATE-W1: the streak is neither advanced nor reset. *)
HoldResets ==
  /\ Judging
  /\ NoEvidence
  /\ streak' = [streak EXCEPT ![Now] = 0]
  /\ age' = [age EXCEPT ![Now] = NULL]
  /\ pass' = Onward(pass)
  /\ UNCHANGED <<link, world, history, bounds>>
Hold ==
  /\ Judging
  /\ NoEvidence
  /\ pass' = Onward(pass)
  /\ UNCHANGED <<store, world, history, bounds>>

(* reset_link_invalid_streak *)
EndStreak ==
  /\ Judging
  /\ Corroborates(Observed)
  /\ streak' = [streak EXCEPT ![Now] = 0]
  /\ age' = [age EXCEPT ![Now] = NULL]
  /\ relinked' = relinked \ {Now}
  /\ pass' = Onward(pass)
  /\ UNCHANGED <<link, world, told, echoes, bounds>>

Older(n) == IF n = NULL THEN 0 ELSE n

(* advance_link_invalid_streak, and the two thresholds. *)
Advance ==
  LET n == IF streak[Now] < MinObservations THEN streak[Now] + 1 ELSE streak[Now]
      sustained == Older(age[Now]) >= Grace /\ n >= MinObservations
  IN  /\ Judging
      /\ Determined(Observed)
      /\ ~NoEvidence
      /\ streak' = [streak EXCEPT ![Now] = n]
      /\ age' = [age EXCEPT ![Now] = Older(@)]
      /\ pass' = IF sustained THEN [pass EXCEPT !.at = "notifying"] ELSE Onward(pass)
      /\ UNCHANGED <<link, world, history, bounds>>

(* _send_downgrade_notice: it may fail, or be refused, which marks the     *)
(* chat, and the link goes all the same.                                   *)
Notify ==
  /\ pass.at = "notifying"
  /\ \/ /\ told' = told \cup {Now}
        /\ echoes' = IF Now \in told THEN echoes + 1 ELSE echoes
        /\ blocked' = blocked
     \/ blocked' \in {blocked, blocked \cup ({Now} \cap Blockers)} /\ UNCHANGED <<told, echoes>>
  /\ pass' = [pass EXCEPT !.at = "unlinking"]
  /\ UNCHANGED <<store, server, standing, relinked, bounds>>

(* unlink_subscriber, whatever the chat is linked to by now. *)
TearDownLate ==
  /\ pass.at = "unlinking"
  /\ pass' = Onward(pass)
  /\ UNCHANGED <<store, world, history, bounds>>
TearDown ==
  /\ pass.at = "unlinking"
  /\ link' = [link EXCEPT ![Now] = NULL]
  /\ streak' = [streak EXCEPT ![Now] = 0]
  /\ age' = [age EXCEPT ![Now] = NULL]
  /\ told' = told \ {Now}
  /\ relinked' = relinked \ {Now}
  /\ pass' = Onward(pass)
  /\ UNCHANGED <<world, echoes, bounds>>

Crash ==
  /\ pass # IdlePass
  /\ crashes < MaxCrashes
  /\ crashes' = crashes + 1
  /\ pass' = IdlePass
  /\ UNCHANGED <<store, world, history, links>>

---------------------------------------------------------------------------
(* The world *)

Tick ==
  /\ \E c \in Chats : age[c] \notin {NULL, Grace}
  /\ age' = [c \in Chats |-> IF age[c] \in {NULL, Grace} THEN age[c] ELSE age[c] + 1]
  /\ UNCHANGED <<link, streak, pass, world, history, bounds>>

(* The server fails or recovers; a denial that begins or ends while a pass *)
(* is asking divides the pass.                                             *)
Turn(s) ==
  /\ s # server
  /\ server' = s
  /\ LET divides == "denies" \in {s, server} /\ pass.keys # <<>> /\ pass.checks # <<>>
     IN  pass' = IF divides THEN [pass EXCEPT !.divided = TRUE] ELSE pass
  /\ UNCHANGED <<store, standing, blocked, history, bounds>>

(* Stripe gives up collecting, or the subscription is ended.  What becomes *)
(* of a key that no chat holds shows nowhere.                              *)
Held == {link[c] : c \in Chats} \cup {pass.keys[c] : c \in DOMAIN pass.keys}
Move(k, s) ==
  /\ k \in Held
  /\ standing[k] = "active"
  /\ s # "active"
  /\ standing' = [standing EXCEPT ![k] = s]
  /\ UNCHANGED <<store, pass, server, blocked, history, bounds>>

(* Another message to the chat is refused, and it is marked; a plain       *)
(* /start clears the mark, and /start auth_<key> does not.  The mark shows *)
(* only when a pass starts and the chat is linked.                         *)
Mark(c) ==
  /\ link[c] # NULL
  /\ c \notin InPass
  /\ blocked' = blocked \cup {c}
  /\ UNCHANGED <<store, pass, server, standing, history, bounds>>
Unmark(c) ==
  /\ blocked' = blocked \ {c}
  /\ UNCHANGED <<store, pass, server, standing, history, bounds>>

---------------------------------------------------------------------------

DrainStep ==
  \/ StartPass
  \/ Validate
  \/ Hold
  \/ EndStreak
  \/ Advance
  \/ Notify
  \/ TearDown

Next ==
  \/ \E c \in Chats, k \in Keys : Link(c, k)
  \/ DrainStep
  \/ Crash
  \/ Tick
  \/ \E s \in Servers : Turn(s)
  \/ \E k \in Keys, s \in Standings : Move(k, s)
  \/ \E c \in Blockers : Mark(c) \/ Unmark(c)

Spec == Init /\ [][Next]_vars

(* Cron starts passes and they go on; time passes; and though signal-MCP   *)
(* may fail for ever, it does not fail whenever it is asked about a chat.  *)
Asking(c) == pass.at = "validating" /\ First(pass.keys) = c
FairSpec ==
  /\ Spec
  /\ WF_vars(DrainStep)
  /\ WF_vars(Tick)
  /\ \A c \in Chats :
       /\ SF_vars(Asking(c) /\ Turn("up"))
       /\ SF_vars(Asking(c) /\ server = "up" /\ Validate)

---------------------------------------------------------------------------
(* Properties *)

TypeOK ==
  /\ link \in [Chats -> Keys \cup {NULL}]
  /\ streak \in [Chats -> 0..MinObservations]
  /\ age \in [Chats -> 0..Grace \cup {NULL}]
  /\ pass.at \in {"idle", "validating", "judging", "notifying", "unlinking"}
  /\ \A c \in DOMAIN pass.keys : c \in Chats /\ pass.keys[c] \in Keys
  /\ \A c \in DOMAIN pass.checks : c \in Chats /\ pass.checks[c] \in Checks
  /\ server \in Servers
  /\ standing \in [Keys -> Standings]
  /\ pass.corroborated \in BOOLEAN /\ pass.divided \in BOOLEAN
  /\ blocked \subseteq Blockers
  /\ relinked \subseteq Chats /\ told \subseteq Chats /\ echoes \in Nat
  /\ links \in 0..MaxLinks /\ crashes \in 0..MaxCrashes

(* The streak of a chat whose key is in good standing grows only in a pass *)
(* in the middle of which the server began or ceased to deny every key, so *)
(* that it spoke for one key and against another; or if the chat was       *)
(* linked anew over the streak of another key or under the pass            *)
(* (_apply_link_observation).  MIN_INVALID_OBSERVATIONS such passes are    *)
(* what it takes to end the link of a customer who pays.                   *)
PayingStreakHeld ==
  [][\A c \in Chats \ relinked :
       streak'[c] > streak[c] /\ Good(link[c]) => pass.divided]_vars

(* A chat is told of a downgrade once for each link it loses, and again    *)
(* only after a crash that came between the notice and the teardown.       *)
ToldOncePerLapse == echoes <= crashes

(* A link to a subscription that Stripe gave up on ends, though signal-MCP *)
(* fails and recovers for ever and though no other key can vouch for the   *)
(* answer: the livelock of OPS-VALIDATE-KEY-INDETERMINATE-W1 is gone.  But *)
(* for a chat that is marked as unreachable again and again, or for ever:  *)
(* nobody asks about its key (paid_linked_chat_ids).                       *)
Lapsed(c)    == link[c] # NULL /\ standing[link[c]] = "exhausted"
Reachable(c) == <>[](c \notin blocked)
ExhaustedLinkEnds == \A c \in Chats : Reachable(c) => (Lapsed(c) ~> ~Lapsed(c))
=============================================================================
