--------------------------- MODULE OutreachProofs ---------------------------
(***************************************************************************)
(* What Outreach promises of the bonus of a referral, of the mark of a     *)
(* blocked chat, of the stamps of what was sent and of sending it once,    *)
(* for any number of chats, messages and processes.                        *)
(***************************************************************************)
EXTENDS Outreach, TLAPS

(* The shape of the state, in parts.                                       *)
SetsOK ==
  /\ subs \subseteq Chats /\ marked \subseteq Chats /\ nudged \subseteq Chats
  /\ cached \subseteq Chats /\ engaged \subseteq Chats /\ joined \subseteq Chats
  /\ blocks \subseteq Chats /\ clean \subseteq Chats /\ lost \subseteq Chats
  /\ took \subseteq Chats
  /\ bonus \in [Chats -> Nat]
  /\ fired \subseteq Events
  /\ delivered \subseteq Notes /\ posted \subseteq Notes
WorkOK  == work \in [Workers -> Pass \cup {NULL}]
StartOK == start \in Starting \cup {NULL}
Shape   == SetsOK /\ WorkOK /\ StartOK

LEMMA BecomesShape ==
  ASSUME WorkOK, NEW w \in Workers, NEW p \in Pass \cup {NULL}, Becomes(w, p)
  PROVE  WorkOK' /\ work'[w] = p
  BY DEF WorkOK, Becomes

LEMMA NoTries == 0 \in 0..(SendMaxAttempts - 1)
  BY OutreachAssumption

LEMMA OnwardShape ==
  ASSUME WorkOK, NEW w \in Workers, work[w] # NULL, NEW ok \in BOOLEAN, Onward(w, ok)
  PROVE  WorkOK'
<1>1. work[w] \in Pass
  BY DEF WorkOK
<1>2. [work[w] EXCEPT !.chat = NULL, !.stage = "next", !.tries = 0,
                      !.ok = @ \/ (ok /\ work[w].kind = "drain")] \in Pass
  BY <1>1, NoTries DEF Pass
<1> QED
  BY <1>2, BecomesShape DEF Onward

LEMMA RetryShape ==
  ASSUME WorkOK, NEW w \in Workers, work[w] # NULL, Retry(w)
  PROVE  WorkOK'
<1>1. work[w] \in Pass
  BY DEF WorkOK
<1>2. CASE work[w].tries + 1 < SendMaxAttempts
  <2>1. work[w].tries + 1 \in 0..(SendMaxAttempts - 1)
    BY <1>1, <1>2, OutreachAssumption DEF Pass
  <2> QED
    BY <1>1, <1>2, <2>1, BecomesShape DEF Retry, Pass
<1> QED
  BY <1>2, OnwardShape DEF Retry

LEMMA BeginsShape ==
  ASSUME WorkOK, NEW w \in Workers, NEW kind \in {"broadcast", "sweep", "drain"},
         NEW msg \in Messages \cup {NULL}, NEW left \in SUBSET Notes,
         NEW chats \in SUBSET Chats, Begins(w, kind, msg, left, chats)
  PROVE  WorkOK'
<1>1. [kind |-> kind, msg |-> msg, left |-> left, cohort |-> chats, todo |-> chats,
       chat |-> NULL, stage |-> "next", tries |-> 0, ok |-> FALSE] \in Pass
  BY NoTries DEF Pass
<1> QED
  BY <1>1, BecomesShape DEF Begins

LEMMA WorkShape == ASSUME Shape, [Next]_vars PROVE WorkOK'
<1> USE DEF Shape
<1>0. CASE UNCHANGED work
  BY <1>0 DEF WorkOK
<1>1. ASSUME NEW w \in Workers, Step(w) PROVE WorkOK'
  <2>1. CASE RunDigest(w) \/ RunShowcase(w)
    <3>1. PICK e \in Events : BeginBroadcast(w, e)
      BY <2>1 DEF RunDigest, RunShowcase, Events
    <3> QED
      BY <3>1, BeginsShape DEF BeginBroadcast, Messages, Reachable, SetsOK
  <2>2. CASE BeginSweep(w)
    BY <2>2, BeginsShape DEF BeginSweep, Messages, Unnudged, Reachable, SetsOK
  <2>3. CASE BeginDrain(w)
    BY <2>3, BeginsShape DEF BeginDrain, SetsOK
  <2>4. CASE NextChat(w)
    <3>1. work[w] \in Pass
      BY <2>4 DEF NextChat, At, WorkOK
    <3>2. PICK c \in work[w].todo :
            IF Skip(work[w].kind, c)
              THEN Becomes(w, [work[w] EXCEPT !.todo = @ \ {c}])
              ELSE Becomes(w, [work[w] EXCEPT !.todo = @ \ {c}, !.chat = c, !.stage = "send"])
      BY <2>4 DEF NextChat
    <3>3. c \in Chats
      BY <3>1, <3>2 DEF Pass
    <3> QED
      BY <3>1, <3>2, <3>3, BecomesShape DEF Pass
  <2>5. CASE NextNote(w)
    <3>1. work[w] \in Pass
      BY <2>5 DEF NextNote, At, WorkOK
    <3>2. PICK n \in work[w].left :
            Becomes(w, [work[w] EXCEPT !.msg = n, !.left = @ \ {n}, !.ok = FALSE,
                               !.cohort = Holders(CodeOf[n]), !.todo = Holders(CodeOf[n])])
      BY <2>5 DEF NextNote
    <3>3. n \in Messages /\ Holders(CodeOf[n]) \subseteq Chats
      BY <3>1, <3>2 DEF Pass, Messages, Holders, SetsOK
    <3> QED
      BY <3>1, <3>2, <3>3, BecomesShape DEF Pass
  <2>6. CASE Sent(w)
    <3>1. CASE work[w].kind = "sweep"
      BY <2>6, <3>1, BecomesShape DEF Sent, Sending, WorkOK, Pass
    <3> QED
      BY <2>6, <3>1, OnwardShape DEF Sent, Sending
  <2>7. CASE Fails(w) \/ Unanswered(w)
    BY <2>7, RetryShape DEF Fails, Unanswered, Sending
  <2>8. CASE Forbidden(w)
    BY <2>8, BecomesShape DEF Forbidden, Sending, WorkOK, Pass
  <2>9. CASE MarkBlocked(w) \/ Stamp(w)
    BY <2>9, OnwardShape DEF MarkBlocked, Stamp
  <2>10. ASSUME NEW heard \in BOOLEAN, Deliver(w, heard) PROVE WorkOK'
    BY <2>10, BecomesShape DEF Deliver, At, WorkOK, Pass
  <2>11. ASSUME NEW stored \in BOOLEAN, Record(w, stored) PROVE WorkOK'
    BY <2>11, BecomesShape DEF Record
  <2>12. CASE Done(w) \/ Dies(w)
    BY <2>12, BecomesShape DEF Done, Dies
  <2> QED
    BY <1>1, <2>1, <2>2, <2>3, <2>4, <2>5, <2>6, <2>7, <2>8, <2>9, <2>10, <2>11, <2>12 DEF Step
<1>2. CASE Bot
  BY <1>0, <1>2 DEF Bot, Start, Attribute, NotAttributed, Grant, Greet, Welcome, NudgeDue,
     NudgeNotDue, NudgeSent, NudgeStamp, NudgeFails, BotDies
<1>3. CASE World
  BY <1>0, <1>3 DEF World, Referral, Engage, Disengage, TapNudge,
     Block, Unblock, EngineForbidden, Post
<1> QED
  BY <1>0, <1>1, <1>2, <1>3 DEF Next, vars

LEMMA StartShape == ASSUME Shape, [Next]_vars PROVE StartOK'
<1> USE DEF Shape, StartOK, Starting
<1>1. CASE UNCHANGED start
  BY <1>1
<1>2. CASE Bot
  BY <1>2 DEF Bot, Start, Attribute, NotAttributed, Grant, Greet, Welcome, NudgeDue,
     NudgeNotDue, NudgeSent, NudgeStamp, NudgeFails, BotDies, To, In
<1>3. CASE World
  BY <1>1, <1>3 DEF World, Referral, Engage, Disengage, TapNudge,
     Block, Unblock, EngineForbidden, Post
<1>4. ASSUME NEW w \in Workers, Step(w) PROVE UNCHANGED start
  BY <1>4 DEF Step, RunDigest, RunShowcase, BeginBroadcast, BeginSweep, BeginDrain, NextChat,
     NextNote, Sent, Fails, Unanswered, Forbidden, MarkBlocked, Stamp, Deliver, Record, Done,
     Dies
<1> QED
  BY <1>1, <1>2, <1>3, <1>4 DEF Next, vars


(* What a process is about: a chat while it is at one, a message of its    *)
(* kind, and for a notification the chats of its code.  ok is a drain's.   *)
Busy(p) == p.stage # "next"
Sane(p) ==
  /\ Busy(p) => p.chat \in Chats
  /\ p.stage = "stamp" => p.kind = "sweep"
  /\ p.kind = "broadcast" => p.msg \in Events
  /\ p.kind = "sweep" => p.msg = Nudge
  /\ p.ok => p.kind = "drain"
  /\ p.kind = "drain" /\ (p.ok \/ Busy(p) \/ p.todo # {}) => p.msg \in Notes
  /\ p.kind = "drain" => /\ \A c \in p.todo : CodeOf[c] = CodeOf[p.msg]
                         /\ Busy(p) => CodeOf[p.chat] = CodeOf[p.msg]
WorkSane == \A w \in Workers : work[w] # NULL => Sane(work[w])

LEMMA OnwardSane ==
  ASSUME WorkOK, NEW w \in Workers, work[w] # NULL, Sane(work[w]), NEW ok \in BOOLEAN,
         ok => Busy(work[w]), Onward(w, ok)
  PROVE  Sane(work'[w])
<1>1. work[w] \in Pass
  BY DEF WorkOK
<1>2. work'[w] = [work[w] EXCEPT !.chat = NULL, !.stage = "next", !.tries = 0,
                                 !.ok = @ \/ (ok /\ work[w].kind = "drain")]
  BY DEF WorkOK, Onward, Becomes
<1> QED
  BY <1>1, <1>2 DEF Sane, Busy, Pass

LEMMA RetrySane ==
  ASSUME WorkOK, NEW w \in Workers, work[w] # NULL, Sane(work[w]), Retry(w)
  PROVE  Sane(work'[w])
<1>1. work[w] \in Pass
  BY DEF WorkOK
<1>2. CASE work[w].tries + 1 < SendMaxAttempts
  <2>1. work'[w] = [work[w] EXCEPT !.tries = @ + 1]
    BY <1>2 DEF Retry, Becomes, WorkOK
  <2> QED
    BY <1>1, <2>1 DEF Sane, Busy, Pass
<1> QED
  BY <1>2, OnwardSane DEF Retry

LEMMA OthersKept ==
  ASSUME WorkOK, NEW w \in Workers, Step(w)
  PROVE  \A v \in Workers \ {w} : work'[v] = work[v]
  BY DEF WorkOK, Step, RunDigest, RunShowcase, BeginBroadcast, BeginSweep, BeginDrain, Begins,
     NextChat, NextNote, Sent, Fails, Unanswered, Forbidden, MarkBlocked, Stamp, Deliver, Record,
     Done, Dies, Onward, Retry, Becomes

LEMMA SaneStep == ASSUME Shape, WorkSane, [Next]_vars PROVE WorkSane'
<1> USE DEF Shape
<1>0. CASE UNCHANGED work
  BY <1>0 DEF WorkSane
<1>1. ASSUME NEW w \in Workers, Step(w) PROVE WorkSane'
  <2> SUFFICES work'[w] # NULL => Sane(work'[w])
    BY <1>1, OthersKept DEF WorkSane
  <2>0. work[w] # NULL => work[w] \in Pass /\ Sane(work[w])
    BY DEF WorkOK, WorkSane
  <2>1. CASE RunDigest(w) \/ RunShowcase(w)
    <3>1. PICK e \in Events : BeginBroadcast(w, e)
      BY <2>1 DEF RunDigest, RunShowcase, Events
    <3> QED
      BY <3>1 DEF BeginBroadcast, Begins, Becomes, WorkOK, Sane, Busy
  <2>2. CASE BeginSweep(w)
    BY <2>2 DEF BeginSweep, Begins, Becomes, WorkOK, Sane, Busy
  <2>3. CASE BeginDrain(w)
    BY <2>3 DEF BeginDrain, Begins, Becomes, WorkOK, Sane, Busy
  <2>4. CASE NextChat(w)
    <3>1. work[w] \in Pass /\ Sane(work[w]) /\ ~Busy(work[w])
      BY <2>0, <2>4 DEF NextChat, At, Busy
    <3>2. PICK c \in work[w].todo :
            IF Skip(work[w].kind, c)
              THEN Becomes(w, [work[w] EXCEPT !.todo = @ \ {c}])
              ELSE Becomes(w, [work[w] EXCEPT !.todo = @ \ {c}, !.chat = c, !.stage = "send"])
      BY <2>4 DEF NextChat
    <3>3. c \in Chats
      BY <3>1, <3>2 DEF Pass
    <3>4. CASE Skip(work[w].kind, c)
      <4>1. work'[w] = [work[w] EXCEPT !.todo = @ \ {c}]
        BY <3>2, <3>4 DEF WorkOK, Becomes
      <4> QED
        BY <3>1, <4>1 DEF Pass, Sane, Busy
    <3>5. CASE ~Skip(work[w].kind, c)
      <4>1. work'[w] = [work[w] EXCEPT !.todo = @ \ {c}, !.chat = c, !.stage = "send"]
        BY <3>2, <3>5 DEF WorkOK, Becomes
      <4> QED
        BY <3>1, <3>2, <3>3, <4>1 DEF Pass, Sane, Busy
    <3> QED
      BY <3>4, <3>5
  <2>5. CASE NextNote(w)
    <3>1. work[w] \in Pass /\ Sane(work[w]) /\ ~Busy(work[w]) /\ work[w].kind = "drain"
      BY <2>0, <2>5 DEF NextNote, At, Busy
    <3>2. PICK n \in work[w].left :
            Becomes(w, [work[w] EXCEPT !.msg = n, !.left = @ \ {n}, !.ok = FALSE,
                               !.cohort = Holders(CodeOf[n]), !.todo = Holders(CodeOf[n])])
      BY <2>5 DEF NextNote
    <3>3. n \in Notes /\ \A c \in Holders(CodeOf[n]) : CodeOf[c] = CodeOf[n]
      BY <3>1, <3>2 DEF Pass, Holders
    <3>4. work'[w] = [work[w] EXCEPT !.msg = n, !.left = @ \ {n}, !.ok = FALSE,
                                     !.cohort = Holders(CodeOf[n]), !.todo = Holders(CodeOf[n])]
      BY <3>2 DEF WorkOK, Becomes
    <3> QED
      BY <3>1, <3>3, <3>4 DEF Pass, Sane, Busy
  <2>6. CASE Sent(w)
    <3>1. work[w] # NULL /\ work[w].stage = "send"
      BY <2>6 DEF Sent, Sending
    <3>2. CASE work[w].kind = "sweep"
      BY <2>0, <2>6, <3>1, <3>2 DEF Sent, Becomes, WorkOK, Pass, Sane, Busy
    <3> QED
      BY <2>0, <2>6, <3>1, <3>2, OnwardSane DEF Sent, Busy
  <2>7. CASE Fails(w) \/ Unanswered(w)
    BY <2>0, <2>7, RetrySane DEF Fails, Unanswered, Sending
  <2>8. CASE Forbidden(w)
    BY <2>0, <2>8 DEF Forbidden, Sending, Becomes, WorkOK, Pass, Sane, Busy
  <2>9. CASE MarkBlocked(w) \/ Stamp(w)
    BY <2>0, <2>9, OnwardSane DEF MarkBlocked, Stamp, Busy
  <2>10. ASSUME NEW heard \in BOOLEAN, Deliver(w, heard) PROVE Sane(work'[w])
    <3>1. work[w] \in Pass /\ Sane(work[w]) /\ ~Busy(work[w]) /\ work[w].todo = {}
      BY <2>0, <2>10 DEF Deliver, DeliverDue, At, Busy
    <3>2. work'[w] = [work[w] EXCEPT !.ok = FALSE, !.msg = NULL, !.cohort = {}]
      BY <2>10 DEF Deliver, Becomes, WorkOK
    <3>3. work[w].kind = "drain"
      BY <2>10 DEF Deliver
    <3> QED
      BY <3>1, <3>2, <3>3 DEF Pass, Sane, Busy
  <2>11. ASSUME NEW stored \in BOOLEAN, Record(w, stored) PROVE work'[w] = NULL
    BY <2>11, BecomesShape DEF Record
  <2>12. CASE Done(w) \/ Dies(w)
    BY <2>12, BecomesShape DEF Done, Dies
  <2> QED
    BY <1>1, <2>1, <2>2, <2>3, <2>4, <2>5, <2>6, <2>7, <2>8, <2>9, <2>10, <2>11, <2>12 DEF Step
<1>2. CASE Bot
  BY <1>0, <1>2 DEF Bot, Start, Attribute, NotAttributed, Grant, Greet, Welcome, NudgeDue,
     NudgeNotDue, NudgeSent, NudgeStamp, NudgeFails, BotDies
<1>3. CASE World
  BY <1>0, <1>3 DEF World, Referral, Engage, Disengage, TapNudge,
     Block, Unblock, EngineForbidden, Post
<1> QED
  BY <1>0, <1>1, <1>2, <1>3 DEF Next, vars

LEMMA SetsShape == ASSUME Shape, WorkSane, [Next]_vars PROVE SetsOK'
<1> USE DEF Shape
<1>0. CASE UNCHANGED <<flags, engine, blocks, clean, lost, took>>
  BY <1>0 DEF SetsOK, flags, engine
<1>1. ASSUME NEW w \in Workers, Step(w) PROVE SetsOK'
  <2>1. CASE \/ RunDigest(w) \/ RunShowcase(w) \/ BeginSweep(w) \/ BeginDrain(w)
             \/ NextChat(w) \/ NextNote(w) \/ Sent(w) \/ Fails(w) \/ Unanswered(w)
             \/ Forbidden(w) \/ Done(w) \/ Dies(w)
    BY <1>0, <2>1 DEF RunDigest, RunShowcase, BeginBroadcast, BeginSweep, BeginDrain, NextChat,
       NextNote, Sent, Fails, Unanswered, Forbidden, Done, Dies, history
  <2>0. work[w] # NULL => work[w] \in Pass /\ Sane(work[w])
    BY DEF WorkOK, WorkSane
  <2>2. CASE MarkBlocked(w)
    BY <2>0, <2>2 DEF MarkBlocked, SetsOK, engine, history, Pass, Sane, Busy
  <2>3. CASE Stamp(w)
    BY <2>0, <2>3 DEF Stamp, SetsOK, engine, history, Pass, Sane, Busy
  <2>4. ASSUME NEW heard \in BOOLEAN, Deliver(w, heard) PROVE SetsOK'
    BY <2>0, <2>4 DEF Deliver, DeliverDue, At, SetsOK, flags, Pass, Sane, Busy
  <2>5. ASSUME NEW stored \in BOOLEAN, Record(w, stored) PROVE SetsOK'
    BY <2>0, <2>5 DEF Record, At, SetsOK, engine, Pass, Sane
  <2> QED
    BY <1>1, <2>1, <2>2, <2>3, <2>4, <2>5 DEF Step
<1>2. CASE Bot
  <2>1. start # NULL => start.chat \in Chats
    BY DEF StartOK, Starting
  <2>2. CASE NotAttributed \/ NudgeNotDue \/ NudgeSent \/ NudgeDue
             \/ (\E sent \in BOOLEAN : Greet(sent)) \/ (\E arrives \in BOOLEAN : NudgeFails(arrives))
    BY <1>0, <2>2 DEF NotAttributed, NudgeNotDue, NudgeSent, NudgeDue, Greet, NudgeFails, history
  <2>3. CASE \/ \E c \in Chats, kind \in {"plain", "ref", "auth"} : Start(c, kind)
             \/ \E heard \in BOOLEAN : Attribute(heard)
             \/ NudgeStamp \/ BotDies
    BY <2>1, <2>3 DEF Start, Attribute, NudgeStamp, BotDies, In, SetsOK, flags, engine, history
  <2>4. CASE Grant
    BY <2>1, <2>4 DEF Grant, In, SetsOK, engine, history
  <2>5. CASE \E sent \in BOOLEAN : Welcome(sent)
    BY <2>1, <2>5 DEF Welcome, Unmark, In, SetsOK, engine
  <2> QED
    BY <1>2, <2>2, <2>3, <2>4, <2>5 DEF Bot
<1>3. CASE World
  BY <1>3 DEF World, Referral, Engage, Disengage, TapNudge,
     Block, Unblock, EngineForbidden, Post, SetsOK, flags,
     engine, history
<1>4. CASE UNCHANGED vars
  BY <1>0, <1>4 DEF vars, history
<1> QED
  BY <1>1, <1>2, <1>3, <1>4 DEF Next

LEMMA ShapeInit == Init => Shape /\ WorkSane
  BY DEF Init, Shape, SetsOK, WorkOK, StartOK, WorkSane

LEMMA ShapeNext == Shape /\ WorkSane /\ [Next]_vars => (Shape /\ WorkSane)'
  BY SetsShape, WorkShape, StartShape, SaneStep DEF Shape

---------------------------------------------------------------------------
(* The bonus *)

(* While a grant is under way the engine has recorded its chat, and the    *)
(* chat has no bonus yet.                                                  *)
Granting(c) == In("grant") /\ start.chat = c
BonusInv ==
  /\ BonusIsTheEngines
  /\ lost \subseteq joined
  /\ \A c \in Chats : Granting(c) => c \in joined \ lost /\ bonus[c] = 0

LEMMA BonusStep == ASSUME Shape, BonusInv, [Next]_vars PROVE BonusInv'
<1> USE DEF Shape, BonusInv, BonusIsTheEngines, Granting
<1>0. start # NULL => start \in Starting
  BY DEF StartOK
<1>1. CASE UNCHANGED <<bonus, joined, lost, start>>
  BY <1>1 DEF In
<1>2. ASSUME ~In("grant"), ~In("grant")', UNCHANGED <<bonus, joined, lost>>
      PROVE  BonusInv'
  BY <1>2
<1>3. ASSUME NEW w \in Workers, Step(w) PROVE UNCHANGED <<bonus, joined, lost, start>>
  BY <1>3 DEF Step, RunDigest, RunShowcase, BeginBroadcast, BeginSweep, BeginDrain, NextChat,
     NextNote, Sent, Fails, Unanswered, Forbidden, MarkBlocked, Stamp, Deliver, Record, Done,
     Dies, flags, engine, history
<1>4. CASE World
  BY <1>1, <1>4 DEF World, Referral, Engage, Disengage, TapNudge,
     Block, Unblock, EngineForbidden, Post, flags, engine,
     history
<1>5. CASE Bot
  <2>1. ASSUME NEW c \in Chats, NEW kind \in {"plain", "ref", "auth"}, Start(c, kind)
        PROVE  BonusInv'
    BY <1>2, <2>1 DEF Start, In, engine, history
  <2>2. ASSUME NEW heard \in BOOLEAN, Attribute(heard) PROVE BonusInv'
    <3>1. start.chat \in Chats /\ start.stage = "attribute" /\ start \in Starting
      BY <1>0, <2>2 DEF Attribute, In, Starting
    <3>2. start' = [start EXCEPT !.stage = IF Recorded(start.chat) /\ heard THEN "grant" ELSE "welcome"]
      BY <2>2 DEF Attribute, To
    <3>3. start'.chat = start.chat
          /\ start'.stage = (IF start.chat \notin joined /\ heard THEN "grant" ELSE "welcome")
      BY <3>1, <3>2 DEF Starting, Recorded
    <3>4. /\ joined' = joined \cup {start.chat}
          /\ lost' = IF start.chat \notin joined /\ ~heard THEN lost \cup {start.chat} ELSE lost
          /\ bonus' = bonus
      BY <2>2 DEF Attribute, flags
    <3>5. ~In("grant")
      BY <3>1 DEF In
    <3>6. \A c \in Chats : c \notin joined => bonus[c] = 0
      BY DEF SetsOK
    <3>7. In("grant")' => start.chat \notin joined /\ heard /\ start'.chat = start.chat
      BY <3>3 DEF In
    <3>8. start' # NULL
      BY <3>1, <3>2, OutreachNull DEF Starting
    <3>9. start.chat \notin joined /\ heard => In("grant")'
      BY <3>3, <3>8 DEF In
    <3> QED
      BY <3>1, <3>3, <3>4, <3>5, <3>6, <3>7, <3>9
  <2>3. CASE Grant
    <3>1. start.chat \in Chats /\ start.stage = "grant" /\ start \in Starting
      BY <1>0, <2>3 DEF Grant, In, Starting
    <3>2. bonus' = [bonus EXCEPT ![start.chat] = @ + 1] /\ UNCHANGED <<joined, lost>>
      BY <2>3 DEF Grant, engine, history
    <3>3. ~In("grant")'
      BY <2>3, <3>1 DEF Grant, To, In, Starting
    <3>4. Granting(start.chat)
      BY <2>3 DEF Grant
    <3> QED
      BY <3>1, <3>2, <3>3, <3>4 DEF SetsOK
  <2>4. CASE \/ NotAttributed \/ (\E sent \in BOOLEAN : Greet(sent) \/ Welcome(sent))
             \/ NudgeDue \/ NudgeNotDue \/ NudgeSent \/ NudgeStamp
             \/ (\E arrives \in BOOLEAN : NudgeFails(arrives))
    <3>1. ~In("grant") /\ UNCHANGED <<bonus, joined, lost>>
      BY <2>4 DEF NotAttributed, Greet, Welcome, NudgeDue, NudgeNotDue, NudgeSent, NudgeStamp,
         NudgeFails, In, flags, engine, history
    <3>2. ~In("grant")'
      BY <1>0, <2>4 DEF NotAttributed, Greet, Welcome, NudgeDue, NudgeNotDue, NudgeSent,
         NudgeStamp, NudgeFails, In, To, Starting
    <3> QED
      BY <1>2, <3>1, <3>2
  <2>5. CASE BotDies
    <3>1. /\ UNCHANGED <<bonus, joined>>
          /\ lost' = IF In("grant") THEN lost \cup {start.chat} ELSE lost
          /\ ~In("grant")'
      BY <2>5 DEF BotDies, In, flags, engine
    <3>2. In("grant") => start.chat \in Chats
      BY <1>0 DEF In, Starting
    <3> QED
      BY <3>1, <3>2
  <2> QED
    BY <1>5, <2>1, <2>2, <2>3, <2>4, <2>5 DEF Bot
<1>6. CASE UNCHANGED vars
  BY <1>1, <1>6 DEF vars, flags, engine, history
<1> QED
  BY <1>1, <1>3, <1>4, <1>5, <1>6 DEF Next

(* The bonus of a referral is granted once, to chats the engine has        *)
(* recorded, and to each of them whose answer was not lost, however /start *)
(* is repeated, interrupted or refused (_handle_ref_start, attribute,      *)
(* grant_referral_bonus).                                                  *)
THEOREM BonusFollowsTheEngine == Spec => []BonusIsTheEngines
<1>1. Init => Shape /\ WorkSane /\ BonusInv
  <2> SUFFICES ASSUME Init PROVE BonusInv
    BY ShapeInit
  <2> QED
    BY DEF Init, BonusInv, BonusIsTheEngines, Granting, In
<1>2. Shape /\ WorkSane /\ BonusInv /\ [Next]_vars => (Shape /\ WorkSane /\ BonusInv)'
  BY ShapeNext, BonusStep
<1>3. BonusInv => BonusIsTheEngines
  BY DEF BonusInv
<1> QED
  BY <1>1, <1>2, <1>3, PTL DEF Spec

---------------------------------------------------------------------------
(* The mark *)

(* No mark is on its way to a chat that is clean. *)
Refused(w) == work[w] # NULL /\ work[w].stage = "forbidden"
CleanInv ==
  /\ StartMakesReachable
  /\ clean \cap blocks = {}
  /\ \A w \in Workers : Refused(w) => work[w].chat \notin clean

LEMMA NotRefused ==
  ASSUME Shape, NEW w \in Workers, Step(w), Refused(w)'
  PROVE  Forbidden(w)
<1> USE DEF Shape
<1>0. work[w] # NULL => work[w] \in Pass
  BY DEF WorkOK
<1>1. ASSUME NEW ok \in BOOLEAN, work[w] # NULL, Onward(w, ok) PROVE FALSE
  <2>1. work'[w] = [work[w] EXCEPT !.chat = NULL, !.stage = "next", !.tries = 0,
                                    !.ok = @ \/ (ok /\ work[w].kind = "drain")]
    BY <1>1 DEF Onward, Becomes, WorkOK
  <2> QED
    BY <1>0, <1>1, <2>1 DEF Refused, Pass
<1>2. ASSUME Sending(w), Retry(w) PROVE FALSE
  <2>1. CASE Onward(w, FALSE)
    BY <1>1, <1>2, <2>1 DEF Sending
  <2> QED
    BY <1>0, <1>2, <2>1 DEF Retry, Sending, Becomes, WorkOK, Refused, Pass
<1>3. ASSUME NEW kind, NEW msg, NEW left, NEW chats, Begins(w, kind, msg, left, chats) PROVE FALSE
  BY <1>3 DEF Begins, Becomes, WorkOK, Refused
<1>4. ~RunDigest(w) /\ ~RunShowcase(w) /\ ~BeginSweep(w) /\ ~BeginDrain(w)
  BY <1>3 DEF RunDigest, RunShowcase, BeginBroadcast, BeginSweep, BeginDrain
<1>5. ~NextChat(w)
  BY <1>0 DEF NextChat, At, Becomes, WorkOK, Refused, Pass
<1>6. ~NextNote(w)
  <2> SUFFICES ASSUME NextNote(w) PROVE FALSE
    OBVIOUS
  <2>1. work[w] \in Pass /\ work[w].stage = "next"
    BY <1>0 DEF NextNote, At
  <2>2. PICK n \in work[w].left :
          work'[w] = [work[w] EXCEPT !.msg = n, !.left = @ \ {n}, !.ok = FALSE,
                             !.cohort = Holders(CodeOf[n]), !.todo = Holders(CodeOf[n])]
    BY DEF NextNote, Becomes, WorkOK
  <2> QED
    BY <2>1, <2>2 DEF Refused, Pass
<1>7. ~Sent(w)
  <2> SUFFICES ASSUME Sent(w) PROVE FALSE
    OBVIOUS
  <2>1. CASE work[w].kind = "sweep"
    BY <1>0, <2>1 DEF Sent, Sending, Becomes, WorkOK, Refused, Pass
  <2> QED
    BY <1>1, <2>1 DEF Sent, Sending
<1>8. ~Fails(w) /\ ~Unanswered(w)
  BY <1>2 DEF Fails, Unanswered
<1>9. ~MarkBlocked(w) /\ ~Stamp(w)
  BY <1>1 DEF MarkBlocked, Stamp
<1>10. ASSUME NEW heard \in BOOLEAN PROVE ~Deliver(w, heard)
  BY <1>0 DEF Deliver, At, Becomes, WorkOK, Refused, Pass
<1>11. ASSUME NEW stored \in BOOLEAN PROVE ~Record(w, stored)
  BY DEF Record, Becomes, WorkOK, Refused
<1>12. ~Done(w) /\ ~Dies(w)
  BY DEF Done, Dies, Becomes, WorkOK, Refused
<1> QED
  BY <1>4, <1>5, <1>6, <1>7, <1>8, <1>9, <1>10, <1>11, <1>12 DEF Step

LEMMA CleanStep == ASSUME Shape, CleanInv, [Next]_vars PROVE CleanInv'
<1> USE DEF Shape, CleanInv, StartMakesReachable
<1>1. ASSUME UNCHANGED work, UNCHANGED <<marked, blocks>>, clean' \subseteq clean
      PROVE  CleanInv'
  BY <1>1 DEF Refused
<1>2. ASSUME NEW w \in Workers, Step(w) PROVE CleanInv'
  <2>0. \A v \in Workers \ {w} : Refused(v)' => Refused(v) /\ work'[v].chat = work[v].chat
    BY <1>2, OthersKept DEF Refused
  <2>1. UNCHANGED <<clean, blocks>>
    BY <1>2 DEF Step, RunDigest, RunShowcase, BeginBroadcast, BeginSweep, BeginDrain, NextChat,
       NextNote, Sent, Fails, Unanswered, Forbidden, MarkBlocked, Stamp, Deliver, Record, Done,
       Dies, flags, engine, history
  <2>2. UNCHANGED marked \/ MarkBlocked(w)
    BY <1>2 DEF Step, RunDigest, RunShowcase, BeginBroadcast, BeginSweep, BeginDrain, NextChat,
       NextNote, Sent, Fails, Unanswered, Forbidden, Stamp, Deliver, Record, Done, Dies, flags
  <2>3. marked' \cap clean' = {}
    BY <2>1, <2>2 DEF MarkBlocked, Refused
  <2>4. Refused(w)' => Forbidden(w)
    BY <1>2, NotRefused
  <2>5. Refused(w)' => work'[w].chat \in blocks
    <3> SUFFICES ASSUME Forbidden(w) PROVE work'[w].chat \in blocks
      BY <2>4
    <3>1. work[w] \in Pass
      BY DEF Forbidden, Sending, WorkOK
    <3> QED
      BY <3>1 DEF Forbidden, Becomes, WorkOK, Pass
  <2> QED
    BY <2>0, <2>1, <2>3, <2>5
<1>3. CASE Bot
  <2>1. CASE \E sent \in BOOLEAN : Welcome(sent)
    BY <2>1 DEF Welcome, Unmark, Refused
  <2> QED
    BY <1>1, <1>3, <2>1 DEF Bot, Start, Attribute, NotAttributed, Grant, Greet, NudgeDue,
       NudgeNotDue, NudgeSent, NudgeStamp, NudgeFails, BotDies, flags, history
<1>4. CASE World
  <2>1. ASSUME NEW c \in Chats, Block(c) \/ Unblock(c) \/ EngineForbidden(c) PROVE CleanInv'
    BY <2>1 DEF Block, Unblock, EngineForbidden, flags, history, Refused
  <2> QED
    BY <1>1, <1>4, <2>1 DEF World, Referral, Engage, Disengage, TapNudge, Post, flags, history
<1>5. CASE UNCHANGED vars
  BY <1>1, <1>5 DEF vars, flags, history
<1> QED
  BY <1>2, <1>3, <1>4, <1>5 DEF Next

(* A chat that has written /start, and has not blocked the bot since, is   *)
(* not marked as blocking it, however many processes and the engine meet   *)
(* refusals meanwhile, but for a refusal that was on its way               *)
(* (handle_start, unmark_subscriber_blocked).                              *)
THEOREM StartIsReachable == Spec => []StartMakesReachable
<1>1. Init => Shape /\ WorkSane /\ CleanInv
  <2> SUFFICES ASSUME Init PROVE CleanInv
    BY ShapeInit
  <2> QED
    BY DEF Init, CleanInv, StartMakesReachable, Refused
<1>2. Shape /\ WorkSane /\ CleanInv /\ [Next]_vars => (Shape /\ WorkSane /\ CleanInv)'
  BY ShapeNext, CleanStep
<1>3. CleanInv => StartMakesReachable
  BY DEF CleanInv
<1> QED
  BY <1>1, <1>2, <1>3, PTL DEF Spec

---------------------------------------------------------------------------
(* The stamps *)

(* A process that is about to stamp, or to mark as delivered, has reached  *)
(* someone.                                                                *)
Seen(n) == \E c \in Chats : CodeOf[c] = CodeOf[n] /\ <<c, n>> \in reached
Earned(p) ==
  /\ p.stage = "stamp" => <<p.chat, Nudge>> \in reached
  /\ p.ok => Seen(p.msg)
GroupsTold == took # {} => \E g \in Groups : <<g, Nudge>> \in reached
NotesTold  == \A n \in delivered : Seen(n)
ToldInv ==
  /\ \A c \in nudged : <<c, Nudge>> \in reached \/ c \in took
  /\ GroupsTold
  /\ NotesTold
  /\ \A w \in Workers : work[w] # NULL => Earned(work[w])
  /\ In("stamp") => <<start.chat, Nudge>> \in reached

LEMMA ReachedGrows == ASSUME [Next]_vars PROVE reached \subseteq reached'
<1>1. ASSUME NEW w \in Workers, Step(w) PROVE reached \subseteq reached'
  BY <1>1 DEF Step, RunDigest, RunShowcase, BeginBroadcast, BeginSweep, BeginDrain, NextChat,
     NextNote, Sent, Fails, Unanswered, Forbidden, MarkBlocked, Stamp, Deliver, Record, Done,
     Dies, Arrive, history
<1>2. CASE Bot
  BY <1>2 DEF Bot, Start, Attribute, NotAttributed, Grant, Greet, Welcome, NudgeDue, NudgeNotDue,
     NudgeSent, NudgeStamp, NudgeFails, BotDies, Arrive, history
<1>3. CASE World
  BY <1>3 DEF World, Referral, Engage, Disengage, TapNudge,
     Block, Unblock, EngineForbidden, Post, history
<1>4. CASE UNCHANGED vars
  BY <1>4 DEF vars, history
<1> QED
  BY <1>1, <1>2, <1>3, <1>4 DEF Next

LEMMA OnwardEarned ==
  ASSUME WorkOK, NEW w \in Workers, work[w] # NULL, Earned(work[w]), NEW ok \in BOOLEAN,
         reached \subseteq reached', Onward(w, ok),
         ok /\ work[w].kind = "drain" => Seen(work[w].msg)'
  PROVE  Earned(work[w])' 
<1>1. work[w] \in Pass
  BY DEF WorkOK
<1>2. work'[w] = [work[w] EXCEPT !.chat = NULL, !.stage = "next", !.tries = 0,
                                 !.ok = @ \/ (ok /\ work[w].kind = "drain")]
  BY DEF Onward, Becomes, WorkOK
<1>3. work'[w].stage = "next" /\ work'[w].msg = work[w].msg
      /\ (work'[w].ok => work[w].ok \/ (ok /\ work[w].kind = "drain"))
  BY <1>1, <1>2 DEF Pass
<1> QED
  BY <1>3 DEF Earned, Seen

(* One step of a process, as far as it concerns what the process earned.   *)
LEMMA EarnedStep ==
  ASSUME Shape, WorkSane, NEW w \in Workers, Step(w), reached \subseteq reached',
         work[w] # NULL => Earned(work[w])
  PROVE  work'[w] # NULL => Earned(work[w])'
<1> USE DEF Shape
<1>0. work[w] # NULL => work[w] \in Pass /\ Sane(work[w])
  BY DEF WorkOK, WorkSane
<1>1. ASSUME NEW kind, NEW msg, NEW left, NEW chats, Begins(w, kind, msg, left, chats)
      PROVE  Earned(work[w])'
  BY <1>1 DEF Begins, Becomes, WorkOK, Earned
<1>2. CASE RunDigest(w) \/ RunShowcase(w) \/ BeginSweep(w) \/ BeginDrain(w)
  BY <1>1, <1>2 DEF RunDigest, RunShowcase, BeginBroadcast, BeginSweep, BeginDrain
<1>3. CASE NextChat(w)
  <2>1. work[w] \in Pass /\ Earned(work[w])
    BY <1>0, <1>3 DEF NextChat, At
  <2>2. PICK c \in work[w].todo :
          \/ work'[w] = [work[w] EXCEPT !.todo = @ \ {c}]
          \/ work'[w] = [work[w] EXCEPT !.todo = @ \ {c}, !.chat = c, !.stage = "send"]
    BY <1>3 DEF NextChat, Becomes, WorkOK
  <2>3. /\ work'[w].ok = work[w].ok /\ work'[w].msg = work[w].msg
        /\ work'[w].stage # "stamp"
    BY <1>3, <2>1, <2>2 DEF Pass, NextChat, At
  <2> QED
    BY <2>1, <2>3 DEF Earned, Seen
<1>4. CASE NextNote(w)
  <2>1. work[w] \in Pass /\ work[w].stage = "next"
    BY <1>0, <1>4 DEF NextNote, At
  <2>2. PICK n \in work[w].left :
          work'[w] = [work[w] EXCEPT !.msg = n, !.left = @ \ {n}, !.ok = FALSE,
                             !.cohort = Holders(CodeOf[n]), !.todo = Holders(CodeOf[n])]
    BY <1>4 DEF NextNote, Becomes, WorkOK
  <2>3. ~work'[w].ok /\ work'[w].stage = "next"
    BY <2>1, <2>2 DEF Pass
  <2> QED
    BY <2>3 DEF Earned
<1>5. CASE Sent(w)
  <2>1. /\ work[w] \in Pass /\ Sane(work[w]) /\ Earned(work[w]) /\ work[w].stage = "send"
        /\ <<work[w].chat, work[w].msg>> \in reached'
    BY <1>0, <1>5 DEF Sent, Sending, Arrive
  <2>2. CASE work[w].kind = "sweep"
    <3>1. work'[w] = [work[w] EXCEPT !.stage = "stamp"]
      BY <1>5, <2>2 DEF Sent, Becomes, WorkOK
    <3>2. work'[w].chat = work[w].chat /\ ~work'[w].ok /\ work[w].msg = Nudge
      BY <2>1, <2>2, <3>1 DEF Pass, Sane
    <3> QED
      BY <2>1, <3>2 DEF Earned
  <2>3. CASE work[w].kind # "sweep"
    <3>0. work'[w].msg = work[w].msg
      <4>1. work'[w] = [work[w] EXCEPT !.chat = NULL, !.stage = "next", !.tries = 0,
                                        !.ok = @ \/ (TRUE /\ work[w].kind = "drain")]
        BY <1>5, <2>3 DEF Sent, Onward, Becomes, WorkOK
      <4> QED
        BY <2>1, <4>1 DEF Pass
    <3>1. work[w].kind = "drain" => Seen(work[w].msg)'
      BY <2>1, <3>0 DEF Sane, Busy, Seen
    <3> QED
      BY <1>5, <2>1, <2>3, <3>1, OnwardEarned DEF Sent, Sending
  <2> QED
    BY <2>2, <2>3
<1>6. CASE Fails(w) \/ Unanswered(w)
  <2>1. /\ work[w] # NULL /\ work[w].stage = "send" /\ Retry(w)
        /\ work[w] \in Pass /\ Earned(work[w])
    BY <1>0, <1>6 DEF Fails, Unanswered, Sending
  <2>2. CASE work[w].tries + 1 < SendMaxAttempts
    <3>1. work'[w] = [work[w] EXCEPT !.tries = @ + 1]
      BY <2>1, <2>2 DEF Retry, Becomes, WorkOK
    <3>2. work'[w].ok = work[w].ok /\ work'[w].msg = work[w].msg /\ work'[w].stage = "send"
      BY <2>1, <3>1 DEF Pass
    <3> QED
      BY <2>1, <3>2 DEF Earned, Seen
  <2> QED
    BY <2>1, <2>2, OnwardEarned DEF Retry
<1>7. CASE Forbidden(w)
  <2>1. work[w] \in Pass /\ Earned(work[w])
    BY <1>0, <1>7 DEF Forbidden, Sending
  <2>2. work'[w] = [work[w] EXCEPT !.stage = "forbidden"]
    BY <1>7 DEF Forbidden, Becomes, WorkOK
  <2>3. work'[w].ok = work[w].ok /\ work'[w].msg = work[w].msg /\ work'[w].stage = "forbidden"
    BY <2>1, <2>2 DEF Pass
  <2> QED
    BY <2>1, <2>3 DEF Earned, Seen
<1>8. CASE MarkBlocked(w)
  BY <1>8, OnwardEarned DEF MarkBlocked
<1>9. CASE Stamp(w)
  <2>1. work[w].kind # "drain"
    BY <1>0, <1>9 DEF Stamp, Sane
  <2> QED
    BY <1>9, <2>1, OnwardEarned DEF Stamp
<1>10. ASSUME NEW heard \in BOOLEAN, Deliver(w, heard) PROVE Earned(work[w])'
  <2>1. work[w] \in Pass /\ work[w].stage = "next"
    BY <1>0, <1>10 DEF Deliver, At
  <2>2. work'[w] = [work[w] EXCEPT !.ok = FALSE, !.msg = NULL, !.cohort = {}]
    BY <1>10 DEF Deliver, Becomes, WorkOK
  <2>3. ~work'[w].ok /\ work'[w].stage = "next"
    BY <2>1, <2>2 DEF Pass
  <2> QED
    BY <2>3 DEF Earned
<1>11. ASSUME NEW stored \in BOOLEAN, Record(w, stored) PROVE work'[w] = NULL
  BY <1>11 DEF Record, Becomes, WorkOK
<1>12. CASE Done(w) \/ Dies(w)
  BY <1>12 DEF Done, Dies, Becomes, WorkOK
<1> QED
  BY <1>2, <1>3, <1>4, <1>5, <1>6, <1>7, <1>8, <1>9, <1>10, <1>11, <1>12 DEF Step

(* Nobody takes up a nudge but by tapping it. *)
LEMMA TookKept ==
  ASSUME Next, ~World
  PROVE  UNCHANGED took
<1>1. ASSUME NEW w \in Workers, Step(w) PROVE UNCHANGED took
  BY <1>1 DEF Step, RunDigest, RunShowcase, BeginBroadcast, BeginSweep, BeginDrain, NextChat,
     NextNote, Sent, Fails, Unanswered, Forbidden, MarkBlocked, Stamp, Deliver, Record, Done,
     Dies, history
<1>2. CASE Bot
  BY <1>2 DEF Bot, Start, Attribute, NotAttributed, Grant, Greet, Welcome, NudgeDue,
     NudgeNotDue, NudgeSent, NudgeStamp, NudgeFails, BotDies, history
<1> QED
  BY <1>1, <1>2 DEF Next

LEMMA TookStep ==
  ASSUME [Next]_vars, GroupsTold
  PROVE  took \subseteq took' /\ GroupsTold'
<1>1. reached \subseteq reached'
  BY ReachedGrows
<1>2. ASSUME NEW c \in Chats, NEW at \in Chats, TapNudge(c, at)
      PROVE  took' = took \/ (took' = took \cup {c} /\ at \in Groups /\ <<at, Nudge>> \in reached)
  BY <1>2 DEF TapNudge
<1>3. CASE World
  <2>1. UNCHANGED took \/ \E c, at \in Chats : TapNudge(c, at)
    BY <1>3 DEF World, Referral, Engage, Disengage, Post, Block, Unblock, EngineForbidden, history
  <2> QED
    BY <1>1, <1>2, <2>1 DEF GroupsTold
<1>4. CASE UNCHANGED took
  BY <1>1, <1>4 DEF GroupsTold
<1> QED
  BY <1>3, <1>4, TookKept DEF vars, history

LEMMA ToldStep == ASSUME Shape, WorkSane, ToldInv, [Next]_vars PROVE ToldInv'
<1> USE DEF Shape, ToldInv
<1>0. reached \subseteq reached' /\ took \subseteq took' /\ GroupsTold'
  BY ReachedGrows, TookStep
<1>1. ASSUME UNCHANGED <<nudged, delivered, work>>,
             In("stamp")' => <<start'.chat, Nudge>> \in reached'
      PROVE  ToldInv'
  BY <1>0, <1>1 DEF Earned, Seen, NotesTold
<1>2. ASSUME NEW w \in Workers, Step(w) PROVE ToldInv'
  <2>1. UNCHANGED start
    BY <1>2 DEF Step, RunDigest, RunShowcase, BeginBroadcast, BeginSweep, BeginDrain, NextChat,
       NextNote, Sent, Fails, Unanswered, Forbidden, MarkBlocked, Stamp, Deliver, Record, Done,
       Dies
  <2>2. \A v \in Workers : work'[v] # NULL => Earned(work[v])'
    <3> TAKE v \in Workers
    <3>1. CASE v = w
      BY <1>0, <1>2, <3>1, EarnedStep
    <3>2. CASE v # w
      <4>1. work'[v] = work[v]
        BY <1>2, <3>2, OthersKept
      <4> QED
        BY <1>0, <4>1 DEF Earned, Seen
    <3> QED
      BY <3>1, <3>2
  <2>3. UNCHANGED nudged \/ Stamp(w)
    BY <1>2 DEF Step, RunDigest, RunShowcase, BeginBroadcast, BeginSweep, BeginDrain, NextChat,
       NextNote, Sent, Fails, Unanswered, Forbidden, MarkBlocked, Deliver, Record, Done, Dies,
       flags
  <2>4. UNCHANGED delivered \/ \E heard \in BOOLEAN : Deliver(w, heard)
    BY <1>2 DEF Step, RunDigest, RunShowcase, BeginBroadcast, BeginSweep, BeginDrain, NextChat,
       NextNote, Sent, Fails, Unanswered, Forbidden, MarkBlocked, Stamp, Record, Done, Dies,
       engine
  <2>5. \A c \in nudged' : <<c, Nudge>> \in reached' \/ c \in took'
    BY <1>0, <2>3 DEF Stamp, Earned
  <2>6. \A n \in delivered' : Seen(n)'
    <3>1. \A n \in delivered : Seen(n)'
      BY <1>0 DEF Seen, NotesTold
    <3>2. ASSUME NEW heard \in BOOLEAN, Deliver(w, heard)
          PROVE  \A n \in delivered' : n \in delivered \/ Seen(n)
      BY <3>2 DEF Deliver, DeliverDue, At, Earned
    <3>3. \A n \in delivered' : n \in delivered \/ Seen(n)
      BY <2>4, <3>2
    <3>4. \A n : Seen(n) => Seen(n)'
      BY <1>0 DEF Seen
    <3> QED
      BY <3>1, <3>3, <3>4
  <2> QED
    BY <1>0, <2>1, <2>2, <2>5, <2>6 DEF In, NotesTold
<1>3. CASE Bot
  <2>0. start # NULL => start \in Starting
    BY DEF StartOK
  <2>1. CASE NudgeSent
    <3>1. start'.chat = start.chat
      BY <2>0, <2>1 DEF NudgeSent, In, To, Starting
    <3>2. UNCHANGED <<nudged, delivered, work>>
      BY <2>1 DEF NudgeSent, flags, engine
    <3> QED
      BY <1>1, <2>1, <3>1, <3>2 DEF NudgeSent, Arrive
  <2>2. CASE NudgeStamp
    BY <1>0, <2>2 DEF NudgeStamp, In, engine, history, Earned, Seen, NotesTold
  <2>3. CASE ~NudgeSent /\ ~NudgeStamp
    <3>1. UNCHANGED <<nudged, delivered, work>>
      BY <1>3, <2>3 DEF Bot, Start, Attribute, NotAttributed, Grant, Greet, Welcome, NudgeDue,
         NudgeNotDue, NudgeFails, BotDies, flags, engine
    <3>2. ~In("stamp")'
      BY <1>3, <2>0, <2>3 DEF Bot, Start, Attribute, NotAttributed, Grant, Greet, Welcome,
         NudgeDue, NudgeNotDue, NudgeFails, BotDies, In, To, Starting
    <3> QED
      BY <1>1, <3>1, <3>2
  <2> QED
    BY <2>1, <2>2, <2>3
<1>4. CASE World \/ UNCHANGED vars
  <2>1. UNCHANGED <<delivered, work, start>>
    BY <1>4 DEF World, Referral, Engage, Disengage, TapNudge, Block, Unblock, EngineForbidden,
       Post, vars, flags, engine
  <2>2. \A c \in nudged' : c \in nudged \/ <<c, Nudge>> \in reached \/ c \in took'
    <3>1. ASSUME NEW c \in Chats, NEW at \in Chats, TapNudge(c, at)
          PROVE  nudged' = nudged \cup {c} /\ (<<c, Nudge>> \in reached \/ c \in took')
      BY <3>1 DEF TapNudge
    <3>2. UNCHANGED nudged \/ \E c, at \in Chats : TapNudge(c, at)
      BY <1>4 DEF World, Referral, Engage, Disengage, Block, Unblock, EngineForbidden, Post,
         vars, flags
    <3> QED
      BY <3>1, <3>2
  <2>3. In("stamp")' => <<start'.chat, Nudge>> \in reached'
    BY <1>0, <2>1 DEF In
  <2>4. \A w \in Workers : work'[w] # NULL => Earned(work[w])'
    BY <1>0, <2>1 DEF Earned, Seen
  <2>5. NotesTold'
    BY <1>0, <2>1 DEF NotesTold, Seen
  <2> QED
    BY <1>0, <2>2, <2>3, <2>4, <2>5
<1> QED
  BY <1>2, <1>3, <1>4 DEF Next

(* Whatever processes overlap, whichever answers are lost and whoever dies *)
(* in between: a nudge that is stamped, and a notification that is marked  *)
(* delivered, was seen, unless the user stamped took up a group's nudge    *)
(* (_maybe_send_first_watch_nudge, first-watch-nudge,                      *)
(* handle_adoption_watch_tap, drain_referral_notifications).               *)
THEOREM StampIsEarned == Spec => []StampedWasTold
<1>1. Init => Shape /\ WorkSane /\ ToldInv
  <2> SUFFICES ASSUME Init PROVE ToldInv
    BY ShapeInit
  <2> QED
    BY DEF Init, ToldInv, GroupsTold, NotesTold, In
<1>2. Shape /\ WorkSane /\ ToldInv /\ [Next]_vars => (Shape /\ WorkSane /\ ToldInv)'
  BY ShapeNext, ToldStep
<1>3. ToldInv => StampedWasTold
  BY DEF ToldInv, GroupsTold, NotesTold, Seen, StampedWasTold
<1> QED
  BY <1>1, <1>2, <1>3, PTL DEF Spec


---------------------------------------------------------------------------
(* Nothing twice *)

(* A message that arrived and is not excused is accounted for: by a record *)
(* of it, or by the process that is about to make one.                     *)
Live(c, m) == <<c, m>> \in reached \ excused
Holds(p, c, m) ==
  /\ p.msg = m
  /\ \/ p.kind = "sweep" /\ p.stage = "stamp" /\ p.chat = c
     \/ p.kind = "broadcast" /\ c \in p.cohort
     \/ p.kind = "drain" /\ p.ok /\ c \in p.cohort
Accounted(c, m) ==
  \/ m \in fired \cup delivered
  \/ m = Nudge /\ (c \in nudged \/ (In("stamp") /\ start.chat = c))
  \/ \E w \in Workers : work[w] # NULL /\ Holds(work[w], c, m)
Accounts == \A c \in Chats, m \in Messages : Live(c, m) => Accounted(c, m)

(* What a process has yet to send.                                         *)
ToSend(p, c, m) ==
  /\ p.msg = m
  /\ \/ p.stage = "send" /\ p.chat = c
     \/ p.kind # "sweep" /\ c \in p.todo
NotYet ==
  /\ \A w \in Workers : work[w] # NULL =>
       \A c \in Chats, m \in Messages : ToSend(work[w], c, m) => ~Live(c, m)
  /\ In("send") => ~Live(start.chat, Nudge)

(* Two that are at one message, or that nudge one chat, are excused.       *)
Apart(p, q) ==
  /\ p.kind # "sweep" /\ q.kind # "sweep" /\ p.msg = q.msg =>
       \A c \in p.cohort \cap q.cohort : <<c, p.msg>> \in excused
  /\ /\ p.kind = "sweep" /\ q.kind = "sweep" /\ p.chat = q.chat
     /\ p.stage \in {"send", "stamp"} /\ q.stage \in {"send", "stamp"}
     => <<p.chat, Nudge>> \in excused
AllApart ==
  /\ \A w, v \in Workers :
       w # v /\ work[w] # NULL /\ work[v] # NULL => Apart(work[w], work[v])
  /\ \A w \in Workers, c \in Chats : Sweeping(w, c) /\ Nudging(c) => <<c, Nudge>> \in excused

(* Chats are those of the cohort, and a drain is at a notification.        *)
Listed(p) ==
  /\ p.kind # "sweep" => p.todo \subseteq p.cohort
  /\ p.kind # "sweep" /\ Busy(p) => p.chat \in p.cohort
  /\ Busy(p) => p.chat \notin p.todo
  /\ p.kind = "drain" => p.msg \in Notes \cup {NULL}
WorkListed == \A w \in Workers : work[w] # NULL => Listed(work[w])

OnceInv == WorkListed /\ AllApart /\ NotYet /\ Accounts /\ NotTwice

(* What a step of a process does to the process and to the history.        *)
Told(c, m) ==
  /\ reached' = reached \cup {<<c, m>>}
  /\ twice' = IF Live(c, m) THEN twice \cup {<<c, m>>} ELSE twice
NothingTold == UNCHANGED <<reached, twice>>
Kept(w) ==
  /\ work[w] # NULL /\ work'[w] # NULL
  /\ work'[w].kind = work[w].kind /\ work'[w].msg = work[w].msg
  /\ work'[w].cohort = work[w].cohort /\ work'[w].todo \subseteq work[w].todo
  /\ work[w].ok => work'[w].ok

StartsBroadcast(w) ==
  LET q == work'[w] IN
  /\ work[w] = NULL /\ q # NULL /\ q.stage = "next" /\ q.kind = "broadcast"
  /\ q.msg \in Events \ fired /\ q.todo = q.cohort /\ q.cohort \subseteq Chats
  /\ Shared(w, q.msg) => Chats \X {q.msg} \subseteq excused'
  /\ NothingTold
StartsOther(w) ==
  LET q == work'[w] IN
  /\ work[w] = NULL /\ q # NULL /\ q.stage = "next"
  /\ \/ q.kind = "sweep" /\ q.msg = Nudge
     \/ q.kind = "drain" /\ q.msg = NULL /\ q.todo = {} /\ q.cohort = {}
  /\ NothingTold
TurnsTo(w, c) ==
  LET q == work'[w] IN
  /\ Kept(w) /\ work[w].stage = "next" /\ c \in work[w].todo
  /\ q.stage = "send" /\ q.chat = c /\ c \notin q.todo
  /\ q.kind = "sweep" => c \notin nudged
  /\ q.kind = "sweep" /\ (Nudging(c) \/ \E v \in Workers \ {w} : Sweeping(v, c))
       => <<c, Nudge>> \in excused'
  /\ NothingTold
Tells(w) ==
  LET q == work'[w] IN
  /\ Kept(w) /\ work[w].stage = "send" /\ Told(work[w].chat, work[w].msg)
  /\ excused' = excused
  /\ q.kind = "sweep" => q.stage = "stamp" /\ q.chat = work[w].chat
  /\ q.kind # "sweep" => q.stage = "next"
  /\ q.kind = "drain" => q.ok
  /\ work[w].chat \notin q.todo
TellsUnheard(w) ==
  LET q == work'[w] IN
  /\ Kept(w) /\ work[w].stage = "send" /\ Told(work[w].chat, work[w].msg)
  /\ excused' = excused \cup {<<work[w].chat, work[w].msg>>}
  /\ q.stage = "next" \/ (q.stage = "send" /\ q.chat = work[w].chat)
Rests(w) ==
  LET q == work'[w] IN
  /\ Kept(w) /\ NothingTold /\ excused' = excused
  /\ \/ q.stage = "next"
     \/ q.stage \in {"send", "forbidden"} /\ work[w].stage = "send" /\ q.chat = work[w].chat
  /\ work[w].stage = "stamp" => work[w].chat \in nudged'
TurnsToNote(w) ==
  LET q == work'[w] IN
  /\ work[w] # NULL /\ q # NULL
  /\ work[w].kind = "drain" /\ q.kind = "drain"
  /\ work[w].stage = "next" /\ q.stage = "next" /\ ~work[w].ok
  /\ q.msg \in Notes /\ q.todo = q.cohort /\ q.cohort \subseteq Chats
  /\ q.msg \in delivered \/ Shared(w, q.msg) => q.cohort \X {q.msg} \subseteq excused'
  /\ NothingTold
Delivers(w) ==
  LET p == work[w]  q == work'[w] IN
  /\ p # NULL /\ q # NULL /\ p.kind = "drain" /\ q.kind = "drain" /\ q.stage = "next"
  /\ q.msg = NULL /\ q.todo = {} /\ q.cohort = {}
  /\ p.msg \in delivered' \/ p.cohort \X {p.msg} \subseteq excused'
  /\ NothingTold
Ends(w) ==
  LET p == work[w] IN
  /\ p # NULL /\ work'[w] = NULL
  /\ \A c \in Chats, m \in Messages :
       Holds(p, c, m) => m \in fired' \cup delivered' \/ <<c, m>> \in excused'
  /\ NothingTold

LocalStep(w) ==
  \/ StartsBroadcast(w) \/ StartsOther(w)
  \/ \E c \in Chats : TurnsTo(w, c)
  \/ Tells(w) \/ TellsUnheard(w) \/ Rests(w)
  \/ TurnsToNote(w) \/ Delivers(w) \/ Ends(w)

LEMMA Grows ==
  ASSUME [Next]_vars
  PROVE  /\ excused \subseteq excused' /\ fired \subseteq fired'
         /\ delivered \subseteq delivered' /\ nudged \subseteq nudged'
<1>1. ASSUME NEW w \in Workers, Step(w)
      PROVE  /\ excused \subseteq excused' /\ fired \subseteq fired'
             /\ delivered \subseteq delivered' /\ nudged \subseteq nudged'
  BY <1>1 DEF Step, RunDigest, RunShowcase, BeginBroadcast, BeginSweep, BeginDrain, NextChat,
     NextNote, Sent, Fails, Unanswered, Forbidden, MarkBlocked, Stamp, Deliver, Record, Done,
     Dies, Excuse, history, flags, engine
<1>2. CASE Bot
  BY <1>2 DEF Bot, Start, Attribute, NotAttributed, Grant, Greet, Welcome, NudgeDue, NudgeNotDue,
     NudgeSent, NudgeStamp, NudgeFails, BotDies, Excuse, history, flags, engine
<1>3. CASE World
  BY <1>3 DEF World, Referral, Engage, Disengage, TapNudge,
     Block, Unblock, EngineForbidden, Post, history, flags, engine
<1>4. CASE UNCHANGED vars
  BY <1>4 DEF vars, history, flags, engine
<1> QED
  BY <1>1, <1>2, <1>3, <1>4 DEF Next

LEMMA BeginsFields ==
  ASSUME WorkOK, NEW w \in Workers, NEW kind \in {"broadcast", "sweep", "drain"},
         NEW msg \in Messages \cup {NULL}, NEW left \in SUBSET Notes,
         NEW chats \in SUBSET Chats, Begins(w, kind, msg, left, chats)
  PROVE  /\ work[w] = NULL /\ work'[w] # NULL
         /\ work'[w].stage = "next" /\ work'[w].kind = kind
         /\ work'[w].msg = msg /\ work'[w].todo = chats /\ work'[w].cohort = chats
<1>1. [kind |-> kind, msg |-> msg, left |-> left, cohort |-> chats, todo |-> chats,
       chat |-> NULL, stage |-> "next", tries |-> 0, ok |-> FALSE] \in Pass
  BY NoTries DEF Pass
<1> QED
  BY <1>1, OutreachNull DEF WorkOK, Begins, Becomes

LEMMA OnwardFields ==
  ASSUME WorkOK, NEW w \in Workers, work[w] # NULL, NEW ok \in BOOLEAN, Onward(w, ok)
  PROVE  /\ Kept(w) /\ work'[w].stage = "next" /\ work'[w].todo = work[w].todo
         /\ ok /\ work[w].kind = "drain" => work'[w].ok
<1>1. work[w] \in Pass
  BY DEF WorkOK
<1>2. work'[w] = [work[w] EXCEPT !.chat = NULL, !.stage = "next", !.tries = 0,
                                 !.ok = @ \/ (ok /\ work[w].kind = "drain")]
  BY DEF Onward, Becomes, WorkOK
<1>3. work'[w] # NULL
  <2>1. [work[w] EXCEPT !.chat = NULL, !.stage = "next", !.tries = 0,
                        !.ok = @ \/ (ok /\ work[w].kind = "drain")] \in Pass
    BY <1>1, NoTries DEF Pass
  <2> QED
    BY <1>2, <2>1, OutreachNull
<1> QED
  BY <1>1, <1>2, <1>3 DEF Kept, Pass

LEMMA RetryFields ==
  ASSUME WorkOK, NEW w \in Workers, Sending(w), Retry(w)
  PROVE  /\ Kept(w)
         /\ work'[w].stage = "next" \/ (work'[w].stage = "send" /\ work'[w].chat = work[w].chat)
<1>1. work[w] \in Pass /\ work[w] # NULL /\ work[w].stage = "send"
  BY DEF WorkOK, Sending
<1>2. CASE work[w].tries + 1 < SendMaxAttempts
  <2>1. work'[w] = [work[w] EXCEPT !.tries = @ + 1]
    BY <1>2 DEF Retry, Becomes, WorkOK
  <2>2. work[w].tries + 1 \in 0..(SendMaxAttempts - 1)
    BY <1>1, <1>2, OutreachAssumption DEF Pass
  <2>3. work'[w] # NULL
    BY <1>1, <2>1, <2>2, OutreachNull DEF Pass
  <2> QED
    BY <1>1, <2>1, <2>3 DEF Kept, Pass
<1> QED
  BY <1>1, <1>2, OnwardFields DEF Retry

LEMMA StepIsLocal ==
  ASSUME Shape, WorkSane, WorkListed, NEW w \in Workers, Step(w)
  PROVE  LocalStep(w)
<1> USE DEF Shape
<1>0. work[w] # NULL => work[w] \in Pass /\ Sane(work[w]) /\ Listed(work[w])
  BY DEF WorkOK, WorkSane, WorkListed
<1>1. CASE RunDigest(w) \/ RunShowcase(w)
  <2>1. PICK e \in Events : BeginBroadcast(w, e)
    BY <1>1 DEF RunDigest, RunShowcase, Events
  <2>2. Reachable \subseteq Chats /\ e \in Messages
    BY DEF Reachable, SetsOK, Messages
  <2>3. /\ work[w] = NULL /\ work'[w] # NULL
        /\ work'[w].stage = "next" /\ work'[w].kind = "broadcast"
        /\ work'[w].msg = e /\ work'[w].todo = Reachable /\ work'[w].cohort = Reachable
    BY <2>1, <2>2, BeginsFields DEF BeginBroadcast
  <2>4. Shared(w, e) => Chats \X {e} \subseteq excused'
    BY <2>1 DEF BeginBroadcast, Excuse
  <2> QED
    BY <2>1, <2>2, <2>3, <2>4
    DEF BeginBroadcast, AlreadyFired, LocalStep, StartsBroadcast, NothingTold
<1>2. CASE BeginSweep(w) \/ BeginDrain(w)
  <2>1. Unnudged \subseteq Chats /\ posted \ delivered \subseteq Notes /\ Nudge \in Messages
    BY DEF Unnudged, Reachable, SetsOK, Messages
  <2>2. /\ work[w] = NULL /\ work'[w] # NULL /\ work'[w].stage = "next"
        /\ \/ work'[w].kind = "sweep" /\ work'[w].msg = Nudge
           \/ work'[w].kind = "drain" /\ work'[w].msg = NULL
              /\ work'[w].todo = {} /\ work'[w].cohort = {}
    BY <1>2, <2>1, BeginsFields DEF BeginSweep, BeginDrain
  <2> QED
    BY <1>2, <2>2 DEF BeginSweep, BeginDrain, LocalStep, StartsOther, NothingTold, history
<1>3. CASE NextChat(w)
  <2>1. work[w] \in Pass /\ Sane(work[w]) /\ work[w] # NULL /\ work[w].stage = "next"
    BY <1>0, <1>3 DEF NextChat, At
  <2>2. PICK c \in work[w].todo :
          IF Skip(work[w].kind, c)
            THEN Becomes(w, [work[w] EXCEPT !.todo = @ \ {c}]) /\ UNCHANGED excused
            ELSE /\ Becomes(w, [work[w] EXCEPT !.todo = @ \ {c}, !.chat = c, !.stage = "send"])
                 /\ Excuse(IF /\ work[w].kind = "sweep"
                              /\ Nudging(c) \/ \E v \in Workers \ {w} : Sweeping(v, c)
                             THEN {c} ELSE {}, work[w].msg)
    BY <1>3 DEF NextChat
  <2>3. c \in Chats
    BY <2>1, <2>2 DEF Pass
  <2>4. NothingTold
    BY <1>3 DEF NextChat, NothingTold
  <2>5. CASE Skip(work[w].kind, c)
    <3>1. work'[w] = [work[w] EXCEPT !.todo = @ \ {c}] /\ excused' = excused
      BY <2>2, <2>5 DEF Becomes, WorkOK
    <3>2. work'[w] # NULL
      BY <2>1, <3>1, OutreachNull DEF Pass
    <3>3. Kept(w) /\ work'[w].stage = "next"
      BY <2>1, <3>1, <3>2 DEF Kept, Pass
    <3> QED
      BY <2>1, <2>4, <3>1, <3>3 DEF LocalStep, Rests
  <2>6. CASE ~Skip(work[w].kind, c)
    <3>1. work'[w] = [work[w] EXCEPT !.todo = @ \ {c}, !.chat = c, !.stage = "send"]
      BY <2>2, <2>6 DEF Becomes, WorkOK
    <3>2. work'[w] # NULL
      BY <2>1, <2>3, <3>1, OutreachNull DEF Pass
    <3>3. /\ Kept(w) /\ work'[w].stage = "send" /\ work'[w].chat = c /\ c \notin work'[w].todo
      BY <2>1, <3>1, <3>2 DEF Kept, Pass
    <3>4. work[w].kind = "sweep" => c \notin nudged /\ work[w].msg = Nudge
      BY <2>1, <2>6 DEF Skip, Sane
    <3>5. work[w].kind = "sweep" /\ (Nudging(c) \/ \E v \in Workers \ {w} : Sweeping(v, c))
            => <<c, Nudge>> \in excused'
      BY <2>2, <2>6, <3>4 DEF Excuse
    <3>6. work'[w].kind = work[w].kind
      BY <3>3 DEF Kept
    <3>7. TurnsTo(w, c)
      BY <2>1, <2>2, <2>4, <3>3, <3>4, <3>5, <3>6 DEF TurnsTo
    <3> QED
      BY <2>3, <3>7 DEF LocalStep
  <2> QED
    BY <2>5, <2>6
<1>4. CASE NextNote(w)
  <2>1. /\ work[w] \in Pass /\ work[w] # NULL /\ work[w].kind = "drain"
        /\ work[w].stage = "next" /\ ~work[w].ok
    BY <1>0, <1>4 DEF NextNote, At
  <2>2. PICK n \in work[w].left :
          /\ Becomes(w, [work[w] EXCEPT !.msg = n, !.left = @ \ {n}, !.ok = FALSE,
                             !.cohort = Holders(CodeOf[n]), !.todo = Holders(CodeOf[n])])
          /\ Excuse(IF n \in delivered \/ Shared(w, n) THEN Holders(CodeOf[n]) ELSE {}, n)
    BY <1>4 DEF NextNote
  <2>3. n \in Notes /\ n \in Messages /\ Holders(CodeOf[n]) \subseteq Chats
    BY <2>1, <2>2 DEF Pass, Holders, SetsOK, Messages
  <2> DEFINE chats == Holders(CodeOf[n])
  <2> HIDE DEF chats
  <2>4. work'[w] = [work[w] EXCEPT !.msg = n, !.left = @ \ {n}, !.ok = FALSE,
                                   !.cohort = chats, !.todo = chats]
    BY <2>2 DEF Becomes, WorkOK, chats
  <2>5. chats \subseteq Chats /\ (n \in delivered \/ Shared(w, n) => chats \X {n} \subseteq excused')
    BY <2>2, <2>3 DEF chats, Excuse
  <2>6. work'[w] # NULL
    <3>1. [work[w] EXCEPT !.msg = n, !.left = @ \ {n}, !.ok = FALSE,
                          !.cohort = chats, !.todo = chats] \in Pass
      BY <2>1, <2>3, <2>5 DEF Pass
    <3> QED
      BY <2>4, <3>1, OutreachNull
  <2>7. /\ work'[w].kind = "drain" /\ work'[w].stage = "next" /\ work'[w].msg = n
        /\ work'[w].todo = chats /\ work'[w].cohort = chats
    BY <2>1, <2>4 DEF Pass
  <2> QED
    BY <1>4, <2>1, <2>3, <2>5, <2>6, <2>7 DEF NextNote, LocalStep, TurnsToNote, NothingTold
<1>5. CASE Sent(w)
  <2>1. /\ work[w] \in Pass /\ Sane(work[w]) /\ Listed(work[w])
        /\ work[w] # NULL /\ work[w].stage = "send"
        /\ Told(work[w].chat, work[w].msg) /\ excused' = excused
    BY <1>0, <1>5 DEF Sent, Sending, Arrive, Told, Live
  <2>2. CASE work[w].kind = "sweep"
    <3>1. work'[w] = [work[w] EXCEPT !.stage = "stamp"]
      BY <1>5, <2>2 DEF Sent, Becomes, WorkOK
    <3>2. work'[w] # NULL
      BY <2>1, <3>1, OutreachNull DEF Pass
    <3>3. /\ Kept(w) /\ work'[w].stage = "stamp" /\ work'[w].chat = work[w].chat
          /\ work'[w].todo = work[w].todo /\ work'[w].kind = "sweep"
      BY <2>1, <2>2, <3>1, <3>2 DEF Kept, Pass
    <3> QED
      BY <2>1, <3>3 DEF LocalStep, Tells, Listed, Busy
  <2>3. CASE work[w].kind # "sweep"
    <3>1. Onward(w, TRUE)
      BY <1>5, <2>3 DEF Sent
    <3>2. /\ Kept(w) /\ work'[w].stage = "next" /\ work'[w].todo = work[w].todo
          /\ work[w].kind = "drain" => work'[w].ok
      BY <2>1, <3>1, OnwardFields
    <3> QED
      BY <2>1, <2>3, <3>2 DEF LocalStep, Tells, Listed, Busy, Kept
  <2> QED
    BY <2>2, <2>3
<1>6. CASE Fails(w)
  <2>1. /\ Sending(w) /\ Retry(w) /\ NothingTold /\ excused' = excused
    BY <1>6 DEF Fails, NothingTold
  <2> QED
    BY <2>1, RetryFields DEF LocalStep, Rests, Sending
<1>7. CASE Unanswered(w)
  <2>1. /\ Sending(w) /\ Retry(w) /\ Told(work[w].chat, work[w].msg)
        /\ excused' = excused \cup {<<work[w].chat, work[w].msg>>}
    BY <1>7 DEF Unanswered, Arrive, Excuse, Told, Live
  <2> QED
    BY <2>1, RetryFields DEF LocalStep, TellsUnheard, Sending
<1>8. CASE Forbidden(w)
  <2>1. /\ work[w] \in Pass /\ work[w] # NULL /\ work[w].stage = "send" /\ NothingTold
        /\ excused' = excused
    BY <1>0, <1>8 DEF Forbidden, Sending, NothingTold
  <2>2. work'[w] = [work[w] EXCEPT !.stage = "forbidden"]
    BY <1>8 DEF Forbidden, Becomes, WorkOK
  <2>3. work'[w] # NULL
    BY <2>1, <2>2, OutreachNull DEF Pass
  <2>4. Kept(w) /\ work'[w].stage = "forbidden" /\ work'[w].chat = work[w].chat
    BY <2>1, <2>2, <2>3 DEF Kept, Pass
  <2> QED
    BY <2>1, <2>4 DEF LocalStep, Rests
<1>9. CASE MarkBlocked(w) \/ Stamp(w)
  <2>1. /\ work[w] # NULL /\ NothingTold /\ excused' = excused
        /\ Onward(w, FALSE) \/ Onward(w, TRUE)
        /\ work[w].stage = "stamp" => work[w].chat \in nudged'
    BY <1>9 DEF MarkBlocked, Stamp, NothingTold, history
  <2> QED
    BY <2>1, OnwardFields DEF LocalStep, Rests
<1>10. ASSUME NEW heard \in BOOLEAN, Deliver(w, heard) PROVE LocalStep(w)
  <2>1. /\ work[w] \in Pass /\ work[w] # NULL /\ work[w].kind = "drain"
        /\ work[w].stage = "next" /\ work[w].todo = {}
    BY <1>0, <1>10 DEF Deliver, DeliverDue, At
  <2>2. work'[w] = [work[w] EXCEPT !.ok = FALSE, !.msg = NULL, !.cohort = {}]
    BY <1>10 DEF Deliver, Becomes, WorkOK
  <2>3. work'[w] # NULL
    BY <2>1, <2>2, OutreachNull DEF Pass
  <2>4. /\ work'[w].kind = "drain" /\ work'[w].stage = "next" /\ work'[w].msg = NULL
        /\ work'[w].todo = {} /\ work'[w].cohort = {}
    BY <2>1, <2>2 DEF Pass
  <2>5. work[w].msg \in delivered' \/ work[w].cohort \X {work[w].msg} \subseteq excused'
    BY <1>10 DEF Deliver, Excuse
  <2> QED
    BY <1>10, <2>1, <2>3, <2>4, <2>5 DEF Deliver, LocalStep, Delivers, NothingTold
<1>11. ASSUME NEW stored \in BOOLEAN, Record(w, stored) PROVE LocalStep(w)
  <2>1. /\ work[w] # NULL /\ work'[w] = NULL /\ work[w].kind = "broadcast"
    BY <1>11 DEF Record, At, Becomes, WorkOK
  <2>2. work[w].msg \in fired' \/ work[w].cohort \X {work[w].msg} \subseteq excused'
    BY <1>11 DEF Record, Excuse
  <2> QED
    BY <1>11, <2>1, <2>2 DEF Record, LocalStep, Ends, Holds, NothingTold
<1>12. CASE Done(w)
  <2>1. /\ work[w] # NULL /\ work'[w] = NULL /\ work[w].kind # "broadcast"
        /\ work[w].stage = "next" /\ ~work[w].ok
    BY <1>12 DEF Done, At, Becomes, WorkOK
  <2> QED
    BY <1>12, <2>1 DEF Done, LocalStep, Ends, Holds, NothingTold, history
<1>13. CASE Dies(w)
  <2>1. /\ work[w] # NULL /\ work'[w] = NULL
    BY <1>13 DEF Dies, Becomes, WorkOK
  <2>2. /\ work[w].kind # "sweep" => work[w].cohort \X {work[w].msg} \subseteq excused'
        /\ work[w].kind = "sweep" /\ work[w].stage = "stamp"
             => <<work[w].chat, work[w].msg>> \in excused'
    BY <1>13 DEF Dies, Excuse
  <2> QED
    BY <1>13, <2>1, <2>2 DEF Dies, LocalStep, Ends, Holds, NothingTold
<1> QED
  BY <1>1, <1>2, <1>3, <1>4, <1>5, <1>6, <1>7, <1>8, <1>9, <1>10, <1>11, <1>12, <1>13 DEF Step

LEMMA StepFrame ==
  ASSUME NEW w \in Workers, Step(w)
  PROVE  UNCHANGED start
  BY DEF Step, RunDigest, RunShowcase, BeginBroadcast, BeginSweep, BeginDrain, NextChat,
     NextNote, Sent, Fails, Unanswered, Forbidden, MarkBlocked, Stamp, Deliver, Record, Done,
     Dies

LEMMA MessagesApart ==
  /\ \A m \in Messages : m # NULL
  /\ \A n \in Notes : n # Nudge /\ n \notin Events
  /\ \A e \in Events : e # Nudge /\ e \notin Notes
  /\ Nudge \in Messages /\ Events \subseteq Messages /\ Notes \subseteq Messages
  BY OutreachAssumption DEF Messages

LEMMA ListedNext ==
  ASSUME Shape, WorkSane, WorkListed, NEW w \in Workers, Step(w)
  PROVE  WorkListed'
<1>1. work'[w] # NULL => Listed(work'[w])
  <2>1. LocalStep(w)
    BY StepIsLocal
  <2>2. work[w] # NULL => Listed(work[w])
    BY DEF WorkListed
  <2>3. CASE StartsBroadcast(w) \/ StartsOther(w)
    BY <2>3 DEF StartsBroadcast, StartsOther, Listed, Busy
  <2>4. CASE \E c \in Chats : TurnsTo(w, c)
    BY <2>2, <2>4 DEF TurnsTo, Kept, Listed, Busy
  <2>5. CASE Tells(w) \/ TellsUnheard(w) \/ Rests(w)
    BY <2>2, <2>5 DEF Tells, TellsUnheard, Rests, Kept, Listed, Busy
  <2>6. CASE TurnsToNote(w) \/ Delivers(w) \/ Ends(w)
    BY <2>6 DEF TurnsToNote, Delivers, Ends, Listed, Busy
  <2> QED
    BY <2>1, <2>3, <2>4, <2>5, <2>6 DEF LocalStep
<1> QED
  BY <1>1, OthersKept DEF WorkListed, Shape

LEMMA ApartNext ==
  ASSUME Shape, WorkSane, WorkListed, AllApart, NEW w \in Workers, Step(w)
  PROVE  AllApart'
<1>0. /\ LocalStep(w) /\ start' = start /\ excused \subseteq excused'
      /\ \A v \in Workers \ {w} : work'[v] = work[v]
  BY StepIsLocal, StepFrame, Grows, OthersKept DEF Next, Shape
<1>1. ASSUME NEW v \in Workers, v # w, work'[w] # NULL, work[v] # NULL
      PROVE  Apart(work[w], work[v])'
  <2>0. /\ work'[v] = work[v] /\ Sane(work[v]) /\ Listed(work[v])
        /\ work[w] # NULL => Apart(work[w], work[v]) /\ Sane(work[w])
    BY <1>0, <1>1 DEF AllApart, WorkListed, WorkSane
  <2>1. CASE StartsBroadcast(w)
    <3>1. work'[w].kind = "broadcast" /\ work'[w].stage = "next" /\ work'[w].cohort \subseteq Chats
      BY <2>1 DEF StartsBroadcast
    <3>2. work[v].msg = work'[w].msg => Chats \X {work'[w].msg} \subseteq excused'
      BY <1>1, <2>1 DEF StartsBroadcast, Shared
    <3> QED
      BY <1>0, <2>0, <3>1, <3>2 DEF Apart
  <2>2. CASE StartsOther(w) \/ Delivers(w)
    BY <1>0, <2>2 DEF StartsOther, Delivers, Apart
  <2>3. ASSUME NEW c \in Chats, TurnsTo(w, c) PROVE Apart(work[w], work[v])'
    <3>1. /\ work'[w].kind = work[w].kind /\ work'[w].msg = work[w].msg
          /\ work'[w].cohort = work[w].cohort /\ work'[w].chat = c /\ work[w] # NULL
      BY <2>3 DEF TurnsTo, Kept
    <3>2. work'[w].kind = "sweep" /\ Sweeping(v, c) => <<c, Nudge>> \in excused'
      BY <1>1, <2>3 DEF TurnsTo
    <3> QED
      BY <1>0, <1>1, <2>0, <3>1, <3>2 DEF Apart, Sweeping
  <2>4. CASE Tells(w) \/ TellsUnheard(w) \/ Rests(w)
    <3>1. /\ work'[w].kind = work[w].kind /\ work'[w].msg = work[w].msg
          /\ work'[w].cohort = work[w].cohort /\ work[w] # NULL
      BY <2>4 DEF Tells, TellsUnheard, Rests, Kept
    <3>2. work'[w].kind = "sweep" /\ work'[w].stage \in {"send", "stamp"}
            => work[w].stage \in {"send", "stamp"} /\ work'[w].chat = work[w].chat
      BY <2>4 DEF Tells, TellsUnheard, Rests, Kept
    <3> QED
      BY <1>0, <2>0, <3>1, <3>2 DEF Apart
  <2>5. CASE TurnsToNote(w)
    <3>1. work'[w].kind = "drain" /\ work'[w].stage = "next"
      BY <2>5 DEF TurnsToNote
    <3>2. work[v].msg = work'[w].msg => work'[w].cohort \X {work'[w].msg} \subseteq excused'
      BY <1>1, <2>5 DEF TurnsToNote, Shared
    <3> QED
      BY <1>0, <2>0, <3>1, <3>2 DEF Apart
  <2> QED
    BY <1>0, <1>1, <2>1, <2>2, <2>3, <2>4, <2>5 DEF LocalStep, Ends
<1>2. ASSUME NEW v \in Workers, v # w, work'[w] # NULL, work[v] # NULL
      PROVE  Apart(work[v], work[w])'
  BY <1>1, <1>2 DEF Apart
<1>3. ASSUME NEW u \in Workers, NEW v \in Workers, u # w, v # w, u # v,
             work[u] # NULL, work[v] # NULL
      PROVE  Apart(work[u], work[v])'
  BY <1>0, <1>3 DEF AllApart, Apart
<1>4. ASSUME NEW c \in Chats, Sweeping(w, c)', Nudging(c)' PROVE <<c, Nudge>> \in excused'
  <2>0. Nudging(c)
    BY <1>0, <1>4 DEF Nudging
  <2>1. CASE \E d \in Chats : TurnsTo(w, d)
    BY <1>4, <2>0, <2>1 DEF TurnsTo, Sweeping
  <2>2. CASE Tells(w) \/ TellsUnheard(w) \/ Rests(w)
    <3>1. Sweeping(w, c)
      BY <1>4, <2>2 DEF Tells, TellsUnheard, Rests, Kept, Sweeping
    <3> QED
      BY <1>0, <2>0, <3>1 DEF AllApart
  <2> QED
    BY <1>0, <1>4, <2>1, <2>2
    DEF LocalStep, Sweeping, StartsBroadcast, StartsOther, TurnsToNote, Delivers, Ends
<1>5. ASSUME NEW v \in Workers, v # w, NEW c \in Chats, Sweeping(v, c)', Nudging(c)'
      PROVE  <<c, Nudge>> \in excused'
  BY <1>0, <1>5 DEF AllApart, Sweeping, Nudging
<1>6. \A u, v \in Workers :
        u # v /\ work'[u] # NULL /\ work'[v] # NULL => Apart(work[u], work[v])'
  <2> SUFFICES ASSUME NEW u \in Workers, NEW v \in Workers, u # v,
                      work'[u] # NULL, work'[v] # NULL
               PROVE  Apart(work[u], work[v])'
    OBVIOUS
  <2>1. CASE u = w
    <3>1. work'[v] = work[v]
      BY <1>0, <2>1
    <3> QED
      BY <1>1, <2>1, <3>1 DEF Apart
  <2>2. CASE v = w
    <3>1. work'[u] = work[u]
      BY <1>0, <2>2
    <3> QED
      BY <1>2, <2>2, <3>1 DEF Apart
  <2>3. CASE u # w /\ v # w
    <3>1. work'[u] = work[u] /\ work'[v] = work[v]
      BY <1>0, <2>3
    <3> QED
      BY <1>3, <2>3, <3>1 DEF Apart
  <2> QED
    BY <2>1, <2>2, <2>3
<1> QED
  BY <1>4, <1>5, <1>6 DEF AllApart

LEMMA KindOfMessage ==
  ASSUME WorkSane, WorkListed, NEW w \in Workers, work[w] # NULL, work[w] \in Pass,
         work[w].msg \in Messages
  PROVE  /\ work[w].kind = "sweep" <=> work[w].msg = Nudge
         /\ work[w].kind = "broadcast" <=> work[w].msg \in Events
         /\ work[w].kind = "drain" <=> work[w].msg \in Notes
<1>1. Sane(work[w]) /\ Listed(work[w]) /\ work[w].kind \in {"broadcast", "sweep", "drain"}
  BY DEF WorkSane, WorkListed, Pass
<1> QED
  BY <1>1, MessagesApart DEF Sane, Listed

LEMMA SenderIsSane ==
  ASSUME Shape, WorkSane, NEW w \in Workers, work[w] # NULL, Busy(work[w])
  PROVE  work[w].chat \in Chats /\ work[w].msg \in Messages
<1>1. work[w] \in Pass /\ Sane(work[w])
  BY DEF Shape, WorkOK, WorkSane
<1> QED
  BY <1>1, MessagesApart DEF Sane, Pass

(* What is told, and what of it is alive after the step. *)
LEMMA ToldAtStep ==
  ASSUME Shape, WorkSane, WorkListed, NotYet, NotTwice, NEW w \in Workers, Step(w)
  PROVE  /\ NotTwice'
         /\ \A c \in Chats, m \in Messages :
              Live(c, m)' => \/ Live(c, m)
                             \/ Tells(w) /\ c = work[w].chat /\ m = work[w].msg
<1>0. LocalStep(w) /\ excused \subseteq excused'
  BY StepIsLocal, Grows DEF Next
<1>1. CASE Tells(w) \/ TellsUnheard(w)
  <2>1. /\ work[w] # NULL /\ work[w].stage = "send" /\ Told(work[w].chat, work[w].msg)
        /\ TellsUnheard(w) => <<work[w].chat, work[w].msg>> \in excused'
    BY <1>1 DEF Tells, TellsUnheard, Kept
  <2>2. work[w].chat \in Chats /\ work[w].msg \in Messages
    BY <2>1, SenderIsSane DEF Busy
  <2>3. ~Live(work[w].chat, work[w].msg)
    BY <2>1, <2>2 DEF NotYet, ToSend
  <2> QED
    BY <1>0, <1>1, <2>1, <2>3 DEF Told, NotTwice, Live
<1>2. CASE ~Tells(w) /\ ~TellsUnheard(w)
  <2>1. NothingTold
    BY <1>0, <1>2 DEF LocalStep, StartsBroadcast, StartsOther, TurnsTo, Rests, TurnsToNote,
       Delivers, Ends
  <2> QED
    BY <1>0, <2>1 DEF NothingTold, NotTwice, Live
<1> QED
  BY <1>1, <1>2

(* Where nobody else is at a message and no record is made, none of it is  *)
(* alive.                                                                  *)
LEMMA FreshIsNotLive ==
  ASSUME Accounts, NEW w \in Workers, NEW m \in Messages, m # Nudge, m \notin fired \cup delivered,
         ~Shared(w, m), \A c : work[w] # NULL => ~Holds(work[w], c, m)
  PROVE  \A c \in Chats : ~Live(c, m)
<1> SUFFICES ASSUME NEW c \in Chats, Live(c, m) PROVE FALSE
  OBVIOUS
<1>1. PICK v \in Workers : work[v] # NULL /\ Holds(work[v], c, m)
  BY DEF Accounts, Accounted
<1> QED
  BY <1>1 DEF Shared, Holds

LEMMA NotYetOwn ==
  ASSUME Shape, WorkSane, OnceInv, NEW w \in Workers, Step(w), work'[w] # NULL,
         NEW c \in Chats, NEW m \in Messages, ToSend(work'[w], c, m), Live(c, m)'
  PROVE  FALSE
<1> USE DEF OnceInv
<1>0. /\ LocalStep(w) /\ excused \subseteq excused' /\ <<c, m>> \notin excused'
      /\ Live(c, m) \/ (Tells(w) /\ c = work[w].chat /\ m = work[w].msg)
      /\ work[w] # NULL => work[w] \in Pass
  BY StepIsLocal, Grows, ToldAtStep DEF Next, Live, Shape, WorkOK
<1>1. ASSUME Live(c, m), work[w] # NULL PROVE ~ToSend(work[w], c, m)
  BY <1>1 DEF NotYet
<1>2. CASE StartsBroadcast(w)
  <2>1. /\ m = work'[w].msg /\ m \in Events \ fired /\ work[w] = NULL
        /\ Shared(w, m) => Chats \X {m} \subseteq excused'
    BY <1>2 DEF StartsBroadcast, ToSend
  <2>2. Live(c, m) /\ ~Shared(w, m) /\ m # Nudge /\ m \notin delivered
    BY <1>0, <1>2, <2>1, MessagesApart DEF Shape, SetsOK, Tells, Kept
  <2> QED
    BY <2>1, <2>2, FreshIsNotLive
<1>3. CASE StartsOther(w) \/ Delivers(w)
  BY <1>3 DEF StartsOther, Delivers, ToSend
<1>4. ASSUME NEW d \in Chats, TurnsTo(w, d) PROVE FALSE
  <2>1. Live(c, m) /\ work[w] # NULL /\ work[w].stage = "next"
    BY <1>0, <1>4 DEF TurnsTo, Kept, Tells
  <2>2. /\ work'[w].kind = work[w].kind /\ work'[w].msg = work[w].msg /\ m = work[w].msg
        /\ c = d \/ c \in work'[w].todo
        /\ work[w].kind = "sweep" => c = d
        /\ d \in work[w].todo /\ work'[w].todo \subseteq work[w].todo
    BY <1>4 DEF TurnsTo, Kept, ToSend
  <2>3. CASE work[w].kind # "sweep"
    BY <1>1, <2>1, <2>2, <2>3 DEF ToSend
  <2>4. CASE work[w].kind = "sweep"
    <3>1. m = Nudge /\ c = d /\ c \notin nudged /\ ~Nudging(c)
          /\ \A v \in Workers \ {w} : ~Sweeping(v, c)
      BY <1>0, <1>4, <2>1, <2>2, <2>4, KindOfMessage DEF TurnsTo
    <3>2. Accounted(c, Nudge) /\ Nudge \notin fired \cup delivered
      BY <2>1, <3>1, MessagesApart DEF Accounts, Shape, SetsOK
    <3>3. PICK v \in Workers : work[v] # NULL /\ Holds(work[v], c, Nudge)
      BY <3>1, <3>2 DEF Accounted, Nudging, In
    <3>4. work[v].kind = "sweep"
      BY <3>3, KindOfMessage, MessagesApart DEF Holds, Shape, WorkOK
    <3> QED
      BY <2>1, <3>1, <3>3, <3>4 DEF Holds, Sweeping
  <2> QED
    BY <2>3, <2>4
<1>5. CASE Tells(w)
  <2>1. /\ work[w] # NULL /\ work'[w].kind # "sweep" /\ c \in work'[w].todo /\ m = work[w].msg
        /\ work'[w].kind = work[w].kind /\ work'[w].todo \subseteq work[w].todo
        /\ c # work[w].chat
    BY <1>5 DEF Tells, Kept, ToSend
  <2> QED
    BY <1>0, <1>1, <2>1 DEF ToSend
<1>6. CASE TellsUnheard(w) \/ Rests(w)
  <2>1. work[w] # NULL /\ ToSend(work[w], c, m)
    BY <1>6 DEF TellsUnheard, Rests, Kept, ToSend
  <2>2. CASE Live(c, m)
    BY <1>1, <2>1, <2>2
  <2>3. CASE Tells(w)
    BY <1>5, <2>3
  <2> QED
    BY <1>0, <2>2, <2>3
<1>7. CASE TurnsToNote(w)
  <2>1. /\ m = work'[w].msg /\ m \in Notes /\ c \in work'[w].cohort
        /\ work[w].kind = "drain" /\ ~work[w].ok /\ work[w].stage = "next"
        /\ m \in delivered \/ Shared(w, m) => work'[w].cohort \X {m} \subseteq excused'
    BY <1>7 DEF TurnsToNote, ToSend
  <2>2. Live(c, m) /\ ~Shared(w, m) /\ m # Nudge /\ m \notin fired \cup delivered
    BY <1>0, <1>7, <2>1, MessagesApart DEF Shape, SetsOK, Tells
  <2> QED
    BY <2>1, <2>2, FreshIsNotLive DEF Holds
<1> QED
  BY <1>0, <1>2, <1>3, <1>4, <1>5, <1>6, <1>7 DEF LocalStep, Ends

LEMMA NotYetOthers ==
  ASSUME Shape, WorkSane, OnceInv, NEW w \in Workers, Step(w), NEW v \in Workers, v # w,
         work[v] # NULL, NEW c \in Chats, NEW m \in Messages, ToSend(work[v], c, m), Live(c, m)'
  PROVE  FALSE
<1> USE DEF OnceInv
<1>1. ~Live(c, m) /\ excused \subseteq excused' /\ <<c, m>> \notin excused
  BY Grows DEF NotYet, Next, Live
<1>2. Tells(w) /\ c = work[w].chat /\ m = work[w].msg
  BY <1>1, ToldAtStep
<1>3. /\ work[w] # NULL /\ work[w].stage = "send" /\ work[w] \in Pass /\ work[v] \in Pass
      /\ work[v].msg = m /\ Listed(work[w]) /\ Listed(work[v]) /\ Apart(work[w], work[v])
  BY <1>2 DEF Tells, Kept, Shape, WorkOK, ToSend, WorkListed, AllApart
<1>4. /\ work[w].kind = "sweep" <=> m = Nudge
      /\ work[v].kind = "sweep" <=> m = Nudge
  BY <1>2, <1>3, KindOfMessage
<1>5. CASE m = Nudge
  BY <1>1, <1>2, <1>3, <1>4, <1>5 DEF Apart, ToSend
<1>6. CASE m # Nudge
  <2>1. c \in work[w].cohort /\ c \in work[v].cohort
    BY <1>2, <1>3, <1>4, <1>6 DEF Listed, ToSend, Busy
  <2> QED
    BY <1>1, <1>2, <1>3, <1>4, <1>6, <2>1 DEF Apart
<1> QED
  BY <1>5, <1>6

LEMMA NotYetNext ==
  ASSUME Shape, WorkSane, OnceInv, NEW w \in Workers, Step(w)
  PROVE  NotYet'
<1> USE DEF OnceInv
<1>0. start' = start /\ \A v \in Workers \ {w} : work'[v] = work[v]
  BY StepFrame, OthersKept DEF Shape
<1>1. ASSUME NEW v \in Workers, work'[v] # NULL, NEW c \in Chats, NEW m \in Messages,
             ToSend(work'[v], c, m), Live(c, m)'
      PROVE  FALSE
  <2>1. CASE v = w
    BY <1>1, <2>1, NotYetOwn
  <2>2. CASE v # w
    <3>1. work'[v] = work[v]
      BY <1>0, <2>2
    <3> QED
      BY <1>1, <2>2, <3>1, NotYetOthers
  <2> QED
    BY <2>1, <2>2
<1>2. ASSUME NEW c, c = start.chat, In("send"), Live(c, Nudge)' PROVE FALSE
  <2>1. /\ ~Live(c, Nudge) /\ c \in Chats
        /\ excused \subseteq excused' /\ <<c, Nudge>> \notin excused'
    BY <1>2, Grows DEF In, NotYet, Shape, StartOK, Starting, Next, Live
  <2>2. Tells(w) /\ c = work[w].chat /\ work[w].msg = Nudge
    BY <1>2, <2>1, ToldAtStep, MessagesApart
  <2>3. work[w] # NULL /\ work[w] \in Pass /\ work[w].kind = "sweep" /\ work[w].stage = "send"
    BY <2>2, KindOfMessage, MessagesApart DEF Tells, Kept, Shape, WorkOK
  <2>4. Sweeping(w, c) /\ Nudging(c)
    BY <1>2, <2>2, <2>3 DEF Sweeping, Nudging, In
  <2> QED
    BY <2>1, <2>4 DEF AllApart
<1>3. (In("send") => ~Live(start.chat, Nudge))'
  BY <1>0, <1>2 DEF Live, In
<1> QED
  BY <1>1, <1>3 DEF NotYet, Live

LEMMA AccountsNext ==
  ASSUME Shape, WorkSane, OnceInv, NEW w \in Workers, Step(w)
  PROVE  Accounts'
<1> USE DEF OnceInv
<1> SUFFICES ASSUME NEW c \in Chats, NEW m \in Messages, Live(c, m)' PROVE Accounted(c, m)'
  BY DEF Accounts, Live
<1>0. /\ LocalStep(w) /\ start' = start
      /\ fired \subseteq fired' /\ delivered \subseteq delivered' /\ nudged \subseteq nudged'
      /\ \A v \in Workers \ {w} : work'[v] = work[v]
      /\ <<c, m>> \notin excused'
  BY StepIsLocal, StepFrame, Grows, OthersKept DEF Next, Shape, Live
<1>1. CASE Tells(w) /\ c = work[w].chat /\ m = work[w].msg
  <2>1. /\ work[w] # NULL /\ work'[w] # NULL /\ work[w] \in Pass
        /\ work'[w].kind = work[w].kind /\ work'[w].msg = m
        /\ work'[w].cohort = work[w].cohort /\ work[w].stage = "send"
        /\ work[w].kind # "sweep" => c \in work[w].cohort
        /\ work[w].kind \in {"broadcast", "sweep", "drain"}
    BY <1>1 DEF Tells, Kept, Shape, WorkOK, WorkListed, Listed, Busy, Pass
  <2>2. Holds(work'[w], c, m)
    BY <1>1, <2>1 DEF Tells, Holds
  <2> QED
    BY <2>1, <2>2 DEF Accounted, Holds
<1>2. CASE Live(c, m)
  <2>1. Accounted(c, m)
    BY <1>2 DEF Accounts
  <2>2. CASE m \in fired \cup delivered \/ (m = Nudge /\ (c \in nudged \/ (In("stamp") /\ start.chat = c)))
    BY <1>0, <2>2 DEF Accounted, In
  <2>3. ASSUME NEW v \in Workers, v # w, work[v] # NULL, Holds(work[v], c, m)
        PROVE  Accounted(c, m)'
    <3>1. work'[v] = work[v]
      BY <1>0, <2>3
    <3> QED
      BY <2>3, <3>1 DEF Accounted, Holds
  <2>4. ASSUME work[w] # NULL, Holds(work[w], c, m) PROVE Accounted(c, m)'
    <3>0. work'[w] # NULL /\ Holds(work'[w], c, m) => Accounted(c, m)'
      BY DEF Accounted, Holds
    <3>1. work[w] \in Pass /\ work[w].msg = m
      BY <2>4 DEF Shape, WorkOK, Holds
    <3>2. CASE Tells(w) \/ TellsUnheard(w) \/ (\E d \in Chats : TurnsTo(w, d))
      <4>1. Kept(w) /\ work[w].stage # "stamp"
        BY <3>2 DEF Tells, TellsUnheard, TurnsTo
      <4> QED
        BY <2>4, <3>0, <4>1 DEF Kept, Holds
    <3>3. CASE Rests(w)
      <4>1. Kept(w) /\ (work[w].stage = "stamp" => work[w].chat \in nudged')
        BY <3>3 DEF Rests
      <4>2. CASE work[w].kind = "sweep"
        <5>1. m = Nudge /\ c \in nudged'
          BY <2>4, <3>1, <4>1, <4>2, KindOfMessage DEF Holds
        <5> QED
          BY <5>1 DEF Accounted
      <4>3. CASE work[w].kind # "sweep"
        BY <2>4, <3>0, <4>1, <4>3 DEF Kept, Holds
      <4> QED
        BY <4>2, <4>3
    <3>4. CASE Delivers(w)
      <4>1. c \in work[w].cohort /\ (m \in delivered' \/ work[w].cohort \X {m} \subseteq excused')
        BY <2>4, <3>1, <3>4 DEF Delivers, Holds
      <4> QED
        BY <1>0, <4>1 DEF Accounted
    <3>5. CASE TurnsToNote(w)
      BY <2>4, <3>5 DEF TurnsToNote, Holds
    <3>6. CASE Ends(w)
      BY <1>0, <2>4, <3>6 DEF Ends, Accounted
    <3>7. ~StartsBroadcast(w) /\ ~StartsOther(w)
      BY <2>4 DEF StartsBroadcast, StartsOther
    <3> QED
      BY <1>0, <3>2, <3>3, <3>4, <3>5, <3>6, <3>7 DEF LocalStep
  <2> QED
    BY <2>1, <2>2, <2>3, <2>4 DEF Accounted
<1> QED
  BY <1>1, <1>2, ToldAtStep

(* A step of the bot or of the world, as far as it concerns nudges.        *)
BotTells ==
  /\ In("send") /\ Told(start.chat, Nudge)
  /\ \/ excused' = excused /\ In("stamp")' /\ start'.chat = start.chat
     \/ <<start.chat, Nudge>> \in excused' /\ start' = NULL
BotTurns ==
  /\ In("nudge") /\ In("send")' /\ start'.chat = start.chat
  /\ start.chat \notin nudged
  /\ \A w \in Workers : Sweeping(w, start.chat) => <<start.chat, Nudge>> \in excused'
  /\ NothingTold
BotRests ==
  /\ NothingTold
  /\ start' = start \/ (~In("send")' /\ ~In("stamp")')
  /\ In("stamp") => \/ start' = start
                    \/ start.chat \in nudged' \/ <<start.chat, Nudge>> \in excused'

LEMMA BotIsLocal ==
  ASSUME Shape, Bot \/ World \/ UNCHANGED vars
  PROVE  work' = work /\ (BotTells \/ BotTurns \/ BotRests)
<1>0. start # NULL => start \in Starting
  BY DEF Shape, StartOK
<1>00. ~In("send")' /\ ~In("stamp")' <=> start' = NULL \/ start'.stage \notin {"send", "stamp"}
  BY DEF In
<1>1. CASE NudgeSent
  <2>1. start'.chat = start.chat /\ start'.stage = "stamp" /\ start' # NULL
    BY <1>0, <1>1, OutreachNull DEF NudgeSent, In, To, Starting
  <2> QED
    BY <1>1, <2>1 DEF NudgeSent, Arrive, Told, Live, BotTells, In
<1>2. ASSUME NEW arrives \in BOOLEAN, NudgeFails(arrives) PROVE work' = work /\ (BotTells \/ BotRests)
  BY <1>2 DEF NudgeFails, Arrive, Excuse, Told, Live, BotTells, BotRests, NothingTold, In
<1>3. CASE NudgeDue
  <2>1. start'.chat = start.chat /\ start'.stage = "send" /\ start' # NULL
    BY <1>0, <1>3, OutreachNull DEF NudgeDue, In, To, Starting
  <2>2. \A w \in Workers : Sweeping(w, start.chat) => <<start.chat, Nudge>> \in excused'
    BY <1>3 DEF NudgeDue, Excuse
  <2> QED
    BY <1>3, <2>1, <2>2 DEF NudgeDue, BotTurns, NothingTold, In
<1>4. CASE NudgeStamp
  BY <1>4 DEF NudgeStamp, BotRests, NothingTold, In, history
<1>5. CASE BotDies
  BY <1>5 DEF BotDies, Excuse, BotRests, NothingTold, In
<1>6. CASE NotAttributed \/ Grant \/ NudgeNotDue
           \/ (\E heard \in BOOLEAN : Attribute(heard))
           \/ (\E sent \in BOOLEAN : Greet(sent) \/ Welcome(sent))
  <2>1. start' = NULL \/ start'.stage \notin {"send", "stamp"}
    BY <1>0, <1>6 DEF NotAttributed, Grant, NudgeNotDue, Attribute, Greet, Welcome, In, To, Starting
  <2>2. work' = work /\ NothingTold /\ ~In("stamp")
    BY <1>6 DEF NotAttributed, Grant, NudgeNotDue, Attribute, Greet, Welcome, In, NothingTold, history
  <2> QED
    BY <1>00, <2>1, <2>2 DEF BotRests
<1>7. ASSUME NEW c \in Chats, NEW kind \in {"plain", "ref", "auth"}, Start(c, kind)
      PROVE  work' = work /\ BotRests
  BY <1>7 DEF Start, BotRests, NothingTold, In, history
<1>8. CASE World \/ UNCHANGED vars
  BY <1>8 DEF World, Referral, Engage, Disengage, TapNudge,
     Post, Block, Unblock, EngineForbidden, vars, history,
     BotRests, NothingTold
<1> QED
  BY <1>1, <1>2, <1>3, <1>4, <1>5, <1>6, <1>7, <1>8 DEF Bot

LEMMA BotOnce ==
  ASSUME Shape, WorkSane, OnceInv, Bot \/ World \/ UNCHANGED vars
  PROVE  OnceInv'
<1> USE DEF OnceInv
<1>0. /\ work' = work
      /\ BotTells \/ BotTurns \/ BotRests
      /\ excused \subseteq excused' /\ fired \subseteq fired'
      /\ delivered \subseteq delivered' /\ nudged \subseteq nudged'
      /\ start # NULL => start.chat \in Chats
  BY BotIsLocal, Grows DEF Next, Shape, StartOK, Starting
<1>1. WorkListed'
  BY <1>0 DEF WorkListed
<1>2. AllApart'
  <2>1. \A w, v \in Workers :
          w # v /\ work'[w] # NULL /\ work'[v] # NULL => Apart(work[w], work[v])'
    BY <1>0 DEF AllApart, Apart
  <2>2. ASSUME NEW w \in Workers, NEW c \in Chats, Sweeping(w, c)', Nudging(c)'
        PROVE  <<c, Nudge>> \in excused'
    <3>1. Sweeping(w, c)
      BY <1>0, <2>2 DEF Sweeping
    <3>2. CASE Nudging(c)
      BY <1>0, <3>1, <3>2 DEF AllApart
    <3>3. CASE ~Nudging(c)
      BY <1>0, <2>2, <3>1, <3>3 DEF BotTells, BotTurns, BotRests, Nudging, In
    <3> QED
      BY <3>2, <3>3
  <2> QED
    BY <2>1, <2>2 DEF AllApart
<1>3. \A c \in Chats, m \in Messages :
        Live(c, m)' => \/ Live(c, m)
                       \/ BotTells /\ In("stamp")' /\ c = start.chat /\ start' # NULL
                          /\ start'.chat = c /\ m = Nudge /\ excused' = excused
  BY <1>0 DEF BotTells, BotTurns, BotRests, Told, NothingTold, Live, In
<1>4. NotTwice'
  BY <1>0 DEF BotTells, BotTurns, BotRests, Told, NothingTold, NotYet, NotTwice
<1>5. NotYet'
  <2>1. ASSUME NEW w \in Workers, work[w] # NULL, NEW c \in Chats, NEW m \in Messages,
               ToSend(work[w], c, m), Live(c, m)'
        PROVE  FALSE
    <3>1. ~Live(c, m)
      BY <2>1 DEF NotYet
    <3>2. BotTells /\ c = start.chat /\ m = Nudge /\ excused' = excused
      BY <1>3, <2>1, <3>1
    <3>3. work[w].kind = "sweep"
      BY <2>1, <3>2, KindOfMessage, MessagesApart DEF ToSend, Shape, WorkOK
    <3>4. Sweeping(w, c) /\ Nudging(c)
      BY <2>1, <3>2, <3>3 DEF ToSend, Sweeping, Nudging, BotTells, In
    <3> QED
      BY <2>1, <3>2, <3>4 DEF AllApart, Live
  <2>2. ASSUME NEW c \in Chats, In("send")', start'.chat = c, Live(c, Nudge)' PROVE FALSE
    <3>1. CASE start' = start
      BY <1>0, <1>3, <2>2, <3>1, MessagesApart DEF NotYet, In
    <3>2. CASE BotTurns
      <4>1. Live(c, Nudge) /\ c = start.chat /\ c \notin nudged /\ ~In("stamp")
        BY <1>3, <2>2, <3>2, MessagesApart DEF BotTurns, BotTells, In
      <4>2. Accounted(c, Nudge) /\ Nudge \notin fired \cup delivered
        BY <4>1, MessagesApart DEF Accounts, Shape, SetsOK
      <4>3. PICK w \in Workers : work[w] # NULL /\ Holds(work[w], c, Nudge)
        BY <4>1, <4>2 DEF Accounted
      <4>4. work[w].kind = "sweep"
        BY <4>3, KindOfMessage, MessagesApart DEF Holds, Shape, WorkOK
      <4>5. Sweeping(w, c)
        BY <4>3, <4>4 DEF Holds, Sweeping
      <4> QED
        BY <2>2, <3>2, <4>1, <4>5 DEF BotTurns, Live
    <3> QED
      BY <1>0, <2>2, <3>1, <3>2 DEF BotTells, BotRests, In
  <2>3. (In("send") => ~Live(start.chat, Nudge))'
    <3> SUFFICES ASSUME In("send")' PROVE ~Live(start.chat, Nudge)'
      OBVIOUS
    <3>1. start'.chat \in Chats
      BY <1>0 DEF BotTells, BotTurns, BotRests, In
    <3> QED
      BY <2>2, <3>1 DEF Live
  <2> QED
    BY <1>0, <2>1, <2>3 DEF NotYet, Live
<1>6. Accounts'
  <2> SUFFICES ASSUME NEW c \in Chats, NEW m \in Messages, Live(c, m)' PROVE Accounted(c, m)'
    BY DEF Accounts, Live
  <2>1. CASE ~Live(c, m)
    BY <1>3, <2>1 DEF Accounted, In
  <2>2. CASE Live(c, m)
    <3>1. Accounted(c, m) /\ <<c, m>> \notin excused'
      BY <2>2 DEF Accounts, Live
    <3>2. CASE m = Nudge /\ In("stamp") /\ start.chat = c
      BY <1>0, <3>1, <3>2 DEF BotTells, BotTurns, BotRests, Accounted, In
    <3>3. CASE ~(m = Nudge /\ In("stamp") /\ start.chat = c)
      BY <1>0, <3>1, <3>3 DEF Accounted, Holds
    <3> QED
      BY <3>2, <3>3
  <2> QED
    BY <2>1, <2>2
<1> QED
  BY <1>1, <1>2, <1>4, <1>5, <1>6

(* However often processes are started, whatever they overlap and whoever  *)
(* dies: barring what is excused, no chat gets a broadcast, a nudge or a   *)
(* notification twice (_event_already_fired, first_watch_nudge_sent_at,    *)
(* drain_referral_notifications).                                          *)
THEOREM NothingArrivesTwice == Spec => []NotTwice
<1>1. Init => Shape /\ WorkSane /\ OnceInv
  <2> SUFFICES ASSUME Init PROVE OnceInv
    BY ShapeInit
  <2> QED
    BY DEF Init, OnceInv, WorkListed, AllApart, NotYet, Accounts, NotTwice, Live, Sweeping,
           Nudging, In
<1>2. Shape /\ WorkSane /\ OnceInv /\ [Next]_vars => (Shape /\ WorkSane /\ OnceInv)'
  <2> SUFFICES ASSUME Shape, WorkSane, OnceInv, [Next]_vars PROVE OnceInv'
    BY ShapeNext
  <2>1. ASSUME NEW w \in Workers, Step(w) PROVE OnceInv'
    BY <2>1, ListedNext, ApartNext, NotYetNext, AccountsNext, ToldAtStep DEF OnceInv
  <2> QED
    BY <2>1, BotOnce DEF Next
<1>3. OnceInv => NotTwice
  BY DEF OnceInv
<1> QED
  BY <1>1, <1>2, <1>3, PTL DEF Spec
=============================================================================
