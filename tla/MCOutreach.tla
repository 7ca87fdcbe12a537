------------------------------ MODULE MCOutreach ------------------------------
(* Two chats of one referral code, one of them a group, an event that is   *)
(* sent as a digest or as a showcase, a notification, and two processes.   *)
EXTENDS Outreach, TLC
CONSTANTS c1, c2, e1, n1, code, w1, w2, MaxOccupied, MaxTurns, MaxTopics

MCChats   == {c1, c2}
MCGroups  == {c2}
MCDigests == {e1}
MCShowcases == {e1}
MCNotes   == {n1}
MCCodes   == {code}
MCCodeOf  == [x \in {c1, c2, n1} |-> code]
MCWorkers == {w1, w2}

(* Processes that are at work at once are of one kind, and the bot handles *)
(* /start beside a sweep.                                                  *)
Related ==
  \A v \in Workers : work[v] # NULL =>
    /\ \A w \in Workers : work[w] # NULL => work[w].kind = work[v].kind
    /\ start # NULL => work[v].kind = "sweep"
Occupied == Cardinality({w \in Workers : work[w] # NULL}) + (IF start = NULL THEN 0 ELSE 1)

(* A behaviour is followed to the first exception, while no more chats     *)
(* than so many block the bot or watch something, and while it is about no *)
(* more than so many messages or attributions.  Codes are asked for once   *)
(* there is a notification; attributions are made while no process is at   *)
(* work, and watches while none but a sweep is.                            *)
Turns == Cardinality(blocks) + Cardinality(engaged)
About(m) == m \in posted \/ \E c \in Chats : <<c, m>> \in reached
Topics == Cardinality({m \in Messages : About(m)}) + Cardinality(joined)
Bounded ==
  /\ Related /\ Occupied <= MaxOccupied
  /\ Turns <= MaxTurns /\ Topics <= MaxTopics
  /\ cached # {} => posted # {}
  /\ \A w \in Workers : work[w] # NULL =>
       joined = {} /\ (work[w].kind = "sweep" \/ engaged = {})
  /\ excused = {} /\ lost = {}

Symmetry == Permutations(MCWorkers)
=============================================================================
