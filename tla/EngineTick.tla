----------------------------- MODULE EngineTick -----------------------------
(***************************************************************************)
(* One process of the engine from start to end, tick after tick: main runs *)
(* run_cycle and then the scan digests.  run_cycle schedules the due rows  *)
(* (the loop of FetchSchedule), opens a session with signal-MCP            *)
(* (McpSession), processes the rows (WatchDispatch), closes the session,   *)
(* and tells the detector (Saturation) whether rows were left over.  The   *)
(* process is a oneshot: what the detector knows is in a file.             *)
(***************************************************************************)
EXTENDS FetchSchedule

CONSTANTS
  NULL,
  SaturationTicks, SaturationEpisodes, SaturationWindow,
  DueAt,      \* DueAt[m]: the sets of rows that may be due, and not skipped, at minute m
  MaxMinute,  \* bound on the clock
  MaxGap,     \* most minutes between two ticks
  MaxFaults   \* bound on what goes wrong

VARIABLES
  minute,   \* the clock, in ticks of the timer
  part,     \* what of main is running
  phase,    \* where it is
  pressed,  \* whether this tick has deferred a row
  file,     \* the detector's file; NULL when it is missing or not JSON
  new,      \* what the detector made of it
  stage, sid, open, orphans, \* McpSession
  faults,
  unsaid    \* outcomes recorded since an alert was raised, or got lost (history)

ASSUME EngineTickAssumption ==
  /\ SaturationTicks \in Nat \ {0}
  /\ SaturationEpisodes \in Nat \ {0}
  /\ SaturationWindow \in Nat \ {0}
  /\ MaxMinute \in Nat /\ MaxFaults \in Nat
  /\ DueAt \in [1..MaxMinute -> SUBSET SUBSET Watches]

Ids == (0..MaxMinute) \X {"watch", "scan"}
ASSUME NoSessionAssumption == NULL \notin Ids

Client == INSTANCE McpSession
Detector == INSTANCE Saturation
ASSUME NoFileAssumption == NULL \notin Detector!State

satVars  == <<file, new, unsaid>>
mcpVars  == <<stage, sid, open, orphans>>
tickVars == <<minute, part, phase, pressed>>
allVars  == <<loopVars, satVars, mcpVars, tickVars, faults>>

Outcomes == SUBSET [at : 1..MaxMinute, deferred : BOOLEAN]

TickTypeOK ==
  /\ LoopTypeOK
  /\ minute \in 0..MaxMinute
  /\ part \in {"watch", "scan"}
  /\ phase \in {"idle", "schedule", "session", "record", "write", "alert"}
  /\ pressed \in BOOLEAN
  /\ file \in Detector!State \cup {NULL}
  /\ new \in [state : Detector!State, alert : BOOLEAN] \cup {NULL}
  /\ Client!SessionTypeOK
  /\ faults \in 0..MaxFaults
  /\ unsaid \in Outcomes

TickInit ==
  /\ LoopInit
  /\ minute = 0 /\ part = "watch" /\ phase = "idle" /\ pressed = FALSE
  /\ file = NULL /\ new = NULL
  /\ Client!SessionInit
  /\ faults = 0
  /\ unsaid = {}

Goto(from, to) == phase = from /\ phase' = to

OneFault == faults < MaxFaults /\ faults' = faults + 1

(* Where the process stops, with a session of the present part or none. *)
Ends == phase' = "idle" /\ part' = "watch" /\ pressed' = FALSE /\ new' = NULL

---------------------------------------------------------------------------
(* run_cycle *)

(* The timer fires; minutes are missed while the host is down or a tick    *)
(* runs long.                                                              *)
StartTick(gap, rows) ==
  /\ Goto("idle", "schedule")
  /\ minute + gap <= MaxMinute
  /\ rows \in DueAt[minute + gap]
  /\ minute' = minute + gap
  /\ Begin(rows)
  /\ UNCHANGED <<part, pressed, satVars, mcpVars, faults>>

(* No row is due: the tick is a clean one, and asks signal-MCP nothing. *)
NothingDue(gap) ==
  /\ Goto("idle", "record")
  /\ minute + gap <= MaxMinute
  /\ minute' = minute + gap
  /\ UNCHANGED <<part, pressed, loopVars, satVars, mcpVars, faults>>

Scheduling ==
  /\ phase = "schedule"
  /\ LoopNext
  /\ UNCHANGED <<tickVars, satVars, mcpVars, faults>>

(* The loop is over; what it has left in the queues is deferred, and more  *)
(* is when the tick's deadline passes.                                     *)
LeftOver == \E c \in Chats : queues[c] # <<>>
EnterSession(late) ==
  /\ done
  /\ Goto("schedule", "session")
  /\ late => scheduled # <<>>
  /\ pressed' = (LeftOver \/ late)
  /\ Forget
  /\ Client!Enter
  /\ UNCHANGED <<minute, part, satVars, faults>>

---------------------------------------------------------------------------
(* The session, of either part *)

AfterSession ==
  IF part = "watch" THEN phase' = "record" /\ UNCHANGED <<part, pressed, new>> ELSE Ends

SessionOpens ==
  /\ phase = "session"
  /\ Client!Opened(<<minute, part>>) \/ Client!Notified
  /\ UNCHANGED <<tickVars, loopVars, satVars, faults>>

(* McpError: the rows are left as they are, and the part goes on.  Any     *)
(* other exception ends run_cycle, and main with it, before the detector   *)
(* is told and before the scan digests.                                    *)
SessionRefused(answer, opened) ==
  /\ phase = "session"
  /\ OneFault
  /\ Client!NotOpened(answer, IF opened THEN {<<minute, part>>} ELSE {})
  /\ IF Client!Requested(answer) = "McpError" THEN AfterSession ELSE Ends
  /\ UNCHANGED <<minute, loopVars, file, unsaid>>

SessionRaises ==
  /\ phase = "session"
  /\ OneFault
  /\ Client!NotNotified
  /\ Ends
  /\ UNCHANGED <<minute, loopVars, file, unsaid>>

(* The rows are processed, or the digests sent; an exception in the block  *)
(* closes the session as well.                                             *)
SessionLeft ==
  /\ phase = "session"
  /\ \/ Client!Leave(TRUE) /\ UNCHANGED faults
     \/ Client!Leave(FALSE) /\ OneFault
  /\ AfterSession
  /\ UNCHANGED <<minute, loopVars, file, unsaid>>

---------------------------------------------------------------------------
(* _record_saturation *)

Outcome == [at |-> minute, deferred |-> pressed]

(* The file is read; one that is missing or broken is an empty state. *)
Contents == IF file = NULL THEN Detector!Cleared ELSE file

Record ==
  /\ Goto("record", "write")
  /\ new' = Detector!Updated(Contents, pressed, minute)
  /\ UNCHANGED <<minute, part, pressed, loopVars, file, unsaid, mcpVars, faults>>

(* The file is written, and then the alert raised. *)
Write ==
  /\ Goto("write", "alert")
  /\ file' = new.state
  /\ unsaid' = unsaid \cup {Outcome}
  /\ UNCHANGED <<minute, part, pressed, new, loopVars, mcpVars, faults>>

(* OSError: it stays as it was, or was truncated before. *)
NotWritten(truncated) ==
  /\ Goto("write", "alert")
  /\ OneFault
  /\ IF truncated THEN file' = NULL /\ unsaid' = {}
                  ELSE UNCHANGED <<file, unsaid>>
  /\ UNCHANGED <<minute, part, pressed, new, loopVars, mcpVars>>

(* _emit_saturation_alert: whether it gets out is not known. *)
Alert ==
  /\ phase = "alert"
  /\ phase' = "idle" \/ phase' = "session"
  /\ IF phase' = "idle" THEN part' = "watch" /\ UNCHANGED mcpVars
                        ELSE part' = "scan" /\ Client!Enter
  /\ unsaid' = IF new.alert THEN {} ELSE unsaid
  /\ pressed' = FALSE /\ new' = NULL
  /\ UNCHANGED <<minute, file, loopVars, faults>>

---------------------------------------------------------------------------
(* The world *)

(* The process is killed.  The file is truncated before it is written, and *)
(* an alert that was due is not raised by the next process.                *)
Killed ==
  /\ phase \notin {"idle", "schedule"}
  /\ OneFault
  /\ Client!Abandoned
  /\ Ends
  /\ \/ phase = "write" /\ file' = NULL /\ unsaid' = {}
     \/ /\ UNCHANGED file
        /\ unsaid' = IF phase = "alert" /\ new.alert THEN {} ELSE unsaid
  /\ UNCHANGED <<minute, loopVars>>

ServerRestarts ==
  /\ open # {}
  /\ OneFault
  /\ Client!Restarted
  /\ UNCHANGED <<tickVars, loopVars, satVars>>

TickStep ==
  \/ Scheduling
  \/ \E late \in BOOLEAN : EnterSession(late)
  \/ SessionOpens \/ SessionRaises \/ SessionLeft
  \/ \E answer \in Client!Failures, opened \in BOOLEAN : SessionRefused(answer, opened)
  \/ Record \/ Write \/ Alert
  \/ \E truncated \in BOOLEAN : NotWritten(truncated)

TickNext ==
  \/ \E gap \in 1..MaxGap :
       NothingDue(gap) \/ \E rows \in SUBSET Watches : StartTick(gap, rows)
  \/ TickStep
  \/ Killed
  \/ ServerRestarts

TickSpec == TickInit /\ [][TickNext]_allVars

---------------------------------------------------------------------------
(* Properties *)

(* The length of the run a history ends with, and the bursts in it that    *)
(* began within the window.                                                *)
Latest(h) == CHOOSE e \in h : \A f \in h : f.at <= e.at
RunOf(h) ==
  Cardinality({e \in h : \A f \in h : f.at >= e.at => f.deferred})
BurstsOf(h) ==
  {e.at : e \in {b \in h :
     /\ b.deferred
     /\ Latest(h).at - b.at < SaturationWindow
     /\ \A f \in h : /\ f.at < b.at /\ f.deferred
                     => \E g \in h : f.at < g.at /\ g.at < b.at /\ ~g.deferred}}

(* Pressure does not go unsaid: whenever the ticks recorded since the last *)
(* alert make a run, or bursts, for which one is due, it is raised before  *)
(* the tick is over.  Left out are ticks that were killed or whose file    *)
(* was truncated: they forget.                                             *)
PressureIsSaid ==
  phase \in {"idle", "schedule"} =>
    /\ RunOf(unsaid) < SaturationTicks
    /\ Cardinality(BurstsOf(unsaid)) < SaturationEpisodes

(* The engine leaves no session behind at signal-MCP, but for a DELETE     *)
(* that was lost, a block that failed before it was entered, and a process *)
(* that was killed.                                                        *)
NoSessionLeft ==
  open \subseteq orphans \cup (IF sid = NULL THEN {} ELSE {sid})
=============================================================================
