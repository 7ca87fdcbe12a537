----------------------------- MODULE McpSession -----------------------------
(***************************************************************************)
(* McpClient, as a `with' block uses it: a session with signal-MCP is      *)
(* opened (initialize, then a notification that it is), used, and closed   *)
(* by a DELETE.  The server keeps a session until it is closed; it forgets *)
(* them all when it restarts.                                              *)
(*                                                                         *)
(* Callers are prepared for McpError.  Not every failure is one.           *)
(***************************************************************************)
EXTENDS Naturals

CONSTANTS NULL, Ids

VARIABLES
  stage,   \* where the block is
  sid,     \* the client's Mcp-Session-Id
  open,    \* sessions the server keeps
  orphans  \* those no DELETE will be heard for (history)

sessionVars == <<stage, sid, open, orphans>>

SessionTypeOK ==
  /\ stage \in {"closed", "opening", "notifying", "ready"}
  /\ sid \in Ids \cup {NULL}
  /\ open \in SUBSET Ids
  /\ orphans \in SUBSET Ids

SessionInit == stage = "closed" /\ sid = NULL /\ open = {} /\ orphans = {}

Left(kept, lost) ==
  /\ stage' = "closed" /\ sid' = NULL
  /\ open' = kept
  /\ orphans' = lost

---------------------------------------------------------------------------
(* A request *)

(* The answer is a result; or none comes, its status is an error, its body *)
(* is not the JSON it is said to be, an event stream has no data, or what  *)
(* is there is no result.                                                  *)
Answers == {"result", "none", "status", "not_json", "no_data", "no_result"}

(* _parse_response: json.loads raises what it raises. *)
Parsed(answer) ==
  CASE answer = "not_json" -> "ValueError"
    [] answer = "no_data"  -> "McpError"
    [] OTHER               -> "body"

(* _post: so does the transport. *)
Posted(answer) ==
  CASE answer = "none"   -> "HTTPError"
    [] answer = "status" -> "McpError"
    [] OTHER             -> Parsed(answer)

Requested(answer) == IF answer = "no_result" THEN "McpError" ELSE Posted(answer)

Failures == {a \in Answers : Requested(a) # "body"}

---------------------------------------------------------------------------
(* The block *)

(* __init__: nothing is sent yet. *)
Enter ==
  /\ stage = "closed"
  /\ stage' = "opening"
  /\ UNCHANGED <<sid, open, orphans>>

(* _initialize: the session is in the answer's header. *)
Opened(id) ==
  /\ stage = "opening"
  /\ stage' = "notifying" /\ sid' = id
  /\ open' = open \cup {id}
  /\ UNCHANGED orphans

(* ... or it fails, and __exit__ is not run: the server may have opened    *)
(* one, unless it says it has not.                                         *)
NotOpened(answer, ids) ==
  /\ stage = "opening"
  /\ answer = "status" => ids = {}
  /\ Left(open \cup ids, orphans \cup ids)

(* notifications/initialized: its status is not looked at. *)
Notified ==
  /\ stage = "notifying"
  /\ stage' = "ready"
  /\ UNCHANGED <<sid, open, orphans>>

NotNotified ==
  /\ stage = "notifying"
  /\ Left(open, orphans \cup {sid})

(* __exit__, however the block ends: the DELETE may be lost. *)
LeaveOpen(heard) ==
  /\ stage = "ready"
  /\ Left(open, IF heard THEN orphans ELSE orphans \cup {sid})
Leave(heard) ==
  /\ stage = "ready"
  /\ IF heard THEN Left(open \ {sid}, orphans) ELSE Left(open, orphans \cup {sid})

(* The process is killed. *)
Abandoned == Left(open, IF sid = NULL THEN orphans ELSE orphans \cup {sid})

Restarted ==
  /\ open' = {} /\ orphans' = {}
  /\ UNCHANGED <<stage, sid>>
=============================================================================
