----------------------------- MODULE ScanService -----------------------------
(***************************************************************************)
(* Standing scans over a release: its processes open the database and      *)
(* bring scan_watches up to date (SchemaUpgrade), and then the engine's    *)
(* passes serve the scans that are in it (ScanDigest), signatures unknown. *)
(* Of them those whose rank is one of Lenses are followed.                 *)
(***************************************************************************)
EXTENDS ScanDigest

CONSTANTS Ranks, Oi, Processes, MaxStops

VARIABLES
  schema, columns, rows, known, at, step, counted, stops, wanted, met, \* SchemaUpgrade
  serving   \* the release is up, and its passes run

ASSUME ScanServiceAssumption ==
  /\ Lenses \subseteq Ranks /\ Oi \in Ranks
  /\ MaxStops \in Nat

Upgrade == INSTANCE SchemaUpgrade

tableVars   == <<schema, columns, rows, known, at, step, counted, stops, wanted, met>>
passVars    == <<subs, pass, history, faults>>
serviceVars == <<tableVars, passVars, edits, serving>>

ServiceTypeOK ==
  /\ TypeOK
  /\ Upgrade!UpgradeTypeOK
  /\ serving \in BOOLEAN

ServiceInit == Init /\ Upgrade!UpgradeInit /\ serving = FALSE

Upgrading ==
  /\ ~serving
  /\ Upgrade!UpgradeNext
  /\ UNCHANGED <<passVars, serving>>

(* From here on the table is subs. *)
HandOver ==
  /\ ~serving /\ serving' = TRUE
  /\ \A p \in Processes : at[p] = "up"
  /\ subs' = [r \in rows \cap Rows |-> [fired |-> FALSE, sig |-> {}]]
  /\ fresh' = rows \cap Rows
  /\ rows' = {} /\ wanted' = {} /\ known' = Chats
  /\ step' = [p \in Processes |-> 1] /\ counted' = [p \in Processes |-> 0]
  /\ stops' = 0
  /\ UNCHANGED <<schema, columns, at, met, pass, told, again, owed, edits, faults>>

Passing ==
  /\ serving
  /\ Next
  /\ UNCHANGED <<tableVars, serving>>

ServiceNext == Upgrading \/ HandOver \/ Passing

ServiceSpec ==
  /\ ServiceInit /\ [][ServiceNext]_serviceVars
  /\ \A p \in Processes : WF_serviceVars(~serving /\ Upgrade!Opens(p) /\ UNCHANGED <<passVars, serving>>)

UpgradeKeeps == Upgrade!UpgradeKeeps
ComesUp == Upgrade!ComesUp
=============================================================================
