---------------------------- MODULE SchemaUpgrade ----------------------------
(***************************************************************************)
(* Opening the database.  Every process of a release brings the schema up  *)
(* to date when it starts: the additive statements of _init_schema, one by *)
(* one and each committed on its own; then, where scan_watches still has   *)
(* the key it had before rank_by, a new table that takes over its rows;    *)
(* then the column last_sent_sig.  Nothing keeps two processes from doing  *)
(* so at once, and the service of the release before may still be running. *)
(*                                                                         *)
(* The new table is made in one transaction, which is one step: others see *)
(* the table before it or after it.  The copy that is kept of the old one  *)
(* is left out, as nothing reads it.                                       *)
(***************************************************************************)
EXTENDS Naturals, FiniteSets, Sequences

CONSTANTS
  Chats,
  Ranks,      \* what scans are ranked by
  Oi,         \* what every scan was ranked by before
  Processes,  \* processes of the release
  MaxEdits,   \* bound on the users' commands
  MaxStops    \* bound on the processes that are stopped, or wait too long for a lock

VARIABLES
  schema,  \* statements that are in effect
  columns, \* those of the columns of scan_watches that were added later
  rows,    \* scan_watches: <<chat, rank>>; Oi before there was a rank
  known,   \* chats with a subscribers row
  at,      \* at[p]: where process p is
  step,    \* step[p]: the statement it is to execute next
  counted, \* counted[p]: the rows it has counted
  edits, stops,
  wanted,  \* scans that were asked for and not taken back (history)
  met      \* two processes have both found the old table (history)

database    == <<schema, columns, rows, known>>
progress    == <<at, step, counted>>
upgradeVars == <<database, progress, edits, stops, wanted, met>>

(* For the additive statements: a table that may exist in an older shape,  *)
(* one that is new, and columns that are added to it.                      *)
Statements == <<"scan_watches", "free_tier_ladder", "plan_picker">>
Needs(s) == IF s = "plan_picker" THEN {"free_tier_ladder"} ELSE {}

Upgraded == {Statements[n] : n \in DOMAIN Statements}

UpgradeTypeOK ==
  /\ schema \subseteq Upgraded
  /\ columns \subseteq {"rank_by", "last_sent_sig"}
  /\ {rows, wanted} \subseteq SUBSET (Chats \X Ranks)
  /\ known \subseteq Chats
  /\ at \in [Processes -> {"down", "script", "shape", "count", "copy", "sig", "up"}]
  /\ step \in [Processes -> 1..Len(Statements)]
  /\ counted \in [Processes -> Nat]
  /\ met \in BOOLEAN

(* The database of any release before, or none; rows may have outlived     *)
(* their subscriber.                                                       *)
UpgradeInit ==
  /\ schema \in {{Statements[n] : n \in 1..m} : m \in 0..Len(Statements)}
  /\ columns \in IF "scan_watches" \in schema
                   THEN {{}, {"rank_by"}, {"rank_by", "last_sent_sig"}} ELSE {{}}
  /\ rows \in SUBSET (Chats \X (IF "rank_by" \in columns THEN Ranks ELSE {Oi}))
  /\ "scan_watches" \notin schema => rows = {}
  /\ known \in SUBSET Chats
  /\ at = [p \in Processes |-> "down"]
  /\ step = [p \in Processes |-> 1]
  /\ counted = [p \in Processes |-> 0]
  /\ edits = 0 /\ stops = 0
  /\ wanted = rows
  /\ met = FALSE

To(p, place) == at' = [at EXCEPT ![p] = place]

---------------------------------------------------------------------------
(* A start *)

Start(p) ==
  /\ at[p] = "down"
  /\ To(p, "script")
  /\ step' = [step EXCEPT ![p] = 1]
  /\ UNCHANGED <<database, counted, edits, stops, wanted, met>>

(* The next statement.  What exists already is passed over; any other      *)
(* error, such as a table that is missing, ends the process.               *)
Execute(p) ==
  LET s == Statements[step[p]] IN
  /\ at[p] = "script"
  /\ IF Needs(s) \subseteq schema
       THEN /\ schema' = schema \cup {s}
            /\ columns' = IF s = "scan_watches" /\ s \notin schema THEN {"rank_by"} ELSE columns
            /\ IF step[p] = Len(Statements)
                 THEN To(p, "shape") /\ UNCHANGED step
                 ELSE step' = [step EXCEPT ![p] = @ + 1] /\ UNCHANGED at
       ELSE To(p, "down") /\ UNCHANGED <<schema, columns, step>>
  /\ UNCHANGED <<rows, known, counted, edits, stops, wanted, met>>

(* _migrate_scan_watches_rank_by: is there anything to do? *)
MigrateAlways(p) ==
  /\ at[p] = "shape"
  /\ To(p, "count")
  /\ UNCHANGED <<database, step, counted, edits, stops, wanted, met>>
LookAtShape(p) ==
  /\ at[p] = "shape"
  /\ To(p, IF "rank_by" \in columns THEN "sig" ELSE "count")
  /\ met' = (met \/ ("rank_by" \notin columns /\ \E q \in Processes \ {p} : at[q] \in {"count", "copy"}))
  /\ UNCHANGED <<database, step, counted, edits, stops, wanted>>

Count(p) ==
  /\ at[p] = "count"
  /\ To(p, "copy")
  /\ counted' = [counted EXCEPT ![p] = Cardinality(rows)]
  /\ UNCHANGED <<database, step, edits, stops, wanted, met>>

(* foreign_keys is off on this connection. *)
AcceptsKnown(r) == r[1] \in known
Accepts(r) == TRUE

(* The transaction: every row with the old rank in a table of the new      *)
(* shape.  It is rolled back, and the process ends, when two rows fall     *)
(* together or their number is not the one that was counted.               *)
Recreate(p) ==
  LET copies == {<<r[1], Oi>> : r \in rows} IN
  /\ at[p] = "copy"
  /\ IF /\ Cardinality(copies) = Cardinality(rows)
        /\ Cardinality(rows) = counted[p]
        /\ \A r \in rows : Accepts(r)
       THEN rows' = copies /\ columns' = {"rank_by"} /\ To(p, "sig")
       ELSE UNCHANGED <<rows, columns>> /\ To(p, "down")
  /\ UNCHANGED <<schema, known, step, counted, edits, stops, wanted, met>>

AddSignature(p) ==
  /\ at[p] = "sig"
  /\ columns' = columns \cup {"last_sent_sig"}
  /\ To(p, "up")
  /\ UNCHANGED <<schema, rows, known, step, counted, edits, stops, wanted, met>>

Opens(p) ==
  Start(p) \/ Execute(p) \/ LookAtShape(p) \/ Count(p) \/ Recreate(p) \/ AddSignature(p)

---------------------------------------------------------------------------
(* Meanwhile *)

Stop(p) ==
  /\ at[p] # "down"
  /\ stops < MaxStops
  /\ stops' = stops + 1
  /\ To(p, "down")
  /\ UNCHANGED <<database, step, counted, edits, wanted, met>>

(* /scanwatch and /unscanwatch, of this release once a process of it is    *)
(* up; the release before does not name a rank.                            *)
Speaks(r) == r = Oi \/ \E p \in Processes : at[p] = "up"

Subscribe(c, r) ==
  /\ "scan_watches" \in schema
  /\ edits < MaxEdits
  /\ Speaks(r)
  /\ <<c, r>> \notin rows
  /\ edits' = edits + 1
  /\ known' = known \cup {c}
  /\ rows' = rows \cup {<<c, r>>}
  /\ wanted' = wanted \cup {<<c, r>>}
  /\ UNCHANGED <<schema, columns, progress, stops, met>>

Unsubscribe(c, r) ==
  /\ edits < MaxEdits
  /\ Speaks(r)
  /\ <<c, r>> \in rows
  /\ edits' = edits + 1
  /\ rows' = rows \ {<<c, r>>}
  /\ wanted' = wanted \ {<<c, r>>}
  /\ UNCHANGED <<schema, columns, known, progress, stops, met>>

UpgradeNext ==
  \/ \E p \in Processes : Opens(p) \/ Stop(p)
  \/ \E c \in Chats, r \in Ranks : Subscribe(c, r) \/ Unsubscribe(c, r)

UpgradeSpec == UpgradeInit /\ [][UpgradeNext]_upgradeVars

---------------------------------------------------------------------------
(* Properties *)

(* Whatever release the database is of, and wherever a start was cut off:  *)
(* each scan is there as it was asked for and no other, and a process that *)
(* is up finds all of the schema.  Left out are two starts that both find  *)
(* the old table: the one that comes second takes the new table for the    *)
(* old, gives its rows the old rank again and drops the signatures         *)
(* (_init_schema, _migrate_scan_watches_rank_by).                          *)
UpgradeKeeps ==
  ~met => /\ rows = wanted
          /\ \A p \in Processes : at[p] = "up" =>
               schema = Upgraded /\ columns = {"rank_by", "last_sent_sig"}

(* Every process comes up in the end: no database, no row without a        *)
(* subscriber and no race of two starts makes it end each time it starts.  *)
ComesUp == \A p \in Processes : at[p] # "up" ~> at[p] = "up"
=============================================================================
