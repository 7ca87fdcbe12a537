-------------------------- MODULE ScanServiceProofs --------------------------
(***************************************************************************)
(* What ScanService promises of signatures and charges, for any number of  *)
(* chats, lenses and processes, whatever a scan finds, and whatever the    *)
(* upgrade before left in the table.                                       *)
(***************************************************************************)
EXTENDS ScanService, Sequences, FiniteSetTheorems, TLAPS

(* The shape of a subscription and of a pass.  A digest that is on its way *)
(* is one of the group's, and only it leaves calls to be charged.          *)
SubsOK ==
  /\ DOMAIN subs \subseteq Rows
  /\ subs \in [DOMAIN subs -> [fired : BOOLEAN, sig : Markets]]
PassOK ==
  pass # NULL =>
    /\ pass \in Pass
    /\ pass.sent \in {NULL} \cup pass.group
    /\ pass.sent = NULL => pass.left = 0
Shape ==
  /\ SubsOK /\ PassOK
  /\ told \in [Rows -> Markets]
  /\ owed \in Int /\ faults \in Nat

LEMMA RowsAreNoNull == NULL \notin Rows
  BY ScanDigestAssumption

LEMMA CallsCounted ==
  ASSUME NEW m \in Markets
  PROVE  Cardinality(m) \in 0..MaxCalls
  BY ScanDigestAssumption, FS_CardinalityType

LEMMA MarkShape ==
  ASSUME SubsOK, NEW r \in Rows, NEW sig \in Markets, MarkBucket(r) \/ MarkBucketAndSig(r, sig)
  PROVE  /\ SubsOK'
         /\ DOMAIN subs' = DOMAIN subs
         /\ \A q \in DOMAIN subs : q # r => subs'[q] = subs[q]
<1>1. CASE r \notin DOMAIN subs
  BY <1>1 DEF SubsOK, MarkBucket, MarkBucketAndSig
<1>2. CASE r \in DOMAIN subs /\ MarkBucket(r)
  <2> DEFINE served == subs[r].fired \/ r[2] \notin pass.stale
  <2>1. subs[r] \in [fired : BOOLEAN, sig : Markets] /\ served \in BOOLEAN
    BY <1>2 DEF SubsOK
  <2>2. subs' = [subs EXCEPT ![r] = [fired |-> served, sig |-> subs[r].sig]]
    <3>1. subs' = [subs EXCEPT ![r] = [subs[r] EXCEPT !.fired = served]]
      BY <1>2 DEF MarkBucket
    <3>2. [subs[r] EXCEPT !.fired = served] = [fired |-> served, sig |-> subs[r].sig]
      BY <2>1
    <3> QED
      BY <3>1, <3>2
  <2> HIDE DEF served
  <2> QED
    BY <1>2, <2>1, <2>2 DEF SubsOK
<1>3. CASE r \in DOMAIN subs /\ MarkBucketAndSig(r, sig)
  <2> DEFINE served == subs[r].fired \/ r[2] \notin pass.stale
  <2>1. served \in BOOLEAN
    OBVIOUS
  <2>2. subs' = [subs EXCEPT ![r] = [fired |-> served, sig |-> sig]]
    BY <1>3 DEF MarkBucketAndSig, SubsOK
  <2> HIDE DEF served
  <2> QED
    BY <1>3, <2>1, <2>2 DEF SubsOK
<1> QED
  BY <1>1, <1>2, <1>3

LEMMA OnwardShape ==
  ASSUME PassOK, pass # NULL, NEW r, Onward(r)
  PROVE  /\ PassOK'
         /\ pass' # NULL => pass'.sent = NULL /\ pass'.left = 0
<1>1. pass' = [todo |-> pass.todo, group |-> pass.group \ {r}, found |-> pass.found,
               sent |-> NULL, left |-> 0, sigs |-> pass.sigs, stale |-> pass.stale]
  BY DEF PassOK, Pass, Onward
<1>2. 0 \in 0..MaxCalls
  BY ScanDigestAssumption
<1> QED
  BY <1>1, <1>2 DEF PassOK, Pass

LEMMA ServeShape == ASSUME Shape, NEW r \in Rows, Serve(r) PROVE Shape'
<1> USE DEF Shape
<1>1. pass # NULL /\ pass.found \in Markets /\ {} \in Markets
  BY ScanDigestAssumption DEF Serve, Quiet, Refuse, Unchanged, Push, PushFails, MarkSent, Wanted,
     At, PassOK, Pass
<1>2. Cardinality(pass.found) \in 0..MaxCalls
  BY <1>1, CallsCounted
<1>3. CASE Quiet(r)
  BY <1>1, <1>3, MarkShape, OnwardShape DEF Quiet
<1>4. CASE Refuse(r) \/ Unchanged(r)
  BY <1>1, <1>4, MarkShape, OnwardShape DEF Refuse, Unchanged, history
<1>5. CASE Push(r)
  <2>1. PassOK'
    BY <1>1, <1>2, <1>5, RowsAreNoNull DEF Push, Wanted, At, PassOK, Pass
  <2> QED
    BY <1>1, <1>2, <1>5, <2>1 DEF Push, Arrives, SubsOK
<1>6. CASE PushFails(r)
  BY <1>1, <1>2, <1>6, MarkShape, OnwardShape DEF PushFails, Arrives
<1>7. CASE MarkSent(r)
  BY <1>1, <1>7, MarkShape, OnwardShape DEF MarkSent, history
<1> QED
  BY <1>3, <1>4, <1>5, <1>6, <1>7 DEF Serve

LEMMA ShapeNext == ASSUME Shape, Next PROVE Shape'
<1> USE DEF Shape
<1>1. CASE StartPass
  <2>1. Due \in SUBSET Rows /\ [r \in Due |-> subs[r].sig] \in [Due -> Markets]
    BY DEF Due, SubsOK
  <2>2. [r \in Due |-> subs[r].sig] \in Sigs
    BY <2>1 DEF Sigs
  <2> QED
    BY <1>1, <2>1, <2>2, ScanDigestAssumption DEF StartPass, SubsOK, PassOK, Pass, history
<1>2. CASE EndPass \/ Crash
  BY <1>2, ScanDigestAssumption DEF EndPass, Crash, SubsOK, PassOK, Pass, history
<1>3. CASE Record
  <2>1. pass' = [todo |-> pass.todo, group |-> pass.group, found |-> pass.found,
                 sent |-> pass.sent, left |-> pass.left - 1, sigs |-> pass.sigs,
                 stale |-> pass.stale]
    BY <1>3 DEF Record, PassOK, Pass
  <2>2. pass.left \in 0..MaxCalls /\ pass.left > 0 /\ pass.left - 1 \in 0..MaxCalls
    BY <1>3, ScanDigestAssumption DEF Record, PassOK, Pass
  <2>3. PassOK'
    BY <1>3, <2>1, <2>2 DEF Record, PassOK, Pass
  <2> QED
    BY <1>3, <2>3 DEF Record, SubsOK
<1>4. ASSUME NEW l \in Lenses, Scan(l) \/ ScanFails(l) PROVE Shape'
  <2>1. Members(l) \subseteq Rows
    BY <1>4 DEF Scan, ScanFails, Idle, Members, PassOK, Pass
  <2> QED
    BY <1>4, <2>1 DEF Scan, ScanFails, Idle, SubsOK, PassOK, Pass, history
<1>5. ASSUME NEW r \in Rows, Serve(r) PROVE Shape'
  BY <1>5, ServeShape
<1>6. ASSUME NEW c \in Chats, NEW l \in Lenses, Scanwatch(c, l) \/ Unscanwatch(c, l)
      PROVE  Shape'
  <2>1. <<c, l>> \in Rows /\ {} \in Markets
    BY ScanDigestAssumption DEF Rows
  <2>2. CASE Scanwatch(c, l)
    BY <2>1, <2>2 DEF Scanwatch, SubsOK, PassOK, Pass
  <2>3. CASE Unscanwatch(c, l)
    BY <2>1, <2>3 DEF Unscanwatch, SubsOK, PassOK, Pass, history
  <2> QED
    BY <1>6, <2>2, <2>3
<1>7. ASSUME NEW l \in Lenses, Turn(l) PROVE Shape'
  BY <1>7 DEF Turn, SubsOK, PassOK, Pass
<1> QED
  BY <1>1, <1>2, <1>3, <1>4, <1>5, <1>6, <1>7 DEF Next, Engine, World

---------------------------------------------------------------------------
(* Signatures *)

(* A digest on its way was told to its chat as it was found.               *)
SigInv ==
  faults = 0 =>
    /\ SigIsWhatWasSent
    /\ pass # NULL /\ pass.sent # NULL => told[pass.sent] = pass.found

LEMMA ServeSig == ASSUME Shape, SigInv, NEW r \in Rows, Serve(r) PROVE SigInv'
<1> SUFFICES ASSUME faults' = 0 PROVE SigInv'
  BY DEF SigInv
<1> USE DEF Shape
<1>1. /\ pass # NULL /\ pass.found \in Markets /\ {} \in Markets
      /\ faults = 0 /\ faults' = faults
  BY ScanDigestAssumption
  DEF Serve, Quiet, Refuse, Unchanged, Push, PushFails, MarkSent, Wanted, At, PassOK, Pass
<1>2. CASE Quiet(r)
  <2>1. DOMAIN subs' = DOMAIN subs /\ \A q \in DOMAIN subs : q # r => subs'[q] = subs[q]
    BY <1>1, <1>2, MarkShape DEF Quiet
  <2>2. r \in DOMAIN subs => subs'[r].sig = {}
    BY <1>2 DEF Quiet, MarkBucketAndSig, SubsOK
  <2>3. pass' # NULL => pass'.sent = NULL
    BY <1>1, <1>2, OnwardShape DEF Quiet
  <2>4. \A q \in Rows : q # r => told'[q] = told[q]
    BY <1>2 DEF Quiet
  <2> QED
    BY <1>1, <1>2, <2>1, <2>2, <2>3, <2>4, RowsAreNoNull DEF SigInv, SigIsWhatWasSent, Quiet, At, SubsOK
<1>3. CASE Refuse(r) \/ Unchanged(r) \/ (PushFails(r) /\ UNCHANGED told)
  <2>1. MarkBucket(r) /\ Onward(r) /\ told' = told /\ pass.sent = NULL
    BY <1>3 DEF Refuse, Unchanged, PushFails, Wanted, At, history
  <2>2. DOMAIN subs' = DOMAIN subs /\ \A q \in DOMAIN subs : q # r => subs'[q] = subs[q]
    BY <1>1, <2>1, MarkShape
  <2>3. r \in DOMAIN subs => subs'[r].sig = subs[r].sig
    BY <2>1 DEF MarkBucket, SubsOK
  <2>4. pass' # NULL => pass'.sent = NULL
    BY <1>1, <2>1, OnwardShape
  <2> QED
    BY <1>1, <2>1, <2>2, <2>3, <2>4, RowsAreNoNull DEF SigInv, SigIsWhatWasSent, SubsOK
<1>4. CASE PushFails(r) /\ faults' # 0
  BY <1>1, <1>4
<1>5. CASE Push(r)
  <2>1. /\ pass' \in Pass /\ pass'.sent = r /\ pass'.found = pass.found
        /\ pass.sent = NULL
    BY <1>1, <1>5, CallsCounted DEF Push, Wanted, At, PassOK, Pass
  <2>2. told'[r] = pass.found /\ \A q \in Rows : q # r => told'[q] = told[q]
    BY <1>5 DEF Push, Arrives
  <2> QED
    BY <1>1, <1>5, <2>1, <2>2, ScanDigestAssumption
    DEF SigInv, SigIsWhatWasSent, Push, SubsOK
<1>6. CASE MarkSent(r)
  <2>1. DOMAIN subs' = DOMAIN subs /\ \A q \in DOMAIN subs : q # r => subs'[q] = subs[q]
    BY <1>1, <1>6, MarkShape DEF MarkSent
  <2>2. r \in DOMAIN subs => subs'[r].sig = pass.found
    BY <1>6 DEF MarkSent, MarkBucketAndSig, SubsOK
  <2>3. pass' # NULL => pass'.sent = NULL
    BY <1>1, <1>6, OnwardShape DEF MarkSent
  <2>4. told[r] = pass.found /\ told' = told /\ pass.sent = r
    BY <1>1, <1>6, RowsAreNoNull DEF MarkSent, history, SigInv
  <2> QED
    BY <1>1, <2>1, <2>2, <2>3, <2>4, RowsAreNoNull DEF SigInv, SigIsWhatWasSent, SubsOK
<1>7. faults' = faults /\ PushFails(r) => UNCHANGED told
  BY DEF PushFails, Shape
<1> QED
  BY <1>1, <1>2, <1>3, <1>5, <1>6, <1>7 DEF Serve

LEMMA SigNext == ASSUME Shape, SigInv, Next PROVE SigInv'
<1> USE DEF Shape
<1>1. CASE StartPass \/ EndPass \/ Crash
  <2>1. UNCHANGED <<subs, told>> /\ (pass = NULL \/ pass' = NULL)
    BY <1>1 DEF StartPass, EndPass, Crash, history
  <2>2. pass' # NULL => pass'.sent = NULL
    BY <1>1 DEF StartPass, EndPass, Crash
  <2>3. faults' = 0 => faults = 0 /\ (pass # NULL => pass.group = {})
    BY <1>1 DEF StartPass, EndPass, Crash, Idle
  <2>4. faults' = 0 /\ pass # NULL => pass.sent = NULL
    BY <2>3 DEF PassOK, Pass
  <2> QED
    BY <2>1, <2>2, <2>3, <2>4, RowsAreNoNull DEF SigInv, SigIsWhatWasSent, SubsOK
<1>2. CASE Record
  <2>1. /\ pass # NULL /\ pass' # NULL /\ pass'.sent = pass.sent /\ pass'.found = pass.found
        /\ UNCHANGED <<subs, told, faults>>
    BY <1>2, ScanDigestAssumption DEF Record, PassOK, Pass
  <2> QED
    BY <2>1 DEF SigInv, SigIsWhatWasSent
<1>3. ASSUME NEW l \in Lenses, Scan(l) \/ ScanFails(l) PROVE SigInv'
  <2>1. pass # NULL /\ pass \in Pass /\ pass.sent = NULL /\ Members(l) \subseteq Rows
    BY <1>3 DEF Scan, ScanFails, Idle, Members, PassOK, Pass
  <2>2. pass' \in Pass /\ pass'.sent = NULL /\ UNCHANGED <<subs, told, faults>>
    BY <1>3, <2>1 DEF Scan, ScanFails, Pass, history
  <2> QED
    BY <2>1, <2>2, ScanDigestAssumption DEF SigInv, SigIsWhatWasSent, SubsOK
<1>4. ASSUME NEW r \in Rows, Serve(r) PROVE SigInv'
  BY <1>4, ServeSig
<1>5. ASSUME NEW c \in Chats, NEW l \in Lenses, Scanwatch(c, l) \/ Unscanwatch(c, l)
      PROVE  SigInv'
  <2>1. UNCHANGED <<pass, told, faults>>
    BY <1>5 DEF Scanwatch, Unscanwatch, history
  <2>2. \A r \in DOMAIN subs' : subs'[r].sig = {} \/ (r \in DOMAIN subs /\ subs'[r] = subs[r])
    BY <1>5 DEF Scanwatch, Unscanwatch
  <2> QED
    BY <2>1, <2>2 DEF SigInv, SigIsWhatWasSent
<1>6. ASSUME NEW l \in Lenses, Turn(l) PROVE SigInv'
  <2>1. UNCHANGED <<told, faults>>
    BY <1>6 DEF Turn
  <2>2. DOMAIN subs' = DOMAIN subs /\ \A r \in DOMAIN subs : subs'[r].sig = subs[r].sig
    BY <1>6 DEF Turn, SubsOK
  <2>3. CASE pass = NULL
    BY <1>6, <2>1, <2>2, <2>3 DEF Turn, SigInv, SigIsWhatWasSent
  <2>4. CASE pass # NULL
    <3>1. pass' # NULL /\ pass'.sent = pass.sent /\ pass'.found = pass.found
      BY <1>6, <2>4, ScanDigestAssumption DEF Turn, PassOK, Pass
    <3> QED
      BY <2>1, <2>2, <2>4, <3>1 DEF SigInv, SigIsWhatWasSent
  <2> QED
    BY <2>3, <2>4
<1> QED
  BY <1>1, <1>2, <1>3, <1>4, <1>5, <1>6 DEF Next, Engine, World

---------------------------------------------------------------------------
(* Charges *)

LEMMA FaultsCost ==
  ASSUME NEW f \in Nat
  PROVE  f * MaxCalls \in Nat /\ (f + 1) * MaxCalls = f * MaxCalls + MaxCalls
<1>1. MaxCalls \in Nat
  BY ScanDigestAssumption
<1> QED
  BY <1>1

LEMMA OneMoreFault ==
  ASSUME NEW f \in Nat, NEW n \in 0..MaxCalls
  PROVE  f * MaxCalls + n <= (f + 1) * MaxCalls /\ (f + 1) * MaxCalls \in Nat
<1>1. MaxCalls \in Nat
  BY ScanDigestAssumption
<1> QED
  BY <1>1, FaultsCost

LEMMA ServeCharged ==
  ASSUME Shape, ChargedAsSent, NEW r \in Rows, Serve(r)
  PROVE  ChargedAsSent'
<1> USE DEF Shape
<1>1. /\ pass # NULL /\ pass \in Pass /\ pass.found \in Markets
      /\ pass.left \in 0..MaxCalls /\ faults * MaxCalls \in Nat
  BY FaultsCost
  DEF Serve, Quiet, Refuse, Unchanged, Push, PushFails, MarkSent, Wanted, At, PassOK, Pass
<1>2. Cardinality(pass.found) \in 0..MaxCalls
  BY <1>1, CallsCounted
<1>3. Onward(r) => (pass' # NULL => pass'.left = 0)
  BY <1>1, OnwardShape
<1>4. CASE Quiet(r) \/ Refuse(r) \/ Unchanged(r) \/ MarkSent(r)
  <2>1. pass.left = 0 /\ Onward(r) /\ UNCHANGED <<owed, faults>>
    BY <1>4 DEF Quiet, Refuse, Unchanged, MarkSent, Wanted, At, PassOK, history
  <2> QED
    BY <1>1, <1>3, <2>1, ScanDigestAssumption DEF ChargedAsSent
<1>5. CASE Push(r)
  <2>1. pass.left = 0 /\ owed' = owed + Cardinality(pass.found) /\ faults' = faults
    BY <1>5 DEF Push, Wanted, At, Arrives, PassOK
  <2>2. pass' \in Pass /\ pass'.left = Cardinality(pass.found)
    BY <1>1, <1>2, <1>5 DEF Push, Pass
  <2> QED
    BY <1>1, <1>2, <2>1, <2>2, ScanDigestAssumption DEF ChargedAsSent
<1>6. CASE PushFails(r)
  <2>1. pass.left = 0 /\ Onward(r)
    BY <1>6 DEF PushFails, Wanted, At, PassOK
  <2>2. \/ UNCHANGED <<owed, faults>>
        \/ owed' = owed + Cardinality(pass.found) /\ faults' = faults + 1
    BY <1>6 DEF PushFails, Arrives
  <2>3. faults * MaxCalls + Cardinality(pass.found) <= (faults + 1) * MaxCalls
    BY <1>2, OneMoreFault
  <2>4. (faults + 1) * MaxCalls \in Nat
    BY <1>2, OneMoreFault
  <2> QED
    BY <1>1, <1>2, <1>3, <2>1, <2>2, <2>3, <2>4, ScanDigestAssumption DEF ChargedAsSent
<1> QED
  BY <1>4, <1>5, <1>6 DEF Serve

LEMMA ChargedNext == ASSUME Shape, ChargedAsSent, Next PROVE ChargedAsSent'
<1> USE DEF Shape
<1>1. /\ faults * MaxCalls \in Nat /\ MaxCalls \in Nat
      /\ (faults + 1) * MaxCalls = faults * MaxCalls + MaxCalls
  BY FaultsCost, ScanDigestAssumption
<1>2. CASE StartPass
  <2>1. pass = NULL /\ pass'.left = 0 /\ UNCHANGED <<owed, faults>>
    BY <1>2 DEF StartPass, history
  <2> QED
    BY <1>1, <2>1 DEF ChargedAsSent
<1>3. CASE EndPass
  <2>1. pass # NULL /\ pass.left = 0 /\ pass' = NULL /\ UNCHANGED <<owed, faults>>
    BY <1>3 DEF EndPass, Idle, PassOK, history
  <2> QED
    BY <2>1 DEF ChargedAsSent
<1>4. CASE Record
  <2>1. pass # NULL /\ pass.left \in Nat /\ pass.left - 1 \in 0..MaxCalls /\ pass \in Pass
    BY <1>4, ScanDigestAssumption DEF Record, PassOK, Pass
  <2>2. pass' \in Pass /\ pass'.left = pass.left - 1
    BY <1>4, <2>1 DEF Record, Pass
  <2> QED
    BY <1>1, <1>4, <2>1, <2>2, ScanDigestAssumption DEF Record, ChargedAsSent
<1>5. ASSUME NEW l \in Lenses, Scan(l) \/ ScanFails(l) PROVE ChargedAsSent'
  <2>1. /\ pass # NULL /\ pass \in Pass /\ pass.left = 0 /\ Members(l) \subseteq Rows
        /\ UNCHANGED <<owed, faults>>
    BY <1>5 DEF Scan, ScanFails, Idle, Members, PassOK, Pass, history
  <2>2. pass' \in Pass /\ pass'.left = 0
    BY <1>5, <2>1 DEF Scan, ScanFails, Pass
  <2> QED
    BY <2>1, <2>2, ScanDigestAssumption DEF ChargedAsSent
<1>6. ASSUME NEW r \in Rows, Serve(r) PROVE ChargedAsSent'
  BY <1>6, ServeCharged
<1>7. CASE Crash
  <2>1. pass # NULL /\ pass' = NULL /\ faults' = faults + 1 /\ owed' = owed
    BY <1>7 DEF Crash, history
  <2>2. pass.left \in 0..MaxCalls
    BY <2>1 DEF PassOK, Pass
  <2>3. faults * MaxCalls + pass.left <= (faults + 1) * MaxCalls
    BY <2>2, OneMoreFault
  <2> QED
    BY <1>1, <2>1, <2>2, <2>3 DEF ChargedAsSent
<1>8. ASSUME NEW c \in Chats, NEW l \in Lenses, Scanwatch(c, l) \/ Unscanwatch(c, l)
      PROVE  ChargedAsSent'
  BY <1>8 DEF Scanwatch, Unscanwatch, ChargedAsSent, history
<1>9. ASSUME NEW l \in Lenses, Turn(l) PROVE ChargedAsSent'
  <2>1. UNCHANGED <<owed, faults>>
    BY <1>9 DEF Turn
  <2>2. CASE pass = NULL
    BY <1>9, <2>1, <2>2 DEF Turn, ChargedAsSent
  <2>3. CASE pass # NULL
    <3>1. pass' \in Pass /\ pass'.left = pass.left
      BY <1>9, <2>3 DEF Turn, PassOK, Pass
    <3> QED
      BY <2>1, <2>3, <3>1, ScanDigestAssumption DEF ChargedAsSent
  <2> QED
    BY <2>2, <2>3
<1> QED
  BY <1>2, <1>3, <1>4, <1>5, <1>6, <1>7, <1>8, <1>9 DEF Next, Engine, World

---------------------------------------------------------------------------
(* Repeats *)

(* A subscription is exposed when the scan that its chat was told last may *)
(* be sent to it again: what it is, or in this pass will be, compared with *)
(* is another signature.  Only a fault exposes one, and a repeat covers    *)
(* it: so repeats and exposed subscriptions together do not outnumber the  *)
(* faults.                                                                 *)
OnItsWay(r) == pass # NULL /\ pass.sent = r
Pending(r)  == pass # NULL /\ r \in pass.todo \cup pass.group /\ pass.sent # r
Exposed(r) ==
  /\ r \notin fresh /\ told[r] # {}
  /\ \/ r \in DOMAIN subs /\ ~OnItsWay(r) /\ subs[r].sig # told[r]
     \/ Pending(r) /\ pass.sigs[r] # told[r]
ExposedRows == {r \in Rows : Exposed(r)}

PassSane ==
  pass # NULL =>
    /\ pass.todo \cap pass.group = {}
    /\ pass.sent # NULL => told[pass.sent] = pass.found
Covered ==
  /\ again \in Nat
  /\ IsFiniteSet(ExposedRows)
  /\ again + Cardinality(ExposedRows) <= faults
RepeatInv == PassSane /\ Covered

LEMMA NoneExposed ==
  ASSUME Shape, Covered, again' = again, faults' \in Nat, faults' >= faults,
         \A r \in Rows : Exposed(r)' => Exposed(r)
  PROVE  Covered'
<1>1. ExposedRows' \subseteq ExposedRows
  BY DEF ExposedRows
<1>2. /\ IsFiniteSet(ExposedRows')
      /\ Cardinality(ExposedRows') <= Cardinality(ExposedRows)
      /\ Cardinality(ExposedRows') \in Nat /\ Cardinality(ExposedRows) \in Nat
  BY <1>1, FS_Subset, FS_CardinalityType DEF Covered
<1> QED
  BY <1>2 DEF Covered, Shape

LEMMA OneExposed ==
  ASSUME Shape, Covered, again' = again, faults' = faults + 1, NEW x,
         \A r \in Rows : Exposed(r)' => Exposed(r) \/ r = x
  PROVE  Covered'
<1>1. ExposedRows' \subseteq ExposedRows \cup {x}
  BY DEF ExposedRows
<1>2. /\ IsFiniteSet(ExposedRows \cup {x}) /\ Cardinality(ExposedRows) \in Nat
      /\ Cardinality(ExposedRows \cup {x}) =
           IF x \in ExposedRows THEN Cardinality(ExposedRows) ELSE Cardinality(ExposedRows) + 1
  <2>1. IsFiniteSet(ExposedRows)
    BY DEF Covered
  <2> QED
    BY <2>1, FS_AddElement, FS_CardinalityType
<1>3. /\ IsFiniteSet(ExposedRows')
      /\ Cardinality(ExposedRows') <= Cardinality(ExposedRows \cup {x})
      /\ Cardinality(ExposedRows') \in Nat /\ Cardinality(ExposedRows) \in Nat
      /\ Cardinality(ExposedRows \cup {x}) \in Nat
  BY <1>1, <1>2, FS_Subset, FS_CardinalityType DEF Covered
<1> QED
  BY <1>2, <1>3 DEF Covered, Shape

LEMMA OneRepeated ==
  ASSUME Shape, Covered, again' = again + 1, faults' = faults, NEW x \in Rows, Exposed(x),
         \A r \in Rows : Exposed(r)' => Exposed(r) /\ r # x
  PROVE  Covered'
<1>1. ExposedRows' \subseteq ExposedRows \ {x} /\ x \in ExposedRows
  BY DEF ExposedRows
<1>2. /\ IsFiniteSet(ExposedRows \ {x})
      /\ Cardinality(ExposedRows \ {x}) = Cardinality(ExposedRows) - 1
  BY <1>1, FS_RemoveElement DEF Covered
<1>3. /\ IsFiniteSet(ExposedRows')
      /\ Cardinality(ExposedRows') <= Cardinality(ExposedRows \ {x})
      /\ Cardinality(ExposedRows') \in Nat /\ Cardinality(ExposedRows) \in Nat
      /\ Cardinality(ExposedRows \ {x}) \in Nat
  BY <1>1, <1>2, FS_Subset, FS_CardinalityType DEF Covered
<1> QED
  BY <1>2, <1>3 DEF Covered, Shape

LEMMA OneRepeatedAtAFault ==
  ASSUME Shape, Covered, again' = again + 1, faults' = faults + 1,
         \A r \in Rows : Exposed(r)' => Exposed(r)
  PROVE  Covered'
<1>1. ExposedRows' \subseteq ExposedRows
  BY DEF ExposedRows
<1>2. /\ IsFiniteSet(ExposedRows')
      /\ Cardinality(ExposedRows') <= Cardinality(ExposedRows)
      /\ Cardinality(ExposedRows') \in Nat /\ Cardinality(ExposedRows) \in Nat
  BY <1>1, FS_Subset, FS_CardinalityType DEF Covered
<1> QED
  BY <1>2 DEF Covered, Shape

LEMMA OnwardRows ==
  ASSUME PassOK, pass # NULL, NEW r \in Rows, Onward(r)
  PROVE  pass' # NULL =>
           /\ pass'.todo = pass.todo /\ pass'.group = pass.group \ {r}
           /\ pass'.sigs = pass.sigs /\ pass'.found = pass.found /\ pass'.sent = NULL
  BY DEF Onward, PassOK, Pass

(* Who is not served does not become exposed, and who was is so only by    *)
(* its own signature.                                                      *)
LEMMA OnwardExposed ==
  ASSUME Shape, pass # NULL, NEW r \in Rows, r \notin pass.todo, Onward(r),
         pass.sent \in {NULL, r},
         DOMAIN subs' = DOMAIN subs, \A q \in DOMAIN subs : q # r => subs'[q] = subs[q],
         \A q \in Rows : q # r => told'[q] = told[q],
         fresh \ {r} \subseteq fresh',
         NEW q \in Rows, Exposed(q)'
  PROVE  /\ q # r => Exposed(q)
         /\ q = r => /\ q \in DOMAIN subs /\ q \notin fresh' /\ told'[q] # {}
                     /\ subs'[q].sig # told'[q]
<1>1. pass' # NULL =>
        /\ pass'.todo = pass.todo /\ pass'.group = pass.group \ {r}
        /\ pass'.sigs = pass.sigs /\ pass'.found = pass.found /\ pass'.sent = NULL
  BY OnwardRows DEF Shape
<1>2. CASE q # r
  <2>1. q \notin fresh /\ told[q] # {} /\ told'[q] = told[q] /\ q \notin fresh'
    BY <1>2 DEF Exposed
  <2>2. pass.sent # q
    BY <1>2, RowsAreNoNull
  <2>3. CASE q \in DOMAIN subs' /\ subs'[q].sig # told'[q]
    BY <1>2, <2>1, <2>2, <2>3 DEF Exposed, OnItsWay
  <2>4. CASE pass' # NULL /\ q \in pass'.todo \cup pass'.group /\ pass'.sigs[q] # told'[q]
    BY <1>1, <1>2, <2>1, <2>2, <2>4 DEF Exposed, Pending
  <2> QED
    BY <1>2, <2>3, <2>4 DEF Exposed, Pending
<1>3. CASE q = r
  <2>1. ~(pass' # NULL /\ q \in pass'.todo \cup pass'.group)
    BY <1>1, <1>3 DEF Shape
  <2> QED
    BY <1>3, <2>1 DEF Exposed, Pending
<1> QED
  BY <1>2, <1>3

LEMMA ServeRepeat == ASSUME Shape, RepeatInv, NEW r \in Rows, Serve(r) PROVE RepeatInv'
<1> USE DEF Shape, RepeatInv
<1>1. /\ pass # NULL /\ pass \in Pass /\ pass.found \in Markets /\ {} \in Markets
      /\ r \in pass.group /\ r \notin pass.todo /\ r # NULL
  BY ScanDigestAssumption, RowsAreNoNull
  DEF Serve, Quiet, Refuse, Unchanged, Push, PushFails, MarkSent, Wanted, At, PassOK, Pass, PassSane
<1>2. CASE Quiet(r)
  <2>1. DOMAIN subs' = DOMAIN subs /\ \A q \in DOMAIN subs : q # r => subs'[q] = subs[q]
    BY <1>1, <1>2, MarkShape DEF Quiet
  <2>2. /\ told'[r] = {} /\ \A q \in Rows : q # r => told'[q] = told[q]
        /\ UNCHANGED <<fresh, again, faults>> /\ Onward(r) /\ pass.sent = NULL
    BY <1>2 DEF Quiet, At
  <2>3. ASSUME NEW q \in Rows, Exposed(q)' PROVE Exposed(q)
    BY <1>1, <2>1, <2>2, <2>3, OnwardExposed
  <2>4. PassSane'
    BY <1>1, <2>2, OnwardRows DEF PassSane
  <2> QED
    BY <2>2, <2>3, <2>4, NoneExposed
<1>3. CASE Refuse(r) \/ Unchanged(r) \/ (PushFails(r) /\ UNCHANGED <<told, fresh, again, faults>>)
  <2>1. MarkBucket(r) /\ Onward(r) /\ UNCHANGED <<told, fresh, again, faults>> /\ pass.sent = NULL
    BY <1>3 DEF Refuse, Unchanged, PushFails, Wanted, At, history
  <2>2. DOMAIN subs' = DOMAIN subs /\ \A q \in DOMAIN subs : q # r => subs'[q] = subs[q]
    BY <1>1, <2>1, MarkShape
  <2>3. r \in DOMAIN subs => subs'[r].sig = subs[r].sig
    BY <2>1 DEF MarkBucket, SubsOK
  <2>4. ASSUME NEW q \in Rows, Exposed(q)' PROVE Exposed(q)
    <3>1. q = r => Exposed(q)
      BY <1>1, <2>1, <2>2, <2>3, <2>4, OnwardExposed DEF Exposed, OnItsWay
    <3> QED
      BY <1>1, <2>1, <2>2, <2>4, <3>1, OnwardExposed
  <2>5. PassSane'
    BY <1>1, <2>1, OnwardRows DEF PassSane
  <2> QED
    BY <2>1, <2>4, <2>5, NoneExposed
<1>4. CASE PushFails(r) /\ Arrives(r)
  <2>1. /\ MarkBucket(r) /\ Onward(r) /\ Arrives(r) /\ pass.sent = NULL
        /\ pass.found # pass.sigs[r] /\ pass.found # {}
    BY <1>4 DEF PushFails, Wanted, At
  <2>2. DOMAIN subs' = DOMAIN subs /\ \A q \in DOMAIN subs : q # r => subs'[q] = subs[q]
    BY <1>1, <2>1, MarkShape
  <2>3. r \in DOMAIN subs => subs'[r].sig = subs[r].sig
    BY <2>1 DEF MarkBucket, SubsOK
  <2>4. told'[r] = pass.found /\ \A q \in Rows : q # r => told'[q] = told[q]
    BY <2>1 DEF Arrives
  <2>5. fresh' = fresh \ {r}
    BY <2>1 DEF Arrives
  <2>6. ASSUME NEW q \in Rows, Exposed(q)' PROVE Exposed(q) \/ q = r
    BY <1>1, <2>1, <2>2, <2>4, <2>5, <2>6, OnwardExposed
  <2>7. PassSane'
    BY <1>1, <2>1, OnwardRows DEF PassSane
  <2>8. CASE UNCHANGED <<told, fresh, again, faults>>
    BY <1>3, <1>4, <2>8
  <2>9. CASE faults' = faults + 1
    <3>1. CASE told[r] = pass.found /\ r \notin fresh
      <4>1. again' = again + 1
        BY <2>1, <3>1 DEF Arrives
      <4>2. Exposed(r)
        BY <1>1, <2>1, <3>1 DEF Exposed, Pending
      <4> QED
        BY <2>6, <2>7, <2>9, <4>1, <4>2, OneRepeatedAtAFault
    <3>2. CASE ~(told[r] = pass.found /\ r \notin fresh)
      <4>1. again' = again
        BY <2>1, <3>2 DEF Arrives
      <4> QED
        BY <2>6, <2>7, <2>9, <4>1, OneExposed
    <3> QED
      BY <3>1, <3>2
  <2> QED
    BY <1>4, <2>8, <2>9 DEF PushFails
<1>5. CASE Push(r)
  <2>1. /\ Arrives(r) /\ pass.sent = NULL /\ pass.found # pass.sigs[r] /\ pass.found # {}
        /\ UNCHANGED <<subs, faults>>
    BY <1>5 DEF Push, Wanted, At
  <2>2. /\ pass' # NULL /\ pass'.sent = r /\ pass'.found = pass.found /\ pass'.sigs = pass.sigs
        /\ pass'.todo = pass.todo /\ pass'.group = pass.group
    BY <1>1, <1>5, CallsCounted, ScanDigestAssumption DEF Push, PassOK, Pass
  <2>3. told'[r] = pass.found /\ \A q \in Rows : q # r => told'[q] = told[q]
    BY <2>1 DEF Arrives
  <2>4. fresh' = fresh \ {r}
    BY <2>1 DEF Arrives
  <2>5. ASSUME NEW q \in Rows, Exposed(q)' PROVE Exposed(q) /\ q # r
    <3>1. q # r
      BY <1>1, <2>2, <2>5 DEF Exposed, Pending, OnItsWay
    <3> QED
      BY <1>1, <2>1, <2>2, <2>3, <2>4, <2>5, <3>1, RowsAreNoNull DEF Exposed, Pending, OnItsWay
  <2>6. PassSane'
    BY <1>1, <2>1, <2>2, <2>3 DEF PassSane
  <2>7. CASE told[r] = pass.found /\ r \notin fresh
    <3>1. again' = again + 1
      BY <2>1, <2>7 DEF Arrives
    <3>2. Exposed(r)
      BY <1>1, <2>1, <2>7 DEF Exposed, Pending
    <3> QED
      BY <2>1, <2>5, <2>6, <3>1, <3>2, OneRepeated
  <2>8. CASE ~(told[r] = pass.found /\ r \notin fresh)
    <3>1. again' = again
      BY <2>1, <2>8 DEF Arrives
    <3> QED
      BY <2>1, <2>5, <2>6, <3>1, NoneExposed
  <2> QED
    BY <2>7, <2>8
<1>6. CASE MarkSent(r)
  <2>1. DOMAIN subs' = DOMAIN subs /\ \A q \in DOMAIN subs : q # r => subs'[q] = subs[q]
    BY <1>1, <1>6, MarkShape DEF MarkSent
  <2>2. r \in DOMAIN subs => subs'[r].sig = pass.found
    BY <1>6 DEF MarkSent, MarkBucketAndSig, SubsOK
  <2>3. /\ Onward(r) /\ UNCHANGED <<told, fresh, again, faults>> /\ pass.sent = r
        /\ told[r] = pass.found
    BY <1>1, <1>6 DEF MarkSent, history, PassSane
  <2>4. ASSUME NEW q \in Rows, Exposed(q)' PROVE Exposed(q)
    BY <1>1, <2>1, <2>2, <2>3, <2>4, OnwardExposed
  <2>5. PassSane'
    BY <1>1, <2>3, OnwardRows DEF PassSane
  <2> QED
    BY <2>3, <2>4, <2>5, NoneExposed
<1>7. PushFails(r) => UNCHANGED <<told, fresh, again, faults>> \/ Arrives(r)
  BY DEF PushFails
<1> QED
  BY <1>2, <1>3, <1>4, <1>5, <1>6, <1>7 DEF Serve

LEMMA RepeatNext == ASSUME Shape, RepeatInv, Next PROVE RepeatInv'
<1> USE DEF Shape, RepeatInv
<1>1. CASE StartPass
  <2>1. /\ pass = NULL /\ UNCHANGED <<subs, told, fresh, again, faults>>
        /\ pass'.todo = Due /\ pass'.group = {} /\ pass'.sent = NULL
        /\ pass'.sigs = [q \in Due |-> subs[q].sig]
    BY <1>1 DEF StartPass, history
  <2>2. ASSUME NEW q \in Rows, Exposed(q)' PROVE Exposed(q)
    BY <2>1, <2>2 DEF Exposed, Pending, OnItsWay, Due
  <2>3. PassSane'
    BY <2>1 DEF PassSane
  <2> QED
    BY <2>1, <2>2, <2>3, NoneExposed
<1>2. CASE EndPass
  <2>1. /\ pass' = NULL /\ pass.sent = NULL /\ UNCHANGED <<subs, told, fresh, again, faults>>
    BY <1>2 DEF EndPass, Idle, PassOK, history
  <2>2. ASSUME NEW q \in Rows, Exposed(q)' PROVE Exposed(q)
    BY <2>1, <2>2, RowsAreNoNull DEF Exposed, Pending, OnItsWay
  <2> QED
    BY <2>1, <2>2, NoneExposed DEF PassSane
<1>3. CASE Record
  <2>1. /\ pass # NULL /\ pass' # NULL /\ pass'.sent = pass.sent /\ pass'.found = pass.found
        /\ pass'.todo = pass.todo /\ pass'.group = pass.group /\ pass'.sigs = pass.sigs
        /\ UNCHANGED <<subs, told, fresh, again, faults>>
    BY <1>3, ScanDigestAssumption DEF Record, PassOK, Pass
  <2>2. ASSUME NEW q \in Rows, Exposed(q)' PROVE Exposed(q)
    BY <2>1, <2>2 DEF Exposed, Pending, OnItsWay
  <2>3. PassSane'
    BY <2>1 DEF PassSane
  <2> QED
    BY <2>1, <2>2, <2>3, NoneExposed
<1>4. ASSUME NEW l \in Lenses, Scan(l) \/ ScanFails(l) PROVE RepeatInv'
  <2>1. pass # NULL /\ pass \in Pass /\ pass.sent = NULL /\ Members(l) \subseteq pass.todo
    BY <1>4 DEF Scan, ScanFails, Idle, Members, PassOK, Pass
  <2>2. pass' # NULL => /\ pass'.sent = NULL /\ pass'.sigs = pass.sigs
                        /\ pass'.todo = pass.todo \ Members(l)
                        /\ pass'.group \subseteq Members(l)
    BY <1>4, <2>1 DEF Scan, ScanFails, Idle, Pass
  <2>3. UNCHANGED <<subs, told, fresh, again, faults>>
    BY <1>4 DEF Scan, ScanFails, history
  <2>4. ASSUME NEW q \in Rows, Exposed(q)' PROVE Exposed(q)
    BY <2>1, <2>2, <2>3, <2>4, RowsAreNoNull DEF Exposed, Pending, OnItsWay
  <2>5. PassSane'
    BY <2>2 DEF PassSane
  <2> QED
    BY <2>3, <2>4, <2>5, NoneExposed
<1>5. ASSUME NEW r \in Rows, Serve(r) PROVE RepeatInv'
  BY <1>5, ServeRepeat
<1>6. CASE Crash
  <2>1. /\ pass # NULL /\ pass' = NULL /\ faults' = faults + 1
        /\ UNCHANGED <<subs, told, fresh, again>>
    BY <1>6 DEF Crash, history
  <2>2. ASSUME NEW q \in Rows, Exposed(q)' PROVE Exposed(q) \/ q = pass.sent
    BY <2>1, <2>2 DEF Exposed, Pending, OnItsWay
  <2> QED
    BY <2>1, <2>2, OneExposed DEF PassSane
<1>7. ASSUME NEW c \in Chats, NEW l \in Lenses, Scanwatch(c, l) \/ Unscanwatch(c, l)
      PROVE  RepeatInv'
  <2>1. UNCHANGED <<pass, told, again, faults>> /\ fresh \subseteq fresh'
    BY <1>7 DEF Scanwatch, Unscanwatch, history
  <2>2. \A r \in DOMAIN subs' : r \in fresh' \/ (r \in DOMAIN subs /\ subs'[r] = subs[r])
    BY <1>7 DEF Scanwatch, Unscanwatch, history
  <2>3. ASSUME NEW q \in Rows, Exposed(q)' PROVE Exposed(q)
    BY <2>1, <2>2, <2>3 DEF Exposed, Pending, OnItsWay
  <2> QED
    BY <2>1, <2>3, NoneExposed DEF PassSane
<1>8. ASSUME NEW l \in Lenses, Turn(l) PROVE RepeatInv'
  <2>1. UNCHANGED <<told, fresh, again, faults>>
    BY <1>8 DEF Turn
  <2>2. DOMAIN subs' = DOMAIN subs /\ \A r \in DOMAIN subs : subs'[r].sig = subs[r].sig
    BY <1>8 DEF Turn, SubsOK
  <2>3. /\ pass = NULL => pass' = NULL
        /\ pass # NULL => /\ pass' # NULL /\ pass'.sent = pass.sent /\ pass'.found = pass.found
                          /\ pass'.todo = pass.todo /\ pass'.group = pass.group
                          /\ pass'.sigs = pass.sigs
    BY <1>8, ScanDigestAssumption DEF Turn, PassOK, Pass
  <2>4. ASSUME NEW q \in Rows, Exposed(q)' PROVE Exposed(q)
    BY <2>1, <2>2, <2>3, <2>4 DEF Exposed, Pending, OnItsWay
  <2>5. PassSane'
    BY <2>1, <2>3 DEF PassSane
  <2> QED
    BY <2>1, <2>4, <2>5, NoneExposed
<1> QED
  BY <1>1, <1>2, <1>3, <1>4, <1>5, <1>6, <1>7, <1>8 DEF Next, Engine, World

---------------------------------------------------------------------------
(* The service *)

Unserved == ~serving => pass = NULL
ServiceInv == Shape /\ SigInv /\ ChargedAsSent /\ RepeatInv /\ Unserved

LEMMA InitService == ServiceInit => ServiceInv
<1> SUFFICES ASSUME ServiceInit PROVE ServiceInv
  OBVIOUS
<1>1. Shape /\ SigInv /\ ChargedAsSent
  BY ScanDigestAssumption
  DEF ServiceInit, Init, Shape, SubsOK, PassOK, SigInv, SigIsWhatWasSent, ChargedAsSent
<1>2. ExposedRows = {} /\ PassSane
  BY DEF ServiceInit, Init, ExposedRows, Exposed, Pending, PassSane
<1> QED
  BY <1>1, <1>2, FS_EmptySet DEF ServiceInit, Init, ServiceInv, RepeatInv, Covered, Unserved

LEMMA NextService == ServiceInv /\ [ServiceNext]_serviceVars => ServiceInv'
<1> SUFFICES ASSUME ServiceInv, [ServiceNext]_serviceVars PROVE ServiceInv'
  OBVIOUS
<1>1. CASE Upgrading \/ UNCHANGED serviceVars
  <2>1. UNCHANGED <<subs, pass, told, owed, faults, fresh, again>>
    BY <1>1 DEF Upgrading, serviceVars, passVars, history
  <2>2. Shape' /\ SigInv' /\ ChargedAsSent'
    BY <2>1 DEF ServiceInv, Shape, SubsOK, PassOK, SigInv, SigIsWhatWasSent, ChargedAsSent
  <2>3. RepeatInv'
    BY <2>1 DEF ServiceInv, RepeatInv, PassSane, Covered, ExposedRows, Exposed, Pending, OnItsWay
  <2>4. Unserved'
    BY <1>1, <2>1 DEF Upgrading, serviceVars, ServiceInv, Unserved
  <2> QED
    BY <2>2, <2>3, <2>4 DEF ServiceInv
<1>2. CASE HandOver
  <2>1. UNCHANGED <<pass, told, owed, faults, again>>
    BY <1>2 DEF HandOver
  <2>2. \A r \in DOMAIN subs' : subs'[r].sig = {} /\ r \in fresh'
    BY <1>2 DEF HandOver
  <2>3. SubsOK'
    BY <1>2, ScanDigestAssumption DEF HandOver, SubsOK
  <2>4. Shape' /\ SigInv' /\ ChargedAsSent'
    BY <2>1, <2>2, <2>3 DEF ServiceInv, Shape, PassOK, SigInv, SigIsWhatWasSent, ChargedAsSent
  <2>5. pass = NULL
    BY <1>2 DEF HandOver, ServiceInv, Unserved
  <2>6. ASSUME NEW q \in Rows, Exposed(q)' PROVE Exposed(q)
    BY <2>1, <2>2, <2>5, <2>6 DEF Exposed, Pending, OnItsWay
  <2> QED
    BY <1>2, <2>1, <2>4, <2>5, <2>6, NoneExposed
    DEF ServiceInv, RepeatInv, PassSane, Shape, Unserved, HandOver
<1>3. CASE Passing
  BY <1>3, ShapeNext, SigNext, ChargedNext, RepeatNext DEF ServiceInv, Passing, Unserved
<1> QED
  BY <1>1, <1>2, <1>3 DEF ServiceNext

(* However commands, refusals, lost sends and bars of the clock fall       *)
(* between the steps of a pass, a chat is sent what it was sent last only  *)
(* as often as the engine died or a send seemed to fail                    *)
(* (process_scan_digests, mark_scan_watch_fired).                          *)
THEOREM RepeatsCostFaults == ServiceSpec => []NoRepeat
<1>1. ServiceInv => NoRepeat
  BY FS_CardinalityType DEF ServiceInv, RepeatInv, Covered, NoRepeat, Shape
<1> QED
  BY InitService, NextService, <1>1, PTL DEF ServiceSpec

(* Barring faults, the signature a subscription is compared with is the    *)
(* empty one or what its chat was sent last, whatever was refused, edited  *)
(* or upgraded in between: no change is withheld as known                  *)
(* (alert_engine.process_scan_digests, db.mark_scan_watch_fired).          *)
THEOREM SignaturesAreSent == ServiceSpec => []SigIsWhatWasSent
<1>1. ServiceInv => SigIsWhatWasSent
  BY DEF ServiceInv, SigInv, SigIsWhatWasSent
<1> QED
  BY InitService, NextService, <1>1, PTL DEF ServiceSpec

(* Every call of a digest that arrived is charged, and no other: what is   *)
(* owed beyond the digest on its way are at most the calls of one digest   *)
(* for each fault (record_call_delivered in process_scan_digests).         *)
THEOREM DigestsAreCharged == ServiceSpec => []ChargedAsSent
<1>1. ServiceInv => ChargedAsSent
  BY DEF ServiceInv
<1> QED
  BY InitService, NextService, <1>1, PTL DEF ServiceSpec

---------------------------------------------------------------------------
(* The table: what the starts of any number of processes make of it *)

Migrating(p) == at[p] \in {"count", "copy"}
Scripted(p)  == at[p] \in {"shape", "count", "copy", "sig", "up"}

Places == {"down", "script", "shape", "count", "copy", "sig", "up"}

(* The statements behind a process are in effect. *)
Progress(p) ==
  /\ at[p] = "script" => \A n \in 1..3 : n < step[p] => Upgrade!Statements[n] \in schema
  /\ Scripted(p) => schema = Upgrade!Upgraded

Base ==
  /\ schema \subseteq Upgrade!Upgraded
  /\ rows \subseteq Chats \X (Ranks \cup {Oi})
  /\ at \in [Processes -> Places]
  /\ step \in [Processes -> 1..3]
  /\ met \in BOOLEAN
  /\ "scan_watches" \notin schema => rows = {}
  /\ \A p \in Processes : Progress(p)

(* A row of the old table has the old rank.                                *)
OldRowsAreOi == "rank_by" \notin columns => \A r \in rows : r[2] = Oi

(* A start that found the old table works on the old table, and is alone.  *)
OneMigrates ==
  /\ \A p \in Processes : Migrating(p) => "rank_by" \notin columns
  /\ \A p, q \in Processes : Migrating(p) /\ Migrating(q) => p = q

(* The columns that a process has brought about are there.                 *)
ColumnsAreThere ==
  /\ columns \subseteq {"rank_by", "last_sent_sig"}
  /\ \A p \in Processes :
       /\ at[p] = "sig" => "rank_by" \in columns
       /\ at[p] = "up" => columns = {"rank_by", "last_sent_sig"}

Kept == rows = wanted /\ OldRowsAreOi /\ OneMigrates /\ ColumnsAreThere

TableInv == Base /\ (~met => Kept)

---------------------------------------------------------------------------

LEMMA ThreeStatements ==
  /\ Len(Upgrade!Statements) = 3
  /\ Upgrade!Upgraded = {"scan_watches", "free_tier_ladder", "plan_picker"}
  /\ Upgrade!Statements[1] = "scan_watches"
  /\ Upgrade!Statements[2] = "free_tier_ladder"
  /\ Upgrade!Statements[3] = "plan_picker"
<1>1. Len(Upgrade!Statements) = 3
  BY DEF Upgrade!Statements
<1>2. DOMAIN Upgrade!Statements = {1, 2, 3}
  BY DEF Upgrade!Statements
<1>3. /\ Upgrade!Statements[1] = "scan_watches"
      /\ Upgrade!Statements[2] = "free_tier_ladder"
      /\ Upgrade!Statements[3] = "plan_picker"
  BY DEF Upgrade!Statements
<1>4. Upgrade!Upgraded = {Upgrade!Statements[1], Upgrade!Statements[2], Upgrade!Statements[3]}
  BY <1>2 DEF Upgrade!Upgraded
<1> QED
  BY <1>1, <1>3, <1>4

(* Statements that are in effect are lost by no step. *)
LEMMA SchemaGrows == Upgrade!UpgradeNext => schema \subseteq schema'
BY DEF Upgrade!UpgradeNext, Upgrade!Opens, Upgrade!Start, Upgrade!Execute,
       Upgrade!LookAtShape, Upgrade!Count, Upgrade!Recreate, Upgrade!AddSignature, Upgrade!Stop, Upgrade!Subscribe, Upgrade!Unsubscribe, Upgrade!database

(* Two processes that both found the old table have met for good. *)
LEMMA MetForGood == Base /\ Upgrade!UpgradeNext => (~met' => ~met)
BY DEF Upgrade!UpgradeNext, Upgrade!Opens, Upgrade!Start, Upgrade!Execute,
       Upgrade!LookAtShape, Upgrade!Count, Upgrade!Recreate, Upgrade!AddSignature, Upgrade!Stop, Upgrade!Subscribe, Upgrade!Unsubscribe, Base

(* All that a move of p changes of a place is that of p. *)
LEMMA OnlyMoves ==
  ASSUME NEW p \in Processes, NEW place \in Places, Base, Upgrade!To(p, place)
  PROVE  /\ at' \in [Processes -> Places]
         /\ at'[p] = place
         /\ \A q \in Processes \ {p} : at'[q] = at[q]
BY DEF Base, Upgrade!To

---------------------------------------------------------------------------
(* The beginning *)

LEMMA TableInit == Upgrade!UpgradeInit => TableInv
<1> SUFFICES ASSUME Upgrade!UpgradeInit PROVE TableInv
  OBVIOUS
<1>1. schema \subseteq Upgrade!Upgraded
  BY ThreeStatements DEF Upgrade!UpgradeInit, Upgrade!Upgraded, Upgrade!Statements
<1>2. rows \subseteq Chats \X (Ranks \cup {Oi})
  BY DEF Upgrade!UpgradeInit
<1>3. columns \subseteq {"rank_by", "last_sent_sig"}
  BY DEF Upgrade!UpgradeInit
<1>4. OldRowsAreOi
  BY DEF Upgrade!UpgradeInit, OldRowsAreOi
<1>5. /\ at = [p \in Processes |-> "down"] /\ step = [p \in Processes |-> 1]
      /\ met = FALSE /\ rows = wanted /\ ("scan_watches" \notin schema => rows = {})
  BY DEF Upgrade!UpgradeInit
<1>6. Base
  <2>1. \A p \in Processes : at[p] = "down"
    BY <1>5
  <2>2. \A p \in Processes : Progress(p)
    BY <2>1 DEF Progress, Scripted
  <2>3. at \in [Processes -> Places] /\ step \in [Processes -> 1..3]
    BY <1>5 DEF Places
  <2> QED
    BY <1>1, <1>2, <1>5, <2>2, <2>3 DEF Base
<1>7. Kept
  BY <1>3, <1>4, <1>5 DEF Kept, OneMigrates, Migrating, ColumnsAreThere
<1> QED
  BY <1>6, <1>7 DEF TableInv

---------------------------------------------------------------------------
(* A step keeps the schema *)

(* Of a process that does not move, what was in effect still is.           *)
LEMMA ProgressStays ==
  ASSUME Base, NEW q \in Processes, at'[q] = at[q], step'[q] = step[q],
         schema \subseteq schema', schema' \subseteq Upgrade!Upgraded
  PROVE  Progress(q)'
BY DEF Base, Progress, Scripted

(* The statement that is executed. *)
LEMMA ExecuteKeepsBase ==
  ASSUME Base, NEW p \in Processes, Upgrade!Execute(p)
  PROVE  Base'
<1> DEFINE s == Upgrade!Statements[step[p]]
<1>1. step[p] \in 1..3 /\ s \in Upgrade!Upgraded
  BY ThreeStatements DEF Base
<1>2. CASE ~(Upgrade!Needs(s) \subseteq schema)
  <2>1. Upgrade!To(p, "down") /\ UNCHANGED <<schema, rows, step, met>>
    BY <1>2 DEF Upgrade!Execute
  <2>2. at' \in [Processes -> Places] /\ at'[p] = "down" /\ \A q \in Processes \ {p} : at'[q] = at[q]
    BY <2>1, OnlyMoves DEF Places
  <2>3. Progress(p)'
    BY <2>2 DEF Progress, Scripted
  <2>4. \A q \in Processes \ {p} : Progress(q)'
    BY <2>1, <2>2, ProgressStays DEF Base
  <2> QED
    BY <2>1, <2>2, <2>3, <2>4 DEF Base
<1>3. CASE Upgrade!Needs(s) \subseteq schema
  <2>1. schema' = schema \cup {s} /\ UNCHANGED <<rows, met>>
    BY <1>3 DEF Upgrade!Execute
  <2>2. CASE step[p] = 3
    <3>1. Upgrade!To(p, "shape") /\ UNCHANGED step
      BY <1>3, <2>2, ThreeStatements DEF Upgrade!Execute
    <3>2. at' \in [Processes -> Places] /\ at'[p] = "shape" /\ \A q \in Processes \ {p} : at'[q] = at[q]
      BY <3>1, OnlyMoves DEF Places
    <3>3. at[p] = "script"
      BY DEF Upgrade!Execute
    <3>4. schema' = Upgrade!Upgraded
      <4>1. \A n \in 1..3 : n < 3 => Upgrade!Statements[n] \in schema
        BY <2>2, <3>3 DEF Base, Progress
      <4>2. Upgrade!Statements[1] \in schema /\ Upgrade!Statements[2] \in schema
        BY <4>1
      <4>3. schema' = schema \cup {Upgrade!Statements[3]}
        BY <2>1, <2>2
      <4>4. schema \subseteq Upgrade!Upgraded
        BY DEF Base
      <4> QED
        BY <4>2, <4>3, <4>4, ThreeStatements
    <3>5. \A q \in Processes \ {p} : Progress(q)'
      BY <2>1, <3>1, <3>2, <3>4, ProgressStays DEF Base
    <3> QED
      BY <2>1, <3>1, <3>2, <3>4, <3>5 DEF Base, Progress
  <2>3. CASE step[p] # 3
    <3>1. step' = [step EXCEPT ![p] = step[p] + 1] /\ UNCHANGED at
      BY <1>3, <2>3, ThreeStatements DEF Upgrade!Execute
    <3>2. step' \in [Processes -> 1..3] /\ step'[p] = step[p] + 1
          /\ \A q \in Processes \ {p} : step'[q] = step[q]
      BY <1>1, <2>3, <3>1 DEF Base
    <3>3. at[p] = "script"
      BY DEF Upgrade!Execute
    <3>4. \A n \in 1..3 : n < step'[p] => Upgrade!Statements[n] \in schema'
      <4>1. \A n \in 1..3 : n < step[p] => Upgrade!Statements[n] \in schema
        BY <3>3 DEF Base, Progress
      <4> QED
        BY <1>1, <2>1, <3>2, <4>1
    <3>5. Progress(p)'
      BY <3>1, <3>3, <3>4 DEF Progress, Scripted
    <3>6. \A q \in Processes \ {p} : Progress(q)'
      BY <1>1, <2>1, <3>1, <3>2, ProgressStays DEF Base
    <3> QED
      BY <1>1, <2>1, <3>1, <3>2, <3>5, <3>6 DEF Base
  <2> QED
    BY <2>2, <2>3
<1> QED
  BY <1>2, <1>3

(* Every other step of p leaves the statements alone, and moves p to a     *)
(* place that asks for no more of them than the place it left.             *)
LEMMA MoveKeepsBase ==
  ASSUME Base, NEW p \in Processes, NEW place \in Places, Upgrade!To(p, place),
         UNCHANGED schema, met' \in BOOLEAN,
         step' \in [Processes -> 1..3], \A q \in Processes \ {p} : step'[q] = step[q],
         rows' \subseteq Chats \X (Ranks \cup {Oi}), rows = {} => rows' = {},
         \/ place = "down"
         \/ place = "script" /\ step'[p] = 1
         \/ Scripted(p) /\ place # "script"
  PROVE  Base'
<1>1. at' \in [Processes -> Places] /\ at'[p] = place /\ \A q \in Processes \ {p} : at'[q] = at[q]
  BY OnlyMoves
<1>2. Progress(p)'
  BY <1>1 DEF Base, Progress, Scripted, Places
<1>3. \A q \in Processes \ {p} : Progress(q)'
  BY <1>1, ProgressStays DEF Base
<1> QED
  BY <1>1, <1>2, <1>3 DEF Base

LEMMA BaseNext == Base /\ Upgrade!UpgradeNext => Base'
<1> SUFFICES ASSUME Base, Upgrade!UpgradeNext PROVE Base'
  OBVIOUS
<1>1. ASSUME NEW p \in Processes, Upgrade!Start(p) PROVE Base'
  BY <1>1, MoveKeepsBase DEF Upgrade!Start, Base, Places, Upgrade!database
<1>2. ASSUME NEW p \in Processes, Upgrade!Execute(p) PROVE Base'
  BY <1>2, ExecuteKeepsBase
<1>3. ASSUME NEW p \in Processes, Upgrade!LookAtShape(p) PROVE Base'
  <2>1. \E place \in {"sig", "count"} : Upgrade!To(p, place)
    BY <1>3 DEF Upgrade!LookAtShape
  <2> QED
    BY <1>3, <2>1, MoveKeepsBase DEF Upgrade!LookAtShape, Base, Places, Scripted, Upgrade!database
<1>4. ASSUME NEW p \in Processes, Upgrade!Count(p) PROVE Base'
  BY <1>4, MoveKeepsBase DEF Upgrade!Count, Base, Places, Scripted, Upgrade!database
<1>5. ASSUME NEW p \in Processes, Upgrade!Recreate(p) PROVE Base'
  <2>1. rows' \in {rows, {<<r[1], Oi>> : r \in rows}}
    BY <1>5 DEF Upgrade!Recreate
  <2>2. rows' \subseteq Chats \X (Ranks \cup {Oi}) /\ (rows = {} => rows' = {})
    BY <2>1 DEF Base
  <2>3. \E place \in {"sig", "down"} : Upgrade!To(p, place)
    BY <1>5 DEF Upgrade!Recreate
  <2>4. UNCHANGED <<schema, met, step>> /\ Scripted(p)
    BY <1>5 DEF Upgrade!Recreate, Scripted
  <2> QED
    BY <2>2, <2>3, <2>4, MoveKeepsBase DEF Base, Places
<1>6. ASSUME NEW p \in Processes, Upgrade!AddSignature(p) PROVE Base'
  BY <1>6, MoveKeepsBase DEF Upgrade!AddSignature, Base, Places, Scripted
<1>7. ASSUME NEW p \in Processes, Upgrade!Stop(p) PROVE Base'
  BY <1>7, MoveKeepsBase DEF Upgrade!Stop, Base, Places, Upgrade!database
<1>8. ASSUME NEW c \in Chats, NEW r \in Ranks, Upgrade!Subscribe(c, r) PROVE Base'
  BY <1>8 DEF Upgrade!Subscribe, Base, Progress, Scripted, Upgrade!progress
<1>9. ASSUME NEW c \in Chats, NEW r \in Ranks, Upgrade!Unsubscribe(c, r) PROVE Base'
  BY <1>9 DEF Upgrade!Unsubscribe, Base, Progress, Scripted, Upgrade!progress
<1> QED
  BY <1>1, <1>2, <1>3, <1>4, <1>5, <1>6, <1>7, <1>8, <1>9 DEF Upgrade!UpgradeNext, Upgrade!Opens
---------------------------------------------------------------------------
(* A step keeps the rows, until two processes have found the old table *)

(* A move of p that leaves the table alone, to a place whose columns are   *)
(* there and that is not a migration, or is the same one.                  *)
LEMMA MoveKeeps ==
  ASSUME Base, Kept, NEW p \in Processes, NEW place \in Places, Upgrade!To(p, place),
         UNCHANGED <<rows, wanted, columns>>,
         place \in {"count", "copy"} => Migrating(p),
         place = "sig" => "rank_by" \in columns,
         place # "up"
  PROVE  Kept'
<1>1. at'[p] = place /\ \A q \in Processes \ {p} : at'[q] = at[q]
  BY OnlyMoves
<1>2. OneMigrates'
  BY <1>1 DEF Kept, OneMigrates, Migrating
<1>3. ColumnsAreThere'
  BY <1>1 DEF Kept, ColumnsAreThere
<1> QED
  BY <1>2, <1>3 DEF Kept, OldRowsAreOi

LEMMA ExecuteKeeps ==
  ASSUME Base, Kept, NEW p \in Processes, Upgrade!Execute(p)
  PROVE  Kept'
<1> DEFINE s == Upgrade!Statements[step[p]]
<1>1. at[p] = "script" /\ UNCHANGED <<rows, wanted>>
  BY DEF Upgrade!Execute
<1>2. CASE s = "scan_watches" /\ s \notin schema
  (* Nobody is past the script, and the new table has no rows. *)
  <2>1. \A q \in Processes : ~Scripted(q)
    BY <1>2, ThreeStatements DEF Base, Progress
  <2>2. columns' = {"rank_by"}
    BY <1>2, ThreeStatements DEF Upgrade!Execute, Upgrade!Needs
  <2>3. UNCHANGED at
    BY <1>2, ThreeStatements DEF Upgrade!Execute, Upgrade!Needs, Base
  <2>4. OneMigrates' /\ ColumnsAreThere'
    BY <2>1, <2>2, <2>3 DEF OneMigrates, Migrating, ColumnsAreThere, Scripted
  <2> QED
    BY <1>1, <2>2, <2>4 DEF Kept, OldRowsAreOi
<1>3. CASE ~(s = "scan_watches" /\ s \notin schema)
  <2>1. UNCHANGED columns
    BY <1>3 DEF Upgrade!Execute
  <2>2. CASE UNCHANGED at
    BY <1>1, <2>1, <2>2 DEF Kept, OldRowsAreOi, OneMigrates, Migrating, ColumnsAreThere
  <2>3. CASE \E place \in {"shape", "down"} : Upgrade!To(p, place)
    BY <1>1, <2>1, <2>3, MoveKeeps DEF Places
  <2> QED
    BY <2>2, <2>3 DEF Upgrade!Execute
<1> QED
  BY <1>2, <1>3

(* The look at the shape: who finds the old table while nobody else works  *)
(* on it is alone.                                                         *)
LEMMA LookKeeps ==
  ASSUME Base, Kept, NEW p \in Processes, Upgrade!LookAtShape(p), ~met'
  PROVE  Kept'
<1>1. UNCHANGED <<rows, wanted, columns>>
  BY DEF Upgrade!LookAtShape, Upgrade!database
<1>2. CASE "rank_by" \in columns
  BY <1>1, <1>2, MoveKeeps DEF Upgrade!LookAtShape, Places
<1>3. CASE "rank_by" \notin columns
  <2>1. Upgrade!To(p, "count") /\ \A q \in Processes \ {p} : ~Migrating(q)
    BY <1>3 DEF Upgrade!LookAtShape, Migrating
  <2>2. at'[p] = "count" /\ \A q \in Processes \ {p} : at'[q] = at[q]
    BY <2>1, OnlyMoves DEF Places
  <2>3. OneMigrates'
    BY <1>1, <1>3, <2>1, <2>2 DEF OneMigrates, Migrating
  <2>4. ColumnsAreThere'
    BY <1>1, <2>2 DEF Kept, ColumnsAreThere
  <2> QED
    BY <1>1, <2>3, <2>4 DEF Kept, OldRowsAreOi
<1> QED
  BY <1>2, <1>3

(* The migration: the rows of the old table have the old rank already.     *)
LEMMA RecreateKeeps ==
  ASSUME Base, Kept, NEW p \in Processes, Upgrade!Recreate(p)
  PROVE  Kept'
<1>1. Migrating(p) /\ UNCHANGED wanted
  BY DEF Upgrade!Recreate, Migrating
<1>2. CASE UNCHANGED <<rows, columns>> /\ Upgrade!To(p, "down")
  BY <1>1, <1>2, MoveKeeps DEF Places
<1>3. CASE rows' = {<<r[1], Oi>> : r \in rows} /\ columns' = {"rank_by"} /\ Upgrade!To(p, "sig")
  <2>1. "rank_by" \notin columns
    BY <1>1 DEF Kept, OneMigrates
  <2>2. \A r \in rows : r = <<r[1], Oi>>
    BY <2>1 DEF Kept, OldRowsAreOi, Base
  <2>3. rows' = rows
    BY <1>3, <2>2
  <2>4. at'[p] = "sig" /\ \A q \in Processes \ {p} : at'[q] = at[q]
    BY <1>3, OnlyMoves DEF Places
  <2>5. \A q \in Processes \ {p} : ~Migrating(q) /\ at[q] # "up"
    BY <1>1, <2>1 DEF Kept, OneMigrates, ColumnsAreThere
  <2>6. OneMigrates' /\ ColumnsAreThere'
    BY <1>3, <2>4, <2>5 DEF OneMigrates, Migrating, ColumnsAreThere
  <2> QED
    BY <1>1, <1>3, <2>3, <2>6 DEF Kept, OldRowsAreOi
<1> QED
  BY <1>2, <1>3 DEF Upgrade!Recreate

LEMMA SignatureKeeps ==
  ASSUME Base, Kept, NEW p \in Processes, Upgrade!AddSignature(p)
  PROVE  Kept'
<1>1. at'[p] = "up" /\ \A q \in Processes \ {p} : at'[q] = at[q]
  BY OnlyMoves DEF Upgrade!AddSignature, Places
<1>2. "rank_by" \in columns /\ columns' = columns \cup {"last_sent_sig"} /\ UNCHANGED <<rows, wanted>>
  BY DEF Upgrade!AddSignature, Kept, ColumnsAreThere
<1>3. \A q \in Processes : ~Migrating(q)
  BY <1>2 DEF Kept, OneMigrates
<1>4. OneMigrates' /\ ColumnsAreThere'
  BY <1>1, <1>2, <1>3 DEF Kept, OneMigrates, Migrating, ColumnsAreThere
<1> QED
  BY <1>2, <1>4 DEF Kept, OldRowsAreOi

(* A command names a rank only where a process is up, which has the column. *)
LEMMA EditKeeps ==
  ASSUME Base, Kept, NEW c \in Chats, NEW r \in Ranks,
         Upgrade!Subscribe(c, r) \/ Upgrade!Unsubscribe(c, r)
  PROVE  Kept'
<1>1. UNCHANGED <<at, columns>>
  BY DEF Upgrade!Subscribe, Upgrade!Unsubscribe, Upgrade!progress
<1>2. rows' = wanted'
  BY DEF Upgrade!Subscribe, Upgrade!Unsubscribe, Kept
<1>3. r = Oi \/ "rank_by" \in columns
  BY DEF Upgrade!Subscribe, Upgrade!Unsubscribe, Upgrade!Speaks, Kept, ColumnsAreThere
<1>4. rows' \subseteq rows \cup {<<c, r>>}
  BY DEF Upgrade!Subscribe, Upgrade!Unsubscribe
<1>5. OldRowsAreOi'
  BY <1>1, <1>3, <1>4 DEF Kept, OldRowsAreOi
<1> QED
  BY <1>1, <1>2, <1>5 DEF Kept, OneMigrates, Migrating, ColumnsAreThere

LEMMA KeptNext == Base /\ Kept /\ Upgrade!UpgradeNext /\ ~met' => Kept'
<1> SUFFICES ASSUME Base, Kept, Upgrade!UpgradeNext, ~met' PROVE Kept'
  OBVIOUS
<1>1. ASSUME NEW p \in Processes, Upgrade!Start(p) \/ Upgrade!Stop(p) PROVE Kept'
  BY <1>1, MoveKeeps DEF Upgrade!Start, Upgrade!Stop, Places, Upgrade!database
<1>2. ASSUME NEW p \in Processes, Upgrade!Execute(p) PROVE Kept'
  BY <1>2, ExecuteKeeps
<1>3. ASSUME NEW p \in Processes, Upgrade!LookAtShape(p) PROVE Kept'
  BY <1>3, LookKeeps
<1>4. ASSUME NEW p \in Processes, Upgrade!Count(p) PROVE Kept'
  BY <1>4, MoveKeeps DEF Upgrade!Count, Places, Migrating, Upgrade!database
<1>5. ASSUME NEW p \in Processes, Upgrade!Recreate(p) PROVE Kept'
  BY <1>5, RecreateKeeps
<1>6. ASSUME NEW p \in Processes, Upgrade!AddSignature(p) PROVE Kept'
  BY <1>6, SignatureKeeps
<1>7. ASSUME NEW c \in Chats, NEW r \in Ranks, Upgrade!Subscribe(c, r) \/ Upgrade!Unsubscribe(c, r)
      PROVE  Kept'
  BY <1>7, EditKeeps
<1> QED
  BY <1>1, <1>2, <1>3, <1>4, <1>5, <1>6, <1>7 DEF Upgrade!UpgradeNext, Upgrade!Opens

LEMMA TableNext == TableInv /\ [Upgrade!UpgradeNext]_(Upgrade!upgradeVars) => TableInv'
<1> SUFFICES ASSUME TableInv, [Upgrade!UpgradeNext]_(Upgrade!upgradeVars) PROVE TableInv'
  OBVIOUS
<1>1. CASE Upgrade!UpgradeNext
  <2>1. Base'
    BY <1>1, BaseNext DEF TableInv
  <2>2. ~met' => Kept'
    BY <1>1, MetForGood, KeptNext DEF TableInv
  <2> QED
    BY <2>1, <2>2 DEF TableInv
<1>2. CASE UNCHANGED Upgrade!upgradeVars
  BY <1>2 DEF Upgrade!upgradeVars, Upgrade!database, Upgrade!progress, TableInv, Base, Progress, Scripted,
              Kept, OldRowsAreOi, OneMigrates, Migrating, ColumnsAreThere
<1> QED
  BY <1>1, <1>2

(* Of whatever release the database is, however many processes open it,    *)
(* and wherever each is cut off: until two of them have both found the old *)
(* table, every scan is there as it was asked for and no other, and who is *)
(* up finds all of the schema (_init_schema,                               *)
(* _migrate_scan_watches_rank_by).                                         *)
THEOREM UpgradeLosesNothing == Upgrade!UpgradeSpec => []UpgradeKeeps
<1>1. TableInv => UpgradeKeeps
  BY DEF TableInv, Base, Progress, Scripted, Kept, ColumnsAreThere, UpgradeKeeps,
         Upgrade!UpgradeKeeps
<1> QED
  BY <1>1, TableInit, TableNext, PTL DEF Upgrade!UpgradeSpec

---------------------------------------------------------------------------
(* The table in the service *)

(* The table that came out is handed over when everybody is up, and the    *)
(* passes of the service leave what opened it alone.                       *)
LEMMA HandedOver == ASSUME TableInv, HandOver PROVE TableInv'
<1>1. /\ rows' = {} /\ wanted' = {} /\ step' = [p \in Processes |-> 1]
      /\ UNCHANGED <<schema, columns, at, met>>
      /\ \A p \in Processes : at[p] = "up"
  BY DEF HandOver
<1>2. Base'
  BY <1>1 DEF TableInv, Base, Progress, Scripted, Places,
              Upgrade!Upgraded, Upgrade!Statements
<1>3. Kept => Kept'
  BY <1>1 DEF Kept, OldRowsAreOi, OneMigrates, Migrating,
              ColumnsAreThere
<1> QED
  BY <1>1, <1>2, <1>3 DEF TableInv

LEMMA TableStep == TableInv /\ [ServiceNext]_serviceVars => TableInv'
<1> SUFFICES ASSUME TableInv, [ServiceNext]_serviceVars PROVE TableInv'
  OBVIOUS
<1>1. CASE Upgrading
  BY <1>1, TableNext DEF Upgrading
<1>2. CASE HandOver
  BY <1>2, HandedOver
<1>3. CASE Passing \/ UNCHANGED serviceVars
  <2>1. UNCHANGED <<schema, columns, rows, at, step, wanted, met>>
    BY <1>3 DEF Passing, serviceVars, tableVars
  <2> QED
    BY <2>1 DEF TableInv, Base, Progress, Scripted, Kept,
                OldRowsAreOi, OneMigrates, Migrating, ColumnsAreThere
<1> QED
  BY <1>1, <1>2, <1>3 DEF ServiceNext

(* Whatever release left the database, and wherever a start is cut off:    *)
(* until two starts have both found the old table, the scans are those     *)
(* that were asked for, and who is up finds the whole schema               *)
(* (_init_schema, _migrate_scan_watches_rank_by).                          *)
THEOREM UpgradeIsSafe == ServiceSpec => []UpgradeKeeps
<1>1. ServiceInit => TableInv
  BY TableInit DEF ServiceInit
<1>2. TableInv => UpgradeKeeps
  BY DEF TableInv, Base, Progress, Scripted, Kept,
         ColumnsAreThere, UpgradeKeeps,
         Upgrade!UpgradeKeeps, Upgrade!Upgraded,
         Upgrade!Upgraded, Upgrade!Statements, Upgrade!Statements
<1> QED
  BY <1>1, <1>2, TableStep, PTL DEF ServiceSpec
=============================================================================
