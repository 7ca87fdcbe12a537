------------------------- MODULE DebitOutboxProofs -------------------------
(***************************************************************************)
(* What DebitOutbox keeps for every number of chats, keys, recorders and   *)
(* overlapping drain passes, and for every bound.                          *)
(***************************************************************************)
EXTENDS DebitOutbox, FiniteSetTheorems, SequenceTheorems, TLAPS

USE DebitOutboxAssumption

---------------------------------------------------------------------------
(* The batch a pass reads.                                                 *)

(* Of n numbers there is one with exactly m below it, for each m < n:      *)
(* counting what is below is one to one, and so onto.                      *)
LEMMA OneOfEachRank ==
  ASSUME NEW S \in SUBSET Nat, IsFiniteSet(S), NEW n \in 1..Cardinality(S)
  PROVE  \E p \in S : Cardinality({q \in S : q < p}) = n - 1
<1> DEFINE Below(p) == {q \in S : q < p}
           size     == Cardinality(S)
           rank     == [p \in S |-> Cardinality(Below(p))]
<1>1. size \in Nat
  BY FS_CardinalityType
<1>2. ASSUME NEW p \in S
      PROVE  IsFiniteSet(Below(p)) /\ Cardinality(Below(p)) \in 0..(size - 1)
  <2>1. Below(p) \in SUBSET (S \ {p})
    OBVIOUS
  <2>2. IsFiniteSet(S \ {p}) /\ Cardinality(S \ {p}) = size - 1
    BY FS_RemoveElement
  <2>3. IsFiniteSet(Below(p)) /\ Cardinality(Below(p)) <= size - 1
    BY <2>1, <2>2, FS_Subset
  <2>4. Cardinality(Below(p)) \in Nat
    BY <2>3, FS_CardinalityType
  <2>. QED BY <1>1, <2>3, <2>4
<1>3. ASSUME NEW p \in S, NEW r \in S, p < r
      PROVE  Cardinality(Below(p)) < Cardinality(Below(r))
  <2>0. p \in Nat /\ r \in Nat /\ \A q \in S : q \in Nat
    OBVIOUS
  <2>1. Below(p) \in SUBSET Below(r) /\ p \in Below(r) /\ p \notin Below(p)
    <3>1. \A q \in S : q < p => q < r
      BY <1>3, <2>0
    <3>2. ~(p < p)
      BY <2>0
    <3>. QED BY <1>3, <3>1, <3>2
  <2>2. Cardinality(Below(p)) <= Cardinality(Below(r)) /\ Below(p) # Below(r)
    BY <1>2, <2>1, FS_Subset
  <2>3. Cardinality(Below(p)) # Cardinality(Below(r))
    BY <1>2, <2>1, <2>2, FS_Subset
  <2>. QED BY <1>2, <2>2, <2>3
<1>4. rank \in Injection(S, 0..(size - 1))
  <2>1. rank \in [S -> 0..(size - 1)]
    BY <1>2
  <2>2. ASSUME NEW p \in S, NEW r \in S, rank[p] = rank[r] PROVE p = r
    <3>1. Cardinality(Below(p)) = Cardinality(Below(r))
      BY <2>2
    <3>2. Cardinality(Below(p)) \in Nat
      BY <1>1, <1>2
    <3>3. ~(p < r) /\ ~(r < p)
      BY <1>3, <3>1, <3>2
    <3>. QED BY <3>3
  <2>. QED BY <2>1, <2>2 DEF Injection, IsInjective
<1>5. IsFiniteSet(0..(size - 1)) /\ Cardinality(0..(size - 1)) = size
  <2> HIDE DEF size
  <2>1. 0 \in Int /\ size - 1 \in Int
    BY <1>1
  <2> DEFINE top == size - 1
  <2>2. /\ IsFiniteSet(0..top)
        /\ Cardinality(0..top) = IF 0 > top THEN 0 ELSE top - 0 + 1
    <3> HIDE DEF top
    <3>. QED BY <2>1, FS_Interval DEF top
  <2>. QED BY <1>1, <2>2
<1>6. rank \in Surjection(S, 0..(size - 1))
  <2> HIDE DEF rank
  <2>. QED BY <1>4, <1>5, FS_Injection
<1>7. n - 1 \in 0..(size - 1)
  BY <1>1
<1>8. PICK p \in S : rank[p] = n - 1
  BY <1>6, <1>7 DEF Surjection
<1>. QED BY <1>8

LEMMA OldestListed ==
  ASSUME NEW S \in SUBSET Nat, IsFiniteSet(S)
  PROVE  /\ Len(Oldest(S)) = Cardinality(S)
         /\ \A n \in 1..Cardinality(S) : Oldest(S)[n] \in S
         /\ \A m, n \in 1..Cardinality(S) : m # n => Oldest(S)[m] # Oldest(S)[n]
<1> DEFINE size == Cardinality(S)
           Is(p, n) == Cardinality({q \in S : q < p}) = n - 1
<1>1. size \in Nat
  BY FS_CardinalityType
<1>2. ASSUME NEW n \in 1..size
      PROVE  Oldest(S)[n] \in S /\ Is(Oldest(S)[n], n)
  <2>1. \E p \in S : Is(p, n)
    BY OneOfEachRank
  <2>2. Oldest(S)[n] = CHOOSE p \in S : Is(p, n)
    BY DEF Oldest
  <2> HIDE DEF Is
  <2>. QED BY <2>1, <2>2
<1>3. ASSUME NEW m \in 1..size, NEW n \in 1..size, m # n
      PROVE  Oldest(S)[m] # Oldest(S)[n]
  <2>1. Is(Oldest(S)[m], m) /\ Is(Oldest(S)[n], n)
    BY <1>2
  <2>2. ASSUME Oldest(S)[m] = Oldest(S)[n] PROVE FALSE
    <3>1. m - 1 = n - 1
      BY <2>1, <2>2
    <3>. QED BY <1>1, <1>3, <3>1
  <2>. QED BY <2>2
<1>4. Oldest(S) \in Seq(S) /\ DOMAIN Oldest(S) = 1..size
  <2>1. Oldest(S) = [n \in 1..size |-> Oldest(S)[n]]
    BY DEF Oldest
  <2>2. Oldest(S) \in [1..size -> S]
    BY <1>2, <2>1
  <2>. QED BY <1>1, <2>2, SeqDef
<1>5. Len(Oldest(S)) = size
  BY <1>1, <1>4, LenProperties
<1>. QED BY <1>2, <1>3, <1>5

---------------------------------------------------------------------------
(* Who holds what.                                                         *)

(* A delivery has one recorder, until it is queued or let go; it is metered *)
(* and queued by that recorder only, and queued once.                      *)
Recording ==
  /\ \A w \in Workers : rec[w] = IdleRec \/ (rec[w].at # "idle" /\ rec[w].id \in DOMAIN fired)
  /\ \A v, w \in Workers : v # w /\ rec[v].id # NULL => rec[v].id # rec[w].id
  /\ \A p \in DOMAIN outbox : outbox[p].id \in DOMAIN fired
  /\ \A p \in DOMAIN outbox, w \in Workers : outbox[p].id # rec[w].id
  /\ \A p, q \in DOMAIN outbox : p # q => outbox[p].id # outbox[q].id
  /\ free \subseteq DOMAIN fired
  /\ \A w \in Workers : rec[w].at = "meter" => rec[w].id \notin free

(* A pass holds rows of the outbox, each once and no more than a batch.    *)
Reading ==
  \A d \in Drains :
    /\ Len(pass[d].batch) <= BatchLimit
    /\ \A n \in 1..Len(pass[d].batch) : pass[d].batch[n].place \in DOMAIN outbox
    /\ \A m, n \in 1..Len(pass[d].batch) :
         m # n => pass[d].batch[m].place # pass[d].batch[n].place
    /\ pass[d].answer # NULL => pass[d].batch # <<>>

Sound == TypeOK /\ Recording /\ Reading

LEMMA OutboxType ==
  ASSUME TypeOK
  PROVE  /\ Len(outbox) \in Nat /\ DOMAIN outbox = 1..Len(outbox)
         /\ Len(fired) \in Nat /\ DOMAIN fired = 1..Len(fired)
         /\ \A p \in DOMAIN outbox : outbox[p] \in Row
         /\ \A i \in DOMAIN fired : fired[i] \in Chats /\ link[fired[i]] \in Keys \cup {NULL}
         /\ DOMAIN fired \subseteq Deliveries
<1>1. outbox \in Seq(Row) /\ fired \in Seq(Chats) /\ link \in [Chats -> Keys \cup {NULL}]
  BY DEF TypeOK
<1>2. Len(outbox) \in Nat /\ DOMAIN outbox = 1..Len(outbox)
        /\ outbox \in [1..Len(outbox) -> Row]
  BY <1>1, LenProperties
<1>3. Len(fired) \in Nat /\ DOMAIN fired = 1..Len(fired) /\ fired \in [1..Len(fired) -> Chats]
  BY <1>1, LenProperties
<1>4. DOMAIN fired \subseteq Deliveries
  BY <1>3 DEF TypeOK, Deliveries
<1>. QED BY <1>1, <1>2, <1>3, <1>4

LEMMA BatchRead ==
  ASSUME TypeOK, Recording
  PROVE  /\ Batch \in Seq(Item) /\ Len(Batch) \in Nat /\ Len(Batch) <= BatchLimit
         /\ \A n \in 1..Len(Batch) :
              /\ Batch[n].place \in Pending
              /\ Batch[n].attempts = outbox[Batch[n].place].attempts
              /\ Batch[n].key = link[fired[outbox[Batch[n].place].id]]
         /\ \A m, n \in 1..Len(Batch) : m # n => Batch[m].place # Batch[n].place
<1>1. /\ Len(outbox) \in Nat /\ DOMAIN outbox = 1..Len(outbox)
      /\ \A p \in DOMAIN outbox : outbox[p] \in Row /\ outbox[p].id \in DOMAIN fired
      /\ \A i \in DOMAIN fired : link[fired[i]] \in Keys \cup {NULL}
  BY OutboxType DEF Recording
<1>2. Pending \in SUBSET Nat /\ IsFiniteSet(Pending) /\ Pending \subseteq DOMAIN outbox
  <2>1. IsFiniteSet(1..Len(outbox)) /\ Pending \in SUBSET (1..Len(outbox))
    BY <1>1, FS_Interval DEF Pending
  <2>2. IsFiniteSet(Pending)
    BY <2>1, FS_Subset
  <2>3. 1..Len(outbox) \in SUBSET Nat
    BY <1>1
  <2>. QED BY <1>1, <2>1, <2>2, <2>3
<1> DEFINE o    == Oldest(Pending)
           size == BatchSize(Len(o))
<1>3. Cardinality(Pending) \in Nat
  BY <1>2, FS_CardinalityType
<1>4. /\ Len(o) \in Nat
      /\ \A n \in 1..Len(o) : o[n] \in Pending
      /\ \A m, n \in 1..Len(o) : m # n => o[m] # o[n]
  BY <1>2, <1>3, OldestListed
<1> HIDE DEF o
<1>5. size \in Nat /\ size <= BatchLimit /\ size <= Len(o)
  BY <1>4 DEF BatchSize
<1>6. Batch = [n \in 1..size |->
                 [place    |-> o[n],
                  attempts |-> outbox[o[n]].attempts,
                  key      |-> link[fired[outbox[o[n]].id]]]]
  BY DEF Batch, o
<1> HIDE DEF size
<1>7. ASSUME NEW n \in 1..size
      PROVE  /\ o[n] \in Pending /\ o[n] \in Nat
             /\ outbox[o[n]].attempts \in Nat
             /\ link[fired[outbox[o[n]].id]] \in Keys \cup {NULL}
  <2>0. n \in 1..Len(o)
    BY <1>4, <1>5
  <2>1. o[n] \in Pending /\ o[n] \in DOMAIN outbox
    BY <1>2, <1>4, <2>0
  <2>. QED BY <1>1, <1>2, <2>1 DEF Row
<1>8. Batch \in [1..size -> Item]
  BY <1>6, <1>7 DEF Item
<1>9. Batch \in Seq(Item) /\ DOMAIN Batch = 1..size
  BY <1>5, <1>8, SeqDef
<1>10. Len(Batch) = size
  BY <1>5, <1>9, LenProperties
<1>11. \A n \in 1..size :
         /\ Batch[n].place = o[n]
         /\ Batch[n].attempts = outbox[o[n]].attempts
         /\ Batch[n].key = link[fired[outbox[o[n]].id]]
  BY <1>6
<1>12. \A m, n \in 1..size : m # n => o[m] # o[n]
  BY <1>4, <1>5
<1>. QED BY <1>5, <1>7, <1>9, <1>10, <1>11, <1>12

---------------------------------------------------------------------------
(* What a step of a pass does to the outbox and to the pass.               *)

(* One row is changed, in its settlement and its count. *)
OneRow(p, sent, error) ==
  /\ outbox' \in Seq(Row)
  /\ Len(outbox') = Len(outbox) /\ DOMAIN outbox' = DOMAIN outbox
  /\ \A q \in DOMAIN outbox : outbox'[q].id = outbox[q].id
  /\ \A q \in DOMAIN outbox : q # p => outbox'[q] = outbox[q]
  /\ outbox'[p].sent = sent
  /\ outbox'[p].error = error

(* The pass goes on to the next row of its batch. *)
NextRow(d) ==
  /\ pass' \in [Drains -> [batch : Seq(Item), answer : Answers \cup {NULL}]]
  /\ \A e \in Drains : e # d => pass'[e] = pass[e]
  /\ pass'[d].answer = NULL
  /\ Len(pass[d].batch) \in Nat \ {0}
  /\ Len(pass'[d].batch) = Len(pass[d].batch) - 1
  /\ \A n \in 1..Len(pass'[d].batch) : pass'[d].batch[n] = pass[d].batch[n + 1]

Bookkeeping == <<service, server, record, crashes>>

Settles(d, sent, error) ==
  /\ pass[d].batch # <<>>
  /\ OneRow(Current(d).place, sent, error)
  /\ NextRow(d)
  /\ mirror' \in [Chats -> Keys \cup {NULL}]
  /\ UNCHANGED Bookkeeping
  /\ \/ sent = TRUE /\ error = NULL /\ pass[d].answer \in Landed
     \/ sent = TRUE /\ error = "REFUSED" /\ pass[d].answer = "REFUSED"
     \/ sent = TRUE /\ error \in Errors \ {"REFUSED"}
     \/ sent = outbox[Current(d).place].sent /\ error \in Errors \ {"REFUSED"}

LEMMA CurrentType ==
  ASSUME TypeOK, Reading, NEW d \in Drains, pass[d].batch # <<>>
  PROVE  /\ Len(pass[d].batch) \in Nat \ {0}
         /\ Current(d) = pass[d].batch[1] /\ Current(d) \in Item
         /\ Current(d).place \in DOMAIN outbox
<1>1. pass[d].batch \in Seq(Item)
  BY DEF TypeOK
<1>2. Len(pass[d].batch) \in Nat \ {0}
  BY <1>1, EmptySeq
<1>3. Current(d) = pass[d].batch[1]
  BY DEF Current
<1>4. pass[d].batch[1] \in Item /\ pass[d].batch[1].place \in DOMAIN outbox
  BY <1>1, <1>2, ElementOfSeq DEF Reading
<1>. QED BY <1>2, <1>3, <1>4

LEMMA GoesOn ==
  ASSUME TypeOK, Reading, NEW d \in Drains, pass[d].batch # <<>>, GoOn(d)
  PROVE  NextRow(d)
<1>1. pass \in [Drains -> [batch : Seq(Item), answer : Answers \cup {NULL}]]
  BY DEF TypeOK
<1>2. /\ pass[d].batch \in Seq(Item) /\ Len(pass[d].batch) \in Nat \ {0}
      /\ Tail(pass[d].batch) \in Seq(Item)
      /\ Len(Tail(pass[d].batch)) = Len(pass[d].batch) - 1
      /\ \A n \in 1..Len(Tail(pass[d].batch)) :
           Tail(pass[d].batch)[n] = pass[d].batch[n + 1]
  BY <1>1, CurrentType, HeadTailProperties
<1> DEFINE new == [batch |-> Tail(pass[d].batch), answer |-> NULL]
<1>3. pass' = [pass EXCEPT ![d] = new]
  BY DEF GoOn
<1>4. new \in [batch : Seq(Item), answer : Answers \cup {NULL}]
  BY <1>2
<1>5. new.batch = Tail(pass[d].batch) /\ new.answer = NULL
  OBVIOUS
<1> HIDE DEF new
<1>6. pass'[d] = new
  BY <1>1, <1>3
<1>. QED BY <1>1, <1>2, <1>3, <1>4, <1>5, <1>6 DEF NextRow

LEMMA RowRewritten ==
  ASSUME TypeOK, NEW p \in DOMAIN outbox, NEW row \in Row,
         row.id = outbox[p].id, outbox' = [outbox EXCEPT ![p] = row]
  PROVE  OneRow(p, row.sent, row.error)
<1>1. outbox \in Seq(Row) /\ p \in 1..Len(outbox)
  BY OutboxType DEF TypeOK
<1>2. /\ outbox' \in Seq(Row) /\ Len(outbox') = Len(outbox)
      /\ \A q \in 1..Len(outbox) : outbox'[q] = IF q = p THEN row ELSE outbox[q]
  BY <1>1, ExceptSeq
<1>3. DOMAIN outbox = 1..Len(outbox) /\ DOMAIN outbox' = 1..Len(outbox')
  BY <1>1, <1>2, LenProperties
<1>. QED BY <1>1, <1>2, <1>3 DEF OneRow

LEMMA StampsOneRow ==
  ASSUME TypeOK, NEW p \in DOMAIN outbox, NEW error \in Errors \cup {NULL}, Stamp(p, error)
  PROVE  OneRow(p, TRUE, error)
<1> DEFINE row == [outbox[p] EXCEPT !.sent = TRUE, !.error = error]
<1>1. outbox[p] \in Row
  BY OutboxType
<1>2. row \in Row /\ row.id = outbox[p].id /\ row.sent = TRUE /\ row.error = error
  BY <1>1 DEF Row
<1>3. outbox' = [outbox EXCEPT ![p] = row]
  BY DEF Stamp
<1> HIDE DEF row
<1>. QED BY <1>2, <1>3, RowRewritten

LEMMA BumpsOneRow ==
  ASSUME TypeOK, NEW p \in DOMAIN outbox, NEW error \in Errors, Bump(p, error)
  PROVE  OneRow(p, outbox[p].sent, error)
<1> DEFINE row == [outbox[p] EXCEPT !.attempts = @ + 1, !.error = error]
<1>1. outbox[p] \in Row /\ outbox[p].attempts + 1 \in Nat
  BY OutboxType DEF Row
<1>2. row \in Row /\ row.id = outbox[p].id /\ row.sent = outbox[p].sent /\ row.error = error
  BY <1>1 DEF Row
<1>3. outbox' = [outbox EXCEPT ![p] = row]
  BY DEF Bump
<1> HIDE DEF row
<1>. QED BY <1>2, <1>3, RowRewritten

LEMMA MirrorType ==
  ASSUME TypeOK, Recording, Reading, NEW d \in Drains, pass[d].batch # <<>>, RefreshMirror(d)
  PROVE  mirror' \in [Chats -> Keys \cup {NULL}]
<1>1. Current(d) \in Item
  BY CurrentType
<1>2. Current(d).key \in Keys \cup {NULL}
  BY <1>1 DEF Item
<1>. QED BY <1>2 DEF RefreshMirror, TypeOK

(* Every step by which a pass is done with a row settles the row, one way  *)
(* or another, or leaves it to be tried again.                             *)
LEMMA EveryRowSettles ==
  ASSUME TypeOK, Recording, Reading, NEW d \in Drains,
         \/ SkipUnlinked(d) \/ Abandon(d) \/ SettleCharged(d)
         \/ SettleRefused(d) \/ SettleInvalid(d) \/ Retry(d)
  PROVE  \E sent \in BOOLEAN, error \in Errors \cup {NULL} : Settles(d, sent, error)
<1>0. pass[d].batch # <<>>
  BY DEF Reading, Working, SkipUnlinked, Abandon, SettleCharged, SettleRefused,
         SettleInvalid, Retry, Landed, Answers
<1> DEFINE p == Current(d).place
<1>1. p \in DOMAIN outbox /\ outbox[p] \in Row
  BY <1>0, CurrentType, OutboxType
<1>2. GoOn(d) => NextRow(d)
  BY <1>0, GoesOn
<1>3. mirror \in [Chats -> Keys \cup {NULL}] /\ outbox[p].sent \in BOOLEAN
  BY <1>1 DEF TypeOK, Row
<1> HIDE DEF p
<1>4. ASSUME NEW error \in Errors \ {"REFUSED"}, Stamp(p, error), GoOn(d), mirror' = mirror,
             UNCHANGED Bookkeeping
      PROVE  Settles(d, TRUE, error)
  BY <1>0, <1>1, <1>2, <1>3, <1>4, StampsOneRow DEF Settles, p
<1>5. CASE SkipUnlinked(d)
  <2>1. "unlinked" \in Errors \ {"REFUSED"}
    BY DEF Errors
  <2>2. Settles(d, TRUE, "unlinked")
    BY <1>4, <1>5, <2>1 DEF SkipUnlinked, Bookkeeping, p
  <2>. QED BY <2>1, <2>2
<1>6. CASE Abandon(d)
  <2>1. "abandoned" \in Errors \ {"REFUSED"}
    BY DEF Errors
  <2>2. Settles(d, TRUE, "abandoned")
    BY <1>4, <1>6, <2>1 DEF Abandon, Bookkeeping, p
  <2>. QED BY <2>1, <2>2
<1>7. CASE SettleInvalid(d)
  <2>1. "key_invalid_404" \in Errors \ {"REFUSED"}
    BY DEF Errors
  <2>2. Settles(d, TRUE, "key_invalid_404")
    BY <1>4, <1>7, <2>1 DEF SettleInvalid, Bookkeeping, p
  <2>. QED BY <2>1, <2>2
<1>8. CASE SettleCharged(d)
  <2>1. OneRow(p, TRUE, NULL)
    BY <1>1, <1>8, StampsOneRow DEF SettleCharged, p
  <2>2. mirror' \in [Chats -> Keys \cup {NULL}]
    BY <1>0, <1>8, MirrorType DEF SettleCharged
  <2>3. Settles(d, TRUE, NULL)
    BY <1>0, <1>2, <1>8, <2>1, <2>2 DEF Settles, SettleCharged, Bookkeeping, p
  <2>. QED BY <2>3
<1>9. CASE SettleRefused(d)
  <2>1. "REFUSED" \in Errors
    BY DEF Errors
  <2>2. OneRow(p, TRUE, "REFUSED")
    BY <1>1, <1>9, <2>1, StampsOneRow DEF SettleRefused, p
  <2>3. mirror' \in [Chats -> Keys \cup {NULL}]
    BY <1>0, <1>9, MirrorType DEF SettleRefused
  <2>4. Settles(d, TRUE, "REFUSED")
    BY <1>0, <1>2, <1>9, <2>2, <2>3 DEF Settles, SettleRefused, Bookkeeping, p
  <2>. QED BY <2>1, <2>4
<1>10. CASE Retry(d)
  <2>1. pass[d].answer \in Errors \ {"REFUSED"}
    <3>1. pass[d].answer \in Answers \cup {NULL}
      BY DEF TypeOK
    <3>. QED BY <1>10, <3>1 DEF Retry, Answers, Errors, Landed
  <2>2. OneRow(p, outbox[p].sent, pass[d].answer)
    BY <1>1, <1>10, <2>1, BumpsOneRow DEF Retry, p
  <2>3. Settles(d, outbox[p].sent, pass[d].answer)
    BY <1>0, <1>2, <1>3, <1>10, <2>1, <2>2 DEF Settles, Retry, Bookkeeping, p
  <2>. QED BY <1>3, <2>1, <2>3
<1>. QED BY <1>5, <1>6, <1>7, <1>8, <1>9, <1>10

(* A request for delivery i, of a row read under key k, that is answered:  *)
(* either nothing changes, and a debit said to be made was made before and *)
(* one refused was not; or the debit is made.                              *)
Answered(i, k, answer) ==
  \/ /\ UNCHANGED server
     /\ answer \in Landed => <<i, 0>> \in ledger
     /\ answer = "REFUSED" => <<i, 0>> \notin ledger
  \/ /\ <<i, 0>> \notin ledger /\ answer # "REFUSED"
     /\ ledger' = ledger \cup {<<i, 0>>}
     /\ debits' = [debits EXCEPT ![i] = @ + 1]
     /\ stray' = IF link[fired[i]] = k THEN stray ELSE stray \cup {i}

Subject(d) == outbox[Current(d).place].id

Asks(d, answer) ==
  /\ pass[d].batch # <<>> /\ pass[d].answer = NULL
  /\ pass' \in [Drains -> [batch : Seq(Item), answer : Answers \cup {NULL}]]
  /\ \A e \in Drains : e # d => pass'[e] = pass[e]
  /\ pass'[d].batch = pass[d].batch /\ pass'[d].answer = answer
  /\ UNCHANGED <<service, record, outbox, mirror, crashes>>
  /\ Answered(Subject(d), Current(d).key, answer)

LEMMA EveryRequestAsks ==
  ASSUME TypeOK, NEW d \in Drains, Consume(d)
  PROVE  \E answer \in Answers : Asks(d, answer)
<1> DEFINE i == Subject(d)
           k == Current(d).key
<1>1. pass \in [Drains -> [batch : Seq(Item), answer : Answers \cup {NULL}]]
  BY DEF TypeOK
<1>2. pass[d].batch # <<>> /\ pass[d].answer = NULL
        /\ UNCHANGED <<service, record, outbox, mirror, crashes>>
  BY DEF Consume, Working
<1>3. ASSUME NEW answer, NEW attempts, Serve(i, attempts, k, answer)
      PROVE  Answered(i, k, answer) /\ Answered(i, k, "transport")
  <2> HIDE DEF i, k
  <2>. QED BY <1>3 DEF Serve, Answered, IdemKey, Landed
<1>4. UNCHANGED server => Answered(i, k, "transport")
  BY DEF Answered, Landed
<1>5. \E answer \in Answers :
        Answered(i, k, answer) /\ pass' = [pass EXCEPT ![d].answer = answer]
  <2>1. PICK answer \in Answers :
          \/ Serve(i, Current(d).attempts, k, answer)
               /\ pass' = [pass EXCEPT ![d].answer = answer]
          \/ Serve(i, Current(d).attempts, k, answer)
               /\ pass' = [pass EXCEPT ![d].answer = "transport"]
          \/ answer = "transport" /\ UNCHANGED server
               /\ pass' = [pass EXCEPT ![d].answer = answer]
    BY DEF Consume, Subject
  <2>2. "transport" \in Answers
    BY DEF Answers
  <2> HIDE DEF i, k
  <2>. QED BY <1>3, <1>4, <2>1, <2>2
<1>6. ASSUME NEW answer \in Answers, pass' = [pass EXCEPT ![d].answer = answer]
      PROVE  /\ pass' \in [Drains -> [batch : Seq(Item), answer : Answers \cup {NULL}]]
             /\ \A e \in Drains : e # d => pass'[e] = pass[e]
             /\ pass'[d].batch = pass[d].batch /\ pass'[d].answer = answer
  BY <1>1, <1>6
<1>. QED BY <1>2, <1>5, <1>6 DEF Asks

LEMMA ServerType ==
  ASSUME TypeOK, NEW i \in Deliveries, NEW k, NEW answer, Answered(i, k, answer)
  PROVE  /\ ledger' \subseteq (Deliveries \X Nat)
         /\ debits' \in [Deliveries -> Nat]
         /\ stray' \subseteq Deliveries
<1>1. ledger \subseteq (Deliveries \X Nat) /\ debits \in [Deliveries -> Nat]
        /\ stray \subseteq Deliveries
  BY DEF TypeOK
<1>2. CASE UNCHANGED server
  BY <1>1, <1>2 DEF server
<1>3. CASE /\ ledger' = ledger \cup {<<i, 0>>}
           /\ debits' = [debits EXCEPT ![i] = @ + 1]
           /\ stray' = IF link[fired[i]] = k THEN stray ELSE stray \cup {i}
  <2>1. debits[i] + 1 \in Nat
    BY <1>1
  <2>. QED BY <1>1, <1>3, <2>1
<1>. QED BY <1>2, <1>3 DEF Answered

---------------------------------------------------------------------------
(* Every step keeps the types and who holds what. *)

LEMMA SoundInit == Init => Sound
<1> SUFFICES ASSUME Init PROVE Sound
  OBVIOUS
<1>1. IdleRec \in [at : {"idle", "meter", "enqueue"}, id : Deliveries \cup {NULL}]
        /\ IdleRec.id = NULL /\ IdleRec.at = "idle"
  BY DEF IdleRec
<1>2. IdlePass \in [batch : Seq(Item), answer : Answers \cup {NULL}]
        /\ IdlePass.batch = <<>> /\ IdlePass.answer = NULL
  BY DEF IdlePass
<1>3. Len(<<>>) = 0 /\ <<>> \in Seq(Row) /\ <<>> \in Seq(Chats) /\ DOMAIN <<>> = {}
  OBVIOUS
<1>4. TypeOK
  BY <1>1, <1>2, <1>3 DEF Init, TypeOK
<1>5. Recording
  BY <1>1, <1>3 DEF Init, Recording
<1>6. Reading
  BY <1>2, <1>3 DEF Init, Reading
<1>. QED BY <1>4, <1>5, <1>6 DEF Sound

LEMMA RecordingKept ==
  ASSUME Recording, UNCHANGED record, DOMAIN outbox' = DOMAIN outbox,
         \A q \in DOMAIN outbox : outbox'[q].id = outbox[q].id
  PROVE  Recording'
<1>1. rec' = rec /\ fired' = fired /\ free' = free
  BY DEF record
<1>. QED BY <1>1 DEF Recording

LEMMA ReadingKept ==
  ASSUME Reading, pass' = pass, DOMAIN outbox \subseteq DOMAIN outbox'
  PROVE  Reading'
BY DEF Reading

(* A pass that started, asked, or went on still holds rows of the outbox. *)
LEMMA ReadingOn ==
  ASSUME TypeOK, Recording, Reading, NEW d \in Drains, DOMAIN outbox' = DOMAIN outbox,
         \A e \in Drains : e # d => pass'[e] = pass[e],
         \/ pass'[d].batch = Batch /\ pass'[d].answer = NULL
         \/ pass'[d].batch = pass[d].batch /\ pass[d].batch # <<>>
         \/ NextRow(d)
         \/ pass'[d] = IdlePass
  PROVE  Reading'
<1> DEFINE Holds(b, a) ==
      /\ Len(b) <= BatchLimit
      /\ \A n \in 1..Len(b) : b[n].place \in DOMAIN outbox
      /\ \A m, n \in 1..Len(b) : m # n => b[m].place # b[n].place
      /\ a # NULL => b # <<>>
<1>1. \A e \in Drains : Holds(pass[e].batch, pass[e].answer)
  BY DEF Reading
<1>2. Holds(pass'[d].batch, pass'[d].answer)
  <2>1. CASE pass'[d].batch = Batch /\ pass'[d].answer = NULL
    BY <2>1, BatchRead DEF Pending
  <2>2. CASE pass'[d].batch = pass[d].batch /\ pass[d].batch # <<>>
    <3>1. Holds(pass[d].batch, pass[d].answer)
      BY <1>1
    <3>. QED BY <2>2, <3>1
  <2>3. CASE NextRow(d)
    <3> DEFINE b == pass[d].batch
               c == pass'[d].batch
    <3>1. Len(b) \in Nat \ {0} /\ Len(c) = Len(b) - 1 /\ pass'[d].answer = NULL
            /\ \A n \in 1..Len(c) : c[n] = b[n + 1]
      BY <2>3 DEF NextRow
    <3>2. Holds(b, pass[d].answer)
      BY <1>1
    <3> HIDE DEF b, c
    <3>3. \A n \in 1..Len(c) : n + 1 \in 1..Len(b)
      BY <3>1
    <3>4. Len(c) <= BatchLimit
      BY <3>1, <3>2
    <3>5. \A n \in 1..Len(c) : c[n].place \in DOMAIN outbox
      BY <3>1, <3>2, <3>3
    <3>6. \A m, n \in 1..Len(c) : m # n => c[m].place # c[n].place
      <4>1. ASSUME NEW m \in 1..Len(c), NEW n \in 1..Len(c), m # n
            PROVE  c[m].place # c[n].place
        <5>1. m + 1 \in 1..Len(b) /\ n + 1 \in 1..Len(b) /\ m + 1 # n + 1
          BY <3>3, <4>1
        <5>. QED BY <3>1, <3>2, <5>1
      <4>. QED BY <4>1
    <3>. QED BY <3>1, <3>4, <3>5, <3>6 DEF c
  <2>4. CASE pass'[d] = IdlePass
    <3>1. pass'[d].batch = <<>> /\ pass'[d].answer = NULL /\ Len(<<>>) = 0
      BY <2>4 DEF IdlePass
    <3>. QED BY <3>1
  <2>. QED BY <2>1, <2>2, <2>3, <2>4
<1>3. \A e \in Drains : Holds(pass'[e].batch, pass'[e].answer)
  <2> HIDE DEF Holds
  <2>. QED BY <1>1, <1>2
<1>. QED BY <1>3 DEF Reading

RecType == [at : {"idle", "meter", "enqueue"}, id : Deliveries \cup {NULL}]

(* A recorder's step changes its own place only. *)
LEMMA RecMove ==
  ASSUME TypeOK, NEW w \in Workers, NEW new \in RecType, rec' = [rec EXCEPT ![w] = new]
  PROVE  /\ rec' \in [Workers -> RecType]
         /\ rec'[w] = new
         /\ \A v \in Workers : v # w => rec'[v] = rec[v]
<1>1. rec \in [Workers -> RecType]
  BY DEF TypeOK, RecType
<1>. QED BY <1>1

LEMMA DeliveryRecorded ==
  ASSUME Sound, NEW w \in Workers, NEW c \in Chats, Deliver(w, c)
  PROVE  LET i == Len(fired) + 1
         IN  /\ i \in Deliveries /\ i \notin DOMAIN fired
             /\ fired' \in Seq(Chats) /\ DOMAIN fired' = DOMAIN fired \cup {i}
             /\ Len(fired') <= MaxDeliveries
             /\ \A j \in DOMAIN fired : fired'[j] = fired[j]
             /\ rec' \in [Workers -> RecType]
             /\ rec'[w].at = "meter" /\ rec'[w].id = i
             /\ \A v \in Workers : v # w => rec'[v] = rec[v]
             /\ UNCHANGED <<service, server, free, outbox, pass, mirror, crashes>>
<1> DEFINE i   == Len(fired) + 1
           new == [at |-> "meter", id |-> i]
<1>1. TypeOK /\ fired \in Seq(Chats)
  BY DEF Sound, TypeOK
<1>2. i \in Deliveries /\ fired' = Append(fired, c) /\ rec' = [rec EXCEPT ![w] = new]
        /\ UNCHANGED <<service, server, free, outbox, pass, mirror, crashes>>
  BY DEF Deliver, RecordAlertFired
<1>3. Len(fired) \in Nat /\ DOMAIN fired = 1..Len(fired)
  BY <1>1, OutboxType
<1>4. fired' \in Seq(Chats) /\ Len(fired') = i
        /\ \A j \in 1..Len(fired) : fired'[j] = fired[j]
  BY <1>1, <1>2, <1>3, AppendProperties
<1>5. DOMAIN fired' = 1..i
  BY <1>4, LenProperties
<1>6. i \notin DOMAIN fired /\ 1..i = (1..Len(fired)) \cup {i}
  BY <1>3
<1>7. i <= MaxDeliveries
  BY <1>2 DEF Deliveries
<1>8. new \in RecType /\ new.at = "meter" /\ new.id = i
  BY <1>2 DEF RecType
<1> HIDE DEF new
<1>9. /\ rec' \in [Workers -> RecType] /\ rec'[w] = new
      /\ \A v \in Workers : v # w => rec'[v] = rec[v]
  BY <1>1, <1>2, <1>8, RecMove
<1>. QED BY <1>2, <1>3, <1>4, <1>5, <1>6, <1>7, <1>8, <1>9

LEMMA DeliverSound ==
  ASSUME Sound, NEW w \in Workers, NEW c \in Chats, Deliver(w, c)
  PROVE  Sound'
<1> DEFINE i == Len(fired) + 1
<1>0. TypeOK /\ Recording /\ Reading
  BY DEF Sound
<1>1. /\ i \in Deliveries /\ i \notin DOMAIN fired
      /\ fired' \in Seq(Chats) /\ DOMAIN fired' = DOMAIN fired \cup {i}
      /\ Len(fired') <= MaxDeliveries
      /\ rec' \in [Workers -> RecType]
      /\ rec'[w].at = "meter" /\ rec'[w].id = i
      /\ \A v \in Workers : v # w => rec'[v] = rec[v]
      /\ UNCHANGED <<service, server, free, outbox, pass, mirror, crashes>>
  BY DeliveryRecorded
<1> HIDE DEF i
<1>2. TypeOK'
  BY <1>0, <1>1 DEF TypeOK, RecType, service, server
<1>3. \A v \in Workers : rec[v].id # i
  <2>1. i # NULL
    BY <1>1 DEF Deliveries
  <2>2. IdleRec.id = NULL
    BY DEF IdleRec
  <2>. QED BY <1>0, <1>1, <2>1, <2>2 DEF Recording
<1>4. Recording'
  <2>1. \A v \in Workers : rec'[v] = IdleRec \/ (rec'[v].at # "idle" /\ rec'[v].id \in DOMAIN fired')
    BY <1>0, <1>1 DEF Recording
  <2>2. \A u, v \in Workers : u # v /\ rec'[u].id # NULL => rec'[u].id # rec'[v].id
    BY <1>0, <1>1, <1>3 DEF Recording
  <2>3. \A p \in DOMAIN outbox, v \in Workers : outbox[p].id # rec'[v].id
    BY <1>0, <1>1 DEF Recording
  <2>4. free \subseteq DOMAIN fired' /\ i \notin free
    BY <1>0, <1>1 DEF Recording
  <2>5. \A v \in Workers : rec'[v].at = "meter" => rec'[v].id \notin free
    BY <1>0, <1>1, <2>4 DEF Recording
  <2>6. outbox' = outbox /\ free' = free
    BY <1>1
  <2>. QED BY <1>0, <1>1, <2>1, <2>2, <2>3, <2>4, <2>5, <2>6 DEF Recording
<1>5. Reading'
  BY <1>0, <1>1, ReadingKept
<1>. QED BY <1>2, <1>4, <1>5 DEF Sound

(* A recorder at work has a delivery of its own. *)
LEMMA AtWork ==
  ASSUME Sound, NEW w \in Workers, rec[w].at # "idle"
  PROVE  /\ rec[w].id \in DOMAIN fired /\ rec[w].id \in Deliveries /\ rec[w].id # NULL
         /\ \A p \in DOMAIN outbox : outbox[p].id # rec[w].id
         /\ \A v \in Workers : v # w => rec[v].id # rec[w].id
<1>1. rec[w] # IdleRec
  BY DEF IdleRec
<1>2. rec[w].id \in DOMAIN fired /\ rec[w].id \in Deliveries
  BY <1>1, OutboxType DEF Sound, Recording
<1>3. rec[w].id # NULL
  BY <1>2 DEF Deliveries
<1>. QED BY <1>2, <1>3 DEF Sound, Recording

LEMMA Metered ==
  ASSUME Sound, NEW w \in Workers, Meter(w)
  PROVE  /\ rec[w].at = "meter"
         /\ rec' \in [Workers -> RecType]
         /\ rec'[w].at = "enqueue" /\ rec'[w].id = rec[w].id
         /\ \A v \in Workers : v # w => rec'[v] = rec[v]
         /\ free' = IF link[fired[rec[w].id]] = NULL THEN free \cup {rec[w].id} ELSE free
         /\ UNCHANGED <<service, server, fired, outbox, pass, mirror, crashes>>
<1> DEFINE new == [rec[w] EXCEPT !.at = "enqueue"]
<1>1. TypeOK /\ rec[w] \in RecType
  BY DEF Sound, TypeOK, RecType
<1>2. new \in RecType /\ new.at = "enqueue" /\ new.id = rec[w].id
  BY <1>1 DEF RecType
<1>3. rec' = [rec EXCEPT ![w] = new]
  BY DEF Meter
<1> HIDE DEF new
<1>. QED BY <1>1, <1>2, <1>3, RecMove DEF Meter

LEMMA MeterSound ==
  ASSUME Sound, NEW w \in Workers, Meter(w)
  PROVE  Sound'
<1> DEFINE i == rec[w].id
<1>0. TypeOK /\ Recording /\ Reading
  BY DEF Sound
<1>1. /\ rec[w].at = "meter"
      /\ rec' \in [Workers -> RecType]
      /\ rec'[w].at = "enqueue" /\ rec'[w].id = i
      /\ \A v \in Workers : v # w => rec'[v] = rec[v]
      /\ free' \in {free, free \cup {i}}
      /\ UNCHANGED <<service, server, fired, outbox, pass, mirror, crashes>>
  BY Metered
<1>2. /\ i \in DOMAIN fired /\ i \in Deliveries /\ i # NULL
      /\ \A v \in Workers : v # w => rec[v].id # i
  BY <1>1, AtWork
<1> HIDE DEF i
<1>3. TypeOK'
  BY <1>0, <1>1, <1>2 DEF TypeOK, RecType, service, server
<1>4. Recording'
  <2>1. \A v \in Workers : rec'[v].id = rec[v].id
    BY <1>1 DEF i
  <2>2. \A v \in Workers : rec'[v] = IdleRec \/ (rec'[v].at # "idle" /\ rec'[v].id \in DOMAIN fired)
    BY <1>0, <1>1, <1>2 DEF Recording
  <2>3. free' \subseteq DOMAIN fired
    BY <1>0, <1>1, <1>2 DEF Recording
  <2>4. \A v \in Workers : rec'[v].at = "meter" => rec'[v].id \notin free'
    BY <1>0, <1>1, <1>2 DEF Recording
  <2>5. outbox' = outbox /\ fired' = fired
    BY <1>1
  <2>. QED BY <1>0, <2>1, <2>2, <2>3, <2>4, <2>5 DEF Recording
<1>5. Reading'
  BY <1>0, <1>1, ReadingKept
<1>. QED BY <1>3, <1>4, <1>5 DEF Sound

(* A linked chat's delivery is queued, at the end and for the first time. *)
LEMMA Enqueued ==
  ASSUME Sound, NEW w \in Workers, Enqueue(w)
  PROVE  LET i == rec[w].id
             n == Len(outbox) + 1
         IN  /\ rec[w].at = "enqueue"
             /\ rec' \in [Workers -> RecType] /\ rec'[w] = IdleRec
             /\ \A v \in Workers : v # w => rec'[v] = rec[v]
             /\ \/ link[fired[i]] = NULL /\ outbox' = outbox
                \/ /\ link[fired[i]] # NULL
                   /\ outbox' \in Seq(Row) /\ n \notin DOMAIN outbox
                   /\ DOMAIN outbox' = DOMAIN outbox \cup {n}
                   /\ \A p \in DOMAIN outbox : outbox'[p] = outbox[p]
                   /\ outbox'[n].id = i /\ outbox'[n].sent = FALSE
                   /\ outbox'[n].attempts = 0 /\ outbox'[n].error = NULL
             /\ UNCHANGED <<service, server, fired, free, pass, mirror, crashes>>
<1> DEFINE i   == rec[w].id
           n   == Len(outbox) + 1
           row == [id |-> i, attempts |-> 0, sent |-> FALSE, error |-> NULL]
<1>0. TypeOK /\ outbox \in Seq(Row)
  BY DEF Sound, TypeOK
<1>1. /\ rec[w].at = "enqueue" /\ rec' = [rec EXCEPT ![w] = IdleRec]
      /\ UNCHANGED <<service, server, fired, free, pass, mirror, crashes>>
  BY DEF Enqueue
<1>2. i \in Deliveries /\ \A p \in DOMAIN outbox : outbox[p].id # i
  BY <1>1, AtWork
<1>3. IF link[fired[i]] = NULL THEN outbox' = outbox ELSE outbox' = Append(outbox, row)
  BY <1>2 DEF Enqueue, EnqueueDebit
<1>4. IdleRec \in RecType
  BY DEF IdleRec, RecType
<1>5. /\ rec' \in [Workers -> RecType] /\ rec'[w] = IdleRec
      /\ \A v \in Workers : v # w => rec'[v] = rec[v]
  BY <1>0, <1>1, <1>4, RecMove
<1>6. ASSUME outbox' = Append(outbox, row)
      PROVE  /\ outbox' \in Seq(Row) /\ n \notin DOMAIN outbox
             /\ DOMAIN outbox' = DOMAIN outbox \cup {n}
             /\ \A p \in DOMAIN outbox : outbox'[p] = outbox[p]
             /\ outbox'[n].id = i /\ outbox'[n].sent = FALSE
             /\ outbox'[n].attempts = 0 /\ outbox'[n].error = NULL
  <2>1. row \in Row
    BY <1>2 DEF Row
  <2>2. Len(outbox) \in Nat /\ DOMAIN outbox = 1..Len(outbox)
    BY <1>0, OutboxType
  <2>3. row.id = i /\ row.sent = FALSE /\ row.attempts = 0 /\ row.error = NULL
    OBVIOUS
  <2> HIDE DEF row
  <2>4. outbox' \in Seq(Row) /\ Len(outbox') = n /\ outbox'[n] = row
          /\ \A p \in 1..Len(outbox) : outbox'[p] = outbox[p]
    BY <1>0, <1>6, <2>1, <2>2, AppendProperties
  <2>5. DOMAIN outbox' = 1..n
    BY <2>4, LenProperties
  <2>6. n \notin 1..Len(outbox) /\ 1..n = (1..Len(outbox)) \cup {n}
    BY <2>2
  <2>. QED BY <2>2, <2>3, <2>4, <2>5, <2>6
<1>. QED BY <1>1, <1>3, <1>5, <1>6

LEMMA EnqueueSound ==
  ASSUME Sound, NEW w \in Workers, Enqueue(w)
  PROVE  Sound'
<1> DEFINE i == rec[w].id
           n == Len(outbox) + 1
<1>0. TypeOK /\ Recording /\ Reading
  BY DEF Sound
<1>1. /\ rec[w].at = "enqueue"
      /\ rec' \in [Workers -> RecType] /\ rec'[w] = IdleRec
      /\ \A v \in Workers : v # w => rec'[v] = rec[v]
      /\ \/ link[fired[i]] = NULL /\ outbox' = outbox
         \/ /\ link[fired[i]] # NULL
            /\ outbox' \in Seq(Row) /\ n \notin DOMAIN outbox
            /\ DOMAIN outbox' = DOMAIN outbox \cup {n}
            /\ \A p \in DOMAIN outbox : outbox'[p] = outbox[p]
            /\ outbox'[n].id = i
      /\ UNCHANGED <<service, server, fired, free, pass, mirror, crashes>>
  BY Enqueued
<1>2. /\ i \in DOMAIN fired /\ i # NULL
      /\ \A p \in DOMAIN outbox : outbox[p].id # i
      /\ \A v \in Workers : v # w => rec[v].id # i
  BY <1>1, AtWork
<1>a. IdleRec.id = NULL /\ IdleRec.at = "idle"
  BY DEF IdleRec
<1> HIDE DEF i, n
<1>3. TypeOK'
  BY <1>0, <1>1 DEF TypeOK, RecType, service, server
<1>4. \A p \in DOMAIN outbox' :
        \/ p \in DOMAIN outbox /\ outbox'[p].id = outbox[p].id
        \/ p \notin DOMAIN outbox /\ p = n /\ outbox'[p].id = i
  BY <1>1
<1>5. \A v \in Workers : \/ v = w /\ rec'[v].id = NULL /\ rec'[v] = IdleRec
                         \/ v # w /\ rec'[v] = rec[v] /\ rec[v].id # i
  BY <1>1, <1>2, <1>a
<1>6. Recording'
  <2>1. \A v \in Workers : rec'[v] = IdleRec \/ (rec'[v].at # "idle" /\ rec'[v].id \in DOMAIN fired)
    BY <1>0, <1>5 DEF Recording
  <2>2. \A u, v \in Workers : u # v /\ rec'[u].id # NULL => rec'[u].id # rec'[v].id
    BY <1>0, <1>5 DEF Recording
  <2>3. \A p \in DOMAIN outbox' : outbox'[p].id \in DOMAIN fired /\ outbox'[p].id # NULL
    <3>1. \A j \in DOMAIN fired : j # NULL
      BY <1>0, OutboxType
    <3>. QED BY <1>0, <1>2, <1>4, <3>1 DEF Recording
  <2>4. \A p \in DOMAIN outbox', v \in Workers : outbox'[p].id # rec'[v].id
    BY <1>0, <1>2, <1>4, <1>5, <2>3 DEF Recording
  <2>5. \A p, q \in DOMAIN outbox' : p # q => outbox'[p].id # outbox'[q].id
    BY <1>0, <1>2, <1>4 DEF Recording
  <2>6. \A v \in Workers : rec'[v].at = "meter" => rec'[v].id \notin free
    BY <1>0, <1>5, <1>a DEF Recording
  <2>7. fired' = fired /\ free' = free /\ free \subseteq DOMAIN fired
    BY <1>0, <1>1 DEF Recording
  <2>. QED BY <2>1, <2>2, <2>3, <2>4, <2>5, <2>6, <2>7 DEF Recording
<1>7. Reading'
  BY <1>0, <1>1, ReadingKept
<1>. QED BY <1>3, <1>6, <1>7 DEF Sound

LEMMA SettlesSound ==
  ASSUME Sound, NEW d \in Drains, NEW sent, NEW error, Settles(d, sent, error)
  PROVE  Sound'
<1>0. TypeOK /\ Recording /\ Reading
  BY DEF Sound
<1>1. /\ outbox' \in Seq(Row) /\ DOMAIN outbox' = DOMAIN outbox
      /\ \A q \in DOMAIN outbox : outbox'[q].id = outbox[q].id
      /\ NextRow(d) /\ mirror' \in [Chats -> Keys \cup {NULL}]
      /\ UNCHANGED <<service, server, record, crashes>>
  BY DEF Settles, OneRow, Bookkeeping
<1>2. pass' \in [Drains -> [batch : Seq(Item), answer : Answers \cup {NULL}]]
        /\ \A e \in Drains : e # d => pass'[e] = pass[e]
  BY <1>1 DEF NextRow
<1>3. TypeOK'
  BY <1>0, <1>1, <1>2 DEF TypeOK, service, server, record
<1>4. Recording'
  BY <1>0, <1>1, RecordingKept
<1>5. Reading'
  BY <1>0, <1>1, <1>2, ReadingOn
<1>. QED BY <1>3, <1>4, <1>5 DEF Sound

LEMMA SubjectType ==
  ASSUME Sound, NEW d \in Drains, pass[d].batch # <<>>
  PROVE  Current(d).place \in DOMAIN outbox /\ Subject(d) \in Deliveries
<1>1. TypeOK /\ Reading
  BY DEF Sound
<1>2. Current(d).place \in DOMAIN outbox
  BY <1>1, CurrentType
<1>3. outbox[Current(d).place] \in Row
  BY <1>1, <1>2, OutboxType
<1>. QED BY <1>2, <1>3 DEF Subject, Row

LEMMA AsksSound ==
  ASSUME Sound, NEW d \in Drains, NEW answer, Asks(d, answer)
  PROVE  Sound'
<1>0. TypeOK /\ Recording /\ Reading
  BY DEF Sound
<1>1. /\ pass[d].batch # <<>>
      /\ pass' \in [Drains -> [batch : Seq(Item), answer : Answers \cup {NULL}]]
      /\ \A e \in Drains : e # d => pass'[e] = pass[e]
      /\ pass'[d].batch = pass[d].batch
      /\ UNCHANGED <<service, record, outbox, mirror, crashes>>
      /\ Answered(Subject(d), Current(d).key, answer)
  BY DEF Asks
<1>2. /\ ledger' \subseteq (Deliveries \X Nat)
      /\ debits' \in [Deliveries -> Nat]
      /\ stray' \subseteq Deliveries
  BY <1>0, <1>1, SubjectType, ServerType
<1>3. TypeOK'
  BY <1>0, <1>1, <1>2 DEF TypeOK, service, record
<1>4. Recording'
  BY <1>0, <1>1, RecordingKept
<1>5. Reading'
  BY <1>0, <1>1, ReadingOn
<1>. QED BY <1>3, <1>4, <1>5 DEF Sound

LEMMA Started ==
  ASSUME TypeOK, Recording, NEW d \in Drains, StartPass(d)
  PROVE  /\ pass[d] = IdlePass
         /\ pass' \in [Drains -> [batch : Seq(Item), answer : Answers \cup {NULL}]]
         /\ \A e \in Drains : e # d => pass'[e] = pass[e]
         /\ pass'[d].batch = Batch /\ pass'[d].answer = NULL
         /\ UNCHANGED <<service, server, record, outbox, mirror, crashes>>
<1>1. pass \in [Drains -> [batch : Seq(Item), answer : Answers \cup {NULL}]]
  BY DEF TypeOK
<1>2. Batch \in Seq(Item)
  BY BatchRead
<1>3. pass[d] = IdlePass /\ pass' = [pass EXCEPT ![d].batch = Batch]
        /\ UNCHANGED <<service, server, record, outbox, mirror, crashes>>
  BY DEF StartPass
<1>4. pass[d].answer = NULL
  BY <1>3 DEF IdlePass
<1>. QED BY <1>1, <1>2, <1>3, <1>4

LEMMA StartSound ==
  ASSUME Sound, NEW d \in Drains, StartPass(d)
  PROVE  Sound'
<1>0. TypeOK /\ Recording /\ Reading
  BY DEF Sound
<1>1. /\ pass' \in [Drains -> [batch : Seq(Item), answer : Answers \cup {NULL}]]
      /\ \A e \in Drains : e # d => pass'[e] = pass[e]
      /\ pass'[d].batch = Batch /\ pass'[d].answer = NULL
      /\ UNCHANGED <<service, server, record, outbox, mirror, crashes>>
  BY <1>0, Started
<1>2. TypeOK'
  BY <1>0, <1>1 DEF TypeOK, service, server, record
<1>3. Recording'
  BY <1>0, <1>1, RecordingKept
<1>4. Reading'
  BY <1>0, <1>1, ReadingOn
<1>. QED BY <1>2, <1>3, <1>4 DEF Sound

(* A link changes or a subscription ends: nothing of the bot's moves. *)
LEMMA WorldSound ==
  ASSUME Sound,
         \/ \E c \in Chats, k \in Keys : Link(c, k)
         \/ \E c \in Chats : Unlink(c)
         \/ \E k \in Keys : Revoke(k)
  PROVE  /\ Sound'
         /\ UNCHANGED <<server, record, outbox, pass, mirror, crashes>>
<1>0. TypeOK /\ Recording /\ Reading
  BY DEF Sound
<1>1. UNCHANGED <<server, record, outbox, pass, mirror, crashes>>
  BY DEF Link, Unlink, Revoke
<1>2. link' \in [Chats -> Keys \cup {NULL}] /\ valid' \subseteq Keys /\ links' \in 0..MaxLinks
  <2>1. link \in [Chats -> Keys \cup {NULL}] /\ valid \subseteq Keys /\ links \in 0..MaxLinks
    BY <1>0 DEF TypeOK
  <2>2. links < MaxLinks => links + 1 \in 0..MaxLinks
    BY <2>1
  <2>3. ASSUME NEW c \in Chats, NEW k \in Keys, Link(c, k)
        PROVE  link' \in [Chats -> Keys \cup {NULL}] /\ valid' \subseteq Keys
                 /\ links' \in 0..MaxLinks
    BY <2>1, <2>2, <2>3 DEF Link
  <2>4. ASSUME NEW c \in Chats, Unlink(c)
        PROVE  link' \in [Chats -> Keys \cup {NULL}] /\ valid' \subseteq Keys
                 /\ links' \in 0..MaxLinks
    BY <2>1, <2>2, <2>4 DEF Unlink
  <2>5. ASSUME NEW k \in Keys, Revoke(k)
        PROVE  link' \in [Chats -> Keys \cup {NULL}] /\ valid' \subseteq Keys
                 /\ links' \in 0..MaxLinks
    BY <2>1, <2>5 DEF Revoke
  <2>. QED BY <2>3, <2>4, <2>5
<1>3. TypeOK'
  BY <1>0, <1>1, <1>2 DEF TypeOK, server, record
<1>4. Recording' /\ Reading'
  BY <1>0, <1>1, RecordingKept, ReadingKept
<1>. QED BY <1>1, <1>3, <1>4 DEF Sound

(* A process dies: a recorder lets go of its delivery, or a pass of its    *)
(* batch.                                                                  *)
LEMMA Died ==
  ASSUME Sound, Crash
  PROVE  /\ crashes' = crashes + 1 /\ crashes' \in 0..MaxCrashes
         /\ UNCHANGED <<service, server, fired, free, outbox, mirror>>
         /\ \/ \E w \in Workers :
                 /\ rec[w] # IdleRec /\ pass' = pass
                 /\ rec' \in [Workers -> RecType] /\ rec'[w] = IdleRec
                 /\ \A v \in Workers : v # w => rec'[v] = rec[v]
            \/ \E d \in Drains :
                 /\ rec' = rec
                 /\ pass' \in [Drains -> [batch : Seq(Item), answer : Answers \cup {NULL}]]
                 /\ pass'[d] = IdlePass
                 /\ \A e \in Drains : e # d => pass'[e] = pass[e]
<1>0. /\ TypeOK /\ crashes \in 0..MaxCrashes
      /\ pass \in [Drains -> [batch : Seq(Item), answer : Answers \cup {NULL}]]
  BY DEF Sound, TypeOK
<1>1. crashes' = crashes + 1 /\ crashes' \in 0..MaxCrashes
        /\ UNCHANGED <<service, server, fired, free, outbox, mirror>>
  BY <1>0 DEF Crash
<1>2. IdleRec \in RecType /\ IdlePass \in [batch : Seq(Item), answer : Answers \cup {NULL}]
  BY DEF IdleRec, RecType, IdlePass
<1>3. ASSUME NEW w \in Workers, rec' = [rec EXCEPT ![w] = IdleRec]
      PROVE  /\ rec' \in [Workers -> RecType] /\ rec'[w] = IdleRec
             /\ \A v \in Workers : v # w => rec'[v] = rec[v]
  BY <1>0, <1>2, <1>3, RecMove
<1>4. ASSUME NEW d \in Drains, pass' = [pass EXCEPT ![d] = IdlePass]
      PROVE  /\ pass' \in [Drains -> [batch : Seq(Item), answer : Answers \cup {NULL}]]
             /\ pass'[d] = IdlePass
             /\ \A e \in Drains : e # d => pass'[e] = pass[e]
  BY <1>0, <1>2, <1>4
<1>5. \/ \E w \in Workers : rec[w] # IdleRec /\ rec' = [rec EXCEPT ![w] = IdleRec] /\ pass' = pass
      \/ \E d \in Drains : pass' = [pass EXCEPT ![d] = IdlePass] /\ rec' = rec
  BY DEF Crash
<1>. QED BY <1>1, <1>3, <1>4, <1>5

LEMMA CrashSound ==
  ASSUME Sound, Crash
  PROVE  Sound'
<1>0. TypeOK /\ Recording /\ Reading
  BY DEF Sound
<1>1. crashes' \in 0..MaxCrashes /\ UNCHANGED <<service, server, fired, free, outbox, mirror>>
  BY Died
<1>2. CASE \E w \in Workers :
             /\ pass' = pass
             /\ rec' \in [Workers -> RecType] /\ rec'[w] = IdleRec
             /\ \A v \in Workers : v # w => rec'[v] = rec[v]
  <2>1. PICK w \in Workers :
             /\ pass' = pass
             /\ rec' \in [Workers -> RecType] /\ rec'[w] = IdleRec
             /\ \A v \in Workers : v # w => rec'[v] = rec[v]
    BY <1>2
  <2>2. TypeOK'
    BY <1>0, <1>1, <2>1 DEF TypeOK, RecType, service, server
  <2>3. IdleRec.id = NULL /\ IdleRec.at = "idle"
    BY DEF IdleRec
  <2>4. \A v \in Workers : rec'[v] = IdleRec \/ rec'[v] = rec[v]
    BY <2>1
  <2>5. Recording'
    <3>0. fired' = fired /\ free' = free /\ outbox' = outbox
      BY <1>1
    <3>1. \A v \in Workers : rec'[v] = IdleRec \/ (rec'[v].at # "idle" /\ rec'[v].id \in DOMAIN fired)
      BY <1>0, <2>4 DEF Recording
    <3>2. \A u, v \in Workers : u # v /\ rec'[u].id # NULL => rec'[u].id # rec'[v].id
      BY <1>0, <2>3, <2>4 DEF Recording
    <3>3. \A p \in DOMAIN outbox, v \in Workers : outbox[p].id # rec'[v].id
      <4>1. \A p \in DOMAIN outbox : outbox[p].id # NULL
        BY <1>0, OutboxType DEF Recording
      <4>. QED BY <1>0, <2>3, <2>4, <4>1 DEF Recording
    <3>4. \A v \in Workers : rec'[v].at = "meter" => rec'[v].id \notin free
      BY <1>0, <2>3, <2>4 DEF Recording
    <3>. QED BY <1>0, <3>0, <3>1, <3>2, <3>3, <3>4 DEF Recording
  <2>6. Reading'
    BY <1>0, <1>1, <2>1, ReadingKept
  <2>. QED BY <2>2, <2>5, <2>6 DEF Sound
<1>3. CASE \E d \in Drains :
             /\ rec' = rec
             /\ pass' \in [Drains -> [batch : Seq(Item), answer : Answers \cup {NULL}]]
             /\ pass'[d] = IdlePass
             /\ \A e \in Drains : e # d => pass'[e] = pass[e]
  <2>1. PICK d \in Drains :
             /\ rec' = rec
             /\ pass' \in [Drains -> [batch : Seq(Item), answer : Answers \cup {NULL}]]
             /\ pass'[d] = IdlePass
             /\ \A e \in Drains : e # d => pass'[e] = pass[e]
    BY <1>3
  <2>2. TypeOK'
    BY <1>0, <1>1, <2>1 DEF TypeOK, service, server
  <2>3. Recording'
    BY <1>0, <1>1, <2>1, RecordingKept DEF record
  <2>4. Reading'
    BY <1>0, <1>1, <2>1, ReadingOn
  <2>. QED BY <2>2, <2>3, <2>4 DEF Sound
<1>. QED BY <1>2, <1>3, Died

(* The steps there are, each as the lemmas above describe it. *)
LEMMA StepIsOneOf ==
  ASSUME Sound, [Next]_vars
  PROVE  \/ \E w \in Workers, c \in Chats : Deliver(w, c)
         \/ \E w \in Workers : Meter(w)
         \/ \E w \in Workers : Enqueue(w)
         \/ \E d \in Drains : StartPass(d)
         \/ \E d \in Drains, answer \in Answers : Asks(d, answer)
         \/ \E d \in Drains, sent \in BOOLEAN, error \in Errors \cup {NULL} :
              Settles(d, sent, error)
         \/ \E c \in Chats, k \in Keys : Link(c, k)
         \/ \E c \in Chats : Unlink(c)
         \/ \E k \in Keys : Revoke(k)
         \/ Crash
         \/ UNCHANGED vars
<1>1. TypeOK /\ Recording /\ Reading
  BY DEF Sound
<1>2. ASSUME NEW d \in Drains, DrainStep(d)
      PROVE  \/ StartPass(d)
             \/ \E answer \in Answers : Asks(d, answer)
             \/ \E sent \in BOOLEAN, error \in Errors \cup {NULL} : Settles(d, sent, error)
  BY <1>1, <1>2, EveryRequestAsks, EveryRowSettles DEF DrainStep
<1>. QED BY <1>2 DEF Next, Recorder

LEMMA SoundNext == Sound /\ [Next]_vars => Sound'
<1> SUFFICES ASSUME Sound, [Next]_vars PROVE Sound'
  OBVIOUS
<1>1. CASE UNCHANGED vars
  <2>1. TypeOK /\ Recording /\ Reading
    BY DEF Sound
  <2>2. UNCHANGED <<service, server, record, outbox, pass, mirror, crashes>>
    BY <1>1 DEF vars
  <2>3. TypeOK'
    BY <2>1, <2>2 DEF TypeOK, service, server, record
  <2>. QED BY <2>1, <2>2, <2>3, RecordingKept, ReadingKept DEF Sound
<1>. QED
  BY <1>1, StepIsOneOf, DeliverSound, MeterSound, EnqueueSound, StartSound, AsksSound,
     SettlesSound, WorldSound, CrashSound

LEMMA SpecSound == Spec => []Sound
BY SoundInit, SoundNext, PTL DEF Spec

(* Every variable of the outbox keeps its type, however its recorders and  *)
(* passes interleave (record_call_delivered, drain_entitlement_debits).    *)
THEOREM TypeCorrect == Spec => []TypeOK
BY SpecSound, PTL DEF Sound

---------------------------------------------------------------------------
(* What was charged, and what is said of it.                               *)

(* A charge leaves its idempotency key in signal-MCP's ledger.  The key    *)
(* names the delivery alone, so what was charged is not charged again, and *)
(* a debit is known to have landed by its key.                             *)
LedgerInv ==
  /\ debits \in [Deliveries -> {0, 1}]
  /\ \A i \in Deliveries : debits[i] = 1 <=> <<i, 0>> \in ledger
  /\ \A d \in Drains : pass[d].answer \in Landed => <<Subject(d), 0>> \in ledger
  /\ \A p \in DOMAIN outbox :
       outbox[p].sent /\ outbox[p].error = NULL => <<outbox[p].id, 0>> \in ledger

LEMMA LedgerInit == Init => LedgerInv
<1> SUFFICES ASSUME Init PROVE LedgerInv
  OBVIOUS
<1>1. \A d \in Drains : pass[d].answer \notin Landed
  BY DEF Init, IdlePass, Landed, Answers
<1>2. DOMAIN outbox = {}
  BY DEF Init
<1>. QED BY <1>1, <1>2 DEF Init, LedgerInv

(* The row a pass is at stays the one it is at. *)
LEMMA SubjectKept ==
  ASSUME Sound, NEW d \in Drains, pass[d].batch # <<>>, pass'[d].batch = pass[d].batch,
         \A q \in DOMAIN outbox : outbox'[q].id = outbox[q].id
  PROVE  Subject(d)' = Subject(d) /\ Current(d)' = Current(d)
<1>1. Current(d)' = Current(d)
  BY DEF Current
<1>2. Current(d).place \in DOMAIN outbox
  BY SubjectType
<1>. QED BY <1>1, <1>2 DEF Subject

(* Steps that charge nothing, take no answer and settle no row.            *)
LEMMA LedgerQuiet ==
  ASSUME Sound, LedgerInv, UNCHANGED server,
         \A d \in Drains : \/ pass'[d] = pass[d]
                           \/ pass'[d].answer = NULL,
         \A q \in DOMAIN outbox : outbox'[q] = outbox[q],
         \A q \in DOMAIN outbox' \ DOMAIN outbox : outbox'[q].sent = FALSE
  PROVE  LedgerInv'
<1>1. ledger' = ledger /\ debits' = debits
  BY DEF server
<1>2. ASSUME NEW d \in Drains, pass'[d].answer \in Landed
      PROVE  <<Subject(d)', 0>> \in ledger
  <2>1. pass'[d] = pass[d]
    BY <1>2 DEF Landed, Answers
  <2>2. pass[d].answer \in Landed /\ pass[d].answer # NULL
    BY <1>2, <2>1 DEF Landed, Answers
  <2>3. pass[d].batch # <<>>
    BY <2>2 DEF Sound, Reading
  <2>. QED BY <2>1, <2>2, <2>3, SubjectKept DEF LedgerInv
<1>3. ASSUME NEW q \in DOMAIN outbox', outbox'[q].sent, outbox'[q].error = NULL
      PROVE  <<outbox'[q].id, 0>> \in ledger
  BY <1>3 DEF LedgerInv
<1>. QED BY <1>1, <1>2, <1>3 DEF LedgerInv

LEMMA LedgerAsks ==
  ASSUME Sound, LedgerInv, NEW d \in Drains, NEW answer \in Answers, Asks(d, answer)
  PROVE  LedgerInv' /\ ledger \subseteq ledger'
<1> DEFINE i == Subject(d)
<1>1. /\ pass[d].batch # <<>> /\ outbox' = outbox
      /\ \A e \in Drains : e # d => pass'[e] = pass[e]
      /\ pass'[d].batch = pass[d].batch /\ pass'[d].answer = answer
      /\ \E k : Answered(i, k, answer)
  BY DEF Asks
<1>2. i \in Deliveries
  BY <1>1, SubjectType
<1>3. Subject(d)' = i
  BY <1>1, SubjectKept
<1> HIDE DEF i
<1>4. /\ ledger \subseteq ledger'
      /\ answer \in Landed => <<i, 0>> \in ledger'
      /\ debits' \in [Deliveries -> {0, 1}]
      /\ \A j \in Deliveries : debits'[j] = 1 <=> <<j, 0>> \in ledger'
  <2>1. CASE UNCHANGED server /\ (answer \in Landed => <<i, 0>> \in ledger)
    BY <2>1 DEF LedgerInv, server
  <2>2. CASE /\ <<i, 0>> \notin ledger
             /\ ledger' = ledger \cup {<<i, 0>>}
             /\ debits' = [debits EXCEPT ![i] = @ + 1]
    <3>1. debits[i] = 0
      BY <1>2, <2>2 DEF LedgerInv
    <3>2. debits' = [debits EXCEPT ![i] = 1]
      BY <2>2, <3>1
    <3>3. \A j \in Deliveries : <<j, 0>> \in ledger' <=> j = i \/ <<j, 0>> \in ledger
      BY <2>2
    <3>. QED BY <1>2, <2>2, <3>2, <3>3 DEF LedgerInv
  <2>. QED BY <1>1, <2>1, <2>2 DEF Answered
<1>5. ASSUME NEW e \in Drains, pass'[e].answer \in Landed
      PROVE  <<Subject(e)', 0>> \in ledger'
  <2>1. CASE e = d
    BY <1>1, <1>3, <1>4, <1>5, <2>1
  <2>2. CASE e # d
    <3>1. pass'[e] = pass[e]
      BY <1>1, <2>2
    <3>2. pass[e].batch # <<>>
      BY <1>5, <3>1 DEF Sound, Reading, Landed, Answers
    <3>3. Subject(e)' = Subject(e)
      BY <1>1, <3>1, <3>2, SubjectKept
    <3>. QED BY <1>4, <1>5, <3>1, <3>3 DEF LedgerInv
  <2>. QED BY <2>1, <2>2
<1>6. \A p \in DOMAIN outbox' :
        outbox'[p].sent /\ outbox'[p].error = NULL => <<outbox'[p].id, 0>> \in ledger'
  BY <1>1, <1>4 DEF LedgerInv
<1>. QED BY <1>4, <1>5, <1>6 DEF LedgerInv

LEMMA LedgerSettles ==
  ASSUME Sound, LedgerInv, NEW d \in Drains, NEW sent \in BOOLEAN,
         NEW error \in Errors \cup {NULL}, Settles(d, sent, error)
  PROVE  LedgerInv'
<1> DEFINE p == Current(d).place
<1>1. /\ pass[d].batch # <<>>
      /\ DOMAIN outbox' = DOMAIN outbox
      /\ \A q \in DOMAIN outbox : outbox'[q].id = outbox[q].id
      /\ \A q \in DOMAIN outbox : q # p => outbox'[q] = outbox[q]
      /\ outbox'[p].sent = sent /\ outbox'[p].error = error
      /\ \A e \in Drains : e # d => pass'[e] = pass[e]
      /\ pass'[d].answer = NULL
      /\ ledger' = ledger /\ debits' = debits
      /\ error = NULL => pass[d].answer \in Landed
  BY DEF Settles, OneRow, NextRow, Bookkeeping, server, Errors
<1>2. p \in DOMAIN outbox /\ Subject(d) = outbox[p].id
  BY <1>1, SubjectType DEF Subject
<1> HIDE DEF p
<1>3. ASSUME NEW e \in Drains, pass'[e].answer \in Landed
      PROVE  <<Subject(e)', 0>> \in ledger
  <2>1. e # d
    BY <1>1, <1>3 DEF Landed, Answers
  <2>2. pass'[e] = pass[e]
    BY <1>1, <2>1
  <2>3. pass[e].batch # <<>>
    BY <1>3, <2>2 DEF Sound, Reading, Landed, Answers
  <2>4. Subject(e)' = Subject(e)
    BY <1>1, <2>2, <2>3, SubjectKept
  <2>. QED BY <1>3, <2>2, <2>4 DEF LedgerInv
<1>4. ASSUME NEW q \in DOMAIN outbox, outbox'[q].sent, outbox'[q].error = NULL
      PROVE  <<outbox'[q].id, 0>> \in ledger
  <2>1. CASE q = p
    BY <1>1, <1>2, <1>4, <2>1 DEF LedgerInv
  <2>2. CASE q # p
    BY <1>1, <1>4, <2>2 DEF LedgerInv
  <2>. QED BY <2>1, <2>2
<1>. QED BY <1>1, <1>3, <1>4 DEF LedgerInv

LEMMA LedgerNext == Sound /\ LedgerInv /\ [Next]_vars => LedgerInv'
<1> SUFFICES ASSUME Sound, LedgerInv, [Next]_vars PROVE LedgerInv'
  OBVIOUS
<1>1. ASSUME NEW w \in Workers, NEW c \in Chats, Deliver(w, c) PROVE LedgerInv'
  BY <1>1, LedgerQuiet DEF Deliver
<1>2. ASSUME NEW w \in Workers, Meter(w) PROVE LedgerInv'
  BY <1>2, LedgerQuiet DEF Meter
<1>3. ASSUME NEW w \in Workers, Enqueue(w) PROVE LedgerInv'
  <2>1. /\ UNCHANGED <<server, pass>>
        /\ \A q \in DOMAIN outbox : outbox'[q] = outbox[q]
        /\ \A q \in DOMAIN outbox' \ DOMAIN outbox : outbox'[q].sent = FALSE
    <3>1. /\ UNCHANGED <<server, pass>>
          /\ \/ outbox' = outbox
             \/ /\ DOMAIN outbox' = DOMAIN outbox \cup {Len(outbox) + 1}
                /\ \A q \in DOMAIN outbox : outbox'[q] = outbox[q]
                /\ outbox'[Len(outbox) + 1].sent = FALSE
      BY <1>3, Enqueued
    <3>. QED BY <3>1
  <2>. QED BY <2>1, LedgerQuiet
<1>4. ASSUME NEW d \in Drains, StartPass(d) PROVE LedgerInv'
  <2>1. TypeOK /\ Recording
    BY DEF Sound
  <2>2. /\ \A e \in Drains : e # d => pass'[e] = pass[e]
        /\ pass'[d].answer = NULL
        /\ UNCHANGED <<server, outbox>>
    BY <1>4, <2>1, Started
  <2>. QED BY <2>2, LedgerQuiet
<1>5. ASSUME NEW c \in Chats, NEW k \in Keys, Link(c, k) PROVE LedgerInv'
  BY <1>5, LedgerQuiet DEF Link
<1>6. ASSUME NEW c \in Chats, Unlink(c) PROVE LedgerInv'
  BY <1>6, LedgerQuiet DEF Unlink
<1>7. ASSUME NEW k \in Keys, Revoke(k) PROVE LedgerInv'
  BY <1>7, LedgerQuiet DEF Revoke
<1>8. CASE Crash
  <2>1. UNCHANGED <<server, outbox>>
    BY <1>8, Died
  <2>2. IdlePass.answer = NULL
    BY DEF IdlePass
  <2>3. \A e \in Drains : pass'[e] = pass[e] \/ pass'[e].answer = NULL
    BY <1>8, <2>2, Died
  <2>. QED BY <2>1, <2>3, LedgerQuiet
<1>9. CASE UNCHANGED vars
  BY <1>9, LedgerQuiet DEF vars
<1>. QED
  BY <1>1, <1>2, <1>3, <1>4, <1>5, <1>6, <1>7, <1>8, <1>9, StepIsOneOf, LedgerAsks,
     LedgerSettles

LEMMA SpecLedger == Spec => []LedgerInv
BY SpecSound, LedgerInit, LedgerNext, PTL DEF Spec

(* However many passes overlap, whatever is lost and whoever dies, a       *)
(* delivery is charged to a plan at most once (entitlement_client.consume, *)
(* drain_entitlement_debits).                                              *)
THEOREM ChargedAtMostOnce == Spec => []DebitedAtMostOnce
<1>1. LedgerInv => DebitedAtMostOnce
  BY DEF LedgerInv, DebitedAtMostOnce
<1>. QED BY <1>1, SpecLedger, PTL

(* What the outbox reports as charged. *)
ConfirmedIsTrue == Confirmed \subseteq Charged

(* However many passes overlap, a debit that is stamped without an error   *)
(* was charged by signal-MCP (drain_entitlement_debits,                    *)
(* count_plan_units_debited_last_24h).                                     *)
THEOREM ConfirmedWasCharged == Spec => []ConfirmedIsTrue
<1>1. ASSUME Sound, LedgerInv PROVE ConfirmedIsTrue
  <2>1. \A p \in DOMAIN outbox : outbox[p].id \in Deliveries
    BY <1>1, OutboxType DEF Sound, Row
  <2>2. \A i \in Deliveries : <<i, 0>> \in ledger => debits[i] > 0
    BY <1>1 DEF LedgerInv
  <2>. QED BY <1>1, <2>1, <2>2 DEF LedgerInv, ConfirmedIsTrue, Confirmed, Charged, Ids
<1>. QED BY <1>1, SpecSound, SpecLedger, PTL

---------------------------------------------------------------------------
(* One pass at a time.  Two passes may have read the same row, and the     *)
(* second may be refused, or told of a key that is gone, what the first    *)
(* has charged: what follows holds of passes that do not overlap.          *)

OnePass == \A d, e \in Drains : d = e

(* What a pass holds is not settled; a debit it was refused was not made,  *)
(* and one recorded as refused is settled and was not made.                *)
Exclusive ==
  /\ \A d \in Drains : \A n \in 1..Len(pass[d].batch) : ~outbox[pass[d].batch[n].place].sent
  /\ \A d \in Drains : pass[d].answer = "REFUSED" => <<Subject(d), 0>> \notin ledger
  /\ \A p \in DOMAIN outbox :
       outbox[p].error = "REFUSED" => outbox[p].sent /\ <<outbox[p].id, 0>> \notin ledger

LEMMA ExclusiveInit == Init => Exclusive
<1> SUFFICES ASSUME Init PROVE Exclusive
  OBVIOUS
<1>1. \A d \in Drains : pass[d].batch = <<>> /\ pass[d].answer = NULL
  BY DEF Init, IdlePass
<1>2. Len(<<>>) = 0 /\ DOMAIN outbox = {}
  BY DEF Init
<1>. QED BY <1>1, <1>2 DEF Exclusive, Answers

(* The current row is the first of the batch, and the only one of its      *)
(* delivery.                                                               *)
LEMMA CurrentIsFirst ==
  ASSUME Sound, NEW d \in Drains, pass[d].batch # <<>>
  PROVE  /\ 1 \in 1..Len(pass[d].batch) /\ Current(d) = pass[d].batch[1]
         /\ Current(d).place \in DOMAIN outbox
         /\ \A q \in DOMAIN outbox : outbox[q].id = Subject(d) => q = Current(d).place
<1>1. TypeOK /\ Reading
  BY DEF Sound
<1>2. Len(pass[d].batch) \in Nat \ {0} /\ Current(d) = pass[d].batch[1]
        /\ Current(d).place \in DOMAIN outbox
  BY <1>1, CurrentType
<1>. QED BY <1>2 DEF Sound, Recording, Subject

LEMMA ExclusiveQuiet ==
  ASSUME Sound, Exclusive, UNCHANGED server,
         \A d \in Drains : \/ pass'[d] = pass[d]
                           \/ pass'[d] = IdlePass
                           \/ pass'[d].batch = Batch /\ pass'[d].answer = NULL,
         \A q \in DOMAIN outbox : outbox'[q] = outbox[q],
         \A q \in DOMAIN outbox' \ DOMAIN outbox : outbox'[q].error = NULL
  PROVE  Exclusive'
<1>0. ledger' = ledger /\ NULL # "REFUSED"
  BY DEF server, Answers
<1>1. ASSUME NEW d \in Drains, NEW n \in 1..Len(pass'[d].batch)
      PROVE  ~outbox'[pass'[d].batch[n].place].sent
  <2>1. CASE pass'[d] = pass[d]
    BY <1>1, <2>1 DEF Exclusive, Sound, Reading
  <2>2. CASE pass'[d] = IdlePass
    <3>1. pass'[d].batch = <<>> /\ Len(<<>>) = 0
      BY <2>2 DEF IdlePass
    <3>. QED BY <1>1, <3>1
  <2>3. CASE pass'[d].batch = Batch
    <3>1. Batch[n].place \in Pending
      BY <1>1, <2>3, BatchRead DEF Sound
    <3>. QED BY <2>3, <3>1 DEF Pending
  <2>. QED BY <2>1, <2>2, <2>3
<1>2. ASSUME NEW d \in Drains, pass'[d].answer = "REFUSED"
      PROVE  <<Subject(d)', 0>> \notin ledger
  <2>1. pass'[d] = pass[d]
    BY <1>0, <1>2 DEF IdlePass
  <2>2. pass[d].batch # <<>>
    BY <1>0, <1>2, <2>1 DEF Sound, Reading
  <2>. QED BY <1>2, <2>1, <2>2, SubjectKept DEF Exclusive
<1>3. ASSUME NEW q \in DOMAIN outbox', outbox'[q].error = "REFUSED"
      PROVE  outbox'[q].sent /\ <<outbox'[q].id, 0>> \notin ledger
  BY <1>0, <1>3 DEF Exclusive
<1>. QED BY <1>0, <1>1, <1>2, <1>3 DEF Exclusive

LEMMA ExclusiveAsks ==
  ASSUME OnePass, Sound, Exclusive, NEW d \in Drains, NEW answer \in Answers, Asks(d, answer)
  PROVE  Exclusive'
<1> DEFINE i == Subject(d)
<1>1. /\ pass[d].batch # <<>> /\ outbox' = outbox
      /\ pass'[d].batch = pass[d].batch /\ pass'[d].answer = answer
      /\ \E k : Answered(i, k, answer)
  BY DEF Asks
<1>2. Subject(d)' = i
  BY <1>1, SubjectKept
<1>3. \A e \in Drains : e = d
  BY DEF OnePass
<1>4. \A q \in DOMAIN outbox : outbox[q].error = "REFUSED" => outbox[q].id # i
  <2>1. ~outbox[Current(d).place].sent
    BY <1>1, CurrentIsFirst DEF Exclusive
  <2>2. \A q \in DOMAIN outbox : outbox[q].id = i => q = Current(d).place
    BY <1>1, CurrentIsFirst
  <2>. QED BY <2>1, <2>2 DEF Exclusive
<1> HIDE DEF i
<1>5. ledger' \in {ledger, ledger \cup {<<i, 0>>}}
        /\ (answer = "REFUSED" => <<i, 0>> \notin ledger')
  BY <1>1 DEF Answered, server
<1>6. \A q \in DOMAIN outbox :
        outbox[q].error = "REFUSED" => outbox[q].sent /\ <<outbox[q].id, 0>> \notin ledger'
  BY <1>4, <1>5 DEF Exclusive
<1>. QED BY <1>1, <1>2, <1>3, <1>5, <1>6 DEF Exclusive

LEMMA ExclusiveSettles ==
  ASSUME OnePass, Sound, Exclusive, NEW d \in Drains, NEW sent \in BOOLEAN,
         NEW error \in Errors \cup {NULL}, Settles(d, sent, error)
  PROVE  Exclusive'
<1> DEFINE p == Current(d).place
           b == pass[d].batch
           c == pass'[d].batch
<1>1. /\ b # <<>>
      /\ DOMAIN outbox' = DOMAIN outbox
      /\ \A q \in DOMAIN outbox : outbox'[q].id = outbox[q].id
      /\ \A q \in DOMAIN outbox : q # p => outbox'[q] = outbox[q]
      /\ outbox'[p].sent = sent /\ outbox'[p].error = error
      /\ pass'[d].answer = NULL
      /\ Len(b) \in Nat \ {0} /\ Len(c) = Len(b) - 1
      /\ \A n \in 1..Len(c) : c[n] = b[n + 1]
      /\ ledger' = ledger
      /\ error = "REFUSED" => sent = TRUE /\ pass[d].answer = "REFUSED"
  BY DEF Settles, OneRow, NextRow, Bookkeeping, server, Errors
<1>2. \A e \in Drains : e = d
  BY DEF OnePass
<1>3. p \in DOMAIN outbox /\ Subject(d) = outbox[p].id /\ p = b[1].place
        /\ 1 \in 1..Len(b)
  BY <1>1, CurrentIsFirst DEF Subject
<1>4. /\ \A n \in 1..Len(b) : b[n].place \in DOMAIN outbox /\ ~outbox[b[n].place].sent
      /\ \A m, n \in 1..Len(b) : m # n => b[m].place # b[n].place
  BY DEF Sound, Reading, Exclusive
<1> HIDE DEF p, b, c
<1>5. ASSUME NEW n \in 1..Len(c) PROVE ~outbox'[c[n].place].sent
  <2>1. n + 1 \in 1..Len(b) /\ n + 1 # 1
    BY <1>1
  <2>2. b[n + 1].place # p
    BY <1>3, <1>4, <2>1
  <2>. QED BY <1>1, <1>4, <2>1, <2>2
<1>6. ASSUME NEW q \in DOMAIN outbox, outbox'[q].error = "REFUSED"
      PROVE  outbox'[q].sent /\ <<outbox'[q].id, 0>> \notin ledger
  <2>1. CASE q = p
    BY <1>1, <1>3, <1>6, <2>1 DEF Exclusive
  <2>2. CASE q # p
    BY <1>1, <1>6, <2>2 DEF Exclusive
  <2>. QED BY <2>1, <2>2
<1>7. NULL # "REFUSED"
  BY DEF Answers
<1>. QED BY <1>1, <1>2, <1>5, <1>6, <1>7 DEF Exclusive, c

LEMMA ExclusiveNext ==
  ASSUME OnePass, Sound, Exclusive, [Next]_vars
  PROVE  Exclusive'
<1>1. ASSUME NEW w \in Workers, NEW c \in Chats, Deliver(w, c) PROVE Exclusive'
  BY <1>1, ExclusiveQuiet DEF Deliver
<1>2. ASSUME NEW w \in Workers, Meter(w) PROVE Exclusive'
  BY <1>2, ExclusiveQuiet DEF Meter
<1>3. ASSUME NEW w \in Workers, Enqueue(w) PROVE Exclusive'
  <2>1. /\ UNCHANGED <<server, pass>>
        /\ \A q \in DOMAIN outbox : outbox'[q] = outbox[q]
        /\ \A q \in DOMAIN outbox' \ DOMAIN outbox : outbox'[q].error = NULL
    <3>1. /\ UNCHANGED <<server, pass>>
          /\ \/ outbox' = outbox
             \/ /\ DOMAIN outbox' = DOMAIN outbox \cup {Len(outbox) + 1}
                /\ \A q \in DOMAIN outbox : outbox'[q] = outbox[q]
                /\ outbox'[Len(outbox) + 1].error = NULL
      BY <1>3, Enqueued
    <3>. QED BY <3>1
  <2>. QED BY <2>1, ExclusiveQuiet
<1>4. ASSUME NEW d \in Drains, StartPass(d) PROVE Exclusive'
  <2>1. TypeOK /\ Recording
    BY DEF Sound
  <2>2. /\ \A e \in Drains : e # d => pass'[e] = pass[e]
        /\ pass'[d].batch = Batch /\ pass'[d].answer = NULL
        /\ UNCHANGED <<server, outbox>>
    BY <1>4, <2>1, Started
  <2>. QED BY <2>2, ExclusiveQuiet
<1>5. ASSUME NEW c \in Chats, NEW k \in Keys, Link(c, k) PROVE Exclusive'
  BY <1>5, ExclusiveQuiet DEF Link
<1>6. ASSUME NEW c \in Chats, Unlink(c) PROVE Exclusive'
  BY <1>6, ExclusiveQuiet DEF Unlink
<1>7. ASSUME NEW k \in Keys, Revoke(k) PROVE Exclusive'
  BY <1>7, ExclusiveQuiet DEF Revoke
<1>8. CASE Crash
  <2>1. UNCHANGED <<server, outbox>> /\ \A e \in Drains : pass'[e] \in {pass[e], IdlePass}
    BY <1>8, Died
  <2>. QED BY <2>1, ExclusiveQuiet
<1>9. CASE UNCHANGED vars
  BY <1>9, ExclusiveQuiet DEF vars
<1>. QED
  BY <1>1, <1>2, <1>3, <1>4, <1>5, <1>6, <1>7, <1>8, <1>9, StepIsOneOf, ExclusiveAsks,
     ExclusiveSettles

LEMMA SpecExclusive ==
  ASSUME OnePass
  PROVE  Spec => []Exclusive
<1>1. Sound /\ Exclusive /\ [Next]_vars => Exclusive'
  BY ExclusiveNext
<1>. QED BY <1>1, SpecSound, ExclusiveInit, PTL DEF Spec

(* With one pass at a time the outcomes recorded are true, the refusals    *)
(* too: a debit stamped REFUSED was not charged (drain_entitlement_debits).*)
THEOREM OutcomesTrue ==
  ASSUME OnePass
  PROVE  Spec => []OutcomeIsTrue
<1>1. ASSUME Sound, LedgerInv, Exclusive PROVE OutcomeIsTrue
  <2>1. \A p \in DOMAIN outbox : outbox[p].id \in Deliveries
    BY <1>1, OutboxType DEF Sound, Row
  <2>2. \A i \in Deliveries : <<i, 0>> \in ledger <=> debits[i] > 0
    <3>1. \A i \in Deliveries : debits[i] \in {0, 1}
      BY <1>1 DEF LedgerInv
    <3>2. \A i \in Deliveries : debits[i] = 1 <=> <<i, 0>> \in ledger
      BY <1>1 DEF LedgerInv
    <3>3. \A i \in Deliveries : debits[i] = 1 <=> debits[i] > 0
      BY <3>1
    <3>. QED BY <3>2, <3>3
  <2>3. Confirmed \subseteq Charged
    BY <1>1, <2>1, <2>2 DEF LedgerInv, Confirmed, Charged, Ids
  <2>4. \A p \in DOMAIN outbox : outbox[p].error = "REFUSED" => outbox[p].id \notin Charged
    BY <1>1, <2>1, <2>2 DEF Exclusive, Charged
  <2>. QED BY <2>3, <2>4 DEF OutcomeIsTrue
<1>. QED BY <1>1, SpecSound, SpecLedger, SpecExclusive, PTL

---------------------------------------------------------------------------
(* The outbox implements DebitLedger.                                      *)

LEMMA LedgerMembers ==
  /\ \A i : i \in Owed <=> \E p \in DOMAIN outbox : outbox[p].id = i
  /\ \A i : i \in Confirmed <=>
       \E p \in DOMAIN outbox : outbox[p].id = i /\ outbox[p].sent /\ outbox[p].error = NULL
  /\ \A i : i \in WrittenOff <=>
       \E p \in DOMAIN outbox : outbox[p].id = i /\ outbox[p].sent /\ outbox[p].error # NULL
  /\ \A i : i \in Charged <=> i \in Deliveries /\ debits[i] > 0
BY DEF Owed, Confirmed, WrittenOff, Charged, Ids

(* Nothing moves in the ledger unless a row or a charge does. *)
LEMMA LedgerStutters ==
  ASSUME UNCHANGED <<outbox, server>>
  PROVE  UNCHANGED Ledger!vars
BY DEF server, Ledger!vars, Owed, Charged, Confirmed, WrittenOff, Ids

(* A delivery is queued: a debit is owed. *)
LEMMA QueuedIsOwed ==
  ASSUME Sound, NEW w \in Workers, Enqueue(w)
  PROVE  [Ledger!Next]_(Ledger!vars)
<1> DEFINE i == rec[w].id
           n == Len(outbox) + 1
<1>1. /\ rec[w].at = "enqueue"
      /\ \/ outbox' = outbox
         \/ /\ n \notin DOMAIN outbox
            /\ DOMAIN outbox' = DOMAIN outbox \cup {n}
            /\ \A p \in DOMAIN outbox : outbox'[p] = outbox[p]
            /\ outbox'[n].id = i /\ outbox'[n].sent = FALSE
      /\ UNCHANGED server
  BY Enqueued
<1>2. i \in Deliveries /\ \A p \in DOMAIN outbox : outbox[p].id # i
  BY <1>1, AtWork
<1> HIDE DEF i, n
<1>3. CASE /\ n \notin DOMAIN outbox
           /\ DOMAIN outbox' = DOMAIN outbox \cup {n}
           /\ \A p \in DOMAIN outbox : outbox'[p] = outbox[p]
           /\ outbox'[n].id = i /\ outbox'[n].sent = FALSE
  <2>1. Charged' = Charged
    BY <1>1 DEF Charged, server
  <2>2. i \notin Owed /\ Owed' = Owed \cup {i}
    BY <1>2, <1>3 DEF Owed, Ids
  <2>3. Confirmed' = Confirmed /\ WrittenOff' = WrittenOff
    BY <1>3 DEF Confirmed, WrittenOff, Ids
  <2>4. Ledger!Owe(i)
    BY <2>1, <2>2, <2>3 DEF Ledger!Owe
  <2>. QED BY <1>2, <2>4 DEF Ledger!Next
<1>. QED BY <1>1, <1>3, LedgerStutters

(* What a pass asks to charge is owed, and not settled. *)
LEMMA SubjectOwed ==
  ASSUME Sound, Exclusive, NEW d \in Drains, pass[d].batch # <<>>
  PROVE  /\ Subject(d) \in Deliveries
         /\ Subject(d) \in Owed \ (Confirmed \cup WrittenOff)
<1>1. Current(d).place \in DOMAIN outbox /\ Subject(d) \in Deliveries
        /\ outbox[Current(d).place].id = Subject(d)
  BY SubjectType DEF Subject
<1>2. ~outbox[Current(d).place].sent
  BY CurrentIsFirst DEF Exclusive
<1>3. \A q \in DOMAIN outbox : outbox[q].id = Subject(d) => ~outbox[q].sent
  BY <1>2, CurrentIsFirst
<1>. QED BY <1>1, <1>3, LedgerMembers

(* A charge lands: a debit is made. *)
LEMMA ChargeIsDebit ==
  ASSUME Sound, LedgerInv, Exclusive,
         NEW d \in Drains, NEW answer \in Answers, Asks(d, answer)
  PROVE  [Ledger!Next]_(Ledger!vars)
<1> DEFINE i == Subject(d)
<1>1. pass[d].batch # <<>> /\ outbox' = outbox /\ Answered(i, Current(d).key, answer)
  BY DEF Asks
<1>2. i \in Deliveries /\ i \in Owed \ (Confirmed \cup WrittenOff)
  BY <1>1, SubjectOwed
<1> HIDE DEF i
<1>3. CASE UNCHANGED server
  BY <1>1, <1>3, LedgerStutters
<1>4. CASE <<i, 0>> \notin ledger /\ debits' = [debits EXCEPT ![i] = @ + 1]
  <2>1. debits \in [Deliveries -> {0, 1}] /\ debits[i] = 0
    BY <1>2, <1>4 DEF LedgerInv
  <2>2. debits' = [debits EXCEPT ![i] = 1]
    BY <1>4, <2>1
  <2>3. i \notin Charged /\ Charged' = Charged \cup {i}
    BY <1>2, <2>1, <2>2 DEF Charged
  <2>4. Owed' = Owed /\ Confirmed' = Confirmed /\ WrittenOff' = WrittenOff
    BY <1>1 DEF Owed, Confirmed, WrittenOff, Ids
  <2>5. Ledger!Debit(i)
    BY <1>2, <2>3, <2>4 DEF Ledger!Debit, Ledger!Settled
  <2>. QED BY <1>2, <2>5 DEF Ledger!Next
<1>. QED BY <1>1, <1>3, <1>4 DEF Answered

(* A row is settled: a debit that was made is confirmed, another written   *)
(* off, and one left for a later pass is neither.                          *)
LEMMA SettledIsConfirmedOrNot ==
  ASSUME Sound, LedgerInv, Exclusive,
         NEW d \in Drains, NEW sent \in BOOLEAN, NEW error \in Errors \cup {NULL},
         Settles(d, sent, error)
  PROVE  [Ledger!Next]_(Ledger!vars)
<1> DEFINE p == Current(d).place
           i == Subject(d)
<1>1. /\ pass[d].batch # <<>>
      /\ DOMAIN outbox' = DOMAIN outbox
      /\ \A q \in DOMAIN outbox : outbox'[q].id = outbox[q].id
      /\ \A q \in DOMAIN outbox : q # p => outbox'[q] = outbox[q]
      /\ outbox'[p].sent = sent /\ outbox'[p].error = error
      /\ UNCHANGED server
      /\ \/ sent = TRUE
         \/ sent = outbox[p].sent
      /\ error = NULL => sent = TRUE /\ pass[d].answer \in Landed
  BY DEF Settles, OneRow, Bookkeeping, Errors
<1>2. /\ p \in DOMAIN outbox /\ outbox[p].id = i
      /\ i \in Deliveries /\ i \in Owed \ (Confirmed \cup WrittenOff)
  BY <1>1, SubjectType, SubjectOwed DEF Subject
<1>3. ~outbox[p].sent
  BY <1>1, CurrentIsFirst DEF Exclusive
<1>4. error = NULL => i \in Charged
  <2>1. pass[d].answer \in Landed => <<i, 0>> \in ledger
    BY DEF LedgerInv
  <2>2. debits[i] = 1 <=> <<i, 0>> \in ledger
    BY <1>2 DEF LedgerInv
  <2>. QED BY <1>1, <1>2, <2>1, <2>2, LedgerMembers
<1> HIDE DEF p, i
<1>5. Owed' = Owed
  BY <1>1 DEF Owed, Ids
<1>6. Charged' = Charged
  BY <1>1 DEF Charged, server
<1>7. CASE ~sent
  <2>1. Confirmed' = Confirmed
    BY <1>1, <1>2, <1>3, <1>7 DEF Confirmed, Ids
  <2>2. WrittenOff' = WrittenOff
    BY <1>1, <1>2, <1>3, <1>7 DEF WrittenOff, Ids
  <2>. QED BY <1>5, <1>6, <2>1, <2>2 DEF Ledger!vars
<1>8. CASE sent /\ error = NULL
  <2>1. Confirmed' = Confirmed \cup {i}
    <3>1. \A j : j \in Confirmed' <=>
            \E q \in DOMAIN outbox : outbox[q].id = j /\ outbox'[q].sent /\ outbox'[q].error = NULL
      BY <1>1 DEF Confirmed, Ids
    <3>2. i \in Confirmed'
      BY <1>1, <1>2, <1>8, <3>1
    <3>3. ASSUME NEW j, j # i PROVE j \in Confirmed' <=> j \in Confirmed
      BY <1>1, <1>2, <3>1, <3>3, LedgerMembers
    <3>. QED BY <3>2, <3>3
  <2>2. WrittenOff' = WrittenOff
    BY <1>1, <1>2, <1>3, <1>8 DEF WrittenOff, Ids
  <2>3. Ledger!Confirm(i)
    BY <1>2, <1>4, <1>5, <1>6, <1>8, <2>1, <2>2 DEF Ledger!Confirm, Ledger!Settled
  <2>. QED BY <1>2, <2>3 DEF Ledger!Next
<1>9. CASE sent /\ error # NULL
  <2>1. Confirmed' = Confirmed
    BY <1>1, <1>2, <1>3, <1>9 DEF Confirmed, Ids
  <2>2. WrittenOff' = WrittenOff \cup {i}
    <3>1. \A j : j \in WrittenOff' <=>
            \E q \in DOMAIN outbox : outbox[q].id = j /\ outbox'[q].sent /\ outbox'[q].error # NULL
      BY <1>1 DEF WrittenOff, Ids
    <3>2. i \in WrittenOff'
      BY <1>1, <1>2, <1>9, <3>1
    <3>3. ASSUME NEW j, j # i PROVE j \in WrittenOff' <=> j \in WrittenOff
      BY <1>1, <1>2, <3>1, <3>3, LedgerMembers
    <3>. QED BY <3>2, <3>3
  <2>3. Ledger!WriteOff(i)
    BY <1>2, <1>5, <1>6, <2>1, <2>2 DEF Ledger!WriteOff, Ledger!Settled
  <2>. QED BY <1>2, <2>3 DEF Ledger!Next
<1>. QED BY <1>7, <1>8, <1>9

LEMMA LedgerStep ==
  ASSUME Sound, LedgerInv, Exclusive, [Next]_vars
  PROVE  [Ledger!Next]_(Ledger!vars)
<1>1. ASSUME NEW w \in Workers, NEW c \in Chats, Deliver(w, c) PROVE UNCHANGED <<outbox, server>>
  BY <1>1 DEF Deliver
<1>2. ASSUME NEW w \in Workers, Meter(w) PROVE UNCHANGED <<outbox, server>>
  BY <1>2 DEF Meter
<1>3. ASSUME NEW d \in Drains, StartPass(d) PROVE UNCHANGED <<outbox, server>>
  BY <1>3 DEF StartPass
<1>4. ASSUME \/ \E c \in Chats, k \in Keys : Link(c, k)
             \/ \E c \in Chats : Unlink(c)
             \/ \E k \in Keys : Revoke(k)
      PROVE UNCHANGED <<outbox, server>>
  BY <1>4 DEF Link, Unlink, Revoke
<1>5. CASE Crash
  BY <1>5, LedgerStutters DEF Crash
<1>6. CASE UNCHANGED vars
  BY <1>6, LedgerStutters DEF vars
<1>. QED
  BY <1>1, <1>2, <1>3, <1>4, <1>5, <1>6, StepIsOneOf, LedgerStutters, QueuedIsOwed,
     ChargeIsDebit, SettledIsConfirmedOrNot

LEMMA LedgerStarts == Init => Ledger!Init
<1> SUFFICES ASSUME Init PROVE Ledger!Init
  OBVIOUS
<1>1. DOMAIN outbox = {}
  BY DEF Init
<1>2. \A i \in Deliveries : debits[i] = 0
  BY DEF Init
<1>. QED BY <1>1, <1>2 DEF Ledger!Init, Owed, Charged, Confirmed, WrittenOff, Ids

(* With one pass at a time the outbox is a ledger that charges only what   *)
(* it owes and has not settled, and settles each debit once: as confirmed  *)
(* when it was charged, and otherwise as written off                       *)
(* (drain_entitlement_debits, against record_call_delivered).              *)
THEOREM OutboxKeepsLedger ==
  ASSUME OnePass
  PROVE  Spec => KeepsLedger
<1>1. Sound /\ LedgerInv /\ Exclusive /\ [Next]_vars => [Ledger!Next]_(Ledger!vars)
  BY LedgerStep
<1>. QED
  BY <1>1, LedgerStarts, SpecSound, SpecLedger, SpecExclusive, PTL
     DEF Spec, KeepsLedger, Ledger!Spec

---------------------------------------------------------------------------
(* On one meter, but for the faults.                                       *)

LEMMA OnceMore == \A n, m \in Nat : (n + 1) * m = n * m + m /\ n * m \in Nat
OBVIOUS

(* Ids are not given away twice, and rows keep theirs. *)
LEMMA NamesKept ==
  ASSUME Sound, [Next]_vars
  PROVE  /\ \A j \in DOMAIN fired : j \in DOMAIN fired' /\ fired'[j] = fired[j]
         /\ \A p \in DOMAIN outbox : p \in DOMAIN outbox' /\ outbox'[p].id = outbox[p].id
<1>1. ASSUME NEW w \in Workers, NEW c \in Chats, Deliver(w, c)
      PROVE  /\ \A j \in DOMAIN fired : j \in DOMAIN fired' /\ fired'[j] = fired[j]
             /\ outbox' = outbox
  BY <1>1, DeliveryRecorded
<1>2. ASSUME NEW w \in Workers, Meter(w) PROVE UNCHANGED <<fired, outbox>>
  BY <1>2 DEF Meter
<1>3. ASSUME NEW w \in Workers, Enqueue(w)
      PROVE  /\ fired' = fired
             /\ \A p \in DOMAIN outbox : p \in DOMAIN outbox' /\ outbox'[p] = outbox[p]
  <2>1. /\ fired' = fired
        /\ \/ outbox' = outbox
           \/ /\ DOMAIN outbox' = DOMAIN outbox \cup {Len(outbox) + 1}
              /\ \A p \in DOMAIN outbox : outbox'[p] = outbox[p]
    BY <1>3, Enqueued
  <2>. QED BY <2>1
<1>4. ASSUME NEW d \in Drains, StartPass(d) PROVE UNCHANGED <<fired, outbox>>
  BY <1>4 DEF StartPass, record
<1>5. ASSUME NEW d \in Drains, NEW answer, Asks(d, answer) PROVE UNCHANGED <<fired, outbox>>
  BY <1>5 DEF Asks, record
<1>6. ASSUME NEW d \in Drains, NEW sent, NEW error, Settles(d, sent, error)
      PROVE  /\ fired' = fired
             /\ DOMAIN outbox' = DOMAIN outbox
             /\ \A p \in DOMAIN outbox : outbox'[p].id = outbox[p].id
  BY <1>6 DEF Settles, OneRow, Bookkeeping, record
<1>7. ASSUME \/ \E c \in Chats, k \in Keys : Link(c, k)
             \/ \E c \in Chats : Unlink(c)
             \/ \E k \in Keys : Revoke(k)
      PROVE UNCHANGED <<fired, outbox>>
  BY <1>7 DEF Link, Unlink, Revoke, record
<1>8. CASE Crash
  BY <1>8 DEF Crash
<1>9. CASE UNCHANGED vars
  BY <1>9 DEF vars, record
<1>. QED
  BY <1>1, <1>2, <1>3, <1>4, <1>5, <1>6, <1>7, <1>8, <1>9, StepIsOneOf

(* What is queued for a delivery: by now, or once its recorder gets there. *)
Queued(i) == IF i \in Recorded THEN i \in Owed ELSE link[fired[i]] # NULL

(* Deliveries that were metered and are not, or will not be, on one meter. *)
Doubtful ==
  {i \in DOMAIN fired :
     /\ \A w \in Workers : rec[w].id = i => rec[w].at = "enqueue"
     /\ i \in free <=> Queued(i)}

FaultsInv == Cardinality(Doubtful) <= crashes + links * Cardinality(Workers)

LEMMA DoubtfulType ==
  ASSUME Sound
  PROVE  /\ IsFiniteSet(Doubtful) /\ Cardinality(Doubtful) \in Nat
         /\ Cardinality(Workers) \in Nat /\ crashes \in Nat /\ links \in Nat
<1>1. Len(fired) \in Nat /\ DOMAIN fired = 1..Len(fired)
  BY OutboxType DEF Sound
<1>2. IsFiniteSet(1..Len(fired)) /\ Doubtful \in SUBSET (1..Len(fired))
  BY <1>1, FS_Interval DEF Doubtful
<1>3. IsFiniteSet(Doubtful)
  BY <1>2, FS_Subset
<1>. QED BY <1>3, FS_CardinalityType DEF Sound, TypeOK

(* A delivery nobody is recording is Recorded, and conversely. *)
LEMMA RecordedMembers ==
  /\ \A i : i \in Recorded <=> i \in DOMAIN fired /\ \A w \in Workers : rec[w].id # i
  /\ \A i : i \in Doubtful <=>
       /\ i \in DOMAIN fired
       /\ \A w \in Workers : rec[w].id = i => rec[w].at = "enqueue"
       /\ i \in free <=> Queued(i)
BY DEF Recorded, Doubtful

(* A delivery whose recorder, meter and debit stay as they are. *)
LEMMA DoubtKept ==
  ASSUME Sound, NEW i \in DOMAIN fired, i \in DOMAIN fired', fired'[i] = fired[i],
         \A w \in Workers : rec'[w].id = i <=> rec[w].id = i,
         \A w \in Workers : rec[w].id = i => rec'[w].at = rec[w].at,
         i \in free' <=> i \in free,
         i \in Owed' <=> i \in Owed,
         link' = link \/ i \in Recorded
  PROVE  i \in Doubtful' <=> i \in Doubtful
<1>1. i \in Recorded' <=> i \in Recorded
  BY DEF Recorded
<1>2. Queued(i)' <=> Queued(i)
  BY <1>1 DEF Queued
<1>3. (\A w \in Workers : rec'[w].id = i => rec'[w].at = "enqueue")
        <=> (\A w \in Workers : rec[w].id = i => rec[w].at = "enqueue")
  OBVIOUS
<1>. QED BY <1>2, <1>3 DEF Doubtful

LEMMA DoubtfulDeliver ==
  ASSUME Sound, NEW w \in Workers, NEW c \in Chats, Deliver(w, c)
  PROVE  Doubtful' \subseteq Doubtful
<1> DEFINE n == Len(fired) + 1
<1>1. /\ n \notin DOMAIN fired
      /\ DOMAIN fired' = DOMAIN fired \cup {n}
      /\ \A j \in DOMAIN fired : fired'[j] = fired[j]
      /\ rec[w].at = "idle" /\ rec'[w].at = "meter" /\ rec'[w].id = n
      /\ \A v \in Workers : v # w => rec'[v] = rec[v]
      /\ UNCHANGED <<link, free, outbox>>
  BY DeliveryRecorded DEF Deliver, service
<1> HIDE DEF n
<1>2. Owed' = Owed
  BY <1>1 DEF Owed, Ids
<1>3. rec[w].id = NULL /\ NULL \notin DOMAIN fired
  <2>1. rec[w] = IdleRec
    BY <1>1 DEF Sound, Recording
  <2>2. DOMAIN fired \subseteq Nat
    BY OutboxType DEF Sound, Deliveries
  <2>. QED BY <2>1, <2>2 DEF IdleRec
<1>4. ASSUME NEW i \in DOMAIN fired PROVE i \in Doubtful' <=> i \in Doubtful
  <2>1. i \in DOMAIN fired' /\ fired'[i] = fired[i] /\ i # n /\ i # NULL
    BY <1>1, <1>3
  <2>2. \A v \in Workers : rec'[v].id = i <=> rec[v].id = i
    BY <1>1, <1>3, <2>1
  <2>3. \A v \in Workers : rec[v].id = i => rec'[v].at = rec[v].at
    BY <1>1, <1>3, <2>1
  <2>. QED BY <1>1, <1>2, <2>1, <2>2, <2>3, DoubtKept
<1>5. n \notin Doubtful'
  BY <1>1 DEF Doubtful
<1>6. Doubtful' \subseteq DOMAIN fired'
  BY DEF Doubtful
<1>. QED BY <1>1, <1>4, <1>5, <1>6

LEMMA DoubtfulMeter ==
  ASSUME Sound, NEW w \in Workers, Meter(w)
  PROVE  Doubtful' \subseteq Doubtful
<1> SUFFICES ASSUME NEW i, i = rec[w].id PROVE Doubtful' \subseteq Doubtful
  OBVIOUS
<1>1. /\ rec[w].at = "meter"
      /\ rec'[w].id = i
      /\ \A v \in Workers : v # w => rec'[v] = rec[v]
      /\ free' = IF link[fired[i]] = NULL THEN free \cup {i} ELSE free
      /\ UNCHANGED <<link, fired, outbox>>
  BY Metered DEF service
<1>2. i \in DOMAIN fired /\ \A v \in Workers : v # w => rec[v].id # i
  BY <1>1, AtWork
<1>3. i \notin free
  BY <1>1 DEF Sound, Recording
<1>4. \A v \in Workers : rec'[v].id = rec[v].id
  BY <1>1
<1>5. Owed' = Owed
  BY <1>1 DEF Owed, Ids
<1>6. i \notin Doubtful'
  <2>1. i \notin Recorded'
    BY <1>1 DEF Recorded
  <2>2. Queued(i)' <=> link[fired[i]] # NULL
    BY <1>1, <2>1 DEF Queued
  <2>3. i \in free' <=> link[fired[i]] = NULL
    BY <1>1, <1>3
  <2>. QED BY <2>2, <2>3 DEF Doubtful
<1>7. ASSUME NEW j \in DOMAIN fired, j # i PROVE j \in Doubtful' <=> j \in Doubtful
  <2>1. \A v \in Workers : rec[v].id = j => rec'[v].at = rec[v].at
    BY <1>1, <1>4, <1>7
  <2>2. j \in free' <=> j \in free
    BY <1>1, <1>7
  <2>. QED BY <1>1, <1>4, <1>5, <2>1, <2>2, DoubtKept
<1>8. Doubtful' \subseteq DOMAIN fired
  BY <1>1 DEF Doubtful
<1>. QED BY <1>6, <1>7, <1>8

LEMMA DoubtfulEnqueue ==
  ASSUME Sound, NEW w \in Workers, Enqueue(w)
  PROVE  Doubtful' \subseteq Doubtful
<1> SUFFICES ASSUME NEW i, i = rec[w].id PROVE Doubtful' \subseteq Doubtful
  OBVIOUS
<1> DEFINE n == Len(outbox) + 1
<1>1. /\ rec[w].at = "enqueue" /\ rec'[w] = IdleRec
      /\ \A v \in Workers : v # w => rec'[v] = rec[v]
      /\ \/ link[fired[i]] = NULL /\ outbox' = outbox
         \/ /\ link[fired[i]] # NULL /\ n \notin DOMAIN outbox
            /\ DOMAIN outbox' = DOMAIN outbox \cup {n}
            /\ \A p \in DOMAIN outbox : outbox'[p] = outbox[p]
            /\ outbox'[n].id = i
      /\ UNCHANGED <<link, fired, free>>
  BY Enqueued DEF service
<1>2. /\ i \in DOMAIN fired /\ i # NULL
      /\ \A v \in Workers : v # w => rec[v].id # i
      /\ \A p \in DOMAIN outbox : outbox[p].id # i
  BY <1>1, AtWork
<1>3. rec'[w].id = NULL
  BY <1>1 DEF IdleRec
<1>4. \A v \in Workers : rec'[v].id # i
  BY <1>1, <1>2, <1>3
<1>5. i \notin Recorded /\ i \in Recorded'
  BY <1>1, <1>2, <1>4 DEF Recorded
<1>6. \A v \in Workers : rec[v].id = i => rec[v].at = "enqueue"
  BY <1>1, <1>2
<1>7. NULL \notin DOMAIN fired
  BY OutboxType DEF Sound, Deliveries
<1>8. \A j \in DOMAIN fired : j # i =>
        /\ \A v \in Workers : rec'[v].id = j <=> rec[v].id = j
        /\ \A v \in Workers : rec[v].id = j => rec'[v].at = rec[v].at
  BY <1>1, <1>3, <1>7
<1> HIDE DEF n
<1>9. Owed' = IF link[fired[i]] = NULL THEN Owed ELSE Owed \cup {i}
  <2>1. CASE link[fired[i]] = NULL
    BY <1>1, <2>1 DEF Owed, Ids
  <2>2. CASE link[fired[i]] # NULL
    BY <1>1, <2>2 DEF Owed, Ids
  <2>. QED BY <2>1, <2>2
<1>10. i \notin Owed
  BY <1>2 DEF Owed, Ids
<1>11. i \in Doubtful' => i \in Doubtful
  <2>1. Queued(i)' <=> link[fired[i]] # NULL
    BY <1>5, <1>9, <1>10 DEF Queued
  <2>2. Queued(i) <=> link[fired[i]] # NULL
    BY <1>5 DEF Queued
  <2>. QED BY <1>1, <1>2, <1>6, <2>1, <2>2 DEF Doubtful
<1>12. ASSUME NEW j \in DOMAIN fired, j # i PROVE j \in Doubtful' <=> j \in Doubtful
  <2>1. j \in Owed' <=> j \in Owed
    BY <1>9, <1>12
  <2>. QED BY <1>1, <1>8, <1>12, <2>1, DoubtKept
<1>13. Doubtful' \subseteq DOMAIN fired
  BY <1>1 DEF Doubtful
<1>. QED BY <1>11, <1>12, <1>13

(* A recorder that dies leaves one delivery in doubt at the most. *)
LEMMA DoubtfulDied ==
  ASSUME Sound, NEW w \in Workers, rec[w] # IdleRec, rec'[w] = IdleRec,
         \A v \in Workers : v # w => rec'[v] = rec[v],
         UNCHANGED <<link, fired, free, outbox>>
  PROVE  Doubtful' \subseteq Doubtful \cup {rec[w].id}
<1>1. Owed' = Owed
  BY DEF Owed, Ids
<1>2. rec'[w].id = NULL
  BY DEF IdleRec
<1>3. NULL \notin DOMAIN fired
  BY OutboxType DEF Sound, Deliveries
<1>4. ASSUME NEW j \in DOMAIN fired, j # rec[w].id PROVE j \in Doubtful' <=> j \in Doubtful
  <2>1. \A v \in Workers : rec'[v].id = j <=> rec[v].id = j
    BY <1>2, <1>3, <1>4
  <2>2. \A v \in Workers : rec[v].id = j => rec'[v].at = rec[v].at
    BY <1>4
  <2>. QED BY <1>1, <2>1, <2>2, DoubtKept
<1>5. Doubtful' \subseteq DOMAIN fired
  BY DEF Doubtful
<1>. QED BY <1>4, <1>5

(* A link that changes leaves in doubt what is being recorded. *)
LEMMA DoubtfulLinked ==
  ASSUME Sound, UNCHANGED <<record, outbox>>
  PROVE  \E taken :
           /\ IsFiniteSet(taken) /\ Cardinality(taken) <= Cardinality(Workers)
           /\ Doubtful' \subseteq Doubtful \cup taken
<1> DEFINE taken == {rec[w].id : w \in Workers}
           of    == [w \in Workers |-> rec[w].id]
<1>1. IsFiniteSet(taken) /\ Cardinality(taken) <= Cardinality(Workers)
  <2>1. of \in Surjection(Workers, taken)
    BY DEF Surjection
  <2>. QED BY <2>1, FS_Surjection
<1>2. UNCHANGED <<fired, rec, free>> /\ Owed' = Owed
  BY DEF record, Owed, Ids
<1>3. ASSUME NEW j \in DOMAIN fired, j \notin taken PROVE j \in Doubtful' <=> j \in Doubtful
  <2>1. j \in Recorded
    BY <1>3 DEF Recorded
  <2>. QED BY <1>2, <2>1, DoubtKept
<1>4. Doubtful' \subseteq DOMAIN fired
  BY <1>2 DEF Doubtful
<1>. QED BY <1>1, <1>3, <1>4

LEMMA DoubtfulQuiet ==
  ASSUME UNCHANGED <<link, record>>, Owed' = Owed
  PROVE  Doubtful' = Doubtful
BY DEF Doubtful, Queued, Recorded, record

LEMMA FaultsNext ==
  ASSUME Sound, FaultsInv, [Next]_vars
  PROVE  FaultsInv'
<1> DEFINE W == Cardinality(Workers)
<1>1. /\ IsFiniteSet(Doubtful) /\ Cardinality(Doubtful) \in Nat
      /\ W \in Nat /\ crashes \in Nat /\ links \in Nat
      /\ Cardinality(Doubtful) <= crashes + links * W
  BY DoubtfulType DEF FaultsInv
<1>2. links * W \in Nat /\ (links + 1) * W = links * W + W
  BY <1>1, OnceMore
<1> HIDE DEF W
<1>3. ASSUME Doubtful' \subseteq Doubtful, UNCHANGED <<links, crashes>> PROVE FaultsInv'
  <2>1. Cardinality(Doubtful') <= Cardinality(Doubtful) /\ Cardinality(Doubtful') \in Nat
    BY <1>1, <1>3, FS_Subset, FS_CardinalityType
  <2>. QED BY <1>1, <1>2, <1>3, <2>1 DEF FaultsInv, W
<1>4. ASSUME NEW x, Doubtful' \subseteq Doubtful \cup {x}, links' = links, crashes' = crashes + 1
      PROVE  FaultsInv'
  <2>1. /\ IsFiniteSet(Doubtful \cup {x})
        /\ Cardinality(Doubtful \cup {x}) <= Cardinality(Doubtful) + 1
    <3>1. Cardinality(Doubtful \cup {x})
            = IF x \in Doubtful THEN Cardinality(Doubtful) ELSE Cardinality(Doubtful) + 1
      BY <1>1, FS_AddElement
    <3>. QED BY <1>1, <3>1, FS_AddElement
  <2>2. IsFiniteSet(Doubtful') /\ Cardinality(Doubtful') <= Cardinality(Doubtful \cup {x})
    BY <1>4, <2>1, FS_Subset
  <2>3. Cardinality(Doubtful') \in Nat /\ Cardinality(Doubtful \cup {x}) \in Nat
    BY <2>1, <2>2, FS_CardinalityType
  <2>. QED BY <1>1, <1>2, <1>4, <2>1, <2>2, <2>3 DEF FaultsInv, W
<1>5. ASSUME UNCHANGED <<record, outbox, crashes>>, links' = links + 1
      PROVE  FaultsInv'
  <2>1. PICK taken : /\ IsFiniteSet(taken) /\ Cardinality(taken) <= W
                     /\ Doubtful' \subseteq Doubtful \cup taken
    BY <1>5, DoubtfulLinked DEF W
  <2>2. /\ IsFiniteSet(Doubtful \cup taken)
        /\ Cardinality(taken) \in Nat /\ Cardinality(Doubtful \cap taken) \in Nat
        /\ Cardinality(Doubtful \cup taken)
             = Cardinality(Doubtful) + Cardinality(taken) - Cardinality(Doubtful \cap taken)
    BY <1>1, <2>1, FS_Union, FS_Intersection, FS_CardinalityType
  <2>3. IsFiniteSet(Doubtful') /\ Cardinality(Doubtful') <= Cardinality(Doubtful \cup taken)
    BY <2>1, <2>2, FS_Subset
  <2>4. Cardinality(Doubtful') \in Nat
    BY <2>3, FS_CardinalityType
  <2>5. Cardinality(Doubtful') <= crashes + (links * W + W)
    BY <1>1, <1>2, <2>1, <2>2, <2>3, <2>4
  <2>6. crashes' = crashes /\ links' * W = links * W + W
    BY <1>2, <1>5
  <2>. QED BY <2>5, <2>6 DEF FaultsInv, W
<1>6. ASSUME UNCHANGED <<record, service, crashes>>, Owed' = Owed PROVE FaultsInv'
  BY <1>3, <1>6, DoubtfulQuiet DEF service
<1>7. ASSUME NEW w \in Workers, NEW c \in Chats, Deliver(w, c) PROVE FaultsInv'
  BY <1>3, <1>7, DoubtfulDeliver DEF Deliver, service
<1>8. ASSUME NEW w \in Workers, Meter(w) PROVE FaultsInv'
  BY <1>3, <1>8, DoubtfulMeter DEF Meter, service
<1>9. ASSUME NEW w \in Workers, Enqueue(w) PROVE FaultsInv'
  BY <1>3, <1>9, DoubtfulEnqueue DEF Enqueue, service
<1>10. ASSUME outbox' = outbox PROVE Owed' = Owed
  BY <1>10 DEF Owed, Ids
<1>11. ASSUME NEW d \in Drains, StartPass(d) PROVE FaultsInv'
  BY <1>6, <1>10, <1>11 DEF StartPass
<1>12. ASSUME NEW d \in Drains, NEW answer \in Answers, Asks(d, answer) PROVE FaultsInv'
  BY <1>6, <1>10, <1>12 DEF Asks
<1>13. ASSUME NEW d \in Drains, NEW sent \in BOOLEAN, NEW error \in Errors \cup {NULL},
              Settles(d, sent, error)
       PROVE  FaultsInv'
  <2>1. DOMAIN outbox' = DOMAIN outbox /\ \A q \in DOMAIN outbox : outbox'[q].id = outbox[q].id
    BY <1>13 DEF Settles, OneRow
  <2>2. Owed' = Owed
    BY <2>1 DEF Owed, Ids
  <2>. QED BY <1>6, <1>13, <2>2 DEF Settles, Bookkeeping
<1>14. ASSUME NEW c \in Chats, NEW k \in Keys, Link(c, k) PROVE FaultsInv'
  BY <1>5, <1>14 DEF Link
<1>15. ASSUME NEW c \in Chats, Unlink(c) PROVE FaultsInv'
  BY <1>5, <1>15 DEF Unlink
<1>16. ASSUME NEW k \in Keys, Revoke(k) PROVE FaultsInv'
  <2>1. Doubtful' = Doubtful
    BY <1>10, <1>16, DoubtfulQuiet DEF Revoke
  <2>. QED BY <1>3, <1>16, <2>1 DEF Revoke
<1>17. CASE Crash
  <2>1. crashes' = crashes + 1 /\ UNCHANGED <<link, links, fired, free, outbox>>
    BY <1>17, Died DEF service
  <2>2. ASSUME NEW w \in Workers, rec[w] # IdleRec, rec'[w] = IdleRec,
               \A v \in Workers : v # w => rec'[v] = rec[v]
        PROVE  FaultsInv'
    BY <1>4, <2>1, <2>2, DoubtfulDied
  <2>3. ASSUME rec' = rec PROVE FaultsInv'
    <3>1. Doubtful' = Doubtful
      BY <1>10, <2>1, <2>3, DoubtfulQuiet DEF record
    <3>. QED BY <1>4, <2>1, <3>1
  <2>. QED BY <1>17, <2>2, <2>3, Died
<1>18. CASE UNCHANGED vars
  BY <1>6, <1>10, <1>18 DEF vars
<1>. QED
  BY <1>7, <1>8, <1>9, <1>11, <1>12, <1>13, <1>14, <1>15, <1>16, <1>17, <1>18, StepIsOneOf

LEMMA FaultsInit == Init => FaultsInv
<1> SUFFICES ASSUME Init PROVE FaultsInv
  OBVIOUS
<1>1. Doubtful = {} /\ crashes = 0 /\ links = 0
  BY DEF Init, Doubtful
<1>2. Cardinality(Workers) \in Nat
  BY FS_CardinalityType
<1>. QED BY <1>1, <1>2, FS_EmptySet DEF FaultsInv

(* A delivery is on one meter, the free one or the plan's, however many    *)
(* are recorded at once: each crash costs one at the most, and each change *)
(* of a link those that were being recorded (record_call_delivered).       *)
THEOREM OneMeterBut == Spec => []OneMeterBarringFaults
<1>1. ASSUME Sound, FaultsInv PROVE OneMeterBarringFaults
  <2> DEFINE faulty == {i \in Recorded : (i \in free) = (i \in Owed)}
  <2>1. IsFiniteSet(Doubtful) /\ Cardinality(Doubtful) \in Nat
          /\ Cardinality(Workers) \in Nat /\ crashes \in Nat /\ links \in Nat
    BY <1>1, DoubtfulType
  <2>2. faulty \subseteq Doubtful
    BY RecordedMembers DEF Queued
  <2>3. Cardinality(faulty) <= Cardinality(Doubtful) /\ Cardinality(faulty) \in Nat
    BY <2>1, <2>2, FS_Subset, FS_CardinalityType
  <2>4. links * Cardinality(Workers) \in Nat
    BY <2>1, OnceMore
  <2>. QED BY <1>1, <2>1, <2>3, <2>4 DEF FaultsInv, OneMeterBarringFaults
<1>2. Sound /\ FaultsInv /\ [Next]_vars => FaultsInv'
  BY FaultsNext
<1>. QED BY <1>1, <1>2, FaultsInit, SpecSound, PTL DEF Spec

---------------------------------------------------------------------------
(* Charges to a key the chat has left.                                     *)

(* The rows of its batch that a pass is still to ask for, counted from the *)
(* end, so that a row keeps its number until its turn comes.               *)
Left(d) == IF pass[d].answer = NULL THEN Len(pass[d].batch) ELSE Len(pass[d].batch) - 1
FromEnd(d, n) == pass[d].batch[Len(pass[d].batch) + 1 - n]

(* A row whose chat has another key by now, or none. *)
Stale(item) == item.key # link[fired[outbox[item.place].id]]

Slots  == Drains \X (1..BatchLimit)
Astray == {u \in Slots : u[2] <= Left(u[1]) /\ Stale(FromEnd(u[1], u[2]))}

StrayInv ==
  Cardinality(stray) + Cardinality(Astray) <= links * (Cardinality(Drains) * BatchLimit)

LEMMA AstrayMembers ==
  /\ \A d \in Drains, n \in 1..BatchLimit :
       <<d, n>> \in Astray <=> n <= Left(d) /\ Stale(FromEnd(d, n))
  /\ Astray \subseteq Slots
BY DEF Astray, Slots

LEMMA SlotsType ==
  ASSUME TypeOK
  PROVE  /\ IsFiniteSet(Slots) /\ Cardinality(Slots) = Cardinality(Drains) * BatchLimit
         /\ Cardinality(Slots) \in Nat
         /\ IsFiniteSet(Astray) /\ Cardinality(Astray) \in Nat
         /\ Cardinality(Astray) <= Cardinality(Slots)
         /\ IsFiniteSet(stray) /\ Cardinality(stray) \in Nat
         /\ links \in Nat
<1>1. IsFiniteSet(1..BatchLimit) /\ Cardinality(1..BatchLimit) = BatchLimit
  <2>1. BatchLimit \in Nat \ {0} /\ 1 \in Int /\ BatchLimit \in Int
    OBVIOUS
  <2>2. /\ IsFiniteSet(1..BatchLimit)
        /\ Cardinality(1..BatchLimit) = IF 1 > BatchLimit THEN 0 ELSE BatchLimit - 1 + 1
    BY <2>1, FS_Interval
  <2>. QED BY <2>1, <2>2
<1>2. IsFiniteSet(Slots) /\ Cardinality(Slots) = Cardinality(Drains) * BatchLimit
        /\ Cardinality(Slots) \in Nat
  BY <1>1, FS_Product, FS_CardinalityType DEF Slots
<1>3. IsFiniteSet(Astray) /\ Cardinality(Astray) \in Nat
        /\ Cardinality(Astray) <= Cardinality(Slots)
  BY <1>2, AstrayMembers, FS_Subset, FS_CardinalityType
<1>4. IsFiniteSet(Deliveries) /\ stray \subseteq Deliveries /\ links \in 0..MaxLinks
  BY FS_Interval DEF Deliveries, TypeOK
<1>5. IsFiniteSet(stray) /\ Cardinality(stray) \in Nat
  BY <1>4, FS_Subset, FS_CardinalityType
<1>. QED BY <1>2, <1>3, <1>4, <1>5

(* The rows left are rows of the batch. *)
LEMMA LeftType ==
  ASSUME Sound, NEW d \in Drains
  PROVE  /\ Len(pass[d].batch) \in Nat /\ Left(d) \in Int /\ Left(d) <= Len(pass[d].batch)
         /\ \A n \in 1..BatchLimit : n <= Left(d) =>
              /\ Len(pass[d].batch) + 1 - n \in 1..Len(pass[d].batch)
              /\ FromEnd(d, n).place \in DOMAIN outbox
              /\ outbox[FromEnd(d, n).place].id \in DOMAIN fired
<1>1. pass[d].batch \in Seq(Item)
  BY DEF Sound, TypeOK
<1>2. Len(pass[d].batch) \in Nat
  BY <1>1, LenProperties
<1>3. Left(d) \in Int /\ Left(d) <= Len(pass[d].batch)
  BY <1>2 DEF Left
<1>4. ASSUME NEW n \in 1..BatchLimit, n <= Left(d)
      PROVE  /\ Len(pass[d].batch) + 1 - n \in 1..Len(pass[d].batch)
             /\ FromEnd(d, n).place \in DOMAIN outbox
             /\ outbox[FromEnd(d, n).place].id \in DOMAIN fired
  <2>1. Len(pass[d].batch) + 1 - n \in 1..Len(pass[d].batch)
    BY <1>2, <1>3, <1>4
  <2>2. FromEnd(d, n).place \in DOMAIN outbox
    BY <2>1 DEF FromEnd, Sound, Reading
  <2>. QED BY <2>1, <2>2 DEF Sound, Recording
<1>. QED BY <1>2, <1>3, <1>4

(* While no link changes no row becomes stale: a batch is read with the    *)
(* keys of the moment, and rows are only done with.                        *)
LEMMA AstrayShrinks ==
  ASSUME Sound, [Next]_vars, link' = link,
         \A d \in Drains :
           \/ pass'[d].batch = <<>>
           \/ pass'[d].batch = Batch
           \/ /\ Left(d)' <= Left(d)
              /\ \A n \in 1..BatchLimit : n <= Left(d)' => FromEnd(d, n)' = FromEnd(d, n)
  PROVE  Astray' \subseteq Astray
<1>1. ASSUME NEW d \in Drains, NEW n \in 1..BatchLimit, <<d, n>> \in Astray'
      PROVE  <<d, n>> \in Astray
  <2>0. pass'[d].batch \in Seq(Item)
    BY SoundNext DEF Sound, TypeOK
  <2>1. n <= Left(d)' /\ Stale(FromEnd(d, n))'
    BY <1>1 DEF Astray
  <2>2. Len(pass'[d].batch) \in Nat /\ Left(d)' <= Len(pass'[d].batch)
          /\ Left(d)' \in Int /\ Len(pass'[d].batch) + 1 - n \in 1..Len(pass'[d].batch)
    <3>1. Len(pass'[d].batch) \in Nat
      BY <2>0, LenProperties
    <3>2. Left(d)' = Len(pass'[d].batch) \/ Left(d)' = Len(pass'[d].batch) - 1
      BY DEF Left
    <3>3. Left(d)' \in Int /\ Left(d)' <= Len(pass'[d].batch)
      BY <3>1, <3>2
    <3>4. n \in Nat \ {0} /\ n <= Len(pass'[d].batch)
      BY <2>1, <3>1, <3>3
    <3>. QED BY <3>1, <3>3, <3>4
  <2>3. /\ \A j \in DOMAIN fired : fired'[j] = fired[j]
        /\ \A p \in DOMAIN outbox : outbox'[p].id = outbox[p].id
    BY NamesKept
  <2>4. pass'[d].batch # <<>>
    BY <2>2
  <2>5. CASE pass'[d].batch = Batch
    <3> DEFINE m == Len(Batch) + 1 - n
    <3>1. m \in 1..Len(Batch) /\ FromEnd(d, n)' = Batch[m]
      BY <2>2, <2>5 DEF FromEnd
    <3>2. Batch[m].place \in Pending
            /\ Batch[m].key = link[fired[outbox[Batch[m].place].id]]
      BY <3>1, BatchRead DEF Sound
    <3>3. Batch[m].place \in DOMAIN outbox /\ outbox[Batch[m].place].id \in DOMAIN fired
      BY <3>2 DEF Pending, Sound, Recording
    <3> HIDE DEF m
    <3>4. ~Stale(FromEnd(d, n))'
      BY <2>3, <3>1, <3>2, <3>3 DEF Stale
    <3>. QED BY <2>1, <3>4
  <2>6. CASE /\ Left(d)' <= Left(d)
             /\ FromEnd(d, n)' = FromEnd(d, n)
    <3>2. n <= Left(d)
      BY <2>1, <2>2, <2>6, LeftType
    <3>3. FromEnd(d, n).place \in DOMAIN outbox
            /\ outbox[FromEnd(d, n).place].id \in DOMAIN fired
      BY <3>2, LeftType
    <3>4. Stale(FromEnd(d, n))
      BY <2>1, <2>3, <2>6, <3>3 DEF Stale
    <3>. QED BY <3>2, <3>4, AstrayMembers
  <2>. QED BY <2>1, <2>4, <2>5, <2>6
<1>2. Astray' \subseteq Slots
  BY DEF Astray, Slots
<1>. QED BY <1>1, <1>2 DEF Slots

(* A charge that goes astray is one of the rows that were stale. *)
LEMMA StrayAsks ==
  ASSUME Sound, StrayInv, [Next]_vars, NEW d \in Drains, NEW answer \in Answers, Asks(d, answer)
  PROVE  StrayInv'
<1> DEFINE n == Len(pass[d].batch)
           i == Subject(d)
<1>1. /\ pass[d].batch # <<>> /\ pass[d].answer = NULL
      /\ \A e \in Drains : e # d => pass'[e] = pass[e]
      /\ pass'[d].batch = pass[d].batch /\ pass'[d].answer = answer
      /\ UNCHANGED <<link, links, fired, outbox>>
      /\ Answered(i, Current(d).key, answer)
  BY DEF Asks, service, record
<1>2. TypeOK /\ Reading /\ TypeOK'
  BY SoundNext DEF Sound
<1>3. n \in 1..BatchLimit /\ Current(d) = FromEnd(d, n)
  BY <1>1, <1>2, CurrentType DEF Reading, FromEnd
<1>4. answer # NULL
  OBVIOUS
<1>5. Left(d) = n /\ Left(d)' = n - 1
  BY <1>1, <1>4 DEF Left
<1>6. Astray' \subseteq Astray
  <2>1. \A e \in Drains : e # d => Left(e)' = Left(e) /\ \A m : FromEnd(e, m)' = FromEnd(e, m)
    BY <1>1 DEF Left, FromEnd
  <2>2. Left(d)' <= Left(d) /\ \A m : FromEnd(d, m)' = FromEnd(d, m)
    BY <1>1, <1>3, <1>5 DEF FromEnd
  <2>3. \A e \in Drains : Left(e) \in Int
    BY LeftType
  <2>4. \A e \in Drains : Left(e)' <= Left(e) /\ \A m : FromEnd(e, m)' = FromEnd(e, m)
    BY <2>1, <2>2, <2>3
  <2>. QED BY <1>1, <2>4, AstrayShrinks
<1>7. <<d, n>> \notin Astray'
  <2>1. ~(n <= Left(d)')
    BY <1>3, <1>5
  <2>. QED BY <1>3, <2>1 DEF Astray
<1>8. link[fired[i]] # Current(d).key => <<d, n>> \in Astray
  <2>1. link[fired[i]] # Current(d).key => Stale(FromEnd(d, n))
    BY <1>3 DEF Stale, Subject
  <2>2. n <= Left(d)
    BY <1>3, <1>5
  <2>. QED BY <1>3, <2>1, <2>2, AstrayMembers
<1> HIDE DEF n, i
<1>9. /\ IsFiniteSet(Astray) /\ Cardinality(Astray) \in Nat
      /\ IsFiniteSet(stray) /\ Cardinality(stray) \in Nat
      /\ Cardinality(Slots) \in Nat /\ Cardinality(Slots) = Cardinality(Drains) * BatchLimit
      /\ links \in Nat
  BY <1>2, SlotsType
<1>10. Cardinality(stray) + Cardinality(Astray) <= links * Cardinality(Slots)
         /\ links * Cardinality(Slots) \in Nat
  BY <1>9, OnceMore DEF StrayInv
<1>11. Cardinality(Astray') <= Cardinality(Astray) /\ Cardinality(Astray') \in Nat
  BY <1>6, <1>9, FS_Subset, FS_CardinalityType
<1>12. CASE stray' = stray
  BY <1>1, <1>9, <1>10, <1>11, <1>12 DEF StrayInv
<1>13. CASE stray' = stray \cup {i} /\ link[fired[i]] # Current(d).key
  <2>1. Cardinality(stray') <= Cardinality(stray) + 1 /\ Cardinality(stray') \in Nat
    <3>1. Cardinality(stray')
            = IF i \in stray THEN Cardinality(stray) ELSE Cardinality(stray) + 1
      BY <1>9, <1>13, FS_AddElement
    <3>. QED BY <1>9, <3>1
  <2>2. <<d, n>> \in Astray
    BY <1>8, <1>13
  <2>3. /\ IsFiniteSet(Astray \ {<<d, n>>})
        /\ Cardinality(Astray \ {<<d, n>>}) = Cardinality(Astray) - 1
    BY <1>9, <2>2, FS_RemoveElement
  <2>4. Cardinality(Astray') <= Cardinality(Astray) - 1
    BY <1>6, <1>7, <2>3, FS_Subset
  <2>. QED BY <1>1, <1>9, <1>10, <1>11, <2>1, <2>4 DEF StrayInv
<1>14. stray' = stray \/ (stray' = stray \cup {i} /\ link[fired[i]] # Current(d).key)
  BY <1>1 DEF Answered, server
<1>. QED BY <1>12, <1>13, <1>14

(* Each change of a link may make stale every row that is being drained.   *)
LEMMA StrayNext ==
  ASSUME Sound, StrayInv, [Next]_vars
  PROVE  StrayInv'
<1>1. TypeOK /\ TypeOK'
  BY SoundNext DEF Sound
<1>2. /\ IsFiniteSet(Astray) /\ Cardinality(Astray) \in Nat
      /\ Cardinality(stray) \in Nat
      /\ Cardinality(Slots) \in Nat /\ Cardinality(Slots) = Cardinality(Drains) * BatchLimit
      /\ links \in Nat
  BY <1>1, SlotsType
<1>3. Cardinality(stray) + Cardinality(Astray) <= links * Cardinality(Slots)
  BY <1>2 DEF StrayInv
<1>4. Cardinality(Astray') <= Cardinality(Slots) /\ Cardinality(Astray') \in Nat
  <2>1. IsFiniteSet(Slots) /\ Astray' \in SUBSET Slots
    BY <1>1, SlotsType DEF Astray, Slots
  <2>. QED BY <2>1, FS_Subset, FS_CardinalityType
<1>5. (links + 1) * Cardinality(Slots) = links * Cardinality(Slots) + Cardinality(Slots)
        /\ links * Cardinality(Slots) \in Nat
  BY <1>2, OnceMore
<1>6. ASSUME stray' = stray, links' = links + 1 PROVE StrayInv'
  <2>1. Cardinality(stray) + Cardinality(Astray')
          <= links * Cardinality(Slots) + Cardinality(Slots)
    BY <1>2, <1>3, <1>4, <1>5
  <2>2. links' * Cardinality(Slots) = links * Cardinality(Slots) + Cardinality(Slots)
    BY <1>5, <1>6
  <2>. QED BY <1>2, <1>6, <2>1, <2>2 DEF StrayInv
<1>7. ASSUME stray' = stray, links' = links, link' = link,
             \A d \in Drains :
               \/ pass'[d].batch = <<>>
               \/ pass'[d].batch = Batch
               \/ /\ Left(d)' <= Left(d)
                  /\ \A n \in 1..BatchLimit : n <= Left(d)' => FromEnd(d, n)' = FromEnd(d, n)
      PROVE  StrayInv'
  <2>1. Cardinality(Astray') <= Cardinality(Astray)
    BY <1>2, <1>7, AstrayShrinks, FS_Subset
  <2>. QED BY <1>2, <1>3, <1>4, <1>5, <1>7, <2>1 DEF StrayInv
<1>8. ASSUME NEW d \in Drains, pass'[d] = pass[d]
      PROVE  Left(d)' <= Left(d) /\ \A n : FromEnd(d, n)' = FromEnd(d, n)
  <2>1. Left(d)' = Left(d) /\ Left(d) \in Int
    BY <1>8, LeftType DEF Left
  <2>. QED BY <1>8, <2>1 DEF FromEnd
<1>9. ASSUME UNCHANGED <<service, server, pass>> PROVE StrayInv'
  BY <1>7, <1>8, <1>9 DEF service, server
<1>10. ASSUME NEW w \in Workers, NEW c \in Chats, Deliver(w, c) PROVE StrayInv'
  BY <1>9, <1>10 DEF Deliver
<1>11. ASSUME NEW w \in Workers, Meter(w) PROVE StrayInv'
  BY <1>9, <1>11 DEF Meter
<1>12. ASSUME NEW w \in Workers, Enqueue(w) PROVE StrayInv'
  BY <1>9, <1>12 DEF Enqueue
<1>13. ASSUME NEW d \in Drains, StartPass(d) PROVE StrayInv'
  <2>1. /\ \A e \in Drains : e # d => pass'[e] = pass[e]
        /\ pass'[d].batch = Batch
        /\ UNCHANGED <<link, links, stray>>
    BY <1>13, Started DEF Sound, service, server
  <2>. QED BY <1>7, <1>8, <2>1
<1>14. ASSUME NEW d \in Drains, NEW sent \in BOOLEAN, NEW error \in Errors \cup {NULL},
              Settles(d, sent, error)
       PROVE  StrayInv'
  <2>1. /\ pass[d].batch # <<>>
        /\ \A e \in Drains : e # d => pass'[e] = pass[e]
        /\ pass'[d].answer = NULL
        /\ Len(pass[d].batch) \in Nat \ {0}
        /\ Len(pass'[d].batch) = Len(pass[d].batch) - 1
        /\ \A n \in 1..Len(pass'[d].batch) : pass'[d].batch[n] = pass[d].batch[n + 1]
        /\ UNCHANGED <<link, links, stray>>
    BY <1>14 DEF Settles, NextRow, Bookkeeping, service, server
  <2>2. Left(d)' <= Left(d)
    BY <2>1 DEF Left
  <2>3. ASSUME NEW n \in 1..BatchLimit, n <= Left(d)' PROVE FromEnd(d, n)' = FromEnd(d, n)
    <3> DEFINE m == Len(pass'[d].batch) + 1 - n
    <3>1. Left(d)' = Len(pass'[d].batch)
      BY <2>1 DEF Left
    <3>a. /\ Len(pass'[d].batch) \in Nat /\ n \in Nat \ {0} /\ n <= Len(pass'[d].batch)
          /\ Len(pass[d].batch) \in Nat /\ Len(pass[d].batch) = Len(pass'[d].batch) + 1
      BY <2>1, <2>3, <3>1
    <3>2. m \in 1..Len(pass'[d].batch) /\ m + 1 = Len(pass[d].batch) + 1 - n
      BY <3>a
    <3>3. pass'[d].batch[m] = pass[d].batch[m + 1]
      BY <2>1, <3>2
    <3>. QED BY <3>2, <3>3 DEF FromEnd
  <2>. QED BY <1>7, <1>8, <2>1, <2>2, <2>3
<1>15. ASSUME NEW c \in Chats, NEW k \in Keys, Link(c, k) PROVE StrayInv'
  BY <1>6, <1>15 DEF Link, server
<1>16. ASSUME NEW c \in Chats, Unlink(c) PROVE StrayInv'
  BY <1>6, <1>16 DEF Unlink, server
<1>17. ASSUME NEW k \in Keys, Revoke(k) PROVE StrayInv'
  BY <1>7, <1>8, <1>17 DEF Revoke, server
<1>18. CASE Crash
  <2>1. UNCHANGED <<link, links, stray>>
    BY <1>18, Died DEF service, server
  <2>2. \A d \in Drains : pass'[d] = pass[d] \/ pass'[d] = IdlePass
    BY <1>18, Died
  <2>3. IdlePass.batch = <<>>
    BY DEF IdlePass
  <2>. QED BY <1>7, <1>8, <2>1, <2>2, <2>3
<1>19. CASE UNCHANGED vars
  BY <1>9, <1>19 DEF vars
<1>. QED
  BY <1>10, <1>11, <1>12, <1>13, <1>14, <1>15, <1>16, <1>17, <1>18, <1>19, StepIsOneOf,
     StrayAsks

LEMMA StrayInit == Init => StrayInv
<1> SUFFICES ASSUME Init PROVE StrayInv
  OBVIOUS
<1>1. /\ stray = {} /\ links = 0
      /\ \A d \in Drains : pass[d].batch = <<>> /\ pass[d].answer = NULL
  BY DEF Init, IdlePass
<1>2. \A d \in Drains : Left(d) = 0
  BY <1>1 DEF Left
<1>3. Astray = {}
  BY <1>2 DEF Astray, Slots
<1>4. Cardinality(Drains) * BatchLimit \in Nat
  BY FS_CardinalityType, OnceMore
<1>. QED BY <1>1, <1>3, <1>4, FS_EmptySet DEF StrayInv

(* However many passes overlap, a change of a link misplaces no more       *)
(* charges than the batches that are being drained hold                    *)
(* (pending_entitlement_debits, drain_entitlement_debits).                 *)
THEOREM StrayChargesBounded == Spec => []StrayBounded
<1>1. ASSUME Sound, StrayInv PROVE StrayBounded
  <2>1. /\ Cardinality(stray) \in Nat /\ Cardinality(Astray) \in Nat /\ links \in Nat
        /\ Cardinality(stray) + Cardinality(Astray)
             <= links * (Cardinality(Drains) * BatchLimit)
    BY <1>1, SlotsType DEF Sound, StrayInv
  <2>2. Cardinality(Drains) \in Nat
    BY FS_CardinalityType
  <2>3. links * (Cardinality(Drains) * BatchLimit) = links * BatchLimit * Cardinality(Drains)
          /\ links * BatchLimit * Cardinality(Drains) \in Nat
    BY <2>1, <2>2
  <2>. QED BY <2>1, <2>3 DEF StrayBounded
<1>2. Sound /\ StrayInv /\ [Next]_vars => StrayInv'
  BY StrayNext
<1>. QED BY <1>1, <1>2, StrayInit, SpecSound, PTL DEF Spec
=============================================================================
