--------------------------- MODULE FetchSchedule ---------------------------
(***************************************************************************)
(* The loop of fetch_budget.schedule, one row taken per step: a queue for  *)
(* each subscriber with an eligible row, visited in turn until the budget  *)
(* is filled or a whole round takes nothing.                               *)
(***************************************************************************)
EXTENDS FetchBudget, SequencesExt

VARIABLES
  eligible,   \* the due rows that were not skipped
  order,      \* subscribers in the order of their first row
  queues,     \* queues[c]: what is left of the rows of c
  scheduled,  \* rows taken, in order
  turn,       \* index into order, of the subscriber whose turn it is
  progressed, \* whether this round has taken a row
  done        \* the loop has ended

loopVars == <<eligible, order, queues, scheduled, turn, progressed, done>>

(* A set in order: the i-th of it is what i - 1 others come before. *)
InOrder(S, Before(_, _)) ==
  [i \in 1..Cardinality(S) |-> CHOOSE x \in S : Cardinality({y \in S : Before(y, x)}) = i - 1]

RowsOf(rows, c) == {r \in rows : Owner[r] = c}
Owners(rows)    == {Owner[r] : r \in rows}

QueueInScanOrder(rows, c) == InOrder(RowsOf(rows, c), LAMBDA q, r : Position[q] < Position[r])
Queue(rows, c) == InOrder(RowsOf(rows, c), Ahead)
Order(rows)    == InOrder(Owners(rows), LAMBDA c, d : TurnBefore(rows, c, d))

(* Between two ticks. *)
LoopInit ==
  /\ eligible = {} /\ order = <<>>
  /\ queues = [c \in Chats |-> <<>>]
  /\ scheduled = <<>>
  /\ turn = 1 /\ progressed = FALSE
  /\ done = TRUE

Begin(rows) ==
  /\ eligible' = rows
  /\ order' = Order(rows)
  /\ queues' = [c \in Chats |-> Queue(rows, c)]
  /\ scheduled' = <<>>
  /\ turn' = 1 /\ progressed' = FALSE
  /\ done' = FALSE

Forget ==
  /\ eligible' = {} /\ order' = <<>>
  /\ queues' = [c \in Chats |-> <<>>]
  /\ scheduled' = <<>>
  /\ turn' = 1 /\ progressed' = FALSE
  /\ UNCHANGED done

InRound == ~done /\ turn <= Len(order)

(* q.pop(0): the subscriber whose turn it is gives its first row. *)
Take ==
  LET c == order[turn]
  IN  /\ InRound
      /\ queues[c] # <<>>
      /\ scheduled' = Append(scheduled, Head(queues[c]))
      /\ queues' = [queues EXCEPT ![c] = Tail(@)]
      /\ progressed' = TRUE
      /\ turn' = turn + 1
      /\ done' = (Len(scheduled) + 1 >= Budget)
      /\ UNCHANGED <<eligible, order>>

(* A subscriber with nothing left is passed over. *)
Pass ==
  /\ InRound
  /\ queues[order[turn]] = <<>>
  /\ turn' = turn + 1
  /\ UNCHANGED <<eligible, order, queues, scheduled, progressed, done>>

(* The end of a round: another one, unless it took nothing. *)
EndRound ==
  /\ ~done
  /\ turn > Len(order)
  /\ IF progressed
       THEN turn' = 1 /\ progressed' = FALSE /\ done' = FALSE
       ELSE done' = TRUE /\ UNCHANGED <<turn, progressed>>
  /\ UNCHANGED <<eligible, order, queues, scheduled>>

LoopNext == Take \/ Pass \/ EndRound

---------------------------------------------------------------------------
(* Properties *)

LoopTypeOK ==
  /\ eligible \subseteq Watches
  /\ order \in Seq(Chats)
  /\ queues \in [Chats -> Seq(Watches)]
  /\ scheduled \in Seq(Watches)
  /\ turn \in 1..(Len(order) + 1)
  /\ progressed \in BOOLEAN
  /\ done \in BOOLEAN

(* The loop returns exactly the rows of the closed form: those of the first *)
(* rounds, in each of which every subscriber with rows left has one turn,  *)
(* and of its last round those whose turn comes first, up to the budget    *)
(* and no further (schedule).                                              *)
SelectsScheduled == done => ToSet(scheduled) = Scheduled(eligible)
=============================================================================
