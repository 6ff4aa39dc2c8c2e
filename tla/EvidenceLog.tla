----------------------------- MODULE EvidenceLog -----------------------------
(***************************************************************************)
(* What an evidence store that supports temporal admission promises        *)
(* (IEECStore): one log, to which a transaction adds all of its events or  *)
(* none, with every decision the transaction took still true of the log it *)
(* is added to.  The stores of src/core/event are shown to implement it.   *)
(***************************************************************************)
EXTENDS ExecutionTrace, Sequences

CONSTANTS Tx,       \* transactions
          Intent,   \* proposal identifiers
          Plan,     \* Plan[t]: what t appends, <<[intent, status, at], ...>>
          Window,   \* of the one RATE_LIMIT rule the transactions decide by
          Limit

(* projectTrace of the last event of i that has one ("none": it has none). *)
LastTrace(rows, i) ==
  LET traced == {j \in DOMAIN rows : rows[j].intent = i /\ rows[j].status # "none"}
  IN IF traced = {} THEN NoTrace
     ELSE LET j == CHOOSE j \in traced : \A k \in traced : k <= j
          IN [status |-> rows[j].status, at |-> rows[j].at]

(* queryTrace at "now" (matchesQuery): a record from a clock that is ahead *)
(* of the decision's is not counted.                                       *)
Spent(rows, now) ==
  {i \in Intent : LET last == LastTrace(rows, i)
                 IN last.at <= now /\ Counts(last, now, Window)}

(* finalizeEvent: numbered after the intent's last event. *)
Finalized(rows, t, input) ==
  [tx |-> t, intent |-> input.intent, status |-> input.status, at |-> input.at,
   seq |-> 1 + Cardinality({j \in DOMAIN rows : rows[j].intent = input.intent})]

(* An append is refused by assertTraceTransition, a reservation also by    *)
(* the rate limit that the same transaction evaluates before it.           *)
Legal(rows, input) ==
  /\ LET last == LastTrace(rows, input.intent)
     IN input.status = "none" \/ Follows(last, input.status, input.at)
  /\ input.status = "RESERVED" =>
       Cardinality(Spent(rows, input.at) \ {input.intent}) + 1 <= Limit

(* What t added to a log, event by event: each was allowed by all that the *)
(* log held by then, and numbered after it.                                *)
InTurn(before, added, t) ==
  \A k \in DOMAIN added :
    LET seen == before \o SubSeq(added, 1, k - 1)
    IN /\ Legal(seen, Plan[t][k])
       /\ added[k] = Finalized(seen, t, Plan[t][k])

-----------------------------------------------------------------------------
VARIABLE log

Init == log = <<>>

Commit(t) ==
  LET added == SubSeq(log', Len(log) + 1, Len(log'))
  IN /\ \A j \in DOMAIN log : log[j].tx # t
     /\ log' = log \o added
     /\ Len(added) = Len(Plan[t])
     /\ InTurn(log, added, t)

Next == \E t \in Tx : Commit(t)
Spec == Init /\ [][Next]_log
=============================================================================
