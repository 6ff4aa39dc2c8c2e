---------------------------- MODULE SqlEventStore ----------------------------
(***************************************************************************)
(* SQLiteIEECStore and PostgresIEECStore (src/core/event/SqlEventStore.ts):*)
(* transactions and plain reads of several processes over one database.    *)
(* SQLite: one connection per process behind a FIFO mutex, BEGIN IMMEDIATE *)
(* between processes.  Postgres: one connection per transaction, ordered   *)
(* by an advisory lock; plain reads see the committed rows.                *)
(***************************************************************************)
EXTENDS ExecutionTrace, Sequences

CONSTANTS Tx, Intent, Plan, Window, Limit,  \* as in EvidenceLog
          Reader,       \* plain reads (getEventsByIntent, getTrace, ...)
          ProcOf,       \* the process of each transaction and read
          None          \* no transaction holds the write lock

Input == [intent: Intent, status: TraceStatus, at: Nat]
ASSUME CallsAreApart == Tx \cap Reader = {} /\ None \notin Tx
ASSUME PlansAreInputs == Plan \in [Tx -> Seq(Input)]

Actor == Tx \cup Reader
Proc == {ProcOf[a] : a \in Actor}
Ended == {"ok", "failed", "crashed"}

VARIABLES dialect,   \* which of the two stores this is: "sqlite" or "postgres"
          rows,      \* committed rows of okg_events, in commit order
          lock,      \* transaction that holds the database's write lock
          dirty,     \* rows a transaction inserted and has not committed
          decided,   \* what its current append has read and decided
          queue,     \* SQLite: the process's AsyncMutex, its holder first
          pc, answer
vars == <<dialect, rows, lock, dirty, decided, queue, pc, answer>>

Log == INSTANCE EvidenceLog WITH log <- rows

Undecided == [legal |-> FALSE, event |-> None]

Init == /\ dialect \in {"sqlite", "postgres"}
        /\ rows = <<>> /\ lock = None
        /\ dirty = [t \in Tx |-> <<>>]
        /\ decided = [t \in Tx |-> Undecided]
        /\ queue = [p \in Proc |-> <<>>]
        /\ pc = [a \in Actor |-> "idle"]
        /\ answer = [r \in Reader |-> <<>>]

(* The rows a statement of a sees: those of its own connection's open      *)
(* transaction too, and SQLite's connection belongs to the whole process.  *)
Shares(a, t) == a = t \/ (dialect = "sqlite" /\ ProcOf[a] = ProcOf[t])
OpenTx == {t \in Tx : pc[t] \in {"work", "insert"}}
Visible(a) ==
  LET own == {t \in OpenTx : Shares(a, t) /\ dirty[t] # <<>>}
  IN IF own = {} THEN rows ELSE rows \o dirty[CHOOSE t \in own : TRUE]

(* Mutant: a read of SQLite's connection that does not take the mutex. *)
WaitsForNothing(a) == pc[a] = "waiting"
Holds(a) == queue[ProcOf[a]] # <<>> /\ Head(queue[ProcOf[a]]) = a
Waits(a) == pc[a] = "waiting" /\ (dialect = "sqlite" => Holds(a))

(* release(): the next call in the queue goes on. *)
Leave(a) == queue' = IF dialect = "sqlite" THEN [queue EXCEPT ![ProcOf[a]] = Tail(@)]
                     ELSE queue

(* transaction() or a plain read is called. *)
Arrive(a) ==
  /\ pc[a] = "idle"
  /\ pc' = [pc EXCEPT ![a] = "waiting"]
  /\ queue' = IF dialect = "sqlite" THEN [queue EXCEPT ![ProcOf[a]] = Append(@, a)]
              ELSE queue
  /\ UNCHANGED <<dialect, rows, lock, dirty, decided, answer>>

(* Mutant: the lock is not waited for. *)
FreeAlways == TRUE
Free == lock = None

(* BEGIN IMMEDIATE succeeds; BEGIN and pg_advisory_xact_lock succeed. *)
Begin(t) ==
  /\ Waits(t) /\ Free
  /\ lock' = t
  /\ pc' = [pc EXCEPT ![t] = "work"]
  /\ UNCHANGED <<dialect, rows, dirty, decided, queue, answer>>

(* SQLITE_BUSY for lockTimeoutMs; lock_timeout in Postgres. *)
LockTimesOut(t) ==
  /\ Waits(t) /\ lock # None
  /\ pc' = [pc EXCEPT ![t] = "failed"]
  /\ Leave(t)
  /\ UNCHANGED <<dialect, rows, lock, dirty, decided, answer>>

(* Mutant: the work reads the store itself, behind the mutex it holds. *)
DecideThroughStore(t) ==
  LET input == Plan[t][Len(dirty[t]) + 1]
  IN /\ pc[t] = "work" /\ Len(dirty[t]) < Len(Plan[t])
     /\ queue[ProcOf[t]] = <<>>
     /\ decided' = [decided EXCEPT ![t] = [legal |-> Log!Legal(rows, input),
                                           event |-> Log!Finalized(rows, t, input)]]
     /\ pc' = [pc EXCEPT ![t] = "insert"]
     /\ UNCHANGED <<dialect, rows, lock, dirty, queue, answer>>

(* The work's queries and the append's SELECTs: what is decided here is    *)
(* acted on by the INSERT, after an await.                                 *)
Decide(t) ==
  LET input == Plan[t][Len(dirty[t]) + 1]
  IN /\ pc[t] = "work" /\ Len(dirty[t]) < Len(Plan[t])
     /\ decided' = [decided EXCEPT ![t] =
          [legal |-> Log!Legal(Visible(t), input),
           event |-> Log!Finalized(Visible(t), t, input)]]
     /\ pc' = [pc EXCEPT ![t] = "insert"]
     /\ UNCHANGED <<dialect, rows, lock, dirty, queue, answer>>

Taken(e) == \E j \in DOMAIN rows : rows[j].intent = e.intent /\ rows[j].seq = e.seq
CanInsert(t) == decided[t].legal /\ ~Taken(decided[t].event)

Insert(t) ==
  /\ pc[t] = "insert" /\ CanInsert(t)
  /\ dirty' = [dirty EXCEPT ![t] = Append(@, decided[t].event)]
  /\ pc' = [pc EXCEPT ![t] = "work"]
  /\ UNCHANGED <<dialect, rows, lock, decided, queue, answer>>

Unlock(t) == lock' = IF lock = t THEN None ELSE lock

(* The work throws (a refused transition or reservation, UNIQUE), or the   *)
(* database refuses to commit: ROLLBACK.                                   *)
Rollback(t) ==
  /\ \/ pc[t] = "insert" /\ ~CanInsert(t)
     \/ pc[t] = "work" /\ Len(dirty[t]) = Len(Plan[t])
  /\ dirty' = [dirty EXCEPT ![t] = <<>>]
  /\ Unlock(t)
  /\ pc' = [pc EXCEPT ![t] = "failed"]
  /\ Leave(t)
  /\ UNCHANGED <<dialect, rows, decided, answer>>

(* COMMIT; a broken Postgres connection may lose its answer, and the       *)
(* caller is then told that the transaction failed.                        *)
Commit(t) ==
  /\ pc[t] = "work" /\ Len(dirty[t]) = Len(Plan[t])
  /\ rows' = rows \o dirty[t]
  /\ dirty' = [dirty EXCEPT ![t] = <<>>]
  /\ Unlock(t)
  /\ \/ pc' = [pc EXCEPT ![t] = "ok"]
     \/ dialect = "postgres" /\ pc' = [pc EXCEPT ![t] = "failed"]
  /\ Leave(t)
  /\ UNCHANGED <<dialect, decided, answer>>

Read(r) ==
  /\ Waits(r)
  /\ answer' = [answer EXCEPT ![r] = Visible(r)]
  /\ pc' = [pc EXCEPT ![r] = "ok"]
  /\ Leave(r)
  /\ UNCHANGED <<dialect, rows, lock, dirty, decided>>

(* A process dies: the database drops its open transaction and its lock. *)
Crash(p) ==
  LET own == {a \in Actor : ProcOf[a] = p /\ pc[a] \notin Ended}
  IN /\ own # {}
     /\ pc' = [a \in Actor |-> IF a \in own THEN "crashed" ELSE pc[a]]
     /\ dirty' = [t \in Tx |-> IF t \in own THEN <<>> ELSE dirty[t]]
     /\ lock' = IF lock \in own THEN None ELSE lock
     /\ queue' = [queue EXCEPT ![p] = <<>>]
     /\ UNCHANGED <<dialect, rows, decided, answer>>

TxStep(t) == Begin(t) \/ LockTimesOut(t) \/ Decide(t) \/ Insert(t) \/ Rollback(t) \/ Commit(t)

Next == \/ \E a \in Actor : Arrive(a)
        \/ \E t \in Tx : TxStep(t)
        \/ \E r \in Reader : Read(r)
        \/ \E p \in Proc : Crash(p)

Spec == Init /\ [][Next]_vars

(* SQLite answers every statement, and hands on a mutex that is free;      *)
(* nothing obliges a process to crash.                                     *)
Fairness ==
  /\ \A t \in Tx : WF_vars(dialect = "sqlite" /\ TxStep(t))
  /\ \A r \in Reader : WF_vars(dialect = "sqlite" /\ Read(r))
-----------------------------------------------------------------------------
(* Either SQL store is an EvidenceLog: whole transactions only, each with  *)
(* its decisions still true of the rows as they are when it commits        *)
(* (:136-182).                                                             *)
ImplementsLog == Log!Spec

(* A plain read never returns a row that is rolled back later: SQLite's    *)
(* one connection would show it a transaction's own rows (:132-134).       *)
ReadsStayTrue == \A r \in Reader : Len(answer[r]) <= Len(rows)
                                   /\ answer[r] = SubSeq(rows, 1, Len(answer[r]))

(* A transaction that threw left no row, and one that returned left them   *)
(* all (:148-155); only Postgres may say of a whole one that it failed.    *)
RowsOf(t) == {j \in DOMAIN rows : rows[j].tx = t}
LeftNone(t) == RowsOf(t) = {}
LeftAll(t) == Cardinality(RowsOf(t)) = Len(Plan[t])
AnswerIsTrue ==
  \A t \in Tx : /\ pc[t] = "ok" => LeftAll(t)
                /\ pc[t] = "crashed" => LeftNone(t)
                /\ pc[t] = "failed" => LeftNone(t) \/ (dialect = "postgres" /\ LeftAll(t))

SqlAnswersAreTrue == ReadsStayTrue /\ AnswerIsTrue

(* Every call of the SQLite store returns: the mutex and the lock are given*)
(* back whatever happens, and no transaction waits for itself (trace.ts:46)*)
CallsReturn ==
  \A x \in Actor : (dialect = "sqlite" /\ pc[x] = "waiting") ~> pc[x] \in Ended
=============================================================================
