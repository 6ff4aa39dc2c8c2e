---------------------------- MODULE InMemoryStore ----------------------------
(***************************************************************************)
(* InMemoryIEECStore (src/core/event/InMemoryIEECStore.ts): the committed  *)
(* events and the indexes over their traces.  A transaction buffers its    *)
(* events and the traces they change, and commits them event by event      *)
(* without an await.                                                       *)
(***************************************************************************)
EXTENDS ExecutionTrace, Integers, Sequences, SequencesExt

CONSTANTS Work,     \* transactions,
          Subject,  \* proposal identifiers,
          Script,   \* what each transaction appends,
          Span,     \* and the window
          Cap,      \* and limit of its rate limit: Tx, Intent, ... of EvidenceLog
          Agent, AgentOf,   \* metadata.actor of each proposal
          Everyone,         \* the index key [action, null]
          Times             \* bounds of the queries the properties ask

ASSUME ScriptsAreInputs == Script \in [Work -> Seq([intent: Subject, status: TraceStatus, at: Nat])]
ASSUME TimesAreNumbers == Times \subseteq Int /\ Span \in Int

VARIABLES events,        \* committed events, in commit order
          latest,        \* the last trace of each proposal
          successes,     \* per key, the successes sorted by timestamp
          reservations,  \* per key, the traces of the open proposals
          waiting,       \* the mutex, its holder first
          pending,       \* events of the running transaction
          changed,       \* and the traces they change
          phase
indexes == <<latest, successes, reservations>>
memoryVars == <<events, indexes, waiting, pending, changed, phase>>

Promised == INSTANCE EvidenceLog WITH
  Tx <- Work, Intent <- Subject, Plan <- Script, Window <- Span, Limit <- Cap, log <- events

Key == Agent \cup {Everyone}
Untouched == [i \in Subject |-> NoTrace]

MemoryInit == /\ events = <<>> /\ latest = Untouched
              /\ successes = [k \in Key |-> <<>>]
              /\ reservations = [k \in Key |-> Untouched]
              /\ waiting = <<>> /\ pending = <<>> /\ changed = Untouched
              /\ phase = [t \in Work |-> "idle"]

Enters(t) ==
  /\ phase[t] = "idle"
  /\ phase' = [phase EXCEPT ![t] = "work"]
  /\ waiting' = Append(waiting, t)
  /\ UNCHANGED <<events, indexes, pending, changed>>

NextAppend(t) == Script[t][Len(pending) + 1]
Record(record) == [intent |-> record.intent, status |-> record.status, at |-> record.at]

(* The first position after "from" of a sorted list, by halving. *)
FirstAfter(list, from) ==
  LET search[low \in 0..Len(list)] == [high \in 0..Len(list) |->
        LET middle == (low + high) \div 2
        IN IF low >= high THEN low
           ELSE IF list[middle + 1].at <= from THEN search[middle + 1][high]
           ELSE search[low][middle]]
  IN search[0][Len(list)]

(* queryTrace of the store: successes in (from, to] whose proposal has no  *)
(* later trace, then the open reservations up to "to".                     *)
StoreQuery(key, from, to, open) ==
  LET list == successes[key]
      low == FirstAfter(list, from)
      end == {j \in (low + 1)..Len(list) : list[j].at > to}
      high == IF end = {} THEN Len(list) ELSE (CHOOSE j \in end : \A k \in end : j <= k) - 1
  IN {list[j].intent : j \in {j \in (low + 1)..high :
        latest[list[j].intent] = [status |-> "SUCCESS", at |-> list[j].at]}}
     \cup {i \in Subject : open /\ reservations[key][i] # NoTrace
                        /\ reservations[key][i].at <= to}

(* matchesQuery of one trace. *)
Matches(i, trace, key, from, to, open) ==
  /\ key \in {Everyone, AgentOf[i]}
  /\ trace.at <= to
  /\ \/ trace.status = "SUCCESS" /\ trace.at > from
     \/ trace.status \in {"RESERVED", "RUNNING"} /\ open

(* queryTrace of the transaction. *)
TxQuery(key, from, to, open) ==
  {i \in StoreQuery(key, from, to, open) : changed[i] = NoTrace}
  \cup {i \in Subject : changed[i] # NoTrace /\ Matches(i, changed[i], key, from, to, open)}

Latest(i) == IF changed[i] # NoTrace THEN changed[i] ELSE latest[i]

(* assertTraceTransition, and the rate limit that "reserve" evaluates over *)
(* the transaction's queries (TemporalGovernance.ts:103-120).              *)
Accepts(input) ==
  /\ input.status # "none" =>
       Follows(Latest(input.intent), input.status, input.at)
  /\ input.status = "RESERVED" =>
       Cardinality(TxQuery(Everyone, input.at - Span, input.at, TRUE) \ {input.intent}) + 1 <= Cap

AppendEvent(t) ==
  /\ waiting # <<>> /\ Head(waiting) = t /\ Len(pending) < Len(Script[t])
  /\ Accepts(NextAppend(t))
  /\ pending' = Append(pending, Promised!Finalized(events \o pending, t, NextAppend(t)))
  /\ changed' = IF NextAppend(t).status = "none" THEN changed
                ELSE [changed EXCEPT ![NextAppend(t).intent] =
                        [status |-> NextAppend(t).status, at |-> NextAppend(t).at]]
  /\ UNCHANGED <<events, indexes, waiting, phase>>

Closed(t, answer) == /\ waiting' = Tail(waiting) /\ pending' = <<>> /\ changed' = Untouched
                     /\ phase' = [phase EXCEPT ![t] = answer]

(* Mutant: what was buffered before the error is committed all the same. *)
RefuseKeeps(t) ==
  /\ waiting # <<>> /\ Head(waiting) = t /\ Len(pending) < Len(Script[t])
  /\ ~Accepts(NextAppend(t))
  /\ Closed(t, "failed")
  /\ events' = events \o pending
  /\ UNCHANGED indexes

(* The append or the work throws: the buffer is dropped. *)
Refuse(t) ==
  /\ waiting # <<>> /\ Head(waiting) = t /\ Len(pending) < Len(Script[t])
  /\ ~Accepts(NextAppend(t))
  /\ Closed(t, "failed")
  /\ UNCHANGED <<events, indexes>>

(* Mutant: a success is appended, whatever its timestamp. *)
PlaceLast(list, record) == Append(list, record)

(* Insertion from the back, past every later timestamp. *)
Place(list, record) ==
  LET before == {j \in DOMAIN list : list[j].at <= record.at}
      n == IF before = {} THEN 0 ELSE CHOOSE j \in before : \A k \in before : k <= j
  IN InsertAt(list, n + 1, record)

Open(status) == status \in {"RESERVED", "RUNNING"}

(* commit(event), over the indexes. *)
Indexed(index, e) ==
  LET keys == {k \in Key : k \in {Everyone, AgentOf[e.intent]}}
      trace == [status |-> e.status, at |-> e.at]
  IN IF e.status = "none" THEN index ELSE
     [latest |-> [index.latest EXCEPT ![e.intent] = trace],
      reservations |-> [k \in Key |-> IF k \notin keys THEN index.reservations[k]
        ELSE [index.reservations[k] EXCEPT ![e.intent] =
                IF Open(e.status) THEN trace ELSE NoTrace]],
      successes |-> [k \in Key |-> IF k \in keys /\ e.status = "SUCCESS"
        THEN Place(index.successes[k], Record(e)) ELSE index.successes[k]]]

CommitAll(t) ==
  /\ waiting # <<>> /\ Head(waiting) = t /\ Len(pending) = Len(Script[t])
  /\ events' = events \o pending
  /\ LET after == FoldLeft(Indexed, [latest |-> latest, successes |-> successes,
                                     reservations |-> reservations], pending)
     IN /\ latest' = after.latest /\ successes' = after.successes
        /\ reservations' = after.reservations
  /\ Closed(t, "ok")

MemoryNext == \E t \in Work : Enters(t) \/ AppendEvent(t) \/ Refuse(t) \/ CommitAll(t)
MemorySpec == MemoryInit /\ [][MemoryNext]_memoryVars
-----------------------------------------------------------------------------
(* The in-memory store is an EvidenceLog: whole transactions only, decided *)
(* on the log they are added to (:16-53).                                  *)
MemoryImplementsLog == Promised!Spec

(* The binary search, the sorted successes and the reservation maps answer *)
(* a query as matchesQuery does over the last traces (:67-89, :91-116).    *)
QueryIsExact(key, from, to, open) ==
  StoreQuery(key, from, to, open) =
    {i \in Subject : Matches(i, Promised!LastTrace(events, i), key, from, to, open)}

(* Inside a transaction the same holds of the committed events followed by *)
(* the buffered ones (:40-44).                                             *)
OwnWritesAreSeen(key, from, to, open) ==
  TxQuery(key, from, to, open) =
    {i \in Subject :
       Matches(i, Promised!LastTrace(events \o pending, i), key, from, to, open)}

(* The in-memory store's sorted and keyed indexes answer every query       *)
(* exactly, and inside a transaction its own writes are part of the answer *)
(* (InMemoryIEECStore.ts:40-44, 67-116).                                   *)
QueriesAreExact ==
  \A key \in Key, from \in Times, to \in Times, open \in BOOLEAN :
    /\ QueryIsExact(key, from, to, open)
    /\ OwnWritesAreSeen(key, from, to, open)
=============================================================================
