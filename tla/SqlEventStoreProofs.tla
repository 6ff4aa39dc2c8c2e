------------------------- MODULE SqlEventStoreProofs -------------------------
(***************************************************************************)
(* Both SQL stores implement the evidence log, for any number of           *)
(* transactions, reads and processes and any plans: one inductive          *)
(* invariant in parts, each with the lemma that a step keeps it, and the   *)
(* step-by-step refinement at the end.                                     *)
(***************************************************************************)
EXTENDS SqlEventStore, SequenceTheorems, FiniteSetTheorems, TLAPS

Event == [tx: Tx, intent: Intent, status: TraceStatus, at: Nat, seq: Nat]
Stage == {"idle", "waiting", "work", "insert"} \cup Ended

TypeOK == /\ dialect \in {"sqlite", "postgres"}
          /\ rows \in Seq(Event)
          /\ lock \in Tx \cup {None}
          /\ dirty \in [Tx -> Seq(Event)]
          /\ decided \in [Tx -> [legal: BOOLEAN, event: Event \cup {None}]]
          /\ queue \in [Proc -> Seq(Actor)]
          /\ pc \in [Actor -> Stage]
          /\ answer \in [Reader -> Seq(Event)]

(* The transaction that is open is the one that holds the lock. *)
Exclusive == \A t \in Tx : pc[t] \in {"work", "insert"} <=> lock = t

(* Only that one has uncommitted rows. *)
Clean == \A t \in Tx : lock # t => dirty[t] = <<>>

(* On SQLite it is at the head of its process's queue. *)
Heads == \A t \in Tx : dialect = "sqlite" /\ lock = t => Holds(t)

(* Its rows follow the committed ones, each decided on all before it. *)
Sound == \A t \in Tx : /\ Len(dirty[t]) <= Len(Plan[t])
                       /\ Log!InTurn(rows, dirty[t], t)

(* What it has decided and not yet inserted is still true. *)
NextInput(t) == Plan[t][Len(dirty[t]) + 1]
Current == \A t \in Tx : pc[t] = "insert" =>
             /\ Len(dirty[t]) < Len(Plan[t])
             /\ decided[t] = [legal |-> Log!Legal(rows \o dirty[t], NextInput(t)),
                              event |-> Log!Finalized(rows \o dirty[t], t, NextInput(t))]

(* A transaction that has not ended has no committed row. *)
Unseen == \A t \in Tx : pc[t] \notin Ended => LeftNone(t)

Shape == TypeOK /\ Exclusive /\ Clean /\ Heads
Inv == Shape /\ Sound /\ Current /\ Unseen /\ SqlAnswersAreTrue
-----------------------------------------------------------------------------
(* What the log's operators do, whatever the log. *)

LEMMA PlanTypes ==
  ASSUME NEW t \in Tx
  PROVE  /\ Plan[t] \in Seq(Input) /\ Len(Plan[t]) \in Nat
         /\ \A k \in 1..Len(Plan[t]) : Plan[t][k] \in Input
<1>1. Plan[t] \in Seq(Input)
  BY PlansAreInputs
<1>2. QED
  BY <1>1, ElementOfSeq, LenProperties

LEMMA FinalizedIsEvent ==
  ASSUME NEW s \in Seq(Event), NEW t \in Tx, NEW input \in Input
  PROVE  Log!Finalized(s, t, input) \in Event /\ Log!Finalized(s, t, input).tx = t
<1> DEFINE same == {j \in DOMAIN s : s[j].intent = input.intent}
<1>1. same \subseteq 1..Len(s) /\ Len(s) \in Nat
  BY LenProperties
<1>2. IsFiniteSet(same)
  <2> HIDE DEF same
  <2>1. IsFiniteSet(1..Len(s))
    BY <1>1, FS_Interval
  <2>2. QED
    BY <1>1, <2>1, FS_Subset
<1>3. Cardinality(same) \in Nat
  BY <1>2, FS_CardinalityType
<1>4. 1 + Cardinality(same) \in Nat
  BY <1>3
<1>5. Log!Finalized(s, t, input) =
        [tx |-> t, intent |-> input.intent, status |-> input.status, at |-> input.at,
         seq |-> 1 + Cardinality(same)]
  BY DEF Log!Finalized, Log!Cardinality, Cardinality
<1> HIDE DEF same
<1>6. QED
  BY <1>4, <1>5 DEF Event, Input

LEMMA LegalIsBoolean ==
  ASSUME NEW s, NEW input
  PROVE  Log!Legal(s, input) \in BOOLEAN
<1> DEFINE follows == LET last == Log!LastTrace(s, input.intent)
                      IN input.status = "none" \/ Log!Follows(last, input.status, input.at)
           fits == input.status = "RESERVED" =>
                     Log!Cardinality(Log!Spent(s, input.at) \ {input.intent}) + 1 <= Limit
<1>1. Log!Legal(s, input) = (follows /\ fits)
  BY Zenon DEF Log!Legal
<1> HIDE DEF follows, fits
<1>2. QED
  BY <1>1

(* A prefix of a sequence is one of the longer sequence. *)
LEMMA PrefixOfAppend ==
  ASSUME NEW S, NEW s \in Seq(S), NEW e \in S, NEW n \in 0..Len(s)
  PROVE  SubSeq(Append(s, e), 1, n) = SubSeq(s, 1, n)
<1>1. Append(s, e) \in Seq(S) /\ Len(Append(s, e)) = Len(s) + 1
      /\ \A i \in 1..Len(s) : Append(s, e)[i] = s[i]
  BY AppendProperties
<1>2. \A i \in 1..n : s[i] \in S /\ Append(s, e)[i] \in S
  BY <1>1, ElementOfSeq, LenProperties
<1>3. /\ SubSeq(s, 1, n) \in Seq(S) /\ Len(SubSeq(s, 1, n)) = n
      /\ \A i \in 1..n : SubSeq(s, 1, n)[i] = s[i]
  BY <1>2, SubSeqProperties, LenProperties
<1>4. /\ SubSeq(Append(s, e), 1, n) \in Seq(S) /\ Len(SubSeq(Append(s, e), 1, n)) = n
      /\ \A i \in 1..n : SubSeq(Append(s, e), 1, n)[i] = Append(s, e)[i]
  BY <1>2, SubSeqProperties, LenProperties
<1>5. \A i \in 1..n : Append(s, e)[i] = s[i]
  BY <1>1, LenProperties
<1>6. QED
  BY <1>3, <1>4, <1>5, SeqEqual

LEMMA PrefixOfConcat ==
  ASSUME NEW S, NEW s \in Seq(S), NEW u \in Seq(S), NEW n \in 0..Len(s)
  PROVE  SubSeq(s \o u, 1, n) = SubSeq(s, 1, n)
<1>1. Len(s) \in Nat
  BY LenProperties
<1>2. CASE n = 0
  BY <1>2, SubSeqEmpty
<1>3. CASE n # 0
  BY <1>1, <1>3, SubSeqOfConcat1
<1>4. QED
  BY <1>2, <1>3

LEMMA InTurnStarts ==
  ASSUME NEW s, NEW t
  PROVE  Log!InTurn(s, <<>>, t)
BY DEF Log!InTurn

(* One more legal event in turn. *)
LEMMA InTurnGoesOn ==
  ASSUME NEW t \in Tx, NEW s, NEW d \in Seq(Event), NEW e \in Event,
         Log!InTurn(s, d, t),
         Log!Legal(s \o d, Plan[t][Len(d) + 1]),
         e = Log!Finalized(s \o d, t, Plan[t][Len(d) + 1])
  PROVE  Log!InTurn(s, Append(d, e), t)
<1>1. /\ Append(d, e) \in Seq(Event) /\ Len(Append(d, e)) = Len(d) + 1 /\ Len(d) \in Nat
      /\ \A i \in 1..Len(d) : Append(d, e)[i] = d[i]
      /\ Append(d, e)[Len(d) + 1] = e
  BY AppendProperties, LenProperties
<1>2. DOMAIN Append(d, e) = 1..Len(d) + 1 /\ DOMAIN d = 1..Len(d)
  BY <1>1, LenProperties
<1> DEFINE Right(seen, event, k) == /\ Log!Legal(seen, Plan[t][k])
                                    /\ event = Log!Finalized(seen, t, Plan[t][k])
<1>3. \A k \in DOMAIN d : Right(s \o SubSeq(d, 1, k - 1), d[k], k)
  BY DEF Log!InTurn
<1>4. ASSUME NEW k \in DOMAIN Append(d, e)
      PROVE  Right(s \o SubSeq(Append(d, e), 1, k - 1), Append(d, e)[k], k)
  <2>1. k - 1 \in 0..Len(d)
    BY <1>1, <1>2
  <2>2. SubSeq(Append(d, e), 1, k - 1) = SubSeq(d, 1, k - 1)
    BY <2>1, PrefixOfAppend
  <2>3. CASE k = Len(d) + 1
    <3>1. SubSeq(d, 1, k - 1) = d
      BY <1>1, <2>3, SubSeqFull
    <3>2. Append(d, e)[k] = e
      BY <1>1, <2>3
    <3>3. QED
      BY <2>2, <2>3, <3>1, <3>2
  <2>4. CASE k # Len(d) + 1
    <3>1. k \in DOMAIN d
      BY <1>1, <1>2, <2>4
    <3>2. Append(d, e)[k] = d[k]
      BY <1>1, <1>2, <3>1
    <3> HIDE DEF Right
    <3>3. QED
      BY <1>3, <2>2, <3>1, <3>2
  <2>5. QED
    BY <2>3, <2>4
<1>5. QED
  BY <1>4 DEF Log!InTurn

(* Every event in turn is the transaction's own. *)
LEMMA InTurnIsOwn ==
  ASSUME NEW t, NEW s, NEW d, Log!InTurn(s, d, t)
  PROVE  \A k \in DOMAIN d : d[k].tx = t
<1>1. \A seen, input : Log!Finalized(seen, t, input).tx = t
  BY DEF Log!Finalized
<1>2. \A k \in DOMAIN d : d[k] = Log!Finalized(s \o SubSeq(d, 1, k - 1), t, Plan[t][k])
  BY DEF Log!InTurn
<1>3. QED
  BY <1>1, <1>2
-----------------------------------------------------------------------------
(* Types, and who holds what. *)

LEMMA Processes == \A x \in Tx : x \in Actor /\ ProcOf[x] \in Proc
BY DEF Actor, Proc

LEMMA ReadersToo == \A x \in Reader : x \in Actor /\ ProcOf[x] \in Proc /\ x \notin Tx
BY CallsAreApart DEF Actor, Proc

(* A queue that is left stays a queue of calls. *)
LEMMA LeaveTyped ==
  ASSUME TypeOK, NEW a \in Actor, Leave(a), dialect = "sqlite" => Holds(a)
  PROVE  queue' \in [Proc -> Seq(Actor)]
<1>1. ProcOf[a] \in Proc
  BY DEF Proc
<1>2. CASE dialect # "sqlite"
  BY <1>2 DEF TypeOK, Leave
<1>3. CASE dialect = "sqlite"
  <2>1. queue[ProcOf[a]] \in Seq(Actor) /\ queue[ProcOf[a]] # <<>>
    BY <1>1, <1>3 DEF TypeOK, Holds
  <2>2. Tail(queue[ProcOf[a]]) \in Seq(Actor)
    BY <2>1, HeadTailProperties
  <2>3. QED
    BY <1>3, <2>2 DEF TypeOK, Leave
<1>4. QED
  BY <1>2, <1>3

(* Tx and Reader are met by the actions one at a time. *)
LEMMA OpenHolds ==
  ASSUME Shape, NEW t \in Tx, pc[t] \in {"work", "insert"}
  PROVE  lock = t /\ (dialect = "sqlite" => Holds(t))
BY DEF Shape, Exclusive, Heads

(* What t sees is the committed rows and then its own. *)
LEMMA SeesItsOwn ==
  ASSUME Shape, NEW t \in Tx, pc[t] \in {"work", "insert"}
  PROVE  Visible(t) = rows \o dirty[t]
<1>1. OpenTx = {t}
  BY DEF Shape, Exclusive, OpenTx
<1> DEFINE own == {u \in OpenTx : Shares(t, u) /\ dirty[u] # <<>>}
<1>2. CASE dirty[t] = <<>>
  <2>1. own = {}
    BY <1>1, <1>2
  <2>2. Visible(t) = rows
    BY <2>1 DEF Visible
  <2>3. QED
    BY <1>2, <2>2, ConcatEmptySeq DEF Shape, TypeOK
<1>3. CASE dirty[t] # <<>>
  <2>1. own = {t}
    BY <1>1, <1>3 DEF Shares
  <2>2. (CHOOSE u \in own : TRUE) = t
    BY <2>1
  <2>3. QED
    BY <2>1, <2>2 DEF Visible
<1>4. QED
  BY <1>2, <1>3

(* What a read sees, when it is its turn, is the committed rows alone. *)
LEMMA SeesCommitted ==
  ASSUME Shape, NEW r \in Reader, Waits(r)
  PROVE  Visible(r) = rows
<1> DEFINE own == {u \in OpenTx : Shares(r, u) /\ dirty[u] # <<>>}
<1>1. ASSUME NEW u \in own PROVE FALSE
  <2>1. u \in Tx /\ pc[u] \in {"work", "insert"} /\ Shares(r, u) /\ u # r
    BY <1>1, ReadersToo DEF OpenTx
  <2>2. dialect = "sqlite" /\ ProcOf[r] = ProcOf[u]
    BY <2>1 DEF Shares
  <2>3. Holds(u) /\ Holds(r)
    BY <2>1, <2>2, OpenHolds DEF Waits
  <2>4. QED
    BY <2>1, <2>2, <2>3 DEF Holds
<1>2. own = {}
  BY <1>1
<1>3. QED
  BY <1>2 DEF Visible

(* What is decided is an event of the transaction's. *)
LEMMA DecidedTyped ==
  ASSUME TypeOK, NEW t \in Tx, Len(dirty[t]) < Len(Plan[t])
  PROVE  /\ NextInput(t) \in Input
         /\ rows \o dirty[t] \in Seq(Event)
         /\ Log!Legal(rows \o dirty[t], NextInput(t)) \in BOOLEAN
         /\ Log!Finalized(rows \o dirty[t], t, NextInput(t)) \in Event
<1>1. Len(dirty[t]) \in Nat /\ dirty[t] \in Seq(Event) /\ rows \in Seq(Event)
  BY LenProperties DEF TypeOK
<1>2. NextInput(t) \in Input
  BY <1>1, PlanTypes DEF NextInput
<1>3. rows \o dirty[t] \in Seq(Event)
  BY <1>1, ConcatProperties
<1>4. QED
  BY <1>2, <1>3, LegalIsBoolean, FinalizedIsEvent

LEMMA TypesKept ==
  ASSUME Shape, Sound, Current, [Next]_vars
  PROVE  TypeOK'
<1> USE DEF Shape, TypeOK
<1>0. {"idle", "waiting", "work", "insert", "ok", "failed", "crashed"} = Stage
  BY DEF Stage, Ended
<1>1. ASSUME NEW a \in Actor, Arrive(a) PROVE TypeOK'
  <2>1. ProcOf[a] \in Proc
    BY DEF Proc
  <2>2. queue' \in [Proc -> Seq(Actor)]
    BY <1>1, <2>1, AppendProperties DEF Arrive
  <2>3. pc' \in [Actor -> Stage]
    BY <1>0, <1>1 DEF Arrive
  <2>4. QED
    BY <1>1, <2>2, <2>3 DEF Arrive
<1>2. ASSUME NEW t \in Tx, TxStep(t) PROVE TypeOK'
  <2>0. t \in Actor /\ ProcOf[t] \in Proc
    BY Processes
  <2>1. CASE Begin(t)
    BY <1>0, <2>0, <2>1 DEF Begin
  <2>2. CASE LockTimesOut(t)
    <3>1. queue' \in [Proc -> Seq(Actor)]
      BY <2>0, <2>2, LeaveTyped DEF LockTimesOut, Waits
    <3>2. pc' \in [Actor -> Stage]
      BY <1>0, <2>0, <2>2 DEF LockTimesOut
    <3>3. QED
      BY <2>2, <3>1, <3>2 DEF LockTimesOut
  <2>3. CASE Decide(t)
    <3>1. Visible(t) = rows \o dirty[t]
      BY <2>3, SeesItsOwn DEF Decide
    <3>2. [legal |-> Log!Legal(Visible(t), NextInput(t)),
           event |-> Log!Finalized(Visible(t), t, NextInput(t))]
             \in [legal: BOOLEAN, event: Event \cup {None}]
      BY <2>3, <3>1, DecidedTyped DEF Decide
    <3>3. decided' \in [Tx -> [legal: BOOLEAN, event: Event \cup {None}]]
      BY <2>3, <3>2 DEF Decide, NextInput
    <3>4. pc' \in [Actor -> Stage]
      BY <1>0, <2>0, <2>3 DEF Decide
    <3>5. QED
      BY <2>3, <3>3, <3>4 DEF Decide
  <2>4. CASE Insert(t)
    <3>1. decided[t].event \in Event
      BY <2>4, DecidedTyped DEF Insert, Current
    <3>2. dirty' \in [Tx -> Seq(Event)]
      BY <2>4, <3>1, AppendProperties DEF Insert
    <3>3. pc' \in [Actor -> Stage]
      BY <1>0, <2>0, <2>4 DEF Insert
    <3>4. QED
      BY <2>4, <3>2, <3>3 DEF Insert
  <2>5. CASE Rollback(t) \/ Commit(t)
    <3>1. pc[t] \in {"work", "insert"} /\ Leave(t)
      BY <2>5 DEF Rollback, Commit
    <3>2. queue' \in [Proc -> Seq(Actor)]
      BY <2>0, <3>1, LeaveTyped, OpenHolds
    <3>3. pc' \in [Actor -> Stage]
      BY <1>0, <2>0, <2>5 DEF Rollback, Commit
    <3>4. dirty' \in [Tx -> Seq(Event)]
      <4>1. <<>> \in Seq(Event) /\ dirty' = [dirty EXCEPT ![t] = <<>>]
        BY <2>5, EmptySeq DEF Rollback, Commit
      <4>2. QED
        BY <4>1
    <3>5. rows' \in Seq(Event)
      <4>1. rows \o dirty[t] \in Seq(Event)
        BY ConcatProperties
      <4>2. rows' \in {rows, rows \o dirty[t]}
        BY <2>5 DEF Rollback, Commit
      <4>3. QED
        BY <4>1, <4>2
    <3>6. lock' \in Tx \cup {None}
      BY <2>5 DEF Rollback, Commit, Unlock
    <3>7. QED
      BY <2>5, <3>2, <3>3, <3>4, <3>5, <3>6 DEF Rollback, Commit
  <2>6. QED
    BY <1>2, <2>1, <2>2, <2>3, <2>4, <2>5 DEF TxStep
<1>3. ASSUME NEW r \in Reader, Read(r) PROVE TypeOK'
  <2>1. Visible(r) = rows /\ Leave(r)
    BY <1>3, SeesCommitted DEF Read
  <2>2. queue' \in [Proc -> Seq(Actor)]
    BY <1>3, <2>1, ReadersToo, LeaveTyped DEF Read, Waits
  <2>3. pc' \in [Actor -> Stage]
    BY <1>0, <1>3, ReadersToo DEF Read
  <2>4. QED
    BY <1>3, <2>1, <2>2, <2>3 DEF Read
<1>4. ASSUME NEW p \in Proc, Crash(p) PROVE TypeOK'
  <2>1. queue' \in [Proc -> Seq(Actor)]
    BY <1>4, EmptySeq DEF Crash
  <2>2. pc' \in [Actor -> Stage]
    BY <1>0, <1>4 DEF Crash
  <2>3. dirty' \in [Tx -> Seq(Event)]
    BY <1>4, EmptySeq DEF Crash
  <2>4. lock' \in Tx \cup {None}
    BY <1>4 DEF Crash
  <2>5. QED
    BY <1>4, <2>1, <2>2, <2>3, <2>4 DEF Crash
<1>5. CASE UNCHANGED vars
  BY <1>5 DEF vars
<1>6. QED
  BY <1>1, <1>2, <1>3, <1>4, <1>5 DEF Next
-----------------------------------------------------------------------------
(* A queue that is held stays held by its head when others come. *)
LEMMA HeadStays ==
  ASSUME TypeOK, NEW t \in Tx, NEW a \in Actor, Holds(t),
         queue' = [queue EXCEPT ![ProcOf[a]] = Append(@, a)]
  PROVE  Holds(t)'
<1>1. ProcOf[t] \in Proc /\ ProcOf[a] \in Proc /\ queue[ProcOf[a]] \in Seq(Actor)
  BY Processes DEF Proc, TypeOK
<1>2. CASE ProcOf[a] = ProcOf[t]
  <2>1. /\ Head(Append(queue[ProcOf[t]], a)) = t
        /\ Append(queue[ProcOf[t]], a) # <<>>
    BY <1>1, <1>2, HeadTailAppend, AppendProperties DEF Holds
  <2>2. QED
    BY <1>1, <1>2, <2>1 DEF Holds, TypeOK
<1>3. CASE ProcOf[a] # ProcOf[t]
  BY <1>1, <1>3 DEF Holds, TypeOK
<1>4. QED
  BY <1>2, <1>3

(* Nor does it change hands when a call of another queue leaves. *)
LEMMA HeadStaysElsewhere ==
  ASSUME TypeOK, NEW t \in Tx, NEW a \in Actor, Holds(t), Leave(a),
         ProcOf[a] # ProcOf[t]
  PROVE  Holds(t)'
<1>1. ProcOf[t] \in Proc /\ ProcOf[a] \in Proc
  BY Processes DEF Proc
<1>2. QED
  BY <1>1 DEF Holds, TypeOK, Leave

(* In SQLite, who is at the head leaves nobody else's lock behind. *)
LEMMA OtherHeadsStay ==
  ASSUME Shape, NEW t \in Tx, NEW a \in Actor, a # t,
         dialect = "sqlite", lock = t, Holds(a), Leave(a)
  PROVE  Holds(t)'
<1>1. Holds(t) /\ TypeOK
  BY DEF Shape, Heads
<1>2. ProcOf[a] # ProcOf[t]
  BY <1>1 DEF Holds
<1>3. QED
  BY <1>1, <1>2, HeadStaysElsewhere

LEMMA LocksKept ==
  ASSUME Shape, [Next]_vars
  PROVE  Exclusive' /\ Clean' /\ Heads'
<1> USE CallsAreApart DEF Shape, TypeOK, Exclusive, Clean, Heads
<1>1. ASSUME NEW a \in Actor, Arrive(a) PROVE Exclusive' /\ Clean' /\ Heads'
  <2>1. Exclusive'
    BY <1>1, Processes DEF Arrive
  <2>2. Clean'
    BY <1>1 DEF Arrive
  <2>3. ASSUME NEW t \in Tx, dialect' = "sqlite", lock' = t PROVE Holds(t)'
    BY <1>1, <2>3, HeadStays DEF Arrive
  <2>4. QED
    BY <2>1, <2>2, <2>3
<1>2. ASSUME NEW t \in Tx, TxStep(t) PROVE Exclusive' /\ Clean' /\ Heads'
  <2>0. t \in Actor /\ ProcOf[t] \in Proc
    BY Processes
  <2>1. CASE Begin(t)
    <3>1. Exclusive' /\ Clean'
      BY <2>0, <2>1, Processes DEF Begin, Waits, Free
    <3>2. Heads'
      BY <2>1 DEF Begin, Waits, Holds
    <3>3. QED
      BY <3>1, <3>2
  <2>2. CASE LockTimesOut(t)
    <3>1. pc[t] = "waiting" /\ lock # t
      BY <2>2 DEF LockTimesOut, Waits
    <3>2. Exclusive' /\ Clean'
      BY <2>0, <2>2, <3>1, Processes DEF LockTimesOut
    <3>3. ASSUME NEW u \in Tx, dialect' = "sqlite", lock' = u PROVE Holds(u)'
      BY <2>0, <2>2, <3>1, <3>3, OtherHeadsStay DEF LockTimesOut, Waits
    <3>4. QED
      BY <3>2, <3>3
  <2>3. CASE Decide(t)
    <3>1. Exclusive' /\ Clean'
      BY <2>0, <2>3, Processes DEF Decide
    <3>2. Heads'
      BY <2>3 DEF Decide, Holds
    <3>3. QED
      BY <3>1, <3>2
  <2>4. CASE Insert(t)
    <3>1. Exclusive' /\ Clean'
      BY <2>0, <2>4, Processes DEF Insert
    <3>2. Heads'
      BY <2>4 DEF Insert, Holds
    <3>3. QED
      BY <3>1, <3>2
  <2>5. CASE Rollback(t) \/ Commit(t)
    <3>1. lock = t /\ lock' = None /\ pc'[t] \notin {"work", "insert"}
      BY <2>0, <2>5 DEF Rollback, Commit, Unlock
    <3>2. \A u \in Tx : u # t => pc'[u] = pc[u] /\ dirty'[u] = dirty[u]
      BY <2>5, Processes DEF Rollback, Commit
    <3>3. dirty'[t] = <<>>
      BY <2>5 DEF Rollback, Commit
    <3>4. Exclusive' /\ Clean' /\ Heads'
      BY <3>1, <3>2, <3>3
    <3>5. QED
      BY <3>4
  <2>6. QED
    BY <1>2, <2>1, <2>2, <2>3, <2>4, <2>5 DEF TxStep
<1>3. ASSUME NEW r \in Reader, Read(r) PROVE Exclusive' /\ Clean' /\ Heads'
  <2>1. Exclusive' /\ Clean'
    BY <1>3, Processes, ReadersToo DEF Read
  <2>2. ASSUME NEW u \in Tx, dialect' = "sqlite", lock' = u PROVE Holds(u)'
    BY <1>3, <2>2, ReadersToo, OtherHeadsStay DEF Read, Waits
  <2>3. QED
    BY <2>1, <2>2
<1>4. ASSUME NEW p \in Proc, Crash(p) PROVE Exclusive' /\ Clean' /\ Heads'
  <2> DEFINE dead == {a \in Actor : ProcOf[a] = p /\ pc[a] \notin Ended}
  <2>1. /\ pc' = [a \in Actor |-> IF a \in dead THEN "crashed" ELSE pc[a]]
        /\ dirty' = [t \in Tx |-> IF t \in dead THEN <<>> ELSE dirty[t]]
        /\ lock' = IF lock \in dead THEN None ELSE lock
        /\ queue' = [queue EXCEPT ![p] = <<>>]
        /\ dialect' = dialect
    BY <1>4 DEF Crash
  <2>2. ASSUME NEW t \in Tx PROVE t \in dead <=> ProcOf[t] = p /\ pc[t] \notin Ended
    BY Processes
  <2> HIDE DEF dead
  <2>4. Exclusive'
    BY <2>1, Processes
  <2>5. Clean'
    BY <2>1, <2>4
  <2>6. ASSUME NEW t \in Tx, dialect' = "sqlite", lock' = t PROVE Holds(t)'
    <3>1. lock = t /\ t \notin dead /\ Holds(t)
      BY <2>1, <2>6
    <3>2. ProcOf[t] # p
      BY <2>2, <3>1 DEF Ended
    <3>3. QED
      BY <2>1, <3>1, <3>2, Processes DEF Holds
  <2>7. QED
    BY <2>4, <2>5, <2>6
<1>5. CASE UNCHANGED vars
  BY <1>5 DEF vars, Holds
<1>6. QED
  BY <1>1, <1>2, <1>3, <1>4, <1>5 DEF Next
-----------------------------------------------------------------------------
(* What each step does to the rows, committed or not: only a commit adds   *)
(* to the committed ones, and only the open transaction to its own.        *)

LEMMA RowsChange ==
  ASSUME Shape, [Next]_vars
  PROVE  \/ /\ rows' = rows
            /\ \A t \in Tx : dirty'[t] \in {dirty[t], <<>>} \/ Insert(t)
         \/ \E t \in Tx : Commit(t)
<1> USE DEF Shape, TypeOK
<1>1. CASE \E a \in Actor : Arrive(a)
  BY <1>1 DEF Arrive
<1>2. CASE \E t \in Tx : TxStep(t)
  BY <1>2 DEF TxStep, Begin, LockTimesOut, Decide, Insert, Rollback
<1>3. CASE \E r \in Reader : Read(r)
  BY <1>3 DEF Read
<1>4. CASE \E p \in Proc : Crash(p)
  BY <1>4 DEF Crash
<1>5. CASE UNCHANGED vars
  BY <1>5 DEF vars
<1>6. QED
  BY <1>1, <1>2, <1>3, <1>4, <1>5 DEF Next

(* A commit leaves no uncommitted row anywhere. *)
LEMMA CommitEmpties ==
  ASSUME Shape, NEW t \in Tx, Commit(t)
  PROVE  \A u \in Tx : dirty'[u] = <<>>
<1>1. lock = t
  BY OpenHolds DEF Commit
<1>2. QED
  BY <1>1 DEF Commit, Shape, Clean, TypeOK

LEMMA SoundKept ==
  ASSUME Shape, Sound, Current, [Next]_vars
  PROVE  Sound'
<1>0. \A t \in Tx : Len(<<>>) <= Len(Plan[t]) /\ Log!InTurn(rows', <<>>, t)
  BY InTurnStarts, PlanTypes, EmptySeq
<1>1. ASSUME NEW t \in Tx, Commit(t) PROVE Sound'
  BY <1>0, <1>1, CommitEmpties DEF Sound
<1>2. ASSUME rows' = rows, NEW t \in Tx, Insert(t)
      PROVE  Len(dirty'[t]) <= Len(Plan[t]) /\ Log!InTurn(rows', dirty'[t], t)
  <2>1. /\ Len(dirty[t]) < Len(Plan[t]) /\ decided[t].legal
        /\ Log!Legal(rows \o dirty[t], NextInput(t))
        /\ decided[t].event = Log!Finalized(rows \o dirty[t], t, NextInput(t))
    <3> DEFINE legal == Log!Legal(rows \o dirty[t], NextInput(t))
               event == Log!Finalized(rows \o dirty[t], t, NextInput(t))
    <3>1. legal \in BOOLEAN
      BY LegalIsBoolean
    <3>2. /\ Len(dirty[t]) < Len(Plan[t]) /\ decided[t].legal = TRUE
          /\ decided[t] = [legal |-> legal, event |-> event]
      BY <1>2 DEF Insert, CanInsert, Current, Shape, TypeOK
    <3> HIDE DEF legal, event
    <3>3. decided[t].legal = legal /\ decided[t].event = event
      BY <3>2
    <3>4. legal = TRUE
      BY <3>2, <3>3
    <3> USE DEF legal, event
    <3>5. QED
      BY <3>2, <3>3, <3>4, Zenon
  <2>2. decided[t].event \in Event /\ dirty[t] \in Seq(Event)
    BY <2>1, DecidedTyped DEF Shape, TypeOK
  <2>3. dirty'[t] = Append(dirty[t], decided[t].event)
    BY <1>2 DEF Insert, Shape, TypeOK
  <2>4. Len(dirty'[t]) = Len(dirty[t]) + 1 /\ Len(dirty[t]) \in Nat
    BY <2>2, <2>3, AppendProperties, LenProperties
  <2>5. Log!InTurn(rows, dirty[t], t)
    BY DEF Sound
  <2>6. Log!InTurn(rows, dirty'[t], t)
    BY <2>1, <2>2, <2>3, <2>5, InTurnGoesOn DEF NextInput
  <2>7. QED
    BY <1>2, <2>1, <2>4, <2>6, PlanTypes
<1>3. ASSUME rows' = rows, \A t \in Tx : dirty'[t] \in {dirty[t], <<>>} \/ Insert(t)
      PROVE  Sound'
  BY <1>0, <1>2, <1>3 DEF Sound
<1>4. QED
  BY <1>1, <1>3, RowsChange

LEMMA CurrentKept ==
  ASSUME Shape, Current, [Next]_vars
  PROVE  Current'
<1> USE DEF Shape, TypeOK
<1> SUFFICES ASSUME NEW t \in Tx, pc'[t] = "insert"
             PROVE  /\ Len(dirty'[t]) < Len(Plan[t])
                    /\ decided'[t] = [legal |-> Log!Legal(rows' \o dirty'[t], NextInput(t)'),
                         event |-> Log!Finalized(rows' \o dirty'[t], t, NextInput(t)')]
  BY DEF Current
<1>1. CASE Decide(t)
  <2>1. Visible(t) = rows \o dirty[t]
    BY <1>1, SeesItsOwn DEF Decide
  <2>2. decided'[t] = [legal |-> Log!Legal(Visible(t), NextInput(t)),
                       event |-> Log!Finalized(Visible(t), t, NextInput(t))]
    BY <1>1 DEF Decide, NextInput
  <2>3. rows' = rows /\ dirty' = dirty /\ Len(dirty[t]) < Len(Plan[t])
    BY <1>1 DEF Decide
  <2>4. NextInput(t)' = NextInput(t)
    BY <2>3 DEF NextInput
  <2>5. QED
    BY <2>1, <2>2, <2>3, <2>4
<1>2. CASE ~Decide(t)
  <2> DEFINE Stays == /\ pc[t] = "insert" /\ decided'[t] = decided[t]
                      /\ rows' = rows /\ dirty'[t] = dirty[t]
  <2>1. Stays
    <3>0. t \in Actor
      BY Processes
    <3>1. ASSUME NEW a \in Actor, Arrive(a) PROVE Stays
      BY <3>0, <3>1 DEF Arrive
    <3>2. ASSUME NEW u \in Tx, TxStep(u) PROVE Stays
      <4>0. u \in Actor
        BY Processes
      <4>1. CASE Commit(u)
        <5>1. u = t
          <6>1. lock = u /\ (u # t => pc[t] = "insert")
            BY <1>2, <3>0, <4>0, <4>1, OpenHolds DEF Commit
          <6>2. QED
            BY <6>1, OpenHolds
        <5>2. QED
          BY <3>0, <4>1, <5>1 DEF Commit
      <4>2. CASE ~Commit(u)
        BY <1>2, <3>0, <3>2, <4>0, <4>2
           DEF TxStep, Begin, LockTimesOut, Decide, Insert, Rollback
      <4>3. QED
        BY <4>1, <4>2
    <3>3. ASSUME NEW r \in Reader, Read(r) PROVE Stays
      BY <3>0, <3>3, ReadersToo DEF Read
    <3>4. ASSUME NEW p \in Proc, Crash(p) PROVE Stays
      BY <3>0, <3>4 DEF Crash
    <3>5. CASE UNCHANGED vars
      BY <3>5 DEF vars
    <3>6. QED
      BY <3>1, <3>2, <3>3, <3>4, <3>5 DEF Next
  <2>2. NextInput(t)' = NextInput(t)
    BY <2>1 DEF NextInput
  <2>3. QED
    BY <2>1, <2>2 DEF Current
<1>3. QED
  BY <1>1, <1>2
-----------------------------------------------------------------------------
(* A transaction that has ended stays so, and only a commit succeeds. *)
LEMMA EndsOnce ==
  ASSUME Shape, [Next]_vars, NEW t \in Tx
  PROVE  /\ dialect' = dialect
         /\ pc[t] \in Ended => pc'[t] = pc[t]
         /\ pc'[t] = "ok" /\ pc[t] # "ok" => Commit(t)
<1> USE DEF Shape, TypeOK
<1>0. t \in Actor
  BY Processes
<1> DEFINE Goal == /\ dialect' = dialect
                   /\ pc[t] \in Ended => pc'[t] = pc[t]
                   /\ pc'[t] = "ok" /\ pc[t] # "ok" => Commit(t)
<1>1. ASSUME NEW a \in Actor, Arrive(a) PROVE Goal
  BY <1>0, <1>1 DEF Arrive, Ended
<1>2. ASSUME NEW u \in Tx, TxStep(u) PROVE Goal
  <2>0. u \in Actor
    BY Processes
  <2>1. CASE Commit(u)
    BY <1>0, <2>0, <2>1 DEF Commit, Ended
  <2>2. CASE ~Commit(u)
    BY <1>0, <1>2, <2>0, <2>2
       DEF TxStep, Begin, LockTimesOut, Decide, Insert, Rollback, Waits, Ended
  <2>3. QED
    BY <2>1, <2>2
<1>3. ASSUME NEW r \in Reader, Read(r) PROVE Goal
  BY <1>0, <1>3, ReadersToo DEF Read, Ended
<1>4. ASSUME NEW p \in Proc, Crash(p) PROVE Goal
  BY <1>0, <1>4 DEF Crash, Ended
<1>5. CASE UNCHANGED vars
  BY <1>5 DEF vars
<1>6. QED
  BY <1>1, <1>2, <1>3, <1>4, <1>5 DEF Next

(* A commit adds all rows of its own transaction and no other. *)
LEMMA CommitAddsAll ==
  ASSUME Shape, Sound, Unseen, NEW t \in Tx, Commit(t)
  PROVE  /\ LeftAll(t)'
         /\ \A u \in Tx : u # t => RowsOf(u)' = RowsOf(u)
<1> DEFINE n == Len(rows)
           m == Len(dirty[t])
<1>1. /\ rows \in Seq(Event) /\ dirty[t] \in Seq(Event) /\ n \in Nat /\ m \in Nat
      /\ rows' = rows \o dirty[t] /\ m = Len(Plan[t]) /\ pc[t] = "work"
  BY LenProperties DEF Shape, TypeOK, Commit
<1>2. /\ rows' \in Seq(Event) /\ Len(rows') = n + m
      /\ \A i \in 1..n + m : rows'[i] = IF i <= n THEN rows[i] ELSE dirty[t][i - n]
  <2>1. /\ rows \o dirty[t] \in Seq(Event) /\ Len(rows \o dirty[t]) = Len(rows) + Len(dirty[t])
        /\ \A i \in 1..Len(rows) + Len(dirty[t]) :
             (rows \o dirty[t])[i] = IF i <= Len(rows) THEN rows[i] ELSE dirty[t][i - Len(rows)]
    BY <1>1, ConcatProperties
  <2>2. QED
    BY <1>1, <2>1
<1>3. DOMAIN rows' = 1..n + m /\ DOMAIN rows = 1..n /\ DOMAIN dirty[t] = 1..m
  BY <1>1, <1>2, LenProperties
<1>4. \A k \in 1..m : dirty[t][k].tx = t
  BY <1>3, InTurnIsOwn DEF Sound
<1>5. \A i \in 1..n : rows[i].tx # t
  BY <1>1, <1>3 DEF Unseen, LeftNone, RowsOf, Ended
<1> HIDE DEF n, m
<1>6. \A i \in n + 1..n + m : rows'[i].tx = t
  <2> SUFFICES ASSUME NEW i \in n + 1..n + m PROVE rows'[i].tx = t
    OBVIOUS
  <2>1. i \in 1..n + m /\ ~(i <= n) /\ i - n \in 1..m
    BY <1>1
  <2>2. QED
    BY <1>2, <1>4, <2>1
<1>7. \A i \in 1..n : rows'[i] = rows[i] /\ i \in 1..n + m
  BY <1>1, <1>2
<1>8. RowsOf(t)' = n + 1..n + m
  BY <1>1, <1>3, <1>5, <1>6, <1>7 DEF RowsOf
<1>9. Cardinality(n + 1..n + m) = m
  <2>1. n + 1 \in Int /\ n + m \in Int
    BY <1>1
  <2>2. Cardinality(n + 1..n + m) = IF n + 1 > n + m THEN 0 ELSE (n + m) - (n + 1) + 1
    BY <2>1, FS_Interval
  <2>3. QED
    BY <1>1, <2>2
<1>10. \A u \in Tx : u # t => RowsOf(u)' = RowsOf(u)
  <2> SUFFICES ASSUME NEW u \in Tx, u # t PROVE RowsOf(u)' = RowsOf(u)
    OBVIOUS
  <2>1. \A i \in 1..n + m : i \in 1..n \/ (i \in n + 1..n + m /\ i \notin 1..n)
    BY <1>1
  <2>2. \A i \in n + 1..n + m : rows'[i].tx # u
    BY <1>6
  <2>3. QED
    BY <1>3, <1>7, <2>1, <2>2 DEF RowsOf
<1>11. QED
  BY <1>1, <1>8, <1>9, <1>10 DEF LeftAll

(* Steps that do not commit leave everybody's rows. *)
LEMMA AnswersKept ==
  ASSUME Shape, Sound, Unseen, AnswerIsTrue, [Next]_vars
  PROVE  Unseen' /\ AnswerIsTrue'
<1>1. ASSUME NEW u \in Tx, Commit(u) PROVE Unseen' /\ AnswerIsTrue'
  <2>0. u \in Actor /\ pc \in [Actor -> Stage] /\ dialect' = dialect
    BY <1>1, Processes DEF Shape, TypeOK, Commit
  <2>1. /\ LeftAll(u)'
        /\ pc'[u] \in Ended /\ pc'[u] # "crashed"
        /\ pc'[u] = "failed" => dialect = "postgres"
    BY <1>1, <2>0, CommitAddsAll DEF Commit, Ended
  <2>2. ASSUME NEW t \in Tx, t # u
        PROVE  /\ pc'[t] = pc[t]
               /\ LeftNone(t)' = LeftNone(t) /\ LeftAll(t)' = LeftAll(t)
    <3>1. RowsOf(t)' = RowsOf(t)
      BY <1>1, <2>2, CommitAddsAll
    <3>2. pc'[t] = pc[t]
      BY <1>1, <2>0, <2>2, Processes DEF Commit
    <3>3. QED
      BY <3>1, <3>2 DEF LeftNone, LeftAll
  <2>3. Unseen'
    BY <2>1, <2>2 DEF Unseen
  <2>4. ASSUME NEW t \in Tx
        PROVE  /\ pc'[t] = "ok" => LeftAll(t)'
               /\ pc'[t] = "crashed" => LeftNone(t)'
               /\ pc'[t] = "failed" => LeftNone(t)' \/ (dialect' = "postgres" /\ LeftAll(t)')
    BY <2>0, <2>1, <2>2 DEF AnswerIsTrue
  <2>5. QED
    BY <2>3, <2>4 DEF AnswerIsTrue
<1>2. ASSUME \A u \in Tx : ~Commit(u) PROVE Unseen' /\ AnswerIsTrue'
  <2>1. rows' = rows
    BY <1>2, RowsChange
  <2>2. ASSUME NEW t \in Tx
        PROVE  LeftNone(t)' = LeftNone(t) /\ LeftAll(t)' = LeftAll(t)
    BY <2>1 DEF LeftNone, LeftAll, RowsOf
  <2>3. ASSUME NEW t \in Tx
        PROVE  /\ pc[t] \in Ended => pc'[t] = pc[t]
               /\ pc'[t] = "ok" => pc[t] = "ok"
               /\ dialect' = dialect
    BY <1>2, EndsOnce
  <2>4. Unseen'
    BY <2>2, <2>3 DEF Unseen
  <2>5. ASSUME NEW t \in Tx
        PROVE  /\ pc'[t] = "ok" => LeftAll(t)'
               /\ pc'[t] = "crashed" => LeftNone(t)'
               /\ pc'[t] = "failed" => LeftNone(t)' \/ (dialect' = "postgres" /\ LeftAll(t)')
    <3>1. CASE pc[t] \in Ended
      BY <2>2, <2>3, <3>1 DEF AnswerIsTrue
    <3>2. CASE pc[t] \notin Ended
      <4>1. LeftNone(t)' /\ pc'[t] # "ok"
        BY <2>2, <2>3, <3>2 DEF Unseen, Ended
      <4>2. QED
        BY <4>1
    <3>3. QED
      BY <3>1, <3>2
  <2>6. QED
    BY <2>4, <2>5 DEF AnswerIsTrue
<1>3. QED
  BY <1>1, <1>2

LEMMA ReadsKept ==
  ASSUME Shape, ReadsStayTrue, [Next]_vars
  PROVE  ReadsStayTrue'
<1> USE DEF Shape, TypeOK
<1>1. ASSUME NEW r \in Reader
      PROVE  answer'[r] = answer[r] \/ (answer'[r] = rows /\ rows' = rows)
  <2>read. ASSUME NEW x \in Reader, Read(x)
           PROVE  answer'[r] = answer[r] \/ (answer'[r] = rows /\ rows' = rows)
    BY <2>read, SeesCommitted DEF Read
  <2>write. CASE \E t \in Tx : TxStep(t)
    BY <2>write DEF TxStep, Begin, LockTimesOut, Decide, Insert, Rollback, Commit
  <2>other. CASE (\E a \in Actor : Arrive(a)) \/ (\E p \in Proc : Crash(p)) \/ UNCHANGED vars
    BY <2>other DEF Arrive, Crash, vars
  <2> QED BY <2>read, <2>write, <2>other DEF Next
<1>2. /\ Len(rows) <= Len(rows') /\ Len(rows) \in Nat
      /\ \A n \in 0..Len(rows) : SubSeq(rows', 1, n) = SubSeq(rows, 1, n)
  <2>1. CASE rows' = rows
    BY <2>1, LenProperties
  <2>2. ASSUME NEW t \in Tx, Commit(t)
        PROVE  /\ Len(rows) <= Len(rows')
               /\ \A n \in 0..Len(rows) : SubSeq(rows', 1, n) = SubSeq(rows, 1, n)
    <3>1. dirty[t] \in Seq(Event) /\ rows' = rows \o dirty[t]
      BY <2>2 DEF Commit
    <3>2. Len(rows') = Len(rows) + Len(dirty[t]) /\ Len(rows) \in Nat /\ Len(dirty[t]) \in Nat
      BY <3>1, ConcatProperties, LenProperties
    <3>3. QED
      BY <3>1, <3>2, PrefixOfConcat
  <2>3. QED
    BY <2>1, <2>2, RowsChange, LenProperties
<1>3. ASSUME NEW r \in Reader
      PROVE  Len(answer'[r]) <= Len(rows') /\ answer'[r] = SubSeq(rows', 1, Len(answer'[r]))
  <2>1. CASE answer'[r] = rows /\ rows' = rows
    BY <1>2, <2>1, SubSeqFull
  <2>2. CASE answer'[r] = answer[r]
    <3>1. Len(answer[r]) \in 0..Len(rows) /\ answer[r] = SubSeq(rows, 1, Len(answer[r]))
      BY <1>2, LenProperties DEF ReadsStayTrue
    <3>2. SubSeq(rows', 1, Len(answer[r])) = SubSeq(rows, 1, Len(answer[r]))
      BY <1>2, <3>1
    <3>3. QED
      BY <1>2, <2>2, <3>1, <3>2, LenProperties
  <2>3. QED
    BY <1>1, <2>1, <2>2
<1>4. QED
  BY <1>3 DEF ReadsStayTrue
-----------------------------------------------------------------------------
LEMMA Starts == Init => Inv
<1> SUFFICES ASSUME Init PROVE Inv
  OBVIOUS
<1> USE DEF Init
<1>0. <<>> \in Seq(Event) /\ <<>> \in Seq(Actor) /\ Len(<<>>) = 0
  BY EmptySeq
<1>1. TypeOK
  BY <1>0 DEF TypeOK, Stage, Undecided
<1>2. Exclusive /\ Clean /\ Heads
  BY CallsAreApart, Processes DEF Exclusive, Clean, Heads
<1>3. Sound
  BY <1>0, InTurnStarts, PlanTypes DEF Sound
<1>4. Current
  BY Processes DEF Current
<1>5. \A t \in Tx : LeftNone(t)
  BY DEF LeftNone, RowsOf
<1>6. Unseen /\ AnswerIsTrue
  BY <1>5, Processes DEF Unseen, AnswerIsTrue
<1>7. ReadsStayTrue
  BY <1>0, SubSeqEmpty DEF ReadsStayTrue
<1>8. QED
  BY <1>1, <1>2, <1>3, <1>4, <1>6, <1>7 DEF Inv, Shape, SqlAnswersAreTrue

LEMMA Kept == Inv /\ [Next]_vars => Inv'
<1> SUFFICES ASSUME Inv, [Next]_vars PROVE Inv'
  OBVIOUS
<1>1. Shape /\ Sound /\ Current /\ Unseen /\ ReadsStayTrue /\ AnswerIsTrue
  BY DEF Inv, SqlAnswersAreTrue
<1>2. Shape'
  BY <1>1, TypesKept, LocksKept DEF Shape
<1>3. Sound' /\ Current'
  BY <1>1, SoundKept, CurrentKept
<1>4. Unseen' /\ AnswerIsTrue' /\ ReadsStayTrue'
  BY <1>1, AnswersKept, ReadsKept
<1>5. QED
  BY <1>2, <1>3, <1>4 DEF Inv, SqlAnswersAreTrue

LEMMA Always == Spec => []Inv
BY Starts, Kept, PTL DEF Spec

(* The rows, mutexes, locks and decisions of both stores stay of their     *)
(* types, however calls of any number of processes interleave (:90-183).   *)
THEOREM TypeCorrect == Spec => []TypeOK
<1>1. Inv => TypeOK
  BY DEF Inv, Shape
<1>2. QED
  BY <1>1, Always, PTL

(* No plain read of either store ever returns a row that is rolled back    *)
(* later; a SQLite transaction that threw or died left no row, and one     *)
(* that returned left them all (:132-155).                                 *)
THEOREM AnswersAreTrue == Spec => []SqlAnswersAreTrue
<1>1. Inv => SqlAnswersAreTrue
  BY DEF Inv
<1>2. QED
  BY <1>1, Always, PTL

(* One writer: at most one transaction of all processes is between its     *)
(* BEGIN and its end, and it alone has uncommitted rows (:136-182).        *)
THEOREM OneWriter ==
  Spec => [](\A t, u \in Tx : pc[t] \in {"work", "insert"} /\ dirty[u] # <<>> => u = t)
<1>1. Inv => \A t, u \in Tx : pc[t] \in {"work", "insert"} /\ dirty[u] # <<>> => u = t
  BY DEF Inv, Shape, Exclusive, Clean
<1>2. QED
  BY <1>1, Always, PTL

-----------------------------------------------------------------------------
(* The refinement: a commit is a commit of the log, with what the          *)
(* transaction decided still true of it; no other step shows.              *)
LEMMA CommitIsLogged ==
  ASSUME Inv, NEW t \in Tx, Commit(t)
  PROVE  Log!Commit(t)
<1>1. Shape /\ Sound /\ Unseen
  BY DEF Inv
<1>2. /\ rows \in Seq(Event) /\ dirty[t] \in Seq(Event)
      /\ rows' = rows \o dirty[t] /\ Len(dirty[t]) = Len(Plan[t]) /\ pc[t] = "work"
      /\ Len(rows) \in Nat /\ Len(dirty[t]) \in Nat
  BY <1>1, LenProperties DEF Shape, TypeOK, Commit
<1>3. /\ rows' \in Seq(Event) /\ Len(rows') = Len(rows) + Len(dirty[t])
  BY <1>2, ConcatProperties
<1>4. SubSeq(rows', Len(rows) + 1, Len(rows')) = dirty[t]
  <2>1. CASE Len(dirty[t]) = 0
    <3>1. dirty[t] = <<>>
      BY <1>2, <2>1, EmptySeq
    <3>2. Len(rows') < Len(rows) + 1
      BY <1>2, <1>3, <2>1
    <3>3. QED
      BY <1>2, <1>3, <3>1, <3>2, SubSeqEmpty
  <2>2. CASE Len(dirty[t]) # 0
    <3>1. /\ Len(rows) + 1 \in Len(rows) + 1..Len(rows) + Len(dirty[t])
          /\ Len(rows') \in Len(rows) + 1..Len(rows) + Len(dirty[t])
      BY <1>2, <1>3, <2>2
    <3>2. SubSeq(rows', Len(rows) + 1, Len(rows')) = SubSeq(dirty[t], 1, Len(dirty[t]))
      <4>1. SubSeq(rows \o dirty[t], Len(rows) + 1, Len(rows'))
              = SubSeq(dirty[t], Len(rows) + 1 - Len(rows), Len(rows') - Len(rows))
        BY <1>2, <3>1, SubSeqOfConcat2
      <4>2. Len(rows) + 1 - Len(rows) = 1 /\ Len(rows') - Len(rows) = Len(dirty[t])
        BY <1>2, <1>3
      <4>3. QED
        BY <1>2, <4>1, <4>2
    <3>3. QED
      BY <1>2, <3>2, SubSeqFull
  <2>3. QED
    BY <2>1, <2>2
<1>5. \A j \in DOMAIN rows : rows[j].tx # t
  BY <1>1, <1>2 DEF Unseen, LeftNone, RowsOf, Ended
<1>6. Log!InTurn(rows, dirty[t], t)
  BY <1>1 DEF Sound
<1>7. QED
  BY <1>2, <1>4, <1>5, <1>6 DEF Log!Commit

LEMMA StepIsLogged == Inv /\ [Next]_vars => [Log!Next]_rows
<1> SUFFICES ASSUME Inv, [Next]_vars, rows' # rows PROVE Log!Next
  OBVIOUS
<1>1. PICK t \in Tx : Commit(t)
  BY RowsChange DEF Inv
<1>2. Log!Commit(t)
  BY <1>1, CommitIsLogged
<1>3. QED
  BY <1>2 DEF Log!Next

(* Either SQL store implements the evidence log: it only ever grows by     *)
(* whole transactions, each of whose events was legal, and was numbered,   *)
(* after the log as it is at the commit, whatever other processes did      *)
(* between the read and the write (:136-182).                              *)
THEOREM LogImplemented == Spec => ImplementsLog
<1>1. Init => Log!Init
  BY DEF Init, Log!Init
<1>2. QED
  BY <1>1, Always, StepIsLogged, PTL DEF Spec, ImplementsLog, Log!Spec
=============================================================================
