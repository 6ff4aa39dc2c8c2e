----------------------------- MODULE EventChain -----------------------------
(***************************************************************************)
(* What a replay can say of the events of one intent as they come back     *)
(* from a store (core/event/ReplayEngine.ts, EventHasher.ts), and of the   *)
(* completion a capability names as its source (sdk/client.ts).            *)
(*                                                                         *)
(* SHA-256 over the sorted JSON of an event is the tuple of the event's    *)
(* own fields: two different events never have the same hash.              *)
(***************************************************************************)
EXTENDS Naturals, Sequences, FiniteSets, SequencesExt

CONSTANTS Body,         \* payloads of events: what a reader could mistake
          Completed,    \* the payload of a completion that succeeded
          MaxEvents, MaxDamage

ASSUME EventsAreBounded == MaxEvents \in Nat

VARIABLES chain,        \* the events as they were appended
          copy,         \* the events as the store gives them back
          damage        \* how often the copy was damaged

eventVars == <<chain, copy, damage>>

NoHash == <<>>
Hash(sequence, payload, previous) == <<sequence, payload, previous>>

(* finalizeEvent: an event is linked to the last one by that one's hash. *)
Linked(events, payload) ==
  LET previous == IF events = <<>> THEN NoHash ELSE Last(events).hash
      sequence == Len(events) + 1
  IN  [sequence |-> sequence, payload |-> payload, previous |-> previous,
       hash |-> Hash(sequence, payload, previous)]

EventsInit == chain = <<>> /\ copy = <<>> /\ damage = 0

(* The engine appends an event; a store that is sound holds it too. *)
Append1 ==
  /\ Len(chain) < MaxEvents /\ damage = 0
  /\ \E p \in Body : chain' = Append(chain, Linked(chain, p))
  /\ copy' = chain'
  /\ UNCHANGED damage

(* What may befall events outside the program: lost, doubled, put in       *)
(* another order, or changed in one field.                                 *)
Altered(e) ==
  {[e EXCEPT !.payload = p] : p \in Body}
  \cup {[e EXCEPT !.sequence = n] : n \in 1 .. MaxEvents}
  \cup {[e EXCEPT !.previous = g.hash] : g \in Range(chain)}

Damaged(events) ==
  UNION {{RemoveAt(events, i), InsertAt(events, i, events[i])}
           \cup {ReplaceAt(events, i, e) : e \in Altered(events[i])} : i \in DOMAIN events}

Damage ==
  /\ damage < MaxDamage
  /\ copy' \in Damaged(copy)
  /\ damage' = damage + 1
  /\ UNCHANGED chain

EventsNext == Append1 \/ Damage

EventsSpec == EventsInit /\ [][EventsNext]_eventVars

-----------------------------------------------------------------------------
(* replayIntent sorts by sequence, and Array.sort is stable. *)
Earlier(events, i, j) ==
  \/ events[i].sequence < events[j].sequence
  \/ events[i].sequence = events[j].sequence /\ i < j

Rank(events, i) == 1 + Cardinality({j \in DOMAIN events : Earlier(events, j, i)})

Ordered(events) ==
  [k \in DOMAIN events |-> events[CHOOSE i \in DOMAIN events : Rank(events, i) = k]]

Recomputed(e) == Hash(e.sequence, e.payload, e.previous)

(* Mutant: only the links are compared. *)
IntactLinks(events) ==
  \A i \in DOMAIN events :
    events[i].previous = (IF i = 1 THEN NoHash ELSE events[i - 1].hash)

(* validateIntegrity: every link and every hash, in the sorted order. *)
Intact(events) ==
  LET Unlinked(i) == events[i].previous # (IF i = 1 THEN NoHash ELSE events[i - 1].hash)
  IN  \A i \in DOMAIN events : ~Unlinked(i) /\ Recomputed(events[i]) = events[i].hash

(* replayIntent of the SDK: the source a token names by its hash. *)
SourceVerified(source, hash) ==
  /\ \E e \in Range(source) : e.hash = hash /\ e.payload = Completed
  /\ Intact(Ordered(source))

-----------------------------------------------------------------------------
(* A replay calls a chain intact exactly when it is the beginning of what  *)
(* was appended, whatever the order the events come back in; only events   *)
(* missing at the end go unnoticed (ReplayEngine.ts:validateIntegrity).    *)
IntactMeansGenuine ==
  copy # <<>> => (Intact(Ordered(copy)) <=> IsPrefix(Ordered(copy), chain))

(* A source that is called verified is a completion that was appended as   *)
(* one: a token can neither name a failure nor an event that never was     *)
(* (sdk/client.ts:replayIntent).                                           *)
VerifiedSourceSucceeded ==
  \A e \in Range(chain) \cup Range(copy) :
    SourceVerified(copy, e.hash) => \E g \in Range(chain) : g.hash = e.hash /\ g.payload = Completed
=============================================================================
