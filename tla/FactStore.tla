------------------------------ MODULE FactStore ------------------------------
(***************************************************************************)
(* The prototype in packages/: proposals of facts, decided by a policy and *)
(* appended to a list, and the state that is derived from the list when    *)
(* somebody asks (packages/engine, policy, store, reducer, sdk-js, and the *)
(* routes of apps/reference-server).  Proposals overlap while their policy *)
(* is asked.                                                               *)
(***************************************************************************)
EXTENDS Naturals, Sequences, Functions

CONSTANTS Proposal,
          Facts,        \* [Proposal -> sequence of [type, start, end]]: end 0 is no end
          Entity,       \* [Proposal -> the target]
          Governed,     \* proposals with capabilities or temporal bounds
          MaxClock

VARIABLES clock,
          events,       \* MemoryEventStore
          proposal,     \* [Proposal -> where submitProposal is]
          answered      \* the allowed proposals, in the order of their answers

vars == <<clock, events, proposal, answered>>

Init ==
  /\ clock = 1 /\ events = <<>> /\ answered = <<>>
  /\ proposal = [p \in Proposal |-> [pc |-> "new", context |-> <<>>]]

EventsOf(entity) == SelectSeq(events, LAMBDA e : Entity[e.source] = entity)

Moves(p, pc) == proposal' = [proposal EXCEPT ![p].pc = pc]

-----------------------------------------------------------------------------
(* submitProposal up to its await: what only a governed engine can do is   *)
(* refused, and the policy gets the events as they are now.                *)
Submit(p) ==
  /\ proposal[p].pc = "new"
  /\ IF p \in Governed
       THEN Moves(p, "refused")
       ELSE proposal' = [proposal EXCEPT ![p] =
              [pc |-> "evaluating", context |-> EventsOf(Entity[p])]]
  /\ UNCHANGED <<clock, events, answered>>

(* Mutant: the store is written back as the policy was shown it. *)
AllowAsShown(p) ==
  /\ proposal[p].pc = "evaluating"
  /\ Moves(p, "allowed")
  /\ events' = Append(proposal[p].context, [source |-> p, facts |-> Facts[p], at |-> clock])
  /\ answered' = Append(answered, p)
  /\ UNCHANGED clock

(* The adapter answers: allowed, or not; the event is appended in the same *)
(* step, with the time of now.                                             *)
Allow(p) ==
  /\ proposal[p].pc = "evaluating"
  /\ Moves(p, "allowed")
  /\ events' = Append(events, [source |-> p, facts |-> Facts[p], at |-> clock])
  /\ answered' = Append(answered, p)
  /\ UNCHANGED clock

(* The policy says no, OPA has no result, or asking it throws. *)
Deny(p) ==
  /\ proposal[p].pc = "evaluating"
  /\ \E end \in {"denied", "threw"} : Moves(p, end)
  /\ UNCHANGED <<clock, events, answered>>

Tick == clock < MaxClock /\ clock' = clock + 1 /\ UNCHANGED <<events, proposal, answered>>

Next == Tick \/ \E p \in Proposal : Submit(p) \/ Allow(p) \/ Deny(p)

Spec == Init /\ [][Next]_vars

-----------------------------------------------------------------------------
(* collectActiveFacts: is the fact valid now? *)
Active(f) == f.start <= clock /\ (f.end = 0 \/ f.end >= clock)

(* resolveConflicts: a map keyed by type, into which the facts that the    *)
(* filter of collectActiveFacts leaves are written in their order.         *)
Written(state, facts) ==
  LET after[k \in 0 .. Len(facts)] ==
        IF k = 0 THEN state
        ELSE LET f == facts[k] IN
             IF Active(f)
               THEN [t \in DOMAIN after[k - 1] \cup {f.type} |->
                       IF t = f.type THEN f ELSE after[k - 1][t]]
               ELSE after[k - 1]
  IN  after[Len(facts)]

(* reduceEvents, which GET /state/:entityId returns: one event after the   *)
(* other, of those of the entity.                                          *)
StateOf(entity) ==
  LET after[n \in 0 .. Len(events)] ==
        IF n = 0 THEN <<>>
        ELSE IF Entity[events[n].source] = entity
               THEN Written(after[n - 1], events[n].facts)
               ELSE after[n - 1]
  IN  after[Len(events)]

-----------------------------------------------------------------------------
(* The list is the allowed proposals, each once, in the order of their     *)
(* answers, however long their policies took; whatever was not allowed     *)
(* left nothing (submitProposal.ts:15-34).                                 *)
ListIsWhatWasAllowed ==
  /\ [n \in DOMAIN events |-> events[n].source] = answered
  /\ Range(answered) = {p \in Proposal : proposal[p].pc = "allowed"}
  /\ \A m, n \in DOMAIN answered : answered[m] = answered[n] => m = n

(* What the state says of a type is the fact of the latest event among     *)
(* those valid now; a fact that expires lets an older one reappear         *)
(* (collectActiveFacts.ts:3-12, resolveConflicts.ts:3-10).                 *)
Positions(entity, t) ==
  UNION {{<<n, k>> : k \in {k \in DOMAIN events[n].facts :
                              /\ events[n].facts[k].type = t
                              /\ Active(events[n].facts[k])}} :
         n \in {n \in DOMAIN events : Entity[events[n].source] = entity}}
IsLatest(pos, positions) ==
  \A other \in positions :
    other[1] < pos[1] \/ (other[1] = pos[1] /\ other[2] <= pos[2])
StateIsTheLatestValidFact ==
  \A p \in Proposal :
    \A t \in {f.type : f \in UNION {Range(Facts[q]) : q \in Proposal}} :
      LET positions == Positions(Entity[p], t)
          state == StateOf(Entity[p])
      IN  /\ t \in DOMAIN state <=> positions # {}
          /\ \A pos \in positions :
               IsLatest(pos, positions) => state[t] = events[pos[1]].facts[pos[2]]
=============================================================================
