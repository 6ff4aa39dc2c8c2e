---------------------------- MODULE EngineProofs ----------------------------
(***************************************************************************)
(* Theorems about the engine, for any number of intents and calls, any     *)
(* limits and any faults.  What a call's variables say of one another is   *)
(* Sane; what they say of the stored trace rests on one call at most being *)
(* the one that a governed store received.  About the commands around it:  *)
(* what they say of a call is final, because the call is over by then.  And*)
(* about the terminations of the adapters and of the pilot: a request is   *)
(* sent after all the checks, an instance goes only once it is accepted,   *)
(* and then the session that sent it is no wider than the contract.        *)
(***************************************************************************)
EXTENDS CommandLine, Effects, Integers, SequenceTheorems, FiniteSetTheorems, TLAPS

MainStage == {"receive", "stage", "reserve", "issue", "auditIssue", "auditUse", "unlock",
              "enter", "race", "revoke", "revokeDone", "mint",
              "cancel", "reject", "skip", "fail", "over"}
WorkStage == {"off", "executing", "record", "resolved", "rejected"}
Answer == {"none", "refused", "blocked", "failed", "success", "thrown", "dead"}

CallState ==
  [intent: Intent, main: MainStage, stage: 1..Len(Stages), work: WorkStage,
   evaluation: Evaluation, contractEnd: Nat, started: BOOLEAN, aborted: BOOLEAN,
   result: Result, admission: BOOLEAN, answer: Answer, effected: BOOLEAN, lost: BOOLEAN]

EventRecord == [status: TraceStatus, at: Nat, evaluation: Evaluation, result: Result,
                error: BOOLEAN]

(* Only a call whose executor was started has a worker, and effects; only  *)
(* one with a contract has an identity; and only one without an identity   *)
(* is refused or blocked.  Policy allowed it before it got that far.       *)
Sane(s) ==
  /\ s \in CallState
  /\ ~s.started => ~s.effected /\ s.work = "off"
  /\ s.started => /\ s.main \in {"race", "revoke", "revokeDone", "mint", "fail", "over"}
                  /\ Governed => s.contractEnd # 0
  /\ s.main \in {"race", "revokeDone", "mint"} => s.started
  /\ s.work = "executing" => ~s.effected
  /\ s.work \in {"record", "resolved"} => /\ s.result \in {"success", "failure"}
                                          /\ s.effected <=> s.result = "success"
  /\ s.contractEnd # 0 => s.main \notin {"receive", "stage", "reserve"} /\ ~s.lost
  /\ Governed /\ s.main \in {"issue", "auditIssue", "auditUse", "unlock", "enter", "revoke"}
       => s.contractEnd # 0
  /\ s.main = "cancel" => s.contractEnd # 0
  /\ s.lost => s.main \in {"fail", "over"}
  /\ s.main # "over" <=> s.answer = "none"
  /\ s.answer \in {"refused", "blocked"} => ~s.started
  /\ s.main \in {"reserve", "issue", "auditIssue", "auditUse", "unlock", "enter"} \/ s.started
       => s.evaluation = "allowed"
  /\ s.main = "receive" \/ s.answer = "refused" => s.evaluation = "none"
  /\ s.main = "skip" \/ s.answer = "blocked" => s.evaluation = "denied"
  /\ s.main \in {"revokeDone", "mint"} \/ s.answer = "success" => s.work = "resolved"
  /\ s.main = "mint" \/ s.answer = "success" => s.result = "success" /\ s.started

(* It was received, and has begun something that others may rely on. *)
Engaged(s) == \/ s.main \notin {"receive", "over"}
              \/ s.answer \in {"success", "blocked", "failed", "thrown"}
              \/ s.started \/ s.contractEnd # 0 \/ s.lost
HasReserved(s) == s.contractEnd # 0 \/ s.lost

(* The reservation of a call that was not started has been cancelled. *)
Closed(s) == \/ s.main \in {"reject", "fail", "skip"}
             \/ s.answer \in {"success", "blocked", "failed"}
Ending == {"reject", "fail", "skip", "over"}

(* The events that have a field have a last one: what CHOOSE in TraceOf    *)
(* and in LastOf relies on.                                                *)
Given(h, field) == {j \in DOMAIN h : h[j][field] # "none"}
HasLast(S) == S = {} \/ \E j \in S : \A k \in S : k <= j
Field == {"status", "evaluation", "result"}
History == {h \in Seq(EventRecord) : \A field \in Field : HasLast(Given(h, field))}

TypeOK == /\ clock \in Nat
          /\ history \in [Intent -> History]
          /\ call \in [Call -> CallState]
          /\ \A c \in Call : Sane(call[c])

Known(c) == Engaged(call[c]) => history[call[c].intent] # <<>>
Sole(c, d) == c # d /\ call[c].intent = call[d].intent
                => ~(Engaged(call[c]) /\ Engaged(call[d]))
Unreserved(c) == Engaged(call[c]) /\ ~HasReserved(call[c]) => TraceOfCall(c).status = "none"
Freed(c) == Engaged(call[c]) /\ TraceOfCall(c).status = "FAILED"
              => /\ ~call[c].effected /\ call[c].work \notin {"executing", "record"}
                 /\ ~call[c].started => call[c].main \in Ending
Settled(c) == call[c].contractEnd # 0 /\ ~call[c].started /\ Closed(call[c])
                => TraceOfCall(c).status # "RESERVED"

Governing == \A c \in Call : /\ Known(c) /\ Unreserved(c) /\ Freed(c) /\ Settled(c)
                             /\ \A d \in Call : Sole(c, d)
-----------------------------------------------------------------------------
(* A field of a list of events is that of the last event that has it.      *)
Last(S) == CHOOSE j \in S : \A k \in S : k <= j

LEMMA GivenByAppend ==
  ASSUME NEW h \in History, NEW e \in EventRecord, NEW field \in Field
  PROVE  /\ HasLast(Given(Append(h, e), field))
         /\ e[field] = "none" =>
              /\ Given(Append(h, e), field) = Given(h, field)
              /\ Given(h, field) # {} =>
                   Append(h, e)[Last(Given(h, field))] = h[Last(Given(h, field))]
         /\ e[field] # "none" =>
              /\ Given(Append(h, e), field) # {}
              /\ Append(h, e)[Last(Given(Append(h, e), field))] = e
<1> DEFINE g == Append(h, e)
           n == Len(h)
           G(q) == Given(q, field)
<1>1. /\ n \in Nat /\ DOMAIN h = 1..n /\ DOMAIN g = 1..(n + 1)
      /\ \A j \in 1..n : g[j] = h[j]
      /\ g[n + 1] = e
  BY AppendProperties, LenProperties DEF History
<1>2. HasLast(G(h))
  BY DEF History
<1> SUFFICES /\ HasLast(G(g))
             /\ e[field] = "none" => /\ G(g) = G(h)
                                     /\ G(h) # {} => g[Last(G(h))] = h[Last(G(h))]
             /\ e[field] # "none" => G(g) # {} /\ g[Last(G(g))] = e
  BY Zenon
<1> HIDE DEF g, n
<1>3. CASE e[field] = "none"
  <2>1. G(g) = G(h) /\ G(h) \subseteq 1..n
    BY <1>1, <1>3 DEF Given
  <2> HIDE DEF G
  <2>2. HasLast(G(g))
    BY <1>2, <2>1
  <2>3. G(h) # {} => Last(G(h)) \in G(h)
    BY <1>2 DEF HasLast, Last
  <2>4. G(h) # {} => g[Last(G(h))] = h[Last(G(h))]
    BY <1>1, <2>1, <2>3
  <2>5. QED
    BY <1>3, <2>1, <2>2, <2>4
<1>4. CASE e[field] # "none"
  <2>1. n + 1 \in G(g) /\ \A k \in G(g) : k <= n + 1
    BY <1>1, <1>4 DEF Given
  <2>2. G(g) \subseteq Nat
    BY <1>1 DEF Given
  <2> HIDE DEF G
  <2>3. Last(G(g)) = n + 1
    BY <1>1, <2>1, <2>2 DEF Last
  <2>4. HasLast(G(g))
    BY <2>1 DEF HasLast
  <2>5. QED
    BY <1>1, <1>4, <2>1, <2>3, <2>4
<1>5. QED
  BY <1>3, <1>4

LEMMA AppendToHistory ==
  ASSUME NEW h \in History, NEW e \in EventRecord
  PROVE  Append(h, e) \in History
<1>1. Append(h, e) \in Seq(EventRecord)
  BY AppendProperties DEF History
<1>2. QED
  BY <1>1, GivenByAppend DEF History

LEMMA TraceOfAppend ==
  ASSUME NEW h \in History, NEW e \in EventRecord
  PROVE  /\ e.status = "none" => TraceOf(Append(h, e)) = TraceOf(h)
         /\ e.status # "none" => TraceOf(Append(h, e)).status = e.status
<1> DEFINE T(q) == Given(q, "status")
           Tr(q) == IF T(q) = {} THEN NoTrace
                    ELSE [status |-> q[Last(T(q))].status, at |-> q[Last(T(q))].at]
<1>1. \A q : TraceOf(q) = Tr(q)
  BY Zenon DEF TraceOf, Given, Last
<1>2. "status" \in Field /\ e["status"] = e.status
  BY DEF Field
<1> HIDE DEF T
<1>3. /\ e.status = "none" => /\ T(Append(h, e)) = T(h)
                              /\ T(h) # {} => Append(h, e)[Last(T(h))] = h[Last(T(h))]
      /\ e.status # "none" => /\ T(Append(h, e)) # {}
                              /\ Append(h, e)[Last(T(Append(h, e)))] = e
  BY <1>2, GivenByAppend DEF T
<1>4. QED
  BY <1>1, <1>3

LEMMA LastOfAppend ==
  ASSUME NEW h \in History, NEW e \in EventRecord, NEW field \in {"evaluation", "result"}
  PROVE  LastOf(Append(h, e), field) =
           IF e[field] # "none" THEN e[field] ELSE LastOf(h, field)
<1> DEFINE G(q) == Given(q, field)
           L(q) == IF G(q) = {} THEN "none" ELSE q[Last(G(q))][field]
<1>1. \A q : LastOf(q, field) = L(q)
  BY Zenon DEF LastOf, Given, Last
<1>2. field \in Field
  BY DEF Field
<1> HIDE DEF G
<1>3. /\ e[field] = "none" => /\ G(Append(h, e)) = G(h)
                              /\ G(h) # {} => Append(h, e)[Last(G(h))] = h[Last(G(h))]
      /\ e[field] # "none" => /\ G(Append(h, e)) # {}
                              /\ Append(h, e)[Last(G(Append(h, e)))] = e
  BY <1>2, GivenByAppend DEF G
<1>4. QED
  BY <1>1, <1>3

(* What storing an event does to the traces, and to what replay() sees.    *)
Grows == /\ history' \in [Intent -> History]
         /\ \A i \in Intent : history[i] # <<>> => history'[i] # <<>>

Evaluated == [i \in Intent |-> LastOf(history[i], "evaluation")]
ResultOf == [i \in Intent |-> LastOf(history[i], "result")]
Failing == {i \in Intent : \E j \in DOMAIN history[i] : history[i][j].error}
Hears(i, evaluation, result) ==
  /\ Evaluated'[i] = IF evaluation # "none" THEN evaluation ELSE Evaluated[i]
  /\ ResultOf'[i] = IF result # "none" THEN result ELSE ResultOf[i]

LEMMA StoreTraces ==
  ASSUME TypeOK, NEW i \in Intent, NEW e \in EventRecord, Store(i, e)
  PROVE  /\ Grows /\ history'[i] # <<>>
         /\ \A j \in Intent : j # i => history'[j] = history[j]
         /\ e.status = "none" => Traces'[i] = Traces[i]
         /\ e.status # "none" => Traces'[i].status = e.status
         /\ Hears(i, e.evaluation, e.result)
         /\ i \in Failing' <=> i \in Failing \/ e.error
<1>1. /\ history \in [Intent -> History]
      /\ \A j \in Intent : Traces[j] = TraceOf(history[j]) /\ Traces'[j] = TraceOf(history'[j])
  BY DEF TypeOK, Traces
<1>2. CASE /\ history' = history /\ history[i] # <<>> /\ e.status = "none" /\ ~e.error
           /\ e.result = "none" /\ e.evaluation \in {"none", Evaluated[i]}
  <2>1. i \in Failing' <=> i \in Failing
    BY <1>2 DEF Failing
  <2>2. Hears(i, e.evaluation, e.result)
    BY <1>2 DEF Hears, Evaluated, ResultOf
  <2>3. QED
    BY <1>1, <1>2, <2>1, <2>2 DEF Grows
<1>3. CASE history' = [history EXCEPT ![i] = Append(@, e)]
  <2>1. history[i] \in History /\ history[i] \in Seq(EventRecord)
    BY <1>1 DEF History
  <2>2. history'[i] = Append(history[i], e) /\ \A j \in Intent : j # i => history'[j] = history[j]
    BY <1>1, <1>3
  <2>3. Append(history[i], e) # <<>>
    BY <2>1, AppendProperties
  <2>4. Append(history[i], e) \in History
    BY <2>1, AppendToHistory
  <2>5. Grows
    BY <1>1, <1>3, <2>2, <2>3, <2>4 DEF Grows
  <2>6. /\ e.status = "none" => TraceOf(history'[i]) = TraceOf(history[i])
        /\ e.status # "none" => TraceOf(history'[i]).status = e.status
    BY <2>1, <2>2, TraceOfAppend
  <2>7. Hears(i, e.evaluation, e.result)
    <3>1. Evaluated'[i] = IF e.evaluation # "none" THEN e.evaluation ELSE Evaluated[i]
      BY <2>1, <2>2, LastOfAppend DEF Evaluated
    <3>2. ResultOf'[i] = IF e.result # "none" THEN e.result ELSE ResultOf[i]
      BY <2>1, <2>2, LastOfAppend DEF ResultOf
    <3>3. QED
      BY <3>1, <3>2 DEF Hears
  <2>8. i \in Failing' <=> i \in Failing \/ e.error
    <3>1. /\ DOMAIN history'[i] = DOMAIN history[i] \cup {Len(history[i]) + 1}
          /\ \A j \in DOMAIN history[i] : history'[i][j] = history[i][j]
          /\ history'[i][Len(history[i]) + 1] = e
      BY <2>1, <2>2, AppendProperties, LenProperties
    <3>2. QED
      BY <3>1 DEF Failing
  <2>9. QED
    BY <1>1, <2>2, <2>3, <2>5, <2>6, <2>7, <2>8
<1>4. QED
  BY <1>2, <1>3 DEF Store, Evaluated

IsEvent(e, status, evaluation, result) ==
  /\ e \in EventRecord /\ e.status = status /\ e.evaluation = evaluation /\ e.result = result
Plain(e, status, evaluation, result) == IsEvent(e, status, evaluation, result) /\ ~e.error

LEMMA PlainEvent ==
  ASSUME clock \in Nat, NEW s, s.evaluation \in Evaluation, NEW type, NEW result \in Result
  PROVE  Plain(Event(s, type, result, FALSE), StatusOf(type, result), s.evaluation, result)
BY DEF Plain, IsEvent, Event, EventRecord, StatusOf, TraceStatus

LEMMA ErrorEvent ==
  ASSUME clock \in Nat, NEW s, s.evaluation \in Evaluation, NEW type, NEW result \in Result
  PROVE  /\ IsEvent(Event(s, type, result, TRUE), StatusOf(type, result), s.evaluation, result)
         /\ Event(s, type, result, TRUE).error
BY DEF IsEvent, Event, EventRecord, StatusOf, TraceStatus
-----------------------------------------------------------------------------
(* A step of a call takes its variables from o to s and changes no trace   *)
(* but that of its intent, in one of five ways.                            *)
MayStart(o) == o.main = "enter" /\ (Governed => clock < o.contractEnd)
Onward(o, s) ==
  /\ Sane(s)
  /\ s.intent = o.intent /\ s.main # "receive"
  /\ o.started => s.started
  /\ s.started => o.started \/ MayStart(o)
  /\ s.answer = "refused" => o.answer = "refused" \/ o.main = "receive"
  /\ s.evaluation = "none" => o.evaluation = "none"
  /\ s.effected => o.effected \/ o.work = "executing"
  /\ s.work \in {"executing", "record"} => o.work \in {"executing", "record"} \/ o.main = "enter"
  /\ o.main \in Ending => s.main \in Ending
  /\ HasReserved(o) => HasReserved(s)

Calm(o, s) ==
  /\ Onward(o, s)
  /\ Engaged(s) => Engaged(o)
  /\ s.contractEnd # 0 => o.contractEnd # 0
  /\ s.contractEnd # 0 /\ ~s.started /\ Closed(s) => Closed(o)

Keeps(i) == Traces'[i] = Traces[i]
Begins(o, s) == /\ Keeps(o.intent) /\ history'[o.intent] # <<>>
                /\ Governed => history[o.intent] = <<>>
                /\ o.main = "receive" /\ s.contractEnd = 0
Reserves(o, s) == /\ o.main = "reserve" /\ Traces'[o.intent].status = "RESERVED"
                  /\ HasReserved(s)
                  /\ s.contractEnd # 0 => ~Closed(s)
Cancels(o, s) == /\ o.main = "cancel" /\ Traces'[o.intent].status = "FAILED"
                 /\ s.main \in Ending /\ s.contractEnd # 0
Completes(o, s) == /\ o.work = "record"
                   /\ Traces'[o.intent].status = IF s.effected THEN "SUCCESS" ELSE "FAILED"
                   /\ s.work \notin {"executing", "record"} /\ s.started
                   /\ Governed => s.contractEnd # 0

(* What the call says, with or without an error, agrees with its variables.*)
(* Once it has answered it says only how its worker ended.                 *)
Agrees(o, s, evaluation) ==
  /\ o.main = "over" => s.main = "over" /\ s.answer = o.answer
  /\ s.evaluation # "none" /\ s.answer # "thrown" =>
       /\ o.answer # "thrown"
       /\ s.evaluation = IF evaluation # "none" THEN evaluation ELSE o.evaluation
  /\ s.answer # "thrown" => evaluation \in {"none", s.evaluation}
Says(o, s, evaluation, result) ==
  /\ Agrees(o, s, evaluation)
  /\ s.work = "resolved" => IF result # "none" THEN s.result = result
                            ELSE o.work = "resolved" /\ s.result = o.result
  /\ s.answer = "failed" => \/ s.work = "resolved" /\ s.result = "failure" /\ s.started
                            \/ o.answer = "failed" /\ o.work # "resolved"
Errs(o, s, evaluation) ==
  /\ Agrees(o, s, evaluation)
  /\ s.main = "over" /\ s.answer \in {"failed", "thrown"}
Mute(o, s) == Says(o, s, "none", "none")
Quiet(o, s) == Calm(o, s) /\ Mute(o, s)

Writes(c) == \/ Engaged(call[c])
             \/ call[c].main = "receive" /\ (Governed => history[call[c].intent] = <<>>)

Turn(c, s) ==
  LET o == call[c]
      i == call[c].intent
  IN /\ call' = [call EXCEPT ![c] = s] /\ clock' = clock /\ Grows
     /\ \A j \in Intent : j # i => history'[j] = history[j]
     /\ history' = history \/ Writes(c)
     /\ Onward(o, s)
     /\ \/ Keeps(i) /\ Calm(o, s)
        \/ Begins(o, s)
        \/ Reserves(o, s)
        \/ Cancels(o, s)
        \/ Completes(o, s)
     /\ \/ history' = history /\ Mute(o, s)
        \/ \E evaluation \in Evaluation, result \in Result :
             /\ Hears(i, evaluation, result)
             /\ \/ (i \in Failing' <=> i \in Failing) /\ Says(o, s, evaluation, result)
                \/ i \in Failing' /\ Errs(o, s, evaluation)

LEMMA TurnKeepsTypes == ASSUME TypeOK, NEW c \in Call, NEW s, Turn(c, s) PROVE TypeOK'
BY DEF TypeOK, Turn, Grows, Onward, Sane

LEMMA TurnKeepsGoverning ==
  ASSUME Governed, TypeOK, Governing, NEW c \in Call, NEW s, Turn(c, s)
  PROVE  Governing'
<1> DEFINE o == call[c]
           i == o.intent
<1>1. /\ call'[c] = s /\ \A d \in Call : d # c => call'[d] = call[d]
      /\ o \in CallState /\ Sane(o) /\ Sane(s) /\ Onward(o, s) /\ i \in Intent /\ s.intent = i
      /\ \A d \in Call : call[d].intent \in Intent
  BY DEF TypeOK, Turn, Onward, Sane, CallState
<1>2. /\ Known(c) /\ Unreserved(c) /\ Freed(c) /\ Settled(c)
      /\ \A d \in Call : d # c /\ call[d].intent = i => ~(Engaged(o) /\ Engaged(call[d]))
  BY DEF Governing, Sole
<1>3. history[i] = <<>> => Traces[i].status = "none"
  BY <1>1 DEF Traces, TraceOf, NoTrace
<1>4. /\ \A j \in Intent : history[j] # <<>> => history'[j] # <<>>
      /\ \A j \in Intent : j # i => Traces'[j] = Traces[j]
  BY DEF Turn, Grows, Traces
<1>5. \/ Traces'[i] = Traces[i] /\ Calm(o, s)
      \/ Begins(o, s)
      \/ Reserves(o, s)
      \/ Cancels(o, s)
      \/ Completes(o, s)
  BY DEF Turn, Keeps
(* Either the call was already the one that was received, or nobody was. *)
<1>6. \/ Engaged(s) => Engaged(o)
      \/ history[i] = <<>> /\ history'[i] # <<>> /\ Traces'[i] = Traces[i]
  BY <1>1, <1>5 DEF Calm, Begins, Reserves, Cancels, Completes, Engaged, Sane, Keeps
<1>7. Traces'[i] = Traces[i] \/ Engaged(o)
  BY <1>1, <1>5 DEF Begins, Reserves, Cancels, Completes, Engaged, Sane, Keeps
<1>8. ASSUME NEW d \in Call, d # c, Engaged(call[d])
      PROVE  /\ call'[d] = call[d] /\ Traces'[call[d].intent] = Traces[call[d].intent]
             /\ call[d].intent = i => ~Engaged(s)
             /\ history[call[d].intent] # <<>>
  <2>1. history[call[d].intent] # <<>>
    BY <1>8 DEF Governing, Known
  <2>2. call[d].intent = i => ~Engaged(o) /\ ~Engaged(s)
    BY <1>2, <1>6, <1>8, <2>1
  <2>3. QED
    BY <1>1, <1>4, <1>7, <1>8, <2>1, <2>2
<1>9. Known(c)'
  BY <1>1, <1>2, <1>4, <1>6 DEF Known
<1>10. Unreserved(c)'
  <2> SUFFICES ASSUME Engaged(s), ~HasReserved(s) PROVE Traces'[i].status = "none"
    BY <1>1 DEF Unreserved, TraceOfCall
  <2>1. CASE Calm(o, s) /\ Traces'[i] = Traces[i]
    BY <1>1, <1>2, <2>1 DEF Calm, Onward, Unreserved, TraceOfCall
  <2>2. CASE Begins(o, s)
    BY <1>3, <2>2 DEF Begins, Keeps
  <2>3. QED
    BY <1>5, <2>1, <2>2 DEF Reserves, Cancels, Completes, HasReserved
<1>11. Freed(c)'
  <2> SUFFICES ASSUME Engaged(s), Traces'[i].status = "FAILED"
               PROVE  /\ ~s.effected /\ s.work \notin {"executing", "record"}
                      /\ ~s.started => s.main \in Ending
    BY <1>1 DEF Freed, TraceOfCall
  <2>1. CASE Calm(o, s) /\ Traces'[i] = Traces[i]
    <3>1. /\ ~o.effected /\ o.work \notin {"executing", "record"}
          /\ ~o.started => o.main \in Ending
      BY <1>2, <2>1 DEF Calm, Freed, TraceOfCall
    <3>2. o.main # "enter"
      BY <1>1, <3>1 DEF Sane, Ending
    <3>3. QED
      BY <1>1, <3>1, <3>2 DEF Onward
  <2>2. CASE Begins(o, s)
    BY <1>3, <2>2 DEF Begins, Keeps
  <2>3. CASE Reserves(o, s)
    BY <2>3 DEF Reserves
  <2>4. CASE Cancels(o, s)
    BY <1>1, <2>4 DEF Cancels, Onward, Sane
  <2>5. CASE Completes(o, s)
    BY <1>1, <2>5 DEF Completes
  <2>6. QED
    BY <1>5, <2>1, <2>2, <2>3, <2>4, <2>5
<1>12. Settled(c)'
  <2> SUFFICES ASSUME s.contractEnd # 0, ~s.started, Closed(s)
               PROVE  Traces'[i].status # "RESERVED"
    BY <1>1 DEF Settled, TraceOfCall
  <2>1. CASE Calm(o, s) /\ Traces'[i] = Traces[i]
    BY <1>1, <1>2, <2>1 DEF Calm, Onward, Settled, TraceOfCall
  <2>2. QED
    BY <1>5, <2>1 DEF Begins, Reserves, Cancels, Completes
<1>13. ASSUME NEW d \in Call, d # c
       PROVE  Known(d)' /\ Unreserved(d)' /\ Freed(d)' /\ Settled(d)'
  <2>1. call'[d] = call[d]
    BY <1>1, <1>13
  <2>2. Known(d) /\ Unreserved(d) /\ Freed(d) /\ Settled(d)
    BY <1>13 DEF Governing
  <2>3. CASE Engaged(call[d])
    BY <1>1, <1>4, <1>8, <1>13, <2>1, <2>2, <2>3
       DEF Known, Unreserved, Freed, Settled, TraceOfCall
  <2>4. CASE ~Engaged(call[d])
    BY <2>1, <2>4 DEF Known, Unreserved, Freed, Settled, Engaged
  <2>5. QED
    BY <2>3, <2>4
<1>14. ASSUME NEW d \in Call, NEW e \in Call PROVE Sole(d, e)'
  <2>1. CASE d # c /\ e # c
    BY <1>1, <2>1 DEF Sole, Governing
  <2>2. CASE d = c /\ e # c
    BY <1>1, <1>8, <2>2 DEF Sole
  <2>3. CASE d # c /\ e = c
    BY <1>1, <1>8, <2>3 DEF Sole
  <2>4. QED
    BY <2>1, <2>2, <2>3 DEF Sole
<1>15. QED
  BY <1>9, <1>10, <1>11, <1>12, <1>13, <1>14 DEF Governing
-----------------------------------------------------------------------------
LEMMA MovesTurn ==
  ASSUME TypeOK, NEW c \in Call, NEW s, Quiet(call[c], s), Moves(c, s)
  PROVE  Turn(c, s)
<1>1. /\ Traces' = Traces /\ Grows
      /\ call[c].intent \in Intent
  BY DEF Moves, Traces, Grows, TypeOK, CallState
<1>2. QED
  BY <1>1 DEF Moves, Turn, Quiet, Calm, Keeps

(* What storing an event e of call c does. *)
Stored(c, e) ==
  LET i == call[c].intent
  IN /\ e.status = "none" => Keeps(i)
     /\ e.status # "none" => Traces'[i].status = e.status
     /\ Hears(i, e.evaluation, e.result)
     /\ i \in Failing' <=> i \in Failing \/ e.error

LEMMA RecordsTurn ==
  ASSUME TypeOK, NEW c \in Call, NEW s, NEW e \in EventRecord, Records(c, e, s)
  PROVE  /\ call' = [call EXCEPT ![c] = s] /\ clock' = clock /\ Grows
         /\ history'[call[c].intent] # <<>>
         /\ \A j \in Intent : j # call[c].intent => history'[j] = history[j]
         /\ Stored(c, e)
<1>1. call[c].intent \in Intent
  BY DEF TypeOK, CallState
<1>2. QED
  BY <1>1, StoreTraces DEF Records, Keeps, Stored

LEMMA RecordFailsTurn ==
  ASSUME TypeOK, NEW c \in Call, NEW s, NEW e \in EventRecord, RecordFails(c, e, s)
  PROVE  /\ call' = [call EXCEPT ![c] = s] /\ clock' = clock /\ Grows
         /\ \A j \in Intent : j # call[c].intent => history'[j] = history[j]
         /\ \/ history' = history /\ Keeps(call[c].intent)
            \/ Stored(c, e)
<1>1. call[c].intent \in Intent
  BY DEF TypeOK, CallState
<1>2. CASE history' = history
  <2>1. Traces' = Traces /\ Grows
    BY <1>2 DEF Traces, Grows, TypeOK
  <2>2. QED
    BY <1>1, <1>2, <2>1 DEF RecordFails, Keeps
<1>3. CASE Store(call[c].intent, e)
  BY <1>1, <1>3, StoreTraces DEF RecordFails, Keeps, Stored
<1>4. QED
  BY <1>2, <1>3 DEF RecordFails

(* Storing an event may fail where the call can go on as if it had said    *)
(* nothing.                                                                *)
Voices(c, e, s) == \/ Records(c, e, s)
                   \/ RecordFails(c, e, s) /\ Quiet(call[c], s)

(* An event that is no trace event. *)
LEMMA SpokenTurn ==
  ASSUME TypeOK, NEW c \in Call, NEW s, Calm(call[c], s), Writes(c),
         NEW e, NEW evaluation, NEW result, IsEvent(e, "none", evaluation, result),
         Voices(c, e, s),
         \/ Plain(e, "none", evaluation, result) /\ Says(call[c], s, evaluation, result)
         \/ e.error /\ Errs(call[c], s, evaluation)
  PROVE  Turn(c, s)
<1>1. evaluation \in Evaluation /\ result \in Result /\ e \in EventRecord
  BY DEF EventRecord, IsEvent
<1>2. Onward(call[c], s)
  BY DEF Calm
<1>3. CASE Stored(c, e)
  <2>1. /\ call' = [call EXCEPT ![c] = s] /\ clock' = clock /\ Grows
        /\ \A j \in Intent : j # call[c].intent => history'[j] = history[j]
    BY <1>1, RecordsTurn, RecordFailsTurn DEF Voices
  <2>2. Keeps(call[c].intent) /\ Hears(call[c].intent, evaluation, result)
    BY <1>3 DEF Stored, IsEvent
  <2>3. \/ (call[c].intent \in Failing' <=> call[c].intent \in Failing)
           /\ Says(call[c], s, evaluation, result)
        \/ call[c].intent \in Failing' /\ Errs(call[c], s, evaluation)
    BY <1>3 DEF Stored, Plain
  <2>4. QED
    BY <1>1, <1>2, <2>1, <2>2, <2>3 DEF Turn
<1>4. CASE ~Stored(c, e)
  <2>1. RecordFails(c, e, s) /\ Mute(call[c], s)
    BY <1>1, <1>4, RecordsTurn DEF Voices, Quiet
  <2>2. /\ call' = [call EXCEPT ![c] = s] /\ clock' = clock /\ Grows
        /\ \A j \in Intent : j # call[c].intent => history'[j] = history[j]
        /\ history' = history /\ Keeps(call[c].intent)
    BY <1>1, <1>4, <2>1, RecordFailsTurn
  <2>3. QED
    BY <1>2, <2>1, <2>2 DEF Turn
<1>5. QED
  BY <1>3, <1>4

LEMMA PlainTurn ==
  ASSUME TypeOK, NEW c \in Call, NEW s, Calm(call[c], s), Writes(c),
         NEW e, NEW evaluation, NEW result, Plain(e, "none", evaluation, result),
         Voices(c, e, s),
         Says(call[c], s, evaluation, result)
  PROVE  Turn(c, s)
<1>1. IsEvent(e, "none", evaluation, result)
  BY DEF Plain
<1>2. QED
  BY <1>1, SpokenTurn

(* An event that says nothing new. *)
LEMMA QuietTurn ==
  ASSUME TypeOK, NEW c \in Call, NEW s, Quiet(call[c], s), Writes(c),
         NEW e, NEW evaluation \in {"none", call[c].evaluation},
         Plain(e, "none", evaluation, "none"),
         Records(c, e, s) \/ RecordFails(c, e, s)
  PROVE  Turn(c, s)
<1>1. Says(call[c], s, evaluation, "none")
  BY DEF Quiet, Calm, Onward, Mute, Says, Agrees
<1>2. Voices(c, e, s) /\ Calm(call[c], s)
  BY DEF Voices, Quiet
<1>3. QED
  BY <1>1, <1>2, PlainTurn

(* A trace event. *)
LEMMA TracedTurn ==
  ASSUME TypeOK, NEW c \in Call, NEW s, Onward(call[c], s), Engaged(call[c]),
         NEW e, NEW status, NEW evaluation, NEW result, Plain(e, status, evaluation, result),
         status # "none", Says(call[c], s, evaluation, result),
         Voices(c, e, s),
         Traces'[call[c].intent].status = status =>
           Reserves(call[c], s) \/ Cancels(call[c], s) \/ Completes(call[c], s)
  PROVE  Turn(c, s)
<1>1. evaluation \in Evaluation /\ result \in Result /\ e \in EventRecord
  BY DEF EventRecord, IsEvent, Plain
<1>2. Writes(c)
  BY DEF Writes
<1>3. CASE Stored(c, e)
  <2>1. /\ call' = [call EXCEPT ![c] = s] /\ clock' = clock /\ Grows
        /\ \A j \in Intent : j # call[c].intent => history'[j] = history[j]
    BY <1>1, RecordsTurn, RecordFailsTurn DEF Voices
  <2>2. /\ Traces'[call[c].intent].status = status
        /\ Hears(call[c].intent, evaluation, result)
        /\ call[c].intent \in Failing' <=> call[c].intent \in Failing
    BY <1>3 DEF Stored, Plain, IsEvent
  <2>3. QED
    BY <1>1, <1>2, <2>1, <2>2 DEF Turn
<1>4. CASE ~Stored(c, e)
  <2>1. RecordFails(c, e, s) /\ Quiet(call[c], s)
    BY <1>1, <1>4, RecordsTurn DEF Voices
  <2>2. /\ call' = [call EXCEPT ![c] = s] /\ clock' = clock /\ Grows
        /\ \A j \in Intent : j # call[c].intent => history'[j] = history[j]
        /\ history' = history /\ Keeps(call[c].intent)
    BY <1>1, <1>4, <2>1, RecordFailsTurn
  <2>3. QED
    BY <2>1, <2>2 DEF Turn, Quiet
<1>5. QED
  BY <1>3, <1>4

LEMMA CaughtQuiet ==
  ASSUME NEW o, Sane(o), NEW admission \in BOOLEAN,
         o.main \in {"stage", "reserve", "issue", "revoke", "revokeDone", "mint"}
  PROVE  Quiet(o, Caught(o, admission))
<1> DEFINE s == Caught(o, admission)
<1>1. /\ s \in CallState
      /\ \A f \in DOMAIN o \ {"main", "admission"} : s[f] = o[f]
      /\ s.main = IF o.contractEnd # 0 /\ ~o.started THEN "cancel"
                  ELSE IF admission /\ ~o.started THEN "reject" ELSE "fail"
  BY DEF Sane, CallState, Caught, MainStage
<1>2. DOMAIN o = {"intent", "main", "stage", "work", "evaluation", "contractEnd", "started",
                  "aborted", "result", "admission", "answer", "effected", "lost"}
  BY DEF Sane, CallState
<1> HIDE DEF s
<1>3. QED
  BY <1>1, <1>2 DEF Quiet, Calm, Mute, Says, Agrees, Onward, Sane, Engaged, HasReserved,
       Closed, Ending, s
-----------------------------------------------------------------------------
(* Every action is a turn.  A contract has a lifetime: the constructor of  *)
(* TemporalGovernance insists on it (TemporalGovernance.ts:36-37).         *)
PositiveTtl == Ttl \in Nat \ {0}

LEMMA QuietEvents ==
  ASSUME NEW o, Sane(o)
  PROVE  /\ StatusOf(StageOf(o), "none") = "none"
         /\ StatusOf("IntentReceived", "none") = "none"
         /\ \A m \in DOMAIN AuditEvent : StatusOf(AuditEvent[m], "none") = "none"
         /\ StatusOf("IdentityRevoked", "none") = "none"
         /\ StatusOf("CapabilityIssued", "none") = "none"
         /\ StatusOf("EvaluationCompleted", "none") = "none"
         /\ StatusOf("ExecutionSkipped", "failure") = "none"
         /\ StatusOf("ProcessingFailed", "failure") = "none"
<1>1. StageOf(o) \in {"CapabilityVerified", "ContextResolved", "TemporalEvaluated",
                      "BlastRadiusEvaluated", "EvaluationCompleted"}
  BY DEF Sane, CallState, StageOf, Stages
<1>2. QED
  BY <1>1 DEF StatusOf, AuditEvent

LEMMA BeforeTurns ==
  ASSUME PositiveTtl, TypeOK, NEW c \in Call, Before(c)
  PROVE  \E s : Turn(c, s)
<1> DEFINE o == call[c]
<1>1. Sane(o) /\ o \in CallState /\ o.evaluation \in Evaluation /\ clock \in Nat
      /\ "none" \in Result /\ "allowed" \in Evaluation /\ "denied" \in Evaluation
  BY DEF TypeOK, CallState, Result, Evaluation
<1> HIDE DEF o
<1>quiet. StatusOf(StageOf(o), "none") = "none" /\ StatusOf("IntentReceived", "none") = "none"
  BY <1>1, QuietEvents
<1>engaged. o.main \notin {"receive", "over"} => Engaged(call[c])
  BY DEF Engaged, o
<1>2. CASE Receive(c)
  <2> DEFINE s == [o EXCEPT !.main = "stage"]
             e == Event(o, "IntentReceived", "none", FALSE)
  <2>1. Plain(e, "none", o.evaluation, "none")
    BY <1>1, <1>quiet, PlainEvent
  <2>2. o.main = "receive" /\ (Governed => history[o.intent] = <<>>) /\ Records(c, e, s)
    BY <1>2 DEF Receive, o
  <2>3. Onward(o, s) /\ s.contractEnd = 0 /\ Says(o, s, "none", "none")
    BY <1>1, <2>2 DEF Onward, Says, Agrees, Sane, CallState, HasReserved, MainStage, Ending
  <2> HIDE DEF s, e
  <2>4. /\ call' = [call EXCEPT ![c] = s] /\ clock' = clock /\ Grows
        /\ \A j \in Intent : j # o.intent => history'[j] = history[j]
        /\ history'[o.intent] # <<>> /\ Stored(c, e)
    BY <2>1, <2>2, RecordsTurn DEF Plain, IsEvent, o
  <2>5. Turn(c, s)
    <3>1. Keeps(o.intent) /\ Hears(o.intent, "none", "none")
          /\ (o.intent \in Failing' <=> o.intent \in Failing)
      BY <1>1, <2>1, <2>2, <2>4 DEF Stored, Plain, IsEvent, Sane, o
    <3>2. Begins(o, s) /\ Writes(c)
      BY <2>2, <2>3, <2>4, <3>1 DEF Begins, Writes, o
    <3>3. "none" \in Evaluation /\ "none" \in Result
      BY DEF Evaluation, Result
    <3>4. QED
      BY <2>3, <2>4, <3>1, <3>2, <3>3 DEF Turn, o
  <2>6. QED
    BY <2>5
<1>3. CASE Duplicate(c)
  <2>1. Quiet(o, Answered(o, "refused"))
    BY <1>1, <1>3 DEF Duplicate, o, Answered, Quiet, Calm, Mute, Says, Agrees, Onward,
         Sane, CallState, HasReserved, MainStage, Ending, Engaged, Closed, Answer
  <2>2. QED
    BY <1>3, <2>1, MovesTurn DEF Duplicate, o
<1>4. CASE ReceiveFails(c)
  <2>1. Quiet(o, Answered(o, "refused"))
    BY <1>1, <1>4 DEF ReceiveFails, o, Answered, Quiet, Calm, Mute, Says, Agrees,
         Onward, Sane, CallState, HasReserved, MainStage, Ending, Engaged, Closed,
         Answer
  <2>2. Plain(Event(o, "IntentReceived", "none", FALSE), "none", o.evaluation, "none")
    BY <1>1, <1>quiet, PlainEvent
  <2>3. Writes(c)
    BY <1>4 DEF ReceiveFails, Writes
  <2>4. QED
    BY <1>4, <2>1, <2>2, <2>3, QuietTurn DEF ReceiveFails, o
<1>5. CASE StagePasses(c)
  <2> DEFINE judged == IF StageOf(o) = "EvaluationCompleted" THEN [o EXCEPT !.evaluation = "allowed"]
                       ELSE o
             s == IF o.stage < Len(Stages) THEN [judged EXCEPT !.stage = @ + 1]
                  ELSE [judged EXCEPT !.main = IF Governed THEN "reserve" ELSE "issue"]
             e == Event(judged, StageOf(o), "none", FALSE)
  <2>1. o.main = "stage" /\ Records(c, e, s)
    BY <1>5 DEF StagePasses, o
  <2>2. /\ judged \in CallState
        /\ \A f \in {"intent", "main", "stage", "work", "contractEnd", "started",
                     "aborted", "result", "admission", "answer", "effected", "lost"} :
             judged[f] = o[f]
        /\ judged.evaluation = IF StageOf(o) = "EvaluationCompleted" THEN "allowed"
                               ELSE o.evaluation
        /\ judged.evaluation \in Evaluation
    BY <1>1 DEF CallState
  <2>3. Plain(e, "none", judged.evaluation, "none")
    BY <1>1, <2>2, <1>quiet, PlainEvent
  <2> HIDE DEF judged, e
  <2>4. Calm(o, s) /\ Says(o, s, judged.evaluation, "none")
    <3>1. Len(Stages) \in Nat
      BY DEF Stages
    <3>2. CASE o.stage < Len(Stages)
      BY <1>1, <2>1, <2>2, <3>1, <3>2 DEF Calm, Says, Agrees, Onward, Sane, CallState,
           HasReserved, MainStage, Ending, Engaged, Closed
    <3>3. CASE ~(o.stage < Len(Stages))
      <4>1. StageOf(o) = "EvaluationCompleted"
        BY <1>1, <3>3 DEF StageOf, Stages, CallState
      <4>2. judged.evaluation = "allowed"
        BY <2>2, <4>1
      <4>3. QED
        BY <1>1, <2>1, <2>2, <3>1, <3>3, <4>2 DEF Calm, Says, Agrees, Onward, Sane,
             CallState, HasReserved, MainStage, Ending, Engaged, Closed
    <3>4. QED
      BY <3>2, <3>3
  <2> HIDE DEF s
  <2>5. Writes(c)
    BY <2>1 DEF Writes, Engaged, o
  <2>6. Voices(c, e, s)
    BY <2>1 DEF Voices
  <2>7. Turn(c, s)
    BY <2>3, <2>4, <2>5, <2>6, PlainTurn DEF o
  <2>8. QED
    BY <2>7
<1>6. CASE TemporalRejects(c)
  <2>1. Plain(Event(o, StageOf(o), "none", FALSE), "none", o.evaluation, "none")
    BY <1>1, <1>quiet, PlainEvent
  <2>2. Quiet(o, Caught(o, TRUE))
    BY <1>1, <1>6, CaughtQuiet DEF TemporalRejects, o
  <2>3. Writes(c)
    BY <1>6 DEF TemporalRejects, Writes, Engaged
  <2>4. QED
    BY <1>6, <2>1, <2>2, <2>3, QuietTurn DEF TemporalRejects, o
<1>7. CASE PolicyDenies(c)
  <2> DEFINE d == [o EXCEPT !.evaluation = "denied"]
             s == [d EXCEPT !.main = "skip"]
             e == Event(d, StageOf(d), "none", FALSE)
  <2>1. o.main = "stage" /\ Records(c, e, s)
    BY <1>1, <1>7 DEF PolicyDenies, o, CallState
  <2>2. d.evaluation = "denied" /\ StageOf(d) = StageOf(o)
    BY <1>1 DEF StageOf, CallState
  <2>3. Plain(e, "none", "denied", "none")
    BY <1>1, <2>2, <1>quiet, PlainEvent
  <2>4. Calm(o, s) /\ Says(o, s, "denied", "none")
    BY <1>1, <2>1 DEF Calm, Says, Agrees, Onward, Sane, CallState, HasReserved, MainStage,
                      Ending, Engaged, Closed
  <2> HIDE DEF s, d, e
  <2>5. Writes(c)
    BY <2>1 DEF Writes, Engaged, o
  <2>6. Voices(c, e, s)
    BY <2>1 DEF Voices
  <2>7. Turn(c, s)
    BY <2>3, <2>4, <2>5, <2>6, PlainTurn DEF o
  <2>8. QED
    BY <2>7
<1>8. CASE StageThrows(c)
  <2>1. Quiet(o, Caught(o, StageOf(o) = "CapabilityVerified"))
    <3>1. (StageOf(o) = "CapabilityVerified") \in BOOLEAN
      OBVIOUS
    <3>2. o.main = "stage"
      BY <1>8 DEF StageThrows, o
    <3>3. QED
      BY <1>1, <3>1, <3>2, CaughtQuiet
  <2>2. QED
    BY <1>8, <2>1, MovesTurn DEF StageThrows, o
<1>9. CASE StageRecordFails(c)
  <2>1. Plain(Event(o, StageOf(o), "none", FALSE), "none", o.evaluation, "none")
    BY <1>1, <1>quiet, PlainEvent
  <2>2. Quiet(o, Caught(o, FALSE))
    BY <1>1, <1>9, CaughtQuiet DEF StageRecordFails, o
  <2>3. Writes(c)
    BY <1>9 DEF StageRecordFails, Writes, Engaged
  <2>4. QED
    BY <1>9, <2>1, <2>2, <2>3, QuietTurn DEF StageRecordFails, o
<1>10. CASE Reserve(c)
  <2> DEFINE e == Event(o, "ExecutionReserved", "none", FALSE)
             s == [o EXCEPT !.main = "issue", !.contractEnd = clock + Ttl]
  <2>1. o.main = "reserve" /\ Records(c, e, s)
    BY <1>10 DEF Reserve, o
  <2>2. Plain(e, "RESERVED", o.evaluation, "none")
    BY <1>1, PlainEvent DEF StatusOf
  <2>3. s.contractEnd \in Nat \ {0}
    BY <1>1 DEF CallState, PositiveTtl
  <2>4. Onward(o, s) /\ HasReserved(s) /\ ~Closed(s) /\ Says(o, s, o.evaluation, "none")
    BY <1>1, <2>1, <2>3 DEF Onward, Says, Agrees, Sane, CallState, HasReserved, MainStage,
                      Ending, Engaged, Closed
  <2> HIDE DEF s, e
  <2>5. Turn(c, s)
    <3>1. Engaged(o)
      BY <1>engaged, <2>1 DEF o
    <3>2. Traces'[o.intent].status = "RESERVED" => Reserves(o, s)
      BY <2>1, <2>4 DEF Reserves
    <3>3. Voices(c, e, s)
      BY <2>1 DEF Voices
    <3>4. QED
      BY <2>2, <2>4, <3>1, <3>2, <3>3, TracedTurn DEF o
  <2>6. QED
    BY <2>5
<1>11. CASE ReserveRefuses(c)
  <2>1. Quiet(o, Caught(o, TRUE))
    BY <1>1, <1>11, CaughtQuiet DEF ReserveRefuses, o
  <2>2. QED
    BY <1>11, <2>1, MovesTurn DEF ReserveRefuses, o
<1>12. CASE ReserveFails(c)
  <2> DEFINE e == Event(o, "ExecutionReserved", "none", FALSE)
             s == Caught([o EXCEPT !.lost = TRUE], FALSE)
  <2>1. o.main = "reserve" /\ RecordFails(c, e, s)
    BY <1>12 DEF ReserveFails, o
  <2>2. Plain(e, "RESERVED", o.evaluation, "none")
    BY <1>1, PlainEvent DEF StatusOf
  <2>3. s = [o EXCEPT !.lost = TRUE, !.admission = FALSE, !.main = "fail"]
    BY <1>1, <2>1 DEF Caught, Sane, CallState
  <2> HIDE DEF s, e
  <2>4. Quiet(o, s) /\ HasReserved(s) /\ s.contractEnd = 0 /\ Says(o, s, o.evaluation, "none")
    BY <1>1, <2>1, <2>3 DEF Quiet, Calm, Mute, Says, Agrees, Onward, Sane, CallState,
         HasReserved, MainStage, Ending, Engaged, Closed
  <2>5. Onward(o, s)
    BY <2>4 DEF Quiet, Calm
  <2>6. Turn(c, s)
    <3>1. Engaged(o)
      BY <1>engaged, <2>1 DEF o
    <3>2. Traces'[o.intent].status = "RESERVED" => Reserves(o, s)
      BY <2>1, <2>4 DEF Reserves
    <3>3. Voices(c, e, s)
      BY <2>1, <2>4 DEF Voices, o
    <3>4. QED
      BY <2>2, <2>4, <2>5, <3>1, <3>2, <3>3, TracedTurn DEF o
  <2>7. QED
    BY <2>6
<1>13. QED
  BY <1>2, <1>3, <1>4, <1>5, <1>6, <1>7, <1>8, <1>9, <1>10, <1>11, <1>12 DEF Before

LEMMA IdentityTurns == ASSUME TypeOK, NEW c \in Call, Identity(c) PROVE \E s : Turn(c, s)
<1> DEFINE o == call[c]
           Audited == [o EXCEPT !.evaluation = "none"]
<1>1. Sane(o) /\ o \in CallState /\ clock \in Nat /\ "none" \in Result /\ o.admission \in BOOLEAN
  BY DEF TypeOK, CallState, Result
<1> HIDE DEF o
<1>2. Audited.evaluation = "none" /\ "none" \in Evaluation
  BY <1>1 DEF CallState, Evaluation
<1>quiet. /\ StatusOf("IdentityRevoked", "none") = "none"
          /\ \A m \in DOMAIN AuditEvent : StatusOf(AuditEvent[m], "none") = "none"
  BY <1>1, QuietEvents
<1>writes. o.main \notin {"receive", "over"} => Writes(c)
  BY DEF Writes, Engaged, o
<1>3. CASE Issue(c)
  <2>1. Quiet(o, [o EXCEPT !.main = "auditIssue"])
    BY <1>1, <1>3 DEF Issue, o, Quiet, Calm, Mute, Says, Agrees, Onward, Sane,
         CallState, HasReserved, MainStage, Ending, Engaged, Closed
  <2>2. QED
    BY <1>3, <2>1, MovesTurn DEF Issue, o
<1>4. CASE IssueFails(c)
  <2>1. Quiet(o, Caught(o, TRUE)) /\ Quiet(o, Caught(o, FALSE))
    BY <1>1, <1>4, CaughtQuiet DEF IssueFails, o
  <2>2. QED
    BY <1>4, <2>1, MovesTurn DEF IssueFails, o
<1>5. CASE Audit(c) \/ AuditFails(c)
  <2> DEFINE e == Event(Audited, AuditEvent[o.main], "none", FALSE)
             s == [o EXCEPT !.main = AfterAudit[o.main]]
  <2>1. o.main \in {"auditIssue", "auditUse"} /\ o.main \in DOMAIN AuditEvent
    BY <1>5 DEF Audit, AuditFails, AfterAudit, AuditEvent, o
  <2>2. Plain(e, "none", "none", "none")
    <3>1. StatusOf(AuditEvent[o.main], "none") = "none"
      BY <2>1, <1>quiet
    <3>2. QED
      BY <1>1, <1>2, <3>1, PlainEvent
  <2>3. AfterAudit[o.main] \in {"auditUse", "unlock"}
    BY <2>1 DEF AfterAudit
  <2>4. Quiet(o, s)
    BY <1>1, <2>1, <2>3 DEF Quiet, Calm, Mute, Says, Agrees, Onward, Sane, CallState,
         HasReserved, MainStage, Ending, Engaged, Closed
  <2>5. Quiet(o, [o EXCEPT !.main = "revoke"]) /\ Quiet(o, [o EXCEPT !.main = "revoke", !.admission = TRUE])
    BY <1>1, <2>1 DEF Quiet, Calm, Mute, Says, Agrees, Onward, Sane, CallState,
         HasReserved, MainStage, Ending, Engaged, Closed
  <2>6. \/ Records(c, e, s)
        \/ Moves(c, [o EXCEPT !.main = "revoke", !.admission = TRUE])
        \/ RecordFails(c, e, [o EXCEPT !.main = "revoke"])
    BY <1>5 DEF Audit, AuditFails, o
  <2>7. Writes(c)
    BY <1>writes, <2>1
  <2> HIDE DEF e
  <2>8. QED
    BY <2>2, <2>4, <2>5, <2>6, <2>7, MovesTurn, QuietTurn DEF o
<1>6. CASE LastUnlock(c)
  <2>1. Quiet(o, [o EXCEPT !.main = "enter"])
    BY <1>1, <1>6 DEF LastUnlock, o, Quiet, Calm, Mute, Says, Agrees, Onward, Sane,
         CallState, HasReserved, MainStage, Ending, Engaged, Closed
  <2>2. QED
    BY <1>6, <2>1, MovesTurn DEF LastUnlock, o
<1>7. CASE LastUnlockFails(c) \/ EnterFails(c)
  <2>1. Quiet(o, [o EXCEPT !.main = "revoke", !.admission = TRUE])
    BY <1>1, <1>7 DEF LastUnlockFails, EnterFails, o, Quiet, Calm, Mute, Says, Agrees,
         Onward, Sane, CallState, HasReserved, MainStage, Ending, Engaged, Closed
  <2>2. QED
    BY <1>7, <2>1, MovesTurn DEF LastUnlockFails, EnterFails, o
<1>8. CASE Enter(c)
  <2>1. Quiet(o, [o EXCEPT !.main = "race", !.started = TRUE, !.work = "executing"])
    BY <1>1, <1>8 DEF Enter, InTime, MayStart, o, Quiet, Calm, Mute, Says, Agrees,
         Onward, Sane, CallState, HasReserved, MainStage, WorkStage, Ending, Engaged,
         Closed
  <2>2. QED
    BY <1>8, <2>1, MovesTurn DEF Enter, o
<1>9. CASE Resolve(c) \/ Reject(c) \/ Timer(c)
  <2>1. o.main = "race"
    BY <1>9 DEF Resolve, Reject, Timer, o
  <2>2. /\ o.work = "resolved" => Quiet(o, [o EXCEPT !.main = "revokeDone", !.aborted = TRUE])
        /\ Quiet(o, [o EXCEPT !.main = "revoke", !.aborted = TRUE])
        /\ Quiet(o, [o EXCEPT !.main = "revoke", !.aborted = TRUE, !.admission = TRUE])
    BY <1>1, <2>1 DEF Quiet, Calm, Mute, Says, Agrees, Onward, Sane, CallState,
         HasReserved, MainStage, Ending, Engaged, Closed
  <2>3. QED
    BY <1>9, <2>2, MovesTurn DEF Resolve, Reject, Timer, o
<1>10. CASE Revoke(c) \/ RevokeFails(c)
  <2> DEFINE e == Event(Audited, "IdentityRevoked", "none", FALSE)
  <2>1. Plain(e, "none", "none", "none")
    BY <1>1, <1>2, <1>quiet, PlainEvent
  <2>2. o.main \in {"revoke", "revokeDone"}
    BY <1>10 DEF Revoke, RevokeFails, o
  <2>3. Quiet(o, Caught(o, FALSE)) /\ Quiet(o, Caught(o, o.admission))
    BY <1>1, <2>2, CaughtQuiet
  <2>4. o.main = "revokeDone" => Quiet(o, Concluded(o))
    <3>1. CASE o.result = "success"
      BY <1>1, <3>1 DEF Concluded, Quiet, Calm, Mute, Says, Agrees, Onward, Sane,
           CallState, HasReserved, MainStage, Ending, Engaged, Closed
    <3>2. CASE o.result # "success"
      BY <1>1, <3>2 DEF Concluded, Answered, Quiet, Calm, Mute, Says, Agrees, Onward,
           Sane, CallState, HasReserved, MainStage, Answer, Ending, Engaged, Closed
    <3>3. QED
      BY <3>1, <3>2
  <2>5. \/ o.main = "revokeDone" /\ Records(c, e, Concluded(o))
        \/ Records(c, e, Caught(o, o.admission))
        \/ RecordFails(c, e, Caught(o, FALSE))
    BY <1>10 DEF Revoke, RevokeFails, Revoked, o
  <2>6. Writes(c)
    BY <1>writes, <2>2
  <2> HIDE DEF e
  <2>7. QED
    BY <2>1, <2>2, <2>3, <2>4, <2>5, <2>6, QuietTurn DEF o
<1>11. QED
  BY <1>3, <1>4, <1>5, <1>6, <1>7, <1>8, <1>9, <1>10 DEF Identity

LEMMA AfterTurns == ASSUME TypeOK, NEW c \in Call, After(c) PROVE \E s : Turn(c, s)
<1> DEFINE o == call[c]
<1>1. /\ Sane(o) /\ o \in CallState /\ clock \in Nat /\ o.evaluation \in Evaluation
      /\ "none" \in Result /\ "failure" \in Result
  BY DEF TypeOK, CallState, Result
<1> HIDE DEF o
<1>quiet. /\ StatusOf("CapabilityIssued", "none") = "none"
          /\ StatusOf("EvaluationCompleted", "none") = "none"
          /\ StatusOf("ExecutionSkipped", "failure") = "none"
          /\ StatusOf("ProcessingFailed", "failure") = "none"
  BY <1>1, QuietEvents
<1>writes. o.main \notin {"receive", "over"} => Writes(c) /\ Engaged(o)
  BY DEF Writes, Engaged, o
<1>2. CASE Mint(c) \/ MintFails(c)
  <2> DEFINE e == Event(o, "CapabilityIssued", "none", FALSE)
  <2>1. Plain(e, "none", o.evaluation, "none")
    BY <1>1, <1>quiet, PlainEvent
  <2>2. o.main = "mint"
    BY <1>2 DEF Mint, MintFails, o
  <2>3. Quiet(o, Caught(o, FALSE))
    BY <1>1, <2>2, CaughtQuiet
  <2>4. Quiet(o, Answered(o, "success"))
    BY <1>1, <2>2 DEF Answered, Quiet, Calm, Mute, Says, Agrees, Onward, Sane,
         CallState, HasReserved, MainStage, Answer, Ending, Engaged, Closed
  <2>5. \/ Moves(c, Answered(o, "success")) \/ Records(c, e, Answered(o, "success"))
        \/ Moves(c, Caught(o, FALSE)) \/ RecordFails(c, e, Caught(o, FALSE))
    BY <1>2 DEF Mint, MintFails, o
  <2>6. Writes(c)
    BY <1>writes, <2>2
  <2> HIDE DEF e
  <2>7. QED
    BY <2>1, <2>3, <2>4, <2>5, <2>6, MovesTurn, QuietTurn DEF o
<1>3. CASE (Close(c) \/ CloseFails(c)) /\ o.main = "cancel"
  <2> DEFINE e == Event(o, "ExecutionCancelled", "none", FALSE)
             s == [o EXCEPT !.main = IF o.admission THEN "reject" ELSE "fail"]
             t == Answered(o, "thrown")
  <2>1. Plain(e, "FAILED", o.evaluation, "none")
    BY <1>1, PlainEvent DEF StatusOf
  <2>2. Records(c, e, s) \/ RecordFails(c, e, t)
    BY <1>3 DEF Close, CloseFails, Closing, ClosedAs, o
  <2>3. /\ Onward(o, s) /\ s.main \in Ending /\ s.contractEnd # 0
        /\ Says(o, s, o.evaluation, "none")
    BY <1>1, <1>3 DEF Onward, Says, Agrees, Sane, CallState, HasReserved, MainStage, Ending
  <2>4. /\ Quiet(o, t) /\ t.main \in Ending /\ t.contractEnd # 0
        /\ Says(o, t, o.evaluation, "none")
    BY <1>1, <1>3 DEF Answered, Quiet, Calm, Mute, Says, Agrees, Onward, Sane, CallState,
                      HasReserved, MainStage, Answer, Ending, Engaged, Closed
  <2> HIDE DEF s, t, e
  <2>5. Engaged(o)
    BY <1>3, <1>writes
  <2>6. CASE Records(c, e, s)
    <3>1. Voices(c, e, s)
      BY <2>6 DEF Voices
    <3>2. Traces'[o.intent].status = "FAILED" => Cancels(o, s)
      BY <1>3, <2>3 DEF Cancels
    <3>3. QED
      BY <2>1, <2>3, <2>5, <3>1, <3>2, TracedTurn DEF o
  <2>7. CASE RecordFails(c, e, t)
    <3>1. Voices(c, e, t)
      BY <2>4, <2>7 DEF Voices, o
    <3>2. Traces'[o.intent].status = "FAILED" => Cancels(o, t)
      BY <1>3, <2>4 DEF Cancels
    <3>3. Onward(o, t)
      BY <2>4 DEF Quiet, Calm
    <3>4. QED
      BY <2>1, <2>4, <2>5, <3>1, <3>2, <3>3, TracedTurn DEF o
  <2>8. QED
    BY <2>2, <2>6, <2>7
<1>4. CASE (Close(c) \/ CloseFails(c)) /\ o.main # "cancel"
  <2> DEFINE e == Closing(o)
             s == ClosedAs(o)
             t == Answered(o, "thrown")
             verdict == IF o.main = "reject" THEN "denied" ELSE o.evaluation
             result == IF o.main = "reject" THEN "none" ELSE "failure"
  <2>1. o.main \in {"reject", "skip", "fail"} /\ (Records(c, e, s) \/ RecordFails(c, e, t))
    BY <1>4 DEF Close, CloseFails, o
  <2>2. Denied(o).evaluation = "denied" /\ "denied" \in Evaluation
    BY <1>1 DEF Denied, CallState, Evaluation
  <2>3. /\ IsEvent(e, "none", verdict, result)
        /\ o.main # "fail" => Plain(e, "none", verdict, result)
        /\ o.main = "fail" => e.error
    BY <1>1, <2>1, <2>2, <1>quiet, PlainEvent, ErrorEvent DEF Closing, Plain
  <2>4. /\ Quiet(o, t)
        /\ o.main # "fail" => Says(o, t, verdict, result)
        /\ o.main = "fail" => Errs(o, t, verdict)
    BY <1>1, <2>1 DEF Answered, Quiet, Calm, Mute, Says, Agrees, Errs, Onward, Sane,
         CallState, HasReserved, MainStage, Answer, Ending, Engaged, Closed
  <2>5. /\ Calm(o, s)
        /\ o.main # "fail" => Says(o, s, verdict, result)
        /\ o.main = "fail" => Errs(o, s, verdict)
    <3>1. CASE o.main = "reject"
      BY <1>1, <3>1 DEF ClosedAs, Denied, Calm, Says, Agrees, Onward, Sane, CallState,
           HasReserved, MainStage, Evaluation, Ending, Engaged, Closed
    <3>2. CASE o.main = "skip"
      BY <1>1, <3>2 DEF ClosedAs, Answered, Calm, Says, Agrees, Onward, Sane, CallState,
           HasReserved, MainStage, Answer, Ending, Engaged, Closed
    <3>3. CASE o.main = "fail"
      BY <1>1, <3>3 DEF ClosedAs, Answered, Calm, Agrees, Errs, Onward, Sane, CallState,
           HasReserved, MainStage, Answer, Ending, Engaged, Closed
    <3>4. QED
      BY <2>1, <3>1, <3>2, <3>3
  <2> HIDE DEF s, t, e, verdict, result
  <2>6. Writes(c)
    BY <1>writes, <2>1
  <2>7. CASE Records(c, e, s)
    <3>1. Voices(c, e, s)
      BY <2>7 DEF Voices
    <3>2. QED
      BY <2>3, <2>5, <2>6, <3>1, SpokenTurn, PlainTurn DEF o
  <2>8. CASE RecordFails(c, e, t)
    <3>1. Voices(c, e, t) /\ Calm(o, t)
      BY <2>4, <2>8 DEF Voices, Quiet, o
    <3>2. QED
      BY <2>3, <2>4, <2>6, <3>1, SpokenTurn, PlainTurn DEF o
  <2>9. QED
    BY <2>1, <2>7, <2>8
<1>5. QED
  BY <1>2, <1>3, <1>4 DEF After

LEMMA WorkerTurns == ASSUME TypeOK, NEW c \in Call, Worker(c) PROVE \E s : Turn(c, s)
<1> DEFINE o == call[c]
<1>1. /\ Sane(o) /\ o \in CallState /\ clock \in Nat /\ o.evaluation \in Evaluation
      /\ o.result \in Result
  BY DEF TypeOK, CallState
<1> HIDE DEF o
<1>2. ASSUME NEW result \in {"success", "failure"}, ExecutorReturns(c, result)
      PROVE  \E s : Turn(c, s)
  <2> DEFINE p == [o EXCEPT !.effected = (result = "success"), !.result = result]
             s == IF p.aborted \/ ~InTime(c) THEN [p EXCEPT !.work = "rejected", !.admission = TRUE]
                  ELSE [p EXCEPT !.work = "record"]
  <2>1. o.work = "executing" /\ Moves(c, s)
    BY <1>2 DEF ExecutorReturns, o
  <2>2. Sane([o EXCEPT !.effected = (result = "success"), !.result = result, !.work = "rejected",
                       !.admission = TRUE])
        /\ Sane([o EXCEPT !.effected = (result = "success"), !.result = result, !.work = "record"])
    BY <1>1, <2>1 DEF Sane, CallState, WorkStage, Result
  <2>3. s \in {[o EXCEPT !.effected = (result = "success"), !.result = result, !.work = "rejected",
                         !.admission = TRUE],
               [o EXCEPT !.effected = (result = "success"), !.result = result, !.work = "record"]}
    BY <1>1 DEF CallState
  <2>4. /\ Sane(s) /\ s.work \in {"record", "rejected"}
        /\ \A f \in {"intent", "main", "started", "contractEnd", "lost", "answer", "evaluation"} :
             s[f] = o[f]
    BY <1>1, <2>2, <2>3 DEF CallState
  <2> HIDE DEF s
  <2>5. Quiet(o, s)
    BY <1>1, <2>1, <2>4 DEF Quiet, Calm, Mute, Says, Agrees, Onward, Sane, HasReserved,
         Ending, Engaged, Closed
  <2>6. QED
    BY <2>1, <2>5, MovesTurn DEF o
<1>3. ASSUME NEW effect \in BOOLEAN, ExecutorThrows(c, effect)
      PROVE  \E s : Turn(c, s)
  <2> DEFINE s == [o EXCEPT !.effected = effect, !.work = "rejected"]
  <2>1. o.work = "executing" /\ Moves(c, s)
    BY <1>3 DEF ExecutorThrows, o
  <2>2. Quiet(o, s)
    BY <1>1, <2>1 DEF Quiet, Calm, Mute, Says, Agrees, Onward, Sane, CallState,
         WorkStage, HasReserved, Ending, Engaged, Closed
  <2>3. QED
    BY <2>1, <2>2, MovesTurn DEF o
<1>4. CASE RecordCompletion(c) \/ CompletionFails(c)
  <2> DEFINE e == Event(o, "ExecutionCompleted", o.result, FALSE)
             s == [o EXCEPT !.work = "resolved"]
             t == [o EXCEPT !.work = "rejected"]
  <2>1. o.work = "record" /\ (Records(c, e, s) \/ RecordFails(c, e, t))
    BY <1>4 DEF RecordCompletion, CompletionFails, Completed, o
  <2>2. Plain(e, IF o.result = "success" THEN "SUCCESS" ELSE "FAILED", o.evaluation, o.result)
    BY <1>1, PlainEvent DEF StatusOf
  <2>3. (o.effected <=> o.result = "success") /\ Engaged(o)
    BY <1>1, <2>1 DEF Sane, Engaged
  <2>4. /\ Onward(o, s) /\ s.work \notin {"executing", "record"} /\ s.started
        /\ Governed => s.contractEnd # 0
        /\ s.effected <=> o.effected
        /\ Says(o, s, o.evaluation, o.result)
    BY <1>1, <2>1 DEF Says, Agrees, Onward, Sane, CallState, WorkStage, HasReserved, Ending
  <2>5. /\ Quiet(o, t) /\ t.work \notin {"executing", "record"} /\ t.started
        /\ Governed => t.contractEnd # 0
        /\ t.effected <=> o.effected
        /\ Says(o, t, o.evaluation, o.result)
    BY <1>1, <2>1 DEF Quiet, Calm, Mute, Says, Agrees, Onward, Sane, CallState, WorkStage,
                      HasReserved, Ending, Engaged, Closed
  <2> DEFINE status == IF o.result = "success" THEN "SUCCESS" ELSE "FAILED"
  <2> HIDE DEF s, t, e
  <2>6. CASE Records(c, e, s)
    <3>1. Voices(c, e, s)
      BY <2>6 DEF Voices
    <3>2. Traces'[o.intent].status = status => Completes(o, s)
      BY <2>1, <2>3, <2>4 DEF Completes
    <3>3. QED
      BY <2>2, <2>3, <2>4, <3>1, <3>2, TracedTurn DEF o
  <2>7. CASE RecordFails(c, e, t)
    <3>1. Voices(c, e, t)
      BY <2>5, <2>7 DEF Voices, o
    <3>2. Traces'[o.intent].status = status => Completes(o, t)
      BY <2>1, <2>3, <2>5 DEF Completes
    <3>3. Onward(o, t)
      BY <2>5 DEF Quiet, Calm
    <3>4. QED
      BY <2>2, <2>3, <2>5, <3>1, <3>2, <3>3, TracedTurn DEF o
  <2>8. QED
    BY <2>1, <2>6, <2>7
<1>5. QED
  BY <1>2, <1>3, <1>4 DEF Worker

LEMMA CrashTurns == ASSUME TypeOK, NEW c \in Call, Crash(c) PROVE \E s : Turn(c, s)
<1> DEFINE o == call[c]
<1>1. Sane(o) /\ o \in CallState
  BY DEF TypeOK
<1>2. PICK effect \in {o.effected, o.work = "executing"} :
        call' = [call EXCEPT ![c] =
                   [o EXCEPT !.main = "over", !.work = "off", !.effected = effect,
                             !.answer = IF o.main = "over" THEN @ ELSE "dead"]]
  BY DEF Crash
<1>3. clock' = clock /\ history' = history
  BY DEF Crash
<1> HIDE DEF o
<1> DEFINE s == [o EXCEPT !.main = "over", !.work = "off", !.effected = effect,
                          !.answer = IF o.main = "over" THEN @ ELSE "dead"]
<1>4. effect \in BOOLEAN /\ (effect => o.effected \/ o.work = "executing")
  BY <1>1 DEF CallState
<1>guard. o.main # "over" \/ o.work \in {"executing", "record"}
  BY DEF Crash, o
<1>5. Quiet(o, s)
  <2>1. /\ s.main = "over" /\ s.work = "off" /\ (s.effected <=> effect)
        /\ s.answer = IF o.main = "over" THEN o.answer ELSE "dead"
        /\ \A f \in {"intent", "started", "contractEnd", "lost", "evaluation", "result"} : s[f] = o[f]
        /\ s \in CallState
    BY <1>1, <1>4 DEF CallState, MainStage, WorkStage, Answer
  <2> HIDE DEF s
  <2>2. Sane(s)
    BY <1>1, <1>4, <1>guard, <2>1 DEF Sane
  <2>3. QED
    BY <1>1, <1>4, <1>guard, <2>1, <2>2 DEF Quiet, Calm, Mute, Says, Agrees, Onward, Sane,
         HasReserved, Ending, Engaged, Closed
<1>6. Traces' = Traces /\ Grows /\ o.intent \in Intent
  BY <1>1, <1>3 DEF Traces, Grows, TypeOK, CallState
<1>7. Turn(c, s)
  BY <1>2, <1>3, <1>5, <1>6 DEF Turn, Quiet, Calm, Keeps, o
<1>8. QED
  BY <1>7
-----------------------------------------------------------------------------
(* What the stored events say of a call that nobody else writes for: in    *)
(* particular, that an error is only said by a call that ends with it.     *)
Lone(c) == Governed \/ Alone(c)
Told(c) ==
  LET s == call[c]
      i == call[c].intent
  IN /\ i \in Failing => s.main = "over" /\ s.answer \in {"failed", "thrown"}
     /\ s.evaluation # "none" /\ s.answer # "thrown" => Evaluated[i] = s.evaluation
     /\ s.work = "resolved" /\ i \notin Failing => ResultOf[i] = s.result
     /\ s.answer = "failed" => \/ i \in Failing
                               \/ s.work = "resolved" /\ s.result = "failure" /\ s.started
Untold(c) == ~Governed /\ call[c].main = "receive" => history[call[c].intent] = <<>>

Faithful == \A c \in Call : Lone(c) => (Engaged(call[c]) => Told(c)) /\ Untold(c)

LEMMA TurnKeepsFaithful ==
  ASSUME TypeOK, Governed => Governing, Faithful, NEW c \in Call, NEW s, Turn(c, s)
  PROVE  Faithful'
<1> DEFINE o == call[c]
           i == o.intent
<1>1. /\ call'[c] = s /\ \A d \in Call : d # c => call'[d] = call[d]
      /\ o \in CallState /\ Sane(o) /\ Sane(s) /\ Onward(o, s) /\ i \in Intent /\ s.intent = i
      /\ \A d \in Call : call[d].intent \in Intent
  BY DEF TypeOK, Turn, Onward, Sane, CallState
<1>2. \A d \in Call : call'[d].intent = call[d].intent /\ (Lone(d)' <=> Lone(d))
  <2>1. \A d \in Call : call'[d].intent = call[d].intent
    BY <1>1
  <2>2. QED
    BY <2>1 DEF Lone, Alone
<1>3. \A j \in Intent : history'[j] = history[j] =>
        /\ Evaluated'[j] = Evaluated[j] /\ ResultOf'[j] = ResultOf[j]
        /\ j \in Failing' <=> j \in Failing
  BY DEF Evaluated, ResultOf, Failing
<1>4. /\ \A j \in Intent : j # i => history'[j] = history[j]
      /\ history' = history \/ Writes(c)
  BY DEF Turn
<1>5. ASSUME NEW d \in Call, d # c, Lone(d)
      PROVE  (Engaged(call'[d]) => Told(d)') /\ Untold(d)'
  <2>1. call'[d] = call[d] /\ (Engaged(call[d]) => Told(d)) /\ Untold(d)
    BY <1>1, <1>5 DEF Faithful
  <2>2. CASE history'[call[d].intent] = history[call[d].intent]
    BY <1>1, <1>3, <2>1, <2>2 DEF Told, Untold
  <2>3. CASE history'[call[d].intent] # history[call[d].intent]
    <3>1. call[d].intent = i /\ Writes(c)
      BY <1>1, <1>4, <2>3
    <3>2. Governed /\ Governing
      BY <1>5, <3>1 DEF Lone, Alone
    <3>3. Engaged(call[d]) => history[i] # <<>> /\ ~Engaged(o)
      BY <1>5, <3>1, <3>2 DEF Governing, Known, Sole
    <3>4. ~Engaged(call[d])
      BY <3>1, <3>2, <3>3 DEF Writes
    <3>5. QED
      BY <2>1, <3>2, <3>4 DEF Untold
  <2>4. QED
    BY <2>2, <2>3
<1>6. ASSUME Lone(c), Engaged(s) PROVE Told(c)'
  <2>1. Told(c)
    <3>1. CASE Engaged(o)
      BY <1>6, <3>1 DEF Faithful
    <3>2. CASE ~Engaged(o)
      <4>1. o.main = "receive" /\ (Governed => history[i] = <<>>)
        BY <1>1, <1>6, <3>2 DEF Turn, Calm, Begins, Reserves, Cancels, Completes,
             Engaged, Sane
      <4>2. history[i] = <<>>
        BY <1>6, <4>1 DEF Faithful, Untold
      <4>3. i \notin Failing
        BY <4>2 DEF Failing
      <4>4. o.evaluation = "none" /\ o.work = "off" /\ o.answer = "none"
        BY <1>1, <4>1 DEF Sane
      <4>5. QED
        BY <4>3, <4>4 DEF Told
    <3>3. QED
      BY <3>1, <3>2
  <2>2. CASE history' = history /\ Mute(o, s)
    <3>1. /\ Evaluated'[i] = Evaluated[i] /\ ResultOf'[i] = ResultOf[i]
          /\ i \in Failing' <=> i \in Failing
      BY <1>1, <1>3, <2>2
    <3>2. QED
      BY <1>1, <2>1, <2>2, <3>1 DEF Told, Mute, Says, Agrees
  <2>3. ASSUME NEW evaluation \in Evaluation, NEW result \in Result,
               Hears(i, evaluation, result), i \in Failing' <=> i \in Failing,
               Says(o, s, evaluation, result)
        PROVE  Told(c)'
    BY <1>1, <2>1, <2>3 DEF Told, Says, Agrees, Hears
  <2>4. ASSUME NEW evaluation \in Evaluation, NEW result \in Result,
               Hears(i, evaluation, result), i \in Failing', Errs(o, s, evaluation)
        PROVE  Told(c)'
    BY <1>1, <2>1, <2>4 DEF Told, Errs, Agrees, Hears
  <2>5. QED
    BY <2>2, <2>3, <2>4 DEF Turn
<1>7. Untold(c)'
  BY <1>1 DEF Untold, Onward
<1>8. QED
  BY <1>1, <1>2, <1>5, <1>6, <1>7 DEF Faithful
-----------------------------------------------------------------------------
Inductive == TypeOK /\ (Governed => Governing) /\ Faithful

LEMMA Initially == Init => Inductive
<1> SUFFICES ASSUME Init PROVE Inductive
  OBVIOUS
<1>1. history \in [Intent -> History]
  <2>1. <<>> \in Seq(EventRecord) /\ \A field \in Field : Given(<<>>, field) = {}
    BY DEF Given
  <2>2. <<>> \in History
    BY <2>1 DEF History, HasLast
  <2>3. QED
    BY <2>2 DEF Init
<1>2. ASSUME NEW c \in Call
      PROVE  call[c] \in CallState /\ Sane(call[c]) /\ ~Engaged(call[c])
  <2>1. PICK i \in Intent : call[c] = New(i)
    BY <1>2 DEF Init
  <2>2. New(i) \in CallState
    <3>1. 1 \in 1..Len(Stages)
      BY DEF Stages
    <3>2. QED
      BY <3>1 DEF New, CallState, MainStage, WorkStage, Answer, Evaluation, Result
  <2>3. QED
    BY <2>1, <2>2 DEF New, Sane, Engaged
<1>3. TypeOK
  BY <1>1, <1>2 DEF Init, TypeOK
<1>4. Governing
  BY <1>2 DEF Governing, Known, Unreserved, Freed, Settled, Sole, Engaged
<1>5. Faithful
  BY <1>2 DEF Faithful, Untold, Init, New
<1>6. QED
  BY <1>3, <1>4, <1>5 DEF Inductive

LEMMA NextTurns ==
  ASSUME PositiveTtl, TypeOK, Next
  PROVE  \/ clock' \in Nat /\ UNCHANGED <<history, call>>
         \/ \E c \in Call : \E s : Turn(c, s)
<1>1. CASE Tick
  BY <1>1 DEF Tick, TypeOK
<1>2. ASSUME NEW c \in Call, Main(c) \/ Worker(c) \/ Crash(c) PROVE \E s : Turn(c, s)
  BY <1>2, BeforeTurns, IdentityTurns, AfterTurns, WorkerTurns, CrashTurns DEF Main
<1>3. QED
  BY <1>1, <1>2 DEF Next

LEMMA Inductively ==
  ASSUME PositiveTtl, Inductive, [Next]_vars
  PROVE  Inductive'
<1>1. CASE clock' \in Nat /\ UNCHANGED <<history, call>>
  <2>1. Traces' = Traces /\ Evaluated' = Evaluated /\ ResultOf' = ResultOf /\ Failing' = Failing
    BY <1>1 DEF Traces, Evaluated, ResultOf, Failing
  <2>2. TypeOK' /\ (Governed => Governing')
    BY <1>1, <2>1 DEF Inductive, TypeOK, Governing, Known, Sole, Unreserved, Freed, Settled,
                      TraceOfCall
  <2>3. Faithful'
    BY <1>1, <2>1 DEF Inductive, Faithful, Lone, Alone, Told, Untold
  <2>4. QED
    BY <2>2, <2>3 DEF Inductive
<1>2. ASSUME NEW c \in Call, NEW s, Turn(c, s) PROVE Inductive'
  BY <1>2, TurnKeepsTypes, TurnKeepsGoverning, TurnKeepsFaithful DEF Inductive
<1>3. CASE UNCHANGED vars
  BY <1>1, <1>3 DEF vars, Inductive, TypeOK
<1>4. QED
  BY <1>1, <1>2, <1>3, NextTurns DEF Inductive

(* What a call's variables can be, and what they say of one another.       *)
THEOREM TypeCorrect == ASSUME PositiveTtl PROVE Spec => []TypeOK
<1>1. Init => Inductive
  BY Initially
<1>2. Inductive /\ [Next]_vars => Inductive'
  BY Inductively
<1>3. Inductive => TypeOK
  BY DEF Inductive
<1>4. QED
  BY <1>1, <1>2, <1>3, PTL DEF Spec

(* However many calls and copies of a proposal there are and whatever      *)
(* fails: an execution whose trace says FAILED had no effect, and a        *)
(* reservation stays open only for a reason (OpenKedgeEngine.ts:127,       *)
(* docs/temporal-invariants.md:177-183).                                   *)
THEOREM BudgetFollows == ASSUME PositiveTtl PROVE Spec => []BudgetFollowsEffects
<1>1. Init => Inductive
  BY Initially
<1>2. Inductive /\ [Next]_vars => Inductive'
  BY Inductively
<1>3. Inductive => BudgetFollowsEffects
  <2> SUFFICES ASSUME Inductive, Governed, NEW c \in Call
               PROVE  /\ TraceOfCall(c).status = "FAILED" => ~call[c].effected
                      /\ /\ Over(c) /\ call[c].answer # "refused"
                         /\ TraceOfCall(c).status = "RESERVED"
                         => \/ call[c].started \/ call[c].lost
                            \/ call[c].answer \in {"dead", "thrown"}
    BY DEF BudgetFollowsEffects, FreedBudgetHadNoEffect, OpenReservationIsExplained
  <2> DEFINE s == call[c]
  <2>1. s \in CallState /\ Sane(s) /\ Unreserved(c) /\ Freed(c) /\ Settled(c)
    BY DEF Inductive, TypeOK, Governing
  <2>2. TraceOfCall(c).status = "FAILED" => ~s.effected
    BY <2>1 DEF Freed, Engaged, Sane
  <2>3. ASSUME s.main = "over", s.answer # "refused", TraceOfCall(c).status = "RESERVED",
               ~s.started, ~s.lost, s.answer \notin {"dead", "thrown"}
        PROVE  FALSE
    <3>1. s.answer \in {"blocked", "failed"}
      BY <2>1, <2>3 DEF Sane, CallState, Answer
    <3>2. Engaged(s) /\ Closed(s)
      BY <3>1 DEF Engaged, Closed
    <3>3. CASE s.contractEnd = 0
      BY <2>1, <2>3, <3>2, <3>3 DEF Unreserved, HasReserved
    <3>4. CASE s.contractEnd # 0
      BY <2>1, <2>3, <3>2, <3>4 DEF Settled
    <3>5. QED
      BY <3>3, <3>4
  <2>4. QED
    BY <2>2, <2>3 DEF Over
<1>4. QED
  BY <1>1, <1>2, <1>3, PTL DEF Spec

(* What the stored events say agrees with the answers.                    *)
LEMMA ToldAnswers == Inductive => AnswersAreTrue
<1> SUFFICES ASSUME Inductive PROVE AnswersAreTrue
  OBVIOUS
<1>1. RefusalNeverExecutes
  BY DEF Inductive, TypeOK, Sane, RefusalNeverExecutes
<1>2. ASSUME NEW c \in Call, Over(c), call[c].answer \in DOMAIN Reported, Governed \/ Alone(c)
      PROVE  FinalOutcome(history[call[c].intent]) = Reported[call[c].answer]
  <2> DEFINE s == call[c]
             h == history[call[c].intent]
  <2>1. s \in CallState /\ Sane(s) /\ s.intent \in Intent /\ s.main = "over"
    BY <1>2 DEF Inductive, TypeOK, CallState, Over
  <2>2. s.answer \in {"success", "blocked", "failed"}
    BY <1>2 DEF Reported
  <2>3. Told(c)
    BY <1>2, <2>2 DEF Inductive, Faithful, Lone, Engaged
  <2>4. /\ s.intent \in Failing <=> \E j \in DOMAIN h : h[j].error
        /\ Evaluated[s.intent] = LastOf(h, "evaluation")
        /\ ResultOf[s.intent] = LastOf(h, "result")
    BY <2>1 DEF Failing, Evaluated, ResultOf
  <2> HIDE DEF s, h
  <2>5. FinalOutcome(h) = IF s.intent \in Failing THEN "failed"
                          ELSE IF Evaluated[s.intent] = "denied" THEN "blocked"
                          ELSE IF /\ Evaluated[s.intent] = "allowed"
                                  /\ ResultOf[s.intent] = "success" THEN "allowed"
                          ELSE IF ResultOf[s.intent] = "failure" THEN "failed"
                          ELSE "unknown"
    BY <2>4 DEF FinalOutcome
  <2>6. CASE s.answer = "success"
    <3>1. s.evaluation = "allowed" /\ s.work = "resolved" /\ s.result = "success"
      BY <2>1, <2>6 DEF Sane
    <3>2. /\ s.intent \notin Failing /\ Evaluated[s.intent] = "allowed"
          /\ ResultOf[s.intent] = "success"
      BY <2>3, <2>6, <3>1 DEF Told, s
    <3>3. QED
      BY <2>5, <2>6, <3>2 DEF Reported, s, h
  <2>7. CASE s.answer = "blocked"
    <3>1. s.evaluation = "denied"
      BY <2>1, <2>7 DEF Sane
    <3>2. s.intent \notin Failing /\ Evaluated[s.intent] = "denied"
      BY <2>3, <2>7, <3>1 DEF Told, s
    <3>3. QED
      BY <2>5, <2>7, <3>2 DEF Reported, s, h
  <2>8. CASE s.answer = "failed"
    <3>1. \/ s.intent \in Failing
          \/ /\ s.intent \notin Failing
             /\ s.work = "resolved" /\ s.result = "failure" /\ s.started
      BY <2>3, <2>8 DEF Told, s
    <3>2. s.started => s.evaluation = "allowed"
      BY <2>1 DEF Sane
    <3>3. \/ s.intent \in Failing
          \/ Evaluated[s.intent] = "allowed" /\ ResultOf[s.intent] = "failure"
      BY <2>3, <2>8, <3>1, <3>2 DEF Told, s
    <3>4. QED
      BY <2>5, <2>8, <3>3 DEF Reported, s, h
  <2>9. QED
    BY <2>2, <2>6, <2>7, <2>8 DEF s
<1>3. QED
  BY <1>1, <1>2 DEF AnswersAreTrue, ReplayTellsTheAnswer

(* What process() answered is what a replay of the stored events says,     *)
(* whatever failed or was late, and also of a proposal that was submitted  *)
(* again; and an answer that says "refused" or "blocked" is final: the     *)
(* executor was not called and never will be (OpenKedgeEngine.ts:56-144,   *)
(* ReplayEngine.ts:130-154).                                               *)
THEOREM AnswersTold == ASSUME PositiveTtl PROVE Spec => []AnswersAreTrue
<1>1. Init => Inductive
  BY Initially
<1>2. Inductive /\ [Next]_vars => Inductive'
  BY Inductively
<1>3. Inductive => AnswersAreTrue
  BY ToldAnswers
<1>4. QED
  BY <1>1, <1>2, <1>3, PTL DEF Spec

(* The executor is called within the contract or not at all                *)
(* (IdentityManager.ts:57).                                                *)
THEOREM StartsOnTime == ASSUME PositiveTtl PROVE Spec => StartsInTime
<1> DEFINE OnTime == \A c \in Call :
             Governed /\ ~call[c].started /\ call'[c].started => clock < call[c].contractEnd
<1>1. Init => Inductive
  BY Initially
<1>2. Inductive /\ [Next]_vars => Inductive'
  BY Inductively
<1>3. Inductive /\ [Next]_vars => [OnTime]_vars
  <2> SUFFICES ASSUME Inductive, Next PROVE OnTime
    BY DEF OnTime
  <2>1. CASE UNCHANGED call
    BY <2>1
  <2>2. ASSUME NEW d \in Call, NEW s, Turn(d, s) PROVE OnTime
    <3> SUFFICES ASSUME NEW c \in Call, Governed, ~call[c].started, call'[c].started
                 PROVE  clock < call[c].contractEnd
      OBVIOUS
    <3>1. call'[d] = s /\ (c # d => call'[c] = call[c])
      BY <2>2 DEF Turn, Inductive, TypeOK
    <3>2. c = d
      BY <3>1
    <3>3. s.started /\ ~call[d].started
      BY <3>1, <3>2
    <3>4. MayStart(call[d])
      BY <2>2, <3>3 DEF Turn, Onward
    <3>5. QED
      BY <3>2, <3>4 DEF MayStart
  <2>3. QED
    BY <2>1, <2>2, NextTurns DEF Inductive
<1>4. QED
  BY <1>1, <1>2, <1>3, PTL DEF Spec, StartsInTime

-----------------------------------------------------------------------------
(* Nothing was said of an intent whose only call was not received, or was  *)
(* refused.                                                                *)
Silent == \A c \in Call :
  Alone(c) => /\ call[c].main = "receive" => history[call[c].intent] = <<>>
              /\ call[c].answer = "refused" => Evaluated[call[c].intent] = "none"

LEMMA TurnKeepsSilent ==
  ASSUME TypeOK, Silent, NEW c \in Call, NEW s, Turn(c, s)
  PROVE  Silent'
<1> DEFINE o == call[c]
           i == o.intent
<1>1. /\ call'[c] = s /\ \A d \in Call : d # c => call'[d] = call[d]
      /\ Sane(o) /\ Sane(s) /\ Onward(o, s) /\ i \in Intent /\ s.intent = i
      /\ \A d \in Call : call[d].intent \in Intent
  BY DEF TypeOK, Turn, Onward, Sane, CallState
<1>2. \A d \in Call : call'[d].intent = call[d].intent /\ (Alone(d)' <=> Alone(d))
  <2>1. \A d \in Call : call'[d].intent = call[d].intent
    BY <1>1
  <2> QED BY <2>1 DEF Alone
<1>3. ASSUME NEW d \in Call, d # c, Alone(d)
      PROVE  /\ call'[d].main = "receive" => history'[call[d].intent] = <<>>
             /\ call'[d].answer = "refused" => Evaluated'[call[d].intent] = "none"
  <2>1. call'[d] = call[d] /\ call[d].intent # i
    BY <1>1, <1>3 DEF Alone
  <2>2. history'[call[d].intent] = history[call[d].intent]
    BY <1>1, <2>1 DEF Turn
  <2>3. Evaluated'[call[d].intent] = Evaluated[call[d].intent]
    BY <1>1, <2>2 DEF Evaluated
  <2> QED BY <1>3, <2>1, <2>2, <2>3 DEF Silent
<1>4. ASSUME Alone(c), s.answer = "refused"
      PROVE  Evaluated'[i] = "none"
  <2>1. s.evaluation = "none"
    BY <1>1, <1>4 DEF Sane
  <2>2. Evaluated[i] = "none"
    <3>1. CASE o.answer = "refused"
      BY <1>4, <3>1 DEF Silent
    <3>2. CASE o.main = "receive"
      <4>1. history[i] = <<>>
        BY <1>4, <3>2 DEF Silent
      <4> QED BY <1>1, <4>1 DEF Evaluated, LastOf
    <3> QED BY <1>1, <1>4, <3>1, <3>2 DEF Onward
  <2>3. CASE history' = history
    BY <1>1, <2>2, <2>3 DEF Evaluated
  <2>4. ASSUME NEW evaluation \in Evaluation, NEW result \in Result, Hears(i, evaluation, result),
               Says(o, s, evaluation, result) \/ Errs(o, s, evaluation)
        PROVE  Evaluated'[i] = "none"
    BY <1>4, <2>1, <2>2, <2>4 DEF Says, Errs, Agrees, Hears
  <2> QED BY <2>3, <2>4 DEF Turn
<1> QED BY <1>1, <1>2, <1>3, <1>4 DEF Silent, Onward

(* What a command has said of a call stays so: the call is over.           *)
Telling ==
  [said: {"nothing", "decision", "error"},
   outcome: {"none", "failed", "blocked", "allowed", "unknown"}, exit: {0, 1, 2}, status: Nat]
Spoken == \A c \in Call :
  command[c].said = "decision" /\ Alone(c) =>
    /\ Over(c) /\ call[c].answer \in {"success", "blocked", "failed", "refused"}
    /\ command[c].exit = 0 <=> call[c].answer = "success"
    /\ command[c].exit = 0 <=> command[c].outcome = "allowed"
    /\ command[c].exit = 1 => call[c].answer = "blocked"

CommandInv == Inductive /\ Silent /\ command \in [Call -> Telling] /\ Spoken

LEMMA CommandInitially == CommandInit => CommandInv
<1> SUFFICES ASSUME CommandInit PROVE CommandInv
  OBVIOUS
<1>1. Inductive
  BY Initially DEF CommandInit
<1>2. Silent
  <2>1. ASSUME NEW c \in Call PROVE call[c].intent \in Intent /\ call[c].answer = "none"
    BY DEF CommandInit, Init, New
  <2> QED BY <2>1 DEF CommandInit, Init, Silent
<1> QED BY <1>1, <1>2 DEF CommandInv, CommandInit, Telling, Spoken

LEMMA OutcomeType == \A h : FinalOutcome(h) \in {"failed", "blocked", "allowed", "unknown"}
BY DEF FinalOutcome

LEMMA CommandInductively ==
  ASSUME PositiveTtl, CommandInv, [CommandNext]_commandVars
  PROVE  CommandInv'
<1>0. Inductive /\ Silent /\ command \in [Call -> Telling] /\ Spoken /\ TypeOK
  BY DEF CommandInv, Inductive
<1>1. CASE UNCHANGED <<history, call, command>> /\ [Next]_vars
  <2>1. Silent' /\ Spoken'
    BY <1>0, <1>1 DEF Silent, Spoken, Alone, Over, Evaluated
  <2> QED BY <1>0, <1>1, <2>1, Inductively DEF CommandInv
<1>2. CASE Next /\ UNCHANGED command
  <2>1. ASSUME NEW c \in Call, NEW s, Turn(c, s) PROVE CommandInv'
    <3>1. Silent'
      BY <1>0, <2>1, TurnKeepsSilent
    <3>2. /\ call'[c] = s /\ \A d \in Call : d # c => call'[d] = call[d]
          /\ s.intent = call[c].intent
          /\ call[c].main = "over" => s.main = "over" /\ s.answer = call[c].answer
      BY <1>0, <2>1 DEF Turn, TypeOK, Onward, Mute, Says, Errs, Agrees
    <3>3. \A d \in Call : (Alone(d)' <=> Alone(d)) /\ (Over(d) => Over(d)' /\ call'[d].answer = call[d].answer)
      BY <3>2 DEF Alone, Over
    <3>4. Spoken'
      BY <1>0, <1>2, <3>3 DEF Spoken
    <3> QED BY <1>0, <1>2, <3>1, <3>4, Inductively DEF CommandInv
  <2> QED BY <1>0, <1>1, <1>2, <2>1, NextTurns
<1>3. ASSUME NEW c \in Call, Speak(c) \/ SpeakError(c) PROVE CommandInv'
  <2>1. UNCHANGED vars /\ UNCHANGED <<clock, history, call, faults>>
    BY <1>3 DEF Speak, SpeakError, vars
  <2>2. Inductive' /\ Silent'
    <3>1. Inductive'
      BY <1>0, <2>1, Inductively
    <3> QED BY <1>0, <2>1, <3>1 DEF Silent, Alone, Evaluated
  <2> DEFINE Error == [said |-> "error", outcome |-> "none", exit |-> 2, status |-> 500]
             Decision == [said |-> "decision", outcome |-> Replays(c),
                          exit |-> ExitCode(Replays(c), call[c].answer), status |-> StatusCode(call[c].answer)]
  <2>a. Error \in Telling /\ Decision \in Telling
    <3>1. /\ Replays(c) \in {"failed", "blocked", "allowed", "unknown"}
          /\ ExitCode(Replays(c), call[c].answer) \in {0, 1, 2}
          /\ StatusCode(call[c].answer) \in Nat
      BY OutcomeType DEF Replays, ExitCode, StatusCode
    <3> QED BY <3>1 DEF Telling
  <2>b. \/ command' = [command EXCEPT ![c] = Error]
        \/ command' = [command EXCEPT ![c] = Decision] /\ Speak(c)
    BY <1>3 DEF Speak, SpeakError
  <2>c. Error.said # "decision"
    OBVIOUS
  <2> HIDE DEF Error, Decision
  <2>3. PICK t \in Telling : command' = [command EXCEPT ![c] = t] /\ (t.said = "decision" => Speak(c))
    BY <2>a, <2>b, <2>c
  <2>4. /\ command' \in [Call -> Telling] /\ command'[c] = t
        /\ \A d \in Call : d # c => command'[d] = command[d]
    BY <1>0, <2>3
  <2>5. ASSUME t.said = "decision", Alone(c)
        PROVE  /\ Over(c) /\ call[c].answer \in {"success", "blocked", "failed", "refused"}
               /\ t.exit = 0 <=> call[c].answer = "success"
               /\ t.exit = 0 <=> t.outcome = "allowed"
               /\ t.exit = 1 => call[c].answer = "blocked"
    <3>1. /\ Over(c) /\ call[c].answer \in {"success", "blocked", "failed", "refused"}
          /\ command'[c].outcome = Replays(c)
          /\ command'[c].exit = ExitCode(Replays(c), call[c].answer)
      BY <1>0, <2>3, <2>4, <2>5 DEF Speak
    <3>2. call[c].answer # "refused" => Replays(c) = Reported[call[c].answer]
      <4>1. Inductive => AnswersAreTrue
        BY ToldAnswers
      <4> QED BY <1>0, <2>5, <3>1, <4>1 DEF AnswersAreTrue, ReplayTellsTheAnswer, Replays, Reported
    <3>3. call[c].answer = "refused" => Replays(c) \in {"failed", "unknown"}
      <4> SUFFICES ASSUME call[c].answer = "refused"
                   PROVE  Replays(c) \in {"failed", "unknown"}
        OBVIOUS
      <4>1. call[c].intent \in Intent /\ Evaluated[call[c].intent] = "none"
        BY <1>0, <2>5 DEF TypeOK, CallState, Silent
      <4>2. LastOf(history[call[c].intent], "evaluation") = "none"
        BY <4>1 DEF Evaluated
      <4> QED BY <4>2 DEF Replays, FinalOutcome
    <3> QED BY <2>4, <3>1, <3>2, <3>3 DEF ExitCode, Reported
  <2>6. Spoken'
    <3> SUFFICES ASSUME NEW d \in Call, command'[d].said = "decision", Alone(d)
                 PROVE  /\ Over(d) /\ call[d].answer \in {"success", "blocked", "failed", "refused"}
                        /\ command'[d].exit = 0 <=> call[d].answer = "success"
                        /\ command'[d].exit = 0 <=> command'[d].outcome = "allowed"
                        /\ command'[d].exit = 1 => call[d].answer = "blocked"
      BY <2>1 DEF Spoken, Alone, Over
    <3> QED BY <1>0, <2>4, <2>5 DEF Spoken
  <2> QED BY <2>2, <2>4, <2>6 DEF CommandInv
<1> QED BY <1>1, <1>2, <1>3 DEF CommandNext, commandVars, vars

(* The exit code of a command on an intent submitted once says what became *)
(* of it, and so does the word it prints, whatever failed and whatever the *)
(* worker did after the answer (run.ts:46-67, serve.ts:52-59).             *)
THEOREM ExitsTell == ASSUME PositiveTtl PROVE CommandSpec => [](AnswersAreTrue /\ ExitTellsWhatHappened)
<1>1. CommandInit => CommandInv
  BY CommandInitially
<1>2. CommandInv /\ [CommandNext]_commandVars => CommandInv'
  BY CommandInductively
<1>3. CommandInv => AnswersAreTrue
  BY ToldAnswers DEF CommandInv
<1>4. CommandInv => ExitTellsWhatHappened
  <2> SUFFICES ASSUME CommandInv, NEW c \in Call, command[c].said = "decision", Alone(c)
               PROVE  /\ command[c].exit = 0 <=> call[c].effected /\ call[c].answer = "success"
                      /\ command[c].exit = 1 => ~call[c].started
                      /\ command[c].exit = 0 <=> command[c].outcome = "allowed"
    BY DEF ExitTellsWhatHappened
  <2>1. Sane(call[c])
    BY DEF CommandInv, Inductive, TypeOK
  <2>2. call[c].answer = "success" => call[c].effected
    BY <2>1 DEF Sane
  <2> QED BY <2>1, <2>2 DEF CommandInv, Spoken, Sane
<1> QED BY <1>1, <1>2, <1>3, <1>4, PTL DEF CommandSpec

-----------------------------------------------------------------------------
(* A cloud: what is there, and which of it is gone.                        *)
CloudOf(c) == c \in [Instance -> [state: {"running", "stopped", "gone"}, tags: TagSets]]
Times == [from: Nat, end: Nat]

(* What a session may do: the requests of a contract end with it.          *)
Restricts(session, contract) ==
  /\ session.until \in Int /\ session.until <= contract.end
  /\ session.tags = {Required}

LEMMA OneCardinality == \A S : Adapters!Cardinality(S) = Cardinality(S)
BY DEF Adapters!Cardinality, Cardinality

LEMMA LeastOfTwo ==
  ASSUME NEW a \in Int, NEW b \in Int
  PROVE  /\ Adapters!Min({a, b}) \in Int /\ Adapters!Min({a, b}) <= a
         /\ Pilot!Min({a, b}) \in Int /\ Pilot!Min({a, b}) <= a
<1>1. \E x \in {a, b} : \A y \in {a, b} : x <= y
  OBVIOUS
<1>2. LET m == CHOOSE x \in {a, b} : \A y \in {a, b} : x <= y
      IN  m \in {a, b} /\ m <= a
  BY <1>1
<1> QED BY <1>2 DEF Adapters!Min, Pilot!Min

-----------------------------------------------------------------------------
(* A proposal of the adapters.  Its request is sent after all the rest, the*)
(* instances that go are its own, and only once EC2 accepted; and what was *)
(* judged is what was looked up.                                           *)
ProposalShape ==
  /\ request = [type |-> request.type, ids |-> request.ids, stage |-> request.stage,
                context |-> request.context, contract |-> request.contract,
                asked |-> request.asked, policy |-> request.policy,
                identity |-> request.identity, request |-> request.request,
                outcome |-> request.outcome]
  /\ request.ids \subseteq Instance /\ request.contract \in Times /\ request.asked \in Nat
  /\ request.stage \in {"resolve", "judge", "ask", "issue", "execute", "race", "over"}
  /\ request.request \in {"none", "sent", "accepted", "denied"}

Requested == request.request # "none"
ProposalInTurn ==
  /\ request.stage \in {"resolve", "judge", "ask", "issue", "execute"} => ~Requested
  /\ request.stage = "race" => Requested
  /\ request.outcome = "success" => request.request = "accepted"

Seen == DOMAIN request.context.instances
ProposalJudged ==
  /\ request.stage # "resolve" /\ Adapters!Terminates =>
       Seen \subseteq request.ids /\ (~request.context.ok => Seen = request.ids)
  /\ (request.stage \in {"ask", "issue", "execute"} \/ Requested) =>
       (Adapters!Terminates => /\ Cardinality(Seen) <= MaxAllowed
                               /\ \A i \in Seen : "critical" \notin request.context.instances[i].tags)
  /\ request.stage \in {"issue", "execute"} \/ Requested =>
       /\ Adapters!Terminates
       /\ Adapters!Contracted(request.contract) => Restricts(request.policy, request.contract)
  /\ request.stage = "execute" \/ Requested => request.identity.policy = request.policy

GoneAreRequested ==
  \A i \in Instance : cloud[i].state = "gone" <=> request.request = "accepted" /\ i \in request.ids

ProposalInv == ProposalShape /\ ProposalInTurn /\ ProposalJudged
AdaptersInv == CloudOf(cloud) /\ cloudClock \in Nat /\ ProposalInv /\ GoneAreRequested

LEMMA AdaptersInitInv ==
  ASSUME CloudIsBounded, Adapters!Init
  PROVE  AdaptersInv
<1>1. PICK type \in {"TerminateInstances", "DescribeInstances"}, ids \in SUBSET Instance :
        request = Adapters!New(type, ids)
  BY DEF Adapters!Init
<1>2. /\ request.stage = "resolve" /\ request.request = "none" /\ request.outcome = "none"
      /\ request.contract = [from |-> 0, end |-> MaxCloudClock + ContractTtl + 1] /\ request.asked = 0
      /\ request.ids = ids
  BY <1>1 DEF Adapters!New, Adapters!NoContract, Adapters!Forever
<1>3. MaxCloudClock + ContractTtl + 1 \in Nat
  BY DEF CloudIsBounded
<1>4. ProposalShape
  <2>1. request = [type |-> request.type, ids |-> request.ids, stage |-> request.stage,
                context |-> request.context, contract |-> request.contract,
                asked |-> request.asked, policy |-> request.policy,
                identity |-> request.identity, request |-> request.request,
                outcome |-> request.outcome]
    BY <1>1 DEF Adapters!New
  <2> QED BY <1>2, <1>3, <2>1 DEF ProposalShape, Times
<1>5. ProposalInTurn /\ ProposalJudged
  BY <1>2 DEF ProposalInTurn, ProposalJudged, Requested
<1>6. CloudOf(cloud) /\ cloudClock \in Nat /\ \A i \in Instance : cloud[i].state = "running"
  BY DEF Adapters!Init, Adapters!CloudInit, CloudOf
<1>7. GoneAreRequested
  BY <1>2, <1>6 DEF GoneAreRequested
<1> QED BY <1>4, <1>5, <1>6, <1>7 DEF AdaptersInv, ProposalInv

(* A proposal that moves on, and no more: the cloud is as it was.          *)
LEMMA ProposalMovesOn ==
  ASSUME AdaptersInv, UNCHANGED <<cloudClock, cloud>>, ProposalInv',
         request'.ids = request.ids, request'.request = request.request \/ request'.request = "sent",
         request'.request = "sent" => request.request \in {"none", "sent"}
  PROVE  AdaptersInv'
BY DEF AdaptersInv, GoneAreRequested, CloudOf

(* Ending it changes its stage and its outcome.                            *)
LEMMA ProposalEnds ==
  ASSUME AdaptersInv, request.stage # "resolve", NEW outcome, Adapters!Ends(outcome),
         outcome = "success" => request.request = "accepted"
  PROVE  AdaptersInv'
<1>1. /\ UNCHANGED <<cloudClock, cloud>>
      /\ request' = [request EXCEPT !.stage = "over", !.outcome = outcome]
  BY DEF Adapters!Ends, Adapters!Moves, Adapters!cloudVars
<1>2. ProposalShape'
  BY <1>1 DEF AdaptersInv, ProposalInv, ProposalShape
<1>3. /\ request'.type = request.type /\ request'.ids = request.ids /\ request'.context = request.context
      /\ request'.contract = request.contract /\ request'.policy = request.policy
      /\ request'.identity = request.identity /\ request'.request = request.request
      /\ request'.stage = "over" /\ request'.outcome = outcome
  BY <1>1 DEF AdaptersInv, ProposalInv, ProposalShape
<1>4. ProposalInTurn'
  BY <1>3 DEF AdaptersInv, ProposalInv, ProposalInTurn, Requested
<1>5. ProposalJudged'
  BY <1>3 DEF AdaptersInv, ProposalInv, ProposalJudged, ProposalInTurn, Requested, Seen, Adapters!Terminates
<1>6. request.request \in {"none", "sent", "accepted", "denied"}
  BY DEF AdaptersInv, ProposalInv, ProposalShape
<1> QED BY <1>1, <1>2, <1>3, <1>4, <1>5, <1>6, ProposalMovesOn DEF ProposalInv

LEMMA AdaptersStepInv ==
  ASSUME CloudIsBounded, AdaptersInv, [Adapters!Next]_(Adapters!vars)
  PROVE  AdaptersInv'
<1>0. /\ ProposalShape /\ ProposalInTurn /\ ProposalJudged /\ CloudOf(cloud) /\ cloudClock \in Nat
      /\ MaxAllowed \in Nat /\ MaxCloudClock \in Nat /\ ContractTtl \in Nat /\ SessionTtl \in Nat
  BY DEF AdaptersInv, ProposalInv, CloudIsBounded
<1>1. CASE Adapters!Resolve
  <2>1. PICK context \in IF Adapters!Terminates THEN Adapters!Lookups(request.ids) ELSE {Adapters!None} :
          /\ request' = [request EXCEPT !.stage = "judge", !.context = context]
          /\ UNCHANGED <<cloudClock, cloud>> /\ request.stage = "resolve"
    BY <1>1 DEF Adapters!Resolve, Adapters!Moves, Adapters!cloudVars
  <2>2. ProposalShape'
    BY <1>0, <2>1 DEF ProposalShape
  <2>3. /\ request'.type = request.type /\ request'.ids = request.ids /\ request'.context = context
        /\ request'.request = request.request /\ request'.outcome = request.outcome
        /\ request'.stage = "judge"
    BY <1>0, <2>1 DEF ProposalShape
  <2>4. ~Requested
    BY <1>0, <2>1 DEF ProposalInTurn
  <2>5. Adapters!Terminates =>
          /\ DOMAIN context.instances \subseteq request.ids
          /\ ~context.ok => DOMAIN context.instances = request.ids
    BY <2>1 DEF Adapters!Lookups, Adapters!Described, Adapters!Unknown
  <2>6. ProposalInTurn' /\ ProposalJudged'
    BY <1>0, <2>3, <2>4, <2>5 DEF ProposalInTurn, ProposalJudged, Requested, Seen, Adapters!Terminates
  <2>7. request.request = "none"
    BY <2>4 DEF Requested
  <2> QED BY <2>1, <2>2, <2>3, <2>6, <2>7, ProposalMovesOn DEF ProposalInv
<1>2. CASE Adapters!Judge
  <2>1. request.stage = "judge"
    BY <1>2 DEF Adapters!Judge
  <2>2. CASE ~(Adapters!Safe /\ Adapters!Bearable)
    BY <1>2, <2>1, <2>2, ProposalEnds DEF Adapters!Judge
  <2>3. CASE Adapters!Safe /\ Adapters!Bearable
    <3>1. PICK contract \in {Adapters!Contract, Adapters!NoContract} :
            /\ request' = [request EXCEPT !.stage = "ask", !.contract = contract]
            /\ UNCHANGED <<cloudClock, cloud>>
      BY <1>2, <2>3 DEF Adapters!Judge, Adapters!Moves, Adapters!cloudVars
    <3>2. contract \in Times
      <4>1. 0 \in Nat /\ cloudClock + ContractTtl \in Nat /\ MaxCloudClock + ContractTtl + 1 \in Nat
        BY <1>0
      <4>2. Adapters!Contract \in Times
        BY <1>0, <4>1 DEF Adapters!Contract, Times
      <4>3. Adapters!NoContract \in Times
        BY <4>1 DEF Adapters!NoContract, Adapters!Forever, Times
      <4> QED BY <3>1, <4>2, <4>3
    <3>3. ProposalShape'
      BY <1>0, <3>1, <3>2 DEF ProposalShape
    <3>4. /\ request'.type = request.type /\ request'.ids = request.ids
          /\ request'.context = request.context
          /\ request'.request = request.request /\ request'.outcome = request.outcome
          /\ request'.stage = "ask"
      BY <1>0, <3>1 DEF ProposalShape
    <3>5. ~Requested
      BY <1>0, <2>1 DEF ProposalInTurn
    <3>6. ASSUME Adapters!Terminates
          PROVE  /\ Seen \subseteq request.ids /\ (~request.context.ok => Seen = request.ids)
                 /\ Cardinality(Seen) <= MaxAllowed
                 /\ \A i \in Seen : "critical" \notin request.context.instances[i].tags
      <4>1. Seen \subseteq request.ids /\ (~request.context.ok => Seen = request.ids)
        BY <1>0, <2>1, <3>6 DEF ProposalJudged
      <4>2. Cardinality(Seen) <= MaxAllowed
        BY <2>3, <3>6, OneCardinality DEF Adapters!Bearable, Adapters!Resources, Seen
      <4>3. Adapters!Tagged("critical") = {}
        BY <2>3, <3>6 DEF Adapters!Safe
      <4> QED BY <4>1, <4>2, <4>3 DEF Adapters!Tagged, Seen
    <3>7. ProposalInTurn' /\ ProposalJudged'
      BY <1>0, <3>4, <3>5, <3>6 DEF ProposalInTurn, ProposalJudged, Requested, Seen, Adapters!Terminates
    <3>8. request.request = "none"
      BY <3>5 DEF Requested
    <3> QED BY <3>1, <3>3, <3>4, <3>7, <3>8, ProposalMovesOn DEF ProposalInv
  <2> QED BY <2>2, <2>3
<1>3. CASE Adapters!Preview
  <2>1. request.stage = "judge"
    BY <1>3 DEF Adapters!Preview
  <2>2. CASE Adapters!PreviewAllows
    BY <1>3, <2>1, <2>2, ProposalEnds DEF Adapters!Preview
  <2>3. CASE ~Adapters!PreviewAllows
    BY <1>3, <2>1, <2>3, ProposalEnds DEF Adapters!Preview
  <2> QED BY <2>2, <2>3
<1>4. CASE Adapters!Ask
  <2> DEFINE goes == Adapters!InBounds(request.contract) /\ Adapters!Terminates /\ request.ids # {}
             session == Adapters!SessionPolicy(request.ids, request.contract)
  <2>1. request.stage = "ask"
    BY <1>4 DEF Adapters!Ask
  <2>2. CASE ~goes
    BY <1>4, <2>1, <2>2, ProposalEnds DEF Adapters!Ask
  <2>3. CASE goes
    <3>1. /\ request' = [request EXCEPT !.stage = "issue", !.asked = cloudClock, !.policy = session]
          /\ UNCHANGED <<cloudClock, cloud>>
      BY <1>4, <2>3 DEF Adapters!Ask, Adapters!Moves, Adapters!cloudVars
    <3>2. Adapters!Contracted(request.contract) => Restricts(session, request.contract)
      <4>1. request.contract.end \in Int /\ cloudClock + ContractTtl \in Int
        BY <1>0 DEF ProposalShape, Times
      <4>2. /\ Adapters!Min({request.contract.end, cloudClock + ContractTtl}) \in Int
            /\ Adapters!Min({request.contract.end, cloudClock + ContractTtl}) <= request.contract.end
        BY <4>1, LeastOfTwo
      <4> QED BY <4>2 DEF Adapters!SessionPolicy, Restricts
    <3> HIDE DEF session
    <3>3. ProposalShape'
      BY <1>0, <3>1 DEF ProposalShape
    <3>4. /\ request'.type = request.type /\ request'.ids = request.ids
          /\ request'.context = request.context /\ request'.contract = request.contract
          /\ request'.request = request.request /\ request'.outcome = request.outcome
          /\ request'.stage = "issue" /\ request'.policy = session
      BY <1>0, <3>1 DEF ProposalShape
    <3>5. ~Requested
      BY <1>0, <2>1 DEF ProposalInTurn
    <3>6. ProposalInTurn' /\ ProposalJudged'
      BY <1>0, <2>1, <2>3, <3>2, <3>4, <3>5
         DEF ProposalInTurn, ProposalJudged, Requested, Seen, Adapters!Terminates
    <3>7. request.request = "none"
      BY <3>5 DEF Requested
    <3> QED BY <3>1, <3>3, <3>4, <3>6, <3>7, ProposalMovesOn DEF ProposalInv
  <2> QED BY <2>2, <2>3
<1>5. CASE Adapters!Issue
  <2> DEFINE identity == Adapters!Identity(request.asked, request.policy, request.contract)
  <2>1. request.stage = "issue"
    BY <1>5 DEF Adapters!Issue
  <2>2. CASE Adapters!Ends("threw")
    BY <2>1, <2>2, ProposalEnds
  <2>3. CASE Adapters!Moves([request EXCEPT !.stage = "execute", !.identity = identity])
    <3>1. /\ request' = [request EXCEPT !.stage = "execute", !.identity = identity]
          /\ UNCHANGED <<cloudClock, cloud>>
      BY <2>3 DEF Adapters!Moves, Adapters!cloudVars
    <3>2. identity.policy = request.policy
      BY DEF Adapters!Identity
    <3> HIDE DEF identity
    <3>3. ProposalShape'
      BY <1>0, <3>1 DEF ProposalShape
    <3>4. /\ request'.type = request.type /\ request'.ids = request.ids
          /\ request'.context = request.context /\ request'.contract = request.contract
          /\ request'.request = request.request /\ request'.outcome = request.outcome
          /\ request'.stage = "execute" /\ request'.policy = request.policy
          /\ request'.identity = identity
      BY <1>0, <3>1 DEF ProposalShape
    <3>5. ~Requested
      BY <1>0, <2>1 DEF ProposalInTurn
    <3>6. ProposalInTurn' /\ ProposalJudged'
      BY <1>0, <2>1, <3>2, <3>4, <3>5
         DEF ProposalInTurn, ProposalJudged, Requested, Seen, Adapters!Terminates
    <3>7. request.request = "none"
      BY <3>5 DEF Requested
    <3> QED BY <3>1, <3>3, <3>4, <3>6, <3>7, ProposalMovesOn DEF ProposalInv
  <2> QED BY <1>5, <2>2, <2>3 DEF Adapters!Issue
<1>6. CASE Adapters!Execute
  <2> DEFINE goes == Adapters!CanExecute(request.identity) /\ Adapters!InScope(request.identity)
  <2>1. request.stage = "execute"
    BY <1>6 DEF Adapters!Execute
  <2>2. CASE ~goes
    BY <1>6, <2>1, <2>2, ProposalEnds DEF Adapters!Execute
  <2>3. CASE goes
    <3>1. /\ request' = [request EXCEPT !.stage = "race", !.request = "sent"]
          /\ UNCHANGED <<cloudClock, cloud>>
      BY <1>6, <2>3 DEF Adapters!Execute, Adapters!Moves, Adapters!cloudVars
    <3>3. ProposalShape'
      BY <1>0, <3>1 DEF ProposalShape
    <3>4. /\ request'.type = request.type /\ request'.ids = request.ids
          /\ request'.context = request.context /\ request'.contract = request.contract
          /\ request'.request = "sent" /\ request'.outcome = request.outcome
          /\ request'.stage = "race" /\ request'.policy = request.policy
          /\ request'.identity = request.identity
      BY <1>0, <3>1 DEF ProposalShape
    <3>5. ~Requested
      BY <1>0, <2>1 DEF ProposalInTurn
    <3>7. request.request = "none"
      BY <3>5 DEF Requested
    <3>6. ProposalInTurn' /\ ProposalJudged'
      BY <1>0, <2>1, <3>4, <3>5, <3>7
         DEF ProposalInTurn, ProposalJudged, Requested, Seen, Adapters!Terminates
    <3> QED BY <3>1, <3>3, <3>4, <3>6, <3>7, ProposalMovesOn DEF ProposalInv
  <2> QED BY <2>2, <2>3
<1>7. CASE Adapters!Arrive
  <2> DEFINE accepted == Adapters!Authorizes(request.identity, request.ids)
  <2>1. /\ request.request = "sent" /\ UNCHANGED cloudClock
        /\ cloud' = IF accepted THEN Adapters!Terminated(request.ids) ELSE cloud
        /\ request' = [request EXCEPT !.request = IF accepted THEN "accepted" ELSE "denied"]
    BY <1>7 DEF Adapters!Arrive
  <2> HIDE DEF accepted
  <2>2. ProposalShape'
    BY <1>0, <2>1 DEF ProposalShape
  <2>3. /\ request'.type = request.type /\ request'.ids = request.ids
        /\ request'.context = request.context /\ request'.contract = request.contract
        /\ request'.request = (IF accepted THEN "accepted" ELSE "denied")
        /\ request'.outcome = request.outcome
        /\ request'.stage = request.stage /\ request'.policy = request.policy
        /\ request'.identity = request.identity
    BY <1>0, <2>1 DEF ProposalShape
  <2>4. ProposalInTurn' /\ ProposalJudged'
    BY <1>0, <2>1, <2>3 DEF ProposalInTurn, ProposalJudged, Requested, Seen, Adapters!Terminates
  <2>5. CloudOf(cloud') /\ GoneAreRequested'
    <3>1. CASE accepted
      <4>1. cloud' = [i \in Instance |->
                        IF i \in request.ids THEN [cloud[i] EXCEPT !.state = "gone"] ELSE cloud[i]]
        BY <2>1, <3>1 DEF Adapters!Terminated
      <4>2. CloudOf(cloud')
        BY <1>0, <4>1 DEF CloudOf
      <4>3. \A i \in Instance : cloud'[i].state = "gone" <=> cloud[i].state = "gone" \/ i \in request.ids
        BY <1>0, <4>1 DEF CloudOf
      <4> QED BY <2>1, <2>3, <3>1, <4>2, <4>3 DEF GoneAreRequested, AdaptersInv
    <3>2. CASE ~accepted
      BY <1>0, <2>1, <2>3, <3>2 DEF GoneAreRequested, AdaptersInv
    <3> QED BY <3>1, <3>2
  <2> QED BY <1>0, <2>1, <2>2, <2>4, <2>5 DEF AdaptersInv, ProposalInv
<1>8. CASE Adapters!Returns
  BY <1>8, ProposalEnds DEF Adapters!Returns
<1>9. CASE Adapters!Timer
  BY <1>9, ProposalEnds DEF Adapters!Timer
<1>10. CASE Adapters!CloudNext /\ UNCHANGED request
  <2>1. CloudOf(cloud') /\ cloudClock' \in Nat /\ \A i \in Instance : cloud'[i].state = "gone" <=> cloud[i].state = "gone"
    <3>1. CASE Adapters!Tick
      BY <1>0, <3>1 DEF Adapters!Tick, CloudOf
    <3>2. ASSUME NEW i \in Instance, Adapters!Stop(i)
          PROVE  CloudOf(cloud') /\ cloudClock' \in Nat /\ \A j \in Instance : cloud'[j].state = "gone" <=> cloud[j].state = "gone"
      BY <1>0, <3>2 DEF Adapters!Stop, CloudOf
    <3>3. ASSUME NEW i \in Instance, NEW tags \in TagSets, Adapters!Retag(i, tags)
          PROVE  CloudOf(cloud') /\ cloudClock' \in Nat /\ \A j \in Instance : cloud'[j].state = "gone" <=> cloud[j].state = "gone"
      BY <1>0, <3>3 DEF Adapters!Retag, CloudOf
    <3> QED BY <1>10, <3>1, <3>2, <3>3 DEF Adapters!CloudNext
  <2>2. ProposalInv'
    BY <1>0, <1>10 DEF ProposalInv, ProposalShape, ProposalInTurn, ProposalJudged, Requested, Seen, Adapters!Terminates,
      Adapters!Contracted, Adapters!NoContract, Adapters!Forever
  <2> QED BY <1>10, <2>1, <2>2 DEF AdaptersInv, GoneAreRequested
<1>11. CASE UNCHANGED Adapters!vars
  BY <1>11 DEF Adapters!vars, AdaptersInv, ProposalInv, ProposalShape, ProposalInTurn, ProposalJudged, Requested, Seen,
     Adapters!Terminates, GoneAreRequested, CloudOf
<1> QED
  BY <1>1, <1>2, <1>3, <1>4, <1>5, <1>6, <1>7, <1>8, <1>9, <1>10, <1>11 DEF Adapters!Next

-----------------------------------------------------------------------------
(* The pilot.  One request at most, sent after both guards; the session it *)
(* is sent with ends with the contract; and "renewed" follows the policy.  *)
PilotShape ==
  /\ pilot = [optIn |-> pilot.optIn, stage |-> pilot.stage, step |-> pilot.step,
              mutating |-> pilot.mutating, contract |-> pilot.contract,
              identity |-> pilot.identity, request |-> pilot.request,
              renewed |-> pilot.renewed, outcome |-> pilot.outcome]
  /\ pilot.stage \in {"start", "guard", "dryRun", "mutate", "sent", "over"}
  /\ pilot.step \in 1..Len(Pilot!GuardSteps) /\ (pilot.stage \in {"start", "dryRun"} => pilot.step = 1)
  /\ {pilot.optIn, pilot.mutating, pilot.renewed, source} \subseteq BOOLEAN
  /\ pilot.request \in {"none", "sent", "accepted", "denied"}

Committed == pilot.stage \in {"mutate", "sent"} \/ pilot.request # "none"
PilotInTurn ==
  /\ pilot.stage \in {"start", "guard", "dryRun", "mutate"} =>
       pilot.request = "none" /\ pilot.outcome = "none"
  /\ pilot.stage = "sent" => pilot.request # "none" /\ pilot.outcome = "none"
  /\ pilot.outcome \in {"refused", "validated"} => pilot.request = "none"
  /\ pilot.mutating => pilot.optIn /\ (source => pilot.renewed)
  /\ pilot.mutating /\ pilot.stage = "guard" /\ pilot.step > 1 => pilot.renewed
  /\ Committed => pilot.mutating /\ pilot.renewed

PilotBound ==
  pilot.stage # "start" =>
    pilot.contract \in Times /\ Restricts(pilot.identity.policy, pilot.contract)

TargetIsRequested == pilotCloud[Target].state = "gone" => pilot.request = "accepted"

PilotInv == /\ CloudOf(pilotCloud) /\ pilotClock \in 0..MaxCloudClock
            /\ PilotShape /\ PilotInTurn /\ PilotBound /\ TargetIsRequested

LEMMA FourGuards == Len(Pilot!GuardSteps) = 4 /\ Pilot!GuardSteps[1] = "policy"
BY DEF Pilot!GuardSteps

LEMMA PilotInitInv ==
  ASSUME CloudIsBounded, Pilot!Init
  PROVE  PilotInv
<1>1. CloudOf(pilotCloud) /\ pilotClock = 0 /\ \A i \in Instance : pilotCloud[i].state = "running"
  BY DEF Pilot!Init, Pilot!CloudInit, CloudOf
<1>2. pilotClock \in 0..MaxCloudClock /\ Target \in Instance
  BY <1>1 DEF CloudIsBounded
<1>3. PilotShape
  <2>1. 1 \in 1..Len(Pilot!GuardSteps)
    BY FourGuards
  <2> QED BY <2>1 DEF Pilot!Init, PilotShape
<1>4. /\ pilot.stage = "start" /\ pilot.request = "none" /\ pilot.outcome = "none"
      /\ pilot.mutating = FALSE
  BY DEF Pilot!Init
<1>5. PilotInTurn /\ PilotBound
  BY <1>4 DEF PilotInTurn, PilotBound, Committed
<1>6. TargetIsRequested
  BY <1>1, <1>2 DEF TargetIsRequested
<1> QED BY <1>1, <1>2, <1>3, <1>5, <1>6 DEF PilotInv

LEMMA PilotStepInv ==
  ASSUME CloudIsBounded, PilotInv, [Pilot!Next]_(Pilot!vars)
  PROVE  PilotInv'
<1>0. /\ CloudOf(pilotCloud) /\ pilotClock \in 0..MaxCloudClock /\ PilotShape /\ PilotInTurn
      /\ PilotBound /\ TargetIsRequested /\ Target \in Instance
      /\ MaxCloudClock \in Nat /\ ContractTtl \in Nat /\ SessionTtl \in Nat
  BY DEF PilotInv, CloudIsBounded
<1>a. ASSUME UNCHANGED <<pilotClock, pilotCloud>>, PilotShape', PilotInTurn', PilotBound',
             pilot'.request = pilot.request \/ pilot.request = "none"
      PROVE  PilotInv'
  BY <1>0, <1>a DEF PilotInv, CloudOf, TargetIsRequested
<1>1. CASE Pilot!Called
  <2> DEFINE contract == Pilot!Contract
             session == Pilot!SessionPolicy({Target}, contract)
             identity == Pilot!Identity(pilotClock, session, contract)
  <2>1. /\ pilot' = [pilot EXCEPT !.stage = "guard", !.contract = contract, !.identity = identity]
        /\ pilot.stage = "start" /\ UNCHANGED <<pilotClock, pilotCloud, source>>
    BY <1>1 DEF Pilot!Called, Pilot!Moves
  <2>2. contract = [from |-> pilotClock, end |-> pilotClock + ContractTtl] /\ contract \in Times
    <3>1. pilotClock \in Nat /\ pilotClock + ContractTtl \in Nat
      BY <1>0
    <3> QED BY <3>1 DEF Pilot!Contract, Times
  <2>3. Pilot!Contracted(contract)
    <3>1. pilotClock + ContractTtl # MaxCloudClock + ContractTtl + 1
      BY <1>0
    <3> QED BY <2>2, <3>1 DEF Pilot!Contracted, Pilot!NoContract, Pilot!Forever
  <2> HIDE DEF contract
  <2>4. Restricts(session, contract)
    <3>1. contract.end \in Int /\ pilotClock + ContractTtl \in Int
      BY <1>0, <2>2 DEF Times
    <3>2. /\ Pilot!Min({contract.end, pilotClock + ContractTtl}) \in Int
          /\ Pilot!Min({contract.end, pilotClock + ContractTtl}) <= contract.end
      BY <3>1, LeastOfTwo
    <3> QED BY <2>3, <3>2 DEF Pilot!SessionPolicy, Restricts
  <2> HIDE DEF session
  <2>5. identity.policy = session
    BY DEF Pilot!Identity
  <2> HIDE DEF identity
  <2>6. PilotShape'
    BY <1>0, <2>1 DEF PilotShape
  <2>7. /\ pilot'.stage = "guard" /\ pilot'.step = pilot.step /\ pilot'.optIn = pilot.optIn
        /\ pilot'.mutating = pilot.mutating /\ pilot'.renewed = pilot.renewed
        /\ pilot'.request = pilot.request /\ pilot'.outcome = pilot.outcome
        /\ pilot'.contract = contract /\ pilot'.identity = identity
    BY <1>0, <2>1 DEF PilotShape
  <2>8. pilot.step = 1
    BY <1>0, <2>1 DEF PilotShape
  <2>9. PilotInTurn' /\ PilotBound'
    BY <1>0, <2>1, <2>2, <2>4, <2>5, <2>7, <2>8 DEF PilotInTurn, PilotBound, Committed
  <2> QED BY <1>a, <2>1, <2>6, <2>7, <2>9
<1>2. CASE Pilot!GuardPasses
  <2>1. /\ pilot' = Pilot!Guarded /\ pilot.stage = "guard"
        /\ UNCHANGED <<pilotClock, pilotCloud, source>> /\ (pilot.step = 1 => source)
    BY <1>2, FourGuards DEF Pilot!GuardPasses, Pilot!Moves
  <2>2. pilot.step \in 1..4
    BY <1>0, FourGuards DEF PilotShape
  <2>3. /\ pilot'.optIn = pilot.optIn /\ pilot'.mutating = pilot.mutating
        /\ pilot'.renewed = pilot.renewed /\ pilot'.request = pilot.request
        /\ pilot'.outcome = pilot.outcome
        /\ pilot'.contract = pilot.contract /\ pilot'.identity = pilot.identity
        /\ \/ pilot.step < 4 /\ pilot'.step = pilot.step + 1 /\ pilot'.stage = "guard"
           \/ /\ pilot.step = 4 /\ pilot'.step = 1
              /\ pilot'.stage = IF pilot.mutating THEN "mutate" ELSE "dryRun"
    BY <1>0, <2>1, <2>2, FourGuards DEF PilotShape, Pilot!Guarded
  <2>4. PilotShape'
    <3>1. pilot'.step \in 1..4
      BY <2>2, <2>3
    <3>2. pilot' = [optIn |-> pilot'.optIn, stage |-> pilot'.stage, step |-> pilot'.step,
              mutating |-> pilot'.mutating, contract |-> pilot'.contract,
              identity |-> pilot'.identity, request |-> pilot'.request,
              renewed |-> pilot'.renewed, outcome |-> pilot'.outcome]
      BY <1>0, <2>1 DEF PilotShape, Pilot!Guarded
    <3> QED BY <1>0, <2>1, <2>3, <3>1, <3>2, FourGuards DEF PilotShape
  <2>5. PilotInTurn' /\ PilotBound'
    BY <1>0, <2>1, <2>2, <2>3 DEF PilotInTurn, PilotBound, Committed
  <2> QED BY <1>a, <2>1, <2>3, <2>4, <2>5
<1>b. ASSUME NEW outcome, Pilot!Moves(Pilot!Over(outcome)), pilot.stage # "start",
             outcome \in {"refused", "validated"} => pilot.request = "none"
      PROVE  PilotInv'
  <2>1. /\ pilot' = [pilot EXCEPT !.stage = "over", !.outcome = outcome]
        /\ UNCHANGED <<pilotClock, pilotCloud, source>>
    BY <1>b DEF Pilot!Moves, Pilot!Over
  <2>2. PilotShape'
    BY <1>0, <2>1 DEF PilotShape
  <2>3. /\ pilot'.optIn = pilot.optIn /\ pilot'.mutating = pilot.mutating
        /\ pilot'.renewed = pilot.renewed /\ pilot'.request = pilot.request
        /\ pilot'.outcome = outcome /\ pilot'.stage = "over" /\ pilot'.step = pilot.step
        /\ pilot'.contract = pilot.contract /\ pilot'.identity = pilot.identity
    BY <1>0, <2>1 DEF PilotShape
  <2>4. PilotInTurn' /\ PilotBound'
    BY <1>0, <1>b, <2>1, <2>3 DEF PilotInTurn, PilotBound, Committed
  <2> QED BY <1>a, <2>1, <2>2, <2>3, <2>4
<1>3. CASE Pilot!GuardFails
  BY <1>0, <1>3, <1>b DEF Pilot!GuardFails, PilotInTurn
<1>4. CASE Pilot!DryRun
  <2>1. pilot.stage = "dryRun" /\ pilot.request = "none"
    BY <1>0, <1>4 DEF Pilot!DryRun, PilotInTurn
  <2>2. CASE ~pilot.optIn
    <3>1. Pilot!Moves(Pilot!Over("validated"))
      BY <1>4, <2>2 DEF Pilot!DryRun
    <3> QED BY <1>b, <2>1, <3>1
  <2>3. CASE pilot.optIn
    <3>1. /\ pilot' = [pilot EXCEPT !.stage = "guard", !.mutating = TRUE, !.renewed = source]
          /\ UNCHANGED <<pilotClock, pilotCloud, source>>
      BY <1>4, <2>3 DEF Pilot!DryRun, Pilot!Moves
    <3>2. PilotShape'
      BY <1>0, <3>1 DEF PilotShape
    <3>3. /\ pilot'.optIn = pilot.optIn /\ pilot'.mutating = TRUE
          /\ pilot'.renewed = source /\ pilot'.request = pilot.request
          /\ pilot'.outcome = pilot.outcome /\ pilot'.stage = "guard" /\ pilot'.step = pilot.step
          /\ pilot'.contract = pilot.contract /\ pilot'.identity = pilot.identity
      BY <1>0, <3>1 DEF PilotShape
    <3>4. pilot.step = 1
      BY <1>0, <2>1 DEF PilotShape
    <3>5. PilotInTurn' /\ PilotBound'
      BY <1>0, <2>1, <2>3, <3>1, <3>3, <3>4 DEF PilotInTurn, PilotBound, Committed
    <3> QED BY <1>a, <2>1, <3>1, <3>2, <3>3, <3>5
  <2> QED BY <2>2, <2>3
<1>5. CASE Pilot!DryRunFails
  BY <1>0, <1>5, <1>b DEF Pilot!DryRunFails, PilotInTurn
<1>6. CASE Pilot!Mutate
  <2>1. /\ pilot' = [pilot EXCEPT !.stage = "sent", !.request = "sent"] /\ pilot.stage = "mutate"
        /\ UNCHANGED <<pilotClock, pilotCloud, source>>
    BY <1>6 DEF Pilot!Mutate, Pilot!Moves
  <2>2. PilotShape'
    BY <1>0, <2>1 DEF PilotShape
  <2>3. /\ pilot'.optIn = pilot.optIn /\ pilot'.mutating = pilot.mutating
        /\ pilot'.renewed = pilot.renewed /\ pilot'.request = "sent"
        /\ pilot'.outcome = pilot.outcome /\ pilot'.stage = "sent" /\ pilot'.step = pilot.step
        /\ pilot'.contract = pilot.contract /\ pilot'.identity = pilot.identity
    BY <1>0, <2>1 DEF PilotShape
  <2>4. PilotInTurn' /\ PilotBound' /\ pilot.request = "none"
    BY <1>0, <2>1, <2>3 DEF PilotInTurn, PilotBound, Committed
  <2> QED BY <1>a, <2>1, <2>2, <2>3, <2>4
<1>7. CASE Pilot!Arrive
  <2> DEFINE accepted == Pilot!Authorizes(pilot.identity, {Target})
  <2>1. /\ pilot.request = "sent" /\ UNCHANGED <<pilotClock, source>>
        /\ pilotCloud' = IF accepted THEN Pilot!Terminated({Target}) ELSE pilotCloud
        /\ pilot' = [pilot EXCEPT !.request = IF accepted THEN "accepted" ELSE "denied"]
    BY <1>7 DEF Pilot!Arrive
  <2> HIDE DEF accepted
  <2>2. PilotShape'
    BY <1>0, <2>1 DEF PilotShape
  <2>3. /\ pilot'.optIn = pilot.optIn /\ pilot'.mutating = pilot.mutating
        /\ pilot'.renewed = pilot.renewed
        /\ pilot'.request = (IF accepted THEN "accepted" ELSE "denied")
        /\ pilot'.outcome = pilot.outcome /\ pilot'.stage = pilot.stage /\ pilot'.step = pilot.step
        /\ pilot'.contract = pilot.contract /\ pilot'.identity = pilot.identity
    BY <1>0, <2>1 DEF PilotShape
  <2>4. PilotInTurn' /\ PilotBound'
    BY <1>0, <2>1, <2>3 DEF PilotInTurn, PilotBound, Committed
  <2>5. CloudOf(pilotCloud') /\ TargetIsRequested'
    <3>1. CASE accepted
      <4>1. CloudOf(pilotCloud')
        BY <1>0, <2>1, <3>1 DEF Pilot!Terminated, CloudOf
      <4> QED BY <2>3, <3>1, <4>1 DEF TargetIsRequested
    <3>2. CASE ~accepted
      BY <1>0, <2>1, <2>3, <3>2 DEF TargetIsRequested
    <3> QED BY <3>1, <3>2
  <2> QED BY <1>0, <2>1, <2>2, <2>4, <2>5 DEF PilotInv
<1>8. CASE Pilot!Answered
  <2>1. pilot.stage = "sent"
    BY <1>8 DEF Pilot!Answered
  <2>2. Pilot!Moves(Pilot!Over("executed")) \/ Pilot!Moves(Pilot!Over("uncertain"))
    BY <1>8 DEF Pilot!Answered
  <2> QED BY <1>b, <2>1, <2>2
<1>9. CASE Pilot!PolicyChanges
  <2>1. /\ source' = ~source /\ pilot' = [pilot EXCEPT !.renewed = pilot.renewed \/ source']
        /\ UNCHANGED <<pilotClock, pilotCloud>>
    BY <1>0, <1>9 DEF Pilot!PolicyChanges, Pilot!cloudVars, PilotShape
  <2>2. source' \in BOOLEAN /\ (pilot.renewed \/ source') \in BOOLEAN
    BY <1>0, <2>1 DEF PilotShape
  <2>3. PilotShape'
    BY <1>0, <2>1, <2>2 DEF PilotShape
  <2>4. /\ pilot'.optIn = pilot.optIn /\ pilot'.mutating = pilot.mutating
        /\ pilot'.renewed = (pilot.renewed \/ source') /\ pilot'.request = pilot.request
        /\ pilot'.outcome = pilot.outcome /\ pilot'.stage = pilot.stage /\ pilot'.step = pilot.step
        /\ pilot'.contract = pilot.contract /\ pilot'.identity = pilot.identity
    BY <1>0, <2>1 DEF PilotShape
  <2>5. PilotInTurn' /\ PilotBound'
    BY <1>0, <2>2, <2>4 DEF PilotInTurn, PilotBound, Committed
  <2> QED BY <1>a, <2>1, <2>3, <2>4, <2>5
<1>10. CASE Pilot!CloudNext /\ UNCHANGED <<source, pilot>>
  <2>1. /\ CloudOf(pilotCloud') /\ pilotClock' \in 0..MaxCloudClock
        /\ \A i \in Instance : pilotCloud'[i].state = "gone" <=> pilotCloud[i].state = "gone"
    <3>1. CASE Pilot!Tick
      BY <1>0, <3>1 DEF Pilot!Tick, CloudOf
    <3>2. ASSUME NEW i \in Instance, Pilot!Stop(i)
          PROVE  /\ CloudOf(pilotCloud') /\ pilotClock' \in 0..MaxCloudClock
                 /\ \A j \in Instance : pilotCloud'[j].state = "gone" <=> pilotCloud[j].state = "gone"
      BY <1>0, <3>2 DEF Pilot!Stop, CloudOf
    <3>3. ASSUME NEW i \in Instance, NEW tags \in TagSets, Pilot!Retag(i, tags)
          PROVE  /\ CloudOf(pilotCloud') /\ pilotClock' \in 0..MaxCloudClock
                 /\ \A j \in Instance : pilotCloud'[j].state = "gone" <=> pilotCloud[j].state = "gone"
      BY <1>0, <3>3 DEF Pilot!Retag, CloudOf
    <3> QED BY <1>10, <3>1, <3>2, <3>3 DEF Pilot!CloudNext
  <2>2. PilotShape' /\ PilotInTurn' /\ PilotBound'
    BY <1>0, <1>10 DEF PilotShape, PilotInTurn, PilotBound, Committed
  <2> QED BY <1>0, <1>10, <2>1, <2>2 DEF PilotInv, TargetIsRequested
<1>11. CASE UNCHANGED Pilot!vars
  BY <1>0, <1>11, <1>a DEF Pilot!vars, PilotShape, PilotInTurn, PilotBound, Committed
<1> QED
  BY <1>1, <1>2, <1>3, <1>4, <1>5, <1>6, <1>7, <1>8, <1>9, <1>10, <1>11 DEF Pilot!Next

-----------------------------------------------------------------------------
(* What the adapters and the pilot say of a termination is so, and no more *)
(* goes than was allowed of what the look-up described, for any instances, *)
(* tags, lifetimes, answers and policies (AwsExecutor.ts:96-151,           *)
(* AwsContextProvider.ts:63-84, BlastRadiusEstimator.ts:11-40,             *)
(* aws-pilot.ts:53-56, 145).                                               *)
THEOREM TerminationsTrue == Adapters!Spec /\ Pilot!Spec => []TerminationsAreTrue
<1>1. Adapters!Init => AdaptersInv
  BY AdaptersInitInv, CloudIsBounded
<1>2. AdaptersInv /\ [Adapters!Next]_(Adapters!vars) => AdaptersInv'
  BY AdaptersStepInv, CloudIsBounded
<1>3. Pilot!Init => PilotInv
  BY PilotInitInv, CloudIsBounded
<1>4. PilotInv /\ [Pilot!Next]_(Pilot!vars) => PilotInv'
  BY PilotStepInv, CloudIsBounded
<1>5. AdaptersInv => Adapters!OutcomeIsTrue
  BY DEF AdaptersInv, ProposalInv, ProposalShape, ProposalInTurn, GoneAreRequested, Adapters!OutcomeIsTrue
<1>6. AdaptersInv => Adapters!BlastIsBounded
  <2> SUFFICES ASSUME AdaptersInv PROVE Adapters!BlastIsBounded
    OBVIOUS
  <2> DEFINE gone == {i \in Instance : cloud[i].state = "gone"}
  <2>1. request.ids \subseteq Instance
    BY DEF AdaptersInv, ProposalInv, ProposalShape
  <2>2. CASE request.request = "accepted"
    <3>1. gone = request.ids
      BY <2>1, <2>2 DEF AdaptersInv, GoneAreRequested
    <3>2. Requested /\ Adapters!Terminates /\ request.stage # "resolve"
      BY <2>2 DEF AdaptersInv, ProposalInv, ProposalInTurn, ProposalJudged, Requested
    <3>3. Seen \subseteq request.ids /\ (~request.context.ok => Seen = request.ids)
      BY <3>2 DEF AdaptersInv, ProposalInv, ProposalJudged
    <3>4. Cardinality(Seen) <= MaxAllowed /\ gone \cap Seen = Seen
      BY <3>1, <3>2, <3>3 DEF AdaptersInv, ProposalInv, ProposalJudged
    <3> QED BY <3>1, <3>3, <3>4, OneCardinality DEF Adapters!BlastIsBounded, Seen
  <2>3. CASE request.request # "accepted"
    <3>1. gone = {}
      BY <2>3 DEF AdaptersInv, GoneAreRequested
    <3>2. Cardinality({}) = 0 /\ 0 <= MaxAllowed
      BY FS_EmptySet, CloudIsBounded DEF CloudIsBounded
    <3> QED BY <3>1, <3>2, OneCardinality DEF Adapters!BlastIsBounded
  <2> QED BY <2>2, <2>3
<1>7. PilotInv => Pilot!DefinitiveMeansUntouched
  BY DEF PilotInv, PilotInTurn, TargetIsRequested, Pilot!DefinitiveMeansUntouched
<1>8. PilotInv => Pilot!WithdrawalIsNoticed
  BY DEF PilotInv, PilotInTurn, TargetIsRequested, Committed, Pilot!WithdrawalIsNoticed
<1>9. AdaptersInv /\ PilotInv => TerminationsAreTrue
  BY <1>5, <1>6, <1>7, <1>8 DEF TerminationsAreTrue
<1> QED BY <1>1, <1>2, <1>3, <1>4, <1>9, PTL DEF Adapters!Spec, Pilot!Spec

(* A request that EC2 accepts is one that the session still allows.        *)
LEMMA GoesWhenAccepted ==
  ASSUME AdaptersInv, [Adapters!Next]_(Adapters!vars), NEW i \in Instance, Adapters!Goes(i)
  PROVE  /\ request.request = "sent" /\ i \in request.ids
         /\ Adapters!Authorizes(request.identity, request.ids)
<1>0. CloudOf(cloud) /\ cloud[i].state # "gone" /\ cloud'[i].state = "gone"
  BY DEF AdaptersInv, Adapters!Goes
<1>1. CASE Adapters!Arrive
  BY <1>0, <1>1 DEF Adapters!Arrive, Adapters!Terminated
<1>2. CASE Adapters!CloudNext
  <2>1. ASSUME NEW j \in Instance, Adapters!Stop(j) PROVE FALSE
    BY <1>0, <2>1 DEF Adapters!Stop, CloudOf
  <2>2. ASSUME NEW j \in Instance, NEW tags \in TagSets, Adapters!Retag(j, tags) PROVE FALSE
    BY <1>0, <2>2 DEF Adapters!Retag, CloudOf
  <2>3. ~Adapters!Tick
    BY <1>0 DEF Adapters!Tick
  <2> QED BY <1>2, <2>1, <2>2, <2>3 DEF Adapters!CloudNext
<1>3. CASE UNCHANGED cloud
  BY <1>0, <1>3
<1>4. \/ Adapters!Arrive \/ Adapters!CloudNext \/ UNCHANGED cloud
  BY DEF Adapters!Next, Adapters!vars, Adapters!Resolve, Adapters!Preview, Adapters!Judge, Adapters!Ask,
     Adapters!Issue, Adapters!Execute, Adapters!Returns, Adapters!Timer, Adapters!Moves, Adapters!Ends,
     Adapters!cloudVars
<1> QED BY <1>1, <1>2, <1>3, <1>4

LEMMA TargetGoesWhenAccepted ==
  ASSUME CloudIsBounded, PilotInv, [Pilot!Next]_(Pilot!vars),
         pilotCloud[Target].state # "gone", pilotCloud'[Target].state = "gone"
  PROVE  pilot.request = "sent" /\ Pilot!Authorizes(pilot.identity, {Target})
<1>0. CloudOf(pilotCloud) /\ Target \in Instance
  BY DEF PilotInv, CloudIsBounded
<1>1. CASE Pilot!Arrive
  BY <1>0, <1>1 DEF Pilot!Arrive
<1>2. CASE Pilot!CloudNext
  <2>1. ASSUME NEW j \in Instance, Pilot!Stop(j) PROVE FALSE
    BY <1>0, <2>1 DEF Pilot!Stop, CloudOf
  <2>2. ASSUME NEW j \in Instance, NEW tags \in TagSets, Pilot!Retag(j, tags) PROVE FALSE
    BY <1>0, <2>2 DEF Pilot!Retag, CloudOf
  <2>3. ~Pilot!Tick
    BY <1>0 DEF Pilot!Tick
  <2> QED BY <1>2, <2>1, <2>2, <2>3 DEF Pilot!CloudNext
<1>3. CASE UNCHANGED pilotCloud
  BY <1>0, <1>3
<1>4. \/ Pilot!Arrive \/ Pilot!CloudNext \/ UNCHANGED pilotCloud
  BY DEF Pilot!Next, Pilot!vars, Pilot!PolicyChanges, Pilot!Called, Pilot!GuardPasses, Pilot!GuardFails,
     Pilot!DryRun, Pilot!DryRunFails, Pilot!Mutate, Pilot!Answered, Pilot!Moves, Pilot!cloudVars
<1> QED BY <1>1, <1>2, <1>3, <1>4

(* When an instance goes, it is allowed to go (AwsIdentityProvider.ts:     *)
(* 106-111, AwsContextProvider.ts:63-84, aws-pilot.ts:146-147).            *)
THEOREM TerminationsAllowed == Adapters!Spec /\ Pilot!Spec => TerminationsAreAllowed
<1> DEFINE NotLate == \A i \in Instance : Adapters!Goes(i) /\ Adapters!Contracted(request.contract) =>
                       cloudClock < request.contract.end /\ Required \in cloud[i].tags
           Gap == \A i \in Instance : Adapters!Goes(i) /\ "critical" \in cloud[i].tags =>
                    LET seen == request.context.instances
                    IN  ~request.context.ok \/ i \notin DOMAIN seen \/ "critical" \notin seen[i].tags
           Guarded == pilotCloud[Target].state # "gone" /\ pilotCloud'[Target].state = "gone" =>
                        /\ pilot.optIn /\ pilotClock < pilot.contract.end
                        /\ Required \in pilotCloud[Target].tags
<1>1. Adapters!Init => AdaptersInv
  BY AdaptersInitInv, CloudIsBounded
<1>2. AdaptersInv /\ [Adapters!Next]_(Adapters!vars) => AdaptersInv'
  BY AdaptersStepInv, CloudIsBounded
<1>3. Pilot!Init => PilotInv
  BY PilotInitInv, CloudIsBounded
<1>4. PilotInv /\ [Pilot!Next]_(Pilot!vars) => PilotInv'
  BY PilotStepInv, CloudIsBounded
<1>5. AdaptersInv /\ [Adapters!Next]_(Adapters!vars) => [NotLate]_(Adapters!vars)
  <2> SUFFICES ASSUME AdaptersInv, [Adapters!Next]_(Adapters!vars), NEW i \in Instance,
                      Adapters!Goes(i), Adapters!Contracted(request.contract)
               PROVE  cloudClock < request.contract.end /\ Required \in cloud[i].tags
    OBVIOUS
  <2>1. /\ request.request = "sent" /\ i \in request.ids
        /\ Adapters!Authorizes(request.identity, request.ids)
    BY GoesWhenAccepted
  <2>2. Restricts(request.identity.policy, request.contract)
    BY <2>1 DEF AdaptersInv, ProposalInv, ProposalJudged, Requested
  <2>3. cloudClock \in Nat /\ request.contract.end \in Nat
    BY DEF AdaptersInv, ProposalInv, ProposalShape, Times
  <2> QED BY <2>1, <2>2, <2>3 DEF Adapters!Authorizes, Restricts
<1>6. AdaptersInv /\ [Adapters!Next]_(Adapters!vars) => [Gap]_(Adapters!vars)
  <2> SUFFICES ASSUME AdaptersInv, [Adapters!Next]_(Adapters!vars), NEW i \in Instance, Adapters!Goes(i),
                      i \in Seen
               PROVE  "critical" \notin request.context.instances[i].tags
    BY DEF Seen
  <2>1. request.request = "sent" /\ i \in request.ids
    BY GoesWhenAccepted
  <2> QED BY <2>1 DEF AdaptersInv, ProposalInv, ProposalJudged, Requested
<1>7. PilotInv /\ [Pilot!Next]_(Pilot!vars) => [Guarded]_(Pilot!vars)
  <2> SUFFICES ASSUME PilotInv, [Pilot!Next]_(Pilot!vars),
                      pilotCloud[Target].state # "gone", pilotCloud'[Target].state = "gone"
               PROVE  /\ pilot.optIn /\ pilotClock < pilot.contract.end
                      /\ Required \in pilotCloud[Target].tags
    OBVIOUS
  <2>1. pilot.request = "sent" /\ Pilot!Authorizes(pilot.identity, {Target})
    BY TargetGoesWhenAccepted, CloudIsBounded
  <2>2. pilot.optIn /\ pilot.stage # "start"
    BY <2>1 DEF PilotInv, PilotInTurn, Committed
  <2>3. pilot.contract \in Times /\ Restricts(pilot.identity.policy, pilot.contract)
    BY <2>2 DEF PilotInv, PilotBound
  <2>4. pilotClock \in Int /\ pilot.contract.end \in Int
    BY <2>3, CloudIsBounded DEF PilotInv, Times, CloudIsBounded
  <2> QED BY <2>1, <2>2, <2>3, <2>4 DEF Pilot!Authorizes, Restricts
<1>8. Adapters!Spec => [][NotLate]_(Adapters!vars) /\ [][Gap]_(Adapters!vars)
  <2> HIDE DEF NotLate, Gap
  <2> QED BY <1>1, <1>2, <1>5, <1>6, PTL DEF Adapters!Spec
<1>9. Pilot!Spec => [][Guarded]_(Pilot!vars)
  <2> HIDE DEF Guarded
  <2> QED BY <1>3, <1>4, <1>7, PTL DEF Pilot!Spec
<1> QED
  BY <1>8, <1>9, PTL DEF TerminationsAreAllowed, Adapters!LateRequestsAreRefused,
     Adapters!CriticalNeedsAGap, Pilot!GuardAtTheEffect

(* An executor is started, and an instance goes, only within the contract  *)
(* and with what was required in place, for any calls, instances, clocks   *)
(* and lifetimes (IdentityManager.ts:57, AwsIdentityProvider.ts:106-111,   *)
(* aws-pilot.ts:146-147).                                                  *)
THEOREM EffectsAllowed ==
  ASSUME PositiveTtl
  PROVE  Spec /\ Adapters!Spec /\ Pilot!Spec => EffectsAreAllowed
BY StartsOnTime, TerminationsAllowed DEF EffectsAreAllowed
=============================================================================
