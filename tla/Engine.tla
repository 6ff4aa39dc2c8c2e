------------------------------- MODULE Engine -------------------------------
(***************************************************************************)
(* process() of OpenKedgeEngine (src/core/engine/OpenKedgeEngine.ts) with  *)
(* withIdentity of IdentityManager: several calls over one evidence store, *)
(* each with the executor's promise that it races against a timer.  Every  *)
(* append may fail, and may fail although it was stored; a call's process  *)
(* may die.  The executor keeps its promise: it answers success:false only *)
(* when the operation had no effect.                                       *)
(***************************************************************************)
EXTENDS ExecutionTrace, Replay

CONSTANTS Intent, Call,
          Governed,          \* is there a TemporalGovernance?
          Limit, Window,     \* its RATE_LIMIT rule
          Ttl,               \* lifetime of an execution contract
          MaxClock, MaxFaults  \* bounds

VARIABLES clock,
          history,   \* the stored events of each intent
          call,      \* the local variables of each process() call
          faults
vars == <<clock, history, call, faults>>

(* "main" and "work" are positions, named for what they await.             *)
(* "effected" and "lost" are not in the code: the operation took effect;   *)
(* the reservation was committed but its answer was lost.                  *)
New(i) == [intent |-> i, main |-> "receive", stage |-> 1, work |-> "off",
           evaluation |-> "none", contractEnd |-> 0, started |-> FALSE, aborted |-> FALSE,
           result |-> "none", admission |-> FALSE, answer |-> "none",
           effected |-> FALSE, lost |-> FALSE]

Init == /\ clock = 0 /\ faults = 0
        /\ history = [i \in Intent |-> <<>>]
        /\ call \in [Call -> {New(i) : i \in Intent}]

(* projectTrace: the trace status an event stands for. *)
StatusOf(type, result) ==
  CASE type = "ExecutionReserved" -> "RESERVED"
    [] type = "ExecutionCancelled" -> "FAILED"
    [] type = "ExecutionCompleted" -> IF result = "success" THEN "SUCCESS" ELSE "FAILED"
    [] OTHER -> "none"

(* What getTrace returns for an intent with these events. *)
TraceOf(events) ==
  LET traced == {j \in DOMAIN events : events[j].status # "none"}
  IN IF traced = {} THEN NoTrace
     ELSE LET last == events[CHOOSE j \in traced : \A k \in traced : k <= j]
          IN [status |-> last.status, at |-> last.at]
Traces == [i \in Intent |-> TraceOf(history[i])]
TraceOfCall(c) == Traces[call[c].intent]

(* An event of call s.  Its time matters only in a trace. *)
Event(s, type, result, error) ==
  LET status == StatusOf(type, result)
  IN [status |-> status, at |-> IF status = "none" THEN 0 ELSE clock,
      evaluation |-> s.evaluation, result |-> result, error |-> error]

Accepted(i, event) ==
  Governed /\ event.status # "none" => Follows(Traces[i], event.status, clock)

(* An event that says no more than the one before it is left out. *)
Store(i, event) ==
  LET events == history[i]
      silent == /\ event.status = "none" /\ event.result = "none" /\ ~event.error
                /\ event.evaluation \in {"none", LastOf(events, "evaluation")}
  IN history' = IF events # <<>> /\ silent THEN history
                ELSE [history EXCEPT ![i] = Append(@, event)]

(* record() of call c, after which it is s. *)
Records(c, event, s) ==
  /\ Accepted(call[c].intent, event)
  /\ Store(call[c].intent, event)
  /\ call' = [call EXCEPT ![c] = s]
  /\ UNCHANGED <<clock, faults>>

(* record() rejects: the event is refused, or the store fails, before or   *)
(* after the event was stored.                                             *)
RecordFails(c, event, s) ==
  /\ call' = [call EXCEPT ![c] = s]
  /\ UNCHANGED clock
  /\ \/ ~Accepted(call[c].intent, event) /\ UNCHANGED <<history, faults>>
     \/ /\ faults < MaxFaults /\ faults' = faults + 1
        /\ \/ UNCHANGED history
           \/ Accepted(call[c].intent, event) /\ Store(call[c].intent, event)

Moves(c, s) == call' = [call EXCEPT ![c] = s] /\ UNCHANGED <<clock, history, faults>>

Answered(s, answer) == [s EXCEPT !.main = "over", !.answer = answer]

(* Mutant: an admission error is a refusal, whether or not the executor    *)
(* was started.                                                            *)
CaughtCarelessly(s, admission) ==
  [s EXCEPT !.admission = admission,
            !.main = IF s.contractEnd # 0 THEN "cancel"
                     ELSE IF admission THEN "reject" ELSE "fail"]

(* The catch clause: its decisions, before its first record. *)
Caught(s, admission) ==
  [s EXCEPT !.admission = admission,
            !.main = IF s.contractEnd # 0 /\ ~s.started THEN "cancel"
                     ELSE IF admission /\ ~s.started THEN "reject" ELSE "fail"]

-----------------------------------------------------------------------------
(* The intent is stored; a governed store first looks for its events, in   *)
(* the same transaction.                                                   *)
Receive(c) ==
  LET s == call[c] IN
  /\ s.main = "receive"
  /\ Governed => history[s.intent] = <<>>
  /\ Records(c, Event(s, "IntentReceived", "none", FALSE), [s EXCEPT !.main = "stage"])

Duplicate(c) ==
  /\ call[c].main = "receive" /\ Governed /\ history[call[c].intent] # <<>>
  /\ Moves(c, Answered(call[c], "refused"))

ReceiveFails(c) ==
  /\ call[c].main = "receive"
  /\ Governed => history[call[c].intent] = <<>>
  /\ RecordFails(c, Event(call[c], "IntentReceived", "none", FALSE), Answered(call[c], "refused"))

(* The awaits before the reservation, each followed by its record. *)
Stages ==
  IF Governed
    THEN <<"CapabilityVerified", "ContextResolved", "TemporalEvaluated",
           "BlastRadiusEvaluated", "EvaluationCompleted">>
    ELSE <<"ContextResolved", "BlastRadiusEvaluated", "EvaluationCompleted">>
StageOf(s) == Stages[s.stage]
InBudget(c) == WithinLimit(Traces, call[c].intent, clock, Window, Limit)

StagePasses(c) ==
  LET s == call[c]
      judged == IF StageOf(s) = "EvaluationCompleted" THEN [s EXCEPT !.evaluation = "allowed"] ELSE s
  IN /\ s.main = "stage"
     /\ StageOf(s) = "TemporalEvaluated" => InBudget(c)
     /\ Records(c, Event(judged, StageOf(s), "none", FALSE),
          IF s.stage < Len(Stages) THEN [judged EXCEPT !.stage = @ + 1]
          ELSE [judged EXCEPT !.main = IF Governed THEN "reserve" ELSE "issue"])

(* A temporal rule rejects; the rejection is recorded, then thrown. *)
TemporalRejects(c) ==
  LET s == call[c] IN
  /\ s.main = "stage" /\ StageOf(s) = "TemporalEvaluated" /\ ~InBudget(c)
  /\ Records(c, Event(s, StageOf(s), "none", FALSE),
             Caught(s, TRUE))

(* Policy or blast radius denies. *)
PolicyDenies(c) ==
  LET s == [call[c] EXCEPT !.evaluation = "denied"] IN
  /\ s.main = "stage" /\ StageOf(s) = "EvaluationCompleted"
  /\ Records(c, Event(s, StageOf(s), "none", FALSE), [s EXCEPT !.main = "skip"])

(* A capability is refused; a provider or an evaluator throws. *)
StageThrows(c) ==
  LET s == call[c] IN
  /\ s.main = "stage" /\ StageOf(s) \in {"CapabilityVerified", "ContextResolved", "EvaluationCompleted"}
  /\ Moves(c, Caught(s, StageOf(s) = "CapabilityVerified"))

StageRecordFails(c) ==
  LET s == call[c] IN
  /\ s.main = "stage"
  /\ RecordFails(c, Event(s, StageOf(s), "none", FALSE), Caught(s, FALSE))

-----------------------------------------------------------------------------
(* reserve(): everything is decided again in one transaction. *)
Reserve(c) ==
  LET s == call[c] IN
  /\ s.main = "reserve"
  /\ TraceOfCall(c) = NoTrace /\ InBudget(c)
  /\ Records(c, Event(s, "ExecutionReserved", "none", FALSE),
             [s EXCEPT !.main = "issue", !.contractEnd = clock + Ttl])

ReserveRefuses(c) ==
  LET s == call[c] IN
  /\ s.main = "reserve"
  /\ TraceOfCall(c) # NoTrace \/ ~InBudget(c)
  /\ Moves(c, Caught(s, TRUE))

(* The transaction fails, or only its answer: then nobody has the contract. *)
ReserveFails(c) ==
  LET s == call[c] IN
  /\ s.main = "reserve" /\ TraceOfCall(c) = NoTrace /\ InBudget(c)
  /\ RecordFails(c, Event(s, "ExecutionReserved", "none", FALSE), Caught([s EXCEPT !.lost = TRUE], FALSE))

-----------------------------------------------------------------------------
(* withIdentity.  What assertCanUnlock and assertIdentityCanExecute ask.   *)
InTime(c) == Governed => clock < call[c].contractEnd
Unlockable(c) == Governed => TraceOfCall(c).status = "RESERVED" /\ InTime(c)

(* The identity is issued; from here on it will be revoked. *)
Issue(c) == /\ call[c].main = "issue" /\ Unlockable(c)
            /\ Moves(c, [call[c] EXCEPT !.main = "auditIssue"])

IssueFails(c) == /\ call[c].main = "issue"
                 /\ \/ ~Unlockable(c) /\ Moves(c, Caught(call[c], TRUE))
                    \/ Moves(c, Caught(call[c], FALSE))  \* the provider throws

AfterAudit == [auditIssue |-> "auditUse", auditUse |-> "unlock"]
AuditEvent == [auditIssue |-> "IdentityIssued", auditUse |-> "IdentityUsed"]

Audit(c) ==
  LET s == call[c] IN
  /\ s.main \in DOMAIN AfterAudit /\ Unlockable(c)
  /\ Records(c, Event([s EXCEPT !.evaluation = "none"], AuditEvent[s.main], "none", FALSE),
             [s EXCEPT !.main = AfterAudit[s.main]])

AuditFails(c) ==
  LET s == call[c] IN
  /\ s.main \in DOMAIN AfterAudit
  /\ \/ ~Unlockable(c) /\ Moves(c, [s EXCEPT !.main = "revoke", !.admission = TRUE])
     \/ RecordFails(c, Event([s EXCEPT !.evaluation = "none"], AuditEvent[s.main], "none", FALSE),
                    [s EXCEPT !.main = "revoke"])

(* The last assertCanUnlock reads the clock first and awaits the store.    *)
LastUnlock(c) == /\ call[c].main = "unlock" /\ Unlockable(c)
                 /\ Moves(c, [call[c] EXCEPT !.main = "enter"])
LastUnlockFails(c) == /\ call[c].main = "unlock" /\ ~Unlockable(c)
                      /\ Moves(c, [call[c] EXCEPT !.main = "revoke", !.admission = TRUE])

(* The clock is read once more, and the executor is called: no await.      *)
Enter(c) ==
  /\ call[c].main = "enter" /\ InTime(c)
  /\ Moves(c, [call[c] EXCEPT !.main = "race", !.started = TRUE, !.work = "executing"])
EnterFails(c) == /\ call[c].main = "enter" /\ ~InTime(c)
                 /\ Moves(c, [call[c] EXCEPT !.main = "revoke", !.admission = TRUE])

-----------------------------------------------------------------------------
(* The executor, and the rest of the callback after it.                    *)
ExecutorReturns(c, result) ==
  LET s == [call[c] EXCEPT !.effected = (result = "success"), !.result = result]
  IN /\ s.work = "executing"
     /\ Moves(c, IF s.aborted \/ ~InTime(c)
                   THEN [s EXCEPT !.work = "rejected", !.admission = TRUE]
                   ELSE [s EXCEPT !.work = "record"])

ExecutorThrows(c, effect) ==
  /\ call[c].work = "executing"
  /\ Moves(c, [call[c] EXCEPT !.effected = effect, !.work = "rejected"])

Completed(s) == Event(s, "ExecutionCompleted", s.result, FALSE)
RecordCompletion(c) == /\ call[c].work = "record"
                       /\ Records(c, Completed(call[c]), [call[c] EXCEPT !.work = "resolved"])
CompletionFails(c) == /\ call[c].work = "record"
                      /\ RecordFails(c, Completed(call[c]), [call[c] EXCEPT !.work = "rejected"])

(* The race is over; what it gave is remembered in "main" until the        *)
(* identity is revoked.                                                    *)
Resolve(c) == /\ call[c].main = "race" /\ call[c].work = "resolved"
              /\ Moves(c, [call[c] EXCEPT !.main = "revokeDone", !.aborted = TRUE])
Reject(c) == /\ call[c].main = "race" /\ call[c].work = "rejected"
             /\ Moves(c, [call[c] EXCEPT !.main = "revoke", !.aborted = TRUE])

(* Mutant: the timer is cleared as soon as the executor is called. *)
TimerCleared(c) ==
  /\ call[c].main = "race" /\ Governed /\ ~InTime(c) /\ call[c].work # "executing"
  /\ Moves(c, [call[c] EXCEPT !.main = "revoke", !.aborted = TRUE])
Timer(c) ==
  /\ call[c].main = "race" /\ Governed /\ ~InTime(c)
  /\ Moves(c, [call[c] EXCEPT !.main = "revoke", !.aborted = TRUE, !.admission = TRUE])

(* A failure the executor returned is the answer; a success mints first.   *)
Concluded(s) ==
  IF s.result = "success" THEN [s EXCEPT !.main = "mint"] ELSE Answered(s, "failed")

Revoked(s) == Event([s EXCEPT !.evaluation = "none"], "IdentityRevoked", "none", FALSE)
Revoke(c) ==
  LET s == call[c] IN
  /\ s.main \in {"revoke", "revokeDone"}
  /\ Records(c, Revoked(s), IF s.main = "revokeDone" THEN Concluded(s) ELSE Caught(s, s.admission))

(* The provider's revocation throws, or its record: that error replaces    *)
(* what the race gave.                                                     *)
RevokeFails(c) ==
  LET s == call[c] IN
  /\ s.main \in {"revoke", "revokeDone"}
  /\ RecordFails(c, Revoked(s), Caught(s, FALSE))

(* Nothing is minted for a mutation; a READ or PROBE has its capabilities. *)
Mint(c) ==
  LET s == call[c] IN
  /\ s.main = "mint"
  /\ \/ Moves(c, Answered(s, "success"))
     \/ /\ Governed /\ TraceOfCall(c).status = "SUCCESS"
        /\ Records(c, Event(s, "CapabilityIssued", "none", FALSE), Answered(s, "success"))
MintFails(c) ==
  LET s == call[c] IN
  /\ s.main = "mint" /\ Governed
  /\ \/ Moves(c, Caught(s, FALSE))  \* a binding is missing from the result
     \/ RecordFails(c, Event(s, "CapabilityIssued", "none", FALSE), Caught(s, FALSE))

-----------------------------------------------------------------------------
(* The records of the catch clause and of skip().  When one fails,         *)
(* process() itself rejects.                                               *)
Denied(s) == [s EXCEPT !.evaluation = "denied"]
Closing(s) ==
  CASE s.main = "cancel" -> Event(s, "ExecutionCancelled", "none", FALSE)
    [] s.main = "reject" -> Event(Denied(s), "EvaluationCompleted", "none", FALSE)
    [] s.main = "skip" -> Event(s, "ExecutionSkipped", "failure", FALSE)
    [] s.main = "fail" -> Event(s, "ProcessingFailed", "failure", TRUE)
ClosedAs(s) ==
  CASE s.main = "cancel" -> [s EXCEPT !.main = IF s.admission THEN "reject" ELSE "fail"]
    [] s.main = "reject" -> [Denied(s) EXCEPT !.main = "skip"]
    [] s.main = "skip" -> Answered(s, "blocked")
    [] s.main = "fail" -> Answered(s, "failed")

Close(c) == /\ call[c].main \in {"cancel", "reject", "skip", "fail"}
            /\ Records(c, Closing(call[c]), ClosedAs(call[c]))
CloseFails(c) == /\ call[c].main \in {"cancel", "reject", "skip", "fail"}
                 /\ RecordFails(c, Closing(call[c]), Answered(call[c], "thrown"))

-----------------------------------------------------------------------------
(* The process dies; a request the executor has sent stays sent. *)
Crash(c) ==
  LET s == call[c] IN
  /\ s.main # "over" \/ s.work \in {"executing", "record"}
  /\ faults < MaxFaults /\ faults' = faults + 1
  /\ \E effect \in {s.effected, s.work = "executing"} :
       call' = [call EXCEPT ![c] = [s EXCEPT !.main = "over", !.work = "off", !.effected = effect,
                  !.answer = IF s.main = "over" THEN @ ELSE "dead"]]
  /\ UNCHANGED <<clock, history>>

Tick == clock < MaxClock /\ clock' = clock + 1 /\ UNCHANGED <<history, call, faults>>

Before(c) ==
  \/ Receive(c) \/ Duplicate(c) \/ ReceiveFails(c) \/ StagePasses(c) \/ TemporalRejects(c)
  \/ PolicyDenies(c) \/ StageThrows(c) \/ StageRecordFails(c)
  \/ Reserve(c) \/ ReserveRefuses(c) \/ ReserveFails(c)
Identity(c) ==
  \/ Issue(c) \/ IssueFails(c) \/ Audit(c) \/ AuditFails(c) \/ LastUnlock(c) \/ LastUnlockFails(c)
  \/ Enter(c) \/ EnterFails(c) \/ Resolve(c) \/ Reject(c) \/ Timer(c) \/ Revoke(c) \/ RevokeFails(c)
After(c) == Mint(c) \/ MintFails(c) \/ Close(c) \/ CloseFails(c)
Main(c) == Before(c) \/ Identity(c) \/ After(c)
Worker(c) ==
  \/ \E result \in {"success", "failure"} : ExecutorReturns(c, result)
  \/ \E effect \in BOOLEAN : ExecutorThrows(c, effect)
  \/ RecordCompletion(c) \/ CompletionFails(c)

Next == Tick \/ \E c \in Call : Main(c) \/ Worker(c) \/ Crash(c)
Spec == Init /\ [][Next]_vars
-----------------------------------------------------------------------------
Over(c) == call[c].main = "over"
Alone(c) == \A d \in Call : d = c \/ call[d].intent # call[c].intent

(* What a replay of the events says is what process() answered, whatever   *)
(* failed or was late (OpenKedgeEngine.ts:56-144, ReplayEngine.ts:130-154):*)
(* for a governed engine also when the proposal was submitted twice.       *)
Reported == [success |-> "allowed", blocked |-> "blocked", failed |-> "failed"]
ReplayTellsTheAnswer ==
  \A c \in Call :
    /\ Over(c) /\ call[c].answer \in DOMAIN Reported /\ (Governed \/ Alone(c))
    => FinalOutcome(history[call[c].intent]) = Reported[call[c].answer]

(* A reservation that stays open after its call is over is one whose       *)
(* executor was started, or whose call died, threw because its             *)
(* cancellation could not be recorded, or never learned of it (:127).      *)
OpenReservationIsExplained ==
  \A c \in Call :
    /\ Governed /\ Over(c) /\ call[c].answer # "refused" /\ TraceOfCall(c).status = "RESERVED"
    => call[c].started \/ call[c].lost \/ call[c].answer \in {"dead", "thrown"}

(* Budget is given back only where nothing happened and nothing will: an   *)
(* execution whose trace says FAILED had no effect                         *)
(* (docs/temporal-invariants.md:177-183).                                  *)
FreedBudgetHadNoEffect ==
  \A c \in Call : Governed /\ TraceOfCall(c).status = "FAILED" => ~call[c].effected

(* The budget of a proposal goes with what became of it: neither is it     *)
(* given back for an effect, nor is it kept without a reason (:127).       *)
BudgetFollowsEffects == FreedBudgetHadNoEffect /\ OpenReservationIsExplained

(* An answer that says the proposal was refused or blocked is final: its   *)
(* executor was not called and never will be (:129-137).                   *)
RefusalNeverExecutes ==
  \A c \in Call : call[c].answer \in {"refused", "blocked"} => ~call[c].started

(* What process() answered is so: the stored events say the same, and what *)
(* it refused does not happen after all.                                   *)
AnswersAreTrue == ReplayTellsTheAnswer /\ RefusalNeverExecutes

(* The executor is called only within the contract, however slow the store *)
(* is ("slow storage must not extend the contract", IdentityManager.ts:57).*)
StartsInTime ==
  [][\A c \in Call :
       Governed /\ ~call[c].started /\ call'[c].started => clock < call[c].contractEnd]_vars
=============================================================================
