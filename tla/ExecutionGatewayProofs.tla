----------------------- MODULE ExecutionGatewayProofs -----------------------
(***************************************************************************)
(* Theorems about the gateway, for any number of proposals, calls and      *)
(* processes.  A grant is used once, and a trace that is over is final.    *)
(* With a dispatch authority the adapter is called while the grant is      *)
(* valid, and a call that was answered "rejected" or "failed" never touches*)
(* the target; with or without one, "executed" is what happened and what   *)
(* the evidence says, and the rate limit holds.                            *)
(***************************************************************************)
EXTENDS ExecutionGateway, FiniteSetTheorems, TLAPS

(* A worker past the one-use transaction has consumed its grant, one       *)
(* before it has not, and only those who have call the adapter.            *)
UseOK(s) ==
  /\ s.main \in {"idle", "checking", "unlocking"} => s.work = "off"
  /\ s.work \in {"off", "starting"} => ~s.started
  /\ s.work \notin {"off", "starting", "ended", "astray"} => s.started
  /\ s.invoked => s.started

(* Calls are made with grants that were given; a proposal without a grant  *)
(* has no trace; and the trace shows whether a grant was consumed, which   *)
(* one call alone did.                                                     *)
GrantsUsedOnce ==
  /\ \A r \in Run : UseOK(run[r])
  /\ \A r \in Run : run[r].main # "idle" => admission[run[r].intent] = "granted"
  /\ \A i \in Intent : admission[i] # "granted" => trace[i].status = "none"
  /\ \A r \in Run :
       run[r].started => trace[run[r].intent].status \notin {"none", "RESERVED"}
  /\ \A q, r \in Run :
       run[q].started /\ run[r].started /\ run[q].intent = run[r].intent => q = r

Inv == TypeOK /\ GrantsUsedOnce

(* What every step but the one-use transaction does to the state of a      *)
(* call: it stays a call for the same proposal, consumed or not as before. *)
Keeps(s, t) ==
  /\ t \in RunState
  /\ t.intent = s.intent
  /\ t.started = s.started
  /\ t.main # "idle"

(* The worker's end, the catch clauses and the conclusion of execute()     *)
(* keep a call's proposal and whether it consumed the grant.               *)
LEMMA EndedKeeps ==
  ASSUME NEW s \in RunState, NEW c \in {"none", "error", "definitive"}, s.main # "idle"
  PROVE  /\ Keeps(s, Ended(s, c)) /\ Ended(s, c).main \in {s.main, "revoking"}
         /\ Ended(s, c).work = "ended" /\ Ended(s, c).invoked = s.invoked
BY DEF Ended, Keeps, RunState

Returned(s, a) == [s EXCEPT !.main = "returned", !.result = a]

(* A call that returns stays the same call. *)
LEMMA ReturnKeeps ==
  ASSUME NEW s \in RunState, NEW a \in {"executed", "failed", "rejected", "uncertain"}
  PROVE  /\ Keeps(s, Returned(s, a)) /\ Returned(s, a).main = "returned"
         /\ Returned(s, a).work = s.work /\ Returned(s, a).invoked = s.invoked
BY DEF Keeps, RunState, Returned

(* As EndedKeeps, for the conclusion of execute(). *)
LEMMA ConcludedKeeps ==
  ASSUME NEW s \in RunState
  PROVE  /\ Keeps(s, Concluded(s)) /\ Keeps(s, Unrecorded(s))
         /\ Concluded(s).work = s.work /\ Concluded(s).invoked = s.invoked
         /\ Unrecorded(s).work = s.work /\ Unrecorded(s).invoked = s.invoked
         /\ Concluded(s).main = "returned" /\ Unrecorded(s).main = "returned"
<1> DEFINE a == IF s.invoked THEN IF s.cause = "definitive" THEN "failed" ELSE "uncertain"
                             ELSE IF s.started THEN "failed" ELSE "rejected"
           b == IF s.invoked THEN "uncertain" ELSE "rejected"
<1>1. /\ a \in {"executed", "failed", "rejected", "uncertain"}
      /\ b \in {"executed", "failed", "rejected", "uncertain"}
  BY Zenon
<1>2. /\ Concluded(s) = Returned(s, a)
      /\ Unrecorded(s) = Returned(s, b)
  BY Zenon DEF Concluded, Unrecorded, Returned
<1> HIDE DEF a, b
<1>3. /\ Keeps(s, Concluded(s)) /\ Concluded(s).main = "returned"
      /\ Concluded(s).work = s.work /\ Concluded(s).invoked = s.invoked
  BY <1>1, <1>2, ReturnKeeps
<1>4. /\ Keeps(s, Unrecorded(s)) /\ Unrecorded(s).main = "returned"
      /\ Unrecorded(s).work = s.work /\ Unrecorded(s).invoked = s.invoked
  BY <1>1, <1>2, ReturnKeeps
<1> QED BY <1>3, <1>4

(* As EndedKeeps, for the outer catch. *)
LEMMA CaughtKeeps ==
  ASSUME NEW s \in RunState, NEW c \in {"none", "error", "definitive"}
  PROVE  /\ Keeps(s, Caught(s, c))
         /\ Caught(s, c).work = s.work /\ Caught(s, c).invoked = s.invoked
         /\ Caught(s, c).main \in {"returned", "failing", "rejecting"}
<1> DEFINE t == [s EXCEPT !.cause = c]
<1>1. t \in RunState /\ t.intent = s.intent /\ t.started = s.started
        /\ t.work = s.work /\ t.invoked = s.invoked
  BY DEF RunState
<1>2. CASE s.started /\ s.invoked /\ s.succeeded
  <2>1. Caught(s, c) = Concluded(t)
    BY <1>2 DEF Caught
  <2> QED BY <1>1, <2>1, ConcludedKeeps DEF Keeps
<1>3. CASE ~(s.started /\ s.invoked /\ s.succeeded)
  BY <1>3 DEF Caught, Keeps, RunState
<1> QED BY <1>2, <1>3

(* A step that only moves one call along preserves the invariant. *)
LEMMA QuietStep ==
  ASSUME Inv, NEW r \in Run, NEW t, Keeps(run[r], t), UseOK(t),
         admission[run[r].intent] = "granted",
         run' = [run EXCEPT ![r] = t], OnlyRun
  PROVE  Inv'
<1>1. TypeOK'
  BY DEF Inv, TypeOK, Keeps, OnlyRun
<1>2. /\ run'[r] = t
      /\ \A q \in Run : run'[q].intent = run[q].intent /\ run'[q].started = run[q].started
      /\ \A q \in Run \ {r} : run'[q] = run[q]
  BY DEF Inv, TypeOK, Keeps
<1>3. GrantsUsedOnce'
  BY <1>2 DEF Inv, GrantsUsedOnce, Keeps, OnlyRun, UseOK
<1> QED BY <1>1, <1>3 DEF Inv

(* So does one that also records how the execution ended. *)
LEMMA RecordingStep ==
  ASSUME Inv, NEW r \in Run, NEW t, Keeps(run[r], t), UseOK(t),
         NEW end \in {"SUCCESS", "FAILED"},
         admission[run[r].intent] = "granted",
         run' = [run EXCEPT ![r] = t],
         trace' = [trace EXCEPT ![run[r].intent] = [status |-> end, at |-> clock]],
         UNCHANGED <<clock, grantEnd, admission>>
  PROVE  Inv'
<1>1. [status |-> end, at |-> clock] \in TraceRecord /\ run[r].intent \in Intent
  BY ConstantsAssumption DEF Inv, TypeOK, TraceRecord, TraceStatus, RunState
<1>2. TypeOK'
  BY <1>1 DEF Inv, TypeOK, Keeps
<1>3. /\ run'[r] = t
      /\ \A q \in Run : run'[q].intent = run[q].intent /\ run'[q].started = run[q].started
      /\ \A q \in Run \ {r} : run'[q] = run[q]
  BY DEF Inv, TypeOK, Keeps
<1>4. \A i \in Intent : trace'[i] = trace[i] \/ (i = run[r].intent /\ trace'[i].status = end)
  BY <1>1 DEF Inv, TypeOK
<1>5. \A q \in Run : run[q].intent \in Intent
  BY DEF Inv, TypeOK, RunState
<1>6. GrantsUsedOnce'
  BY <1>3, <1>4, <1>5 DEF Inv, GrantsUsedOnce, Keeps, UseOK
<1> QED BY <1>2, <1>6 DEF Inv

(* The main line's steps keep the invariant. *)
LEMMA MainKeepsInv == ASSUME Inv, NEW r \in Run, MainStep(r) PROVE Inv'
<1> DEFINE s == run[r]
<1>s. s \in RunState /\ UseOK(s)
  BY DEF Inv, TypeOK, GrantsUsedOnce
<1>g. s.main # "idle" => admission[s.intent] = "granted"
  BY DEF Inv, GrantsUsedOnce
<1>q. ASSUME NEW t, Keeps(s, t), UseOK(t), s.main # "idle",
             run' = [run EXCEPT ![r] = t], OnlyRun
      PROVE  Inv'
  BY <1>q, <1>g, QuietStep
<1>1. CASE CheckPasses(r)
  <2> DEFINE t == [s EXCEPT !.main = "unlocking"]
  <2>1. Keeps(s, t) /\ UseOK(t) /\ s.main # "idle"
    BY <1>1, <1>s DEF CheckPasses, Keeps, UseOK, RunState
  <2>2. run' = [run EXCEPT ![r] = t]
    BY <1>1 DEF CheckPasses
  <2> QED BY <1>1, <1>q, <2>1, <2>2 DEF CheckPasses
<1>2. CASE CheckFails(r)
  BY <1>2, <1>s, <1>q, CaughtKeeps DEF CheckFails, Keeps, UseOK
<1>3. CASE Unlock(r)
  <2> DEFINE t == [s EXCEPT !.main = "racing", !.work = "starting"]
  <2>1. Keeps(s, t) /\ UseOK(t) /\ s.main # "idle"
    BY <1>3, <1>s DEF Unlock, Keeps, UseOK, RunState
  <2>2. run' = [run EXCEPT ![r] = t]
    BY <1>3 DEF Unlock
  <2> QED BY <1>3, <1>q, <2>1, <2>2 DEF Unlock
<1>4. CASE UnlockFails(r) \/ Timeout(r)
  <2> DEFINE t == [s EXCEPT !.main = "revoking", !.cause = "error"]
  <2>1. Keeps(s, t) /\ UseOK(t) /\ s.main # "idle"
    BY <1>4, <1>s DEF UnlockFails, Timeout, Keeps, UseOK, RunState
  <2>2. run' = [run EXCEPT ![r] = t]
    BY <1>4 DEF UnlockFails, Timeout
  <2> QED BY <1>4, <1>q, <2>1, <2>2 DEF UnlockFails, Timeout
<1>5. CASE Revoke(r)
  <2>1. CASE s.cause = "none"
    <3>1. run' = [run EXCEPT ![r] = Returned(s, "executed")] /\ s.main # "idle"
      BY <1>5, <2>1 DEF Revoke, Returned
    <3> QED BY <1>5, <1>s, <1>q, <3>1, ReturnKeeps DEF Revoke, Keeps, UseOK
  <2>2. CASE s.cause # "none"
    <3>1. run' = [run EXCEPT ![r] = Caught(s, s.cause)] /\ s.main # "idle"
      BY <1>5, <2>2 DEF Revoke
    <3>2. s.cause \in {"none", "error", "definitive"}
      BY <1>s DEF RunState
    <3>3. Keeps(s, Caught(s, s.cause)) /\ UseOK(Caught(s, s.cause))
      BY <1>s, <3>2, CaughtKeeps DEF Keeps, UseOK
    <3> QED BY <1>5, <1>q, <3>1, <3>3 DEF Revoke
  <2> QED BY <2>1, <2>2
<1>6. CASE RevokeFails(r)
  BY <1>6, <1>s, <1>q, CaughtKeeps DEF RevokeFails, Keeps, UseOK
<1>7. CASE RecordFailureFails(r) \/ RecordRejectionFails(r) \/ ReportFails(r)
  BY <1>7, <1>s, <1>q, ConcludedKeeps
  DEF RecordFailureFails, RecordRejectionFails, ReportFails, Keeps, UseOK
<1>8. CASE RecordRejection(r)
  BY <1>8, <1>s, <1>q, ConcludedKeeps DEF RecordRejection, Keeps, UseOK
<1>9. CASE ReportOutcome(r)
  <2> DEFINE t == [s EXCEPT !.permitOpen = FALSE]
  <2>1. t \in RunState /\ t.intent = s.intent /\ t.started = s.started
          /\ t.work = s.work /\ t.invoked = s.invoked
    BY <1>s DEF RunState
  <2>2. run' = [run EXCEPT ![r] = Concluded(t)] /\ s.main # "idle"
    BY <1>9 DEF ReportOutcome
  <2> HIDE DEF t
  <2>3. Keeps(s, Concluded(t)) /\ UseOK(Concluded(t))
    BY <1>s, <2>1, ConcludedKeeps DEF Keeps, UseOK
  <2> QED BY <1>9, <1>q, <2>2, <2>3 DEF ReportOutcome
<1>10. CASE RecordFailure(r)
  <2>1. PICK t : /\ Keeps(s, t) /\ UseOK(t)
                 /\ run' = [run EXCEPT ![r] = t]
    <3>1. CASE s.permitOpen
      <4>1. run' = [run EXCEPT ![r] = [s EXCEPT !.main = "reporting"]]
        BY <1>10, <3>1 DEF RecordFailure
      <4>2. Keeps(s, [s EXCEPT !.main = "reporting"]) /\ UseOK([s EXCEPT !.main = "reporting"])
        BY <1>s DEF Keeps, UseOK, RunState
      <4> QED BY <4>1, <4>2
    <3>2. CASE ~s.permitOpen
      <4>1. run' = [run EXCEPT ![r] = Concluded(s)]
        BY <1>10, <3>2 DEF RecordFailure
      <4>2. Keeps(s, Concluded(s)) /\ UseOK(Concluded(s))
        BY <1>s, ConcludedKeeps DEF Keeps, UseOK
      <4> QED BY <4>1, <4>2
    <3> QED BY <3>1, <3>2
  <2>2. admission[s.intent] = "granted"
    BY <1>10, <1>g DEF RecordFailure
  <2> QED BY <1>10, <2>1, <2>2, RecordingStep DEF RecordFailure
<1> QED
  BY <1>1, <1>2, <1>3, <1>4, <1>5, <1>6, <1>7, <1>8, <1>9, <1>10 DEF MainStep

(* The worker's steps and the adapter's keep the invariant. *)
LEMMA WorkerKeepsInv ==
  ASSUME Inv, NEW r \in Run, WorkerStep(r) \/ AdapterStep(r) PROVE Inv'
<1> DEFINE s == run[r]
<1>s. s \in RunState /\ UseOK(s)
  BY DEF Inv, TypeOK, GrantsUsedOnce
<1>w. s.work # "off"
  <2>1. CASE AdapterStep(r)
    BY <2>1 DEF AdapterStep, Effect, AdapterSucceeds, AdapterThrows, AdapterRefuses
  <2>2. CASE WorkerStep(r)
    BY <2>2 DEF WorkerStep, Start, StartFails, Revalidate, RevalidateFails, Confirm,
         ConfirmFails, PermitIssued, PermitReceived, PermitLate, PermitFails,
         Complete, CompleteFails, Finish, FinishFails
  <2> QED BY <2>1, <2>2
<1>m. s.main \notin {"idle", "checking", "unlocking"}
  BY <1>s, <1>w DEF UseOK
<1>g. admission[s.intent] = "granted"
  BY <1>m DEF Inv, GrantsUsedOnce
<1>q. ASSUME NEW t, Keeps(s, t), UseOK(t), run' = [run EXCEPT ![r] = t], OnlyRun
      PROVE  Inv'
  BY <1>q, <1>g, QuietStep
<1>e. ASSUME NEW c \in {"none", "error", "definitive"}
      PROVE  Keeps(s, Ended(s, c)) /\ UseOK(Ended(s, c))
  BY <1>s, <1>m, EndedKeeps DEF Keeps, UseOK
<1>1. CASE StartFails(r) \/ RevalidateFails(r) \/ ConfirmFails(r) \/ PermitFails(r)
            \/ CompleteFails(r) \/ FinishFails(r)
  <2>1. run' = [run EXCEPT ![r] = Ended(s, "error")] /\ OnlyRun
    BY <1>1 DEF StartFails, RevalidateFails, ConfirmFails, PermitFails, CompleteFails, FinishFails
  <2> QED BY <2>1, <1>e, <1>q
<1>2. CASE Start(r)
  <2> DEFINE i == s.intent
             t == [s EXCEPT !.work = "started", !.started = TRUE]
  <2>1. /\ t \in RunState /\ t.intent = i /\ t.started /\ UseOK(t) /\ t.main # "idle"
    BY <1>2, <1>s, <1>m DEF Start, RunState, UseOK
  <2>2. run' = [run EXCEPT ![r] = t]
    BY <1>2 DEF Start
  <2>3. i \in Intent /\ [status |-> "RUNNING", at |-> clock] \in TraceRecord
    BY <1>s DEF Inv, TypeOK, RunState, TraceRecord, TraceStatus
  <2>4. TypeOK'
    BY <1>2, <2>1, <2>2, <2>3 DEF Inv, TypeOK, Start
  <2>5. \A q \in Run : run[q].started => run[q].intent # i
    BY <1>2 DEF Start, Inv, GrantsUsedOnce
  <2>6. run'[r] = t /\ \A q \in Run \ {r} : run'[q] = run[q]
    BY <2>2 DEF Inv, TypeOK
  <2>7. \A j \in Intent : trace'[j] = trace[j] \/ (j = i /\ trace'[j].status = "RUNNING")
    BY <1>2, <2>3 DEF Start, Inv, TypeOK
  <2>8. \A q \in Run : run[q].intent \in Intent
    BY DEF Inv, TypeOK, RunState
  <2> HIDE DEF t
  <2>a. UNCHANGED admission
    BY <1>2 DEF Start
  <2>b. /\ \A q \in Run : UseOK(run[q])'
        /\ \A q \in Run : run'[q].main # "idle" => admission'[run'[q].intent] = "granted"
    BY <2>1, <2>6, <2>a, <1>g DEF Inv, GrantsUsedOnce, UseOK
  <2>c. \A j \in Intent : admission'[j] # "granted" => trace'[j].status = "none"
    BY <2>7, <2>a, <1>g DEF Inv, GrantsUsedOnce
  <2>d. \A q \in Run :
          run'[q].started => trace'[run'[q].intent].status \notin {"none", "RESERVED"}
    <3>1. trace'[i].status = "RUNNING"
      BY <1>2, <2>3 DEF Start, Inv, TypeOK
    <3> QED BY <3>1, <2>1, <2>6, <2>7, <2>8 DEF Inv, GrantsUsedOnce
  <2>e. \A p, q \in Run :
          run'[p].started /\ run'[q].started /\ run'[p].intent = run'[q].intent => p = q
    BY <2>1, <2>5, <2>6 DEF Inv, GrantsUsedOnce
  <2> QED BY <2>4, <2>b, <2>c, <2>d, <2>e DEF Inv, GrantsUsedOnce
<1>3. CASE Revalidate(r)
  <2> DEFINE t == [s EXCEPT !.work = "confirming"]
  <2>1. Keeps(s, t) /\ UseOK(t) /\ run' = [run EXCEPT ![r] = t]
    BY <1>3, <1>s, <1>m DEF Revalidate, Keeps, UseOK, RunState
  <2> QED BY <1>3, <1>q, <2>1 DEF Revalidate
<1>4. CASE Confirm(r)
  <2> DEFINE asked == [s EXCEPT !.work = "asking"]
             called == [s EXCEPT !.work = "calling", !.invoked = TRUE]
  <2>1. Keeps(s, asked) /\ UseOK(asked) /\ Keeps(s, called) /\ UseOK(called)
    BY <1>4, <1>s, <1>m DEF Confirm, Keeps, UseOK, RunState
  <2>2. run' = [run EXCEPT ![r] = asked] \/ run' = [run EXCEPT ![r] = called]
    BY <1>4 DEF Confirm
  <2> QED BY <1>4, <1>q, <2>1, <2>2 DEF Confirm
<1>5. CASE PermitIssued(r)
  <2> DEFINE until == Min2(grantEnd[s.intent], clock + PermitTtl)
             t == [s EXCEPT !.work = "granted", !.permitEnd = until]
  <2>1. until \in 0..MaxClock
    BY <1>s, ConstantsAssumption DEF Inv, TypeOK, RunState, Min2
  <2> HIDE DEF until
  <2>2. Keeps(s, t) /\ UseOK(t)
    BY <1>5, <1>s, <1>m, <2>1 DEF PermitIssued, Keeps, UseOK, RunState
  <2>3. run' = [run EXCEPT ![r] = t]
    BY <1>5 DEF PermitIssued, until
  <2> QED BY <1>5, <1>q, <2>2, <2>3 DEF PermitIssued
<1>6. CASE PermitReceived(r)
  <2> DEFINE t == [s EXCEPT !.work = "calling", !.invoked = TRUE, !.permitOpen = TRUE]
  <2>1. Keeps(s, t) /\ UseOK(t)
    BY <1>6, <1>s, <1>m DEF PermitReceived, Keeps, UseOK, RunState
  <2>2. run' = [run EXCEPT ![r] = t]
    BY <1>6 DEF PermitReceived
  <2> QED BY <1>6, <1>q, <2>1, <2>2 DEF PermitReceived
<1>7. CASE PermitLate(r) \/ Finish(r)
  <2>1. ASSUME NEW b \in BOOLEAN, NEW c \in {"none", "error"}
        PROVE  LET t == Ended([s EXCEPT !.permitOpen = b], c) IN Keeps(s, t) /\ UseOK(t)
    <3> DEFINE u == [s EXCEPT !.permitOpen = b]
    <3>1. u \in RunState /\ u.intent = s.intent /\ u.started = s.started /\ u.main = s.main
            /\ u.invoked = s.invoked
      BY <1>s DEF RunState
    <3> HIDE DEF u
    <3>2. Keeps(s, Ended(u, c)) /\ UseOK(Ended(u, c))
      BY <1>s, <1>m, <3>1, EndedKeeps DEF Keeps, UseOK
    <3> QED BY <3>2 DEF u
  <2>2. CASE PermitLate(r)
    BY <2>1, <2>2, <1>q DEF PermitLate
  <2>3. CASE Finish(r)
    BY <2>1, <2>3, <1>q DEF Finish
  <2> QED BY <1>7, <2>2, <2>3
<1>8. CASE Complete(r)
  <2>1. CASE s.permitOpen
    <3> DEFINE t == [s EXCEPT !.work = "finishing"]
    <3>1. Keeps(s, t) /\ UseOK(t)
      BY <1>8, <1>s, <1>m DEF Complete, Keeps, UseOK, RunState
    <3>2. run' = [run EXCEPT ![r] = t]
      BY <1>8, <2>1 DEF Complete
    <3> QED BY <1>8, <1>g, <3>1, <3>2, RecordingStep DEF Complete
  <2>2. CASE ~s.permitOpen
    <3>1. run' = [run EXCEPT ![r] = Ended(s, "none")]
      BY <1>8, <2>2 DEF Complete
    <3> QED BY <1>8, <1>g, <1>e, <3>1, RecordingStep DEF Complete
  <2> QED BY <2>1, <2>2
<1>9. CASE Effect(r)
  <2> DEFINE t == [s EXCEPT !.effected = TRUE]
  <2>1. /\ t \in RunState /\ t.work = s.work /\ t.main = s.main /\ t.intent = s.intent
        /\ t.started = s.started /\ t.invoked = s.invoked
    BY <1>s DEF RunState
  <2>2. run' = [run EXCEPT ![r] = t]
    BY <1>9 DEF Effect
  <2> HIDE DEF t
  <2>3. Keeps(s, t) /\ UseOK(t)
    BY <1>s, <1>m, <2>1 DEF Keeps, UseOK
  <2> QED BY <1>9, <1>q, <2>2, <2>3 DEF Effect
<1>10. CASE AdapterSucceeds(r)
  <2> DEFINE t == [s EXCEPT !.work = "completing", !.succeeded = TRUE]
  <2>1. Keeps(s, t) /\ UseOK(t)
    BY <1>10, <1>s, <1>m DEF AdapterSucceeds, Keeps, UseOK, RunState
  <2>2. run' = [run EXCEPT ![r] = t]
    BY <1>10 DEF AdapterSucceeds
  <2> QED BY <1>10, <1>q, <2>1, <2>2 DEF AdapterSucceeds
<1>11. CASE AdapterRefuses(r)
  BY <1>11, <1>e, <1>q DEF AdapterRefuses
<1>12. CASE AdapterThrows(r)
  <2> DEFINE e == Ended(s, "error")
             t == [e EXCEPT !.work = "astray"]
  <2>1. Keeps(s, e) /\ UseOK(e) /\ e.work = "ended" /\ e.main \in {s.main, "revoking"}
    BY <1>s, <1>m, <1>e, EndedKeeps
  <2>2. run' = [run EXCEPT ![r] = t]
    BY <1>12 DEF AdapterThrows
  <2> HIDE DEF e
  <2>3. /\ t \in RunState /\ t.work = "astray" /\ t.main = e.main /\ t.intent = e.intent
        /\ t.started = e.started /\ t.invoked = e.invoked
    BY <2>1 DEF Keeps, RunState
  <2> HIDE DEF t
  <2>4. Keeps(s, t) /\ UseOK(t)
    BY <2>1, <2>3, <1>m DEF Keeps, UseOK
  <2> QED BY <1>12, <1>q, <2>2, <2>4 DEF AdapterThrows
<1> QED
  BY <1>1, <1>2, <1>3, <1>4, <1>5, <1>6, <1>7, <1>8, <1>9, <1>10, <1>11, <1>12
  DEF WorkerStep, AdapterStep

(* The death of processes keeps the invariant. *)
LEMMA CrashKeepsInv == ASSUME Inv, NEW S \in SUBSET Run, Crash(S) PROVE Inv'
<1>1. ASSUME NEW s \in RunState, UseOK(s)
      PROVE  /\ Killed(s) \in RunState /\ UseOK(Killed(s))
             /\ Killed(s).intent = s.intent /\ Killed(s).started = s.started
             /\ s.main = "idle" => Killed(s).main = "idle"
  <2>1. CASE s.main \in {"idle", "dead"}
    BY <1>1, <2>1 DEF Killed
  <2>2. CASE s.main \notin {"idle", "dead"}
    <3> DEFINE m == IF s.main = "returned" THEN s.main ELSE "dead"
               w == CASE s.work \in {"calling", "astray"} -> "astray"
                      [] s.work = "off" -> "off"
                      [] OTHER -> "ended"
               t == [s EXCEPT !.main = m, !.work = w]
    <3>1. Killed(s) = t
      BY <2>2 DEF Killed
    <3>2. /\ m \in {"returned", "dead"} /\ w \in {"astray", "off", "ended"}
          /\ s.work = "off" <=> w = "off"
      OBVIOUS
    <3> HIDE DEF m, w
    <3>3. t \in RunState /\ t.main = m /\ t.work = w /\ t.intent = s.intent
            /\ t.started = s.started /\ t.invoked = s.invoked
      BY <1>1, <3>2 DEF RunState
    <3> QED BY <1>1, <2>2, <3>1, <3>2, <3>3 DEF UseOK
  <2> QED BY <2>1, <2>2
<1>2. \A r \in Run : run[r] \in RunState /\ UseOK(run[r])
  BY DEF Inv, TypeOK, GrantsUsedOnce
<1>3. /\ run' \in [Run -> RunState]
      /\ \A r \in Run : /\ UseOK(run'[r])
                        /\ run'[r].intent = run[r].intent /\ run'[r].started = run[r].started
                        /\ run[r].main = "idle" => run'[r].main = "idle"
  BY <1>1, <1>2 DEF Crash
<1>4. UNCHANGED <<clock, trace, grantEnd, admission>>
  BY DEF Crash, OnlyRun
<1>5. TypeOK'
  BY <1>3, <1>4 DEF Inv, TypeOK
<1>6. (\A r \in Run : UseOK(run[r]))'
  BY <1>3 DEF UseOK
<1>7. (\A r \in Run : run[r].main # "idle" => admission[run[r].intent] = "granted")'
  BY <1>3, <1>4 DEF Inv, GrantsUsedOnce
<1>8. (\A i \in Intent : admission[i] # "granted" => trace[i].status = "none")'
  BY <1>4 DEF Inv, GrantsUsedOnce
<1>9. (\A r \in Run :
         run[r].started => trace[run[r].intent].status \notin {"none", "RESERVED"})'
  BY <1>3, <1>4 DEF Inv, GrantsUsedOnce
<1>10. (\A q, r \in Run :
         run[q].started /\ run[r].started /\ run[q].intent = run[r].intent => q = r)'
  BY <1>3 DEF Inv, GrantsUsedOnce
<1> QED BY <1>5, <1>6, <1>7, <1>8, <1>9, <1>10 DEF Inv, GrantsUsedOnce

(* Admission keeps the invariant: a proposal is reserved before any call   *)
(* can be made with its grant.                                             *)
LEMMA AdmissionKeepsInv == ASSUME Inv, NEW i \in Intent, Admit(i) PROVE Inv'
<1>n. \A r \in Run : run[r].intent \in Intent
  BY DEF Inv, TypeOK, RunState
<1>1. CASE Evaluate(i) \/ Deny(i)
  <2>1. /\ UNCHANGED <<clock, trace, grantEnd, run>>
        /\ admission' \in [Intent -> Admissions]
        /\ \A j \in Intent : admission'[j] = "granted" <=> admission[j] = "granted"
    BY <1>1 DEF Evaluate, Deny, Inv, TypeOK, Admissions
  <2> QED BY <1>n, <2>1 DEF Inv, TypeOK, GrantsUsedOnce, UseOK
<1>2. CASE Reserve(i)
  <2>1. [status |-> "RESERVED", at |-> clock] \in TraceRecord /\ clock + GrantTtl \in 0..MaxClock
    BY <1>2, ConstantsAssumption DEF Reserve, Inv, TypeOK, TraceRecord, TraceStatus
  <2>2. TypeOK'
    BY <1>2, <2>1 DEF Reserve, Inv, TypeOK, Admissions
  <2>3. admission[i] # "granted" /\ trace[i].status = "none"
    BY <1>2 DEF Reserve, Inv, GrantsUsedOnce
  <2>4. \A r \in Run : run[r].started => run[r].intent # i
    BY <2>3 DEF Inv, GrantsUsedOnce
  <2>5. /\ UNCHANGED run
        /\ admission'[i] = "granted"
        /\ \A j \in Intent \ {i} : admission'[j] = admission[j] /\ trace'[j] = trace[j]
    BY <1>2 DEF Reserve, Inv, TypeOK
  <2>6. /\ \A r \in Run : run[r].main # "idle" => admission'[run[r].intent] = "granted"
        /\ \A j \in Intent : admission'[j] # "granted" => trace'[j].status = "none"
    BY <1>n, <2>5 DEF Inv, GrantsUsedOnce
  <2>7. \A r \in Run :
          run[r].started => trace'[run[r].intent].status \notin {"none", "RESERVED"}
    BY <1>n, <2>4, <2>5 DEF Inv, GrantsUsedOnce
  <2>8. GrantsUsedOnce'
    BY <2>5, <2>6, <2>7 DEF Inv, GrantsUsedOnce, UseOK
  <2> QED BY <2>2, <2>8 DEF Inv
<1> QED BY <1>1, <1>2 DEF Admit

(* The start of a call keeps the invariant. *)
LEMMA BeginKeepsInv == ASSUME Inv, NEW r \in Run, Begin(r) \/ BeginFails(r) PROVE Inv'
<1> DEFINE s == run[r]
           begun == [s EXCEPT !.main = "checking"]
<1>s. s \in RunState /\ UseOK(s)
  BY DEF Inv, TypeOK, GrantsUsedOnce
<1>1. CASE Begin(r)
  <2>1. Keeps(s, begun) /\ UseOK(begun)
    BY <1>1, <1>s DEF Begin, Keeps, UseOK, RunState
  <2>2. run' = [run EXCEPT ![r] = begun]
    BY <1>1 DEF Begin
  <2> QED BY <1>1, <2>1, <2>2, QuietStep DEF Begin
<1>2. CASE BeginFails(r)
  <2>1. Keeps(s, Returned(s, "rejected")) /\ UseOK(Returned(s, "rejected"))
    BY <1>s, ReturnKeeps DEF UseOK, Keeps
  <2>2. run' = [run EXCEPT ![r] = Returned(s, "rejected")]
    BY <1>2 DEF BeginFails, Returned
  <2> QED BY <1>2, <2>1, <2>2, QuietStep DEF BeginFails
<1> QED BY <1>1, <1>2

(* The invariant holds in every reachable state. *)
LEMMA InvHolds == Spec => []Inv
<1>1. Init => Inv
  <2> SUFFICES ASSUME Init PROVE Inv
    OBVIOUS
  <2>1. \A i \in Intent : Idle(i) \in RunState /\ UseOK(Idle(i))
                            /\ Idle(i).main = "idle" /\ ~Idle(i).started
    BY ConstantsAssumption DEF Idle, RunState, UseOK
  <2>2. \A r \in Run : run[r] \in RunState /\ UseOK(run[r])
                            /\ run[r].main = "idle" /\ ~run[r].started
    BY <2>1 DEF Init
  <2>3. run \in [Run -> RunState]
    BY <2>1 DEF Init
  <2>4. TypeOK
    BY <2>3, ConstantsAssumption
    DEF Init, TypeOK, TraceRecord, TraceStatus, NoTrace, Admissions
  <2>5. GrantsUsedOnce
    BY <2>2 DEF Init, GrantsUsedOnce, NoTrace
  <2> QED BY <2>4, <2>5 DEF Inv
<1>2. Inv /\ [Next]_vars => Inv'
  <2> SUFFICES ASSUME Inv, [Next]_vars PROVE Inv'
    OBVIOUS
  <2>1. CASE Tick
    BY <2>1, ConstantsAssumption DEF Tick, Inv, TypeOK, GrantsUsedOnce, UseOK
  <2>2. CASE UNCHANGED vars
    BY <2>2 DEF vars, Inv, TypeOK, GrantsUsedOnce, UseOK
  <2> QED
    BY <2>1, <2>2, MainKeepsInv, WorkerKeepsInv, CrashKeepsInv, AdmissionKeepsInv, BeginKeepsInv
    DEF Next
<1> QED BY <1>1, <1>2, PTL DEF Spec

(* Every variable keeps its type in every reachable state. *)
THEOREM TypeCorrect == Spec => []TypeOK
<1>1. Inv => TypeOK
  BY DEF Inv
<1> QED BY <1>1, InvHolds, PTL

(* However many calls and processes try to redeem a grant, and whenever    *)
(* they die, time out or are outlived by their worker, one of them at most *)
(* reaches the adapter.                                                    *)
THEOREM GrantsAreOneUse == Spec => []OneInvocation
<1>1. Inv => OneInvocation
  BY DEF Inv, GrantsUsedOnce, OneInvocation, UseOK
<1> QED BY <1>1, InvHolds, PTL

(* A trace that says an execution is over. *)
Final == \A i \in Intent :
           trace[i].status \in {"SUCCESS", "FAILED"} => trace'[i] = trace[i]

(* No step changes one: those that write a trace read it in the same       *)
(* transaction.                                                            *)
LEMMA FinalStep == ASSUME Inv, [Next]_vars PROVE Final
<1> USE DEF Final
<1>1. ASSUME NEW i \in Intent, Admit(i) PROVE Final
  <2>1. CASE Evaluate(i) \/ Deny(i)
    BY <2>1 DEF Evaluate, Deny
  <2>2. CASE Reserve(i)
    BY <2>2 DEF Reserve, Inv, TypeOK, GrantsUsedOnce
  <2> QED BY <1>1, <2>1, <2>2 DEF Admit
<1>2. ASSUME NEW r \in Run, Start(r) \/ Complete(r) \/ RecordFailure(r) PROVE Final
  <2>1. trace[run[r].intent].status \notin {"SUCCESS", "FAILED"}
    BY <1>2 DEF Start, Complete, RecordFailure, Follows
  <2>2. \A i \in Intent : i # run[r].intent => trace'[i] = trace[i]
    BY <1>2 DEF Start, Complete, RecordFailure, Inv, TypeOK
  <2> QED BY <2>1, <2>2
<1>3. ASSUME NEW r \in Run, OnlyRun PROVE Final
  BY <1>3 DEF OnlyRun
<1>4. ASSUME NEW r \in Run, MainStep(r) PROVE Final
  BY <1>2, <1>3, <1>4
  DEF MainStep, CheckPasses, CheckFails, Unlock, UnlockFails, Timeout, Revoke, RevokeFails,
      RecordFailureFails, RecordRejection, RecordRejectionFails, ReportOutcome, ReportFails
<1>5. ASSUME NEW r \in Run, WorkerStep(r) \/ AdapterStep(r) PROVE Final
  BY <1>2, <1>3, <1>5
  DEF WorkerStep, AdapterStep, StartFails, Revalidate, RevalidateFails, Confirm, ConfirmFails,
      PermitIssued, PermitReceived, PermitLate, PermitFails, CompleteFails, Finish,
      FinishFails, Effect, AdapterSucceeds, AdapterThrows, AdapterRefuses
<1>6. ASSUME NEW r \in Run, Begin(r) \/ BeginFails(r) PROVE Final
  BY <1>3, <1>6 DEF Begin, BeginFails
<1>7. CASE (\E S \in SUBSET Run : Crash(S)) \/ Tick \/ UNCHANGED vars
  BY <1>7 DEF Crash, OnlyRun, Tick, vars
<1> QED BY <1>1, <1>4, <1>5, <1>6, <1>7 DEF Next

(* A trace that says an execution is over never changes: a worker that     *)
(* outlives its call cannot turn FAILED into SUCCESS, nor the call that    *)
(* gave up SUCCESS into FAILED.                                            *)
THEOREM TracesAreFinal == Spec => TraceNeverReopens
<1>1. Inv /\ [Next]_vars => [Final]_vars
  BY FinalStep
<1> QED BY <1>1, InvHolds, PTL DEF Spec, TraceNeverReopens, Final

-----------------------------------------------------------------------------
(* What the answers of execute() mean, from the same invariant.            *)
Waiting == {"starting", "started", "confirming", "asking", "granted"}
Calling == {"calling", "completing", "finishing", "astray"}

(* A worker that has not called the adapter either has its call waiting    *)
(* for it or is too late for a permit; one that has, leaves a call that    *)
(* cannot be answered as if nothing happened.                              *)
Timely(s, now, end) ==
  /\ s.effected => s.invoked
  /\ s.work \in Waiting \cup {"off"} => ~s.invoked
  /\ s.work \in Calling => s.invoked
  /\ s.work \in Waiting => s.main = "racing" \/ now >= end
  /\ s.work = "granted" => s.permitEnd <= end
  /\ s.cause = "definitive" => s.work = "ended" /\ ~s.effected
  /\ s.result \in {"rejected", "failed"} =>
       s.main = "returned" /\ ~s.effected /\ s.work \notin Calling

AllTimely == \A r \in Run : Timely(run[r], clock, grantEnd[run[r].intent])

(* A success the worker reports happened, and is in the evidence once it   *)
(* is reported.                                                            *)
Honest(s, status) ==
  /\ s.work \in {"completing", "finishing"} => s.effected
  /\ s.work = "finishing" => status = "SUCCESS"
  /\ s.main = "revoking" /\ s.cause = "none" => s.effected /\ status = "SUCCESS"
  /\ s.result = "executed" => s.effected /\ status = "SUCCESS"

AllHonest ==
  /\ \A r \in Run : Honest(run[r], trace[run[r].intent].status)
  /\ \A i \in Intent :
       trace[i].status = "SUCCESS" => \E r \in Run : run[r].intent = i /\ run[r].effected

Outcomes == (Dispatch => AllTimely) /\ AllHonest

-----------------------------------------------------------------------------
(* What the end of a worker, the conclusion of execute() and its outer     *)
(* catch make of a call.                                                   *)
LEMMA EndedIs ==
  ASSUME NEW s \in RunState, NEW c \in {"none", "error", "definitive"}, s.main # "idle"
  PROVE  LET t == Ended(s, c) IN
         /\ t.work = "ended" /\ t.intent = s.intent
         /\ t.invoked = s.invoked /\ t.effected = s.effected /\ t.result = s.result
         /\ s.main = "racing" => t.main = "revoking" /\ t.cause = c
         /\ s.main # "racing" => t.main = s.main /\ t.cause = s.cause
BY DEF Ended, RunState

(* As EndedIs. *)
LEMMA ConcludedIs ==
  ASSUME NEW s \in RunState
  PROVE  /\ \A t \in {Concluded(s), Unrecorded(s)} :
              /\ t.main = "returned" /\ t.work = s.work /\ t.intent = s.intent
              /\ t.invoked = s.invoked /\ t.effected = s.effected /\ t.cause = s.cause
              /\ t.permitEnd = s.permitEnd
              /\ t.result \in {"failed", "rejected", "uncertain"}
              /\ t.result \in {"rejected", "failed"} => ~s.invoked \/ s.cause = "definitive"
<1> DEFINE a == IF s.invoked THEN IF s.cause = "definitive" THEN "failed" ELSE "uncertain"
                             ELSE IF s.started THEN "failed" ELSE "rejected"
           b == IF s.invoked THEN "uncertain" ELSE "rejected"
<1>1. \A x \in {a, b} : /\ x \in {"failed", "rejected", "uncertain"}
                        /\ x \in {"rejected", "failed"} => ~s.invoked \/ s.cause = "definitive"
  OBVIOUS
<1>2. /\ Concluded(s) = Returned(s, a)
      /\ Unrecorded(s) = Returned(s, b)
  BY Zenon DEF Concluded, Unrecorded, Returned
<1> HIDE DEF a, b
<1>3. \A x : LET t == Returned(s, x) IN
              /\ t.main = "returned" /\ t.work = s.work /\ t.intent = s.intent
              /\ t.invoked = s.invoked /\ t.effected = s.effected /\ t.cause = s.cause
              /\ t.permitEnd = s.permitEnd /\ t.result = x
  BY DEF Returned, RunState
<1> QED BY <1>1, <1>2, <1>3

(* As EndedIs. *)
LEMMA CaughtIs ==
  ASSUME NEW s \in RunState, NEW c \in {"none", "error", "definitive"}
  PROVE  LET t == Caught(s, c) IN
         /\ t.work = s.work /\ t.intent = s.intent /\ t.invoked = s.invoked
         /\ t.effected = s.effected /\ t.cause = c /\ t.permitEnd = s.permitEnd
         /\ t.main \in {"returned", "failing", "rejecting"}
         /\ t.main # "returned" => t.result = s.result
         /\ t.main = "returned" => t.result \in {"failed", "rejected", "uncertain"}
         /\ t.main = "returned" /\ t.result \in {"rejected", "failed"} =>
              ~s.invoked \/ c = "definitive"
<1> DEFINE u == [s EXCEPT !.cause = c]
<1>1. /\ u \in RunState /\ u.intent = s.intent /\ u.work = s.work /\ u.invoked = s.invoked
      /\ u.effected = s.effected /\ u.cause = c /\ u.permitEnd = s.permitEnd
  BY DEF RunState
<1>2. CASE s.started /\ s.invoked /\ s.succeeded
  <2>1. Caught(s, c) = Concluded(u)
    BY <1>2 DEF Caught
  <2> HIDE DEF u
  <2> QED BY <1>1, <2>1, ConcludedIs
<1>3. CASE ~(s.started /\ s.invoked /\ s.succeeded)
  <2>1. \E m \in {"failing", "rejecting"} : Caught(s, c) = [s EXCEPT !.cause = c, !.main = m]
    BY <1>3 DEF Caught
  <2> QED BY <2>1 DEF RunState
<1> QED BY <1>2, <1>3

(* What a step makes of a call is in order, and if it called the adapter,  *)
(* the grant was valid.                                                    *)
InTime(s, t, now, end) == Timely(t, now, end) /\ (t.invoked => s.invoked \/ now < end)

(* A step of one call: the others, the clock and the grants stay, a target *)
(* that was changed stays changed, and a success is recorded only then.    *)
Progress(r) ==
  LET s == run[r]
      t == run'[r]
  IN  /\ \A q \in Run \ {r} : run'[q] = run[q]
      /\ UNCHANGED <<clock, grantEnd, admission>>
      /\ t.intent = s.intent
      /\ s.effected => t.effected
      /\ Dispatch => InTime(s, t, clock, grantEnd[s.intent])
      /\ Honest(t, trace'[s.intent].status)
      /\ \A i \in Intent :
           \/ trace'[i].status # "SUCCESS" \/ trace[i].status = "SUCCESS"
           \/ i = s.intent /\ t.effected

(* A step that writes no trace is one if its call is left in order. *)
LEMMA QuietProgress ==
  ASSUME Inv, NEW r \in Run, NEW t, run' = [run EXCEPT ![r] = t], OnlyRun,
         t.intent = run[r].intent, run[r].effected => t.effected,
         Dispatch => InTime(run[r], t, clock, grantEnd[run[r].intent]),
         Honest(t, trace[run[r].intent].status)
  PROVE  Progress(r)
<1>1. run'[r] = t /\ \A q \in Run \ {r} : run'[q] = run[q]
  BY DEF Inv, TypeOK
<1> QED BY <1>1 DEF Progress, OnlyRun

(* So is one that records how the execution ended, if it did. *)
LEMMA RecordingProgress ==
  ASSUME Inv, NEW r \in Run, NEW t, run' = [run EXCEPT ![r] = t],
         UNCHANGED <<clock, grantEnd, admission>>, NEW end \in {"RUNNING", "SUCCESS", "FAILED"},
         trace' = [trace EXCEPT ![run[r].intent] = [status |-> end, at |-> clock]],
         t.intent = run[r].intent, run[r].effected => t.effected,
         end = "SUCCESS" => t.effected,
         Dispatch => InTime(run[r], t, clock, grantEnd[run[r].intent]),
         Honest(t, end)
  PROVE  Progress(r)
<1>1. run'[r] = t /\ \A q \in Run \ {r} : run'[q] = run[q]
  BY DEF Inv, TypeOK
<1>2. run[r].intent \in Intent
  BY DEF Inv, TypeOK, RunState
<1>3. \A i \in Intent : trace'[i] = IF i = run[r].intent THEN [status |-> end, at |-> clock]
                                                         ELSE trace[i]
  BY <1>2 DEF Inv, TypeOK
<1> QED BY <1>1, <1>2, <1>3 DEF Progress

(* The main line's steps are such steps. *)
LEMMA MainProgress == ASSUME Inv, Outcomes, NEW r \in Run, MainStep(r) PROVE Progress(r)
<1> DEFINE s == run[r]
           end == grantEnd[s.intent]
           status == trace[s.intent].status
<1>s. s \in RunState /\ UseOK(s)
  BY DEF Inv, TypeOK, GrantsUsedOnce
<1>o. (Dispatch => Timely(s, clock, end)) /\ Honest(s, status)
  BY DEF Outcomes, AllTimely, AllHonest
<1>q. ASSUME NEW t, run' = [run EXCEPT ![r] = t], OnlyRun, t.intent = s.intent,
             s.effected => t.effected, Dispatch => InTime(s, t, clock, end), Honest(t, status)
      PROVE  Progress(r)
  BY <1>q, QuietProgress
<1> HIDE DEF end, status
<1>1. CASE CheckPasses(r)
  <2> DEFINE t == [s EXCEPT !.main = "unlocking"]
  <2>1. /\ t.intent = s.intent /\ t.effected = s.effected
        /\ Dispatch => InTime(s, t, clock, end)
        /\ Honest(t, status)
    BY <1>1, <1>s, <1>o DEF CheckPasses, UseOK, Timely, InTime, Honest, RunState, Waiting, Calling
  <2>2. run' = [run EXCEPT ![r] = t]
    BY <1>1 DEF CheckPasses
  <2> QED BY <1>1, <1>q, <2>1, <2>2 DEF CheckPasses
<1>2. CASE Unlock(r)
  <2> DEFINE t == [s EXCEPT !.main = "racing", !.work = "starting"]
  <2>1. /\ t.intent = s.intent /\ t.effected = s.effected
        /\ Dispatch => InTime(s, t, clock, end)
        /\ Honest(t, status)
    BY <1>2, <1>s, <1>o DEF Unlock, UseOK, Timely, InTime, Honest, RunState, Waiting, Calling
  <2>2. run' = [run EXCEPT ![r] = t]
    BY <1>2 DEF Unlock
  <2> QED BY <1>2, <1>q, <2>1, <2>2 DEF Unlock
<1>3. CASE UnlockFails(r) \/ Timeout(r)
  <2> DEFINE t == [s EXCEPT !.main = "revoking", !.cause = "error"]
  <2>1. /\ t.intent = s.intent /\ t.effected = s.effected
        /\ Dispatch => InTime(s, t, clock, end)
        /\ Honest(t, status)
    BY <1>3, <1>s, <1>o
    DEF UnlockFails, Timeout, UseOK, Timely, InTime, Honest, RunState, Waiting, Calling, end
  <2>2. run' = [run EXCEPT ![r] = t]
    BY <1>3 DEF UnlockFails, Timeout
  <2> QED BY <1>3, <1>q, <2>1, <2>2 DEF UnlockFails, Timeout
<1>4. ASSUME NEW c \in {"none", "error", "definitive"}, c = "error" \/ c = s.cause,
             s.main \in {"checking", "revoking"}, s.work # "starting",
             run' = [run EXCEPT ![r] = Caught(s, c)], OnlyRun
      PROVE  Progress(r)
  <2> DEFINE t == Caught(s, c)
  <2>1. /\ t.work = s.work /\ t.intent = s.intent /\ t.invoked = s.invoked
        /\ t.effected = s.effected /\ t.cause = c /\ t.permitEnd = s.permitEnd
        /\ t.main \in {"returned", "failing", "rejecting"}
        /\ t.main # "returned" => t.result = s.result
        /\ t.main = "returned" => t.result \in {"failed", "rejected", "uncertain"}
        /\ t.main = "returned" /\ t.result \in {"rejected", "failed"} =>
             ~s.invoked \/ c = "definitive"
    BY <1>s, CaughtIs
  <2> HIDE DEF t
  <2>2. Dispatch => InTime(s, t, clock, end)
    BY <1>4, <1>s, <1>o, <2>1 DEF Timely, InTime, Waiting, Calling, UseOK
  <2>3. Honest(t, status)
    BY <1>4, <1>o, <2>1 DEF Honest
  <2> QED BY <1>4, <1>q, <2>1, <2>2, <2>3 DEF t
<1>5. CASE CheckFails(r) \/ RevokeFails(r)
  BY <1>5, <1>4, <1>s DEF CheckFails, RevokeFails, UseOK
<1>6. CASE Revoke(r)
  <2>1. CASE s.cause = "none"
    <3> DEFINE t == [s EXCEPT !.main = "returned", !.result = "executed"]
    <3>1. /\ t.intent = s.intent /\ t.effected = s.effected
          /\ Dispatch => InTime(s, t, clock, end)
          /\ Honest(t, status)
      BY <1>6, <2>1, <1>s, <1>o
      DEF Revoke, UseOK, Timely, InTime, Honest, RunState, Waiting, Calling
    <3>2. run' = [run EXCEPT ![r] = t]
      BY <1>6, <2>1 DEF Revoke
    <3> QED BY <1>6, <1>q, <3>1, <3>2 DEF Revoke
  <2>2. CASE s.cause # "none"
    <3>1. s.cause \in {"none", "error", "definitive"}
      BY <1>s DEF RunState
    <3>2. run' = [run EXCEPT ![r] = Caught(s, s.cause)]
      BY <1>6, <2>2 DEF Revoke
    <3> QED BY <1>6, <1>4, <3>1, <3>2 DEF Revoke
  <2> QED BY <2>1, <2>2
<1>7. ASSUME NEW u \in RunState, NEW t \in {Concluded(u), Unrecorded(u)},
             s.main \in {"failing", "rejecting", "reporting"},
             u.work = s.work, u.intent = s.intent, u.invoked = s.invoked,
             u.effected = s.effected, u.cause = s.cause, u.permitEnd = s.permitEnd
      PROVE  /\ t.intent = s.intent /\ t.effected = s.effected
             /\ Dispatch => InTime(s, t, clock, end)
             /\ \A x : (x = "SUCCESS" <=> status = "SUCCESS") => Honest(t, x)
             /\ s.work # "finishing" => \A x : Honest(t, x)
  <2>1. /\ t.main = "returned" /\ t.work = u.work /\ t.intent = u.intent
        /\ t.invoked = u.invoked /\ t.effected = u.effected /\ t.cause = u.cause
        /\ t.permitEnd = u.permitEnd
        /\ t.result \in {"failed", "rejected", "uncertain"}
        /\ t.result \in {"rejected", "failed"} => ~u.invoked \/ u.cause = "definitive"
    BY <1>7, ConcludedIs
  <2>2. Dispatch => InTime(s, t, clock, end)
    BY <1>7, <1>s, <1>o, <2>1 DEF Timely, InTime, Waiting, Calling, UseOK
  <2>3. /\ \A x : (x = "SUCCESS" <=> status = "SUCCESS") => Honest(t, x)
        /\ s.work # "finishing" => \A x : Honest(t, x)
    BY <1>7, <1>o, <2>1 DEF Honest
  <2> QED BY <1>7, <2>1, <2>2, <2>3
<1>8. CASE RecordFailureFails(r) \/ RecordRejectionFails(r) \/ ReportFails(r) \/ RecordRejection(r)
  <2>1. PICK t \in {Concluded(s), Unrecorded(s)} : run' = [run EXCEPT ![r] = t]
    BY <1>8 DEF RecordFailureFails, RecordRejectionFails, ReportFails, RecordRejection
  <2>2. s.main \in {"failing", "rejecting", "reporting"} /\ OnlyRun
    BY <1>8 DEF RecordFailureFails, RecordRejectionFails, ReportFails, RecordRejection
  <2> QED BY <1>q, <1>7, <1>s, <2>1, <2>2
<1>9. CASE ReportOutcome(r)
  <2> DEFINE u == [s EXCEPT !.permitOpen = FALSE]
  <2>1. /\ u \in RunState /\ u.work = s.work /\ u.intent = s.intent /\ u.invoked = s.invoked
        /\ u.effected = s.effected /\ u.cause = s.cause /\ u.permitEnd = s.permitEnd
    BY <1>s DEF RunState
  <2>2. run' = [run EXCEPT ![r] = Concluded(u)] /\ s.main = "reporting" /\ OnlyRun
    BY <1>9 DEF ReportOutcome
  <2> HIDE DEF u
  <2> QED BY <1>q, <1>7, <2>1, <2>2
<1>10. CASE RecordFailure(r)
  <2>1. s.main = "failing" /\ s.work # "finishing" /\ status # "SUCCESS"
    BY <1>10, <1>o DEF RecordFailure, Follows, Honest, status
  <2>2. PICK t : /\ run' = [run EXCEPT ![r] = t]
                 /\ t.intent = s.intent /\ t.effected = s.effected
                 /\ Dispatch => InTime(s, t, clock, end)
                 /\ Honest(t, "FAILED")
    <3>1. CASE s.permitOpen
      <4> DEFINE t == [s EXCEPT !.main = "reporting"]
      <4>1. run' = [run EXCEPT ![r] = t]
        BY <1>10, <3>1 DEF RecordFailure
      <4>2. /\ t.intent = s.intent /\ t.effected = s.effected
            /\ Dispatch => InTime(s, t, clock, end)
            /\ Honest(t, "FAILED")
        BY <2>1, <1>s, <1>o DEF Timely, InTime, Honest, RunState, Waiting, Calling
      <4> QED BY <4>1, <4>2
    <3>2. CASE ~s.permitOpen
      <4>1. run' = [run EXCEPT ![r] = Concluded(s)]
        BY <1>10, <3>2 DEF RecordFailure
      <4> QED BY <1>7, <1>s, <2>1, <4>1
    <3> QED BY <3>1, <3>2
  <2> QED BY <1>10, <2>2, RecordingProgress DEF RecordFailure, end
<1> QED
  BY <1>1, <1>2, <1>3, <1>5, <1>6, <1>8, <1>9, <1>10 DEF MainStep

(* So are the worker's and the adapter's. *)
LEMMA WorkerProgress ==
  ASSUME Inv, Outcomes, NEW r \in Run, WorkerStep(r) \/ AdapterStep(r) PROVE Progress(r)
<1> DEFINE s == run[r]
           end == grantEnd[s.intent]
           status == trace[s.intent].status
<1>s. s \in RunState /\ UseOK(s) /\ s.intent \in Intent
  BY DEF Inv, TypeOK, GrantsUsedOnce, RunState
<1>c. clock \in Nat /\ end \in Nat /\ s.permitEnd \in Nat
  BY <1>s, ConstantsAssumption DEF Inv, TypeOK, RunState
<1>o. (Dispatch => Timely(s, clock, end)) /\ Honest(s, status)
  BY DEF Outcomes, AllTimely, AllHonest
<1>q. ASSUME NEW t, run' = [run EXCEPT ![r] = t], OnlyRun, t.intent = s.intent,
             s.effected => t.effected, Dispatch => InTime(s, t, clock, end), Honest(t, status)
      PROVE  Progress(r)
  BY <1>q, QuietProgress
<1> HIDE DEF end, status
<1>e. ASSUME NEW u \in RunState, NEW c \in {"none", "error", "definitive"},
             s.work \in Waiting \cup {"calling", "completing", "finishing"},
             u.main = s.main, u.work = s.work, u.intent = s.intent, u.invoked = s.invoked,
             u.effected = s.effected, u.cause = s.cause, u.result = s.result
      PROVE  LET t == Ended(u, c) IN
             /\ t.intent = s.intent /\ t.effected = s.effected
             /\ c # "definitive" \/ ~s.effected => (Dispatch => InTime(s, t, clock, end))
             /\ c # "none" => Honest(t, status)
             /\ s.effected => Honest(t, "SUCCESS")
  <2> DEFINE t == Ended(u, c)
  <2>1. s.main # "idle" /\ s.work \notin {"off", "ended", "astray"}
    BY <1>s, <1>e DEF UseOK, Waiting
  <2>2. /\ t.work = "ended" /\ t.intent = s.intent
        /\ t.invoked = s.invoked /\ t.effected = s.effected /\ t.result = s.result
        /\ s.main = "racing" => t.main = "revoking" /\ t.cause = c
        /\ s.main # "racing" => t.main = s.main /\ t.cause = s.cause
    BY <1>e, <2>1, EndedIs
  <2> HIDE DEF t
  <2>3. c # "definitive" \/ ~s.effected => (Dispatch => InTime(s, t, clock, end))
    BY <1>o, <2>1, <2>2 DEF Timely, InTime, Waiting, Calling
  <2>4. (c # "none" => Honest(t, status)) /\ (s.effected => Honest(t, "SUCCESS"))
    BY <1>o, <2>2 DEF Honest
  <2> QED BY <2>2, <2>3, <2>4 DEF t
<1>1. CASE StartFails(r) \/ RevalidateFails(r) \/ ConfirmFails(r) \/ PermitFails(r)
            \/ CompleteFails(r) \/ FinishFails(r)
  <2>1. /\ run' = [run EXCEPT ![r] = Ended(s, "error")] /\ OnlyRun
        /\ s.work \in Waiting \cup {"calling", "completing", "finishing"}
    BY <1>1 DEF StartFails, RevalidateFails, ConfirmFails, PermitFails, CompleteFails,
                FinishFails, Waiting
  <2> QED BY <2>1, <1>e, <1>q, <1>s
<1>2. CASE Start(r)
  <2> DEFINE t == [s EXCEPT !.work = "started", !.started = TRUE]
  <2>1. /\ t.intent = s.intent /\ t.effected = s.effected
        /\ Dispatch => InTime(s, t, clock, end)
        /\ Honest(t, "RUNNING")
    BY <1>2, <1>s, <1>o DEF Start, Timely, InTime, Honest, RunState, Waiting, Calling, status
  <2>2. run' = [run EXCEPT ![r] = t]
    BY <1>2 DEF Start
  <2> HIDE DEF t
  <2> QED BY <1>2, <2>1, <2>2, RecordingProgress DEF Start, end
<1>3. CASE Revalidate(r)
  <2> DEFINE t == [s EXCEPT !.work = "confirming"]
  <2>1. /\ t.intent = s.intent /\ (s.effected => t.effected)
        /\ Dispatch => InTime(s, t, clock, end)
        /\ Honest(t, status)
    BY <1>3, <1>s, <1>o DEF Revalidate, UseOK, Timely, InTime, Honest, RunState, Waiting, Calling
  <2>2. run' = [run EXCEPT ![r] = t] /\ OnlyRun
    BY <1>3 DEF Revalidate
  <2> HIDE DEF t
  <2> QED BY <1>q, <2>1, <2>2
<1>4. CASE Confirm(r)
  <2> DEFINE t == IF Dispatch THEN [s EXCEPT !.work = "asking"]
                              ELSE [s EXCEPT !.work = "calling", !.invoked = TRUE]
  <2>1. /\ t.intent = s.intent /\ t.effected = s.effected
        /\ Dispatch => InTime(s, t, clock, end)
        /\ Honest(t, status)
    BY <1>4, <1>s, <1>o DEF Confirm, Timely, InTime, Honest, RunState, Waiting, Calling
  <2>2. run' = [run EXCEPT ![r] = t]
    BY <1>4 DEF Confirm
  <2> HIDE DEF t
  <2> QED BY <1>4, <1>q, <2>1, <2>2 DEF Confirm
<1>5. CASE PermitIssued(r)
  <2> DEFINE until == Min2(end, clock + PermitTtl)
             t == [s EXCEPT !.work = "granted", !.permitEnd = until]
  <2>1. until <= end
    BY <1>c, ConstantsAssumption DEF Min2
  <2>2. run' = [run EXCEPT ![r] = t]
    BY <1>5 DEF PermitIssued, end
  <2> HIDE DEF until
  <2>3. /\ t.intent = s.intent /\ t.effected = s.effected
        /\ Dispatch => InTime(s, t, clock, end)
        /\ Honest(t, status)
    BY <1>5, <1>s, <1>o, <2>1
    DEF PermitIssued, Timely, InTime, Honest, RunState, Waiting, Calling
  <2> QED BY <1>5, <1>q, <2>2, <2>3 DEF PermitIssued
<1>6. CASE PermitReceived(r)
  <2> DEFINE t == [s EXCEPT !.work = "calling", !.invoked = TRUE, !.permitOpen = TRUE]
  <2>1. s.work = "granted" /\ (Dispatch => s.main = "racing" /\ clock < end)
    BY <1>6, <1>c, <1>o DEF PermitReceived, Timely, InTime, Waiting
  <2>2. /\ t.intent = s.intent /\ t.effected = s.effected
        /\ Dispatch => InTime(s, t, clock, end)
        /\ Honest(t, status)
    BY <2>1, <1>s, <1>o DEF Timely, InTime, Honest, RunState, Waiting, Calling
  <2>3. run' = [run EXCEPT ![r] = t]
    BY <1>6 DEF PermitReceived
  <2> QED BY <1>6, <1>q, <2>2, <2>3 DEF PermitReceived
<1>7. CASE PermitLate(r) \/ Finish(r)
  <2>1. ASSUME NEW b \in BOOLEAN
        PROVE  LET u == [s EXCEPT !.permitOpen = b] IN
               /\ u \in RunState
               /\ u.main = s.main /\ u.work = s.work /\ u.intent = s.intent
               /\ u.invoked = s.invoked /\ u.effected = s.effected
               /\ u.cause = s.cause /\ u.result = s.result
    BY <1>s DEF RunState
  <2>2. CASE PermitLate(r)
    <3> DEFINE u == [s EXCEPT !.permitOpen = TRUE]
    <3>1. run' = [run EXCEPT ![r] = Ended(u, "error")] /\ s.work \in Waiting /\ OnlyRun
      BY <2>2 DEF PermitLate, Waiting
    <3> HIDE DEF u
    <3> QED BY <3>1, <2>1, <1>e, <1>q DEF u
  <2>3. CASE Finish(r)
    <3> DEFINE u == [s EXCEPT !.permitOpen = FALSE]
    <3>1. run' = [run EXCEPT ![r] = Ended(u, "none")] /\ s.work = "finishing" /\ OnlyRun
      BY <2>3 DEF Finish
    <3>2. s.effected /\ status = "SUCCESS"
      BY <3>1, <1>o DEF Honest
    <3> HIDE DEF u
    <3> QED BY <3>1, <3>2, <2>1, <1>e, <1>q DEF u
  <2> QED BY <1>7, <2>2, <2>3
<1>8. CASE Complete(r)
  <2>1. s.work = "completing" /\ s.effected
    BY <1>8, <1>o DEF Complete, Honest
  <2>2. PICK t : /\ run' = [run EXCEPT ![r] = t]
                 /\ t.intent = s.intent /\ t.effected = s.effected
                 /\ Dispatch => InTime(s, t, clock, end)
                 /\ Honest(t, "SUCCESS")
    <3>1. CASE s.permitOpen
      <4> DEFINE t == [s EXCEPT !.work = "finishing"]
      <4>1. run' = [run EXCEPT ![r] = t]
        BY <1>8, <3>1 DEF Complete
      <4>2. /\ t.intent = s.intent /\ t.effected = s.effected
            /\ Dispatch => InTime(s, t, clock, end)
            /\ Honest(t, "SUCCESS")
        BY <2>1, <1>s, <1>o DEF Timely, InTime, Honest, RunState, Waiting, Calling
      <4> QED BY <4>1, <4>2
    <3>2. CASE ~s.permitOpen
      <4>1. run' = [run EXCEPT ![r] = Ended(s, "none")]
        BY <1>8, <3>2 DEF Complete
      <4> QED BY <4>1, <2>1, <1>e, <1>s
    <3> QED BY <3>1, <3>2
  <2> QED BY <1>8, <2>1, <2>2, RecordingProgress DEF Complete, end
<1>9. CASE Effect(r)
  <2> DEFINE t == [s EXCEPT !.effected = TRUE]
  <2>1. /\ t.intent = s.intent /\ (s.effected => t.effected)
        /\ Dispatch => InTime(s, t, clock, end)
        /\ Honest(t, status)
    BY <1>9, <1>s, <1>o DEF Effect, UseOK, Timely, InTime, Honest, RunState, Waiting, Calling
  <2>2. run' = [run EXCEPT ![r] = t] /\ OnlyRun
    BY <1>9 DEF Effect
  <2> HIDE DEF t
  <2> QED BY <1>q, <2>1, <2>2
<1>10. CASE AdapterSucceeds(r)
  <2> DEFINE t == [s EXCEPT !.work = "completing", !.succeeded = TRUE]
  <2>1. /\ t.intent = s.intent /\ (s.effected => t.effected)
        /\ Dispatch => InTime(s, t, clock, end)
        /\ Honest(t, status)
    BY <1>10, <1>s, <1>o DEF AdapterSucceeds, UseOK, Timely, InTime, Honest, RunState, Waiting, Calling
  <2>2. run' = [run EXCEPT ![r] = t] /\ OnlyRun
    BY <1>10 DEF AdapterSucceeds
  <2> HIDE DEF t
  <2> QED BY <1>q, <2>1, <2>2
<1>11. CASE AdapterRefuses(r)
  <2>1. /\ run' = [run EXCEPT ![r] = Ended(s, "definitive")] /\ OnlyRun
        /\ s.work = "calling" /\ ~s.effected
    BY <1>11 DEF AdapterRefuses
  <2> QED BY <2>1, <1>e, <1>q, <1>s
<1>12. CASE AdapterThrows(r)
  <2> DEFINE e == Ended(s, "error")
             t == [e EXCEPT !.work = "astray"]
  <2>1. run' = [run EXCEPT ![r] = t] /\ OnlyRun /\ s.work = "calling" /\ s.main # "idle"
    BY <1>12, <1>s DEF AdapterThrows, UseOK
  <2>2. /\ e \in RunState /\ e.intent = s.intent
        /\ e.invoked = s.invoked /\ e.effected = s.effected /\ e.result = s.result
        /\ s.main = "racing" => e.main = "revoking" /\ e.cause = "error"
        /\ s.main # "racing" => e.main = s.main /\ e.cause = s.cause
    BY <1>s, <2>1, EndedIs, EndedKeeps DEF Keeps
  <2> HIDE DEF e
  <2>3. /\ t.work = "astray" /\ t.intent = e.intent /\ t.invoked = e.invoked
        /\ t.effected = e.effected /\ t.result = e.result /\ t.main = e.main
        /\ t.cause = e.cause
    BY <2>2 DEF RunState
  <2> HIDE DEF t
  <2>4. (Dispatch => InTime(s, t, clock, end)) /\ Honest(t, status)
    BY <2>1, <2>2, <2>3, <1>o DEF Timely, InTime, Honest, Waiting, Calling
  <2> QED BY <1>q, <2>1, <2>2, <2>3, <2>4
<1> QED
  BY <1>1, <1>2, <1>3, <1>4, <1>5, <1>6, <1>7, <1>8, <1>9, <1>10, <1>11, <1>12
  DEF WorkerStep, AdapterStep

(* So is the start of a call. *)
LEMMA BeginProgress ==
  ASSUME Inv, Outcomes, NEW r \in Run, Begin(r) \/ BeginFails(r) PROVE Progress(r)
<1> DEFINE s == run[r]
           begun == [s EXCEPT !.main = "checking"]
           refused == [s EXCEPT !.main = "returned", !.result = "rejected"]
           end == grantEnd[s.intent]
           status == trace[s.intent].status
<1>s. s \in RunState /\ UseOK(s)
  BY DEF Inv, TypeOK, GrantsUsedOnce
<1>o. (Dispatch => Timely(s, clock, end)) /\ Honest(s, status)
  BY DEF Outcomes, AllTimely, AllHonest
<1>i. s.work = "off" /\ ~s.started /\ ~s.invoked /\ s.main = "idle" /\ OnlyRun
  BY <1>s DEF Begin, BeginFails, UseOK
<1>e. Dispatch => ~s.effected
  BY <1>o, <1>i DEF Timely
<1>1. PICK t \in {begun, refused} : run' = [run EXCEPT ![r] = t]
  BY DEF Begin, BeginFails
<1>2. /\ t.intent = s.intent /\ t.effected = s.effected
      /\ Dispatch => InTime(s, t, clock, end)
      /\ Honest(t, status)
  <2> HIDE DEF end, status
  <2> QED BY <1>1, <1>s, <1>o, <1>i, <1>e DEF Timely, InTime, Honest, RunState, Waiting, Calling
<1> QED BY <1>1, <1>2, <1>i, QuietProgress

(* A dead process leaves its calls in order. *)
LEMMA KilledIs ==
  ASSUME NEW s \in RunState, NEW now, NEW end, NEW status
  PROVE  LET t == Killed(s) IN
         /\ t.intent = s.intent /\ t.effected = s.effected
         /\ Timely(s, now, end) => Timely(t, now, end)
         /\ Honest(s, status) => Honest(t, status)
<1>1. CASE s.main \in {"idle", "dead"}
  BY <1>1 DEF Killed
<1>2. CASE s.main \notin {"idle", "dead"}
  <2> DEFINE m == IF s.main = "returned" THEN s.main ELSE "dead"
             w == CASE s.work \in {"calling", "astray"} -> "astray"
                    [] s.work = "off" -> "off"
                    [] OTHER -> "ended"
             t == [s EXCEPT !.main = m, !.work = w]
  <2>1. Killed(s) = t
    BY <1>2 DEF Killed
  <2>2. /\ m \in {"returned", "dead"} /\ (s.main = "returned" => m = "returned")
        /\ w \in {"astray", "off", "ended"}
        /\ (w = "astray" <=> s.work \in {"calling", "astray"}) /\ (w = "off" <=> s.work = "off")
    OBVIOUS
  <2> HIDE DEF m, w
  <2>3. /\ t.main = m /\ t.work = w /\ t.intent = s.intent /\ t.invoked = s.invoked
        /\ t.effected = s.effected /\ t.cause = s.cause /\ t.result = s.result
    BY DEF RunState
  <2> QED BY <2>1, <2>2, <2>3 DEF Timely, Honest, Waiting, Calling
<1> QED BY <1>1, <1>2

(* Every step keeps what the answers mean. *)
LEMMA OutcomesKept == ASSUME Inv, Outcomes, [Next]_vars PROVE Outcomes'
<1>n. \A r \in Run : run[r] \in RunState /\ run[r].intent \in Intent
  BY DEF Inv, TypeOK, RunState
<1>f. \A i \in Intent : trace[i].status = "SUCCESS" => trace'[i].status = "SUCCESS"
  BY FinalStep DEF Final
<1>1. ASSUME NEW r \in Run, Progress(r) PROVE Outcomes'
  <2>1. Dispatch => AllTimely'
    BY <1>1 DEF Progress, Outcomes, AllTimely, InTime
  <2>2. \A q \in Run : Honest(run'[q], trace'[run'[q].intent].status)
    <3>1. ASSUME NEW q \in Run \ {r} PROVE Honest(run'[q], trace'[run'[q].intent].status)
      BY <1>1, <1>n, <1>f DEF Progress, Outcomes, AllHonest, Honest
    <3> QED BY <1>1, <3>1 DEF Progress
  <2>3. ASSUME NEW i \in Intent, trace'[i].status = "SUCCESS"
        PROVE  \E q \in Run : run'[q].intent = i /\ run'[q].effected
    <3>1. CASE i = run[r].intent /\ run'[r].effected
      BY <1>1, <3>1 DEF Progress
    <3>2. CASE trace[i].status = "SUCCESS"
      <4>1. PICK q \in Run : run[q].intent = i /\ run[q].effected
        BY <3>2 DEF Outcomes, AllHonest
      <4> QED BY <1>1, <4>1 DEF Progress
    <3> QED BY <1>1, <2>3, <3>1, <3>2 DEF Progress
  <2> QED BY <2>1, <2>2, <2>3 DEF Outcomes, AllHonest
<1>2. ASSUME NEW i \in Intent, Admit(i) PROVE Outcomes'
  <2>1. UNCHANGED <<clock, run>> /\ \A j \in Intent : trace'[j].status # trace[j].status
                                         => trace'[j].status = "RESERVED"
    BY <1>2 DEF Admit, Evaluate, Reserve, Deny, Inv, TypeOK
  <2>2. \A r \in Run : grantEnd'[run[r].intent] = grantEnd[run[r].intent] \/ run[r].main = "idle"
    BY <1>2, <1>n DEF Admit, Evaluate, Reserve, Deny, Inv, TypeOK, GrantsUsedOnce
  <2>3. \A r \in Run : run[r].main = "idle" => run[r].work = "off"
    BY DEF Inv, GrantsUsedOnce, UseOK
  <2>4. Dispatch => AllTimely'
    BY <2>1, <2>2, <2>3 DEF Outcomes, AllTimely, Timely, Waiting
  <2>5. AllHonest'
    BY <1>n, <1>f, <2>1 DEF Outcomes, AllHonest, Honest
  <2> QED BY <2>4, <2>5 DEF Outcomes
<1>3. ASSUME NEW S \in SUBSET Run, Crash(S) PROVE Outcomes'
  <2>1. \A r \in Run : run'[r] \in {run[r], Killed(run[r])}
    BY <1>3 DEF Crash
  <2>2. UNCHANGED <<clock, trace, grantEnd>>
    BY <1>3 DEF Crash, OnlyRun
  <2>3. Dispatch => AllTimely'
    BY <1>n, <2>1, <2>2, KilledIs DEF Outcomes, AllTimely
  <2>4. \A r \in Run : run'[r].intent = run[r].intent /\ run'[r].effected = run[r].effected
    BY <1>n, <2>1, KilledIs
  <2>5. AllHonest'
    BY <1>n, <2>1, <2>2, <2>4, KilledIs DEF Outcomes, AllHonest
  <2> QED BY <2>3, <2>5 DEF Outcomes
<1>4. CASE Tick
  <2>1. clock \in Nat /\ clock' = clock + 1 /\ UNCHANGED <<trace, grantEnd, run>>
    BY <1>4, ConstantsAssumption DEF Tick, Inv, TypeOK
  <2>2. \A r \in Run : grantEnd[run[r].intent] \in Nat
    BY <1>n, ConstantsAssumption DEF Inv, TypeOK
  <2>3. \A r \in Run : clock >= grantEnd[run[r].intent] => clock + 1 >= grantEnd[run[r].intent]
    BY <2>1, <2>2
  <2>4. Dispatch => AllTimely'
    BY <2>1, <2>3 DEF Outcomes, AllTimely, Timely
  <2> QED BY <2>1, <2>4 DEF Outcomes, AllHonest
<1>5. CASE UNCHANGED vars
  BY <1>5 DEF vars, Outcomes, AllTimely, AllHonest
<1> QED
  BY <1>1, <1>2, <1>3, <1>4, <1>5, MainProgress, WorkerProgress, BeginProgress DEF Next

(* Both invariants hold in every reachable state. *)
LEMMA OutcomesHold == Spec => [](Inv /\ Outcomes)
<1>1. Init => Outcomes
  <2> SUFFICES ASSUME Init PROVE Outcomes
    OBVIOUS
  <2>1. \A i \in Intent : /\ \A now, end : Timely(Idle(i), now, end)
                          /\ \A status : Honest(Idle(i), status)
    BY DEF Idle, Timely, Honest, Waiting, Calling
  <2>2. \A r \in Run : /\ \A now, end : Timely(run[r], now, end)
                       /\ \A status : Honest(run[r], status)
    BY <2>1 DEF Init
  <2>3. \A i \in Intent : trace[i].status # "SUCCESS"
    BY DEF Init, NoTrace
  <2> QED BY <2>2, <2>3 DEF Outcomes, AllTimely, AllHonest
<1>2. Inv /\ Outcomes /\ [Next]_vars => Outcomes'
  BY OutcomesKept
<1> QED BY <1>1, <1>2, InvHolds, PTL DEF Spec

-----------------------------------------------------------------------------
(* With a dispatch authority the adapter is called only while the grant is *)
(* valid, however slow the store, the controller and the process are.      *)
THEOREM NeverCalledLate == ASSUME Dispatch PROVE Spec => CalledInTime
<1> DEFINE InTimeStep == \A r \in Run : ~run[r].invoked /\ run'[r].invoked
                                          => clock < grantEnd[run[r].intent]
<1>1. Inv /\ Outcomes /\ [Next]_vars => [InTimeStep]_vars
  <2> SUFFICES ASSUME Inv, Outcomes, [Next]_vars PROVE InTimeStep
    OBVIOUS
  <2>1. ASSUME NEW r \in Run, Progress(r) PROVE InTimeStep
    BY <2>1 DEF Progress, InTime
  <2>2. ASSUME NEW S \in SUBSET Run, Crash(S) PROVE InTimeStep
    <3>1. ASSUME NEW s \in RunState PROVE Killed(s).invoked = s.invoked
      BY <3>1 DEF Killed, RunState
    <3> QED BY <2>2, <3>1 DEF Crash, Inv, TypeOK
  <2>3. CASE UNCHANGED run
    BY <2>3
  <2>4. ASSUME NEW i \in Intent, Admit(i) PROVE UNCHANGED run
    BY <2>4 DEF Admit, Evaluate, Reserve, Deny
  <2> QED
    BY <2>1, <2>2, <2>3, <2>4, MainProgress, WorkerProgress, BeginProgress DEF Next, Tick, vars
<1> QED BY <1>1, OutcomesHold, PTL DEF Spec, CalledInTime

(* With a dispatch authority a call that was answered "rejected" or        *)
(* "failed" did not touch the target and never will: its worker may        *)
(* outlive the answer but no longer gets a permit.                         *)
THEOREM RefusalsAreFinal == ASSUME Dispatch PROVE Spec => []RefusalIsFinal
<1>1. Inv /\ Outcomes => RefusalIsFinal
  BY DEF Outcomes, AllTimely, Timely, RefusalIsFinal
<1> QED BY <1>1, OutcomesHold, PTL

(* "executed" is answered only of a target that was changed and whose      *)
(* evidence says so; the evidence says so of no other.                     *)
THEOREM SuccessIsReal == Spec => []ExecutedIsRecorded
<1>1. Inv /\ Outcomes => ExecutedIsRecorded
  BY DEF Outcomes, AllHonest, Honest, ExecutedIsRecorded
<1> QED BY <1>1, OutcomesHold, PTL

-----------------------------------------------------------------------------
(* A step that adds no proposal to those that use up the budget.           *)
LEMMA QuotaKept ==
  ASSUME Inv, QuotaHolds,
         \A i \in Intent : Counts(trace'[i], clock', Window) => Counts(trace[i], clock, Window),
         DOMAIN trace' = Intent
  PROVE  QuotaHolds'
<1> DEFINE U == Used(trace, clock, Window)
           V == Used(trace', clock', Window)
<1>1. V \subseteq U /\ U \subseteq Intent
  BY DEF Used, Inv, TypeOK
<1>2. IsFiniteSet(U)
  BY <1>1, FS_Subset, ConstantsAssumption
<1>3. IsFiniteSet(V) /\ Cardinality(V) <= Cardinality(U)
  BY <1>1, <1>2, FS_Subset
<1>4. Cardinality(V) \in Nat /\ Cardinality(U) \in Nat
  BY <1>2, <1>3, FS_CardinalityType
<1>5. Cardinality(U) <= Limit
  BY DEF QuotaHolds
<1> HIDE DEF U, V
<1>6. Cardinality(V) <= Limit
  BY <1>3, <1>4, <1>5, ConstantsAssumption
<1> QED BY <1>6 DEF QuotaHolds, V

(* A reservation is made inside the limit it was decided against.          *)
LEMMA ReservationKeepsQuota == ASSUME Inv, NEW i \in Intent, Reserve(i) PROVE QuotaHolds'
<1> DEFINE U == Used(trace, clock, Window) \ {i}
           V == Used(trace', clock', Window)
<1>1. trace' \in [Intent -> TraceRecord] /\ UNCHANGED clock
        /\ \A j \in Intent \ {i} : trace'[j] = trace[j]
  <2>1. [status |-> "RESERVED", at |-> clock] \in TraceRecord
    BY ConstantsAssumption DEF Inv, TypeOK, TraceRecord, TraceStatus
  <2> QED BY <2>1 DEF Reserve, Inv, TypeOK
<1>2. U \subseteq Intent /\ V \subseteq U \cup {i}
  BY <1>1 DEF Used, Inv, TypeOK
<1>3. IsFiniteSet(U)
  BY <1>2, FS_Subset, ConstantsAssumption
<1>4. i \notin U /\ Cardinality(U) + 1 <= Limit
  BY DEF Reserve, WithinLimit
<1> HIDE DEF U, V
<1>5. IsFiniteSet(U \cup {i}) /\ Cardinality(U \cup {i}) = Cardinality(U) + 1
  BY <1>3, <1>4, FS_AddElement
<1>6. IsFiniteSet(V) /\ Cardinality(V) <= Cardinality(U \cup {i})
  BY <1>2, <1>5, FS_Subset
<1>7. Cardinality(V) \in Nat /\ Cardinality(U) \in Nat
  BY <1>3, <1>6, FS_CardinalityType
<1>8. Cardinality(V) <= Limit
  BY <1>4, <1>5, <1>6, <1>7, ConstantsAssumption
<1> QED BY <1>8 DEF QuotaHolds, V

(* However admissions race, successes in the window and open reservations  *)
(* together never exceed the rate limit.                                   *)
THEOREM QuotaIsNeverOverspent == Spec => []QuotaHolds
<1>1. Init => QuotaHolds
  <2> SUFFICES ASSUME Init PROVE QuotaHolds
    OBVIOUS
  <2>1. Used(trace, clock, Window) = {}
    BY DEF Init, Used, Counts, NoTrace
  <2> QED BY <2>1, FS_EmptySet, ConstantsAssumption DEF QuotaHolds
<1>2. Inv /\ QuotaHolds /\ [Next]_vars => QuotaHolds'
  <2> SUFFICES ASSUME Inv, QuotaHolds, [Next]_vars PROVE QuotaHolds'
    OBVIOUS
  <2>d. DOMAIN trace = Intent
    BY DEF Inv, TypeOK
  <2>1. ASSUME UNCHANGED <<clock, trace>> PROVE QuotaHolds'
    BY <2>1 DEF QuotaHolds
  <2>2. CASE Tick
    <3>1. \A i \in Intent : trace[i].at \in Nat
      BY DEF Inv, TypeOK, TraceRecord
    <3>2. clock \in Nat /\ clock' = clock + 1 /\ UNCHANGED trace
      BY <2>2, ConstantsAssumption DEF Tick, Inv, TypeOK
    <3>3. \A i \in Intent : trace[i].at + Window > clock + 1 => trace[i].at + Window > clock
      BY <3>1, <3>2, ConstantsAssumption
    <3> QED BY <2>d, <3>2, <3>3, QuotaKept DEF Counts
  <2>3. ASSUME NEW r \in Run, Start(r) \/ Complete(r) \/ RecordFailure(r) PROVE QuotaHolds'
    <3>1. run[r].intent \in Intent
      BY DEF Inv, TypeOK, RunState
    <3>2. trace[run[r].intent].status \in {"RESERVED", "RUNNING"} \/ RecordFailure(r)
      BY <2>3 DEF Start, Complete, Follows, Inv, GrantsUsedOnce, UseOK
    <3>3. ~Counts([status |-> "FAILED", at |-> clock], clock, Window)
      BY DEF Counts
    <3>4. PICK end \in {"RUNNING", "SUCCESS", "FAILED"} :
            /\ trace' = [trace EXCEPT ![run[r].intent] = [status |-> end, at |-> clock]]
            /\ end = "FAILED" \/ ~RecordFailure(r)
            /\ UNCHANGED clock
      BY <2>3 DEF Start, Complete, RecordFailure
    <3>5. \A i \in Intent :
            \/ trace'[i] = trace[i]
            \/ i = run[r].intent /\ trace'[i] = [status |-> end, at |-> clock]
      BY <2>d, <3>1, <3>4 DEF Inv, TypeOK
    <3>6. \A i \in Intent : Counts(trace'[i], clock', Window) => Counts(trace[i], clock, Window)
      BY <3>2, <3>3, <3>4, <3>5 DEF Counts
    <3> QED BY <2>d, <3>4, <3>6, QuotaKept
  <2>4. ASSUME NEW r \in Run, MainStep(r) PROVE QuotaHolds'
    BY <2>1, <2>3, <2>4
    DEF MainStep, CheckPasses, CheckFails, Unlock, UnlockFails, Timeout, Revoke, RevokeFails,
        RecordFailureFails, RecordRejection, RecordRejectionFails, ReportOutcome, ReportFails,
        OnlyRun
  <2>5. ASSUME NEW r \in Run, WorkerStep(r) \/ AdapterStep(r) PROVE QuotaHolds'
    BY <2>1, <2>3, <2>5
    DEF WorkerStep, AdapterStep, StartFails, Revalidate, RevalidateFails, Confirm, ConfirmFails,
        PermitIssued, PermitReceived, PermitLate, PermitFails, CompleteFails, Finish,
        FinishFails, Effect, AdapterSucceeds, AdapterThrows, AdapterRefuses, OnlyRun
  <2>6. ASSUME NEW i \in Intent, Admit(i) PROVE QuotaHolds'
    BY <2>1, <2>6, ReservationKeepsQuota DEF Admit, Evaluate, Deny
  <2>7. ASSUME NEW r \in Run, Begin(r) \/ BeginFails(r) PROVE QuotaHolds'
    BY <2>1, <2>7 DEF Begin, BeginFails, OnlyRun
  <2>8. CASE (\E S \in SUBSET Run : Crash(S)) \/ UNCHANGED vars
    BY <2>1, <2>8 DEF Crash, OnlyRun, vars
  <2> QED BY <2>2, <2>4, <2>5, <2>6, <2>7, <2>8 DEF Next
<1> QED BY <1>1, <1>2, InvHolds, PTL DEF Spec
=============================================================================
