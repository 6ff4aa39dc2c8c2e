-------------------------- MODULE ExecutionGateway --------------------------
(***************************************************************************)
(* Admission and redemption in the MCP execution gateway: admit() and      *)
(* execute() of src/gateway/Gateway.ts with the parts they call            *)
(* (IdentityManager.withIdentity, TemporalGovernance.reserve, the SQLite   *)
(* evidence store).  A redemption is two activities that race: the main    *)
(* line of execute(), which gives up when the grant's time is over, and    *)
(* the worker it started in withIdentity, which nobody stops then.  Each   *)
(* action is one stretch of one of them between two awaits.                *)
(*                                                                         *)
(* Policy revision and target state are compared for equality only, and    *)
(* may change at any moment: a check of either passes or fails freely.     *)
(***************************************************************************)
EXTENDS ExecutionTrace

CONSTANTS
  Intent,            \* admitted proposals
  Run,               \* execute() calls, in any number of gateway processes
  Limit,             \* maxCount of the rate limit
  Window,            \* windowMs of the rate limit
  GrantTtl,          \* contractTtlMs
  PermitTtl,         \* longest life of a dispatch permit
  Dispatch,          \* is there a dispatch authority (controller)?
  EvidenceMayFail,   \* may reads and writes of the evidence store fail?
  MaxClock           \* bounds time

ASSUME ConstantsAssumption ==
  /\ IsFiniteSet(Intent)
  /\ Limit \in Nat /\ Window \in Nat /\ MaxClock \in Nat
  /\ GrantTtl \in Nat \ {0} /\ PermitTtl \in Nat \ {0}
  /\ Dispatch \in BOOLEAN /\ EvidenceMayFail \in BOOLEAN

VARIABLES
  clock,
  trace,             \* the evidence store's trace of each proposal
  grantEnd,          \* notAfter of its grant
  admission,         \* where its admit() call is
  run                \* the state of each execute() call

vars == <<clock, trace, grantEnd, admission, run>>

(* "started", "invoked" and "succeeded" are the flags execute() shares     *)
(* with its worker; "cause" is the error it caught.  "effected" is not in  *)
(* the code: the target really was terminated.  A worker is "astray" when  *)
(* its call went out and nobody knows what became of it.                   *)
RunState ==
  [intent: Intent,
   main: {"idle", "checking", "unlocking", "racing", "revoking",
          "failing", "rejecting", "reporting", "returned", "dead"},
   work: {"off", "starting", "started", "confirming", "asking", "granted",
          "calling", "completing", "finishing", "ended", "astray"},
   started: BOOLEAN, invoked: BOOLEAN, succeeded: BOOLEAN, effected: BOOLEAN,
   permitEnd: 0..MaxClock, permitOpen: BOOLEAN,
   cause: {"none", "error", "definitive"},
   result: {"none", "executed", "failed", "rejected", "uncertain"}]

(* A call, yet to be made, with proposal i's grant. *)
Idle(i) ==
  [intent |-> i, main |-> "idle", work |-> "off",
   started |-> FALSE, invoked |-> FALSE, succeeded |-> FALSE, effected |-> FALSE,
   permitEnd |-> 0, permitOpen |-> FALSE, cause |-> "none", result |-> "none"]

Min2(a, b) == IF a < b THEN a ELSE b

-----------------------------------------------------------------------------
Init ==
  /\ clock = 0
  /\ trace = [i \in Intent |-> NoTrace]
  /\ grantEnd = [i \in Intent |-> 0]
  /\ admission = [i \in Intent |-> "new"]
  /\ run \in [Run -> {Idle(i) : i \in Intent}]

-----------------------------------------------------------------------------
(* admit(): the rules are evaluated outside any transaction ... *)
Evaluate(i) ==
  /\ admission[i] = "new"
  /\ WithinLimit(trace, i, clock, Window, Limit)
  /\ admission' = [admission EXCEPT ![i] = "evaluated"]
  /\ UNCHANGED <<clock, trace, grantEnd, run>>

(* Mutant: the reservation relies on the evaluation made before it. *)
ReserveUnchecked(i) ==
  /\ admission[i] = "evaluated"
  /\ clock + GrantTtl <= MaxClock
  /\ trace' = [trace EXCEPT ![i] = [status |-> "RESERVED", at |-> clock]]
  /\ grantEnd' = [grantEnd EXCEPT ![i] = clock + GrantTtl]
  /\ admission' = [admission EXCEPT ![i] = "granted"]
  /\ UNCHANGED <<clock, run>>

(* ... and again, with the reservation, in one transaction of the store. *)
Reserve(i) ==
  /\ admission[i] = "evaluated"
  /\ WithinLimit(trace, i, clock, Window, Limit)
  /\ clock + GrantTtl <= MaxClock
  /\ trace' = [trace EXCEPT ![i] = [status |-> "RESERVED", at |-> clock]]
  /\ grantEnd' = [grantEnd EXCEPT ![i] = clock + GrantTtl]
  /\ admission' = [admission EXCEPT ![i] = "granted"]
  /\ UNCHANGED <<clock, run>>

(* Denied by a rule, by policy, for want of assurance, or for want of      *)
(* evidence; or the process died.  No trace event is written.              *)
Deny(i) ==
  /\ admission[i] \in {"new", "evaluated"}
  /\ admission' = [admission EXCEPT ![i] = "denied"]
  /\ UNCHANGED <<clock, trace, grantEnd, run>>

-----------------------------------------------------------------------------
(* Redeemable now: what assertCanUnlock and verifyExecutionContract ask.   *)
Redeemable(i) == trace[i].status = "RESERVED" /\ clock < grantEnd[i]

OnlyRun == UNCHANGED <<clock, trace, grantEnd, admission>>

(* The last lines of execute(): the result follows from the flags as they  *)
(* are now, not as they were when the error was caught.                    *)
Concluded(s) ==
  [s EXCEPT !.main = "returned",
            !.result = IF s.invoked
                         THEN IF s.cause = "definitive" THEN "failed" ELSE "uncertain"
                         ELSE IF s.started THEN "failed" ELSE "rejected"]

(* The inner catch: evidence of the failure could not be recorded. *)
Unrecorded(s) ==
  [s EXCEPT !.main = "returned", !.result = IF s.invoked THEN "uncertain" ELSE "rejected"]

(* The outer catch decides what to record. *)
Caught(s, cause) ==
  IF s.started
    THEN IF s.invoked /\ s.succeeded
           THEN Concluded([s EXCEPT !.cause = cause])
           ELSE [s EXCEPT !.cause = cause, !.main = "failing"]
    ELSE [s EXCEPT !.cause = cause, !.main = "rejecting"]

Begin(r) ==
  /\ run[r].main = "idle"
  /\ admission[run[r].intent] = "granted"
  /\ run' = [run EXCEPT ![r].main = "checking"]
  /\ OnlyRun

(* The proposal's events cannot be read. *)
BeginFails(r) ==
  /\ EvidenceMayFail
  /\ run[r].main = "idle"
  /\ admission[run[r].intent] = "granted"
  /\ run' = [run EXCEPT ![r].main = "returned", ![r].result = "rejected"]
  /\ OnlyRun

(* The grant, the policy, the trace, the contract and the target state. *)
CheckPasses(r) ==
  /\ run[r].main = "checking"
  /\ Redeemable(run[r].intent)
  /\ run' = [run EXCEPT ![r].main = "unlocking"]
  /\ OnlyRun

CheckFails(r) ==
  /\ run[r].main = "checking"
  /\ run' = [run EXCEPT ![r] = Caught(@, "error")]
  /\ OnlyRun

(* withIdentity: the identity is issued and audited, the grant is checked  *)
(* once more, and the worker runs to its transaction.                      *)
Unlock(r) ==
  /\ run[r].main = "unlocking"
  /\ Redeemable(run[r].intent)
  /\ run' = [run EXCEPT ![r].main = "racing", ![r].work = "starting"]
  /\ OnlyRun

UnlockFails(r) ==
  /\ run[r].main = "unlocking"
  /\ run' = [run EXCEPT ![r].main = "revoking", ![r].cause = "error"]
  /\ OnlyRun

-----------------------------------------------------------------------------
(* The worker.  When it ends while the main line still waits for it, the   *)
(* main line goes on; otherwise nobody listens.                            *)
Ended(s, cause) ==
  IF s.main = "racing"
    THEN [s EXCEPT !.work = "ended", !.main = "revoking", !.cause = cause]
    ELSE [s EXCEPT !.work = "ended"]

(* Mutant: a grant that is being redeemed can be redeemed again. *)
StartTwice(r) ==
  LET i == run[r].intent IN
  /\ run[r].work = "starting"
  /\ trace[i].status \in {"RESERVED", "RUNNING"}
  /\ trace' = [trace EXCEPT ![i] = [status |-> "RUNNING", at |-> clock]]
  /\ run' = [run EXCEPT ![r].work = "started", ![r].started = TRUE]
  /\ UNCHANGED <<clock, grantEnd, admission>>

(* The one-use transaction.  It asks nothing of the grant's time. *)
Start(r) ==
  LET i == run[r].intent IN
  /\ run[r].work = "starting"
  /\ trace[i].status = "RESERVED"
  /\ trace' = [trace EXCEPT ![i] = [status |-> "RUNNING", at |-> clock]]
  /\ run' = [run EXCEPT ![r].work = "started", ![r].started = TRUE]
  /\ UNCHANGED <<clock, grantEnd, admission>>

(* GRANT_REPLAY, or the transaction failed. *)
StartFails(r) ==
  /\ run[r].work = "starting"
  /\ trace[run[r].intent].status # "RESERVED" \/ EvidenceMayFail
  /\ run' = [run EXCEPT ![r] = Ended(@, "error")]
  /\ OnlyRun

(* Policy and target are read again. *)
Revalidate(r) ==
  /\ run[r].work = "started"
  /\ run' = [run EXCEPT ![r].work = "confirming"]
  /\ OnlyRun

RevalidateFails(r) ==
  /\ run[r].work = "started"
  /\ run' = [run EXCEPT ![r] = Ended(@, "error")]
  /\ OnlyRun

(* The trace is read again.  Without a dispatch authority nothing is       *)
(* awaited between this read and the adapter call.                         *)
Confirm(r) ==
  /\ run[r].work = "confirming"
  /\ trace[run[r].intent].status = "RUNNING"
  /\ run' = IF Dispatch
              THEN [run EXCEPT ![r].work = "asking"]
              ELSE [run EXCEPT ![r].work = "calling", ![r].invoked = TRUE]
  /\ OnlyRun

ConfirmFails(r) ==
  /\ run[r].work = "confirming"
  /\ trace[run[r].intent].status # "RUNNING" \/ EvidenceMayFail
  /\ run' = [run EXCEPT ![r] = Ended(@, "error")]
  /\ OnlyRun

(* Mutant: a permit lives its full time whatever the grant's. *)
PermitOutlivesGrant(r) ==
  /\ run[r].work = "asking"
  /\ clock < grantEnd[run[r].intent]
  /\ run' = [run EXCEPT ![r].work = "granted", ![r].permitEnd = clock + PermitTtl]
  /\ OnlyRun

(* The controller issues a permit that ends no later than the grant. *)
PermitIssued(r) ==
  /\ run[r].work = "asking"
  /\ clock < grantEnd[run[r].intent]
  /\ run' = [run EXCEPT ![r].work = "granted",
                        ![r].permitEnd = Min2(grantEnd[run[r].intent], clock + PermitTtl)]
  /\ OnlyRun

(* Mutant: the permit's time is not compared when the answer arrives. *)
PermitReceivedLate(r) ==
  /\ run[r].work = "granted"
  /\ run' = [run EXCEPT ![r].work = "calling", ![r].invoked = TRUE, ![r].permitOpen = TRUE]
  /\ OnlyRun

(* Its answer arrives in time, and the adapter is called at once. *)
PermitReceived(r) ==
  /\ run[r].work = "granted"
  /\ run[r].permitEnd > clock
  /\ run' = [run EXCEPT ![r].work = "calling", ![r].invoked = TRUE, ![r].permitOpen = TRUE]
  /\ OnlyRun

(* The answer is accepted but its time is over when it is looked at. *)
PermitLate(r) ==
  /\ run[r].work = "granted"
  /\ run[r].permitEnd <= clock
  /\ run' = [run EXCEPT ![r] = Ended([@ EXCEPT !.permitOpen = TRUE], "error")]
  /\ OnlyRun

(* Refused, lost, or too late to be accepted. *)
PermitFails(r) ==
  /\ run[r].work \in {"asking", "granted"}
  /\ run' = [run EXCEPT ![r] = Ended(@, "error")]
  /\ OnlyRun

(* What the adapter does to the target happens at some moment after it was *)
(* called, even after the gateway stopped waiting or died.                 *)
Effect(r) ==
  /\ run[r].work \in {"calling", "astray"}
  /\ run[r].invoked
  /\ run' = [run EXCEPT ![r].effected = TRUE]
  /\ OnlyRun

AdapterSucceeds(r) ==
  /\ run[r].work = "calling"
  /\ run[r].effected
  /\ run' = [run EXCEPT ![r].work = "completing", ![r].succeeded = TRUE]
  /\ OnlyRun

(* An error that tells nothing: a network failure, a response lost. *)
AdapterThrows(r) ==
  /\ run[r].work = "calling"
  /\ run' = [run EXCEPT ![r] = [Ended(@, "error") EXCEPT !.work = "astray"]]
  /\ OnlyRun

(* An error marked definitive: refused before the mutating call. *)
AdapterRefuses(r) ==
  /\ run[r].work = "calling"
  /\ ~run[r].effected
  /\ run' = [run EXCEPT ![r] = Ended(@, "definitive")]
  /\ OnlyRun

(* ExecutionCompleted, successful; then the outcome is reported. *)
Complete(r) ==
  LET i == run[r].intent IN
  /\ run[r].work = "completing"
  /\ Follows(trace[i], "SUCCESS", clock)
  /\ trace' = [trace EXCEPT ![i] = [status |-> "SUCCESS", at |-> clock]]
  /\ run' = [run EXCEPT ![r] = IF @.permitOpen THEN [@ EXCEPT !.work = "finishing"]
                                               ELSE Ended(@, "none")]
  /\ UNCHANGED <<clock, grantEnd, admission>>

CompleteFails(r) ==
  /\ run[r].work = "completing"
  /\ ~Follows(trace[run[r].intent], "SUCCESS", clock) \/ EvidenceMayFail
  /\ run' = [run EXCEPT ![r] = Ended(@, "error")]
  /\ OnlyRun

Finish(r) ==
  /\ run[r].work = "finishing"
  /\ run' = [run EXCEPT ![r] = Ended([@ EXCEPT !.permitOpen = FALSE], "none")]
  /\ OnlyRun

FinishFails(r) ==
  /\ run[r].work = "finishing"
  /\ run' = [run EXCEPT ![r] = Ended(@, "error")]
  /\ OnlyRun

-----------------------------------------------------------------------------
(* Mutants: the timer resolves the race instead of failing it; the timer   *)
(* is cleared when the adapter is called.                                  *)
TimeoutResolves(r) ==
  /\ run[r].main = "racing"
  /\ clock >= grantEnd[run[r].intent]
  /\ run' = [run EXCEPT ![r].main = "revoking"]
  /\ OnlyRun

TimeoutCleared(r) ==
  /\ run[r].main = "racing"
  /\ ~run[r].invoked
  /\ clock >= grantEnd[run[r].intent]
  /\ run' = [run EXCEPT ![r].main = "revoking", ![r].cause = "error"]
  /\ OnlyRun

(* CONTRACT_EXECUTION_TIMEOUT_ERROR: the grant's time is over. *)
Timeout(r) ==
  /\ run[r].main = "racing"
  /\ clock >= grantEnd[run[r].intent]
  /\ run' = [run EXCEPT ![r].main = "revoking", ![r].cause = "error"]
  /\ OnlyRun

(* The finally clause appends IdentityRevoked.  The store serves one       *)
(* operation at a time in the order asked (AsyncMutex), so the worker's    *)
(* transaction, asked for before any timeout, is over by then.             *)
Revoke(r) ==
  /\ run[r].main = "revoking"
  /\ run[r].work # "starting"
  /\ run' = [run EXCEPT ![r] = IF @.cause = "none"
                                 THEN [@ EXCEPT !.main = "returned", !.result = "executed"]
                                 ELSE Caught(@, @.cause)]
  /\ OnlyRun

(* The append's own error replaces whatever was thrown or returned. *)
RevokeFails(r) ==
  /\ EvidenceMayFail
  /\ run[r].main = "revoking"
  /\ run[r].work # "starting"
  /\ run' = [run EXCEPT ![r] = Caught(@, "error")]
  /\ OnlyRun

(* ExecutionCompleted, unsuccessful; an open permit is reported after it. *)
RecordFailure(r) ==
  LET i == run[r].intent IN
  /\ run[r].main = "failing"
  /\ Follows(trace[i], "FAILED", clock)
  /\ trace' = [trace EXCEPT ![i] = [status |-> "FAILED", at |-> clock]]
  /\ run' = [run EXCEPT ![r] = IF @.permitOpen THEN [@ EXCEPT !.main = "reporting"]
                                               ELSE Concluded(@)]
  /\ UNCHANGED <<clock, grantEnd, admission>>

RecordFailureFails(r) ==
  /\ run[r].main = "failing"
  /\ ~Follows(trace[run[r].intent], "FAILED", clock) \/ EvidenceMayFail
  /\ run' = [run EXCEPT ![r] = Unrecorded(@)]
  /\ OnlyRun

(* ExecutionRejected is not a trace event: the reservation stays. *)
RecordRejection(r) ==
  /\ run[r].main = "rejecting"
  /\ run' = [run EXCEPT ![r] = Concluded(@)]
  /\ OnlyRun

RecordRejectionFails(r) ==
  /\ EvidenceMayFail
  /\ run[r].main = "rejecting"
  /\ run' = [run EXCEPT ![r] = Unrecorded(@)]
  /\ OnlyRun

ReportOutcome(r) ==
  /\ run[r].main = "reporting"
  /\ run' = [run EXCEPT ![r] = Concluded([@ EXCEPT !.permitOpen = FALSE])]
  /\ OnlyRun

ReportFails(r) ==
  /\ run[r].main = "reporting"
  /\ run' = [run EXCEPT ![r] = Unrecorded(@)]
  /\ OnlyRun

-----------------------------------------------------------------------------
(* A gateway process dies with the calls it was serving.  The evidence     *)
(* stays, and so does a request already sent to the target.                *)
Killed(s) ==
  IF s.main \in {"idle", "dead"} THEN s
  ELSE [s EXCEPT !.main = IF @ = "returned" THEN @ ELSE "dead",
                 !.work = CASE @ \in {"calling", "astray"} -> "astray"
                            [] @ = "off" -> "off"
                            [] OTHER -> "ended"]

Crash(S) ==
  /\ run' = [r \in Run |-> IF r \in S THEN Killed(run[r]) ELSE run[r]]
  /\ OnlyRun

Tick ==
  /\ clock < MaxClock
  /\ clock' = clock + 1
  /\ UNCHANGED <<trace, grantEnd, admission, run>>

-----------------------------------------------------------------------------
Admit(i) == Evaluate(i) \/ Reserve(i) \/ Deny(i)

MainStep(r) ==
  \/ CheckPasses(r) \/ CheckFails(r) \/ Unlock(r) \/ UnlockFails(r)
  \/ Timeout(r) \/ Revoke(r) \/ RevokeFails(r)
  \/ RecordFailure(r) \/ RecordFailureFails(r)
  \/ RecordRejection(r) \/ RecordRejectionFails(r)
  \/ ReportOutcome(r) \/ ReportFails(r)

WorkerStep(r) ==
  \/ Start(r) \/ StartFails(r) \/ Revalidate(r) \/ RevalidateFails(r)
  \/ Confirm(r) \/ ConfirmFails(r)
  \/ PermitIssued(r) \/ PermitReceived(r) \/ PermitLate(r) \/ PermitFails(r)
  \/ Complete(r) \/ CompleteFails(r) \/ Finish(r) \/ FinishFails(r)

AdapterStep(r) ==
  Effect(r) \/ AdapterSucceeds(r) \/ AdapterThrows(r) \/ AdapterRefuses(r)

Next ==
  \/ \E i \in Intent : Admit(i)
  \/ \E r \in Run : Begin(r) \/ BeginFails(r) \/ MainStep(r) \/ WorkerStep(r) \/ AdapterStep(r)
  \/ \E S \in SUBSET Run : Crash(S)
  \/ Tick

Spec == Init /\ [][Next]_vars

(* The clock runs, and the gateway's own steps are taken: its store and    *)
(* its controller requests answer or fail in bounded time.  The adapter    *)
(* may never answer.                                                       *)
Fairness ==
  /\ WF_vars(Tick)
  /\ \A r \in Run : WF_vars(MainStep(r)) /\ WF_vars(WorkerStep(r))

FairSpec == Spec /\ Fairness

-----------------------------------------------------------------------------
Admissions == {"new", "evaluated", "granted", "denied"}

(* Every variable keeps its type; no grant or permit ends after MaxClock. *)
TypeOK ==
  /\ clock \in 0..MaxClock
  /\ trace \in [Intent -> TraceRecord]
  /\ grantEnd \in [Intent -> 0..MaxClock]
  /\ admission \in [Intent -> Admissions]
  /\ run \in [Run -> RunState]

(* A grant reaches the adapter at most once, whatever calls, processes and *)
(* restarts try to redeem it ("atomically consume the one-use contract     *)
(* before entering the adapter", Gateway.ts).                              *)
OneInvocation ==
  \A q, r \in Run :
    run[q].invoked /\ run[r].invoked /\ run[q].intent = run[r].intent => q = r

(* A call that was answered "rejected" or "failed" did not touch the       *)
(* target and never will, though its worker may outlive the answer.        *)
RefusalIsFinal ==
  \A r \in Run : run[r].result \in {"rejected", "failed"} => ~run[r].effected

(* "executed" is answered only when the target was changed and the         *)
(* evidence says so, and the evidence says so only of such a target.       *)
ExecutedIsRecorded ==
  /\ \A r \in Run :
       run[r].result = "executed" =>
         run[r].effected /\ trace[run[r].intent].status = "SUCCESS"
  /\ \A i \in Intent :
       trace[i].status = "SUCCESS" =>
         \E r \in Run : run[r].intent = i /\ run[r].effected

(* Racing admissions cannot overspend the rate limit: successes in the     *)
(* window and open reservations together stay within it                    *)
(* (TemporalGovernance.reserve decides inside the transaction).            *)
QuotaHolds == Cardinality(Used(trace, clock, Window)) <= Limit

(* A trace that says an execution is over is never changed again, even by  *)
(* a worker that finishes after its call gave up.                          *)
TraceNeverReopens ==
  [][\A i \in Intent :
       trace[i].status \in {"SUCCESS", "FAILED"} => trace'[i] = trace[i]]_vars

(* The adapter is called only while the grant is valid: slow storage must  *)
(* not extend the contract (IdentityManager.ts).                           *)
CalledInTime ==
  [][\A r \in Run :
       ~run[r].invoked /\ run'[r].invoked => clock < grantEnd[run[r].intent]]_vars

(* A call of execute() ends, even when the adapter never answers. *)
ExecuteReturns ==
  \A r \in Run :
    run[r].main \notin {"idle", "returned", "dead"} ~> run[r].main \in {"returned", "dead"}

(* What docs/temporal-invariants.md says of a failure that releases its    *)
(* budget: the operation had no effect.                                    *)
FailureHadNoEffect ==
  \A r \in Run : trace[run[r].intent].status = "FAILED" => ~run[r].effected

(* What docs/temporal-invariants.md says of a failure before invocation:   *)
(* the budget is released (once the grant can no longer be redeemed).      *)
RejectionReleasesBudget ==
  \A i \in Intent :
    (\E r \in Run : run[r].intent = i /\ run[r].result = "rejected" /\ clock >= grantEnd[i])
      ~> trace[i].status # "RESERVED"
=============================================================================
