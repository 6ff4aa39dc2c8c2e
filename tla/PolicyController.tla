-------------------------- MODULE PolicyController --------------------------
(***************************************************************************)
(* The policy controller of src/control-plane/controller.ts: one Node      *)
(* process that owns a SQLite file.  A request handler runs without        *)
(* interruption between two awaits, and it awaits in two places only:      *)
(* while it reads the request body (jsonBody) and, in a policy update,     *)
(* while it sleeps between two looks at the active permits.  Each action   *)
(* below is one such uninterrupted stretch of one handler.                 *)
(*                                                                         *)
(* Time is relative: a permit row keeps the time left to its expires_at,   *)
(* and Tick takes one unit from every row.                                 *)
(***************************************************************************)
EXTENDS Integers

CONSTANTS
  Permit,          \* rows controller_permit can hold (bounds the model)
  Gateway,         \* gateways with a bearer token
  Operation,       \* the exact operations a policy can allow
  PermitCall,      \* POST /v1/permit requests that can be in flight together
  UpdateCall,      \* POST /v1/policy requests that can be in flight together
  Report,          \* status and evidence hash pairs of POST /v1/outcome
  NoReport,        \* no controller_outcome row
  PermitTtl,       \* the longest life of a permit (5 s in the code)
  MaxGrant,        \* longest remaining life of a grant (bounds the model)
  MaxEpoch         \* bounds the number of updates

ASSUME TtlAssumption == PermitTtl \in Nat \ {0}
ASSUME GrantAssumption == MaxGrant \in Nat \ {0}
ASSUME EpochAssumption == MaxEpoch \in Nat \ {0}
ASSUME PartiesAssumption == Gateway # {} /\ Operation # {}
ASSUME ReportAssumption == NoReport \notin Report

VARIABLES
  bundle,          \* controller_bundle: the epoch and the operations it allows
  permit,          \* controller_permit
  outcome,         \* controller_outcome
  ack,             \* controller_ack: last acknowledged epoch, 0 if none
  updatePending,   \* in memory, lost on restart
  permitCall,      \* where each permit request's handler is
  updateCall       \* where each update request's handler is

durable == <<bundle, permit, outcome, ack>>
vars == <<bundle, permit, outcome, ack, updatePending, permitCall, updateCall>>

RowState == {"none", "active", "done", "expired"}

(* "none" is a row not inserted yet.  "operation" is what the permit lets  *)
(* the gateway do: the controller checks it and does not store it.         *)
Row == [state: RowState, gateway: Gateway, operation: Operation,
        epoch: Nat, left: 0..PermitTtl]

NoRow == [state |-> "none", gateway |-> CHOOSE g \in Gateway : TRUE,
          operation |-> CHOOSE op \in Operation : TRUE, epoch |-> 0, left |-> 0]

Allows(op) == op \in bundle.allowed

(* Mutant: a permit lives as long as its grant. *)
LifeOfGrant(grantLeft) == grantLeft

(* The life of a new permit: no longer than its grant, nor than PermitTtl. *)
LifeOf(grantLeft) == IF grantLeft < PermitTtl THEN grantLeft ELSE PermitTtl

(* Mutant: the expiry of a row is never noticed. *)
NeverLapsed(p) == FALSE

(* prune(): rows whose time is up leave the active state. *)
Lapsed(p) == permit[p].state = "active" /\ permit[p].left = 0
Pruned == [p \in Permit |-> IF Lapsed(p)
                              THEN [permit[p] EXCEPT !.state = "expired"]
                              ELSE permit[p]]

(* The rows active() counts, after its prune. *)
ActiveRows == {p \in Permit : permit[p].state = "active" /\ ~Lapsed(p)}

-----------------------------------------------------------------------------
(* A new database, seeded from the initial policy file. *)
Init ==
  /\ \E ops \in SUBSET Operation : bundle = [epoch |-> 1, allowed |-> ops]
  /\ permit = [p \in Permit |-> NoRow]
  /\ outcome = [p \in Permit |-> NoReport]
  /\ ack = [g \in Gateway |-> 0]
  /\ updatePending = FALSE
  /\ permitCall = [c \in PermitCall |-> "idle"]
  /\ updateCall = [u \in UpdateCall |-> "idle"]

-----------------------------------------------------------------------------
(* POST /v1/permit: updatePending is looked at before the body is read.  A *)
(* refused request leaves nothing behind.                                  *)
PermitArrives(c) ==
  /\ permitCall[c] = "idle"
  /\ ~updatePending
  /\ permitCall' = [permitCall EXCEPT ![c] = "reading"]
  /\ UNCHANGED <<bundle, permit, outcome, ack, updatePending, updateCall>>

(* Mutant: the row takes the epoch the gateway asked for, unchecked. *)
PermitGrantedAsAsked(c, p, g, op, revision, grantLeft) ==
  /\ permitCall[c] = "reading"
  /\ permit[p].state = "none"
  /\ grantLeft > 0
  /\ Allows(op)
  /\ permit' = [permit EXCEPT ![p] =
                  [state |-> "active", gateway |-> g, operation |-> op,
                   epoch |-> revision, left |-> LifeOf(grantLeft)]]
  /\ permitCall' = [permitCall EXCEPT ![c] = "idle"]
  /\ UNCHANGED <<bundle, outcome, ack, updatePending, updateCall>>

(* The body is in: revision, grant time and operation are checked against  *)
(* the bundle of this moment and the row is inserted, in one stretch.      *)
PermitGranted(c, p, g, op, revision, grantLeft) ==
  /\ permitCall[c] = "reading"
  /\ permit[p].state = "none"
  /\ revision = bundle.epoch
  /\ grantLeft > 0
  /\ Allows(op)
  /\ permit' = [permit EXCEPT ![p] =
                  [state |-> "active", gateway |-> g, operation |-> op,
                   epoch |-> bundle.epoch, left |-> LifeOf(grantLeft)]]
  /\ permitCall' = [permitCall EXCEPT ![c] = "idle"]
  /\ UNCHANGED <<bundle, outcome, ack, updatePending, updateCall>>

(* DISPATCH_POLICY_CONFLICT, a malformed body, or a client that hung up. *)
PermitRefused(c) ==
  /\ permitCall[c] = "reading"
  /\ permitCall' = [permitCall EXCEPT ![c] = "idle"]
  /\ UNCHANGED <<bundle, permit, outcome, ack, updatePending, updateCall>>

-----------------------------------------------------------------------------
(* POST /v1/policy: updatePending is looked at before the body is read. *)
UpdateArrives(u) ==
  /\ updateCall[u] = "idle"
  /\ ~updatePending
  /\ updateCall' = [updateCall EXCEPT ![u] = "reading"]
  /\ UNCHANGED <<durable, updatePending, permitCall>>

(* INVALID_POLICY_UPDATE, or a body that does not parse. *)
UpdateRejected(u) ==
  /\ updateCall[u] = "reading"
  /\ updateCall' = [updateCall EXCEPT ![u] = "idle"]
  /\ UNCHANGED <<durable, updatePending, permitCall>>

(* Mutant: updatePending is never set. *)
UpdateAcceptedOpenly(u) ==
  /\ updateCall[u] = "reading"
  /\ ActiveRows # {}
  /\ bundle.epoch < MaxEpoch
  /\ permit' = Pruned
  /\ updateCall' = [updateCall EXCEPT ![u] = "draining"]
  /\ UNCHANGED <<bundle, outcome, ack, updatePending, permitCall>>

(* A valid body sets updatePending and looks at the permits at once; with  *)
(* some active it sleeps.  (The policy it carries is chosen when stored.)  *)
UpdateAccepted(u) ==
  /\ updateCall[u] = "reading"
  /\ ActiveRows # {}
  /\ bundle.epoch < MaxEpoch
  /\ updatePending' = TRUE
  /\ permit' = Pruned
  /\ updateCall' = [updateCall EXCEPT ![u] = "draining"]
  /\ UNCHANGED <<bundle, outcome, ack, permitCall>>

(* It wakes up, prunes, still finds active permits, and sleeps again. *)
DrainWaits(u) ==
  /\ updateCall[u] = "draining"
  /\ ActiveRows # {}
  /\ permit' = Pruned
  /\ UNCHANGED <<bundle, outcome, ack, updatePending, permitCall, updateCall>>

(* Mutant: the bundle is stored without waiting for the permits. *)
ActivateAtOnce(u, ops) ==
  /\ updateCall[u] \in {"reading", "draining"}
  /\ bundle.epoch < MaxEpoch
  /\ permit' = Pruned
  /\ bundle' = [epoch |-> bundle.epoch + 1, allowed |-> ops]
  /\ updatePending' = FALSE
  /\ updateCall' = [updateCall EXCEPT ![u] = "idle"]
  /\ UNCHANGED <<outcome, ack, permitCall>>

(* The look that finds none, the first or a later one, signs and stores    *)
(* the next bundle in the same stretch.                                    *)
Activate(u, ops) ==
  /\ updateCall[u] \in {"reading", "draining"}
  /\ ActiveRows = {}
  /\ bundle.epoch < MaxEpoch
  /\ permit' = Pruned
  /\ bundle' = [epoch |-> bundle.epoch + 1, allowed |-> ops]
  /\ updatePending' = FALSE
  /\ updateCall' = [updateCall EXCEPT ![u] = "idle"]
  /\ UNCHANGED <<outcome, ack, permitCall>>

(* A database error in the wait: the finally clause clears updatePending. *)
UpdateFails(u) ==
  /\ updateCall[u] = "draining"
  /\ updatePending' = FALSE
  /\ updateCall' = [updateCall EXCEPT ![u] = "idle"]
  /\ UNCHANGED <<durable, permitCall>>

-----------------------------------------------------------------------------
(* Mutant: the row stays active when its outcome is stored. *)
LeftOpen(p) == permit

(* POST /v1/outcome of the permit's own gateway.  The row is closed if it  *)
(* is still active, then the report is inserted.                           *)
Closed(p) == [permit EXCEPT ![p].state = IF @ = "active" THEN "done" ELSE @]

(* Mutant: a later report replaces the first. *)
OutcomeReplaced(p, g, report) ==
  /\ permit[p].state # "none"
  /\ permit[p].gateway = g
  /\ permit' = Closed(p)
  /\ outcome' = [outcome EXCEPT ![p] = report]
  /\ UNCHANGED <<bundle, ack, updatePending, permitCall, updateCall>>

OutcomeRecorded(p, g, report) ==
  /\ permit[p].state # "none"
  /\ permit[p].gateway = g
  /\ outcome[p] = NoReport
  /\ permit' = Closed(p)
  /\ outcome' = [outcome EXCEPT ![p] = report]
  /\ UNCHANGED <<bundle, ack, updatePending, permitCall, updateCall>>

(* The two statements are separate transactions: an error or a crash in    *)
(* between leaves a closed row without a report.                           *)
OutcomeLost(p, g) ==
  /\ permit[p].state = "active"
  /\ permit[p].gateway = g
  /\ outcome[p] = NoReport
  /\ permit' = Closed(p)
  /\ UNCHANGED <<bundle, outcome, ack, updatePending, permitCall, updateCall>>

(* POST /v1/ack: only the bundle of this moment can be acknowledged. *)
Acknowledge(g, revision) ==
  /\ revision = bundle.epoch
  /\ ack' = [ack EXCEPT ![g] = revision]
  /\ UNCHANGED <<bundle, permit, outcome, updatePending, permitCall, updateCall>>

(* GET /v1/status counts the active permits, and so prunes. *)
Status ==
  /\ permit' = Pruned
  /\ UNCHANGED <<bundle, outcome, ack, updatePending, permitCall, updateCall>>

-----------------------------------------------------------------------------
(* The process is killed and started again on the same file: memory and    *)
(* handlers are gone, every row is back.                                   *)
Restart ==
  /\ updatePending' = FALSE
  /\ permitCall' = [c \in PermitCall |-> "idle"]
  /\ updateCall' = [u \in UpdateCall |-> "idle"]
  /\ UNCHANGED durable

Tick ==
  /\ permit' = [p \in Permit |-> [permit[p] EXCEPT !.left = IF @ > 0 THEN @ - 1 ELSE 0]]
  /\ UNCHANGED <<bundle, outcome, ack, updatePending, permitCall, updateCall>>

-----------------------------------------------------------------------------
PermitStep(c) ==
  \/ PermitArrives(c)
  \/ PermitRefused(c)
  \/ \E p \in Permit, g \in Gateway, op \in Operation,
        revision \in 1..MaxEpoch, grantLeft \in 0..MaxGrant :
       PermitGranted(c, p, g, op, revision, grantLeft)

UpdateStep(u) ==
  \/ UpdateArrives(u)
  \/ UpdateRejected(u)
  \/ UpdateAccepted(u)
  \/ DrainWaits(u)
  \/ \E ops \in SUBSET Operation : Activate(u, ops)
  \/ UpdateFails(u)

GatewayStep(g) ==
  \/ \E p \in Permit, report \in Report : OutcomeRecorded(p, g, report)
  \/ \E p \in Permit : OutcomeLost(p, g)
  \/ \E revision \in 1..MaxEpoch : Acknowledge(g, revision)

Next ==
  \/ \E c \in PermitCall : PermitStep(c)
  \/ \E u \in UpdateCall : UpdateStep(u)
  \/ \E g \in Gateway : GatewayStep(g)
  \/ Status
  \/ Restart
  \/ Tick

Spec == Init /\ [][Next]_vars

(* The clock runs, and a sleeping update is woken every 5 ms for as long   *)
(* as the process lives.  Nothing is assumed of gateways, requests or      *)
(* restarts.                                                               *)
Fairness ==
  /\ WF_vars(Tick)
  /\ \A u \in UpdateCall :
       WF_vars(updateCall[u] = "draining" /\ \E ops \in SUBSET Operation : Activate(u, ops))

FairSpec == Spec /\ Fairness

-----------------------------------------------------------------------------
(* Every variable keeps its type: no permit lives longer than PermitTtl,   *)
(* however long its grant lasts, and no epoch is out of range              *)
(* (controller.ts 100).                                                    *)
TypeOK ==
  /\ bundle \in [epoch: 1..MaxEpoch, allowed: SUBSET Operation]
  /\ permit \in [Permit -> Row]
  /\ outcome \in [Permit -> Report \union {NoReport}]
  /\ ack \in [Gateway -> 0..MaxEpoch]
  /\ updatePending \in BOOLEAN
  /\ permitCall \in [PermitCall -> {"idle", "reading"}]
  /\ updateCall \in [UpdateCall -> {"idle", "reading", "draining"}]

(* A permit a gateway may still dispatch under. *)
Live(p) == permit[p].state = "active" /\ permit[p].left > 0

(* Nobody holds a live permit for an operation the policy in force does    *)
(* not allow, nor one of an earlier epoch, whatever restarts, concurrent   *)
(* updates and requests that were already being read when the policy       *)
(* changed (controller.ts 90-104 against 134-139).                         *)
LivePermitsObeyPolicy ==
  \A p \in Permit : Live(p) => permit[p].epoch = bundle.epoch /\ Allows(permit[p].operation)

(* A reported permit is not active any more: the row is closed before the  *)
(* report is stored, so a failure between the two cannot leave a report    *)
(* beside a permit that still holds up updates (controller.ts 119-121).    *)
ReportedPermitsAreClosed ==
  \A p \in Permit : outcome[p] # NoReport => permit[p].state \in {"done", "expired"}

(* What the controller has recorded is final, across restarts: a closed    *)
(* permit is never active again, a first report is never replaced by a     *)
(* later one, an acknowledgement never goes back to an older epoch.        *)
RecordsAreFinal ==
  [][/\ \A p \in Permit :
          /\ permit[p].state \in {"done", "expired"} => permit'[p].state = permit[p].state
          /\ outcome[p] # NoReport => outcome'[p] = outcome[p]
     /\ \A g \in Gateway : ack'[g] >= ack[g]]_vars

(* An update that waits for permits gets its turn although gateways may    *)
(* never report: permits lapse, and no new ones are issued meanwhile       *)
(* (controller.ts 91, 136).  It may still end by an error or a restart.    *)
UpdatesGetTheirTurn ==
  \A u \in UpdateCall : updateCall[u] = "draining" ~> updateCall[u] # "draining"

(* rfcs/0007 line 30: "A redemption arriving during that pending interval  *)
(* fails with POLICY_UPDATE_PENDING".  Of two updates in flight the one    *)
(* that activates first clears the flag the other one relies on.           *)
DrainHoldsTheGate ==
  (\E u \in UpdateCall : updateCall[u] = "draining") => updatePending

-----------------------------------------------------------------------------
(* The controller implements the epoch fence. *)
Fence == INSTANCE EpochFence WITH
  epoch <- bundle.epoch,
  granted <- [p \in Permit |-> permit[p].epoch],
  outstanding <- {p \in Permit : Live(p)}

(* Every permit grant, closure, lapse and activation of the controller is  *)
(* a step of the abstract fence: the epoch advances only while no permit   *)
(* is live, and advances by one.                                           *)
ImplementsFence == Fence!Spec
=============================================================================
