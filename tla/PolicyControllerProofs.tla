----------------------- MODULE PolicyControllerProofs -----------------------
(***************************************************************************)
(* Theorems about the policy controller, for any number of permits,        *)
(* gateways, concurrent requests and epochs.                               *)
(***************************************************************************)
EXTENDS PolicyController, TLAPS

(* A row not inserted yet is a row. *)
LEMMA NoRowType == NoRow \in Row
<1>1. (CHOOSE g \in Gateway : TRUE) \in Gateway
  BY PartiesAssumption
<1>2. (CHOOSE op \in Operation : TRUE) \in Operation
  BY PartiesAssumption
<1>3. QED
  BY <1>1, <1>2, TtlAssumption DEF NoRow, Row, RowState

(* The type invariant holds in every reachable state. *)
THEOREM TypeCorrect == Spec => []TypeOK
<1>1. Init => TypeOK
  <2> SUFFICES ASSUME Init PROVE TypeOK
    OBVIOUS
  <2>1. permit \in [Permit -> Row]
    BY NoRowType DEF Init
  <2>2. bundle \in [epoch: 1..MaxEpoch, allowed: SUBSET Operation]
    BY EpochAssumption DEF Init
  <2>3. permitCall \in [PermitCall -> {"idle", "reading"}]
    BY DEF Init
  <2>4. updateCall \in [UpdateCall -> {"idle", "reading", "draining"}]
    BY DEF Init
  <2>5. outcome \in [Permit -> Report \union {NoReport}] /\ ack \in [Gateway -> 0..MaxEpoch]
    BY EpochAssumption DEF Init
  <2> QED BY <2>1, <2>2, <2>3, <2>4, <2>5 DEF TypeOK, Init
<1>2. TypeOK /\ [Next]_vars => TypeOK'
  <2> SUFFICES ASSUME TypeOK, [Next]_vars PROVE TypeOK'
    OBVIOUS
  <2> USE DEF TypeOK
  <2>p. Pruned \in [Permit -> Row]
    BY DEF Pruned, Row, RowState
  <2>c. ASSUME NEW p \in Permit PROVE Closed(p) \in [Permit -> Row]
    BY DEF Closed, Row, RowState
  <2>1. ASSUME NEW c \in PermitCall, PermitStep(c) PROVE TypeOK'
    <3>1. CASE PermitArrives(c)
      BY <3>1 DEF PermitArrives
    <3>2. CASE PermitRefused(c)
      BY <3>2 DEF PermitRefused
    <3>3. ASSUME NEW p \in Permit, NEW g \in Gateway, NEW op \in Operation,
                 NEW revision \in 1..MaxEpoch, NEW grantLeft \in 0..MaxGrant,
                 PermitGranted(c, p, g, op, revision, grantLeft)
          PROVE  TypeOK'
      <4>1. [state |-> "active", gateway |-> g, operation |-> op,
             epoch |-> bundle.epoch, left |-> LifeOf(grantLeft)] \in Row
        BY TtlAssumption, GrantAssumption, EpochAssumption DEF Row, RowState, LifeOf
      <4>2. QED
        BY <3>3, <4>1 DEF PermitGranted
    <3>4. QED
      BY <2>1, <3>1, <3>2, <3>3 DEF PermitStep
  <2>2. ASSUME NEW u \in UpdateCall, UpdateStep(u) PROVE TypeOK'
    <3>1. CASE UpdateArrives(u) \/ UpdateRejected(u) \/ UpdateFails(u)
      BY <3>1 DEF UpdateArrives, UpdateRejected, UpdateFails, durable
    <3>2. CASE UpdateAccepted(u) \/ DrainWaits(u)
      BY <3>2, <2>p DEF UpdateAccepted, DrainWaits
    <3>3. ASSUME NEW ops \in SUBSET Operation, Activate(u, ops) PROVE TypeOK'
      <4>1. bundle' \in [epoch: 1..MaxEpoch, allowed: SUBSET Operation]
        BY <3>3, EpochAssumption DEF Activate
      <4>2. QED
        BY <3>3, <4>1, <2>p DEF Activate
    <3>4. QED
      BY <2>2, <3>1, <3>2, <3>3 DEF UpdateStep
  <2>3. ASSUME NEW g \in Gateway, GatewayStep(g) PROVE TypeOK'
    <3>1. ASSUME NEW p \in Permit, NEW report \in Report, OutcomeRecorded(p, g, report)
          PROVE  TypeOK'
      BY <3>1, <2>c DEF OutcomeRecorded
    <3>2. ASSUME NEW p \in Permit, OutcomeLost(p, g) PROVE TypeOK'
      BY <3>2, <2>c DEF OutcomeLost
    <3>3. ASSUME NEW revision \in 1..MaxEpoch, Acknowledge(g, revision) PROVE TypeOK'
      BY <3>3, EpochAssumption DEF Acknowledge
    <3>4. QED
      BY <2>3, <3>1, <3>2, <3>3 DEF GatewayStep
  <2>status. CASE Status
    BY <2>status, <2>p DEF Status
  <2>restart. CASE Restart \/ UNCHANGED vars
    BY <2>restart DEF Restart, durable, vars
  <2>tick. CASE Tick
    <3>1. ASSUME NEW p \in Permit
          PROVE  [permit[p] EXCEPT !.left = IF @ > 0 THEN @ - 1 ELSE 0] \in Row
      BY TtlAssumption DEF Row
    <3>2. permit' \in [Permit -> Row]
      BY <2>tick, <3>1 DEF Tick
    <3>3. QED
      BY <2>tick, <3>2 DEF Tick
  <2> QED BY <2>1, <2>2, <2>3, <2>status, <2>restart, <2>tick DEF Next
<1>3. QED
  BY <1>1, <1>2, PTL DEF Spec

-----------------------------------------------------------------------------
(* No permit that can still be used contradicts the policy in force: the   *)
(* statement LivePermitsObeyPolicy of controller.ts 90-104 and 134-139,    *)
(* for any number of requests and updates in flight and any restarts.  It  *)
(* is inductive as it stands: permits are granted under the bundle of that *)
(* moment, and a bundle is replaced only when no row is live.              *)
THEOREM FenceHolds == Spec => []LivePermitsObeyPolicy
<1>1. Init => LivePermitsObeyPolicy
  BY DEF Init, LivePermitsObeyPolicy, Live, NoRow
<1>2. TypeOK /\ LivePermitsObeyPolicy /\ [Next]_vars => LivePermitsObeyPolicy'
  <2> SUFFICES ASSUME TypeOK, LivePermitsObeyPolicy, [Next]_vars,
                      NEW q \in Permit, Live(q)'
               PROVE  permit'[q].epoch = bundle'.epoch /\ permit'[q].operation \in bundle'.allowed
    BY DEF LivePermitsObeyPolicy, Allows
  <2> USE DEF TypeOK, LivePermitsObeyPolicy, Live, Allows
  <2>p. CASE permit' = Pruned /\ UNCHANGED bundle
    BY <2>p DEF Pruned, Lapsed, Row
  <2>c. ASSUME NEW p \in Permit, permit' = Closed(p), UNCHANGED bundle
        PROVE  permit'[q].epoch = bundle'.epoch /\ permit'[q].operation \in bundle'.allowed
    BY <2>c DEF Closed, Row
  <2>u. CASE UNCHANGED <<permit, bundle>>
    BY <2>u
  <2>1. ASSUME NEW c \in PermitCall, PermitStep(c)
        PROVE  permit'[q].epoch = bundle'.epoch /\ permit'[q].operation \in bundle'.allowed
    <3>1. CASE PermitArrives(c) \/ PermitRefused(c)
      BY <3>1, <2>u DEF PermitArrives, PermitRefused
    <3>2. ASSUME NEW p \in Permit, NEW g \in Gateway, NEW op \in Operation,
                 NEW revision \in 1..MaxEpoch, NEW grantLeft \in 0..MaxGrant,
                 PermitGranted(c, p, g, op, revision, grantLeft)
          PROVE  permit'[q].epoch = bundle'.epoch /\ permit'[q].operation \in bundle'.allowed
      <4>1. CASE p = q
        BY <3>2, <4>1 DEF PermitGranted
      <4>2. CASE p # q
        BY <3>2, <4>2 DEF PermitGranted
      <4>3. QED
        BY <4>1, <4>2
    <3>3. QED
      BY <2>1, <3>1, <3>2 DEF PermitStep
  <2>2. ASSUME NEW u \in UpdateCall, UpdateStep(u)
        PROVE  permit'[q].epoch = bundle'.epoch /\ permit'[q].operation \in bundle'.allowed
    <3>1. CASE UpdateArrives(u) \/ UpdateRejected(u) \/ UpdateFails(u)
      BY <3>1, <2>u DEF UpdateArrives, UpdateRejected, UpdateFails, durable
    <3>2. CASE UpdateAccepted(u) \/ DrainWaits(u)
      BY <3>2, <2>p DEF UpdateAccepted, DrainWaits
    <3>3. ASSUME NEW ops \in SUBSET Operation, Activate(u, ops) PROVE FALSE
      BY <3>3 DEF Activate, ActiveRows, Pruned, Lapsed, Row
    <3>4. QED
      BY <2>2, <3>1, <3>2, <3>3 DEF UpdateStep
  <2>3. ASSUME NEW g \in Gateway, GatewayStep(g)
        PROVE  permit'[q].epoch = bundle'.epoch /\ permit'[q].operation \in bundle'.allowed
    BY <2>3, <2>c, <2>u DEF GatewayStep, OutcomeRecorded, OutcomeLost, Acknowledge
  <2>status. CASE Status
    BY <2>status, <2>p DEF Status
  <2>restart. CASE Restart \/ UNCHANGED vars
    BY <2>restart, <2>u DEF Restart, durable, vars
  <2>tick. CASE Tick
    BY <2>tick DEF Tick, Row
  <2> QED BY <2>1, <2>2, <2>3, <2>status, <2>restart, <2>tick DEF Next
<1>3. QED
  BY <1>1, <1>2, TypeCorrect, PTL DEF Spec

-----------------------------------------------------------------------------
(* How one step can change a permit row, an outcome and an acknowledgement *)
(* that are already there: the fact behind both theorems below.            *)
LEMMA RowsOnlyAdvance ==
  ASSUME TypeOK, [Next]_vars, NEW q \in Permit
  PROVE  /\ permit[q].state \in {"done", "expired"} => permit'[q].state = permit[q].state
         /\ permit[q].state # "none" => permit'[q].state # "none"
         /\ outcome[q] # NoReport => outcome'[q] = outcome[q]
         /\ outcome'[q] # outcome[q] =>
              permit[q].state # "none" /\ permit'[q].state \in {"done", "expired"}
<1> DEFINE Goal ==
       /\ permit[q].state \in {"done", "expired"} => permit'[q].state = permit[q].state
       /\ permit[q].state # "none" => permit'[q].state # "none"
       /\ outcome[q] # NoReport => outcome'[q] = outcome[q]
       /\ outcome'[q] # outcome[q] =>
            permit[q].state # "none" /\ permit'[q].state \in {"done", "expired"}
<1> USE DEF TypeOK
<1>p. CASE permit' = Pruned /\ UNCHANGED outcome
  BY <1>p DEF Pruned, Lapsed, Row
<1>u. CASE UNCHANGED <<permit, outcome>>
  BY <1>u
<1>1. ASSUME NEW c \in PermitCall, PermitStep(c) PROVE Goal
  <2>1. CASE PermitArrives(c) \/ PermitRefused(c)
    BY <2>1, <1>u DEF PermitArrives, PermitRefused
  <2>2. ASSUME NEW p \in Permit, NEW g \in Gateway, NEW op \in Operation,
               NEW revision \in 1..MaxEpoch, NEW grantLeft \in 0..MaxGrant,
               PermitGranted(c, p, g, op, revision, grantLeft)
        PROVE  Goal
    <3>1. CASE p = q
      BY <2>2, <3>1 DEF PermitGranted
    <3>2. CASE p # q
      BY <2>2, <3>2 DEF PermitGranted
    <3>3. QED
      BY <3>1, <3>2
  <2>3. QED
    BY <1>1, <2>1, <2>2 DEF PermitStep
<1>2. ASSUME NEW u \in UpdateCall, UpdateStep(u) PROVE Goal
  <2>1. CASE UpdateArrives(u) \/ UpdateRejected(u) \/ UpdateFails(u)
    BY <2>1, <1>u DEF UpdateArrives, UpdateRejected, UpdateFails, durable
  <2>2. CASE UpdateAccepted(u) \/ DrainWaits(u)
    BY <2>2, <1>p DEF UpdateAccepted, DrainWaits
  <2>3. ASSUME NEW ops \in SUBSET Operation, Activate(u, ops) PROVE Goal
    BY <2>3, <1>p DEF Activate
  <2>4. QED
    BY <1>2, <2>1, <2>2, <2>3 DEF UpdateStep
<1>3. ASSUME NEW g \in Gateway, GatewayStep(g) PROVE Goal
  <2>1. ASSUME NEW p \in Permit, NEW report \in Report, OutcomeRecorded(p, g, report)
        PROVE  Goal
    <3>1. CASE p = q
      <4>1. permit'[q].state = IF permit[q].state = "active" THEN "done" ELSE permit[q].state
        BY <2>1, <3>1 DEF OutcomeRecorded, Closed, Row
      <4>2. outcome[q] = NoReport /\ permit[q].state # "none"
        BY <2>1, <3>1 DEF OutcomeRecorded
      <4>3. permit[q].state \in RowState
        BY DEF Row
      <4>4. QED
        BY <4>1, <4>2, <4>3 DEF RowState
    <3>2. CASE p # q
      BY <2>1, <3>2 DEF OutcomeRecorded, Closed
    <3>3. QED
      BY <3>1, <3>2
  <2>2. ASSUME NEW p \in Permit, OutcomeLost(p, g) PROVE Goal
    BY <2>2 DEF OutcomeLost, Closed, Row
  <2>3. ASSUME NEW revision \in 1..MaxEpoch, Acknowledge(g, revision) PROVE Goal
    BY <2>3, <1>u DEF Acknowledge
  <2>4. QED
    BY <1>3, <2>1, <2>2, <2>3 DEF GatewayStep
<1>4. CASE Status
  BY <1>4, <1>p DEF Status
<1>5. CASE Restart
  BY <1>5, <1>u DEF Restart, durable
<1>6. CASE Tick
  BY <1>6 DEF Tick, Row
<1>7. CASE UNCHANGED vars
  BY <1>7, <1>u DEF vars
<1>8. QED
  BY <1>1, <1>2, <1>3, <1>4, <1>5, <1>6, <1>7 DEF Next

(* A stored report is never beside an active permit (controller.ts         *)
(* 119-121).  Inductive: a row without a report is the only one that can   *)
(* be opened, and a report is stored only once its row is closed.          *)
THEOREM ReportsClosePermits == Spec => []ReportedPermitsAreClosed
<1>1. Init => ReportedPermitsAreClosed
  BY DEF Init, ReportedPermitsAreClosed
<1>2. TypeOK /\ ReportedPermitsAreClosed /\ [Next]_vars => ReportedPermitsAreClosed'
  <2> SUFFICES ASSUME TypeOK, ReportedPermitsAreClosed, [Next]_vars,
                      NEW q \in Permit, outcome'[q] # NoReport
               PROVE  permit'[q].state \in {"done", "expired"}
    BY DEF ReportedPermitsAreClosed
  <2>1. CASE outcome'[q] = outcome[q]
    BY <2>1, RowsOnlyAdvance DEF ReportedPermitsAreClosed
  <2>2. CASE outcome'[q] # outcome[q]
    BY <2>2, RowsOnlyAdvance
  <2>3. QED
    BY <2>1, <2>2
<1>3. QED
  BY <1>1, <1>2, TypeCorrect, PTL DEF Spec

(* Acknowledgements follow the bundle's epoch, which no step lowers. *)
LEMMA AcksNeverAhead == Spec => [](\A g \in Gateway : ack[g] <= bundle.epoch)
<1> DEFINE AckInv == \A g \in Gateway : ack[g] <= bundle.epoch
<1>1. Init => AckInv
  BY DEF Init
<1>2. TypeOK /\ AckInv /\ [Next]_vars => AckInv'
  <2> SUFFICES ASSUME TypeOK, AckInv, [Next]_vars PROVE AckInv'
    OBVIOUS
  <2> USE DEF TypeOK
  <2>1. CASE UNCHANGED <<ack, bundle>>
    BY <2>1
  <2>2. ASSUME NEW ops \in SUBSET Operation, NEW u \in UpdateCall, Activate(u, ops)
        PROVE  AckInv'
    BY <2>2 DEF Activate
  <2>3. ASSUME NEW g \in Gateway, NEW revision \in 1..MaxEpoch, Acknowledge(g, revision)
        PROVE  AckInv'
    BY <2>3 DEF Acknowledge
  <2>4. QED
    BY <2>1, <2>2, <2>3 DEF Next, PermitStep, UpdateStep, GatewayStep, Status, Restart, Tick,
       PermitArrives, PermitRefused, PermitGranted, UpdateArrives, UpdateRejected,
       UpdateAccepted, DrainWaits, UpdateFails, OutcomeRecorded, OutcomeLost, durable, vars
<1>3. QED
  BY <1>1, <1>2, TypeCorrect, PTL DEF Spec

(* Closed permits, first reports and acknowledged epochs are never taken   *)
(* back, by any handler, in any order, across restarts (controller.ts 66,  *)
(* 79-89, 112-121).                                                        *)
THEOREM FinalRecords == Spec => RecordsAreFinal
<1> DEFINE Step ==
  /\ \A p \in Permit :
       /\ permit[p].state \in {"done", "expired"} => permit'[p].state = permit[p].state
       /\ outcome[p] # NoReport => outcome'[p] = outcome[p]
  /\ \A g \in Gateway : ack'[g] >= ack[g]
<1> DEFINE AckInv == \A g \in Gateway : ack[g] <= bundle.epoch
<1>1. TypeOK /\ AckInv /\ [Next]_vars => [Step]_vars
  <2> SUFFICES ASSUME TypeOK, AckInv, [Next]_vars PROVE Step
    OBVIOUS
  <2>1. ASSUME NEW p \in Permit
        PROVE  /\ permit[p].state \in {"done", "expired"} => permit'[p].state = permit[p].state
               /\ outcome[p] # NoReport => outcome'[p] = outcome[p]
    BY RowsOnlyAdvance
  <2>2. ASSUME NEW h \in Gateway PROVE ack'[h] >= ack[h]
    <3>1. CASE ack' = ack
      BY <3>1 DEF TypeOK
    <3>2. ASSUME NEW g \in Gateway, NEW revision \in 1..MaxEpoch, Acknowledge(g, revision)
          PROVE  ack'[h] >= ack[h]
      BY <3>2 DEF Acknowledge, TypeOK
    <3>3. QED
      BY <3>1, <3>2 DEF Next, PermitStep, UpdateStep, GatewayStep, Status, Restart, Tick,
         PermitArrives, PermitRefused, PermitGranted, UpdateArrives, UpdateRejected, Activate,
         UpdateAccepted, DrainWaits, UpdateFails, OutcomeRecorded, OutcomeLost, durable, vars
  <2>3. QED
    BY <2>1, <2>2
<1>2. QED
  BY <1>1, TypeCorrect, AcksNeverAhead, PTL DEF Spec, RecordsAreFinal

-----------------------------------------------------------------------------
(* Under the refinement mapping of Fence: which rows are live, and under   *)
(* which epoch each was granted.                                           *)
LiveSet == {p \in Permit : Live(p)}
GrantedUnder == [p \in Permit |-> permit[p].epoch]

(* A row that has not been inserted has the epoch 0 of NoRow, and which   *)
(* is what Fence!Grant asks of a permit it grants.                         *)
LEMMA FreshRows == Spec => [](\A p \in Permit : permit[p].state = "none" => permit[p].epoch = 0)
<1> DEFINE Fresh == \A p \in Permit : permit[p].state = "none" => permit[p].epoch = 0
<1>1. Init => Fresh
  BY DEF Init, NoRow
<1>2. TypeOK /\ Fresh /\ [Next]_vars => Fresh'
  <2> SUFFICES ASSUME TypeOK, Fresh, [Next]_vars, NEW q \in Permit, permit'[q].state = "none"
               PROVE  permit'[q].epoch = 0
    OBVIOUS
  <2> USE DEF TypeOK
  <2>1. permit[q].epoch = 0 /\ permit[q].state = "none"
    BY RowsOnlyAdvance
  <2>2. ASSUME NEW c \in PermitCall, NEW p \in Permit, NEW g \in Gateway, NEW op \in Operation,
               NEW revision \in 1..MaxEpoch, NEW grantLeft \in 0..MaxGrant,
               PermitGranted(c, p, g, op, revision, grantLeft)
        PROVE  permit'[q].epoch = 0
    <3>1. CASE p = q
      BY <2>2, <3>1 DEF PermitGranted
    <3>2. CASE p # q
      BY <2>2, <3>2, <2>1 DEF PermitGranted
    <3>3. QED
      BY <3>1, <3>2
  <2>3. CASE permit' = Pruned
    BY <2>3, <2>1 DEF Pruned, Lapsed
  <2>4. ASSUME NEW p \in Permit, permit' = Closed(p) PROVE permit'[q].epoch = 0
    BY <2>4, <2>1 DEF Closed, Row
  <2>5. CASE Tick
    BY <2>5, <2>1 DEF Tick, Row
  <2>6. CASE UNCHANGED permit
    BY <2>6, <2>1
  <2>7. QED
    BY <2>2, <2>3, <2>4, <2>5, <2>6 DEF Next, PermitStep, UpdateStep, GatewayStep, Status, Restart,
       PermitArrives, PermitRefused, UpdateArrives, UpdateRejected, Activate, Acknowledge,
       UpdateAccepted, DrainWaits, UpdateFails, OutcomeRecorded, OutcomeLost, durable, vars
<1>3. QED
  BY <1>1, <1>2, TypeCorrect, PTL DEF Spec

(* Closing, lapsing and time only take permits out of the live set, and    *)
(* leave the epochs they were granted under alone.                         *)
LEMMA RetiringSteps ==
  ASSUME TypeOK, UNCHANGED bundle,
         \/ permit' = Pruned
         \/ \E p \in Permit : permit' = Closed(p)
         \/ Tick
         \/ UNCHANGED permit
  PROVE  Fence!Next \/ UNCHANGED Fence!vars
<1> USE DEF TypeOK, Row
<1>1. ASSUME NEW q \in Permit PROVE permit'[q].epoch = permit[q].epoch /\ (Live(q)' => Live(q))
  BY DEF Pruned, Lapsed, Closed, Tick, Live
<1>2. GrantedUnder' = GrantedUnder
  BY <1>1 DEF GrantedUnder
<1>3. LiveSet' = LiveSet \ (LiveSet \ LiveSet')
  BY <1>1 DEF LiveSet
<1>4. (LiveSet \ LiveSet') \in SUBSET Permit
  BY DEF LiveSet
<1>5. Fence!Retire(LiveSet \ LiveSet')
  BY <1>2, <1>3 DEF Fence!Retire, GrantedUnder, LiveSet
<1>6. QED
  BY <1>4, <1>5 DEF Fence!Next

(* The controller implements the abstract fence (EpochFence): every step   *)
(* is a grant, a retirement, an advance with nothing outstanding, or a     *)
(* stutter.                                                                *)
THEOREM ControllerImplementsFence == Spec => ImplementsFence
<1> DEFINE Fresh == \A p \in Permit : permit[p].state = "none" => permit[p].epoch = 0
<1>1. Init => Fence!Init
  <2> SUFFICES ASSUME Init PROVE Fence!Init
    OBVIOUS
  <2>1. NoRow.state = "none" /\ NoRow.epoch = 0
    BY DEF NoRow
  <2>2. \A p \in Permit : permit[p] = NoRow
    BY DEF Init
  <2>3. bundle.epoch = 1
    BY DEF Init
  <2>4. GrantedUnder = [p \in Permit |-> 0]
    BY <2>1, <2>2 DEF GrantedUnder
  <2>5. LiveSet = {}
    BY <2>1, <2>2 DEF LiveSet, Live
  <2>6. QED
    BY <2>3, <2>4, <2>5 DEF Fence!Init, GrantedUnder, LiveSet
<1>2. TypeOK /\ Fresh /\ [Next]_vars => [Fence!Next]_Fence!vars
  <2> SUFFICES ASSUME TypeOK, Fresh, [Next]_vars PROVE Fence!Next \/ UNCHANGED Fence!vars
    OBVIOUS
  <2>1. ASSUME NEW c \in PermitCall, NEW p \in Permit, NEW g \in Gateway, NEW op \in Operation,
               NEW revision \in 1..MaxEpoch, NEW grantLeft \in 0..MaxGrant,
               PermitGranted(c, p, g, op, revision, grantLeft)
        PROVE  Fence!Next
    <3> USE DEF TypeOK, Row
    <3>1. LifeOf(grantLeft) > 0
      BY <2>1, TtlAssumption, GrantAssumption DEF PermitGranted, LifeOf
    <3>2. GrantedUnder[p] = 0
      BY <2>1 DEF PermitGranted, GrantedUnder
    <3>3. GrantedUnder' = [GrantedUnder EXCEPT ![p] = bundle.epoch]
      BY <2>1 DEF PermitGranted, GrantedUnder
    <3>4. LiveSet' = LiveSet \union {p}
      BY <2>1, <3>1 DEF PermitGranted, LiveSet, Live
    <3>5. Fence!Grant(p)
      BY <2>1, <3>2, <3>3, <3>4 DEF Fence!Grant, GrantedUnder, LiveSet, PermitGranted
    <3>6. QED
      BY <3>5 DEF Fence!Next
  <2>2. ASSUME NEW u \in UpdateCall, NEW ops \in SUBSET Operation, Activate(u, ops)
        PROVE  Fence!Next
    <3> USE DEF TypeOK, Row
    <3>1. LiveSet = {} /\ LiveSet' = {}
      BY <2>2 DEF Activate, ActiveRows, Pruned, Lapsed, LiveSet, Live
    <3>2. GrantedUnder' = GrantedUnder
      BY <2>2 DEF Activate, Pruned, GrantedUnder
    <3>3. bundle'.epoch = bundle.epoch + 1
      BY <2>2 DEF Activate
    <3>4. Fence!Advance
      BY <3>1, <3>2, <3>3 DEF Fence!Advance, GrantedUnder, LiveSet
    <3>5. QED
      BY <3>4 DEF Fence!Next
  <2>3. CASE UNCHANGED bundle /\ (\/ permit' = Pruned
                                  \/ \E p \in Permit : permit' = Closed(p)
                                  \/ Tick
                                  \/ UNCHANGED permit)
    BY <2>3, RetiringSteps
  <2>4. QED
    BY <2>1, <2>2, <2>3 DEF Next, PermitStep, UpdateStep, GatewayStep, Status, Restart, Tick,
       PermitArrives, PermitRefused, UpdateArrives, UpdateRejected, Acknowledge,
       UpdateAccepted, DrainWaits, UpdateFails, OutcomeRecorded, OutcomeLost, durable, vars
<1>3. QED
  BY <1>1, <1>2, TypeCorrect, FreshRows, PTL DEF Spec, ImplementsFence, Fence!Spec
-----------------------------------------------------------------------------
(* With one update in flight at a time, permits stay refused for as long   *)
(* as it waits: only a second one can clear the flag under it              *)
(* (controller.ts 91, 112, 136; rfcs/0007 line 30).                        *)
THEOREM LoneUpdateHoldsTheGate ==
  ASSUME \A u, v \in UpdateCall : u = v
  PROVE  Spec => []DrainHoldsTheGate
<1>1. Init => DrainHoldsTheGate
  BY DEF Init, DrainHoldsTheGate
<1>2. TypeOK /\ DrainHoldsTheGate /\ [Next]_vars => DrainHoldsTheGate'
  <2> SUFFICES ASSUME TypeOK, DrainHoldsTheGate, [Next]_vars PROVE DrainHoldsTheGate'
    OBVIOUS
  <2> USE DEF TypeOK, DrainHoldsTheGate
  <2>1. ASSUME NEW u \in UpdateCall, UpdateStep(u) PROVE DrainHoldsTheGate'
    <3>1. \A v \in UpdateCall : v = u
      OBVIOUS
    <3>2. QED
      BY <2>1, <3>1 DEF UpdateStep, UpdateArrives, UpdateRejected, UpdateAccepted,
         DrainWaits, Activate, UpdateFails
  <2>2. CASE UNCHANGED <<updatePending, updateCall>>
    BY <2>2
  <2>3. CASE Restart
    BY <2>3 DEF Restart
  <2>4. QED
    BY <2>1, <2>2, <2>3 DEF Next, PermitStep, GatewayStep, Status, Tick, PermitArrives,
       PermitGranted, PermitRefused, OutcomeRecorded, OutcomeLost, Acknowledge, vars
<1>3. QED
  BY <1>1, <1>2, TypeCorrect, PTL DEF Spec
=============================================================================
