# OpenKedge, verified

TLA+ models of OpenKedge, the TLC configurations that check them on small
instances, and theorems about them that the TLA+ proof system checks for every
value of the constants. Paths below are relative to the repository's root;
`controller.ts`, `client.ts`, `Gateway.ts` and so on are under `src/`.

## 1. The system

OpenKedge lets an untrusted agent propose a dangerous operation (the pilot
terminates one EC2 instance) and decides, records and carries it out itself. A
proposal is *admitted* (evaluated, and its part of a rate limit reserved), which
yields a signed, short-lived, one-use *grant*; the grant is *redeemed*, which
calls the adapter and records what happened. Several gateways may take their
policy from one controller, which also has the last word before each dispatch.

| Component | State | Operations | Hard behaviour | What makes it correct |
|---|---|---|---|---|
| Policy controller (`control-plane/controller.ts`) | SQLite: bundle, permits, acknowledgements, outcomes. Memory: `updatePending` | permit, outcome, ack, policy update, status | handlers interleave at each body read; an update sleeps until permits are gone; restart forgets `updatePending`; two-statement writes | no live permit of an older policy; records final; updates end |
| Policy client (`control-plane/client.ts`) | cached bundle, acknowledged epoch, state file | `currentFor`, `begin`, `finish` | concurrent calls on one cache and file; late answers; crash between rename and acknowledgement; lease | stored epoch monotonic; nothing shown before it is stored; fresh answers |
| Gateway (`gateway/Gateway.ts`) | flags of each redemption; the trace in the evidence store | `admit`, `execute`, `replay`, `status` | the worker outlives the call that timed out; several processes redeem one grant; evidence or controller unavailable; uncertain adapter | one invocation per grant; a refusal has no effect; evidence agrees with the answer |
| Identity manager (`core/identity`) | the timer and the abort signal of one use | `withIdentity` | the timer races the worker | no call outlives its contract |
| Temporal governance (`core/governance`) | none of its own: rules over the trace | `evaluateProposal`, `reserve`, `assertCanUnlock` | admissions race for a budget; reservations outlive the window | the budget is never overspent, and comes back when it should |
| Evidence trace and stores (`core/event`) | append-only events, their hashes, trace indexes | `append`, `transaction`, `getTrace`, `queryTrace` | concurrent writers; rollback; a file store without locking | append-only, contiguous, queries agree across stores |
| Replay (`core/event/ReplayEngine.ts`) | none | `replayIntent` | events appended by two activities in either order; damaged copies | the outcome is what was answered; an intact chain is a genuine one |
| Engine (`core/engine/OpenKedgeEngine.ts`) | local to `process` | `process` | timeout against a late executor; cancellation that cannot be recorded | answers are true; uncertain work keeps its reservation; every call ends |
| Capabilities (`core/crypto`) | none | mint, verify | expiry between check and use; reuse by others | only successful reads of the same actor authorise |
| Evidence chain, sovereign proxy (`core/evidence`) | in-memory chain, names | append, sign, verify, mask | payload objects shared with the caller | a chain goes on verifying |
| Blast radius, context, evaluation | none | pure | the context is stale, incomplete, or could not be had | of what was described, no more goes than allowed |
| AWS adapters, pilot (`adapters/aws`, `gateway/aws-pilot.ts`) | none | look up, assume role, terminate | errors before and after the mutating call; late requests; tags that change | effects only within the contract; outcomes are true |
| Gateway server, policy file (`gateway/policy.ts`, `policy-cli.ts`) | one file | read, replace | overlapping commands, deaths | a read gets one whole policy |
| CLI and SDK (`cli/`, `sdk/`) | flag "packs uploaded" | run, preview, serve, replay | overlapping evaluations; a policy server that restarts; files that move | what the operator wrote is what is read; exit codes agree with the evidence |
| `packages/` | a list of facts | `submitProposal`, reducers | decisions on stale contexts | the list is what was allowed |
| `apps/` | React state; one in-memory store | viewer, demo scenarios | answers out of order; posts between a scenario's steps | the last choice is shown; the scenarios end as described |
| `conformance/`, `schemas/`, `examples/` | fixtures | | | |

How they meet: a gateway reads its policy through the client, the client asks the
controller over HTTP; `execute` runs a *worker* through the identity manager,
which races it against a timer; worker and main line share three flags and the
evidence store; before the adapter call the worker asks the controller for a
permit and afterwards reports the outcome; an update at the controller waits for
the permits.

## 2. Modules

| Module | Models | Lines of code it reads |
|---|---|---|
| `EpochFence` | what the controller promises: authorities are granted under the epoch in force, and the epoch advances only when none is outstanding | (abstract) |
| `PolicyController` | the controller; implements `EpochFence` | `controller.ts` 53–154 |
| `PolicyControllerProofs` | theorems about it | |
| `PolicyClient` | one gateway's policy client, the controller and the network as it sees them | `client.ts`, `controller.ts` 78–89 |
| `PolicyClientProofs` | theorems about it | |
| `ExecutionTrace` | the trace projection, the transitions a store accepts, what a rate limit counts | `trace.ts`, `temporal.ts` |
| `ExecutionGateway` | admission and redemption, with `withIdentity`, `reserve` and the store | `Gateway.ts` 130–302, `IdentityManager.ts` 27–79, `TemporalGovernance.ts` 98–135 |
| `ExecutionGatewayProofs` | theorems about it: one use of a grant; what the answers mean | |
| `EvidenceLog` | what a store of evidence promises: whole transactions, each decided on the log it is added to | (abstract) |
| `SqlEventStore` | the SQLite and Postgres stores; implements `EvidenceLog` | `SqlEventStore.ts`, `trace.ts` 46–56 |
| `SqlEventStoreProofs` | theorems about it, with the refinement | |
| `InMemoryStore` | the in-memory store with its indexes; implements `EvidenceLog` | `InMemoryIEECStore.ts` |
| `FileEventStore` | the command line's store | `FileEventStore.ts` |
| `EventChain` | verification of a chain of events and of a capability's source | `ReplayEngine.ts` 93–128, `EventHasher.ts`, `sdk/client.ts` 44–66 |
| `EvidenceChain` | links, chains of them, masked names | `core/evidence` |
| `GenuineChains` | both kinds of chains together, and what they promise | (the two above) |
| `EvidenceProofs` | theorems about the in-memory store, the files and the chains, with the refinement of the first | |
| `Replay`, `Engine`, `CommandLine` | the outcome of a replay; `process` with its identity, timer and worker; the commands around both | `ReplayEngine.ts` 38–154, `OpenKedgeEngine.ts`, `IdentityManager.ts`, `cli/commands` |
| `Terminations`, `Effects` | the adapters and the pilot side by side, and what they promise; the effects of the engine and of these two | (the modules above and below) |
| `EngineProofs` | theorems about the engine, its commands and terminations | |
| `Governance` | all rule types, capabilities, contracts | `core/governance`, `capabilities.ts`, `executionContracts.ts` |
| `GovernanceProofs` | theorems about budgets, capabilities and contracts, and about sums over sets | |
| `AwsCloud`, `AwsAdapters`, `AwsPilot` | EC2 and STS as called (external); the library's adapters with blast radius and preview; the pilot's `terminate` | `adapters/aws`, `core/blast`, `aws-pilot.ts` |
| `PolicyFile` | the gateways' policy file and its command | `policy.ts`, `policy-cli.ts` |
| `OpaEvaluator`, `CliConfig`, `SimpleYaml`, `CommandArguments` | policy packs; how a command finds and reads its configuration and its arguments | `opa.ts`, `loader.ts`, `runtime.ts` 176–211, `cli/index.ts` |
| `FactStore` | the prototype in `packages/` | `submitProposal.ts`, the reducers |
| `ReplayView`, `DemoServer` | the viewer; the demo server's scenarios | `App.tsx`, `useReplay.ts`, `server.ts` |
| `Applications` | the commands with their own store, the viewer, the demo server and the packages together, and what they promise | (the modules above) |
| `OperatorInput` | the last three of the row on configuration together, and what they promise | (the modules above) |
| `ApplicationProofs` | theorems about the applications, the packages, the policy packs, the policy file and the operator's input | |
| `MCPolicyController`, `MCExecutionGateway` | symmetry sets for TLC | |
| `MCPolicyClient` | the settings of the client's runs: calls that race, calls that follow one another | |
| `MCStores` | the stores, the chains, governance and the gateway's admissions, side by side in one run | |
| `MCParts` | all other parts, with the gateway's redemptions and the controller under fairness, side by side in one run | |

### PolicyController

Node runs a handler without interruption between two awaits. There are two awaits
that matter: the read of the request body (`"reading"`), and the 5 ms sleep of an
update that waits for permits (`"draining"`). Each action is one uninterrupted
stretch. `updatePending` is tested when a request arrives (`PermitArrives`,
`UpdateArrives`) and not again. `Activate` is the look at the permits that finds
none, together with the signing and storing that follow it without an await.
`Restart` loses memory and handlers and keeps the four tables; `OutcomeLost` is a
failure between the two statements of an outcome. Rows keep the time left to
`expires_at`, so the state space needs no clock. Whoever may send requests is
known, so authentication does not appear; a row also remembers its operation,
which the code checks but does not store, so that the invariant can speak of it.

### PolicyClient

`call[c]` is one call of `currentFor`; each action is the code between two awaits
of one call: the read of the state file, the request, the decision about the
answer, write-and-rename, directory sync and install, acknowledgement. `seen` is
history: the bundles that were in force at some moment of the call. An
acknowledgement whose caller gave up stays in `strayAcks` and may arrive later.
`RestoreBackup` lets the controller forget bundles, the case for which the client
has its rollback check. Unparsable or wrongly signed answers are failed calls.
`setting` says what the behaviour is about and never changes: whether calls may
overlap, whether the controller may be restored, whether a directory sync may fail,
and how many bundles and faults there are. `Orderly` is calls that do not overlap
on a directory that syncs.

### ExecutionGateway

One `run` is one call of `execute`, in any gateway process on the same store. It
is two activities: `main`, and `work`, the function handed to `withIdentity`.
They share `started`, `invoked` and `succeeded` (`Gateway.ts` 216–218). When the
timer fires (`Timeout`) the main line goes on, and the worker too: it does not look
at the abort signal. The catch clause reads the flags at the time it runs
(`Caught`), and the result depends on them at the time it is computed
(`Concluded`, `Unrecorded`), so the worker can change the answer in between.
`effected` is the truth about the target, which the code cannot see.

`Dispatch` says whether a controller is consulted, `EvidenceMayFail` whether the
store can fail. With a controller, `PermitIssued` and `PermitReceived` use its
clock and the gateway's as one: the hosts' clocks are assumed to agree. Policy
revision, target state, blast radius, judgment and assurance are free choices
(`CheckFails`, `RevalidateFails`, `Deny`): the model has every combination of
their outcomes. The audit events of `withIdentity` are part of `Unlock` and
`Revoke`. The answer `validated` of a dry run is a case of `executed`. The timer
is set to the grant's `notAfter`: the pilot's identities live as long as the
grant, and `maxDurationMs` is the rest of it.

`Revoke` waits for the worker's one-use transaction: the store's mutex is FIFO and
the worker asked first. This is the SQLite store of the MCP server; with the
PostgreSQL store a connection pool takes the mutex's place and this order is not
guaranteed. `Confirm` without a controller is one step with the adapter call,
since nothing is awaited in between but a value that is already there.

### Stores

`EvidenceLog` is what everything above relies on: a log to which a transaction
adds all of its events or none, when every transition and budget decision it took
is true of the log as it is then. In `SqlEventStore` a transaction is many steps:
it waits for the mutex and the lock, decides (`Decide`: previous event, trace,
transition), inserts, commits or rolls back; processes die, locks time out, a
commit may fail. `dialect` says which of the two stores it is, and never changes.
`rows`, the committed rows of the table, are the abstract log. `InMemoryStore` keeps the
code's four structures and its order of updates; its log is the list of events.
`FileEventStore` has no transactions: an append reads, then truncates, then
writes; `raced` is history and remembers which appends overlapped another one.

### Engine and commands

`Engine` is `process()` from the first record to the closing one. A call is two
activities, as in the gateway. Every append may be refused, fail, or fail after it
was stored (`RecordFails`); the call's process may die (`Crash`). The executor
keeps the contract of `docs/temporal-invariants.md` 177–179 (`success: false` means
no effect) and may never answer. The repository's `AwsExecutor` does not keep it
(`adapter_failure`); that is in `AwsAdapters`, and the engine is what a user gets
with an executor that does.
With `Governed = FALSE` the trace rules are off. `Replay` is a pure operator over
the events; `CommandLine` adds what each command says after `process()` is over.

### Governance and AWS

`Governance` decides a reservation in one step, as the transaction does, over the
traces of all proposals; `Finish` and `Mint` are the rest of a life. In `AwsCloud`
others retag and stop instances at any time, and a session policy is what
`generatePolicy` writes: EC2 decides by it when the request *arrives*. A look-up may
describe all the instances, some, or none without an error, or fail for all of them
(`Lookups`); the context provider takes the first three for the truth. `AwsPilot`
is `terminate` await by await, while the policy and the instance change.

### Policies, configuration, packages, applications

Each is one small machine of the code between awaits, with whoever else changes
the same file, server or page: other commands (`PolicyFile`), a restart of OPA
(`OpaEvaluator`), an editor of files (`CliConfig`), other proposals (`FactStore`),
the user and the network (`ReplayView`), other posts (`DemoServer`). `SimpleYaml`
and `CommandArguments` are parsers taken one line, or word, at a time and compared
with a definition that looks at the whole input. In `DemoServer` the posts are the
two scenarios' own kinds of intents; that anybody may post a termination of the
action type `ec2:TerminateInstances`, which the demo's rules do not govern, is left
out.

## 3. Runs

| Run | Checks | Instance |
|---|---|---|
| `controller` | `TypeOK`, `LivePermitsObeyPolicy`, `ReportedPermitsAreClosed`, `RecordsAreFinal`, `ImplementsFence` | 2 permits, 2 permit requests, 2 updates, 2 operations, 3 epochs |
| `client` | `TypeOK`, `DurableFirst`, `NoEquivocation`, `FreshAnswer`, `OrderlyEpochMonotonic`, `AcknowledgementConverges` | 3 bundles; one call at a time with 2 faults and restored backups; or 2 racing calls with 1 fault and a sync that may fail; under fairness |
| `gateway` | `TypeOK`, `OneInvocation`, `RefusalIsFinal`, `ExecutedIsRecorded`, `TraceNeverReopens`, `CalledInTime` | 1 grant, 3 calls, controller, failing store |
| `stores` | `ImplementsLog`, `SqlAnswersAreTrue`, `CallsReturn`, `MemoryImplementsLog`, `QueriesAreExact`, `FilesKeepChains`, `ChainsAreGenuine`, `BudgetsHold`, `AuthorityIsEarned`, `QuotaHolds` | SQL, in both dialects: 3 transactions and 2 reads in 2 processes; memory: 5 transactions of 3 proposals, queries bounded by `Times`; files: 4 appends; chains of 3 events with 2 damages; 2 links; governance: 5 proposals of 2 actors, 3 rules; admissions at a gateway: 3 proposals, limit 2, 1 redemption |
| `parts` | see below | 14 parts, each with its own small instance |

`MCStores` and `MCParts` put models that share no state side by side: a variable
says in every state which one the behaviour is about and never changes, the
variables of the others are off (the modules that `MCStores` and `MCParts` extend
stay in their initial state: the stores, the chains and governance; the engine, the
adapters and the pilot, the applications with the packages, the policy packs and the
policy file), and variables of one name are shared. A state of
the suite is a state of one part, so the run checks each part exactly as a run of
its own would. Their properties name what has to hold across parts of one kind:

| Property of `parts` | What it says |
|---|---|
| `AnswersAreTrue` | replay and answer agree, a refusal is final (`Engine`) |
| `BudgetFollowsEffects` | budget comes back only where nothing happened, and stays only for a reason (`Engine`) |
| `EveryCallEnds` | `process` and `execute` return although executors do not (`Engine`, `ExecutionGateway`) |
| `EffectsAreAllowed` | at the moment of the effect the contract is valid and the tags are right (`Engine`, `AwsAdapters`, `AwsPilot`) |
| `OutcomesAreTrue` | the exit code of a command agrees with answer and replay (`CommandLine`) |
| `TerminationsAreTrue` | a success is one, a definitive failure left no request behind, of the instances that were described no more go than the blast radius allows, and a withdrawn policy is noticed (`AwsAdapters`, `AwsPilot`) |
| `PacksDecide` | overlapping evaluations know every pack; a server without packs denies (`OpaEvaluator`) |
| `OperatorIsUnderstood` | the first configuration file that is there is the one that counts; lines and words are read as written (`CliConfig`, `SimpleYaml`, `CommandArguments`) |
| `PolicyReadsAreWhole` | no torn policy, no revision for two policies (`PolicyFile`) |
| `FactsAreKept` | the list is what was allowed, the state is derived from the facts valid now (`FactStore`) |
| `PagesTellTheTruth` | the replay asked for last is shown, completely (`ReplayView`); the demo's second transfer is blocked, and it terminates only what was inspected (`DemoServer`) |
| `UpdatesGetTheirTurn` | the wait of an update ends even if no gateway ever reports an outcome (`PolicyController`: 2 permits, 1 request, 1 update, 3 epochs) |
| `DrainHoldsTheGate` | with one update at a time, `updatePending` covers the whole wait (the same) |

In `stores`, `BudgetsHold` says that rules of every scope hold their budgets, and
`AuthorityIsEarned` that capabilities come from the actor's own successful reads and
outlive the contract. `QuotaHolds` is about the gateway, where admissions race for
the last unit while redemptions finish, fail and age out.

Each exception named in a property is a state that TLC reaches: a chain whose
payload was frozen by the caller stops verifying, overlapping appends do lose
events, a lookup that fails or leaves an instance out lets a critical one go, one
that leaves instances out lets more go than `maxAllowed`, an OPA server that loses
packs in the middle of an upload allows what a pack denies.

Seven more runs are those in which a statement of the documentation or of a comment
is violated:

| Run | Statement | What the code does |
|---|---|---|
| `controller_gate` | RFC 0007: a redemption during an update fails with `POLICY_UPDATE_PENDING` | two updates share the flag; the first to activate clears it while the second still waits, and permits are issued again |
| `client_rollback` | README: gateways persist a monotonic epoch | two calls compare with the cache, then write; the older bundle is renamed last |
| `gateway_late` | `IdentityManager.ts` 57: slow storage must not extend the contract | without a controller nothing checks the time between the transaction and the adapter call, and the worker is not stopped by the timeout |
| `gateway_uncertain` | `docs/temporal-invariants.md`: uncertain work keeps its reservation | an adapter error after the call is recorded with `success: false`, which releases it |
| `gateway_rejection` | the same: a failure before invocation releases budget | `ExecutionRejected` is no trace event; the reservation of an expired grant counts for ever |
| `adapter_failure` | the same: executors return `success: false` only when they know that the operation had no effect | `AwsExecutor` returns it for every error, that of a lost answer to a termination included |
| `default_allow` | `runtime.ts` 206: "No policy provider configured; default allow applied" | it is applied, and said, for every provider but `opa` when the context is not that of AWS, also for the `cedar` of `loader.ts` 8 |

Three more disagreements were met and have no run of their own: a permit request
whose body is being read when an update starts to wait is still granted (RFC 0007:
an update "stops issuing new permits"; the update waits for this permit too, so
`LivePermitsObeyPolicy` is not affected); with a directory sync that fails after
the rename, even serial calls can store an older epoch (set `syncFails` in
`Serial` and drop it from `Orderly`); and `RefusalIsFinal` needs the controller when the store can
fail: without one, a call that timed out and could not record its failure answers
`rejected` while its worker goes on to the adapter (set `Dispatch = FALSE` in
`gateway`; with `EvidenceMayFail = FALSE` as well it holds again).

### Bounds

Two permits and two requests are enough for a request that overlaps an update and
a permit of the update before it; three epochs for two consecutive updates. A
permit's life of 2 under grants of 0 to 3 has permits cut by their grant, permits
cut by `PermitTtl`, and grants already over. Two calls of the client are what a
lost update needs, and three bundles let a call be two behind. Three redemptions
let one win while one replays and one was killed. Limit 2 with three proposals has
the last place contested; a window of 1 and a clock up to 3 let successes age out
while reservations stay, and one redemption is enough to have both. The stores'
three SQL transactions are a reservation, a rival for the last unit of budget in
the other process, and the completion that frees it; the in-memory plan commits
successes out of timestamp order and has a transaction refused at its second
event, and its `Times` lie before, between, on and after its timestamps. Engine: two calls of the same or of different proposals, budget for one,
one fault anywhere, a contract of one unit of a clock of two. Governance: five
proposals of two actors. AWS: two instances, a clock that passes the contract's
end. Policy packs: three evaluations, three packs, one restart. Policy file: three
commands. Parsers: every input of four lines or words. `MaxEpoch`, `MaxBundles`,
`MaxFaults`, `MaxClock`, `MaxGrant`, `MaxEdits`, `MaxRestarts`, `MaxRequests`,
`MaxArgs`, `MaxLines`, `MaxEvents`, `MaxDamage`, `MaxMade`, `MaxLinks` and the size
of `Permit` bound what the code leaves unbounded.
Deadlock checking is off in the gateway's runs, `stores`, `parts`, `adapter_failure`
and `default_allow` only: there the clock ends and every call may have returned.

### Fairness

Controller (in `parts`): time passes, and a sleeping update is woken (its `setTimeout`), both
weakly fair. Nothing is assumed of gateways. Client: a call that is under way
proceeds (a request answers or is aborted after 1.5 s), and the gateway keeps
being used. Gateway: time passes, and both activities take their next step (the
store gives up on its lock after 5 s, a controller request after 1.5 s), weakly
fair; the adapter owes no answer. `stores`: a statement that was sent is answered,
and a free mutex is handed on, per transaction and read; no process is obliged to
die. `parts`: the engine's main line, the recording of a completion and the clock go
on; the executor owes no answer, and the gateway and the controller as above.
`EveryCallEnds` is one formula for a call of the engine and one of the gateway, since
the part of a behaviour never changes. The violation runs with temporal properties are
under the same fairness.

## 4. Proofs

`PolicyControllerProofs`, for any sets of permits, gateways, operations, requests
and any bounds, from the constants' assumptions (`PermitTtl`, `MaxGrant` and
`MaxEpoch` positive; some gateway and some operation; `NoReport` is no report):

- `TypeCorrect`: `TypeOK` is inductive.
- `FenceHolds`: `LivePermitsObeyPolicy`. Inductive as it stands, on top of
  `TypeOK`: a permit is inserted under the bundle of that moment in one stretch,
  and a bundle is replaced only when no row is live. `updatePending` plays no part,
  which is why neither a restart nor two updates in flight can break it.
- `ReportsClosePermits`: `ReportedPermitsAreClosed`. A row is closed in the same
  step, or an earlier one, than its report is stored.
- `FinalRecords`: `RecordsAreFinal`. It rests on `RowsOnlyAdvance` (what one step
  can do to a row and to a report) and `AcksNeverAhead` (acknowledgements never
  exceed the bundle's epoch, which never falls).
- `ControllerImplementsFence`: `ImplementsFence`, a refinement proof. It needs
  `FreshRows` (a row not inserted has epoch 0, which the fence asks of a grant)
  and the lemma that closing, lapsing and time are steps of `Retire`.
- `LoneUpdateHoldsTheGate`: `DrainHoldsTheGate`, when there is one update call; with
  two it is false (`controller_gate`).

`PolicyClientProofs`, for any calls, bundles and faults, in every setting:

- `TypeCorrect`: types alone are not inductive, since an epoch could outgrow its
  bound; `Numbered` adds that no identity and no epoch exceeds the number of bundles
  signed, and `Named` that a call past its request has a bundle.
- `AnswersAreFresh`: `FreshAnswer`. `SeenByCall` says that a call under way has seen
  the bundle in force and the one it works on, in all places between request and
  answer. It holds of racing calls too.
- `DurableComesFirst` (`DurableFirst`), `NeverEquivocates` (`NoEquivocation`) and
  `EpochNeverGoesBack` (`OrderlyEpochMonotonic`): one invariant, `InOrder`. At most
  one call is under way; between its rename and its install the cache may be behind
  the file, otherwise they are equal; `Place` says what a call may rely on where it
  is (it compared with the file that is still there), and acknowledgements on the
  wire are of bundles no newer than the file. A restored controller is no case of
  its own: the comparison with the cache is with all the gateway ever stored.

`SqlEventStoreProofs`, for any transactions, reads, processes and plans, in both
dialects, from `CallsAreApart` and `PlansAreInputs`:

- `TypeCorrect`, `OneWriter` (only one transaction has uncommitted rows, the one that
  is open) and `AnswersAreTrue` (`SqlAnswersAreTrue`).
- `LogImplemented`: `ImplementsLog`, the refinement of `EvidenceLog`. The invariant is
  `Inv`: the open transaction is the one with the lock (`Exclusive`), only it has
  uncommitted rows (`Clean`), on SQLite it heads its process's queue (`Heads`), which
  is why no read looks through its connection; what it has inserted follows the
  committed rows one legal event after the other (`Sound`), what it has decided
  across its await and not yet inserted is still true (`Current`), and a call that
  has not ended has no committed row (`Unseen`). A commit is then a commit of the
  log, with the same decisions, and no other step changes `rows`.

`ExecutionGatewayProofs`, for any proposals, calls and bounds:

- `TypeCorrect`, `GrantsAreOneUse` (`OneInvocation`) and `TracesAreFinal`
  (`TraceNeverReopens`). `OneInvocation` is not inductive: it says nothing of the
  trace, which is what stops a second call. `Inv` adds that a call exists only
  under a granted proposal, that a proposal not yet granted has no trace, that a
  call which consumed its grant has the trace past `RESERVED`, that only such a
  call is invoked, and that two calls of one proposal have not both consumed it.
  The trace never returns to `RESERVED`, so the second transaction fails.

and from the same `Inv`:

- `NeverCalledLate` (`CalledInTime`) and `RefusalsAreFinal` (`RefusalIsFinal`),
  both under `Dispatch`; `gateway_late` and §3 show that without a controller they
  do not hold. The invariant is `AllTimely`: a worker that has not called the
  adapter either has its call still waiting for it, or the grant's time is over
  (it went on after a timeout) and then no permit is live, since a permit ends no
  later than its grant. So an answer computed from `invoked = false` stays true.
- `SuccessIsReal` (`ExecutedIsRecorded`), with or without a controller. The
  invariant is `AllHonest`: a worker completes only after the target changed, and
  the main line goes on without an error only after `SUCCESS` was stored; that it
  stays stored is `FinalStep`.
- `QuotaIsNeverOverspent` (`QuotaHolds`), for a finite set of proposals: only
  `Reserve` adds to what uses up the budget, and it decides in the same
  transaction; every other step and the passing of time only remove from it
  (`QuotaKept`).

The steps of one call are shown to be `Progress` (the call is left in order, the
others, the clock and the grants alone) once, and both invariants follow from it.

`GovernanceProofs`, for any finite set of proposals and any rules, amounts, windows and
lifetimes that `validateTemporalRule`, `metric` and the constructor accept
(`ProposalsAreFew`, `AmountsAreCounts`, `RulesAreValid`, `LifetimesAreValid`):

- `ContractsStandAlways`: `Inv`, inductive. A token says of its source what is so and
  stays so (`TokensAreTrue`); the sources and tokens of an open contract are genuine and
  older than the contract, none of them ends before it does, and each precondition has a
  source whose window is not over before the contract is (`Granted`). `reserve` takes the
  minimum of all these ends, which is what makes it true; successes and tokens are never
  taken back, which is what keeps it true (`GrantsStand`).
- `AuthorityEarned` (`AuthorityIsEarned`), from `Inv`. That the latest matching record
  still exists (`Sources`) needs a maximum of the timestamps, hence `Least`.
- `BudgetsAreKept` (`BudgetsHold`), inductive on top of `Inv`: only `Reserve` adds to what
  a rule counts, and whoever is in the scope of the new proposal is in the scope that the
  reservation summed over; the clock and the ends of executions only take away.

The sum is a fold over a finite set. What is needed of it (`SpentStep`: it may leave out
any one element; `SpentIsMonotone`) is proved without induction: of the sets for which it
fails, if there are any, take a smallest one (`Minimal`, from the well-foundedness of
strict inclusion), and show that it cannot fail there.

`EvidenceProofs`, for any appends and files, for any transactions, scripts, keys and
bounds of a query, and for any events, links and damage:

- `ChainsAreKept` (`FilesKeepChains`). `FileInv` says that an append which has met no
  other one is alone at its file (`Alone`), that the file is then empty as long as it
  writes (`Emptied`), and that the event of such an append is, once acknowledged, in the
  file and in what everyone else has read of it since (`Kept`).
- `QueriesExact` (`QueriesAreExact`). `IndexOf` says what the indexes are of a log: the
  last traces are its last traces; every success list is sorted, of its key only, and
  lists each proposal of the key whose last trace is a success at that time (stale
  entries are allowed: the query sifts them out by `latest`); a reservation is there
  exactly while the last trace is open. `IndexGoesOn` shows that one event keeps this,
  `IndexOfAll` that a transaction does, and `StoreQueryIs` that the slice found by
  halving, sifted by `latest`, is what `matchesQuery` says of the last traces.
- `MemoryLogImplemented` (`MemoryImplementsLog`), a refinement proof. In `MemoryInv`,
  `Buffered` says that a transaction sees its own events after the committed ones,
  `Running` that they were legal and numbered in turn, `Queued` and `Unseen` that none
  runs twice. What `Accepts` asks of the indexes is what the log asks of its events
  (`AcceptsIsLegal`).

- `ChainsVerifyWhatWasMade` (`ChainsAreGenuine`). The invariant of the events is that
  the appended ones are a chain (`Chained`) and that damage makes up no hash: every event
  of the copy has the hash of an appended one (`EventOf`). An event whose own hash is
  right is therefore the appended one (`RightHashIsGenuine`), and the links leave each
  only its own place: the first that were out of place would name a predecessor that is
  not before it (`IntactIsInPlace`). That the stable sort loses no event
  (`OrderedHasThemAll`) is a counting argument: ranks are different and there are as
  many as places. The invariant of the links is that the outside of every linked
  payload is frozen, and its inside too unless the caller froze it (`FrozenByWhom`).

`FirstAfter` is a recursive function and a commit is a fold, and both are proved about
without an induction theorem. That halving ends is a witness (`SearchExists`: the search
that answers outright takes the same steps), and that every search answers alike takes
the shortest interval for which two would not (`SearchesAgree`); the fold over the first
n events exists and has the index property for a least-number reason of the same kind.

`EngineProofs`, for any calls, proposals, limits, contracts and faults, with or without
temporal governance. Each theorem about the engine assumes `PositiveTtl`, which the constructor of
`TemporalGovernance` insists on (36):

- `TypeCorrect`: with `Sane`, what the variables of one call say of each other (only a
  call whose executor was started has a worker or an effect, only one with an
  identity has a contract, only one never started is refused or blocked).
- `BudgetFollows` (`BudgetFollowsEffects`), of executors that report a failure only of
  what had no effect (`adapter_failure` shows one that does not). The invariant about a governed engine is
  `Governing`: of the calls of one proposal only one gets past `receive` (`Sole`,
  from `Known`: its proposal has events, and a second `receive` is refused); before
  it reserves, its trace has no status (`Unreserved`); a trace that says `FAILED` is
  of a call with no effect and no worker that could still have one (`Freed`); and a
  call that ended without starting has cancelled its reservation (`Settled`).
- `AnswersTold` (`AnswersAreTrue`). `Faithful` relates the stored events to the
  variables of the call, for a call nobody else writes for: `Told` after it was
  received, `Untold` before.
- `ExitsTell`: `AnswersAreTrue` and `ExitTellsWhatHappened`. A command speaks when the
  call is over, and then its answer, its effect and its events are final, so what was
  said stays so (`CommandInv`). An intent whose only call was not received has no event,
  and one whose only call was refused has no evaluation (`Silent`), so the replay cannot
  say "allowed" of it.
- `EffectsAllowed` (`EffectsAreAllowed`): `StartsInTime` from `Sane` and the recheck of
  the time in the step that starts the executor, and `TerminationsAllowed` from the
  invariants of the next item.
- `TerminationsTrue` (`TerminationsAreTrue`), of the two specifications of `Terminations`
  together, from `CloudIsBounded` alone. `AdaptersInv`: the request leaves after all the
  rest (`ProposalInTurn`), with the proposal's instances, of which those the answer
  described were judged (`Seen`: all of them when the look-up failed), under a
  session no wider and no longer than the contract (`ProposalJudged`, `Restricts`), and
  an instance is gone only if EC2 accepted it (`GoneAreRequested`). The bound is on
  what was described: of an answer that leaves instances out nothing more can be said. `PilotInv` says the
  same of the pilot's target, and that past the second reading of the policy
  (`Committed`) the policy has allowed the target at some time since the dry run was
  answered. What a session may do is settled when it is issued; what the theorem adds is
  that nothing later widens it, however long the request was on its way and whatever
  became of the instances.

All steps of a call are shown once to be a `Turn`: the call's record before and after,
with the event that was stored in between or none. The invariants are then shown to
survive turns and not some thirty actions each.

`ApplicationProofs`, about the policy packs for any packs, evaluations and restarts;
`PacksAlwaysDecide` is `PacksDecide`, both of these together:

- `PacksAreKnown` (`AnswersKnowEveryPack`), for a non-empty sequence of packs.
  `Uploaded` says that, as long as there was no restart, the flag means that the
  server has all packs, that an evaluation has uploaded what it has sent, and that
  one which asks was preceded by a complete upload.
- `LostPacksDeny` (`LosesPacksClosed`), when the pack that allows is uploaded last,
  as it is of the packs in `policies/aws`. `Closed` says that a server that has this
  pack has them all, unless it lost some in the middle of an upload.

and for any commands and policy documents of any length:

- `ReadsAreWhole` (`EveryReadIsWhole`, the invariant in `PolicyReadsAreWhole`). Every
  command writes a temporary file of its own, so what it renames is its own complete
  document.
- `RevisionsNamePolicies` (`PolicyReadsAreWhole`), with the revision's being computed
  from the whole document.

for any replays, requests and answers, and for any posts to the demo server:

- `PagesTrue` (`PagesTellTheTruth`), of the two specifications side by side. `ViewInv`
  of the viewer: a request that is not cancelled is for the intent that is selected, so
  whatever answer comes last it is that one's; and what the player shows fits the replay
  on display (`Fits`), after each batch of updates with its effects (`PlayFits`).
  `DemoInv` of the demo: as long as the second transfer is undecided nobody else knows
  the account (`OwnAccount`), so what counts against its budget is nothing, and then the
  first transfer alone (`Budget`, with `SpentOnce`: the fold over a set of at most one
  transfer); a termination that is reserved was preceded by a look of the same actor,
  which is never taken back (`Looked`). It rests on `PostsAreTheirOwn`: who posts an
  intent gives it an id that is not one of the scenarios'.

and for any commands, intents and faults:

- `OutcomesTold` (`OutcomesAreTrue`), which is `ExitsTell` of `EngineProofs` applied to
  an engine without governance that has a store of its own. `Applications` has this
  engine as an instance of `CommandLine`, the theorem comes from an instance of
  `EngineProofs`: that both have the same steps is `TheSameCalls` and `TheSameCommands`,
  action by action.

and for what an operator writes, of any length:

- `OperatorUnderstood` (`OperatorIsUnderstood`), of the three specifications of
  `OperatorInput` together. `LookupInv`: of the names that were wanted, those that were
  there all along are still to be tried, since a name is passed over only when it is
  absent at that moment, and the configuration of a command that is ready is that of
  the name it stopped at. `YamlInv`: the stack is the sections that are open, in their
  order (`OpenLines`, `Indented`), and a line of any indent closes an end of it. The
  last is part of the invariant because the innermost section that stays open would
  have to be found by induction over the stack otherwise. `ArgumentsInv`: of the words
  before the next one each is used as it will be in the end, and none has the next one
  as its value (`ValueWords`, `Positionals`, `Flags`). It rests on `OperatorWritesText`:
  candidates are a list, and an indent is a number of spaces.

and for the store of the packages, with any proposals, facts and entities:

- `FactsKept` (`FactsAreKept`). `FactInv`: the events are the answered proposals in
  their order, each of them allowed and none twice (`AnswersInOrder`); a proposal is
  allowed in the step that appends it, however old the context is that its policy saw.
  The state of an entity is two recursions, over its events (`StateOf`) and over the
  facts of one (`Written`), written as functions. What they compute is `TellsLatest`
  and `Overwrites`. The library's induction theorems cannot be used here, as they take
  an operator; instead `FirstOutside` looks at the shortest beginning of the list that
  would not have the property (`Least`, from the well-foundedness of `<`), and
  `WritesExist` and `EntityWritesExist` build the recursive functions the same way. It
  rests on `FactsAreLists`: an intent comes with a list of facts.

Model-checked only: the liveness properties (`UpdatesGetTheirTurn`,
`AcknowledgementConverges`, `CallsReturn`, `EveryCallEnds`), since liveness under
fairness is out of this prover's reach.

## 5. Not modelled

Signatures, hashes and canonical JSON (an answer is genuine or refused; a hash is
the tuple of what is hashed); HTTP authentication and the plumbing of the MCP
server; environment variables; the wording of output; the default context provider
and evaluator, which have one answer; layout, styles and example data of the
viewer; `src/runtime/server.ts` and `apps/reference-server`, which pass requests
on; `conformance/`, `schemas/` and `examples/`, fixtures and scripts that drive the
system from outside.

Hazards that were met and have no property, because nothing in the repository
promises otherwise or the models abstract from what would show them:

- `replay.ts` 13: the command exits 0 for an intent that failed.
- `run.ts` 47: an id submitted again exits by its first submission's outcome.
- `policy-cli.ts` 11: of two overlapping commands the second overwrites the
  first one's change, be it a deny-all.
- `serve.ts` 27: the configuration is read a second time for host and port.
- `loader.ts` 268: file names that differ in replaced characters get one pack id.
- `cli/index.ts` 32 and 42: text after a second `=` is dropped; an empty value sets
  the flag to true and is read again as a positional.
- `EvidenceLink.ts` 193: relinking keeps a signature made for another hash.
- `buildContext.ts` 5: the store has no `getDerivedState`, so the tags that
  `CedarPolicyAdapter` looks at are never there.
- `App.tsx` 46: a scenario that ends late selects its replay over the user's.
- `mcp-server.ts` 76: the status is put together from two readings with an await
  between them.

## 6. Plan

1. `ControlPlane`: gateways' redemptions against `PolicyController` itself, with
   adapter calls that outlive their permits: what an activation promises about
   calls already under way (RFC 0007's "ordering boundary").
2. `Engine` over the stores of `SqlEventStore` instead of atomic records.
