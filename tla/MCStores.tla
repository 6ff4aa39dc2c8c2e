------------------------------ MODULE MCStores ------------------------------
(***************************************************************************)
(* What keeps evidence, and the governance and the admission that decide   *)
(* from it, for TLC, side by side in one run: "store" says which of them   *)
(* the behaviour is about, and never changes.  The variables of the others are in an initial*)
(* state.                                                                  *)
(***************************************************************************)
EXTENDS SqlEventStore, FileEventStore, InMemoryStore, GenuineChains, Governance, TLC

CONSTANTS t1, t2, t3, t4, t5,     \* transactions
          r1, r2, p1, p2,         \* reads and processes
          a, b, c, alice, bob,    \* proposals and actors
          w1, w2, w3, w4          \* appends to files

VARIABLES store,
          gatewayClock, gatewayTrace, grantEnd, admission, run    \* admission
gatewayVars == <<gatewayClock, gatewayTrace, grantEnd, admission, run>>
allVars == <<store, vars, memoryVars, filesVars, eventVars, evidenceVars, governanceVars, gatewayVars>>

SqlOff == Init /\ dialect = "sqlite"      \* no call is made

-----------------------------------------------------------------------------
In(i, s, n) == [intent |-> i, status |-> s, at |-> n]

(* SQL: two proposals race for one unit of budget in two processes, one of *)
(* them being completed by a third transaction; one plain read per process.*)
SqlPlan == t1 :> <<In(a, "none", 1), In(a, "RESERVED", 1)>>
        @@ t2 :> <<In(b, "RESERVED", 1)>>
        @@ t3 :> <<In(a, "FAILED", 2)>>
SqlProc == t1 :> p1 @@ t2 :> p2 @@ t3 :> p1 @@ r1 :> p1 @@ r2 :> p2

(* Memory: two actors, timestamps that are not in commit order, a success  *)
(* without a reservation, and a transaction refused at its second event.   *)
MemoryPlan == t1 :> <<In(a, "none", 1), In(a, "RESERVED", 2)>>
           @@ t2 :> <<In(b, "SUCCESS", 1)>>
           @@ t3 :> <<In(a, "RUNNING", 3), In(a, "SUCCESS", 4)>>
           @@ t4 :> <<In(c, "SUCCESS", 5)>>
           @@ t5 :> <<In(b, "none", 6), In(b, "FAILED", 6)>>

AgentOfMemory == a :> alice @@ b :> bob @@ c :> alice

(* Files: four appends, three of them to one intent. *)
FileOf == w1 :> a @@ w2 :> a @@ w3 :> a @@ w4 :> b

(* Governance: two probes of one disk by two actors, and payments of both  *)
(* that need one of the probes; a quota, a rate and a precondition.        *)
Wants == LET A(action, actor, amount) ==
               [action |-> action, actor |-> actor, resource |-> "disk", amount |-> amount]
         IN  "q1" :> A("probe", "ann", 0) @@ "q2" :> A("probe", "ben", 0)
             @@ "p1" :> A("pay", "ann", 2) @@ "p2" :> A("pay", "ann", 1)
             @@ "p3" :> A("pay", "ben", 1)
Rulebook == LET R(type, scope, window, limit) ==
                  [type |-> type, target |-> "pay", requires |-> "probe", scope |-> scope,
                   window |-> window, limit |-> limit]
            IN  {R("QUOTA", "ACTOR", 2, 2), R("RATE", "RESOURCE", 1, 2),
                 R("PRECEDING", "GLOBAL", 3, 0)}

(* Admission: three proposals for a rate of two, of which one is redeemed  *)
(* and ages out of the window while the others race; no controller.        *)
Admissions == INSTANCE ExecutionGateway WITH
  clock <- gatewayClock, trace <- gatewayTrace,
  Intent <- {"i1", "i2", "i3"}, Run <- {"r1"}, Limit <- 2, Window <- 1, GrantTtl <- 1,
  PermitTtl <- 1, Dispatch <- FALSE, EvidenceMayFail <- FALSE, MaxClock <- 3

(* Racing admissions cannot overspend the rate limit: successes in the     *)
(* window and open reservations together stay within it                    *)
(* (TemporalGovernance.reserve decides inside the transaction).            *)
QuotaHolds == Admissions!QuotaHolds

-----------------------------------------------------------------------------
(* The proposal that is redeemed is the first: they are alike. *)
OthersOff == /\ MemoryInit /\ FilesInit /\ EventsInit /\ EvidenceInit /\ GovernanceInit
             /\ Admissions!Init /\ run["r1"].intent = "i1"

StoresInit ==
  /\ OthersOff
  /\ \/ store = "sql" /\ Init
     \/ SqlOff /\ store \in {"memory", "files", "events", "evidence", "governance", "admission"}

StoresNext ==
  /\ UNCHANGED store
  /\ \/ /\ store = "sql" /\ Next
        /\ UNCHANGED <<memoryVars, filesVars, eventVars, evidenceVars, governanceVars, gatewayVars>>
     \/ /\ store = "memory" /\ MemoryNext
        /\ UNCHANGED <<vars, filesVars, eventVars, evidenceVars, governanceVars, gatewayVars>>
     \/ /\ store = "files" /\ FilesNext
        /\ UNCHANGED <<vars, memoryVars, eventVars, evidenceVars, governanceVars, gatewayVars>>
     \/ /\ store = "events" /\ EventsNext
        /\ UNCHANGED <<vars, memoryVars, filesVars, evidenceVars, governanceVars, gatewayVars>>
     \/ /\ store = "evidence" /\ EvidenceNext
        /\ UNCHANGED <<vars, memoryVars, filesVars, eventVars, governanceVars, gatewayVars>>
     \/ /\ store = "governance" /\ GovernanceNext
        /\ UNCHANGED <<vars, memoryVars, filesVars, eventVars, evidenceVars, gatewayVars>>
     \/ /\ store = "admission" /\ Admissions!Next
        /\ UNCHANGED <<vars, memoryVars, filesVars, eventVars, evidenceVars, governanceVars>>

StoresSpec == StoresInit /\ [][StoresNext]_allVars /\ Fairness

=============================================================================
