SPECIFICATION StoresSpec
CONSTANTS
  t1 = t1  t2 = t2  t3 = t3  t4 = t4  t5 = t5
  r1 = r1  r2 = r2  p1 = p1  p2 = p2
  a = a  b = b  c = c  alice = alice  bob = bob
  w1 = w1  w2 = w2  w3 = w3  w4 = w4
  None = None
  Everyone = Everyone
  Tx = {t1, t2, t3}
  Reader = {r1, r2}
  Intent = {a, b}
  Plan <- SqlPlan
  ProcOf <- SqlProc
  Window = 5
  Limit = 1
  Work = {t1, t2, t3, t4, t5}
  Subject = {a, b, c}
  Script <- MemoryPlan
  Span = 2
  Cap = 1
  Agent = {alice, bob}
  AgentOf <- AgentOfMemory
  Times = {0, 1, 4, 5}
  Writer = {w1, w2, w3, w4}
  IntentOf <- FileOf
  NoEvent = NoEvent
  Body = {"received", "completed", "failed"}
  Completed = "completed"
  MaxEvents = 3
  MaxDamage = 2
  Payload = {"p", "q"}
  Trace = {"t", "u"}
  Resource = {"i", "j"}
  Signature = {"s"}
  MaxMade = 2
  MaxLinks = 2
  Proposal = {"q1", "q2", "p1", "p2", "p3"}
  Attr <- Wants
  Rules <- Rulebook
  Needs = {"pay"}
  ContractTtl = 2
  CapabilityTtl = 2
  MaxClock = 3
INVARIANTS
  SqlAnswersAreTrue QueriesAreExact FilesKeepChains ChainsAreGenuine
  BudgetsHold AuthorityIsEarned QuotaHolds
PROPERTIES
  ImplementsLog CallsReturn MemoryImplementsLog
\* All calls made, and the clock of governance at its bound.
CHECK_DEADLOCK FALSE
