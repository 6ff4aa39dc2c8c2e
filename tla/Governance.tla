----------------------------- MODULE Governance -----------------------------
(***************************************************************************)
(* TemporalGovernance (src/core/governance) with the capability tokens and *)
(* execution contracts of src/core/crypto: what a proposal needs to be     *)
(* reserved, for how long the contract it gets is good, and what must      *)
(* still hold when it is redeemed.  Signatures and hashes are taken to be  *)
(* unforgeable, so a token or contract is its content.                     *)
(***************************************************************************)
EXTENDS ExecutionTrace, FiniteSetsExt

CONSTANTS
  Proposal,
  Attr,        \* of each: [action, actor, resource, amount]; an action
               \* "probe" is a READ that binds the resource it looked at
  Rules,       \* set of [type, target, requires, scope, window, limit]
  Needs,       \* actions that require a capability from "probe"
  ContractTtl, CapabilityTtl, MaxClock

(* validateTemporalRule, metric and the constructor of TemporalGovernance. *)
ASSUME ProposalsAreFew == IsFiniteSet(Proposal)
ASSUME AmountsAreCounts == \A p \in Proposal : Attr[p].amount \in Nat
ASSUME RulesAreValid ==
  \A rule \in Rules : rule.window \in Nat \ {0} /\ rule.limit \in Nat
ASSUME LifetimesAreValid == ContractTtl \in Nat \ {0} /\ CapabilityTtl \in Nat \ {0}

VARIABLES clock, trace, tokens,
          contract    \* of each proposal: [from, end, tokens, sources] or none
governanceVars == <<clock, trace, tokens, contract>>

NoContract == [from |-> 0, end |-> 0, issued |-> 0, tokens |-> {}, sources |-> {}]

GovernanceInit == /\ clock = 0 /\ tokens = {}
                  /\ trace = [p \in Proposal |-> NoTrace]
                  /\ contract = [p \in Proposal |-> NoContract]

-----------------------------------------------------------------------------
(* verifyCapabilityToken: the window, and the payload's bound attribute. *)
TokenValid(t, p, now) == t.issued <= now /\ now < t.expires /\ t.bound = Attr[p].resource

(* Mutant: whoever presents a capability may use it. *)
CapabilitiesHoldOfAnyone(ts, p, now) ==
  /\ \A t \in ts : /\ TokenValid(t, p, now)
                   /\ trace[t.source].status = "SUCCESS" /\ trace[t.source].at <= t.issued
                   /\ t.source # p /\ Attr[t.source].action = "probe"
                   /\ t.bound = Attr[t.source].resource
  /\ Attr[p].action \in Needs => ts # {}

(* verifyCapabilities: presented tokens, their sources, and the required   *)
(* source actions of the proposal's own action.                            *)
CapabilitiesHold(ts, p, now) ==
  /\ \A t \in ts : /\ TokenValid(t, p, now)
                   /\ t.actor = Attr[p].actor /\ Attr[t.source].actor = t.actor
                   /\ trace[t.source].status = "SUCCESS" /\ trace[t.source].at <= t.issued
                   /\ t.source # p /\ Attr[t.source].action = "probe"
                   /\ t.bound = Attr[t.source].resource
  /\ Attr[p].action \in Needs => ts # {}

(* queryTrace for one rule, without the proposal itself. *)
Records(rule, p, now) ==
  {q \in Proposal \ {p} :
     /\ Attr[q].action = IF rule.type = "PRECEDING" THEN rule.requires ELSE rule.target
     /\ rule.scope = "ACTOR" => Attr[q].actor = Attr[p].actor
     /\ rule.scope = "RESOURCE" => Attr[q].resource = Attr[p].resource
     /\ trace[q].at <= now
     /\ IF rule.type = "PRECEDING" THEN trace[q].status = "SUCCESS" /\ trace[q].at + rule.window > now
        ELSE Counts(trace[q], now, rule.window)}

(* PRECEDING_EVENT_REQUIRED picks the latest record that matches. *)
Matching(rule, p, now) ==
  {q \in Records(rule, p, now) : Attr[q].resource = Attr[p].resource}
Sources(rule, p, now) ==
  {q \in Matching(rule, p, now) : \A r \in Matching(rule, p, now) : trace[r].at <= trace[q].at}

Weight(rule, q) == IF rule.type = "RATE" THEN 1 ELSE Attr[q].amount
Spent(rule, S) == MapThenSumSet(LAMBDA q : Weight(rule, q), S)

Applies(p) == {rule \in Rules : rule.target = Attr[p].action}

(* Mutant: what the proposal itself asks for is not added. *)
RulePassesBefore(rule, p, now) ==
  IF rule.type = "PRECEDING" THEN Sources(rule, p, now) # {}
  ELSE Spent(rule, Records(rule, p, now)) < rule.limit

(* evaluateTemporalRules, one rule. *)
RulePasses(rule, p, now) ==
  IF rule.type = "PRECEDING" THEN Sources(rule, p, now) # {}
  ELSE Spent(rule, Records(rule, p, now)) + Weight(rule, p) <= rule.limit

-----------------------------------------------------------------------------
(* The times a contract must not outlive. *)
Ends(p, ts, source, requested) ==
  {clock + ContractTtl} \cup requested
  \cup {trace[source[rule]].at + rule.window : rule \in DOMAIN source}
  \cup {t.expires : t \in ts}

Preceding(p) == {rule \in Applies(p) : rule.type = "PRECEDING"}

(* reserve(): in one transaction of the store.                             *)
Reserve(p) ==
  /\ trace[p] = NoTrace
  /\ \A rule \in Applies(p) : RulePasses(rule, p, clock)
  /\ \E ts \in SUBSET tokens, requested \in {{}, {clock + 1}},
        source \in [Preceding(p) -> Proposal] :
       /\ CapabilitiesHold(ts, p, clock)
       /\ \A rule \in DOMAIN source : source[rule] \in Sources(rule, p, clock)
       /\ LET end == Min(Ends(p, ts, source, requested))
          IN /\ clock < end
             /\ contract' = [contract EXCEPT ![p] =
                  [from |-> clock, end |-> end, issued |-> clock, tokens |-> ts,
                   sources |-> {source[rule] : rule \in DOMAIN source} \cup {t.source : t \in ts}]]
  /\ trace' = [trace EXCEPT ![p] = [status |-> "RESERVED", at |-> clock]]
  /\ UNCHANGED <<clock, tokens>>

(* assertCanUnlock: contract, capabilities and reservation, now.           *)
CanUnlock(p) ==
  /\ contract[p].from <= clock /\ clock < contract[p].end
  /\ \A s \in contract[p].sources :
       trace[s].status = "SUCCESS" /\ s # p /\ trace[s].at <= contract[p].issued
  /\ CapabilitiesHold(contract[p].tokens, p, clock)
  /\ trace[p].status = "RESERVED"

(* The execution is over: recorded as a success (possibly after the        *)
(* contract's end), as a failure, or cancelled.  The contract was local to *)
(* its call.                                                               *)
Finish(p) ==
  /\ trace[p].status = "RESERVED"
  /\ \E status \in {"SUCCESS", "FAILED"} :
       trace' = [trace EXCEPT ![p] = [status |-> status, at |-> clock]]
  /\ contract' = [contract EXCEPT ![p] = NoContract]
  /\ UNCHANGED <<clock, tokens>>

(* mintCapabilityToken: for a completed READ or PROBE that succeeded.      *)
Token(p) == [source |-> p, actor |-> Attr[p].actor, bound |-> Attr[p].resource,
             issued |-> clock, expires |-> clock + CapabilityTtl]
MayMint(p) == Attr[p].action = "probe" /\ trace[p].status = "SUCCESS"

(* mintResultCapabilities, once for a result. *)
Mint(p) ==
  /\ MayMint(p)
  /\ \A t \in tokens : t.source # p
  /\ tokens' = tokens \cup {Token(p)}
  /\ UNCHANGED <<clock, trace, contract>>

Tick == clock < MaxClock /\ clock' = clock + 1 /\ UNCHANGED <<trace, tokens, contract>>

GovernanceNext == Tick \/ \E p \in Proposal : Reserve(p) \/ Finish(p) \/ Mint(p)
GovernanceSpec == GovernanceInit /\ [][GovernanceNext]_governanceVars
-----------------------------------------------------------------------------
(* A contract is good for its whole life: what reserve() checked once      *)
(* still holds whenever a redemption in time asks assertCanUnlock, so no   *)
(* contract outlives its capabilities or its preconditions                 *)
(* (TemporalGovernance.ts:103-138).                                        *)
GoodUntilItsEnd ==
  \A p \in Proposal :
    trace[p].status = "RESERVED" /\ clock < contract[p].end =>
      /\ CanUnlock(p)
      /\ \A rule \in Preceding(p) : Sources(rule, p, clock) # {}

(* Successes in the window and open reservations never exceed a rule's     *)
(* budget, by actor, by resource or for all (temporal.ts:59-97).           *)
SameScope(rule, p, q) ==
  /\ rule.scope = "ACTOR" => Attr[q].actor = Attr[p].actor
  /\ rule.scope = "RESOURCE" => Attr[q].resource = Attr[p].resource
BudgetsHold ==
  \A rule \in Rules, p \in Proposal :
    rule.type # "PRECEDING" =>
      Spent(rule, {q \in Proposal : /\ Attr[q].action = rule.target /\ SameScope(rule, p, q)
                                    /\ Counts(trace[q], clock, rule.window)}) <= rule.limit

(* No one acts on a resource that they have not looked at: a proposal that *)
(* needs a capability follows a READ of its own resource by its own actor  *)
(* that had succeeded by then (TemporalGovernance.ts:65-97).               *)
EarnedByInspection ==
  \A p \in Proposal :
    trace[p].status = "RESERVED" /\ Attr[p].action \in Needs =>
      \E q \in contract[p].sources :
        /\ Attr[q].action = "probe" /\ trace[q].status = "SUCCESS"
        /\ Attr[q].actor = Attr[p].actor /\ Attr[q].resource = Attr[p].resource
        /\ trace[q].at <= contract[p].issued

(* What a reservation was granted for was earned, and lasts as long as its *)
(* contract (TemporalGovernance.ts:65-138).                                *)
AuthorityIsEarned == EarnedByInspection /\ GoodUntilItsEnd
=============================================================================
