------------------------------ MODULE AwsCloud ------------------------------
(***************************************************************************)
(* EC2 and STS as src/adapters/aws sees them: instances whose tags and     *)
(* state others change at any time, a lookup that may fail, and sessions   *)
(* restricted by the policy the gateway wrote for them.  The clock of AWS  *)
(* and of the process is one.                                              *)
(***************************************************************************)
EXTENDS Naturals, FiniteSets, FiniteSetsExt

CONSTANTS Instance,
          TagSets,           \* the tags an instance may have
          Required,          \* requiredResourceTag
          ContractTtl,       \* lifetime of an execution contract
          SessionTtl,        \* sessionDurationSeconds
          MaxClock           \* bound

VARIABLES clock, cloud       \* [state, tags] of each instance
cloudVars == <<clock, cloud>>

CloudInit == /\ clock = 0
             /\ cloud \in [Instance -> [state : {"running"}, tags : TagSets]]

-----------------------------------------------------------------------------
(* What AwsContextProvider.resolve may return for these ids: whatever the  *)
(* answer describes, be it only some of them or none, or, when the call    *)
(* throws, all the ids (state "unknown", no tags).                         *)
Described(ids) == [ok |-> TRUE, instances |-> [i \in ids |-> cloud[i]]]
Unknown(ids) == [ok |-> FALSE, instances |-> [i \in ids |-> [state |-> "unknown", tags |-> {}]]]
Lookups(ids) == {Described(seen) : seen \in SUBSET ids} \cup
                (IF ids = {} THEN {} ELSE {Unknown(ids)})

Forever == MaxClock + ContractTtl + 1     \* after every contract
NoContract == [from |-> 0, end |-> Forever]
Contracted(contract) == contract # NoContract
Contract == [from |-> clock, end |-> clock + ContractTtl]

(* Mutant: the session is restricted to the instances, not to the contract.*)
SessionPolicyLasting(ids, contract) ==
  [resources |-> ids, from |-> contract.from, until |-> Forever,
   tags |-> IF Contracted(contract) THEN {Required} ELSE {}]

(* generatePolicy.  Both the window and the tag are conditions of a        *)
(* statement that only a contract gets.                                    *)
SessionPolicy(ids, contract) ==
  [resources |-> ids, from |-> contract.from,
   until |-> IF Contracted(contract) THEN Min({contract.end, clock + ContractTtl}) ELSE Forever,
   tags |-> IF Contracted(contract) THEN {Required} ELSE {}]

InBounds(contract) == contract.from <= clock /\ clock < contract.end

(* issueIdentity, once AssumeRole is answered at clock; issuedAt was read  *)
(* and the policy was written when it was asked.                           *)
NoIdentity == [policy |-> SessionPolicy({}, NoContract), session |-> 0, expires |-> 0]
Identity(asked, policy, contract) ==
  [policy |-> policy, session |-> clock + SessionTtl,
   expires |-> IF Contracted(contract)
                 THEN Min({clock + SessionTtl, contract.end, asked + ContractTtl})
                 ELSE clock + SessionTtl]

(* AWS decides on a request of that session when it arrives. *)
Authorizes(identity, ids) ==
  /\ ids \subseteq identity.policy.resources
  /\ identity.policy.from <= clock /\ clock < identity.policy.until
  /\ clock < identity.session
  /\ \A i \in ids : identity.policy.tags \subseteq cloud[i].tags
Terminated(ids) == [i \in Instance |->
  IF i \in ids THEN [cloud[i] EXCEPT !.state = "gone"] ELSE cloud[i]]

-----------------------------------------------------------------------------
(* Others: tags are changed, an instance is stopped. *)
Retag(i, tags) == /\ cloud[i].state # "gone"
                  /\ cloud' = [cloud EXCEPT ![i].tags = tags] /\ UNCHANGED clock
Stop(i) == /\ cloud[i].state = "running"
           /\ cloud' = [cloud EXCEPT ![i].state = "stopped"] /\ UNCHANGED clock
Tick == clock < MaxClock /\ clock' = clock + 1 /\ UNCHANGED cloud

CloudNext == Tick \/ \E i \in Instance : Stop(i) \/ \E tags \in TagSets : Retag(i, tags)
=============================================================================
