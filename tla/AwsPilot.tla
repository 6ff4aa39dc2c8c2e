------------------------------ MODULE AwsPilot ------------------------------
(***************************************************************************)
(* terminate() of AwsPilot (src/gateway/aws-pilot.ts), called by the       *)
(* gateway with a granted contract and a fresh session: a guard of several *)
(* awaits, a dry run, the guard again, and the one mutating request, while *)
(* the policy and the instance change.  Clients make one attempt each.     *)
(***************************************************************************)
EXTENDS AwsCloud, Sequences

CONSTANT Target      \* config.instanceId

VARIABLES policy,    \* what the policy source would answer: does it allow
                     \* exactly the target?
          pilot
vars == <<clock, cloud, policy, pilot>>

(* "renewed": the policy has allowed the target at some time since the dry *)
(* run was answered (not in the code).                                     *)
Init == /\ CloudInit /\ policy \in BOOLEAN
        /\ \E optIn \in BOOLEAN :
             pilot = [optIn |-> optIn, stage |-> "start", step |-> 1, mutating |-> FALSE,
                      contract |-> NoContract, identity |-> NoIdentity, request |-> "none",
                      renewed |-> FALSE, outcome |-> "none"]

Moves(p) == pilot' = p /\ UNCHANGED <<clock, cloud, policy>>
Over(outcome) == [pilot EXCEPT !.stage = "over", !.outcome = outcome]

-----------------------------------------------------------------------------
(* The gateway issues the session under the contract of the grant, and     *)
(* calls terminate() within it.                                            *)
Called == /\ pilot.stage = "start"
          /\ Moves([pilot EXCEPT !.stage = "guard", !.contract = Contract,
                      !.identity = Identity(clock, SessionPolicy({Target}, Contract), Contract)])

(* guardBeforeAwsCall: assertPolicy, and resolve() with assertPolicy, the  *)
(* principal and the lookup.  Whatever fails is a definitive refusal.      *)
GuardSteps == <<"policy", "policy", "principal", "lookup">>
Live(found) == /\ found.ok /\ Target \in DOMAIN found.instances
               /\ found.instances[Target].state = "running"
               /\ Required \in found.instances[Target].tags
Guarded == IF pilot.step < Len(GuardSteps) THEN [pilot EXCEPT !.step = @ + 1]
           ELSE [pilot EXCEPT !.step = 1, !.stage = IF pilot.mutating THEN "mutate" ELSE "dryRun"]

GuardPasses ==
  /\ pilot.stage = "guard"
  /\ GuardSteps[pilot.step] = "policy" => policy
  /\ GuardSteps[pilot.step] = "lookup" => \E found \in Lookups({Target}) : Live(found)
  /\ Moves(Guarded)
GuardFails == pilot.stage = "guard" /\ Moves(Over("refused"))

(* Mutant: after the dry run, the mutating request is sent at once. *)
DryRunThenMutates ==
  /\ pilot.stage = "dryRun"
  /\ Authorizes(pilot.identity, {Target})
  /\ Moves(IF pilot.optIn THEN [pilot EXCEPT !.stage = "mutate", !.mutating = TRUE, !.renewed = policy]
           ELSE Over("validated"))

(* EC2 says that it would; only an opt-in goes on, to the guard again. *)
DryRun ==
  /\ pilot.stage = "dryRun"
  /\ Authorizes(pilot.identity, {Target})
  /\ Moves(IF pilot.optIn THEN [pilot EXCEPT !.stage = "guard", !.mutating = TRUE, !.renewed = policy]
           ELSE Over("validated"))
DryRunFails == pilot.stage = "dryRun" /\ Moves(Over("refused"))

Mutate == /\ pilot.stage = "mutate"
          /\ Moves([pilot EXCEPT !.stage = "sent", !.request = "sent"])

Arrive ==
  /\ pilot.request = "sent"
  /\ LET accepted == Authorizes(pilot.identity, {Target})
     IN /\ cloud' = IF accepted THEN Terminated({Target}) ELSE cloud
        /\ pilot' = [pilot EXCEPT !.request = IF accepted THEN "accepted" ELSE "denied"]
  /\ UNCHANGED <<clock, policy>>

(* A reply with a request id; or an error that is not definitive, which    *)
(* the reply may be lost for, too.                                         *)
Answered == /\ pilot.stage = "sent"
            /\ \/ pilot.request = "accepted" /\ Moves(Over("executed"))
               \/ Moves(Over("uncertain"))

(* Operators change the policy at any time.  (Nobody waits for terminate() *)
(* after the contract's end; it goes on regardless.)                       *)
PolicyChanges ==
  /\ policy' = ~policy
  /\ pilot' = [pilot EXCEPT !.renewed = @ \/ policy']
  /\ UNCHANGED cloudVars

Next == \/ CloudNext /\ UNCHANGED <<policy, pilot>>
        \/ PolicyChanges
        \/ Called \/ GuardPasses \/ GuardFails \/ DryRun \/ DryRunFails \/ Mutate \/ Arrive \/ Answered
Spec == Init /\ [][Next]_vars
-----------------------------------------------------------------------------
(* An error marked definitive is one: the gateway reports "failed" and its *)
(* permit as failed, so nothing may have been sent, nor be under way       *)
(* (aws-pilot.ts:53-56, Gateway.ts:282-296).                               *)
DefinitiveMeansUntouched ==
  pilot.outcome \in {"refused", "validated"} => pilot.request = "none" /\ cloud[Target].state # "gone"

(* The live guard is stale by the time the request arrives (aws-pilot.ts:  *)
(* 146-147), the session is not: the instance goes only within the         *)
(* contract, with its disposable tag at that very moment, and by opt-in.   *)
GuardAtTheEffect ==
  [][cloud[Target].state # "gone" /\ cloud'[Target].state = "gone" =>
       pilot.optIn /\ clock < pilot.contract.end /\ Required \in cloud[Target].tags]_vars

(* A policy that was withdrawn before the dry run was answered, and is not *)
(* restored, stops the termination (aws-pilot.ts:145).                     *)
WithdrawalIsNoticed == cloud[Target].state = "gone" => pilot.renewed
=============================================================================
