---------------------------- MODULE Terminations ----------------------------
(***************************************************************************)
(* The two ways in which the repository terminates an EC2 instance: through*)
(* the library's adapters, and through the gateway's pilot adapter.  Each  *)
(* has a cloud and a clock of its own here.                                *)
(***************************************************************************)
EXTENDS Naturals, FiniteSets

CONSTANTS Instance, TagSets, Required, ContractTtl, SessionTtl, MaxCloudClock,   \* as in AwsCloud
          MaxAllowed, AllowHighRisk,    \* of the adapters
          Target                        \* of the pilot

ASSUME CloudIsBounded ==
  /\ IsFiniteSet(Instance) /\ Target \in Instance /\ MaxAllowed \in Nat
  /\ {ContractTtl, SessionTtl, MaxCloudClock} \subseteq Nat

VARIABLES cloudClock, cloud, request,           \* the adapters
          pilotClock, pilotCloud, source, pilot \* the pilot

Adapters == INSTANCE AwsAdapters WITH
  clock <- cloudClock, call <- request, MaxClock <- MaxCloudClock
Pilot == INSTANCE AwsPilot WITH
  clock <- pilotClock, cloud <- pilotCloud, policy <- source, MaxClock <- MaxCloudClock

-----------------------------------------------------------------------------
(* What is said of a termination is so.  A success is one; a proposal that *)
(* was blocked, or ended before its request was sent, had no effect and    *)
(* will have none; after an error marked definitive nothing was sent.  Of  *)
(* the instances the look-up described no more go than the blast radius    *)
(* policy allows, and no others when it failed (an answer without an error *)
(* that leaves some out is believed, and those go beyond the bound); and a *)
(* policy that was withdrawn before the dry run was answered, and is not   *)
(* restored, stops the pilot (AwsExecutor.ts:96-151, AwsContextProvider.ts:*)
(* 63-84, BlastRadiusEstimator.ts:11-40, aws-pilot.ts:53-56, 145,          *)
(* Gateway.ts:282-296).                                                    *)
TerminationsAreTrue ==
  /\ Adapters!OutcomeIsTrue /\ Adapters!BlastIsBounded
  /\ Pilot!DefinitiveMeansUntouched /\ Pilot!WithdrawalIsNoticed

(* At the moment it happens, a termination is allowed.  A governed one is  *)
(* within its contract and finds the required tag in place, though the     *)
(* live guard is stale by then; a critical instance goes only if it became *)
(* critical after it was looked up, or the look-up failed or left it out;  *)
(* the pilot terminates by opt-in only (AwsIdentityProvider.ts:106-111,    *)
(* AwsContextProvider.ts:63-84, aws-pilot.ts:146-147).                     *)
TerminationsAreAllowed ==
  Adapters!LateRequestsAreRefused /\ Adapters!CriticalNeedsAGap /\ Pilot!GuardAtTheEffect
=============================================================================
