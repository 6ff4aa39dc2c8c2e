------------------------------ MODULE Effects ------------------------------
(***************************************************************************)
(* Where the system touches the world: the engine starts an executor, and  *)
(* an adapter's request terminates an instance.                            *)
(***************************************************************************)
EXTENDS Engine, Terminations

(* At the moment of the effect: an executor is started, and an instance    *)
(* goes, only within the contract, however slow the store and the network  *)
(* were, and whatever was looked up before (IdentityManager.ts:57,         *)
(* AwsIdentityProvider.ts:106-111, aws-pilot.ts:146-147).                  *)
EffectsAreAllowed == StartsInTime /\ TerminationsAreAllowed
=============================================================================
