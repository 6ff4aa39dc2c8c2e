---------------------------- MODULE GenuineChains ----------------------------
(***************************************************************************)
(* The two kinds of chains of hashes in the core: the events of an intent, *)
(* which a replay verifies (core/event), and the links of evidence that a  *)
(* caller collects (core/evidence).  They share nothing but what they are  *)
(* for.                                                                    *)
(***************************************************************************)
EXTENDS EventChain, EvidenceChain

(* What verifies is what was made.  A replay calls events intact exactly   *)
(* when they are the beginning of what was appended, and a capability's    *)
(* source verified only if it succeeded; a chain of evidence goes on       *)
(* verifying, unless the caller had frozen the outside of a payload himself*)
(* (ReplayEngine.ts:93-128, sdk/client.ts:44-66, EvidenceLink.ts:17-30).   *)
ChainsAreGenuine == IntactMeansGenuine /\ VerifiedSourceSucceeded /\ ChainsStaySound
=============================================================================
