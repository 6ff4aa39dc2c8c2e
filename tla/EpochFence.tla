----------------------------- MODULE EpochFence -----------------------------
(***************************************************************************)
(* What the policy controller promises its gateways, without saying how:   *)
(* a dispatch authority is granted under the policy epoch of that moment,  *)
(* is given up or lapses once, and the epoch does not advance while any    *)
(* authority is outstanding.  No request, handler, database row or clock   *)
(* appears here.  PolicyController implements this module.                 *)
(***************************************************************************)
EXTENDS Naturals

CONSTANT Permit          \* identities of dispatch authorities

VARIABLES
  epoch,                 \* the policy epoch in force
  granted,               \* the epoch each authority was granted under, 0 if never
  outstanding            \* the authorities that may still be used

vars == <<epoch, granted, outstanding>>

Init ==
  /\ epoch = 1
  /\ granted = [p \in Permit |-> 0]
  /\ outstanding = {}

(* A new authority is granted, under the epoch in force. *)
Grant(p) ==
  /\ granted[p] = 0
  /\ granted' = [granted EXCEPT ![p] = epoch]
  /\ outstanding' = outstanding \union {p}
  /\ UNCHANGED epoch

(* Some authorities are reported finished, or lapse together. *)
Retire(S) ==
  /\ outstanding' = outstanding \ S
  /\ UNCHANGED <<epoch, granted>>

(* A new policy comes into force only when nobody holds an authority. *)
Advance ==
  /\ outstanding = {}
  /\ epoch' = epoch + 1
  /\ UNCHANGED <<granted, outstanding>>

Next ==
  \/ \E p \in Permit : Grant(p)
  \/ \E S \in SUBSET Permit : Retire(S)
  \/ Advance

Spec == Init /\ [][Next]_vars
=============================================================================
