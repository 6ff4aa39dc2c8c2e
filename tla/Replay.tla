------------------------------- MODULE Replay -------------------------------
(***************************************************************************)
(* ReplayEngine (src/core/event/ReplayEngine.ts): what the stored events   *)
(* of one intent are said to mean.  An event is kept as the fields of its  *)
(* payload that the outcome is computed from; "none" is undefined.         *)
(***************************************************************************)
EXTENDS Naturals, Sequences

Evaluation == {"none", "allowed", "denied"}
Result == {"none", "success", "failure"}

(* Fields are taken from the last event that has them. *)
LastOf(events, field) ==
  LET given == {j \in DOMAIN events : events[j][field] # "none"}
  IN IF given = {} THEN "none"
     ELSE events[CHOOSE j \in given : \A k \in given : k <= j][field]

(* Mutant: a success is reported before any error is looked for. *)
FinalOutcomeHopeful(events) ==
  LET evaluation == LastOf(events, "evaluation")
      result == LastOf(events, "result")
  IN CASE evaluation = "allowed" /\ result = "success" -> "allowed"
       [] \E j \in DOMAIN events : events[j].error -> "failed"
       [] evaluation = "denied" -> "blocked"
       [] result = "failure" -> "failed"
       [] OTHER -> "unknown"

(* computeFinalOutcome: the first question that applies decides. *)
FinalOutcome(events) ==
  LET evaluation == LastOf(events, "evaluation")
      result == LastOf(events, "result")
  IN IF \E j \in DOMAIN events : events[j].error THEN "failed"
     ELSE IF evaluation = "denied" THEN "blocked"
     ELSE IF evaluation = "allowed" /\ result = "success" THEN "allowed"
     ELSE IF result = "failure" THEN "failed"
     ELSE "unknown"
=============================================================================
