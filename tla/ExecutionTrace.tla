--------------------------- MODULE ExecutionTrace ---------------------------
(***************************************************************************)
(* The trace of a proposal as the evidence stores project it from events   *)
(* (src/core/event/trace.ts), and the rate limit decided from traces       *)
(* (src/core/governance/temporal.ts).  No state: the modules that keep     *)
(* traces extend this one.                                                 *)
(***************************************************************************)
EXTENDS Naturals, FiniteSets

TraceStatus == {"none", "RESERVED", "RUNNING", "SUCCESS", "FAILED"}

(* The status is that of the last trace event and "at" its timestamp. *)
TraceRecord == [status: TraceStatus, at: Nat]
NoTrace == [status |-> "none", at |-> 0]

(* Mutant: a finished execution can be finished again. *)
FollowsAlways(previous, status, now) == now >= previous.at

(* assertTraceTransition: what a store lets follow the previous record.    *)
(* (The intent snapshot is the same one in every model that uses this.)    *)
Follows(previous, status, now) ==
  \/ previous.status = "none"
  \/ /\ now >= previous.at
     /\ \/ previous.status = "RESERVED" /\ status # "RESERVED"
        \/ previous.status = "RUNNING" /\ status \in {"SUCCESS", "FAILED"}

(* matchesQuery with includeReservations: a success counts while it is in  *)
(* the window, an open reservation or execution whatever its age.          *)
Counts(record, now, window) ==
  \/ record.status = "SUCCESS" /\ record.at + window > now
  \/ record.status \in {"RESERVED", "RUNNING"}

(* The proposals that use up a RATE_LIMIT rule's budget now. *)
Used(trace, now, window) == {i \in DOMAIN trace : Counts(trace[i], now, window)}

(* evaluateTemporalRules for one RATE_LIMIT rule: is there room for i? *)
WithinLimit(trace, i, now, window, limit) ==
  Cardinality(Used(trace, now, window) \ {i}) + 1 <= limit
=============================================================================
