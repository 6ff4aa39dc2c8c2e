---------------------------- MODULE Applications ----------------------------
(***************************************************************************)
(* What surrounds the engine: the commands of the CLI, which run it without*)
(* governance and have a store of their own, the prototype in packages/,   *)
(* the replay viewer and the demo server.  They share no state.            *)
(***************************************************************************)
EXTENDS Effects

CONSTANTS Id, Mocks, Default, Length, MaxRequests,  \* of the viewer
          Posts, Critical, Tame, NoInstance,       \* of the demo server
          Proposal, Facts, Entity, GovernedFacts, MaxFactClock  \* of the packages

(* A replay has events: ReplayEngine throws when there are none (17).      *)
ASSUME ReplaysHaveEvents ==
  /\ Mocks \subseteq Id /\ Default \in Mocks /\ MaxRequests \in Nat
  /\ Length \in [Id -> Nat \ {0}]

(* An intent comes with a list of facts (packages/core).                   *)
ASSUME FactsAreLists ==
  \A p \in Proposal : Facts[p] \in Seq({Facts[p][k] : k \in DOMAIN Facts[p]})

VARIABLES evidence, invocation, mishaps, command,   \* the commands
          intentId, data, error, loading, requests, sent, posting,
          playbackActive, visibleCount, selected, interval, cut,  \* the viewer
          submission, scenario,                     \* the demo server
          events, proposal, answered                \* the packages

Commands == INSTANCE CommandLine WITH
  Governed <- FALSE, Window <- 1, MaxClock <- 0,
  history <- evidence, call <- invocation, faults <- mishaps
View == INSTANCE ReplayView
Demo == INSTANCE DemoServer WITH Post <- Posts, Unknown <- NoInstance

Packages == INSTANCE FactStore WITH
  Governed <- GovernedFacts, MaxClock <- MaxFactClock

(* Whoever posts an intent gives it an id of its own. *)
ASSUME PostsAreTheirOwn == Posts \cap (Demo!Scenario \X {1, 2}) = {}

-----------------------------------------------------------------------------
(* The exit code of a command agrees with the answer of process() and the  *)
(* replay of its events when its intent was submitted once (run.ts:46-67). *)
OutcomesAreTrue == Commands!AnswersAreTrue /\ Commands!ExitTellsWhatHappened

(* The pages show what is so.  A replay that is not being loaded is the one*)
(* that was asked for last, in whatever order the answers come, and without*)
(* playback all its events are there, unless the playback was stopped or   *)
(* its replay replaced under it; the second transfer of the demo is blocked*)
(* and its first one is not, and it terminates no instance that the same   *)
(* actor has not looked up, whoever posts what meanwhile (useReplay.ts:22- *)
(* 76, App.tsx:52-91, demo-server/server.ts:37-51, 106-118).               *)
PagesTellTheTruth ==
  /\ View!ShowsWhatWasAskedLast /\ View!EverythingIsThere
  /\ Demo!SecondTransferIsBlocked /\ Demo!TerminationsWereInspected

(* The store of the packages holds what was allowed, each proposal once and*)
(* in the order of the answers, though policies decide on what they were   *)
(* shown before; and the state of an entity is, type by type, the latest   *)
(* fact of those valid now (submitProposal.ts:7-35, resolveConflicts.ts:   *)
(* 3-10).                                                                  *)
FactsAreKept == Packages!ListIsWhatWasAllowed /\ Packages!StateIsTheLatestValidFact
=============================================================================
