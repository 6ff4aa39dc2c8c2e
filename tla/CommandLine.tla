---------------------------- MODULE CommandLine ----------------------------
(***************************************************************************)
(* okg run, okg replay and POST /intent of okg serve (cli/commands) around *)
(* process(): each submits an intent, reads its events back, and says by   *)
(* an exit code or a status what became of it.  The events are read after  *)
(* process() is over, when other submissions of the same id may have gone  *)
(* on.  preview evaluates alone and leaves nothing behind.                 *)
(***************************************************************************)
EXTENDS Engine

VARIABLE command   \* [Call -> what the command has said]

commandVars == <<vars, command>>

CommandInit ==
  /\ Init
  /\ command = [c \in Call |-> [said |-> "nothing", outcome |-> "none", exit |-> 0, status |-> 0]]

Replays(c) == FinalOutcome(history[call[c].intent])

(* Mutant: whatever is no success exits alike. *)
ExitCodeOfAnswer(outcome, answer) == IF answer = "success" THEN 0 ELSE 1

(* run: the exit code follows the replay when that says blocked, and the   *)
(* result of process() otherwise; serve: the result alone.                 *)
ExitCode(outcome, answer) ==
  IF outcome = "blocked" THEN 1 ELSE IF answer = "success" THEN 0 ELSE 2

StatusCode(answer) == IF answer = "success" THEN 200 ELSE 409

(* process() returned, and the replay is read: it throws when there is no  *)
(* event, or the first one cannot be used.                                 *)
Speak(c) ==
  /\ Over(c) /\ command[c].said = "nothing"
  /\ call[c].answer \in {"success", "blocked", "failed", "refused"}
  /\ command' = [command EXCEPT ![c] =
       IF history[call[c].intent] = <<>>
         THEN [said |-> "error", outcome |-> "none", exit |-> 2, status |-> 500]
         ELSE [said |-> "decision", outcome |-> Replays(c),
               exit |-> ExitCode(Replays(c), call[c].answer), status |-> StatusCode(call[c].answer)]]
  /\ UNCHANGED vars

(* process() itself threw: main() prints the error and exits with 2, the   *)
(* server answers 500.                                                     *)
SpeakError(c) ==
  /\ call[c].answer = "thrown" /\ command[c].said = "nothing"
  /\ command' = [command EXCEPT ![c] =
       [said |-> "error", outcome |-> "none", exit |-> 2, status |-> 500]]
  /\ UNCHANGED vars

CommandNext ==
  \/ Next /\ UNCHANGED command
  \/ \E c \in Call : Speak(c) \/ SpeakError(c)

CommandSpec == CommandInit /\ [][CommandNext]_commandVars

-----------------------------------------------------------------------------
(* Of an intent submitted once, exit code 0 says that it was executed with *)
(* success, 1 that it was blocked before it was executed, and the word     *)
(* printed is the same answer (run.ts:46-67, serve.ts:52-59).              *)
ExitTellsWhatHappened ==
  \A c \in Call :
    command[c].said = "decision" /\ Alone(c)
    => /\ command[c].exit = 0 <=> call[c].effected /\ call[c].answer = "success"
       /\ command[c].exit = 1 => ~call[c].started
       /\ command[c].exit = 0 <=> command[c].outcome = "allowed"
=============================================================================
