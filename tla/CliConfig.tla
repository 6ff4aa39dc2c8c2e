------------------------------ MODULE CliConfig ------------------------------
(***************************************************************************)
(* How a command finds its configuration and what it then evaluates with   *)
(* (cli/utils/loader.ts, createPolicyEvaluator in cli/utils/runtime.ts).   *)
(* Files are written, removed and moved by others while it looks.          *)
(***************************************************************************)
EXTENDS Naturals, Sequences, SequencesExt

CONSTANTS Candidates,   \* the names that are tried, in their order
          Config,       \* what a file can hold: <<policy provider, context provider>>
          MaxEdits

VARIABLES disk,         \* [name -> a configuration, or what is wrong]
          edits, stayed,   \* stayed: the names that were there all along
          cli

vars == <<disk, edits, stayed, cli>>

Names == Range(Candidates)
NoConfig == <<"none", "none">>
Absent == <<>>
Unreadable == <<"unreadable">>

Init ==
  /\ disk \in [Names -> {Absent, Unreadable} \cup Config]
  /\ edits = 0 /\ stayed = {n \in Names : disk[n] # Absent}
  /\ \E names \in {Candidates} \cup {<<n>> : n \in Names} :
       cli = [pc |-> "looking", wanted |-> Range(names), names |-> names,
              config |-> NoConfig]

-----------------------------------------------------------------------------
Found(config) == cli' = [cli EXCEPT !.pc = "ready", !.config = config]

(* Mutant: a file that cannot be read is passed over too. *)
LookOn ==
  /\ cli.pc = "looking"
  /\ \/ cli.names = <<>> /\ cli' = [cli EXCEPT !.pc = "ready"]
     \/ /\ cli.names # <<>>
        /\ \/ /\ disk[Head(cli.names)] \notin Config
              /\ cli' = [cli EXCEPT !.names = Tail(@)]
           \/ disk[Head(cli.names)] \in Config /\ Found(disk[Head(cli.names)])
  /\ UNCHANGED <<disk, edits, stayed>>

(* loadOpenKedgeConfig: the next name of the list, or the only one that    *)
(* --config gives.  A name without a file is passed over, any other error  *)
(* is thrown; without any file the configuration is empty.                 *)
Look ==
  /\ cli.pc = "looking"
  /\ \/ cli.names = <<>> /\ cli' = [cli EXCEPT !.pc = "ready"]
     \/ /\ cli.names # <<>>
        /\ \/ /\ disk[Head(cli.names)] = Absent
              /\ cli' = [cli EXCEPT !.names = Tail(@)]
           \/ disk[Head(cli.names)] = Unreadable /\ cli' = [cli EXCEPT !.pc = "threw"]
           \/ disk[Head(cli.names)] \in Config /\ Found(disk[Head(cli.names)])
  /\ UNCHANGED <<disk, edits, stayed>>

(* createPolicyEvaluator. *)
Evaluator(config) ==
  CASE config[1] = "opa" -> "packs"
    [] config[1] # "opa" /\ config[2] = "aws" -> "aws"
    [] OTHER -> "allow everything"

(* Somebody edits, removes or moves a file. *)
Edit ==
  /\ edits < MaxEdits /\ cli.pc = "looking"
  /\ \/ \E n \in Names, c \in Config \cup {Absent} : disk' = [disk EXCEPT ![n] = c]
     \/ \E n, o \in Names : n # o /\ disk' = [disk EXCEPT ![o] = disk[n], ![n] = Absent]
  /\ edits' = edits + 1
  /\ stayed' = {n \in stayed : disk'[n] # Absent}
  /\ UNCHANGED <<cli>>

Next == Look \/ Edit

Spec == Init /\ [][Next]_vars

-----------------------------------------------------------------------------
(* A command runs with the first file of the list that is there, as it     *)
(* reads it, whatever is moved or removed while it looks: no file that was *)
(* there all along is passed over for a later one, and the configuration is*)
(* empty only if there was none such (loader.ts:66-82).  What it evaluates *)
(* with is another question: see ConfiguredPolicyDecides.                  *)
ConfigIsTheFirstThere ==
  cli.pc = "ready" =>
    /\ cli.wanted \cap stayed \subseteq Range(cli.names)
    /\ cli.config = IF cli.names = <<>> THEN NoConfig ELSE disk[Head(cli.names)]

(* runtime.ts:206: "No policy provider configured; default allow applied". *)
(* That is what is done, and said, for every provider but opa, among them  *)
(* the cedar of loader.ts:8, if the context is not that of AWS.            *)
ConfiguredPolicyDecides ==
  cli.pc = "ready" /\ cli.config[1] # "none" => Evaluator(cli.config) # "allow everything"
=============================================================================
