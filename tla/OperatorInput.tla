--------------------------- MODULE OperatorInput ---------------------------
(***************************************************************************)
(* What a command takes from its operator: the configuration it finds, the *)
(* YAML it is written in, and the words of the command line.  Each has     *)
(* state of its own.                                                       *)
(***************************************************************************)
EXTENDS Naturals, Sequences, Functions

CONSTANTS Candidates, Config, MaxEdits,             \* of the configuration
          Indents, MaxLines,                        \* of the YAML
          Key, MaxArgs                              \* of the command line

(* Candidates are a list; an indent counts spaces (loader.ts:58-64, 209).  *)
ASSUME OperatorWritesText ==
  /\ Candidates \in Seq(Range(Candidates))
  /\ Indents \subseteq Nat /\ MaxArgs \in Nat

VARIABLES disk, edits, stayed, lookup,              \* the configuration
          lines, stack, parent,                     \* the YAML
          args, index, flags, positionals           \* the command line

Configs == INSTANCE CliConfig WITH cli <- lookup
Yaml == INSTANCE SimpleYaml
Arguments == INSTANCE CommandArguments

-----------------------------------------------------------------------------
(* What the operator wrote is what the command reads: its configuration is *)
(* the first file of the list that is there, and empty only if none was    *)
(* there all along; every line of YAML is in the section its indent says;  *)
(* and every word of the command line is used once (loader.ts:66-82, 222-  *)
(* 235, cli/index.ts:20-52).                                               *)
OperatorIsUnderstood ==
  /\ Configs!ConfigIsTheFirstThere
  /\ Yaml!LinesAreWhereTheyBelong
  /\ Arguments!WordsAreUsedOnce

(* "No policy provider configured; default allow applied" (runtime.ts:206):*)
(* a command that allows everything had no policy provider configured.     *)
ConfiguredPolicyDecides == Configs!ConfiguredPolicyDecides
=============================================================================
