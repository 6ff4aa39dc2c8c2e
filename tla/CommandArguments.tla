-------------------------- MODULE CommandArguments --------------------------
(***************************************************************************)
(* parseArgs of the command line (cli/index.ts), one argument at a time.   *)
(* Of an argument only its kind is kept, and what the parser keeps of it   *)
(* is its position: 0 where a flag is set to true.                         *)
(***************************************************************************)
EXTENDS Naturals, Sequences, SequencesExt, FiniteSetsExt

CONSTANTS Key,         \* [spelling of a flag -> its name in the flags]
          MaxArgs

VARIABLES args, index, flags, positionals
vars == <<args, index, flags, positionals>>

(* "--flag", "--flag=value", "" and any other word. *)
Arg == [flag : DOMAIN Key, kind : {"bare", "inline"}]
       \cup [flag : {"none"}, kind : {"empty", "word"}]
Option(n) == args[n].kind \in {"bare", "inline"}

(* camelCaseFlag: spellings with dashes and without name one flag. *)
Name(n) == Key[args[n].flag]

Init == /\ args \in BoundedSeq(Arg, MaxArgs)
        /\ index = 1 /\ flags = <<>> /\ positionals = <<>>

Set(name, value) == flags' = [f \in DOMAIN flags \cup {name} |-> IF f = name THEN value ELSE flags[f]]

Positional == /\ ~Option(index)
              /\ positionals' = Append(positionals, index)
              /\ index' = index + 1 /\ UNCHANGED flags

Inline == /\ args[index].kind = "inline"
          /\ Set(Name(index), index) /\ index' = index + 1 /\ UNCHANGED positionals

(* Is the next argument the value of this one?  An empty one is not. *)
HasValue == index < Len(args) /\ args[index + 1].kind = "word"
Alone == /\ args[index].kind = "bare" /\ ~HasValue
         /\ Set(Name(index), 0) /\ index' = index + 1 /\ UNCHANGED positionals

WithValue == /\ args[index].kind = "bare" /\ HasValue
             /\ Set(Name(index), index + 1) /\ index' = index + 2 /\ UNCHANGED positionals

Next == /\ index <= Len(args)
        /\ Positional \/ Inline \/ Alone \/ WithValue
        /\ UNCHANGED args

Spec == Init /\ [][Next]_vars
-----------------------------------------------------------------------------
(* Every word is used once: as the value of the flag right before it, or,  *)
(* in the order they came, as a positional; and a flag, however spelled,   *)
(* has what its last occurrence gave it (cli/index.ts:20-52).              *)
ValueOf(n) ==
  IF args[n].kind = "inline" THEN n
  ELSE IF n < Len(args) /\ args[n + 1].kind = "word" THEN n + 1 ELSE 0
WordsAreUsedOnce ==
  index > Len(args) =>
    /\ Range(positionals) =
         {n \in DOMAIN args : ~Option(n) /\ \A m \in 1 .. n - 1 : Option(m) => ValueOf(m) # n}
    /\ \A m, n \in DOMAIN positionals : m < n => positionals[m] < positionals[n]
    /\ DOMAIN flags = {Name(n) : n \in {m \in DOMAIN args : Option(m)}}
    /\ \A f \in DOMAIN flags :
         flags[f] = ValueOf(Max({n \in DOMAIN args : Option(n) /\ Name(n) = f}))
=============================================================================
