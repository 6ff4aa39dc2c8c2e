----------------------------- MODULE PolicyFile -----------------------------
(***************************************************************************)
(* The gateways' local policy: FilePolicySource and writePolicyAtomically  *)
(* (src/gateway/policy.ts), and the commands of policy-cli.ts that read it,*)
(* change it and write it back, several at once.  A file is a sequence of  *)
(* blocks, all of one document when it is complete.                        *)
(***************************************************************************)
EXTENDS Naturals, Sequences

CONSTANTS Command,      \* one process of policy-cli each
          Verb,         \* of each: "deny-all" or "allow-dev"
          Blocks        \* blocks of a document

VARIABLES policy,       \* the blocks of the policy file
          temporary,    \* the blocks of each command's temporary file
          cli,          \* [stage, found, next] of each command
          seen          \* the complete documents any reader has got so far
fileVars == <<policy, temporary, cli, seen>>

(* validatePolicy: the version with the hash of the whole document. *)
Revision(document) == <<document.version, document>>

(* A document is its version and who is on its allowlist. *)
First == [version |-> 1, allowed |-> "pilot"]
Whole(document) == [j \in 1..Blocks |-> document]
IsWhole(blocks) == Len(blocks) = Blocks /\ \A j \in 1..Blocks : blocks[j] = blocks[1]

FileInit == /\ policy = Whole(First) /\ seen = {First}
            /\ temporary = [c \in Command |-> <<>>]
            /\ cli = [c \in Command |-> [stage |-> "read", found |-> First, next |-> First]]

Successor(c, document) ==
  [version |-> document.version + 1, allowed |-> IF Verb[c] = "deny-all" THEN "nobody" ELSE "dev"]

(* current(): what is not a valid document is POLICY_UNAVAILABLE.          *)
Read(c) ==
  /\ cli[c].stage = "read"
  /\ cli' = [cli EXCEPT ![c] = IF IsWhole(policy)
               THEN [stage |-> "write", found |-> policy[1], next |-> Successor(c, policy[1])]
               ELSE [@ EXCEPT !.stage = "failed"]]
  /\ UNCHANGED <<policy, temporary, seen>>

(* writePolicyAtomically: the temporary file has a name of its own.        *)
Write(c) ==
  /\ cli[c].stage = "write" /\ Len(temporary[c]) < Blocks
  /\ temporary' = [temporary EXCEPT ![c] = Append(@, cli[c].next)]
  /\ UNCHANGED <<policy, cli, seen>>

(* Mutant: the file is renamed while it is being written. *)
RenameEarly(c) ==
  /\ cli[c].stage = "write" /\ temporary[c] # <<>>
  /\ policy' = temporary[c]
  /\ cli' = [cli EXCEPT ![c].stage = "written"]
  /\ UNCHANGED <<temporary, seen>>
Rename(c) ==
  /\ cli[c].stage = "write" /\ Len(temporary[c]) = Blocks
  /\ policy' = temporary[c]
  /\ cli' = [cli EXCEPT ![c].stage = "written"]
  /\ UNCHANGED <<temporary, seen>>

(* The process dies, or its disk is full: the temporary file stays behind. *)
Dies(c) == /\ cli[c].stage \in {"read", "write", "written"}
           /\ cli' = [cli EXCEPT ![c].stage = "failed"]
           /\ UNCHANGED <<policy, temporary, seen>>

(* A gateway reads the file for an operation, never a copy it kept. *)
Serve == /\ IsWhole(policy) /\ seen' = seen \cup {policy[1]}
         /\ UNCHANGED <<policy, temporary, cli>>

FileNext == Serve \/ \E c \in Command : Read(c) \/ Write(c) \/ Rename(c) \/ Dies(c)
FileSpec == FileInit /\ [][FileNext]_fileVars
-----------------------------------------------------------------------------
(* Whatever dies whenever, every read of the policy file gets one complete *)
(* document (policy.ts:50-63).                                             *)
EveryReadIsWhole == IsWhole(policy)

(* A grant is checked against the revision it was admitted under           *)
(* (Gateway.ts:235): one revision never stands for two policies, although  *)
(* two commands that overlap give theirs the same version (policy-cli.ts:  *)
(* 14).                                                                    *)
OneRevisionOnePolicy ==
  \A d, e \in seen : Revision(d) = Revision(e) => d.allowed = e.allowed

(* What a gateway decides by is one document, and its revision says which  *)
(* (policy.ts:46-63).                                                      *)
PolicyReadsAreWhole == EveryReadIsWhole /\ OneRevisionOnePolicy
=============================================================================
