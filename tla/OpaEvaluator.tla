---------------------------- MODULE OpaEvaluator ----------------------------
(***************************************************************************)
(* The policy evaluator of the command line that asks an OPA server        *)
(* (cli/utils/opa.ts): the packs of a directory (cli/utils/loader.ts) are  *)
(* uploaded once, before the first question; evaluations of one process    *)
(* overlap at every await, and the server can lose what it was given.      *)
(***************************************************************************)
EXTENDS Naturals, Sequences, Functions

CONSTANTS Question,
          Packs,        \* the .rego files, in the order of their paths
          AllowPack,    \* the one that says what is allowed when nothing is denied
          Denies,       \* [Question -> the packs that deny its intent]
          MaxRestarts

VARIABLES opa,          \* the packs the server holds
          policiesLoaded,
          evaluation,   \* [Question -> where it is, and its answer]
          restarts,
          torn          \* the server lost packs while an upload was under way

opaVars == <<opa, policiesLoaded, evaluation, restarts, torn>>

(* loadPolicyFiles sorts what it collects by path. *)
UploadOrder == Packs

OpaInit ==
  /\ opa = {} /\ policiesLoaded = FALSE /\ restarts = 0 /\ torn = FALSE
  /\ evaluation = [e \in Question |-> [pc |-> "idle", sent |-> 0, answer |-> "none"]]

At(e, pc) == evaluation[e].pc = pc
Goes(e, pc) == evaluation' = [evaluation EXCEPT ![e].pc = pc]

-----------------------------------------------------------------------------
(* ensurePoliciesLoaded: the flag is read once, when an evaluation starts. *)
Start(e) ==
  /\ At(e, "idle")
  /\ Goes(e, IF policiesLoaded THEN "asking" ELSE "loading")
  /\ UNCHANGED <<opa, policiesLoaded, restarts, torn>>

(* Mutant: the flag is set as soon as the upload begins. *)
UploadClaimed(e) ==
  LET n == evaluation[e].sent + 1 IN
    /\ At(e, "loading")
    /\ opa' = opa \cup {UploadOrder[n]}
    /\ policiesLoaded' = TRUE
    /\ evaluation' = [evaluation EXCEPT ![e].sent = n,
                        ![e].pc = IF n = Len(UploadOrder) THEN "asking" ELSE @]
    /\ UNCHANGED <<restarts, torn>>

(* One PUT of the loop is answered; the flag is set after the last one. *)
Upload(e) ==
  LET n == evaluation[e].sent + 1 IN
    /\ At(e, "loading")
    /\ opa' = opa \cup {UploadOrder[n]}
    /\ policiesLoaded' = (policiesLoaded \/ n = Len(UploadOrder))
    /\ evaluation' = [evaluation EXCEPT ![e].sent = n,
                        ![e].pc = IF n = Len(UploadOrder) THEN "asking" ELSE @]
    /\ UNCHANGED <<restarts, torn>>

(* A PUT or the question fails, whether it reached the server or not. *)
Fail(e) ==
  /\ At(e, "loading") \/ At(e, "asking")
  /\ Goes(e, "threw")
  /\ \/ UNCHANGED opa
     \/ At(e, "loading") /\ opa' = opa \cup {UploadOrder[evaluation[e].sent + 1]}
  /\ UNCHANGED <<policiesLoaded, restarts, torn>>

(* What a server that holds these packs says: nothing is allowed unless    *)
(* the pack that allows is there (policies/aws/safe-default.rego).         *)
Says(packs, e) == IF AllowPack \in packs /\ packs \cap Denies[e] = {} THEN "allow" ELSE "deny"

(* The answer: allowed only if the result says so. *)
Ask(e) ==
  /\ At(e, "asking")
  /\ evaluation' = [evaluation EXCEPT ![e].pc = "answered", ![e].answer = Says(opa, e)]
  /\ UNCHANGED <<opa, policiesLoaded, restarts, torn>>

(* The OPA server restarts: what was uploaded is gone. *)
Restart ==
  /\ restarts < MaxRestarts
  /\ opa' = {} /\ restarts' = restarts + 1
  /\ torn' = (torn \/ \E e \in Question : At(e, "loading") /\ evaluation[e].sent > 0)
  /\ UNCHANGED <<policiesLoaded, evaluation>>

OpaNext ==
  \/ \E e \in Question : Start(e) \/ Upload(e) \/ Fail(e) \/ Ask(e)
  \/ Restart

OpaSpec == OpaInit /\ [][OpaNext]_opaVars

-----------------------------------------------------------------------------
(* As long as the server keeps what it was given, every answer is that of  *)
(* all the packs, however evaluations overlap and uploads fail             *)
(* (opa.ts:33, 77-102).                                                    *)
AnswersKnowEveryPack ==
  restarts = 0 =>
    \A e \in Question :
      At(e, "answered") => evaluation[e].answer = Says(Range(Packs), e)

(* A server that lost its packs denies: what all packs deny is allowed by  *)
(* mistake only if it lost them in the middle of an upload (opa.ts:82-101).*)
LosesPacksClosed ==
  \A e \in Question :
    evaluation[e].answer = "allow" => torn \/ Says(Range(Packs), e) = "allow"

(* Neither a slow nor a forgetful server makes the packs say what they do  *)
(* not say (opa.ts:33, 77-102).                                            *)
PacksDecide == AnswersKnowEveryPack /\ LosesPacksClosed
=============================================================================
