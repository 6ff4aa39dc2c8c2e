----------------------------- MODULE AwsAdapters -----------------------------
(***************************************************************************)
(* One proposal through the library's AWS adapters (src/adapters/aws) and  *)
(* its blast radius (src/core/blast): looked up, judged, given a session,  *)
(* executed.  The pipeline around them is module Engine; here the request  *)
(* to EC2 is in flight for any time and its reply may be lost.             *)
(***************************************************************************)
EXTENDS AwsCloud

CONSTANTS MaxAllowed, AllowHighRisk   \* of BlastRadiusPolicy

VARIABLE call
vars == <<clock, cloud, call>>

None == [ok |-> TRUE, instances |-> <<>>]

(* "ids" is what extractInstanceIds finds in the payload. *)
New(type, ids) ==
  [type |-> type, ids |-> ids, stage |-> "resolve", context |-> None, contract |-> NoContract,
   asked |-> 0, policy |-> NoIdentity.policy, identity |-> NoIdentity, request |-> "none",
   outcome |-> "none"]
Init == /\ CloudInit
        /\ \E type \in {"TerminateInstances", "DescribeInstances"}, ids \in SUBSET Instance :
             call = New(type, ids)

Terminates == call.type = "TerminateInstances"
Moves(c) == call' = c /\ UNCHANGED cloudVars
Ends(outcome) == Moves([call EXCEPT !.stage = "over", !.outcome = outcome])

-----------------------------------------------------------------------------
Resolve ==
  /\ call.stage = "resolve"
  /\ \E context \in IF Terminates THEN Lookups(call.ids) ELSE {None} :
       Moves([call EXCEPT !.stage = "judge", !.context = context])

(* The instances of the context that carry a tag. *)
Tagged(tag) == {i \in DOMAIN call.context.instances : tag \in call.context.instances[i].tags}

(* AwsSafetyPolicyEvaluator *)
Safe == Terminates => Tagged("critical") = {}

(* Mutant: ids that could not be looked up are not counted. *)
ResourcesDescribed ==
  IF ~Terminates THEN call.ids ELSE IF call.context.ok THEN DOMAIN call.context.instances ELSE {}

(* BlastRadiusEstimator: 1 LOW, 2 MEDIUM, 3 HIGH, 4 CRITICAL. *)
Resources == IF Terminates THEN DOMAIN call.context.instances ELSE call.ids
BaseRisk(n) == IF n <= 1 THEN 1 ELSE IF n <= 5 THEN 2 ELSE IF n <= 20 THEN 3 ELSE 4
Risk == LET base == BaseRisk(Cardinality(Resources))
        IN IF Terminates /\ Tagged("critical") # {} THEN 4
           ELSE IF Terminates /\ Tagged("prod") # {} THEN Min({base + 1, 4}) ELSE base

(* BlastRadiusPolicy *)
Bearable == /\ Cardinality(Resources) <= MaxAllowed
            /\ Risk < 4
            /\ Risk = 3 => AllowHighRisk

Judge == /\ call.stage = "judge"
         /\ IF Safe /\ Bearable
            THEN \E contract \in {Contract, NoContract} :
                   Moves([call EXCEPT !.stage = "ask", !.contract = contract])
            ELSE Ends("blocked")

(* okg preview: the same look-up and the same two verdicts, and no more.   *)
PreviewAllows == Safe /\ Bearable
Preview == call.stage = "judge" /\ Ends(IF PreviewAllows THEN "previewed" ELSE "blocked")

(* issueIdentity asks STS; there is a policy for terminations only. *)
Ask == /\ call.stage = "ask"
       /\ IF InBounds(call.contract) /\ Terminates /\ call.ids # {}
          THEN Moves([call EXCEPT !.stage = "issue", !.asked = clock,
                        !.policy = SessionPolicy(call.ids, call.contract)])
          ELSE Ends("threw")
Issue == /\ call.stage = "issue"
         /\ \/ Moves([call EXCEPT !.stage = "execute",
                        !.identity = Identity(call.asked, call.policy, call.contract)])
            \/ Ends("threw")

(* assertIdentityCanExecute and assertIntentResourceScope. *)
CanExecute(identity) == InBounds(call.contract) /\ clock < identity.expires
InScope(identity) ==
  Terminates => identity.policy.resources # {} /\ call.ids \subseteq identity.policy.resources

(* execute() up to the request. *)
Execute ==
  /\ call.stage = "execute"
  /\ IF CanExecute(call.identity) /\ InScope(call.identity)
     THEN Moves([call EXCEPT !.stage = "race", !.request = "sent"])
     ELSE Ends("threw")

(* EC2 answers a request whenever it arrives, also after the race. *)
Arrive ==
  /\ call.request = "sent"
  /\ LET accepted == Authorizes(call.identity, call.ids)
     IN /\ cloud' = IF accepted THEN Terminated(call.ids) ELSE cloud
        /\ call' = [call EXCEPT !.request = IF accepted THEN "accepted" ELSE "denied"]
  /\ UNCHANGED clock

(* Mutant: an error that says nothing about the request is a success. *)
ReturnsHopeful ==
  /\ call.stage = "race"
  /\ \/ call.request \in {"accepted", "sent"} /\ Ends("success")
     \/ Ends("failed")

(* The executor catches every error, so that a request that got no answer  *)
(* and one that was denied both return success: false.                     *)
Returns == /\ call.stage = "race"
           /\ \/ call.request = "accepted" /\ Ends("success")
              \/ Ends("failed")

(* withIdentity's timer: the credentials are dropped, the request is not.  *)
Timer == /\ call.stage = "race" /\ Contracted(call.contract) /\ clock >= call.identity.expires
         /\ Ends("threw")

Next == \/ CloudNext /\ UNCHANGED call
        \/ Resolve \/ Preview \/ Judge \/ Ask \/ Issue \/ Execute \/ Arrive \/ Returns \/ Timer
Spec == Init /\ [][Next]_vars
-----------------------------------------------------------------------------
Goes(i) == cloud[i].state # "gone" /\ cloud'[i].state = "gone"

(* Dropping the credentials does not recall a request, but the session     *)
(* policy does: a governed termination never happens after the contract's  *)
(* end, and never to an instance that has lost its required tag since it   *)
(* was looked up (AwsIdentityProvider.ts:106-111).                         *)
LateRequestsAreRefused ==
  [][\A i \in Instance : Goes(i) /\ Contracted(call.contract) =>
       clock < call.contract.end /\ Required \in cloud[i].tags]_vars

(* A critical instance is only terminated if it became critical after it   *)
(* was looked up, or the lookup failed, or the answer left it out          *)
(* (AwsContextProvider.ts:63-84).                                          *)
CriticalNeedsAGap ==
  [][\A i \in Instance : Goes(i) /\ "critical" \in cloud[i].tags =>
       LET seen == call.context.instances
       IN  ~call.context.ok \/ i \notin DOMAIN seen \/ "critical" \notin seen[i].tags]_vars

(* Of the instances the answer described, no more go than the blast radius *)
(* policy allows, though the request names the others too; and none but    *)
(* those goes when the look-up failed, for then all the ids are counted.   *)
(* An answer that leaves instances out without an error is believed, and   *)
(* then more may go (AwsContextProvider.ts:63-84, BlastRadiusEstimator.ts: *)
(* 11-40).                                                                 *)
BlastIsBounded ==
  LET gone == {i \in Instance : cloud[i].state = "gone"}
      seen == DOMAIN call.context.instances
  IN  /\ Cardinality(gone \cap seen) <= MaxAllowed
      /\ ~call.context.ok => gone \subseteq seen

(* A success is one, and a proposal that was previewed, blocked, or ended  *)
(* before its request was sent, had no effect and will have none.          *)
OutcomeIsTrue ==
  /\ call.outcome = "success" => \A i \in call.ids : cloud[i].state = "gone"
  /\ call.stage = "over" /\ call.request = "none" => \A i \in Instance : cloud[i].state # "gone"

(* docs/temporal-invariants.md:177-179: an executor returns success: false,*)
(* which releases the budget, "only when they know the operation had no    *)
(* effect".  The repository's own returns it for every error, that of a    *)
(* lost answer included (AwsExecutor.ts:145-149).                          *)
FailureIsConfirmed ==
  call.outcome = "failed" => \A i \in Instance : cloud[i].state # "gone"
=============================================================================
