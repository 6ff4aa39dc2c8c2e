----------------------------- MODULE DemoServer -----------------------------
(***************************************************************************)
(* The demo server (apps/demo-server/server.ts): its governance rules, its *)
(* mock inventory, and two scenarios that submit intents one after the     *)
(* other while anybody posts intents of his own.  A submission is decided  *)
(* in one transaction and executed later; all happens within the windows   *)
(* of the rules, and the in-memory store and the mock executor never fail. *)
(***************************************************************************)
EXTENDS Naturals, Sequences, FiniteSetsExt

CONSTANTS Post,        \* intents posted to /intent
          Critical, Tame, Unknown   \* instances: two of the inventory, and one that is not

VARIABLES submission,  \* of each intent: what is asked, and how it stands
          scenario     \* of each scenario: how many of its intents it has sent
vars == <<submission, scenario>>

Scenario == {"budget", "injection"}
Sent(s, n) == <<s, n>>
Intents == Post \cup (Scenario \X {1, 2})

(* A quota in units of 50 dollars. *)
MaxCumulativeValue == 10

Lookup(actor, resource) ==
  [type |-> "lookup_instance_cost", actor |-> actor, on |-> resource, amount |-> 0, tokens |-> {}]
Terminate(actor, resource, tokens) ==
  [type |-> "terminate_instance", actor |-> actor, on |-> resource, amount |-> 0, tokens |-> tokens]
Transfer(actor, account, amount) ==
  [type |-> "transfer", actor |-> actor, on |-> account, amount |-> amount, tokens |-> {}]

Unsent == [type |-> "none", actor |-> "none", on |-> "none", amount |-> 0, tokens |-> {}]
As(intent, status) == [intent |-> intent, status |-> status]
Init == /\ submission = [i \in Intents |-> As(Unsent, "unsent")]
        /\ scenario = [s \in Scenario |-> 0]

Status(i) == submission[i].status
Asks(i) == submission[i].intent

-----------------------------------------------------------------------------
(* The tokens are the lookups that gave them: the executor answers from    *)
(* the inventory, and governance binds what it answered.                   *)
Succeeded(i) == Status(i) = "success"

(* Mutant: a transfer that has been made counts no longer. *)
SpentOpenly(account) ==
  MapThenSumSet(LAMBDA i : Asks(i).amount,
    {i \in Intents : /\ Asks(i).type = "transfer" /\ Asks(i).on = account
                     /\ Status(i) = "reserved"})

Spent(account) ==
  MapThenSumSet(LAMBDA i : Asks(i).amount,
    {i \in Intents : /\ Asks(i).type = "transfer" /\ Asks(i).on = account
                     /\ Status(i) \in {"reserved", "success"}})

BoundTo(intent) ==
  /\ intent.tokens # {}
  /\ \A t \in intent.tokens :
       Succeeded(t) /\ Asks(t).actor = intent.actor /\ Asks(t).on = intent.on

(* PRECEDING_EVENT_REQUIRED: its scope is the actor. *)
Inspected(intent) ==
  \E i \in Intents : /\ Succeeded(i) /\ Asks(i).type = "lookup_instance_cost"
                     /\ Asks(i).on = intent.on /\ Asks(i).actor = intent.actor

(* The demo's rules and required capabilities. *)
Governs(intent) ==
  CASE intent.type = "transfer" -> Spent(intent.on) + intent.amount <= MaxCumulativeValue
    [] intent.type = "terminate_instance" -> BoundTo(intent) /\ Inspected(intent)
    [] OTHER -> TRUE

(* Its policy. *)
Permits(intent) == intent.type = "terminate_instance" => intent.on # Critical

(* submitIntent: sent, decided, executed. *)
Submits(i, intent) == submission' = [submission EXCEPT ![i] = As(intent, "sent")]
Decide(i) ==
  /\ Status(i) = "sent"
  /\ submission' = [submission EXCEPT ![i].status =
       IF Governs(Asks(i)) /\ Permits(Asks(i)) THEN "reserved" ELSE "blocked"]
  /\ UNCHANGED scenario
Execute(i) ==
  /\ Status(i) = "reserved"
  /\ submission' = [submission EXCEPT ![i].status =
       IF Asks(i).type = "lookup_instance_cost" /\ Asks(i).on = Unknown THEN "failed" ELSE "success"]
  /\ UNCHANGED scenario

-----------------------------------------------------------------------------
(* A scenario's n-th intent. *)
Sends(s, intent) ==
  LET n == scenario[s] + 1 IN
    Submits(Sent(s, n), intent) /\ scenario' = [scenario EXCEPT ![s] = n]

(* POST /scenarios/temporal-budget: 150 and 400 dollars of an account of   *)
(* its own, by two agents, the second after the first is over.             *)
FirstTransfer == scenario["budget"] = 0 /\ Sends("budget", Transfer("demo-agent", "own", 3))
SecondTransfer ==
  /\ scenario["budget"] = 1 /\ Status(Sent("budget", 1)) \in {"success", "blocked"}
  /\ Sends("budget", Transfer("second-agent", "own", 8))

(* POST /scenarios/capability-injection: a lookup of a tame instance, and  *)
(* its capability presented for the first one of the inventory.            *)
FirstLookup == scenario["injection"] = 0 /\ Sends("injection", Lookup("demo-agent", Tame))
Injected ==
  /\ scenario["injection"] = 1 /\ Succeeded(Sent("injection", 1))
  /\ Sends("injection", Terminate("demo-agent", Critical, {Sent("injection", 1)}))

(* POST /intent.  Whose account or token it is becomes known by an answer. *)
Known(s) == scenario[s] = 2 /\ Status(Sent(s, 2)) \in {"success", "blocked"}
PostIntent(i) ==
  /\ Status(i) = "unsent"
  /\ \E actor \in {"demo-agent", "guest"} :
       \/ \E resource \in {Critical, Tame, Unknown} : Submits(i, Lookup(actor, resource))
       \/ \E resource \in {Critical, Tame},
             token \in {t \in Post : Succeeded(t)}
                       \cup {Sent(s, 1) : s \in {x \in {"injection"} : Known(x)}} :
            Submits(i, Terminate(actor, resource, {token}))
       \/ \E account \in {"common"} \cup (IF Known("budget") THEN {"own"} ELSE {}), amount \in {3, 8} :
            Submits(i, Transfer(actor, account, amount))
  /\ UNCHANGED scenario

Next == \/ FirstTransfer \/ SecondTransfer \/ FirstLookup \/ Injected
        \/ \E i \in Post : PostIntent(i)
        \/ \E i \in Intents : Decide(i) \/ Execute(i)
Spec == Init /\ [][Next]_vars
-----------------------------------------------------------------------------
(* The second transfer of the budget scenario is blocked and its first one *)
(* is not, whoever posts what meanwhile (server.ts:106-118).               *)
SecondTransferIsBlocked ==
  Status(Sent("budget", 2)) \in {"blocked", "reserved", "success"} =>
    Status(Sent("budget", 1)) = "success" /\ Status(Sent("budget", 2)) = "blocked"

(* Whoever reuses the capabilities and accounts that answers show, no      *)
(* instance is terminated that its own actor has not looked up himself     *)
(* (server.ts:37-51).                                                      *)
TerminationsWereInspected ==
  \A i \in Intents :
    Asks(i).type = "terminate_instance" /\ Succeeded(i) =>
      \E j \in Intents : /\ Asks(j).type = "lookup_instance_cost" /\ Succeeded(j)
                         /\ Asks(j).on = Asks(i).on /\ Asks(j).actor = Asks(i).actor
=============================================================================
