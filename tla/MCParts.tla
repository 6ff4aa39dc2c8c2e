------------------------------ MODULE MCParts ------------------------------
(***************************************************************************)
(* The parts of the library, of its commands and of its applications for   *)
(* TLC, side by side in one run: "part" says which of them the behaviour   *)
(* is about, and never changes.  Parts share no state; variables of the    *)
(* same name are one here, and those a part does not have are off: those of*)
(* the modules that are extended in an initial state.                      *)
(***************************************************************************)
EXTENDS Applications, OpaEvaluator, PolicyFile, OperatorInput, TLC

VARIABLES part,
          trace, grantEnd, admission, run,                  \* gateway
          bundle, permit, outcome, ack, updatePending,      \* controller
          permitCall, updateCall

Off == "off"
EngineOff == /\ history = [i \in Intent |-> <<>>] /\ faults = 0
             /\ call = [c \in Call |-> New("i1")]
CommandOff == /\ evidence = [i \in Intent |-> <<>>] /\ mishaps = 0
              /\ invocation = [c \in Call |-> New("i1")]
              /\ command = [c \in Call |-> [said |-> "nothing"]]
Calm == [i \in Instance |-> [state |-> "running", tags |-> {"disposable"}]]
AdaptersOff == /\ Adapters!Init /\ cloud = Calm
               /\ request = Adapters!New("DescribeInstances", {})
PilotOff == Pilot!Init /\ pilotCloud = Calm /\ ~source /\ ~pilot.optIn
GatewayOff == trace = Off /\ grantEnd = Off /\ admission = Off /\ run = Off
ControllerOff == /\ bundle = Off /\ permit = Off /\ outcome = Off /\ ack = Off
                 /\ updatePending = Off /\ permitCall = Off /\ updateCall = Off
LookupOff == /\ disk = [n \in Configs!Names |-> Configs!Absent]
             /\ edits = 0 /\ stayed = {}
             /\ lookup = [pc |-> "looking", wanted |-> Configs!Names, names |-> Candidates,
                          config |-> Configs!NoConfig]
YamlOff == Yaml!Init
ArgsOff == args = <<>> /\ index = 1 /\ flags = <<>> /\ positionals = <<>>
FileOff == policy = Whole(First) /\ temporary = Off /\ seen = {First} /\ cli = Off
FactsOff == /\ events = <<>> /\ answered = <<>>
            /\ proposal = [p \in Proposal |-> [pc |-> "new", context |-> <<>>]]
ViewOff == View!Init /\ intentId = Default
DemoOff == Demo!Init
ClockOff == clock = 0

engineVars == <<history, call, faults>>
adaptersVars == <<cloudClock, cloud, request>>
pilotVars == <<pilotClock, pilotCloud, source, pilot>>
awsVars == <<adaptersVars, pilotVars>>
shellVars == <<evidence, invocation, mishaps, command>>
gatewayVars == <<trace, grantEnd, admission, run>>
controllerVars == <<bundle, permit, outcome, ack, updatePending, permitCall, updateCall>>
lookupVars == <<disk, edits, stayed, lookup>>
yamlVars == <<lines, stack, parent>>
argVars == <<args, index, flags, positionals>>
documentVars == <<policy, temporary, seen, cli>>
factVars == <<events, proposal, answered>>
viewVars == <<intentId, data, error, loading, requests, sent, posting,
              playbackActive, visibleCount, selected, interval, cut>>
demoVars == <<submission, scenario>>
pageVars == <<viewVars, demoVars>>
allVars == <<part, clock, engineVars, shellVars, awsVars, gatewayVars, controllerVars,
             opaVars, lookupVars, yamlVars, argVars, documentVars, factVars, pageVars>>

-----------------------------------------------------------------------------
(* The engine is governed: two calls, two intents, budget for one, a       *)
(* contract of one unit of time, and one fault anywhere; so have the       *)
(* commands, but for governance.                                           *)

(* One proposal that names up to two instances, of which one may go; and   *)
(* the pilot for the first of the two.                                     *)
TheTags == {{"disposable"}, {"disposable", "critical"}, {"prod"}}

(* One grant, redeemed by two calls; long enough for both to time out. *)
Redemptions == INSTANCE ExecutionGateway WITH
  Intent <- {"i1"}, Run <- {"r1", "r2"}, Limit <- 1, Window <- 2, GrantTtl <- 2, PermitTtl <- 1,
  Dispatch <- TRUE, EvidenceMayFail <- TRUE, MaxClock <- 3

(* A controller with one policy update at a time. *)
Controller == INSTANCE PolicyController WITH
  Permit <- {"p1", "p2"}, Gateway <- {"g1"}, Operation <- {"terminate"}, PermitCall <- {"c1"},
  UpdateCall <- {"u1"}, Report <- {"executed"}, NoReport <- "none",
  PermitTtl <- 2, MaxGrant <- 2, MaxEpoch <- 3

(* The packs of policies/aws; three intents, of which packs deny two. *)
ThePacks == <<"blast-radius", "protect-production", "safe-default">>
PacksDenying == "e1" :> {"blast-radius"} @@ "e2" :> {} @@ "e3" :> {"protect-production"}

(* Three commands that change the policy file. *)
Verbs == "c1" :> "deny-all" @@ "c2" :> "allow-dev" @@ "c3" :> "deny-all"

(* Two names, three configurations; and two flags, one in two spellings. *)
TheCandidates == <<"yaml", "json">>
TheConfigs == {<<"opa", "none">>, <<"none", "aws">>, <<"cedar", "none">>}
TheKeys == "policy-path" :> "policyPath" @@ "policyPath" :> "policyPath" @@ "actor" :> "actor"

(* Four submissions, of two facts of one type and of one that expires. *)
Fact(t, s, e) == [type |-> t, start |-> s, end |-> e]
TheProposals == {"p", "q", "r", "s"}
TheFacts ==
  "p" :> <<Fact("x", 1, 0)>> @@ "q" :> <<Fact("x", 1, 2), Fact("y", 2, 0)>>
  @@ "r" :> <<Fact("x", 1, 0)>> @@ "s" :> <<Fact("y", 1, 1)>>
TheEntities == "p" :> "e" @@ "q" :> "e" @@ "r" :> "f" @@ "s" :> "e"

(* Two replays among the examples, and a third one. *)
TheLengths == "a" :> 3 @@ "b" :> 2 @@ "n" :> 4

(* Two intents are posted beside the scenarios. *)
ThePosts == {<<"post", 1>>, <<"post", 2>>}

-----------------------------------------------------------------------------
EnginesOff == EngineOff /\ CommandOff
AwsOff == AdaptersOff /\ PilotOff
ConfigOff == LookupOff /\ YamlOff /\ ArgsOff
PagesOff == ViewOff /\ DemoOff
AppsOff == FactsOff /\ PagesOff

(* The first call is one of the first intent: the two are alike. *)
PartsInit ==
  \/ /\ OpaInit /\ ConfigOff /\ FileOff /\ AppsOff
     /\ \/ /\ AwsOff /\ GatewayOff /\ ControllerOff
           /\ \/ part = "engine" /\ Init /\ CommandOff /\ call["c1"].intent = "i1"
              \/ /\ part = "commands" /\ Commands!CommandInit /\ EngineOff
                 /\ invocation["c1"].intent = "i1"
        \/ part = "gateway" /\ Redemptions!Init /\ EnginesOff /\ AwsOff /\ ControllerOff
        \/ part = "controller" /\ Controller!Init /\ EnginesOff /\ AwsOff /\ GatewayOff /\ ClockOff
        \/ /\ EnginesOff /\ GatewayOff /\ ControllerOff
           /\ \/ part = "adapters" /\ Adapters!Init /\ PilotOff /\ ClockOff
              \/ part = "pilot" /\ Pilot!Init /\ AdaptersOff /\ ClockOff
  \/ /\ EnginesOff /\ AwsOff /\ GatewayOff /\ ControllerOff /\ OpaInit
     /\ \/ /\ part = "packages" /\ Packages!Init
           /\ ConfigOff /\ FileOff /\ PagesOff
        \/ /\ ClockOff /\ FactsOff
           /\ \/ /\ part = "opa"
                 /\ ConfigOff /\ FileOff /\ PagesOff
              \/ /\ part = "config" /\ Configs!Init
                 /\ YamlOff /\ ArgsOff /\ FileOff /\ PagesOff
              \/ /\ part = "yaml" /\ Yaml!Init
                 /\ LookupOff /\ ArgsOff /\ FileOff /\ PagesOff
              \/ /\ part = "policy file" /\ FileInit
                 /\ LookupOff /\ YamlOff /\ ArgsOff /\ PagesOff
              \/ /\ part = "arguments" /\ Arguments!Init
                 /\ LookupOff /\ YamlOff /\ FileOff /\ PagesOff
              \/ /\ ConfigOff /\ FileOff
                 /\ \/ part = "view" /\ View!Init /\ DemoOff
                    \/ part = "demo" /\ Demo!Init /\ ViewOff

PartsNext ==
  /\ UNCHANGED part
  /\ \/ /\ UNCHANGED <<opaVars, lookupVars, yamlVars, argVars, documentVars, factVars, pageVars>>
        /\ \/ /\ UNCHANGED <<awsVars, gatewayVars, controllerVars>>
              /\ \/ part = "engine" /\ Next /\ UNCHANGED shellVars
                 \/ part = "commands" /\ Commands!CommandNext /\ UNCHANGED engineVars
           \/ /\ UNCHANGED <<engineVars, shellVars, awsVars, controllerVars>>
              /\ part = "gateway" /\ Redemptions!Next
           \/ /\ UNCHANGED <<clock, engineVars, shellVars, awsVars, gatewayVars>>
              /\ part = "controller" /\ Controller!Next
           \/ /\ UNCHANGED <<clock, engineVars, shellVars, gatewayVars, controllerVars>>
              /\ \/ part = "adapters" /\ Adapters!Next /\ UNCHANGED pilotVars
                 \/ part = "pilot" /\ Pilot!Next /\ UNCHANGED adaptersVars
     \/ /\ UNCHANGED <<engineVars, shellVars, awsVars, gatewayVars, controllerVars>>
        /\ \/ /\ part = "packages" /\ Packages!Next
              /\ UNCHANGED <<opaVars, lookupVars, yamlVars, argVars, documentVars, pageVars>>
           \/ /\ UNCHANGED <<clock, factVars>>
              /\ \/ /\ part = "opa" /\ OpaNext
                    /\ UNCHANGED <<lookupVars, yamlVars, argVars, documentVars, pageVars>>
                 \/ /\ part = "config" /\ Configs!Next
                    /\ UNCHANGED <<opaVars, yamlVars, argVars, documentVars, pageVars>>
                 \/ /\ part = "yaml" /\ Yaml!Next
                    /\ UNCHANGED <<opaVars, lookupVars, argVars, documentVars, pageVars>>
                 \/ /\ part = "policy file" /\ FileNext
                    /\ UNCHANGED <<opaVars, lookupVars, yamlVars, argVars, pageVars>>
                 \/ /\ part = "arguments" /\ Arguments!Next
                    /\ UNCHANGED <<opaVars, lookupVars, yamlVars, documentVars, pageVars>>
                 \/ /\ UNCHANGED <<opaVars, lookupVars, yamlVars, argVars, documentVars>>
                    /\ \/ part = "view" /\ View!Next /\ UNCHANGED demoVars
                       \/ part = "demo" /\ Demo!Next /\ UNCHANGED viewVars

(* The clocks run, and the engine and the gateway take their own steps:    *)
(* stores answer or fail in bounded time.  Executors and adapters may      *)
(* never answer, and nothing obliges a process to die.  A sleeping update  *)
(* of the controller is woken every 5 ms.                                  *)
PartsFairness ==
  /\ WF_<<clock>>(part = "engine" /\ Tick)
  /\ \A c \in {"c1", "c2"} :
       /\ WF_<<call>>(part = "engine" /\ Main(c))
       /\ WF_<<call>>(part = "engine" /\ (RecordCompletion(c) \/ CompletionFails(c)))
  /\ WF_<<clock>>(part = "gateway" /\ Redemptions!Tick)
  /\ \A r \in {"r1", "r2"} :
       /\ WF_<<run>>(part = "gateway" /\ Redemptions!MainStep(r))
       /\ WF_<<run>>(part = "gateway" /\ Redemptions!WorkerStep(r))
  /\ WF_<<permit>>(part = "controller" /\ Controller!Tick)
  /\ WF_<<updateCall>>(/\ part = "controller" /\ updateCall["u1"] = "draining"
                       /\ \E ops \in SUBSET {"terminate"} : Controller!Activate("u1", ops))

PartsSpec == PartsInit /\ [][PartsNext]_allVars /\ PartsFairness

-----------------------------------------------------------------------------
(* process() and execute() end by the timer of their contract if executor  *)
(* or adapter never answers (IdentityManager.ts:57-75).  The engine's clock*)
(* stops at 2: a contract that ends after that is beyond the bound.  (One  *)
(* formula for both, for the part never changes.)                          *)
Runs(c, r) == \/ part = "engine" /\ call[c].main # "receive"
              \/ part = "gateway" /\ run[r].main \notin {"idle", "returned", "dead"}
Ends(c, r) == \/ part = "engine" /\ (Over(c) \/ call[c].contractEnd > 2)
              \/ part = "gateway" /\ run[r].main \in {"returned", "dead"}
EveryCallEnds == (Runs("c1", "r1") ~> Ends("c1", "r1")) /\ (Runs("c2", "r2") ~> Ends("c2", "r2"))

(* An update that waits for permits gets its turn although gateways may    *)
(* never report (controller.ts 91, 136).                                   *)
UpdatesGetTheirTurn ==
  (part = "controller" /\ updateCall["u1"] = "draining")
    ~> (part = "controller" /\ updateCall["u1"] # "draining")

(* With one update at a time the flag covers its whole wait (controller.ts *)
(* 125-142).                                                               *)
DrainHoldsTheGate == part = "controller" => Controller!DrainHoldsTheGate
=============================================================================
