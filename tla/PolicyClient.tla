---------------------------- MODULE PolicyClient ----------------------------
(***************************************************************************)
(* A gateway's view of the policy: currentFor() of ControllerPolicyClient  *)
(* (src/control-plane/client.ts) with its memory, its state file and the   *)
(* acknowledgements it sends.  Several calls may be in flight, because the *)
(* gateway serves several admissions and redemptions at once; each action  *)
(* is the code between two awaits of one call.  The controller and the     *)
(* network appear as they are seen from here: a controller that publishes  *)
(* bundles, and may be restored from a backup of its database.             *)
(***************************************************************************)
EXTENDS Naturals, FiniteSets

CONSTANTS
  Call,            \* calls of currentFor that can be in flight together
  NoBundle,        \* no cached bundle, no state file
  MaxBundles,      \* bounds the epochs and identities of bundles
  Settings         \* the surroundings this gateway may find itself in

(* serial: its caller awaits one call before the next; restores: the       *)
(* controller's database may be restored from a backup; syncFails: the     *)
(* state file's directory may fail to sync; bundles and faults bound how   *)
(* many bundles are signed, and how many calls fail, crashes and restored  *)
(* backups there are.                                                      *)
Setting == [serial: BOOLEAN, restores: BOOLEAN, syncFails: BOOLEAN,
            bundles: 1..MaxBundles, faults: Nat]

ASSUME BoundsAssumption == MaxBundles \in Nat \ {0} /\ Settings \subseteq Setting

Bundle == [id: 1..MaxBundles, epoch: 1..MaxBundles]
ASSUME NoBundleAssumption == NoBundle \notin Bundle

VARIABLES
  setting,         \* never changes
  published,       \* every bundle the controller ever signed
  served,          \* the bundle GET /v1/policy answers with now
  lapsed,          \* bundles whose leaseUntil is over
  serverAck,       \* what the controller recorded for this gateway
  strayAcks,       \* acknowledgements whose caller gave up waiting
  stateFile,       \* config.statePath
  cached,          \* this.cached
  initialized,     \* this.initialized
  acknowledged,    \* this.acknowledgedEpoch, 0 if undefined
  call,            \* where each call is
  faults

controller == <<setting, published, served, lapsed>>
memory == <<cached, initialized, acknowledged>>
vars == <<setting, published, served, lapsed, serverAck, strayAcks, stateFile,
          cached, initialized, acknowledged, call, faults>>

ActionClass == {"bounded", "consequential"}

(* "bundle" is the local variable of the call; "seen" is history: every    *)
(* bundle that was the served one at some moment since the call began.     *)
CallState ==
  [pc: {"idle", "loading", "requested", "replied", "saving", "saved", "acking", "acked", "done"},
   class: ActionClass, bundle: Bundle \union {NoBundle}, seen: SUBSET Bundle]

Idle == [pc |-> "idle", class |-> "consequential", bundle |-> NoBundle, seen |-> {}]

InFlight(c) == call[c].pc \notin {"idle", "done"}

EpochOf(b) == IF b = NoBundle THEN 0 ELSE b.epoch

-----------------------------------------------------------------------------
Init ==
  /\ setting \in Settings
  /\ served = [id |-> 1, epoch |-> 1]
  /\ published = {served}
  /\ lapsed = {}
  /\ serverAck = NoBundle
  /\ strayAcks = {}
  /\ stateFile = NoBundle
  /\ cached = NoBundle
  /\ initialized = FALSE
  /\ acknowledged = 0
  /\ call = [c \in Call |-> Idle]
  /\ faults = 0

-----------------------------------------------------------------------------
(* Moves of one call.  Only its record changes. *)
Goes(c, pc) == call' = [call EXCEPT ![c].pc = pc]
Fails(c) == call' = [call EXCEPT ![c] = Idle]
Returns(c, b) == call' = [call EXCEPT ![c].pc = "done", ![c].bundle = b]

(* The last lines of currentFor: a bounded action needs a lease. *)
ReturnsUnderLease(c) ==
  IF call[c].class = "bounded" /\ call[c].bundle \in lapsed
    THEN Fails(c)
    ELSE Returns(c, call[c].bundle)

(* Mutant: any action is served from the cache under its lease. *)
FromCacheAlways(class, cache) == cache # NoBundle /\ cache \notin lapsed

(* After initialize(): a bounded action is served from the cache while the *)
(* lease runs; everything else asks the controller.                        *)
FromCache(class, cache) == class = "bounded" /\ cache # NoBundle /\ cache \notin lapsed

Started(class, cache) ==
  [pc |-> IF FromCache(class, cache) THEN "done" ELSE "requested",
   class |-> class,
   bundle |-> IF FromCache(class, cache) THEN cache ELSE NoBundle,
   seen |-> {served}]

MayBegin(c) == ~InFlight(c) /\ (setting.serial => \A d \in Call : ~InFlight(d))

Begin(c, class) ==
  /\ MayBegin(c)
  /\ initialized
  /\ call' = [call EXCEPT ![c] = Started(class, cached)]
  /\ UNCHANGED <<controller, serverAck, strayAcks, stateFile, memory, faults>>

(* initialize(): until one call has finished it, every call reads the      *)
(* state file itself and caches what it read when its read completes.      *)
BeginCold(c, class) ==
  /\ MayBegin(c)
  /\ ~initialized
  /\ call' = [call EXCEPT ![c] = [pc |-> "loading", class |-> class,
                                  bundle |-> stateFile, seen |-> {served}]]
  /\ UNCHANGED <<controller, serverAck, strayAcks, stateFile, memory, faults>>

(* Mutant: what the state file holds is not taken over. *)
LoadedNothing(c) ==
  /\ call[c].pc = "loading"
  /\ initialized' = TRUE
  /\ call' = [call EXCEPT ![c] = [Started(call[c].class, cached) EXCEPT !.seen = call[c].seen]]
  /\ UNCHANGED <<controller, serverAck, strayAcks, stateFile, cached, acknowledged, faults>>

Loaded(c) ==
  /\ call[c].pc = "loading"
  /\ cached' = IF call[c].bundle = NoBundle THEN cached ELSE call[c].bundle
  /\ initialized' = TRUE
  /\ call' = [call EXCEPT ![c] = [Started(call[c].class, cached') EXCEPT !.seen = call[c].seen]]
  /\ UNCHANGED <<controller, serverAck, strayAcks, stateFile, acknowledged, faults>>

(* The controller answers with its bundle of this moment; the answer may   *)
(* be read much later.                                                     *)
Answered(c) ==
  /\ call[c].pc = "requested"
  /\ call' = [call EXCEPT ![c].pc = "replied", ![c].bundle = served]
  /\ UNCHANGED <<controller, serverAck, strayAcks, stateFile, memory, faults>>

(* Mutant: only a lower epoch is a rollback. *)
LowersEpoch(b) == cached # NoBundle /\ b.epoch < cached.epoch

(* POLICY_ROLLBACK_REJECTED, against the cache of this moment. *)
RollsBack(b) ==
  /\ cached # NoBundle
  /\ \/ b.epoch < cached.epoch
     \/ b.epoch = cached.epoch /\ b # cached

IsNewer(b) == b.epoch > EpochOf(cached)

RollbackRejected(c) ==
  /\ call[c].pc = "replied"
  /\ RollsBack(call[c].bundle)
  /\ Fails(c)
  /\ UNCHANGED <<controller, serverAck, strayAcks, stateFile, memory, faults>>

(* Mutant: the cache runs ahead of the file. *)
NewerCachedFirst(c) ==
  /\ call[c].pc = "replied"
  /\ ~RollsBack(call[c].bundle)
  /\ IsNewer(call[c].bundle)
  /\ cached' = call[c].bundle
  /\ Goes(c, "saving")
  /\ UNCHANGED <<controller, serverAck, strayAcks, stateFile, initialized, acknowledged, faults>>

NewerReceived(c) ==
  /\ call[c].pc = "replied"
  /\ ~RollsBack(call[c].bundle)
  /\ IsNewer(call[c].bundle)
  /\ Goes(c, "saving")
  /\ UNCHANGED <<controller, serverAck, strayAcks, stateFile, memory, faults>>

(* Mutant: only a new bundle is acknowledged. *)
SameReceivedSilently(c) ==
  /\ call[c].pc = "replied"
  /\ ~RollsBack(call[c].bundle)
  /\ ~IsNewer(call[c].bundle)
  /\ ReturnsUnderLease(c)
  /\ UNCHANGED <<controller, serverAck, strayAcks, stateFile, memory, faults>>

SameReceived(c) ==
  /\ call[c].pc = "replied"
  /\ ~RollsBack(call[c].bundle)
  /\ ~IsNewer(call[c].bundle)
  /\ IF acknowledged # call[c].bundle.epoch
       THEN Goes(c, "acking")
       ELSE ReturnsUnderLease(c)
  /\ UNCHANGED <<controller, serverAck, strayAcks, stateFile, memory, faults>>

(* The temporary file has been written and synced; rename replaces the     *)
(* state file at once.                                                     *)
Save(c) ==
  /\ call[c].pc = "saving"
  /\ stateFile' = call[c].bundle
  /\ Goes(c, "saved")
  /\ UNCHANGED <<controller, serverAck, strayAcks, memory, faults>>

(* The directory is synced: the cache follows the file. *)
Install(c) ==
  /\ call[c].pc = "saved"
  /\ cached' = call[c].bundle
  /\ acknowledged' = 0
  /\ Goes(c, "acking")
  /\ UNCHANGED <<controller, serverAck, strayAcks, stateFile, initialized, faults>>

(* POST /v1/ack reaches the controller, which takes its own bundle only. *)
AckAccepted(c) ==
  /\ call[c].pc = "acking"
  /\ call[c].bundle = served
  /\ serverAck' = served
  /\ Goes(c, "acked")
  /\ UNCHANGED <<controller, strayAcks, stateFile, memory, faults>>

AckMismatch(c) ==
  /\ call[c].pc = "acking"
  /\ call[c].bundle # served
  /\ Fails(c)
  /\ UNCHANGED <<controller, serverAck, strayAcks, stateFile, memory, faults>>

AckAnswered(c) ==
  /\ call[c].pc = "acked"
  /\ acknowledged' = call[c].bundle.epoch
  /\ ReturnsUnderLease(c)
  /\ UNCHANGED <<controller, serverAck, strayAcks, stateFile, cached, initialized, faults>>

-----------------------------------------------------------------------------
(* Acknowledgements still on the wire when their caller gives up. *)
Abandoned(C) == {call[c].bundle : c \in {d \in C : call[d].pc = "acking"}}

(* CONTROLLER_UNAVAILABLE after 1.5 s, or a file error.  Between rename    *)
(* and install only the directory sync can fail.                           *)
CallFails(c) ==
  /\ InFlight(c)
  /\ call[c].pc = "saved" => setting.syncFails
  /\ faults < setting.faults
  /\ faults' = faults + 1
  /\ strayAcks' = strayAcks \union Abandoned({c})
  /\ Fails(c)
  /\ UNCHANGED <<controller, serverAck, stateFile, memory>>

(* The gateway process is killed and started again. *)
Crash ==
  /\ faults < setting.faults
  /\ faults' = faults + 1
  /\ strayAcks' = strayAcks \union Abandoned(Call)
  /\ call' = [c \in Call |-> Idle]
  /\ cached' = NoBundle
  /\ initialized' = FALSE
  /\ acknowledged' = 0
  /\ UNCHANGED <<controller, serverAck, stateFile>>

StrayAckArrives(b) ==
  /\ b \in strayAcks
  /\ strayAcks' = strayAcks \ {b}
  /\ serverAck' = IF b = served THEN served ELSE serverAck
  /\ UNCHANGED <<controller, stateFile, memory, call, faults>>

-----------------------------------------------------------------------------
(* The controller: the next bundle, or an older database.  Calls under way *)
(* note what is served now.                                                *)
Serves(b) ==
  /\ served' = b
  /\ call' = [c \in Call |-> IF InFlight(c) THEN [call[c] EXCEPT !.seen = @ \union {b}]
                                            ELSE call[c]]

(* Mutant: an epoch is skipped. *)
PublishSkipping ==
  /\ Cardinality(published) < setting.bundles
  /\ LET next == [id |-> Cardinality(published) + 1, epoch |-> served.epoch + 2]
     IN  published' = published \union {next} /\ Serves(next)
  /\ UNCHANGED <<setting, lapsed, serverAck, strayAcks, stateFile, memory, faults>>

Publish ==
  /\ Cardinality(published) < setting.bundles
  /\ LET next == [id |-> Cardinality(published) + 1, epoch |-> served.epoch + 1]
     IN  published' = published \union {next} /\ Serves(next)
  /\ UNCHANGED <<setting, lapsed, serverAck, strayAcks, stateFile, memory, faults>>

RestoreBackup(b) ==
  /\ setting.restores
  /\ b \in published
  /\ b.epoch < served.epoch
  /\ faults < setting.faults
  /\ faults' = faults + 1
  /\ Serves(b)
  /\ UNCHANGED <<setting, published, lapsed, serverAck, strayAcks, stateFile, memory>>

LeaseEnds(b) ==
  /\ b \in published \ lapsed
  /\ lapsed' = lapsed \union {b}
  /\ UNCHANGED <<setting, published, served, serverAck, strayAcks, stateFile, memory, call,
                 faults>>

-----------------------------------------------------------------------------
Continue(c) ==
  \/ Loaded(c) \/ Answered(c)
  \/ RollbackRejected(c) \/ NewerReceived(c) \/ SameReceived(c)
  \/ Save(c) \/ Install(c)
  \/ AckAccepted(c) \/ AckMismatch(c) \/ AckAnswered(c)

CallStep(c) ==
  \/ \E class \in ActionClass : Begin(c, class) \/ BeginCold(c, class)
  \/ Continue(c)
  \/ CallFails(c)

Environment ==
  \/ Crash
  \/ Publish
  \/ \E b \in Bundle : RestoreBackup(b) \/ LeaseEnds(b) \/ StrayAckArrives(b)

Next == Environment \/ \E c \in Call : CallStep(c)

Spec == Init /\ [][Next]_vars

(* A call under way goes on (its awaits complete, or fail after 1.5 s),    *)
(* and the gateway keeps being used for consequential actions.             *)
Fairness ==
  \A c \in Call :
    /\ WF_vars(Continue(c))
    /\ WF_vars(Begin(c, "consequential") \/ BeginCold(c, "consequential"))

FairSpec == Spec /\ Fairness

-----------------------------------------------------------------------------
(* Every variable keeps its type; epochs stay within what was signed. *)
TypeOK ==
  /\ setting \in Settings
  /\ published \subseteq Bundle
  /\ served \in Bundle
  /\ lapsed \subseteq Bundle
  /\ serverAck \in Bundle \union {NoBundle}
  /\ strayAcks \subseteq Bundle
  /\ stateFile \in Bundle \union {NoBundle}
  /\ cached \in Bundle \union {NoBundle}
  /\ initialized \in BOOLEAN
  /\ acknowledged \in 0..MaxBundles
  /\ call \in [Call -> CallState]
  /\ faults \in 0..setting.faults

(* The epoch in the state file never goes back (README line 59, "persist a *)
(* monotonic epoch"; client.ts 80-93).                                     *)
PersistedEpochMonotonic == [][EpochOf(stateFile') >= EpochOf(stateFile)]_vars

(* One call at a time, on a disk that does its work. *)
Orderly == setting.serial /\ ~setting.syncFails

(* The statement as far as it is true: of calls that do not overlap        *)
(* (README.md:59, client.ts 80-93).                                        *)
OrderlyEpochMonotonic == [][Orderly => EpochOf(stateFile') >= EpochOf(stateFile)]_vars

(* Whatever the gateway shows to others is on its disk first, as long as   *)
(* calls do not overlap: the cache, the answers it decided by, and the     *)
(* acknowledgement the controller holds are never ahead of the state file, *)
(* so a restart forgets none of them (client.ts 80-97).                    *)
DurableFirst ==
  Orderly =>
    /\ EpochOf(cached) <= EpochOf(stateFile)
    /\ EpochOf(serverAck) <= EpochOf(stateFile)
    /\ \A c \in Call : call[c].pc = "done" => EpochOf(call[c].bundle) <= EpochOf(stateFile)

(* A consequential decision is made under a bundle that was the            *)
(* controller's own at some moment during the call, however the answers of *)
(* concurrent calls are ordered and whatever is in the cache (78-103).     *)
FreshAnswer ==
  \A c \in Call :
    call[c].pc = "done" /\ call[c].class = "consequential" => call[c].bundle \in call[c].seen

(* Two different bundles of one epoch never meet in one gateway whose      *)
(* calls do not overlap: whatever it caches or answers with is the stored  *)
(* one when their epochs agree (client.ts 81; rfcs/0007 line 9).           *)
Agrees(b) == EpochOf(b) = EpochOf(stateFile) => b = stateFile
NoEquivocation ==
  Orderly =>
    /\ Agrees(cached)
    /\ \A c \in Call : call[c].pc = "done" => Agrees(call[c].bundle)

(* Once bundles stop changing, the controller ends up holding this         *)
(* gateway's acknowledgement of the bundle in force, however many calls    *)
(* raced, failed or crashed on the way, unless it forgot bundles.          *)
AcknowledgementConverges == ~setting.restores => <>[](serverAck = served)
=============================================================================
