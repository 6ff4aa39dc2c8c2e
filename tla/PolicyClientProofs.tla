-------------------------- MODULE PolicyClientProofs --------------------------
(***************************************************************************)
(* Theorems about a gateway's policy client, for any number of calls,      *)
(* bundles and faults, in any setting.                                     *)
(***************************************************************************)
EXTENDS PolicyClient, FiniteSetTheorems, TLAPS

(* A call that has an answer of the controller to work on. *)
Answering == {"replied", "saving", "saved", "acking", "acked"}
Named(c) == call[c].pc \in Answering => call[c].bundle # NoBundle

(* Identities and epochs are counted through: none is beyond the number of *)
(* bundles signed, which is what keeps both within their bound.            *)
Numbered ==
  /\ IsFiniteSet(published) /\ served \in published
  /\ \A b \in published : b.id <= Cardinality(published) /\ b.epoch <= Cardinality(published)

Typed == TypeOK /\ Numbered /\ \A c \in Call : Named(c)

LEMMA TypedStarts == Init => Typed
<1> SUFFICES ASSUME Init PROVE Typed
  OBVIOUS
<1>1. served \in Bundle /\ published = {served} /\ served.id = 1 /\ served.epoch = 1
  BY BoundsAssumption DEF Init, Bundle
<1>2. IsFiniteSet(published) /\ Cardinality(published) = 1
  BY <1>1, FS_Singleton
<1>3. Idle \in CallState
  BY DEF Idle, CallState, ActionClass
<1>4. setting \in Settings /\ setting.faults \in Nat
  BY BoundsAssumption DEF Init, Setting
<1>5. TypeOK
  <2>1. initialized \in BOOLEAN /\ call \in [Call -> CallState]
    BY <1>3 DEF Init
  <2>2. faults \in 0..setting.faults /\ acknowledged \in 0..MaxBundles
    BY <1>4, BoundsAssumption DEF Init
  <2>3. QED
    BY <1>1, <1>4, <2>1, <2>2 DEF Init, TypeOK
<1>6. \A c \in Call : Named(c)
  BY DEF Init, Named, Idle, Answering
<1>7. QED
  BY <1>1, <1>2, <1>5, <1>6 DEF Typed, Numbered

(* What a call is after one step of its own. *)
LEMMA OwnStepTyped ==
  ASSUME Typed, NEW c \in Call, CallStep(c)
  PROVE  call' \in [Call -> CallState] /\ \A d \in Call : Named(d)'
<1> USE DEF Typed, TypeOK, Named, Answering, CallState, ActionClass
<1>1. Idle \in CallState /\ Idle.pc = "idle"
  BY DEF Idle
<1>f. CASE Fails(c)
  BY <1>f, <1>1 DEF Fails
<1>r. ASSUME Returns(c, call[c].bundle)
      PROVE  call' \in [Call -> CallState] /\ \A d \in Call : Named(d)'
  BY <1>r DEF Returns
<1>s. ASSUME NEW class \in ActionClass, NEW cache \in Bundle \union {NoBundle}
      PROVE  Started(class, cache) \in CallState /\ Started(class, cache).pc \in {"done", "requested"}
  BY DEF Started
<1>2. ASSUME NEW class \in ActionClass, Begin(c, class)
      PROVE  call' \in [Call -> CallState] /\ \A d \in Call : Named(d)'
  BY <1>2, <1>s DEF Begin
<1>3. ASSUME NEW class \in ActionClass, BeginCold(c, class)
      PROVE  call' \in [Call -> CallState] /\ \A d \in Call : Named(d)'
  BY <1>3 DEF BeginCold
<1>4. CASE Loaded(c)
  <2>1. cached' \in Bundle \union {NoBundle} /\ call[c].class \in ActionClass
    BY <1>4 DEF Loaded
  <2>2. call' = [call EXCEPT ![c] = [Started(call[c].class, cached') EXCEPT !.seen = call[c].seen]]
    BY <1>4 DEF Loaded
  <2>3. QED
    BY <2>1, <2>2 DEF Started
<1>5. CASE Answered(c)
  <2>1. served # NoBundle
    BY NoBundleAssumption
  <2>2. QED
    BY <1>5, <2>1 DEF Answered
<1>6. CASE NewerReceived(c) \/ Save(c) \/ Install(c) \/ AckAccepted(c)
  BY <1>6 DEF NewerReceived, Save, Install, AckAccepted, Goes
<1>7. CASE SameReceived(c) \/ AckAnswered(c)
  BY <1>7, <1>f, <1>r DEF SameReceived, AckAnswered, ReturnsUnderLease, Goes
<1>8. CASE RollbackRejected(c) \/ AckMismatch(c) \/ CallFails(c)
  BY <1>8, <1>f DEF RollbackRejected, AckMismatch, CallFails
<1>9. QED
  BY <1>2, <1>3, <1>4, <1>5, <1>6, <1>7, <1>8 DEF CallStep, Continue

(* A bundle that is signed has a new identity, and both its numbers are    *)
(* within what was signed.                                                 *)
LEMMA PublishNumbers ==
  ASSUME Typed, Publish
  PROVE  /\ Numbered' /\ published' \subseteq Bundle /\ served' \in Bundle
<1> DEFINE next == [id |-> Cardinality(published) + 1, epoch |-> served.epoch + 1]
<1>1. published' = published \union {next} /\ served' = next
  BY DEF Publish, Serves
<1>2. Cardinality(published) \in Nat /\ IsFiniteSet(published)
  BY FS_CardinalityType DEF Typed, Numbered
<1>3. served \in published /\ served.epoch \in 1..MaxBundles
      /\ served.epoch <= Cardinality(published)
  BY DEF Typed, Numbered, TypeOK, Bundle
<1>4. setting.bundles \in 1..MaxBundles /\ Cardinality(published) < setting.bundles
  BY BoundsAssumption DEF Publish, Typed, TypeOK, Setting
<1>5. next \in Bundle
  BY <1>2, <1>3, <1>4, BoundsAssumption DEF Bundle
<1>6. next \notin published
  BY <1>2 DEF Typed, Numbered
<1>7. IsFiniteSet(published') /\ Cardinality(published') = Cardinality(published) + 1
  BY <1>1, <1>2, <1>6, FS_AddElement
<1>8. \A b \in published' : b.id <= Cardinality(published') /\ b.epoch <= Cardinality(published')
  <2> SUFFICES ASSUME NEW b \in published'
               PROVE  b.id <= Cardinality(published') /\ b.epoch <= Cardinality(published')
    OBVIOUS
  <2>1. CASE b = next
    BY <2>1, <1>2, <1>3, <1>7
  <2>2. CASE b \in published
    <3>1. b.id \in Nat /\ b.epoch \in Nat
      BY <2>2, BoundsAssumption DEF Typed, TypeOK, Bundle
    <3>2. b.id <= Cardinality(published) /\ b.epoch <= Cardinality(published)
      BY <2>2 DEF Typed, Numbered
    <3>3. QED
      BY <3>1, <3>2, <1>2, <1>7
  <2>3. QED
    BY <2>1, <2>2, <1>1
<1>9. QED
  BY <1>1, <1>5, <1>7, <1>8 DEF Typed, TypeOK, Numbered

(* Bundles, files and memory keep their types in every step, the calls     *)
(* apart.                                                                  *)
LEMMA OthersKeepTypes ==
  ASSUME Typed, NEW c \in Call, CallStep(c)
  PROVE  /\ UNCHANGED <<setting, published, served, lapsed>>
         /\ serverAck' \in Bundle \union {NoBundle} /\ strayAcks' \subseteq Bundle
         /\ stateFile' \in Bundle \union {NoBundle} /\ cached' \in Bundle \union {NoBundle}
         /\ initialized' \in BOOLEAN /\ acknowledged' \in 0..MaxBundles
         /\ faults' \in 0..setting'.faults
<1> USE DEF Typed, TypeOK
<1>c. call[c].pc \in Answering => call[c].bundle \in Bundle
  BY DEF Named, CallState
<1>l. call[c].bundle \in Bundle \union {NoBundle}
  BY DEF CallState
<1>n. setting.faults \in Nat
  BY BoundsAssumption DEF Setting
<1> HIDE DEF Bundle
<1>1. ASSUME NEW class \in ActionClass, Begin(c, class) \/ BeginCold(c, class) PROVE UNCHANGED
        <<setting, published, served, lapsed, serverAck, strayAcks, stateFile, cached,
          initialized, acknowledged, faults>>
  BY <1>1 DEF Begin, BeginCold, controller, memory
<1>2. CASE Answered(c) \/ RollbackRejected(c) \/ NewerReceived(c) \/ SameReceived(c) \/ AckMismatch(c)
  BY <1>2 DEF Answered, RollbackRejected, NewerReceived, SameReceived, AckMismatch, controller, memory
<1>3. CASE Loaded(c)
  BY <1>3, <1>l DEF Loaded, controller
<1>4. CASE Save(c)
  BY <1>4, <1>c DEF Save, Answering, controller, memory
<1>5. CASE Install(c)
  BY <1>5, <1>c, BoundsAssumption DEF Install, Answering, controller
<1>6. CASE AckAccepted(c)
  BY <1>6 DEF AckAccepted, controller, memory
<1>7. CASE AckAnswered(c)
  <2>1. call[c].bundle.epoch \in 0..MaxBundles
    BY <1>7, <1>c, BoundsAssumption DEF AckAnswered, Answering, Bundle
  <2>2. QED
    BY <1>7, <2>1 DEF AckAnswered, controller
<1>8. CASE CallFails(c)
  <2>1. Abandoned({c}) \subseteq Bundle
    BY <1>c DEF Abandoned, Answering
  <2>2. faults' \in 0..setting.faults
    BY <1>8, <1>n DEF CallFails
  <2>3. QED
    BY <1>8, <2>1, <2>2 DEF CallFails, controller, memory
<1>9. QED
  BY <1>1, <1>2, <1>3, <1>4, <1>5, <1>6, <1>7, <1>8 DEF CallStep, Continue

LEMMA EnvironmentTyped == ASSUME Typed, Environment PROVE Typed'
<1> USE DEF Typed, TypeOK
<1>n. setting.faults \in Nat
  BY BoundsAssumption DEF Setting
<1>s. ASSUME NEW b \in Bundle, Serves(b)
      PROVE  call' \in [Call -> CallState] /\ \A d \in Call : Named(d)'
  BY <1>s DEF Serves, CallState, Named
<1>1. CASE Crash
  <2>1. Idle \in CallState /\ Idle.pc \notin Answering
    BY DEF Idle, CallState, ActionClass, Answering
  <2>2. call' \in [Call -> CallState] /\ \A d \in Call : Named(d)'
    BY <1>1, <2>1 DEF Crash, Named
  <2>3. Abandoned(Call) \subseteq Bundle
    BY DEF Abandoned, Answering, Named, CallState
  <2>4. faults' \in 0..setting.faults /\ acknowledged' \in 0..MaxBundles
    BY <1>1, <1>n, BoundsAssumption DEF Crash
  <2>5. initialized' \in BOOLEAN /\ cached' \in Bundle \union {NoBundle}
    BY <1>1 DEF Crash
  <2>6. Numbered'
    BY <1>1 DEF Crash, Numbered, controller
  <2>7. QED
    BY <1>1, <2>2, <2>3, <2>4, <2>5, <2>6 DEF Crash, controller
<1>2. CASE Publish
  <2>1. call' \in [Call -> CallState] /\ \A d \in Call : Named(d)'
    BY <1>2, <1>s, PublishNumbers DEF Publish
  <2>2. QED
    BY <1>2, <2>1, PublishNumbers DEF Publish, memory
<1>3. ASSUME NEW b \in Bundle, RestoreBackup(b) PROVE Typed'
  <2>1. call' \in [Call -> CallState] /\ \A d \in Call : Named(d)'
    BY <1>3, <1>s DEF RestoreBackup
  <2>2. faults' \in 0..setting.faults
    BY <1>3, <1>n DEF RestoreBackup
  <2>3. Numbered' /\ served' \in Bundle
    BY <1>3 DEF RestoreBackup, Serves, Numbered
  <2>4. QED
    BY <1>3, <2>1, <2>2, <2>3 DEF RestoreBackup, memory
<1>4. ASSUME NEW b \in Bundle, LeaseEnds(b) \/ StrayAckArrives(b) PROVE Typed'
  <2>1. UNCHANGED <<setting, published, served, stateFile, cached, initialized, acknowledged,
                    call, faults>>
    BY <1>4 DEF LeaseEnds, StrayAckArrives, controller, memory
  <2>2. lapsed' \subseteq Bundle /\ strayAcks' \subseteq Bundle
        /\ serverAck' \in Bundle \union {NoBundle}
    BY <1>4 DEF LeaseEnds, StrayAckArrives, controller
  <2>3. Numbered' /\ \A d \in Call : Named(d)'
    BY <2>1 DEF Numbered, Named
  <2>4. QED
    BY <2>1, <2>2, <2>3
<1>5. QED
  BY <1>1, <1>2, <1>3, <1>4 DEF Environment

LEMMA TypedKept == Typed /\ [Next]_vars => Typed'
<1> SUFFICES ASSUME Typed, [Next]_vars PROVE Typed'
  OBVIOUS
<1>1. CASE Environment
  BY <1>1, EnvironmentTyped
<1>2. ASSUME NEW c \in Call, CallStep(c) PROVE Typed'
  BY <1>2, OwnStepTyped, OthersKeepTypes DEF Typed, TypeOK, Numbered
<1>3. CASE UNCHANGED vars
  BY <1>3 DEF vars, Typed, TypeOK, Numbered, Named
<1>4. QED
  BY <1>1, <1>2, <1>3 DEF Next

LEMMA AlwaysTyped == Spec => []Typed
BY TypedStarts, TypedKept, PTL DEF Spec

(* Every variable of the client, of its calls and of the controller as it  *)
(* sees it keeps its type, whatever races and fails (client.ts 28-103).    *)
THEOREM TypeCorrect == Spec => []TypeOK
<1>1. Typed => TypeOK
  BY DEF Typed
<1>2. QED
  BY <1>1, AlwaysTyped, PTL

-----------------------------------------------------------------------------
(* The bundle in force has been seen by every call under way, and so has   *)
(* the bundle of every answer it works on: the strengthening under which   *)
(* FreshAnswer is inductive.                                               *)
SeenByCall(c) ==
  /\ InFlight(c) => served \in call[c].seen
  /\ call[c].pc \in Answering => call[c].bundle \in call[c].seen
  /\ call[c].pc = "done" /\ call[c].class = "consequential" => call[c].bundle \in call[c].seen

Fresh == \A c \in Call : SeenByCall(c)

LEMMA FreshKept == Typed /\ Fresh /\ [Next]_vars => Fresh'
<1> SUFFICES ASSUME Typed, Fresh, [Next]_vars, NEW d \in Call PROVE SeenByCall(d)'
  BY DEF Fresh
<1> USE DEF Typed, TypeOK, Answering, CallState, InFlight
<1>d. SeenByCall(d)
  BY DEF Fresh
<1>u. CASE UNCHANGED <<call, served>>
  BY <1>u, <1>d DEF SeenByCall
<1>s. ASSUME NEW b \in Bundle, Serves(b) PROVE SeenByCall(d)'
  BY <1>s, <1>d DEF Serves, SeenByCall
<1>1. CASE Environment
  <2>1. CASE Crash
    BY <2>1 DEF Crash, Idle, SeenByCall
  <2>2. CASE Publish
    BY <2>2, <1>s, PublishNumbers DEF Publish, Serves
  <2>3. ASSUME NEW b \in Bundle, RestoreBackup(b) \/ LeaseEnds(b) \/ StrayAckArrives(b)
        PROVE  SeenByCall(d)'
    BY <2>3, <1>s, <1>u DEF RestoreBackup, LeaseEnds, StrayAckArrives, controller
  <2>4. QED
    BY <1>1, <2>1, <2>2, <2>3 DEF Environment
<1>2. ASSUME NEW c \in Call, CallStep(c) PROVE SeenByCall(d)'
  <2>0. UNCHANGED served
    BY <1>2, OthersKeepTypes
  <2>1. CASE c # d
    <3>1. call'[d] = call[d]
      BY <1>2, <2>1 DEF CallStep, Continue, Begin, BeginCold, Loaded, Answered, RollbackRejected,
         NewerReceived, SameReceived, Save, Install, AckAccepted, AckMismatch, AckAnswered,
         CallFails, Goes, Fails, Returns, ReturnsUnderLease
    <3>2. QED
      BY <2>0, <3>1, <1>d DEF SeenByCall
  <2>2. CASE c = d
    <3>c. SeenByCall(c)
      BY <2>2, <1>d
    <3>1. ASSUME NEW class \in ActionClass, Begin(c, class) \/ BeginCold(c, class)
          PROVE  SeenByCall(c)'
      BY <3>1, <2>0 DEF Begin, BeginCold, Started, FromCache, SeenByCall
    <3>2. CASE Loaded(c)
      <4>1. call'[c] = [Started(call[c].class, cached') EXCEPT !.seen = call[c].seen]
        BY <3>2 DEF Loaded
      <4>2. QED
        BY <3>2, <4>1, <2>0, <2>2, <3>c DEF Loaded, Started, FromCache, SeenByCall
    <3>3. CASE Answered(c)
      BY <3>3, <2>0, <2>2, <3>c DEF Answered, SeenByCall
    <3>4. CASE Fails(c)
      BY <2>2, <3>4 DEF Fails, Idle, SeenByCall
    <3>5. CASE NewerReceived(c) \/ Save(c) \/ Install(c) \/ AckAccepted(c)
      BY <3>5, <2>0, <2>2, <3>c DEF NewerReceived, Save, Install, AckAccepted, Goes, SeenByCall
    <3>6. CASE SameReceived(c) \/ AckAnswered(c)
      BY <3>6, <2>0, <2>2, <3>c, <3>4
         DEF SameReceived, AckAnswered, ReturnsUnderLease, Returns, Goes, SeenByCall
    <3>7. CASE RollbackRejected(c) \/ AckMismatch(c) \/ CallFails(c)
      BY <3>7, <3>4 DEF RollbackRejected, AckMismatch, CallFails
    <3>8. QED
      BY <1>2, <2>2, <3>1, <3>2, <3>3, <3>5, <3>6, <3>7 DEF CallStep, Continue
  <2>3. QED
    BY <2>1, <2>2
<1>3. CASE UNCHANGED vars
  BY <1>3, <1>u DEF vars
<1>4. QED
  BY <1>1, <1>2, <1>3 DEF Next

(* A consequential decision is made under a bundle that was in force       *)
(* during the call, however calls race, fail and overtake each other, and  *)
(* whatever was cached or stored before (client.ts 73-103).                *)
THEOREM AnswersAreFresh == Spec => []FreshAnswer
<1>1. Init => Fresh
  BY DEF Init, Fresh, SeenByCall, Idle, InFlight, Answering
<1>2. Fresh => FreshAnswer
  BY DEF Fresh, SeenByCall, FreshAnswer
<1>3. QED
  BY <1>1, <1>2, FreshKept, AlwaysTyped, PTL DEF Spec

-----------------------------------------------------------------------------
(* Calls that do not overlap.  What one of them may rely on, and what it   *)
(* has not shown to anybody yet, by the place it has reached.              *)
Place(c) ==
  /\ call[c].pc = "loading" => ~initialized /\ call[c].bundle = stateFile
  /\ call[c].pc \in {"requested", "replied", "saving", "acking", "acked"} => initialized
  /\ call[c].pc = "saving" => EpochOf(stateFile) < call[c].bundle.epoch
  /\ call[c].pc = "saved" => /\ initialized /\ stateFile = call[c].bundle
                             /\ EpochOf(cached) < call[c].bundle.epoch
  /\ call[c].pc \in {"acking", "acked"} => call[c].bundle = stateFile
  /\ call[c].pc = "done" =>
       EpochOf(call[c].bundle) <= EpochOf(stateFile) /\ Agrees(call[c].bundle)

(* Between the calls, and in most of their steps, the cache is the file.   *)
Settled == IF initialized THEN cached = stateFile ELSE cached = NoBundle

InOrder ==
  /\ \A c, d \in Call : InFlight(c) /\ InFlight(d) => c = d
  /\ (\A c \in Call : call[c].pc # "saved") => Settled
  /\ \A c \in Call : Place(c)
  /\ EpochOf(serverAck) <= EpochOf(stateFile)
  /\ \A b \in strayAcks : b.epoch <= EpochOf(stateFile)

Durable == Orderly => InOrder

LEMMA EpochType ==
  ASSUME NEW b \in Bundle \union {NoBundle}
  PROVE  /\ EpochOf(b) \in 0..MaxBundles
         /\ b # NoBundle <=> EpochOf(b) > 0
         /\ b \in Bundle => EpochOf(b) = b.epoch
<1>1. CASE b = NoBundle
  BY <1>1, NoBundleAssumption, BoundsAssumption DEF EpochOf
<1>2. CASE b \in Bundle
  BY <1>2, NoBundleAssumption, BoundsAssumption DEF EpochOf, Bundle
<1>3. QED
  BY <1>1, <1>2

(* What InOrder means for the properties of Orderly calls. *)
LEMMA InOrderIsDurable ==
  ASSUME Typed, InOrder
  PROVE  EpochOf(cached) <= EpochOf(stateFile) /\ Agrees(cached)
<1> USE DEF Typed, TypeOK
<1>0. stateFile \in Bundle \union {NoBundle} /\ cached \in Bundle \union {NoBundle}
  OBVIOUS
<1>1. ASSUME Settled PROVE EpochOf(cached) <= EpochOf(stateFile) /\ Agrees(cached)
  <2>1. CASE cached = stateFile
    BY <2>1, <1>0, EpochType DEF Agrees
  <2>2. CASE cached = NoBundle
    <3>1. EpochOf(cached) = 0
      BY <2>2 DEF EpochOf
    <3>2. EpochOf(stateFile) \in Nat /\ (EpochOf(stateFile) = 0 => stateFile = NoBundle)
      BY <1>0, EpochType
    <3>3. QED
      BY <2>2, <3>1, <3>2 DEF Agrees
  <2>3. QED
    BY <1>1, <2>1, <2>2 DEF Settled
<1>2. ASSUME NEW c \in Call, call[c].pc = "saved"
      PROVE  EpochOf(cached) <= EpochOf(stateFile) /\ Agrees(cached)
  <2>1. stateFile = call[c].bundle /\ EpochOf(cached) < call[c].bundle.epoch
    BY <1>2 DEF InOrder, Place
  <2>2. stateFile \in Bundle
    BY <2>1, <1>2 DEF Named, Answering, CallState
  <2>3. EpochOf(cached) \in Nat /\ EpochOf(stateFile) \in Nat
        /\ EpochOf(stateFile) = stateFile.epoch
    BY <2>2, <1>0, EpochType
  <2>4. QED
    BY <2>1, <2>3 DEF Agrees
<1>3. QED
  BY <1>1, <1>2 DEF InOrder

(* A step of a call that leaves the file and the memory alone. *)
LEMMA QuietStep ==
  ASSUME Typed, InOrder, NEW c \in Call, NEW next \in CallState,
         call' = [call EXCEPT ![c] = next],
         UNCHANGED <<stateFile, cached, initialized, serverAck, strayAcks>>,
         call[c].pc # "saved" /\ next.pc # "saved",
         next.pc \notin {"idle", "done"} => InFlight(c) \/ \A d \in Call : ~InFlight(d),
         Place(c)'
  PROVE  InOrder'
<1> USE DEF Typed, TypeOK
<1>1. call'[c] = next /\ \A d \in Call : d # c => call'[d] = call[d]
  OBVIOUS
<1>2. \A d \in Call : Place(d)'
  BY <1>1 DEF InOrder, Place, Agrees
<1>3. \A a, b \in Call : InFlight(a)' /\ InFlight(b)' => a = b
  BY <1>1 DEF InOrder, InFlight
<1>4. (\A d \in Call : call'[d].pc # "saved") => Settled'
  BY <1>1 DEF InOrder, Settled
<1>5. QED
  BY <1>2, <1>3, <1>4 DEF InOrder

(* While one call is under way, and not between rename and install, no     *)
(* other is, and the cache is the file.                                    *)
LEMMA Alone ==
  ASSUME InOrder, NEW c \in Call, InFlight(c), call[c].pc # "saved"
  PROVE  Settled /\ \A d \in Call : d # c => ~InFlight(d)
<1>1. \A d \in Call : d # c => ~InFlight(d)
  BY DEF InOrder
<1>2. \A d \in Call : call[d].pc # "saved"
  BY <1>1 DEF InFlight
<1>3. QED
  BY <1>1, <1>2 DEF InOrder

LEMMA BeginsInOrder ==
  ASSUME Typed, InOrder, setting.serial, NEW c \in Call, NEW class \in ActionClass,
         Begin(c, class) \/ BeginCold(c, class)
  PROVE  InOrder'
<1> USE DEF Typed, TypeOK
<1>1. (\A d \in Call : ~InFlight(d)) /\ Settled
  BY DEF Begin, BeginCold, MayBegin, InOrder, InFlight
<1>2. CASE Begin(c, class)
  <2>1. Started(class, cached) \in CallState
    BY DEF Started, CallState, ActionClass
  <2>2. call' = [call EXCEPT ![c] = Started(class, cached)] /\ initialized
        /\ UNCHANGED <<stateFile, cached, initialized, serverAck, strayAcks>>
    BY <1>2 DEF Begin, memory
  <2>3. call'[c] = Started(class, cached)
    BY <2>2
  <2>4. Place(c)'
    BY <2>2, <2>3, InOrderIsDurable DEF Started, Place, Agrees
  <2>5. QED
    BY <1>1, <2>1, <2>2, <2>4, QuietStep DEF Started, InFlight
<1>3. CASE BeginCold(c, class)
  <2> DEFINE next == [pc |-> "loading", class |-> class, bundle |-> stateFile, seen |-> {served}]
  <2>1. next \in CallState
    BY DEF CallState, ActionClass
  <2>2. call' = [call EXCEPT ![c] = next] /\ ~initialized
        /\ UNCHANGED <<stateFile, cached, initialized, serverAck, strayAcks>>
    BY <1>3 DEF BeginCold, memory
  <2>3. call'[c] = next
    BY <2>2
  <2>4. Place(c)'
    BY <2>2, <2>3 DEF Place
  <2>5. next.pc = "loading" /\ call[c].pc # "saved"
    BY <1>1 DEF InFlight
  <2>6. QED
    BY <1>1, <2>1, <2>2, <2>4, <2>5, QuietStep
<1>4. QED
  BY <1>2, <1>3

(* The steps that only move a call on. *)
LEMMA MovesInOrder ==
  ASSUME Typed, InOrder, NEW c \in Call,
         \/ Answered(c) \/ RollbackRejected(c) \/ NewerReceived(c) \/ SameReceived(c)
         \/ AckMismatch(c) \/ AckAnswered(c)
  PROVE  InOrder'
<1> USE DEF Typed, TypeOK
<1>0. call[c] \in CallState /\ call[c].pc # "saved" /\ InFlight(c) /\ initialized /\ Place(c)
  BY DEF Answered, RollbackRejected, NewerReceived, SameReceived, AckMismatch, AckAnswered, InFlight,
         InOrder, Place
<1>1. cached = stateFile
  BY <1>0, Alone DEF Settled
<1>2. UNCHANGED <<stateFile, cached, initialized, serverAck, strayAcks>>
  BY DEF Answered, RollbackRejected, NewerReceived, SameReceived, AckMismatch, AckAnswered,
         controller, memory
<1>m. ASSUME NEW next \in CallState, call' = [call EXCEPT ![c] = next], next.pc # "saved", Place(c)'
      PROVE  InOrder'
  BY <1>m, <1>0, <1>2, QuietStep
<1>f. CASE Fails(c)
  <2>1. Idle \in CallState /\ Idle.pc = "idle"
    BY DEF Idle, CallState, ActionClass
  <2>2. call' = [call EXCEPT ![c] = Idle] /\ call'[c] = Idle
    BY <1>f DEF Fails
  <2>3. QED
    BY <1>m, <2>1, <2>2 DEF Place
<1>r. ASSUME Returns(c, call[c].bundle), call[c].bundle = stateFile PROVE InOrder'
  <2> DEFINE next == [call[c] EXCEPT !.pc = "done", !.bundle = call[c].bundle]
  <2>1. next \in CallState /\ next.pc = "done" /\ next.bundle = stateFile
    BY <1>0, <1>r DEF CallState
  <2>2. call' = [call EXCEPT ![c] = next] /\ call'[c] = next
    BY <1>r DEF Returns
  <2>3. EpochOf(stateFile) <= EpochOf(stateFile)
    BY EpochType
  <2>4. Place(c)'
    BY <1>2, <2>1, <2>2, <2>3 DEF Place, Agrees
  <2>5. QED
    BY <1>m, <2>1, <2>2, <2>4
<1>g. ASSUME NEW pc \in {"saving", "acking"}, Goes(c, pc),
             pc = "saving" => EpochOf(stateFile) < call[c].bundle.epoch,
             pc = "acking" => call[c].bundle = stateFile
      PROVE  InOrder'
  <2> DEFINE next == [call[c] EXCEPT !.pc = pc]
  <2>1. next \in CallState /\ next.pc = pc /\ next.bundle = call[c].bundle
    BY <1>0 DEF CallState
  <2>2. call' = [call EXCEPT ![c] = next] /\ call'[c] = next
    BY <1>g DEF Goes
  <2>3. Place(c)'
    BY <1>0, <1>2, <1>g, <2>1, <2>2 DEF Place
  <2>4. QED
    BY <1>m, <2>1, <2>2, <2>3
<1>3. CASE Answered(c)
  <2> DEFINE next == [call[c] EXCEPT !.pc = "replied", !.bundle = served]
  <2>1. next \in CallState /\ next.pc = "replied"
    BY <1>0 DEF CallState
  <2>2. call' = [call EXCEPT ![c] = next] /\ call'[c] = next
    BY <1>3 DEF Answered
  <2>3. Place(c)'
    BY <1>0, <1>2, <2>1, <2>2 DEF Place
  <2>4. QED
    BY <1>m, <2>1, <2>2, <2>3
<1>4. CASE RollbackRejected(c) \/ AckMismatch(c)
  BY <1>4, <1>f DEF RollbackRejected, AckMismatch
<1>5. CASE NewerReceived(c)
  <2>1. call[c].bundle.epoch > EpochOf(stateFile)
    BY <1>1, <1>5 DEF NewerReceived, IsNewer
  <2>2. call[c].bundle \in Bundle
    BY <1>0, <1>5 DEF NewerReceived, Named, Answering, CallState
  <2>3. EpochOf(stateFile) < call[c].bundle.epoch
    BY <2>1, <2>2, EpochType
  <2>4. QED
    BY <1>5, <1>g, <2>3 DEF NewerReceived
<1>6. CASE SameReceived(c)
  <2>1. call[c].bundle \in Bundle
    BY <1>0, <1>6 DEF SameReceived, Named, Answering, CallState
  <2>2. call[c].bundle.epoch \in Nat \ {0}
        /\ (stateFile \in Bundle => EpochOf(stateFile) = stateFile.epoch /\ stateFile.epoch \in Nat)
        /\ (stateFile = NoBundle => EpochOf(stateFile) = 0)
    BY <2>1, EpochType DEF Bundle, EpochOf
  <2>3. call[c].bundle = stateFile
    BY <1>1, <1>6, <2>2 DEF SameReceived, RollsBack, IsNewer
  <2>4. QED
    BY <1>6, <1>f, <1>r, <1>g, <2>3 DEF SameReceived, ReturnsUnderLease
<1>7. CASE AckAnswered(c)
  <2>1. call[c].bundle = stateFile
    BY <1>0, <1>7 DEF AckAnswered, Place
  <2>2. QED
    BY <1>7, <1>f, <1>r, <2>1 DEF AckAnswered, ReturnsUnderLease
<1>8. QED
  BY <1>3, <1>4, <1>5, <1>6, <1>7

(* What the file held is taken over; nobody else has anything cached. *)
LEMMA LoadsInOrder ==
  ASSUME Typed, InOrder, NEW c \in Call, Loaded(c)
  PROVE  InOrder'
<1> USE DEF Typed, TypeOK
<1>0. /\ call[c] \in CallState /\ ~initialized /\ call[c].bundle = stateFile
      /\ InFlight(c) /\ call[c].pc = "loading"
  BY DEF Loaded, InFlight, InOrder, Place
<1>1. cached = NoBundle /\ \A d \in Call : d # c => ~InFlight(d)
  BY <1>0, Alone DEF Settled
<1>2. cached' = stateFile /\ initialized' /\ UNCHANGED <<stateFile, serverAck, strayAcks>>
  BY <1>0, <1>1 DEF Loaded, controller
<1> DEFINE next == [Started(call[c].class, cached') EXCEPT !.seen = call[c].seen]
<1>3. call' = [call EXCEPT ![c] = next] /\ call'[c] = next
  BY DEF Loaded
<1>4. /\ next.pc \in {"done", "requested"}
      /\ next.pc = "done" => next.bundle = stateFile
  BY <1>2 DEF Started, FromCache
<1>5. EpochOf(stateFile) <= EpochOf(stateFile)
  BY EpochType
<1> HIDE DEF next
<1>6. Place(c)'
  BY <1>2, <1>3, <1>4, <1>5 DEF Place, Agrees
<1>7. ASSUME NEW d \in Call, d # c PROVE Place(d)' /\ ~InFlight(d)' /\ call'[d].pc # "saved"
  <2>1. call'[d] = call[d] /\ call[d].pc \in {"idle", "done"} /\ Place(d)
    BY <1>1, <1>3, <1>7 DEF InFlight, InOrder
  <2>2. QED
    BY <1>2, <2>1 DEF Place, Agrees, InFlight
<1>8. Settled'
  BY <1>2 DEF Settled
<1>9. QED
  BY <1>2, <1>6, <1>7, <1>8 DEF InOrder

(* A file is only ever replaced by a newer one. *)
LEMMA SavesInOrder ==
  ASSUME Typed, InOrder, NEW c \in Call, Save(c)
  PROVE  InOrder' /\ EpochOf(stateFile') >= EpochOf(stateFile)
<1> USE DEF Typed, TypeOK
<1>0. /\ call[c] \in CallState /\ initialized /\ InFlight(c) /\ call[c].pc = "saving"
      /\ EpochOf(stateFile) < call[c].bundle.epoch /\ call[c].bundle \in Bundle
  BY DEF Save, InFlight, InOrder, Place, Named, Answering, CallState
<1>1. cached = stateFile /\ \A d \in Call : d # c => ~InFlight(d)
  BY <1>0, Alone DEF Settled
<1>2. stateFile' = call[c].bundle /\ UNCHANGED <<cached, initialized, serverAck, strayAcks>>
  BY DEF Save, controller, memory
<1>3. /\ call'[c].pc = "saved" /\ call'[c].bundle = call[c].bundle
      /\ \A d \in Call : d # c => call'[d] = call[d]
  BY <1>0 DEF Save, Goes, CallState
<1>4. EpochOf(stateFile') = call[c].bundle.epoch /\ EpochOf(stateFile') \in Nat
      /\ EpochOf(stateFile) \in Nat /\ EpochOf(serverAck) \in Nat
  BY <1>0, <1>2, EpochType
<1>5. Place(c)'
  BY <1>0, <1>1, <1>2, <1>3 DEF Place
<1>6. ASSUME NEW d \in Call, d # c PROVE Place(d)' /\ ~InFlight(d)'
  <2>1. call'[d] = call[d] /\ call[d].pc \in {"idle", "done"} /\ Place(d)
    BY <1>1, <1>3, <1>6 DEF InFlight, InOrder
  <2>2. call[d].bundle \in Bundle \union {NoBundle}
    BY DEF CallState
  <2>3. EpochOf(call[d].bundle) \in Nat
    BY <2>2, EpochType
  <2>4. call[d].pc = "done" => EpochOf(call[d].bundle) < EpochOf(stateFile')
    BY <1>0, <1>4, <2>1, <2>3 DEF Place
  <2>5. QED
    BY <2>1, <2>3, <2>4, <1>4 DEF Place, Agrees, InFlight
<1>7. EpochOf(serverAck') <= EpochOf(stateFile')
  BY <1>0, <1>2, <1>4 DEF InOrder
<1>8. \A b \in strayAcks' : b.epoch <= EpochOf(stateFile')
  <2> SUFFICES ASSUME NEW b \in strayAcks PROVE b.epoch <= EpochOf(stateFile')
    BY <1>2
  <2>1. b.epoch \in Nat /\ b.epoch <= EpochOf(stateFile)
    BY BoundsAssumption DEF InOrder, Bundle
  <2>2. QED
    BY <1>0, <1>4, <2>1
<1>9. QED
  BY <1>0, <1>3, <1>4, <1>5, <1>6, <1>7, <1>8 DEF InOrder

LEMMA InstallsInOrder ==
  ASSUME Typed, InOrder, NEW c \in Call, Install(c) \/ AckAccepted(c)
  PROVE  InOrder'
<1> USE DEF Typed, TypeOK
<1>0. /\ call[c] \in CallState /\ InFlight(c) /\ call[c].bundle = stateFile /\ initialized
      /\ \A d \in Call : d # c => ~InFlight(d)
  BY DEF Install, AckAccepted, InFlight, InOrder, Place
<1>1. cached' = stateFile /\ UNCHANGED <<stateFile, initialized, strayAcks>>
      /\ serverAck' \in {serverAck, stateFile}
  <2>1. CASE Install(c)
    BY <1>0, <2>1 DEF Install, controller
  <2>2. CASE AckAccepted(c)
    BY <1>0, <2>2, Alone DEF AckAccepted, controller, memory, Settled
  <2>3. QED
    BY <2>1, <2>2
<1>2. /\ call'[c].pc \in {"acking", "acked"} /\ call'[c].bundle = stateFile
      /\ \A d \in Call : d # c => call'[d] = call[d]
  BY <1>0 DEF Install, AckAccepted, Goes, CallState
<1>3. EpochOf(serverAck') <= EpochOf(stateFile')
  BY <1>1, EpochType DEF InOrder
<1>4. Place(c)'
  BY <1>0, <1>1, <1>2 DEF Place
<1>5. ASSUME NEW d \in Call, d # c PROVE Place(d)' /\ ~InFlight(d)'
  <2>1. call'[d] = call[d] /\ call[d].pc \in {"idle", "done"} /\ Place(d)
    BY <1>0, <1>2, <1>5 DEF InFlight, InOrder
  <2>2. QED
    BY <1>1, <2>1 DEF Place, Agrees, InFlight
<1>6. Settled'
  BY <1>0, <1>1 DEF Settled
<1>7. QED
  BY <1>1, <1>3, <1>4, <1>5, <1>6 DEF InOrder

(* A call that fails, and a gateway that is killed, leave the file behind, *)
(* and at most an acknowledgement of what is in it on the wire.            *)
LEMMA FailsInOrder ==
  ASSUME Typed, InOrder, Orderly,
         Crash \/ \E c \in Call : CallFails(c)
  PROVE  InOrder'
<1> USE DEF Typed, TypeOK
<1>0. EpochOf(stateFile) <= EpochOf(stateFile) /\ Idle.pc = "idle"
  BY EpochType DEF Idle
<1>1. ASSUME NEW C \in SUBSET Call, NEW b \in Abandoned(C) PROVE b.epoch <= EpochOf(stateFile)
  <2>1. PICK c \in Call : call[c].pc = "acking" /\ b = call[c].bundle
    BY <1>1 DEF Abandoned
  <2>2. b = stateFile /\ b \in Bundle
    BY <2>1 DEF InOrder, Place, Named, Answering, CallState
  <2>3. QED
    BY <2>2, <1>0, EpochType
<1>2. UNCHANGED <<stateFile, serverAck>>
  BY DEF Crash, CallFails, controller, memory
<1>3. \A b \in strayAcks' : b.epoch <= EpochOf(stateFile')
  BY <1>1, <1>2 DEF InOrder, Crash, CallFails
<1>4. ASSUME Crash PROVE InOrder'
  <2>1. \A c \in Call : call'[c] = Idle
    BY <1>4 DEF Crash
  <2>2. Settled'
    BY <1>4 DEF Crash, Settled
  <2>3. QED
    BY <1>0, <1>2, <1>3, <2>1, <2>2 DEF InOrder, Place, InFlight
<1>5. ASSUME NEW c \in Call, CallFails(c) PROVE InOrder'
  <2>1. InFlight(c) /\ call[c].pc # "saved"
    BY <1>5 DEF CallFails, Orderly
  <2>2. Settled /\ \A d \in Call : d # c => ~InFlight(d)
    BY <2>1, Alone
  <2>3. UNCHANGED <<cached, initialized>>
    BY <1>5 DEF CallFails, memory
  <2>4. \A d \in Call : ~InFlight(d)' /\ Place(d)'
    BY <1>0, <1>2, <1>5, <2>2, <2>3 DEF CallFails, Fails, InOrder, Place, Agrees, InFlight
  <2>5. Settled'
    BY <1>2, <2>2, <2>3 DEF Settled
  <2>6. QED
    BY <1>2, <1>3, <2>4, <2>5 DEF InOrder
<1>6. QED
  BY <1>4, <1>5

(* The controller's steps only add to what calls have seen. *)
LEMMA ControllerInOrder ==
  ASSUME Typed, InOrder, NEW b \in Bundle,
         Publish \/ RestoreBackup(b) \/ LeaseEnds(b) \/ StrayAckArrives(b)
  PROVE  InOrder'
<1> USE DEF Typed, TypeOK
<1>1. UNCHANGED <<stateFile, cached, initialized>>
  BY DEF Publish, RestoreBackup, LeaseEnds, StrayAckArrives, memory
<1>2. \A c \in Call : call'[c].pc = call[c].pc /\ call'[c].bundle = call[c].bundle
  <2>1. ASSUME NEW s, Serves(s)
        PROVE  \A c \in Call : call'[c].pc = call[c].pc /\ call'[c].bundle = call[c].bundle
    BY <2>1 DEF Serves, CallState
  <2>2. QED
    BY <2>1 DEF Publish, RestoreBackup, LeaseEnds, StrayAckArrives
<1>3. strayAcks' \subseteq strayAcks
  BY DEF Publish, RestoreBackup, LeaseEnds, StrayAckArrives
<1>4. serverAck' = serverAck \/ serverAck' \in strayAcks
  BY DEF Publish, RestoreBackup, LeaseEnds, StrayAckArrives
<1>5. EpochOf(serverAck') <= EpochOf(stateFile')
  BY <1>1, <1>4, EpochType DEF InOrder
<1>6. \A c \in Call : Place(c)' /\ (InFlight(c)' <=> InFlight(c))
  BY <1>1, <1>2 DEF InOrder, Place, Agrees, InFlight
<1>7. Settled' <=> Settled
  BY <1>1 DEF Settled
<1>8. QED
  BY <1>1, <1>2, <1>3, <1>5, <1>6, <1>7 DEF InOrder

(* Every step keeps the order, and none takes the file back. *)
LEMMA StepInOrder ==
  ASSUME Typed, InOrder, Orderly, [Next]_vars
  PROVE  InOrder' /\ EpochOf(stateFile') >= EpochOf(stateFile)
<1>0. EpochOf(stateFile) >= EpochOf(stateFile)
  BY EpochType DEF Typed, TypeOK
<1>1. ASSUME NEW c \in Call, CallStep(c)
      PROVE  InOrder' /\ EpochOf(stateFile') >= EpochOf(stateFile)
  <2>1. CASE Save(c)
    BY <2>1, SavesInOrder
  <2>2. CASE ~Save(c)
    <3>1. stateFile' = stateFile
      BY <1>1, <2>2 DEF CallStep, Continue, Begin, BeginCold, Loaded, Answered, RollbackRejected,
         NewerReceived, SameReceived, Install, AckAccepted, AckMismatch, AckAnswered, CallFails
    <3>2. InOrder'
      BY <1>1, <2>2, BeginsInOrder, MovesInOrder, LoadsInOrder, InstallsInOrder, FailsInOrder
         DEF CallStep, Continue, Orderly
    <3>3. QED
      BY <1>0, <3>1, <3>2
  <2>3. QED
    BY <2>1, <2>2
<1>2. CASE Environment
  <2>1. stateFile' = stateFile
    BY <1>2 DEF Environment, Crash, Publish, RestoreBackup, LeaseEnds, StrayAckArrives
  <2>2. CASE Publish
    BY <1>0, <2>1, <2>2, ControllerInOrder DEF Typed, TypeOK
  <2>3. QED
    BY <1>0, <1>2, <2>1, <2>2, ControllerInOrder, FailsInOrder DEF Environment
<1>3. CASE UNCHANGED vars
  <2>1. InOrder'
    BY <1>3 DEF vars, InOrder, Place, Settled, Agrees, InFlight
  <2>2. QED
    BY <1>0, <1>3, <2>1 DEF vars
<1>4. QED
  BY <1>1, <1>2, <1>3 DEF Next

LEMMA AlwaysDurable == Spec => []Durable
<1>1. Init => Durable
  <2> SUFFICES ASSUME Init PROVE InOrder
    BY DEF Durable
  <2>1. \A c \in Call : call[c].pc = "idle"
    BY DEF Init, Idle
  <2>2. EpochOf(serverAck) <= EpochOf(stateFile)
    BY DEF Init, EpochOf
  <2>3. QED
    BY <2>1, <2>2 DEF Init, InOrder, InFlight, Place, Settled
<1>2. Typed /\ Durable /\ [Next]_vars => Durable'
  <2> SUFFICES ASSUME Typed, Durable, [Next]_vars, Orderly' PROVE InOrder'
    BY DEF Durable
  <2>1. setting' = setting
    BY OthersKeepTypes
       DEF Next, Environment, Crash, Publish, RestoreBackup, LeaseEnds, StrayAckArrives,
           controller, vars
  <2>2. Orderly
    BY <2>1 DEF Orderly
  <2>3. QED
    BY <2>2, StepInOrder DEF Durable
<1>3. QED
  BY <1>1, <1>2, AlwaysTyped, PTL DEF Spec

(* As long as calls do not overlap, nothing is shown that is not on disk:  *)
(* not by the cache, not by an answer, not by an acknowledgement, however  *)
(* late it arrives, over crashes, failures and restored backups            *)
(* (client.ts 80-97).                                                      *)
THEOREM DurableComesFirst == Spec => []DurableFirst
<1>1. Typed /\ Durable => DurableFirst
  <2> SUFFICES ASSUME Typed, InOrder
               PROVE  /\ EpochOf(cached) <= EpochOf(stateFile)
                      /\ EpochOf(serverAck) <= EpochOf(stateFile)
                      /\ \A c \in Call : call[c].pc = "done" =>
                           EpochOf(call[c].bundle) <= EpochOf(stateFile)
    BY DEF Durable, DurableFirst
  <2>1. QED
    BY InOrderIsDurable DEF InOrder, Place
<1>2. QED
  BY <1>1, AlwaysTyped, AlwaysDurable, PTL

(* As long as calls do not overlap, no gateway has two bundles of one      *)
(* epoch, though a restored controller signs an epoch again (client.ts 81).*)
THEOREM NeverEquivocates == Spec => []NoEquivocation
<1>1. Typed /\ Durable => NoEquivocation
  BY InOrderIsDurable DEF Durable, NoEquivocation, InOrder, Place
<1>2. QED
  BY <1>1, AlwaysTyped, AlwaysDurable, PTL

(* As long as calls do not overlap, the stored epoch never goes back       *)
(* (README.md 59, client.ts 80-93).                                        *)
THEOREM EpochNeverGoesBack == Spec => OrderlyEpochMonotonic
<1> DEFINE Forward == Orderly => EpochOf(stateFile') >= EpochOf(stateFile)
<1>1. Typed /\ Durable /\ [Next]_vars => [Forward]_vars
  BY StepInOrder DEF Durable
<1>2. QED
  BY <1>1, AlwaysTyped, AlwaysDurable, PTL DEF Spec, OrderlyEpochMonotonic
=============================================================================
