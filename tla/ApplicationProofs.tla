------------------------- MODULE ApplicationProofs -------------------------
(***************************************************************************)
(* Theorems about what surrounds the engine and the gateways: the policy   *)
(* packs on an OPA server, for any packs, overlapping evaluations and      *)
(* restarts; the gateways' policy file, for any commands and documents of  *)
(* any length; the replay viewer, for any replays and any answers; the     *)
(* demo server, whoever posts what; the commands of the CLI, which are     *)
(* those of EngineProofs with a store of their own and no governance; what *)
(* a command takes from its operator, whatever that wrote; and the store of*)
(* the prototype in packages/, for any proposals with any facts.           *)
(***************************************************************************)
EXTENDS Applications, OpaEvaluator, PolicyFile, OperatorInput, Integers,
        SequenceTheorems, WellFoundedInduction, TLAPS

-----------------------------------------------------------------------------
(* The policy packs. *)
All == Range(Packs)
Loading(e) == /\ evaluation[e].sent \in 0..Len(Packs) - 1
              /\ \A n \in 1..evaluation[e].sent : Packs[n] \in opa

(* The type of an evaluation, of the flag for a torn upload, and of the    *)
(* restarts.                                                               *)
Evaluations ==
  /\ evaluation \in [Question ->
       [pc : {"idle", "loading", "asking", "threw", "answered"}, sent : Nat,
        answer : {"none", "allow", "deny"}]]
  /\ torn \in BOOLEAN /\ restarts \in Nat

LEMMA AnswerType == \A packs, e : Says(packs, e) \in {"allow", "deny"}
BY DEF Says

LEMMA EvaluationsKept ==
  ASSUME Packs \in Seq(All), Evaluations, [OpaNext]_opaVars
  PROVE  Evaluations'
<1> USE DEF Evaluations
<1>1. CASE UNCHANGED opaVars
  BY <1>1 DEF opaVars
<1>2. ASSUME NEW e \in Question, Start(e) \/ Fail(e) PROVE Evaluations'
  BY <1>2 DEF Start, Fail, Goes, At
<1>3. ASSUME NEW e \in Question, Upload(e) PROVE Evaluations'
  <2>1. evaluation[e].sent + 1 \in Nat
    OBVIOUS
  <2>2. PICK pc \in {"loading", "asking"} :
          evaluation' = [evaluation EXCEPT ![e].sent = evaluation[e].sent + 1, ![e].pc = pc]
    BY <1>3 DEF Upload, At
  <2>3. UNCHANGED <<torn, restarts>>
    BY <1>3 DEF Upload
  <2>4. QED
    BY <2>1, <2>2, <2>3
<1>4. ASSUME NEW e \in Question, Ask(e) PROVE Evaluations'
  BY <1>4, AnswerType DEF Ask, At
<1>5. CASE Restart
  BY <1>5 DEF Restart
<1>6. QED
  BY <1>1, <1>2, <1>3, <1>4, <1>5 DEF OpaNext

-----------------------------------------------------------------------------
(* The server has all packs once the flag is set, and of an evaluation     *)
(* that is uploading those it has sent: as long as there was no restart.   *)
Uploaded ==
  restarts = 0 =>
    /\ opa \subseteq All
    /\ policiesLoaded => opa = All
    /\ \A e \in Question :
         /\ At(e, "idle") => evaluation[e].sent = 0
         /\ At(e, "loading") => Loading(e)
         /\ At(e, "asking") => opa = All
         /\ At(e, "answered") => evaluation[e].answer = Says(All, e)

(* The last upload of an evaluation completes the packs. *)
LEMMA LastUpload ==
  ASSUME Packs \in Seq(All), NEW e \in Question, Loading(e), Upload(e)
  PROVE  /\ evaluation[e].sent + 1 \in 1..Len(Packs)
         /\ Packs[evaluation[e].sent + 1] \in All
         /\ opa' = opa \cup {Packs[evaluation[e].sent + 1]}
         /\ \A n \in 1..evaluation[e].sent + 1 : Packs[n] \in opa'
         /\ evaluation[e].sent + 1 = Len(Packs) => All \subseteq opa'
<1> DEFINE n == evaluation[e].sent + 1
<1>1. n \in 1..Len(Packs) /\ DOMAIN Packs = 1..Len(Packs)
  BY DEF Loading
<1>2. opa' = opa \cup {Packs[n]}
  BY DEF Upload, UploadOrder
<1>3. \A k \in 1..n : Packs[k] \in opa'
  BY <1>1, <1>2 DEF Loading
<1>4. n = Len(Packs) => All \subseteq opa'
  BY <1>1, <1>3 DEF All, Range
<1>5. Packs[n] \in All
  BY <1>1 DEF All, Range
<1>6. QED
  BY <1>1, <1>2, <1>3, <1>4, <1>5

LEMMA UploadedKept ==
  ASSUME Packs \in Seq(All), Packs # <<>>, Evaluations, Uploaded, [OpaNext]_opaVars
  PROVE  Uploaded'
<1> USE DEF Evaluations, Uploaded, At
<1>1. CASE UNCHANGED opaVars
  BY <1>1 DEF opaVars, Loading
<1>2. CASE Restart
  <2>1. restarts' # 0
    BY <1>2 DEF Restart
  <2>2. QED
    BY <2>1
<1>3. ASSUME NEW e \in Question, Start(e), restarts = 0 PROVE Uploaded'
  <2>1. Len(Packs) \in Nat /\ Len(Packs) > 0
    OBVIOUS
  <2>2. /\ evaluation[e].sent = 0
        /\ evaluation' = [evaluation EXCEPT ![e].pc = IF policiesLoaded THEN "asking" ELSE "loading"]
        /\ UNCHANGED <<opa, policiesLoaded, restarts>>
    BY <1>3 DEF Start, Goes
  <2>3. /\ evaluation'[e].sent = 0
        /\ evaluation'[e].pc = IF policiesLoaded THEN "asking" ELSE "loading"
    BY <2>2
  <2>4. ~policiesLoaded => Loading(e)'
    BY <2>1, <2>3 DEF Loading
  <2>5. ASSUME NEW f \in Question, f # e
        PROVE  /\ evaluation'[f] = evaluation[f]
               /\ Loading(f) => Loading(f)'
    BY <2>2, <2>5 DEF Loading
  <2>6. QED
    BY <1>3, <2>2, <2>3, <2>4, <2>5
<1>4. ASSUME NEW e \in Question, Fail(e), restarts = 0 PROVE Uploaded'
  <2>1. opa \subseteq opa' /\ opa' \subseteq All
    <3>1. CASE opa' = opa
      <4>1. opa \subseteq All
        BY <1>4
      <4>2. QED
        BY <3>1, <4>1
    <3>2. CASE At(e, "loading") /\ opa' = opa \cup {UploadOrder[evaluation[e].sent + 1]}
      <4>1. evaluation[e].sent + 1 \in 1..Len(Packs) /\ DOMAIN Packs = 1..Len(Packs)
        BY <3>2, <1>4 DEF Loading
      <4>2. QED
        BY <3>2, <4>1, <1>4 DEF UploadOrder, All, Range
    <3>3. QED
      BY <1>4, <3>1, <3>2 DEF Fail
  <2>2. QED
    BY <1>4, <2>1 DEF Fail, Goes, Loading
<1>5. ASSUME NEW e \in Question, Upload(e), restarts = 0 PROVE Uploaded'
  <2> DEFINE n == evaluation[e].sent + 1
  <2>1. Loading(e)
    BY <1>5 DEF Upload
  <2>2. /\ n \in 1..Len(Packs) /\ Packs[n] \in All
        /\ opa' = opa \cup {Packs[n]}
        /\ \A k \in 1..n : Packs[k] \in opa'
        /\ n = Len(Packs) => All \subseteq opa'
    BY <1>5, <2>1, LastUpload
  <2>3. opa' \subseteq All /\ opa \subseteq opa'
    BY <1>5, <2>2
  <2>4. policiesLoaded' => opa' = All
    BY <1>5, <2>2, <2>3 DEF Upload, UploadOrder
  <2>5. ASSUME NEW f \in Question, f # e
        PROVE  /\ evaluation'[f] = evaluation[f]
               /\ Loading(f) => Loading(f)'
    <3>1. evaluation'[f] = evaluation[f]
      BY <1>5, <2>5 DEF Upload
    <3>2. QED
      BY <2>3, <3>1 DEF Loading
  <2>6. /\ evaluation'[e].sent = n
        /\ evaluation'[e].pc = IF n = Len(Packs) THEN "asking" ELSE "loading"
    BY <1>5 DEF Upload, UploadOrder
  <2>7. n # Len(Packs) => Loading(e)'
    BY <2>2, <2>6 DEF Loading
  <2>8. QED
    BY <1>5, <2>2, <2>3, <2>4, <2>5, <2>6, <2>7 DEF Upload
<1>6. ASSUME NEW e \in Question, Ask(e), restarts = 0 PROVE Uploaded'
  BY <1>6 DEF Ask, Loading
<1>7. restarts # 0 => restarts' # 0 \/ Restart
  BY DEF OpaNext, opaVars, Start, Upload, Fail, Ask
<1>8. QED
  BY <1>1, <1>2, <1>3, <1>4, <1>5, <1>6, <1>7 DEF OpaNext

(* As long as the server keeps what it was given, every answer is that of  *)
(* all packs, however many evaluations overlap and however many uploads    *)
(* fail (opa.ts:33, 77-102).                                               *)
THEOREM PacksAreKnown ==
  ASSUME Packs \in Seq(All), Packs # <<>>
  PROVE  OpaSpec => []AnswersKnowEveryPack
<1>1. OpaInit => Evaluations /\ Uploaded
  <2> SUFFICES ASSUME OpaInit PROVE Evaluations /\ Uploaded
    OBVIOUS
  <2>1. Evaluations
    BY DEF OpaInit, Evaluations
  <2>2. \A e \in Question : evaluation[e].pc = "idle" /\ evaluation[e].sent = 0
    BY DEF OpaInit
  <2>3. Uploaded
    BY <2>2 DEF OpaInit, Uploaded, At
  <2>4. QED
    BY <2>1, <2>3
<1>2. Evaluations /\ Uploaded /\ [OpaNext]_opaVars => (Evaluations /\ Uploaded)'
  BY EvaluationsKept, UploadedKept
<1>3. Evaluations /\ Uploaded => AnswersKnowEveryPack
  BY DEF Uploaded, AnswersKnowEveryPack, All
<1>4. QED
  BY <1>1, <1>2, <1>3, PTL DEF OpaSpec

-----------------------------------------------------------------------------
(* The pack that allows is uploaded last, so a server that has it has all  *)
(* of them, unless it lost some in the middle of an upload.                *)
AllowsLast == /\ Packs[Len(Packs)] = AllowPack
              /\ \A n \in 1..Len(Packs) - 1 : Packs[n] # AllowPack

Closed ==
  ~torn =>
    /\ AllowPack \in opa => All \subseteq opa
    /\ \A e \in Question :
         /\ At(e, "idle") => evaluation[e].sent = 0
         /\ At(e, "loading") => Loading(e)
         /\ evaluation[e].answer = "allow" => Says(All, e) = "allow"

(* A server that has a pack more still has the one that allows last.       *)
LEMMA OnePackMore ==
  ASSUME Packs \in Seq(All), AllowsLast, NEW e \in Question, Loading(e),
         AllowPack \in opa => All \subseteq opa,
         opa' = opa \cup {Packs[evaluation[e].sent + 1]}
  PROVE  AllowPack \in opa' => All \subseteq opa'
<1> DEFINE n == evaluation[e].sent + 1
<1>1. n \in 1..Len(Packs) /\ DOMAIN Packs = 1..Len(Packs)
  BY DEF Loading
<1>2. CASE n = Len(Packs)
  <2>1. \A k \in 1..n : Packs[k] \in opa'
    BY <1>1 DEF Loading
  <2>2. QED
    BY <1>2, <2>1 DEF All, Range
<1>3. CASE n # Len(Packs)
  <2>1. Packs[n] # AllowPack
    BY <1>1, <1>3 DEF AllowsLast
  <2>2. QED
    BY <2>1
<1>4. QED
  BY <1>2, <1>3

LEMMA ClosedKept ==
  ASSUME Packs \in Seq(All), Packs # <<>>, AllowsLast, Evaluations, Closed, [OpaNext]_opaVars
  PROVE  Closed'
<1> USE DEF Evaluations, Closed, At
<1>1. CASE UNCHANGED opaVars
  BY <1>1 DEF opaVars, Loading
<1>2. CASE Restart /\ ~torn'
  <2>1. /\ ~torn /\ opa' = {} /\ evaluation' = evaluation
        /\ \A e \in Question : At(e, "loading") => ~(evaluation[e].sent > 0)
    BY <1>2 DEF Restart
  <2>2. \A e \in Question : At(e, "loading") => Loading(e)'
    <3>1. SUFFICES ASSUME NEW e \in Question, At(e, "loading") PROVE Loading(e)'
      OBVIOUS
    <3>2. Loading(e) /\ evaluation[e].sent = 0
      BY <2>1, <3>1
    <3>3. QED
      BY <2>1, <3>2 DEF Loading
  <2>3. QED
    BY <2>1, <2>2
<1>3. ASSUME NEW e \in Question, Start(e), ~torn PROVE Closed'
  <2>1. Len(Packs) \in Nat /\ Len(Packs) > 0
    OBVIOUS
  <2>2. /\ evaluation[e].sent = 0
        /\ evaluation' = [evaluation EXCEPT ![e].pc = IF policiesLoaded THEN "asking" ELSE "loading"]
        /\ UNCHANGED <<opa, torn>>
    BY <1>3 DEF Start, Goes
  <2>3. /\ evaluation'[e].sent = 0
        /\ evaluation'[e].pc = IF policiesLoaded THEN "asking" ELSE "loading"
        /\ evaluation'[e].answer = evaluation[e].answer
    BY <2>2
  <2>4. Loading(e)'
    BY <2>1, <2>3 DEF Loading
  <2>5. ASSUME NEW f \in Question, f # e
        PROVE  /\ evaluation'[f] = evaluation[f]
               /\ Loading(f) => Loading(f)'
    BY <2>2, <2>5 DEF Loading
  <2>6. QED
    BY <1>3, <2>2, <2>3, <2>4, <2>5
<1>4. ASSUME NEW e \in Question, Fail(e), ~torn PROVE Closed'
  <2>1. opa \subseteq opa' /\ (AllowPack \in opa' => All \subseteq opa')
    <3>1. CASE opa' = opa
      BY <3>1, <1>4
    <3>2. CASE At(e, "loading") /\ opa' = opa \cup {UploadOrder[evaluation[e].sent + 1]}
      <4>1. Loading(e) /\ (AllowPack \in opa => All \subseteq opa)
        BY <3>2, <1>4
      <4>2. QED
        BY <3>2, <4>1, OnePackMore DEF UploadOrder
    <3>3. QED
      BY <1>4, <3>1, <3>2 DEF Fail
  <2>2. /\ evaluation' = [evaluation EXCEPT ![e].pc = "threw"]
        /\ torn' = torn
    BY <1>4 DEF Fail, Goes
  <2>3. ASSUME NEW f \in Question
        PROVE  /\ evaluation'[f].sent = evaluation[f].sent
               /\ evaluation'[f].answer = evaluation[f].answer
               /\ f # e => evaluation'[f].pc = evaluation[f].pc
               /\ f = e => evaluation'[f].pc = "threw"
               /\ Loading(f) => Loading(f)'
    BY <2>1, <2>2 DEF Loading
  <2>4. QED
    BY <1>4, <2>1, <2>2, <2>3
<1>5. ASSUME NEW e \in Question, Upload(e), ~torn PROVE Closed'
  <2> DEFINE n == evaluation[e].sent + 1
  <2>1. Loading(e) /\ (AllowPack \in opa => All \subseteq opa)
    BY <1>5 DEF Upload
  <2>2. /\ n \in 1..Len(Packs)
        /\ opa' = opa \cup {Packs[n]}
        /\ \A k \in 1..n : Packs[k] \in opa'
    BY <1>5, <2>1, LastUpload
  <2>3. AllowPack \in opa' => All \subseteq opa'
    BY <2>1, <2>2, OnePackMore
  <2>4. ASSUME NEW f \in Question, f # e
        PROVE  /\ evaluation'[f] = evaluation[f]
               /\ Loading(f) => Loading(f)'
    <3>1. evaluation'[f] = evaluation[f]
      BY <1>5, <2>4 DEF Upload
    <3>2. QED
      BY <2>2, <3>1 DEF Loading
  <2>5. /\ evaluation'[e].sent = n
        /\ evaluation'[e].pc = IF n = Len(Packs) THEN "asking" ELSE "loading"
        /\ evaluation'[e].answer = evaluation[e].answer
    BY <1>5 DEF Upload, UploadOrder
  <2>6. n # Len(Packs) => Loading(e)'
    BY <2>2, <2>5 DEF Loading
  <2>7. torn' = torn
    BY <1>5 DEF Upload
  <2>8. QED
    BY <1>5, <2>3, <2>4, <2>5, <2>6, <2>7
<1>6. ASSUME NEW e \in Question, Ask(e), ~torn PROVE Closed'
  <2>1. Says(opa, e) = "allow" => Says(All, e) = "allow"
    <3>1. AllowPack \in opa => All \subseteq opa
      BY <1>6
    <3>2. Len(Packs) \in DOMAIN Packs
      OBVIOUS
    <3>3. AllowPack \in All
      BY <3>2 DEF AllowsLast, All, Range
    <3>4. QED
      BY <3>1, <3>3 DEF Says
  <2>2. /\ evaluation' = [evaluation EXCEPT ![e].pc = "answered", ![e].answer = Says(opa, e)]
        /\ UNCHANGED <<opa, torn>>
    BY <1>6 DEF Ask
  <2>3. ASSUME NEW f \in Question, f # e
        PROVE  /\ evaluation'[f] = evaluation[f]
               /\ Loading(f) => Loading(f)'
    BY <2>2, <2>3 DEF Loading
  <2>4. QED
    BY <1>6, <2>1, <2>2, <2>3
<1>7. torn => torn'
  BY DEF OpaNext, opaVars, Start, Upload, Fail, Ask, Restart
<1>8. QED
  BY <1>1, <1>2, <1>3, <1>4, <1>5, <1>6, <1>7 DEF OpaNext

(* What all packs together deny is allowed only by a server that lost some *)
(* of them in the middle of an upload: one that restarts at any other time *)
(* denies (opa.ts:82-101, policies/aws/safe-default.rego).                 *)
THEOREM LostPacksDeny ==
  ASSUME Packs \in Seq(All), Packs # <<>>, AllowsLast
  PROVE  OpaSpec => []LosesPacksClosed
<1>1. OpaInit => Evaluations /\ Closed
  <2> SUFFICES ASSUME OpaInit PROVE Evaluations /\ Closed
    OBVIOUS
  <2>1. Evaluations
    BY DEF OpaInit, Evaluations
  <2>2. \A e \in Question : evaluation[e].pc = "idle" /\ evaluation[e].sent = 0
                               /\ evaluation[e].answer = "none"
    BY DEF OpaInit
  <2>3. Closed
    BY <2>2 DEF OpaInit, Closed, At
  <2>4. QED
    BY <2>1, <2>3
<1>2. Evaluations /\ Closed /\ [OpaNext]_opaVars => (Evaluations /\ Closed)'
  BY EvaluationsKept, ClosedKept
<1>3. Evaluations /\ Closed => LosesPacksClosed
  BY DEF Evaluations, Closed, LosesPacksClosed, All
<1>4. QED
  BY <1>1, <1>2, <1>3, PTL DEF OpaSpec
(* Both together, for any packs of which the one that allows is uploaded   *)
(* last (opa.ts:33, 77-102).                                               *)
THEOREM PacksAlwaysDecide ==
  ASSUME Packs \in Seq(All), Packs # <<>>, AllowsLast
  PROVE  OpaSpec => []PacksDecide
<1>1. AnswersKnowEveryPack /\ LosesPacksClosed => PacksDecide
  BY DEF PacksDecide
<1>2. QED
  BY <1>1, PacksAreKnown, LostPacksDeny, PTL

-----------------------------------------------------------------------------
(* The policy file. *)
Document == [version : Nat, allowed : {"pilot", "nobody", "dev"}]

(* Every command: what it has found and made of it, and how much of that   *)
(* it has written to the temporary file of its own.                        *)
OwnFile(c) ==
  /\ Len(temporary[c]) \in 0..Blocks
  /\ \A j \in 1..Len(temporary[c]) : temporary[c][j] = cli[c].next
  /\ cli[c].stage = "read" => temporary[c] = <<>>

FileInv ==
  /\ policy \in Seq(Document) /\ IsWhole(policy)
  /\ temporary \in [Command -> Seq(Document)]
  /\ cli \in [Command -> [stage : {"read", "write", "written", "failed"},
                          found : Document, next : Document]]
  /\ \A c \in Command : OwnFile(c)

LEMMA FirstIsDocument == First \in Document
BY DEF First, Document

LEMMA SuccessorIsDocument ==
  ASSUME NEW c \in Command, NEW d \in Document PROVE Successor(c, d) \in Document
BY DEF Successor, Document

LEMMA InvStarts == ASSUME Blocks \in Nat \ {0}, FileInit PROVE FileInv
<1>1. policy \in Seq(Document) /\ IsWhole(policy)
  <2>1. policy = [j \in 1..Blocks |-> First]
    BY DEF FileInit, Whole
  <2>2. policy \in Seq(Document) /\ Len(policy) = Blocks
    BY <2>1, FirstIsDocument
  <2>3. QED
    BY <2>1, <2>2 DEF IsWhole
<1>2. \A c \in Command : temporary[c] = <<>>
  BY DEF FileInit
<1>3. temporary \in [Command -> Seq(Document)]
  BY DEF FileInit
<1>4. cli \in [Command -> [stage : {"read", "write", "written", "failed"},
                           found : Document, next : Document]]
  BY FirstIsDocument DEF FileInit
<1>5. QED
  BY <1>1, <1>2, <1>3, <1>4 DEF FileInv, OwnFile

(* Only a complete temporary file is renamed, and every step of a command  *)
(* leaves the files of the others alone.                                   *)
LEMMA InvStays == ASSUME Blocks \in Nat \ {0}, FileInv, [FileNext]_fileVars PROVE FileInv'
<1> USE DEF FileInv
<1>1. CASE Serve \/ UNCHANGED fileVars
  BY <1>1 DEF Serve, fileVars, OwnFile, IsWhole
<1>2. ASSUME NEW c \in Command, Read(c) PROVE FileInv'
  <2>1. policy[1] \in Document
    BY DEF IsWhole
  <2>2. PICK s \in [stage : {"write", "failed"}, found : Document, next : Document] :
          cli' = [cli EXCEPT ![c] = s]
    BY <1>2, <2>1, SuccessorIsDocument DEF Read
  <2>3. temporary[c] = <<>> /\ UNCHANGED <<policy, temporary>>
    BY <1>2 DEF Read, OwnFile
  <2>4. \A d \in Command : OwnFile(d)'
    BY <2>2, <2>3 DEF OwnFile
  <2>5. QED
    BY <2>2, <2>3, <2>4 DEF IsWhole
<1>3. ASSUME NEW c \in Command, Write(c) PROVE FileInv'
  <2>1. /\ temporary' = [temporary EXCEPT ![c] = Append(@, cli[c].next)]
        /\ Len(temporary[c]) < Blocks /\ cli[c].stage = "write"
        /\ UNCHANGED <<policy, cli>>
    BY <1>3 DEF Write
  <2>2. OwnFile(c)'
    <3>1. temporary[c] \in Seq(Document) /\ cli[c].next \in Document
      OBVIOUS
    <3>2. temporary'[c] = Append(temporary[c], cli[c].next)
      BY <2>1
    <3>3. /\ Len(temporary'[c]) = Len(temporary[c]) + 1
          /\ \A j \in 1..Len(temporary'[c]) : temporary'[c][j] = cli[c].next
      BY <3>1, <3>2 DEF OwnFile
    <3>4. QED
      BY <2>1, <3>3 DEF OwnFile
  <2>3. \A d \in Command : d # c => OwnFile(d)'
    BY <2>1 DEF OwnFile
  <2>4. QED
    BY <2>1, <2>2, <2>3 DEF IsWhole
<1>4. ASSUME NEW c \in Command, Rename(c) PROVE FileInv'
  <2>1. /\ policy' = temporary[c] /\ Len(temporary[c]) = Blocks
        /\ cli[c].stage = "write" /\ cli' = [cli EXCEPT ![c].stage = "written"]
        /\ temporary' = temporary
    BY <1>4 DEF Rename
  <2>2. policy' \in Seq(Document) /\ IsWhole(policy)'
    <3>1. policy' \in Seq(Document) /\ Len(policy') = Blocks
      BY <2>1
    <3>2. \A j \in 1..Blocks : policy'[j] = cli[c].next
      BY <2>1 DEF OwnFile
    <3>3. 1 \in 1..Blocks
      OBVIOUS
    <3>4. \A j \in 1..Blocks : policy'[j] = policy'[1]
      BY <3>2, <3>3
    <3>5. QED
      BY <3>1, <3>4 DEF IsWhole
  <2>3. \A d \in Command : OwnFile(d)'
    BY <2>1 DEF OwnFile
  <2>4. QED
    BY <2>1, <2>2, <2>3
<1>5. ASSUME NEW c \in Command, Dies(c) PROVE FileInv'
  BY <1>5 DEF Dies, OwnFile, IsWhole
<1>6. QED
  BY <1>1, <1>2, <1>3, <1>4, <1>5 DEF FileNext

(* Every read of the policy file gets one complete document, however many  *)
(* commands overlap and wherever they die (policy.ts:50-63).               *)
THEOREM ReadsAreWhole ==
  ASSUME Blocks \in Nat \ {0}
  PROVE  FileSpec => []EveryReadIsWhole
<1>1. FileInv => EveryReadIsWhole
  BY DEF FileInv, EveryReadIsWhole
<1>2. QED
  BY <1>1, InvStarts, InvStays, PTL DEF FileSpec
(* ... and a revision, which hashes the whole document, names one policy   *)
(* only, though commands that overlap give theirs the same version         *)
(* (policy.ts:46, policy-cli.ts:14).                                       *)
THEOREM RevisionsNamePolicies ==
  ASSUME Blocks \in Nat \ {0}
  PROVE  FileSpec => []PolicyReadsAreWhole
<1>1. OneRevisionOnePolicy
  BY DEF OneRevisionOnePolicy, Revision
<1>2. EveryReadIsWhole => PolicyReadsAreWhole
  BY <1>1 DEF PolicyReadsAreWhole
<1>3. QED
  BY <1>2, ReadsAreWhole, PTL

-----------------------------------------------------------------------------
(* The viewer.  What the player shows fits a replay of n events.           *)
Fits(n) == /\ visibleCount \in Nat /\ selected \in 1..visibleCount /\ visibleCount <= n
           /\ ~playbackActive /\ ~cut => visibleCount = n

Replays == {View!Nothing} \cup {View!Example(id) : id \in Id} \cup {View!Fetched(id) : id \in Id}
Displayed == View!Shown(data, intentId)

Requests(r) == /\ r = [n |-> r.n, id |-> r.id, cancelled |-> r.cancelled]
               /\ r.id \in Id /\ (~r.cancelled => r.id = intentId)

ViewInv ==
  /\ intentId \in Id /\ data \in Replays
  /\ playbackActive \in BOOLEAN /\ cut \in BOOLEAN
  /\ \A r \in requests : Requests(r)
  /\ View!ShowsWhatWasAskedLast
  /\ Fits(View!Events(Displayed))

LEMMA ShownLength ==
  \A d \in Replays, id \in Id : View!Events(View!Shown(d, id)) \in Nat \ {0}
<1> TAKE d \in Replays, id \in Id
<1>1. PICK j \in Id : View!Shown(d, id) = View!Example(j) \/ View!Shown(d, id) = View!Fetched(j)
  BY ReplaysHaveEvents DEF Replays, View!Shown
<1>2. View!Shown(d, id)[1] = j
  BY <1>1 DEF View!Example, View!Fetched
<1> QED BY <1>2, ReplaysHaveEvents DEF View!Events

(* A batch of updates leaves a player that fits.                           *)
LEMMA PlayFits ==
  ASSUME NEW n \in Nat \ {0}, NEW replay, View!Events(replay) \in Nat \ {0},
         NEW changed \in BOOLEAN, NEW active \in BOOLEAN,
         playbackActive \in BOOLEAN, cut \in BOOLEAN,
         Fits(n), View!Play(replay, changed, active), ~changed => View!Events(replay) = n
  PROVE  /\ playbackActive' \in BOOLEAN /\ cut' \in BOOLEAN
         /\ visibleCount' \in Nat /\ selected' \in 1..visibleCount' /\ visibleCount' <= View!Events(replay)
         /\ ~playbackActive' /\ ~cut' => visibleCount' = View!Events(replay)
<1> DEFINE m == View!Events(replay)
<1> HIDE DEF m
<1>1. /\ playbackActive' = (active /\ ~changed)
      /\ IF active /\ (changed \/ ~playbackActive)
           THEN visibleCount' = 1 /\ selected' = 1
           ELSE IF changed THEN visibleCount' = m /\ selected' = 1
                ELSE UNCHANGED <<visibleCount, selected>>
      /\ cut' = IF changed \/ (active /\ ~playbackActive) THEN active /\ changed
                ELSE cut \/ (playbackActive /\ ~active)
  BY DEF View!Play, m
<1>2. m \in Nat \ {0} /\ (~changed => m = n)
  BY DEF m
<1>3. playbackActive' \in BOOLEAN /\ cut' \in BOOLEAN
  BY <1>1
<1>4. /\ visibleCount' \in Nat /\ selected' \in 1..visibleCount' /\ visibleCount' <= m
      /\ ~playbackActive' /\ ~cut' => visibleCount' = m
  <2>1. CASE active /\ (changed \/ ~playbackActive)
    <3>1. ~(~playbackActive' /\ ~cut')
      BY <1>1, <2>1, Zenon
    <3>2. visibleCount' = 1 /\ selected' = 1
      BY <1>1, <2>1
    <3> QED BY <3>1, <3>2, <1>2
  <2>2. CASE ~active /\ changed
    BY <1>1, <1>2, <2>2
  <2>3. CASE ~changed /\ (~active \/ playbackActive)
    <3>1. UNCHANGED <<visibleCount, selected>>
      BY <1>1, <2>3
    <3>2. ~playbackActive' /\ ~cut' => ~playbackActive /\ ~cut
      BY <1>1, <2>3, Zenon
    <3>3. Fits(m)
      BY <1>2, <2>3
    <3> QED BY <3>1, <3>2, <3>3, <1>2 DEF Fits
  <2> QED BY <2>1, <2>2, <2>3
<1> QED BY <1>3, <1>4 DEF m

LEMMA ViewInitially == View!Init => ViewInv
<1> SUFFICES ASSUME View!Init PROVE ViewInv
  OBVIOUS
<1>1. intentId \in Id /\ data \in Replays
  BY DEF View!Init, Replays
<1>2. View!Events(Displayed) \in Nat \ {0}
  BY <1>1, ShownLength DEF Displayed
<1>3. Fits(View!Events(Displayed))
  <2> DEFINE m == View!Events(Displayed)
  <2>1. visibleCount = m /\ selected = 1
    BY DEF View!Init, Displayed
  <2> QED BY <1>2, <2>1 DEF Fits
<1>4. playbackActive \in BOOLEAN /\ cut \in BOOLEAN /\ loading
  BY DEF View!Init
<1>5. \A r \in requests : Requests(r)
  BY <1>1 DEF View!Init, Requests
<1> QED BY <1>1, <1>3, <1>4, <1>5 DEF ViewInv, View!ShowsWhatWasAskedLast

LEMMA ShowKeeps ==
  ASSUME ViewInv, NEW id \in Id, NEW active \in BOOLEAN, View!Show(id, active)
  PROVE  ViewInv'
<1> DEFINE old == Displayed
           new == View!Shown(data, id)
<1>1. data' = data /\ intentId' = id /\ Displayed' = new
  BY DEF View!Show, Displayed
<1>2. View!Events(old) \in Nat \ {0} /\ View!Events(new) \in Nat \ {0}
  BY ShownLength DEF ViewInv, Displayed
<1>3. \E changed \in BOOLEAN : View!Play(new, changed, active) /\ (~changed => new = old)
  BY DEF View!Show, Displayed
<1>4. /\ playbackActive' \in BOOLEAN /\ cut' \in BOOLEAN /\ Fits(View!Events(Displayed))'
  <2> HIDE DEF old, new
  <2>1. PICK changed \in BOOLEAN : View!Play(new, changed, active) /\ (~changed => new = old)
    BY <1>3
  <2>2. Fits(View!Events(old)) /\ playbackActive \in BOOLEAN /\ cut \in BOOLEAN
    BY DEF ViewInv, old
  <2>3. View!Events(Displayed)' = View!Events(new)
    BY <1>1 DEF View!Events
  <2>4. /\ playbackActive' \in BOOLEAN /\ cut' \in BOOLEAN
        /\ visibleCount' \in Nat /\ selected' \in 1..visibleCount' /\ visibleCount' <= View!Events(new)
        /\ ~playbackActive' /\ ~cut' => visibleCount' = View!Events(new)
    BY <1>2, <2>1, <2>2, PlayFits
  <2> QED BY <2>3, <2>4 DEF Fits
<1>5. \A r \in requests' : Requests(r)'
  <2>1. CASE id = intentId
    BY <1>1, <2>1 DEF View!Show, ViewInv, Requests
  <2>2. CASE id # intentId
    <3> SUFFICES ASSUME NEW r \in requests' PROVE Requests(r)'
      OBVIOUS
    <3>1. CASE \E q \in requests : r = [q EXCEPT !.cancelled = TRUE]
      <4>1. PICK q \in requests : r = [q EXCEPT !.cancelled = TRUE]
        BY <3>1
      <4>2. q = [n |-> q.n, id |-> q.id, cancelled |-> q.cancelled] /\ q.id \in Id
        BY DEF ViewInv, Requests
      <4>3. r = [n |-> q.n, id |-> q.id, cancelled |-> TRUE]
        BY <4>1, <4>2
      <4> QED BY <4>2, <4>3 DEF Requests
    <3>2. CASE r = [n |-> sent + 1, id |-> id, cancelled |-> FALSE]
      BY <3>2, <1>1 DEF Requests
    <3> QED BY <2>2, <3>1, <3>2 DEF View!Show
  <2> QED BY <2>1, <2>2
<1>6. View!ShowsWhatWasAskedLast'
  BY <1>1 DEF View!Show, ViewInv, View!ShowsWhatWasAskedLast
<1> QED BY <1>1, <1>4, <1>5, <1>6 DEF ViewInv

LEMMA SettleKeeps ==
  ASSUME ViewInv, NEW r \in requests, NEW d \in Replays, View!Settle(r, d),
         d \in {View!Fetched(r.id), View!Example(r.id), View!Nothing}
  PROVE  ViewInv'
<1>1. intentId' = intentId /\ requests' = requests \ {r}
  BY DEF View!Settle
<1>2. \A q \in requests' : Requests(q)'
  BY <1>1 DEF ViewInv, Requests
<1>3. CASE r.cancelled
  <2>1. UNCHANGED <<data, loading, playbackActive, visibleCount, selected, cut>>
    BY <1>3 DEF View!Settle
  <2> QED
    BY <1>1, <1>2, <2>1
    DEF ViewInv, Fits, Displayed, View!ShowsWhatWasAskedLast, View!Shown, View!Events
<1>4. CASE ~r.cancelled
  <2> DEFINE new == View!Shown(d, intentId)
             changed == View!Replaces(d)
  <2>1. data' = d /\ View!Play(new, changed, playbackActive)
    BY <1>4 DEF View!Settle
  <2>2. r.id = intentId
    BY <1>4 DEF ViewInv, Requests
  <2>3. View!ShowsWhatWasAskedLast'
    BY <1>1, <2>1, <2>2 DEF View!ShowsWhatWasAskedLast
  <2>4. Displayed' = new /\ View!Events(Displayed)' = View!Events(new)
    BY <1>1, <2>1 DEF Displayed, View!Events
  <2>5. View!Events(Displayed) \in Nat \ {0} /\ View!Events(new) \in Nat \ {0}
    BY ShownLength DEF ViewInv, Displayed
  <2>6. changed \in BOOLEAN /\ (~changed => new = Displayed)
    BY DEF View!Replaces, Displayed
  <2>7. Fits(View!Events(Displayed)) /\ playbackActive \in BOOLEAN /\ cut \in BOOLEAN
    BY DEF ViewInv
  <2>8. /\ playbackActive' \in BOOLEAN /\ cut' \in BOOLEAN /\ Fits(View!Events(Displayed))'
    <3> HIDE DEF new, changed
    <3>1. /\ playbackActive' \in BOOLEAN /\ cut' \in BOOLEAN
          /\ visibleCount' \in Nat /\ selected' \in 1..visibleCount' /\ visibleCount' <= View!Events(new)
          /\ ~playbackActive' /\ ~cut' => visibleCount' = View!Events(new)
      BY <2>1, <2>5, <2>6, <2>7, PlayFits
    <3> QED BY <2>4, <3>1 DEF Fits
  <2> QED BY <1>1, <1>2, <2>1, <2>3, <2>8 DEF ViewInv
<1> QED BY <1>3, <1>4

LEMMA ViewKept ==
  ASSUME ViewInv, [View!Next]_View!vars
  PROVE  ViewInv'
<1>1. View!Events(Displayed) \in Nat \ {0}
  BY ShownLength DEF ViewInv, Displayed
<1>2. ASSUME View!Rest, playbackActive' \in BOOLEAN, cut' \in BOOLEAN, Fits(View!Events(Displayed))'
      PROVE  ViewInv'
  BY <1>2 DEF View!Rest, ViewInv, Requests, View!ShowsWhatWasAskedLast
<1>3. View!Rest => View!Events(Displayed)' = View!Events(Displayed)
  BY DEF View!Rest, Displayed, View!Events, View!Shown
<1>4. ASSUME View!Rest, UNCHANGED <<playbackActive, visibleCount, selected, cut>>
      PROVE  ViewInv'
  BY <1>2, <1>3, <1>4 DEF ViewInv, Fits
<1>5. ASSUME NEW id \in Id, View!Select(id) PROVE ViewInv'
  BY <1>5, ShowKeeps DEF View!Select, ViewInv
<1>6. ASSUME NEW r \in requests, View!Answer(r) \/ View!NoAnswer(r) PROVE ViewInv'
  <2>1. r.id \in Id
    BY DEF ViewInv, Requests
  <2>2. View!Fetched(r.id) \in Replays /\ View!Example(r.id) \in Replays /\ View!Nothing \in Replays
    BY <2>1 DEF Replays
  <2> QED BY <1>6, <2>2, SettleKeeps DEF View!Answer, View!NoAnswer
<1>7. CASE View!Toggle
  <2>1. View!Rest /\ View!Play(Displayed, FALSE, ~playbackActive)
    BY <1>7 DEF View!Toggle, Displayed
  <2>2. /\ playbackActive' \in BOOLEAN /\ cut' \in BOOLEAN
        /\ visibleCount' \in Nat /\ selected' \in 1..visibleCount' /\ visibleCount' <= View!Events(Displayed)
        /\ ~playbackActive' /\ ~cut' => visibleCount' = View!Events(Displayed)
    BY <1>1, <2>1, PlayFits DEF ViewInv
  <2> QED BY <1>2, <1>3, <2>1, <2>2 DEF Fits
<1>8. CASE View!Tick
  <2> DEFINE n == View!Events(Displayed)
             least == IF visibleCount + 1 < n THEN visibleCount + 1 ELSE n
  <2>1. /\ View!Rest /\ visibleCount' = least /\ selected' = least /\ cut' = cut
        /\ playbackActive' = (visibleCount + 1 < n)
    BY <1>8 DEF View!Tick, Displayed
  <2>2. n \in Nat \ {0} /\ visibleCount \in Nat
    BY <1>1 DEF ViewInv, Fits
  <2>3. playbackActive' \in BOOLEAN /\ cut' \in BOOLEAN
    BY <2>1 DEF ViewInv
  <2>4. least \in Nat /\ least \in 1..least /\ least <= n
    <3> HIDE DEF n
    <3> QED BY <2>2
  <2>5. ~playbackActive' => least = n
    BY <2>1
  <2> QED BY <1>2, <1>3, <2>1, <2>3, <2>4, <2>5 DEF Fits
<1>9. ASSUME NEW e \in 1..visibleCount, View!Pick(e) PROVE ViewInv'
  <2>1. /\ View!Rest /\ visibleCount' = View!Events(Displayed) /\ selected' = e
        /\ playbackActive' = FALSE /\ cut' = FALSE
    BY <1>9 DEF View!Pick, Displayed
  <2>2. visibleCount \in Nat /\ visibleCount <= View!Events(Displayed)
    BY DEF ViewInv, Fits
  <2>3. e \in 1..View!Events(Displayed)
    BY <1>1, <2>2
  <2>4. Fits(View!Events(Displayed))'
    <3> DEFINE n == View!Events(Displayed)
    <3>1. n' = n
      BY <1>3, <2>1
    <3> HIDE DEF n
    <3> QED BY <1>1, <2>1, <2>3, <3>1 DEF Fits, n
  <2> QED BY <1>2, <2>1, <2>4
<1>10. CASE View!Post
  BY <1>4, <1>10 DEF View!Post, View!Rest
<1>11. CASE View!Posted
  <2>1. PICK id \in Id, active \in BOOLEAN : View!Show(id, active)
    BY <1>11 DEF View!Posted
  <2> QED BY <2>1, ShowKeeps
<1>12. CASE UNCHANGED View!vars
  BY <1>4, <1>12 DEF View!vars, View!Rest
<1> QED BY <1>5, <1>6, <1>7, <1>8, <1>9, <1>10, <1>11, <1>12 DEF View!Next

LEMMA ViewTrue == View!Spec => [](View!ShowsWhatWasAskedLast /\ View!EverythingIsThere)
<1>1. ViewInv => View!ShowsWhatWasAskedLast /\ View!EverythingIsThere
  BY DEF ViewInv, Fits, Displayed, View!EverythingIsThere
<1> QED BY <1>1, ViewInitially, ViewKept, PTL DEF View!Spec

-----------------------------------------------------------------------------
(* The demo server.  What an account has had, as a sum over at most one    *)
(* transfer.                                                               *)
Paid(account) ==
  {i \in Demo!Intents : /\ Demo!Asks(i).type = "transfer" /\ Demo!Asks(i).on = account
                        /\ Demo!Status(i) \in {"reserved", "success"}}
Totals(M, g) ==
  g = [s \in SUBSET M |-> IF s = {} THEN 0
                          ELSE LET i == CHOOSE x \in s : TRUE
                               IN  Demo!Asks(i).amount + g[s \ {i}]]

LEMMA SpentIsTotal ==
  ASSUME NEW account
  PROVE  Demo!Spent(account) = (CHOOSE g : Totals(Paid(account), g))[Paid(account)]
BY DEF Demo!Spent, Demo!MapThenSumSet, Demo!MapThenFoldSet, Totals, Paid

LEMMA SpentOnce ==
  ASSUME NEW account, NEW i, Demo!Asks(i).amount \in Nat
  PROVE  /\ Paid(account) = {} => Demo!Spent(account) = 0
         /\ Paid(account) = {i} => Demo!Spent(account) = Demo!Asks(i).amount
<1> DEFINE M == Paid(account)
           total == CHOOSE g : Totals(M, g)
           h == [s \in SUBSET M |-> IF s = {} THEN 0 ELSE Demo!Asks(i).amount]
<1>1. M \subseteq {i} => Totals(M, h)
  <2> HIDE DEF M
  <2> SUFFICES ASSUME M \subseteq {i} PROVE Totals(M, h)
    OBVIOUS
  <2>1. \A s \in SUBSET M : s # {} => /\ (CHOOSE x \in s : TRUE) = i
                                      /\ s \ {i} = {} /\ h[s \ {i}] = 0
    OBVIOUS
  <2>2. \A s \in SUBSET M :
          h[s] = IF s = {} THEN 0
                 ELSE LET x == CHOOSE x \in s : TRUE IN Demo!Asks(x).amount + h[s \ {x}]
    BY <2>1
  <2> HIDE DEF h
  <2>3. h = [s \in SUBSET M |-> h[s]]
    BY DEF h
  <2> QED BY <2>2, <2>3 DEF Totals
<1>2. M \subseteq {i} => Totals(M, total)
  BY <1>1
<1>3. total[{}] = 0 \/ ~(M \subseteq {i})
  BY <1>2 DEF Totals
<1>4. M = {i} => total[M] = Demo!Asks(i).amount + total[{}]
  <2> HIDE DEF M
  <2> SUFFICES ASSUME M = {i} PROVE total[M] = Demo!Asks(i).amount + total[{}]
    OBVIOUS
  <2>1. (CHOOSE x \in M : TRUE) = i /\ M \ {i} = {} /\ M # {} /\ M \in SUBSET M
    OBVIOUS
  <2> HIDE DEF total
  <2> QED BY <1>2, <2>1 DEF Totals
<1> HIDE DEF total
<1>5. Demo!Spent(account) = total[M]
  BY SpentIsTotal DEF total
<1> QED BY <1>3, <1>4, <1>5

(* What is known of the submissions. *)
Opening(s) == Demo!Sent(s, 1)
Sequel(s) == Demo!Sent(s, 2)
Things == {"none", "own", "common", Critical, Tame, NoInstance}
Asked == [type : {"none", "lookup_instance_cost", "terminate_instance", "transfer"},
          actor : {"none", "demo-agent", "second-agent", "guest"},
          on : Things, amount : {0, 3, 8}, tokens : SUBSET Demo!Intents]

DemoTypes ==
  /\ submission \in [Demo!Intents ->
       [intent : Asked,
        status : {"unsent", "sent", "blocked", "reserved", "success", "failed"}]]
  /\ scenario \in [Demo!Scenario -> {0, 1, 2}]

NotYet == \A s \in Demo!Scenario, n \in {1, 2} :
            scenario[s] < n => submission[Demo!Sent(s, n)] = Demo!As(Demo!Unsent, "unsent")

Budget ==
  /\ scenario["budget"] > 0 =>
       /\ Demo!Asks(Opening("budget")) = Demo!Transfer("demo-agent", "own", 3)
       /\ Demo!Status(Opening("budget")) \in {"sent", "reserved", "success"}
  /\ scenario["budget"] = 2 =>
       /\ Demo!Asks(Sequel("budget")) = Demo!Transfer("second-agent", "own", 8)
       /\ Demo!Status(Opening("budget")) = "success"
       /\ Demo!Status(Sequel("budget")) \in {"sent", "blocked"}

(* Nobody else knows the account before it is spent. *)
OwnAccount ==
  ~Demo!Known("budget") =>
    \A i \in Demo!Intents \ {Opening("budget"), Sequel("budget")} :
      ~(Demo!Asks(i).type = "transfer" /\ Demo!Asks(i).on = "own")

Looked ==
  \A i \in Demo!Intents :
    Demo!Asks(i).type = "terminate_instance" /\ Demo!Status(i) \in {"reserved", "success"}
      => Demo!Inspected(Demo!Asks(i))

DemoInv == DemoTypes /\ NotYet /\ Budget /\ OwnAccount /\ Looked

LEMMA Names ==
  /\ {Opening("budget"), Sequel("budget"), Opening("injection"), Sequel("injection")} \subseteq Demo!Intents
  /\ Opening("budget") # Sequel("budget") /\ Opening("injection") # Sequel("injection")
  /\ \A s \in Demo!Scenario, n \in {1, 2} : Demo!Sent(s, n) \in Demo!Intents /\ Demo!Sent(s, n) \notin Posts
  /\ \A s, t \in Demo!Scenario, n, m \in {1, 2} :
       Demo!Sent(s, n) = Demo!Sent(t, m) => s = t /\ n = m
  /\ Posts \subseteq Demo!Intents
  /\ Demo!Scenario = {"budget", "injection"}
<1>1. \A s \in Demo!Scenario, n \in {1, 2} : Demo!Sent(s, n) \in Demo!Scenario \X {1, 2}
  BY DEF Demo!Sent
<1> QED BY <1>1, PostsAreTheirOwn DEF Demo!Sent, Demo!Intents, Demo!Scenario, Opening, Sequel

LEMMA DemoInitially == Demo!Init => DemoInv
<1> SUFFICES ASSUME Demo!Init PROVE DemoInv
  OBVIOUS
<1>1. DemoTypes
  BY DEF Demo!Init, DemoTypes, Demo!As, Demo!Unsent, Asked, Things
<1>2. \A i \in Demo!Intents : submission[i] = Demo!As(Demo!Unsent, "unsent")
                              /\ Demo!Asks(i).type = "none"
  BY DEF Demo!Init, Demo!As, Demo!Unsent, Demo!Asks
<1>3. NotYet /\ OwnAccount /\ Looked
  BY <1>2, Names DEF NotYet, OwnAccount, Looked
<1>4. Budget
  BY Names DEF Budget, Demo!Init
<1> QED BY <1>1, <1>3, <1>4 DEF DemoInv

(* Of two submissions a step changes one, and it leaves what has succeeded.*)
LEMMA StatusWritten ==
  ASSUME DemoTypes, NEW i \in Demo!Intents, NEW intent \in Asked,
         NEW status \in {"sent", "blocked", "reserved", "success", "failed"},
         submission' = [submission EXCEPT ![i] = Demo!As(intent, status)],
         Demo!Status(i) # "success", scenario' \in [Demo!Scenario -> {0, 1, 2}]
  PROVE  /\ DemoTypes'
         /\ Demo!Asks(i)' = intent /\ Demo!Status(i)' = status
         /\ \A j \in Demo!Intents \ {i} :
              /\ submission'[j] = submission[j]
              /\ Demo!Asks(j)' = Demo!Asks(j) /\ Demo!Status(j)' = Demo!Status(j)
         /\ \A asked : Demo!Inspected(asked) => Demo!Inspected(asked)'
         /\ Looked /\ (intent.type = "terminate_instance" /\ status \in {"reserved", "success"}
                       => Demo!Inspected(intent)) => Looked'
<1>1. DemoTypes'
  BY DEF DemoTypes, Demo!As
<1>2. Demo!Asks(i)' = intent /\ Demo!Status(i)' = status
  BY DEF DemoTypes, Demo!Asks, Demo!Status, Demo!As
<1>3. \A j \in Demo!Intents \ {i} :
        /\ submission'[j] = submission[j]
        /\ Demo!Asks(j)' = Demo!Asks(j) /\ Demo!Status(j)' = Demo!Status(j)
  BY DEF DemoTypes, Demo!Asks, Demo!Status
<1>4. ASSUME NEW asked, Demo!Inspected(asked) PROVE Demo!Inspected(asked)'
  <2>1. PICK j \in Demo!Intents :
          /\ Demo!Status(j) = "success" /\ Demo!Asks(j).type = "lookup_instance_cost"
          /\ Demo!Asks(j).on = asked.on /\ Demo!Asks(j).actor = asked.actor
    BY <1>4 DEF Demo!Inspected, Demo!Succeeded
  <2>2. j # i
    BY <2>1
  <2>3. Demo!Status(j)' = "success" /\ Demo!Asks(j)' = Demo!Asks(j)
    BY <1>3, <2>1, <2>2
  <2> QED BY <2>1, <2>3 DEF Demo!Inspected, Demo!Succeeded
<1>5. ASSUME Looked, intent.type = "terminate_instance" /\ status \in {"reserved", "success"}
                       => Demo!Inspected(intent)
      PROVE  Looked'
  <2> SUFFICES ASSUME NEW j \in Demo!Intents, Demo!Asks(j)'.type = "terminate_instance",
                      Demo!Status(j)' \in {"reserved", "success"}
               PROVE  Demo!Inspected(Demo!Asks(j))'
    BY DEF Looked
  <2>1. CASE j = i
    <3>1. Demo!Inspected(intent)'
      BY <1>2, <1>4, <1>5, <2>1
    <3> QED BY <1>2, <2>1, <3>1 DEF Demo!Inspected
  <2>2. CASE j # i
    <3>1. Demo!Asks(j)' = Demo!Asks(j) /\ Demo!Inspected(Demo!Asks(j))
      BY <1>3, <1>5, <2>2 DEF Looked
    <3>2. Demo!Inspected(Demo!Asks(j)) => Demo!Inspected(Demo!Asks(j))'
      <4> DEFINE a == Demo!Asks(j)
      <4>1. a' = a
        BY <3>1
      <4> HIDE DEF a
      <4>2. Demo!Inspected(a) => (\E k \in Demo!Intents : /\ Demo!Succeeded(k)'
              /\ Demo!Asks(k)'.type = "lookup_instance_cost"
              /\ Demo!Asks(k)'.on = a.on /\ Demo!Asks(k)'.actor = a.actor)
        BY <1>4 DEF Demo!Inspected
      <4> QED BY <4>1, <4>2 DEF Demo!Inspected, a
    <3> QED BY <3>1, <3>2
  <2> QED BY <2>1, <2>2
<1> QED BY <1>1, <1>2, <1>3, <1>4, <1>5

(* A new intent. *)
LEMMA Submit ==
  ASSUME DemoInv, NEW i \in Demo!Intents, NEW intent \in Asked, Demo!Status(i) = "unsent",
         Demo!Submits(i, intent), scenario' \in [Demo!Scenario -> {0, 1, 2}]
  PROVE  /\ DemoTypes' /\ Looked'
         /\ Demo!Asks(i)' = intent /\ Demo!Status(i)' = "sent"
         /\ \A j \in Demo!Intents \ {i} :
              /\ submission'[j] = submission[j]
              /\ Demo!Asks(j)' = Demo!Asks(j) /\ Demo!Status(j)' = Demo!Status(j)
<1>1. submission' = [submission EXCEPT ![i] = Demo!As(intent, "sent")]
  BY DEF Demo!Submits
<1> QED BY <1>1, StatusWritten, Zenon DEF DemoInv

LEMMA PostKeeps ==
  ASSUME DemoInv, NEW i \in Posts, Demo!PostIntent(i)
  PROVE  DemoInv'
<1>1. PICK intent \in Asked : /\ Demo!Submits(i, intent)
                              /\ intent.type = "transfer" /\ intent.on = "own" => Demo!Known("budget")
  <2> DEFINE Good(intent) == /\ intent \in Asked
                             /\ intent.type = "transfer" /\ intent.on = "own" => Demo!Known("budget")
  <2>1. \A actor \in {"demo-agent", "guest"}, resource \in {Critical, Tame, NoInstance} :
          Good(Demo!Lookup(actor, resource))
    BY DEF Demo!Lookup, Asked, Things
  <2>2. \A actor \in {"demo-agent", "guest"}, resource \in {Critical, Tame}, token \in Demo!Intents :
          Good(Demo!Terminate(actor, resource, {token}))
    BY DEF Demo!Terminate, Asked, Things
  <2>3. \A actor \in {"demo-agent", "guest"}, amount \in {3, 8},
           account \in {"common"} \cup (IF Demo!Known("budget") THEN {"own"} ELSE {}) :
          Good(Demo!Transfer(actor, account, amount))
    BY DEF Demo!Transfer, Asked, Things
  <2>4. \A token \in {t \in Posts : Demo!Succeeded(t)}
                     \cup {Demo!Sent(s, 1) : s \in {x \in {"injection"} : Demo!Known(x)}} :
          token \in Demo!Intents
    BY Names
  <2> HIDE DEF Good
  <2>5. \E intent : Good(intent) /\ Demo!Submits(i, intent)
    BY <2>1, <2>2, <2>3, <2>4 DEF Demo!PostIntent
  <2> QED BY <2>5 DEF Good
<1>2. scenario' = scenario /\ Demo!Status(i) = "unsent" /\ i \in Demo!Intents
  BY Names DEF Demo!PostIntent
<1>3. /\ DemoTypes' /\ Looked'
      /\ Demo!Asks(i)' = intent /\ Demo!Status(i)' = "sent"
      /\ \A j \in Demo!Intents \ {i} :
           /\ submission'[j] = submission[j]
           /\ Demo!Asks(j)' = Demo!Asks(j) /\ Demo!Status(j)' = Demo!Status(j)
  <2>1. scenario' \in [Demo!Scenario -> {0, 1, 2}]
    BY <1>2 DEF DemoInv, DemoTypes
  <2> QED BY <1>1, <1>2, <2>1, Submit
<1>4. \A s \in Demo!Scenario, n \in {1, 2} :
        Demo!Sent(s, n) \in Demo!Intents \ {i}
  BY Names
<1>5. NotYet'
  BY <1>2, <1>3, <1>4 DEF DemoInv, NotYet
<1>6. Opening("budget") \in Demo!Intents \ {i} /\ Sequel("budget") \in Demo!Intents \ {i}
  BY <1>4, Names DEF Opening, Sequel
<1>7. Budget'
  BY <1>2, <1>3, <1>6 DEF DemoInv, Budget, Opening, Sequel
<1>8. Demo!Known("budget")' <=> Demo!Known("budget")
  BY <1>2, <1>3, <1>6 DEF Demo!Known, Sequel
<1>9. OwnAccount'
  <2> SUFFICES ASSUME ~Demo!Known("budget"),
                      NEW j \in Demo!Intents \ {Opening("budget"), Sequel("budget")}
               PROVE  ~(Demo!Asks(j)'.type = "transfer" /\ Demo!Asks(j)'.on = "own")
    BY <1>8 DEF OwnAccount, Opening, Sequel
  <2>1. CASE j = i
    BY <1>1, <1>3, <2>1
  <2>2. CASE j # i
    BY <1>3, <2>2 DEF DemoInv, OwnAccount
  <2> QED BY <2>1, <2>2
<1> QED BY <1>3, <1>5, <1>7, <1>9 DEF DemoInv

LEMMA SendKeeps ==
  ASSUME DemoInv,
         Demo!FirstTransfer \/ Demo!SecondTransfer \/ Demo!FirstLookup \/ Demo!Injected
  PROVE  DemoInv'
<1>1. PICK s \in Demo!Scenario, n \in {1, 2}, intent \in Asked :
        /\ n = scenario[s] + 1 /\ Demo!Submits(Demo!Sent(s, n), intent)
        /\ scenario' = [scenario EXCEPT ![s] = n]
        /\ s = "injection" => intent.type # "transfer"
        /\ s = "budget" /\ n = 1 => intent = Demo!Transfer("demo-agent", "own", 3)
        /\ s = "budget" /\ n = 2 => /\ intent = Demo!Transfer("second-agent", "own", 8)
                                    /\ Demo!Status(Opening("budget")) \in {"success", "blocked"}
  <2>1. /\ Demo!Transfer("demo-agent", "own", 3) \in Asked
        /\ Demo!Transfer("second-agent", "own", 8) \in Asked
    BY DEF Demo!Transfer, Asked, Things
  <2>2. Demo!Lookup("demo-agent", Tame) \in Asked /\ Demo!Lookup("demo-agent", Tame).type # "transfer"
    BY DEF Demo!Lookup, Asked, Things
  <2>3. /\ Demo!Terminate("demo-agent", Critical, {Opening("injection")}) \in Asked
        /\ Demo!Terminate("demo-agent", Critical, {Opening("injection")}).type # "transfer"
    BY Names DEF Demo!Terminate, Asked, Things
  <2>4. CASE Demo!FirstTransfer
    BY <2>1, <2>4, Names DEF Demo!FirstTransfer, Demo!Sends
  <2>5. CASE Demo!SecondTransfer
    BY <2>1, <2>5, Names DEF Demo!SecondTransfer, Demo!Sends, Opening
  <2>6. CASE Demo!FirstLookup
    BY <2>2, <2>6, Names DEF Demo!FirstLookup, Demo!Sends
  <2>7. CASE Demo!Injected
    BY <2>3, <2>7, Names DEF Demo!Injected, Demo!Sends, Opening
  <2> QED BY <2>4, <2>5, <2>6, <2>7
<1> DEFINE i == Demo!Sent(s, n)
<1>2. i \in Demo!Intents /\ Demo!Status(i) = "unsent"
  <2>1. i \in Demo!Intents
    BY Names
  <2>2. scenario[s] < n
    BY <1>1 DEF DemoInv, DemoTypes
  <2>3. submission[i] = Demo!As(Demo!Unsent, "unsent")
    BY <2>2 DEF DemoInv, NotYet
  <2> QED BY <2>1, <2>3 DEF Demo!Status, Demo!As
<1>3. scenario' \in [Demo!Scenario -> {0, 1, 2}] /\ scenario'[s] = n
      /\ \A t \in Demo!Scenario \ {s} : scenario'[t] = scenario[t]
  BY <1>1 DEF DemoInv, DemoTypes
<1>4. /\ DemoTypes' /\ Looked'
      /\ Demo!Asks(i)' = intent /\ Demo!Status(i)' = "sent"
      /\ \A j \in Demo!Intents \ {i} :
           /\ submission'[j] = submission[j]
           /\ Demo!Asks(j)' = Demo!Asks(j) /\ Demo!Status(j)' = Demo!Status(j)
  <2> HIDE DEF i
  <2>1. Demo!Submits(i, intent)
    BY <1>1 DEF i
  <2> QED BY <1>2, <1>3, <2>1, Submit
<1>5. NotYet'
  <2> SUFFICES ASSUME NEW t \in Demo!Scenario, NEW m \in {1, 2}, scenario'[t] < m
               PROVE  submission'[Demo!Sent(t, m)] = Demo!As(Demo!Unsent, "unsent")
    BY DEF NotYet
  <2>1. scenario[t] < m
    BY <1>1, <1>3 DEF DemoInv, DemoTypes
  <2>2. Demo!Sent(t, m) # i /\ Demo!Sent(t, m) \in Demo!Intents
    BY <1>3, Names
  <2> HIDE DEF i
  <2> QED BY <1>4, <2>1, <2>2 DEF DemoInv, NotYet
<1>6. CASE s = "injection"
  <2>1. Opening("budget") # i /\ Sequel("budget") # i
    BY <1>6, Names DEF Opening, Sequel
  <2>2. scenario'["budget"] = scenario["budget"]
    BY <1>3, <1>6, Names
  <2> HIDE DEF i
  <2>3. Budget'
    BY <1>4, <2>1, <2>2, Names DEF DemoInv, Budget, Opening, Sequel
  <2>4. Demo!Known("budget")' <=> Demo!Known("budget")
    BY <1>4, <2>1, <2>2, Names DEF Demo!Known, Sequel
  <2>5. OwnAccount'
    <3> SUFFICES ASSUME ~Demo!Known("budget"),
                        NEW j \in Demo!Intents \ {Opening("budget"), Sequel("budget")}
                 PROVE  ~(Demo!Asks(j)'.type = "transfer" /\ Demo!Asks(j)'.on = "own")
      BY <2>4 DEF OwnAccount, Opening, Sequel
    <3>1. CASE j = i
      BY <1>1, <1>4, <1>6, <3>1
    <3>2. CASE j # i
      BY <1>4, <3>2 DEF DemoInv, OwnAccount
    <3> QED BY <3>1, <3>2
  <2> QED BY <1>4, <1>5, <2>3, <2>5 DEF DemoInv
<1>7. CASE s = "budget"
  <2>1. scenario["budget"] \in {0, 1} /\ scenario'["budget"] = scenario["budget"] + 1
        /\ n = scenario["budget"] + 1
    BY <1>1, <1>3, <1>7, Names DEF DemoInv, DemoTypes
  <2>2. ~Demo!Known("budget")
    BY <2>1 DEF Demo!Known
  <2>3. i \in {Opening("budget"), Sequel("budget")}
    BY <1>7 DEF Opening, Sequel
  <2>4. OwnAccount'
    <3> HIDE DEF i
    <3> SUFFICES ASSUME NEW j \in Demo!Intents \ {Opening("budget"), Sequel("budget")}
                 PROVE  ~(Demo!Asks(j)'.type = "transfer" /\ Demo!Asks(j)'.on = "own")
      BY DEF OwnAccount, Opening, Sequel
    <3> QED BY <1>4, <2>2, <2>3 DEF DemoInv, OwnAccount
  <2>5. Budget'
    <3>1. CASE n = 1
      <4>1. i = Opening("budget")
        BY <1>7, <3>1 DEF Opening
      <4> HIDE DEF i
      <4>2. Demo!Asks(Opening("budget"))' = Demo!Transfer("demo-agent", "own", 3)
            /\ Demo!Status(Opening("budget"))' = "sent"
        BY <1>1, <1>4, <1>7, <3>1, <4>1 DEF Opening
      <4> QED BY <2>1, <3>1, <4>2 DEF Budget, Demo!Transfer
    <3>2. CASE n = 2
      <4>1. i = Sequel("budget")
        BY <1>7, <3>2 DEF Sequel
      <4> HIDE DEF i
      <4>2. /\ Demo!Asks(Sequel("budget"))' = Demo!Transfer("second-agent", "own", 8)
            /\ Demo!Status(Sequel("budget"))' = "sent"
        BY <1>1, <1>4, <1>7, <3>2, <4>1 DEF Sequel
      <4>3. /\ Demo!Asks(Opening("budget")) = Demo!Transfer("demo-agent", "own", 3)
            /\ Demo!Status(Opening("budget")) = "success"
        BY <1>1, <1>7, <2>1, <3>2 DEF DemoInv, Budget
      <4>4. /\ Demo!Asks(Opening("budget"))' = Demo!Transfer("demo-agent", "own", 3)
            /\ Demo!Status(Opening("budget"))' = "success"
        BY <1>4, <4>1, <4>3, Names DEF Opening
      <4> QED BY <4>2, <4>4 DEF Budget, Demo!Transfer
    <3> QED BY <3>1, <3>2
  <2> QED BY <1>4, <1>5, <2>4, <2>5 DEF DemoInv
<1> QED BY <1>6, <1>7, Names

(* A submission moves on, and what was asked remains.                      *)
LEMMA MoveKeeps ==
  ASSUME DemoInv, NEW i \in Demo!Intents,
         NEW status \in {"blocked", "reserved", "success", "failed"},
         Demo!Status(i) \in {"sent", "reserved"},
         submission' = [submission EXCEPT ![i].status = status], UNCHANGED scenario,
         Demo!Asks(i).type = "terminate_instance" /\ status \in {"reserved", "success"}
           => Demo!Inspected(Demo!Asks(i)),
         i = Opening("budget") => status \in {"reserved", "success"},
         i = Sequel("budget") => Demo!Status(i) = "sent" /\ status = "blocked"
  PROVE  DemoInv'
<1> DEFINE intent == Demo!Asks(i)
<1>1. submission' = [submission EXCEPT ![i] = Demo!As(intent, status)]
  <2>1. submission \in [Demo!Intents ->
          [intent : Asked, status : {"unsent", "sent", "blocked", "reserved", "success", "failed"}]]
    BY DEF DemoInv, DemoTypes
  <2>2. [submission[i] EXCEPT !.status = status] = Demo!As(Demo!Asks(i), status)
    BY <2>1 DEF Demo!As, Demo!Asks
  <2>3. submission' = [submission EXCEPT ![i] = [submission[i] EXCEPT !.status = status]]
    BY <2>1, Zenon
  <2> QED BY <2>2, <2>3, Zenon
<1>2. intent \in Asked /\ scenario' \in [Demo!Scenario -> {0, 1, 2}]
  BY DEF DemoInv, DemoTypes, Demo!Asks
<1>3. /\ DemoTypes' /\ Looked'
      /\ Demo!Asks(i)' = intent /\ Demo!Status(i)' = status
      /\ \A j \in Demo!Intents \ {i} :
           /\ submission'[j] = submission[j]
           /\ Demo!Asks(j)' = Demo!Asks(j) /\ Demo!Status(j)' = Demo!Status(j)
  <2> DEFINE asked == intent
  <2>1. /\ asked \in Asked /\ submission' = [submission EXCEPT ![i] = Demo!As(asked, status)]
        /\ asked.type = "terminate_instance" /\ status \in {"reserved", "success"}
             => Demo!Inspected(asked)
        /\ asked = intent
    BY <1>1, <1>2
  <2> HIDE DEF asked
  <2>2. status \in {"sent", "blocked", "reserved", "success", "failed"} /\ Demo!Status(i) # "success"
    OBVIOUS
  <2>3. DemoTypes /\ Looked
    BY DEF DemoInv
  <2>4. /\ DemoTypes' /\ Demo!Asks(i)' = asked /\ Demo!Status(i)' = status
        /\ \A j \in Demo!Intents \ {i} :
             /\ submission'[j] = submission[j]
             /\ Demo!Asks(j)' = Demo!Asks(j) /\ Demo!Status(j)' = Demo!Status(j)
        /\ Looked'
    BY <1>2, <2>1, <2>2, <2>3, StatusWritten
  <2> QED BY <2>1, <2>4
<1> HIDE DEF intent
<1>4. \A j \in Demo!Intents : Demo!Asks(j)' = Demo!Asks(j)
  BY <1>3 DEF intent
<1>5. NotYet'
  <2> SUFFICES ASSUME NEW s \in Demo!Scenario, NEW n \in {1, 2}, scenario[s] < n
               PROVE  submission'[Demo!Sent(s, n)] = Demo!As(Demo!Unsent, "unsent")
    BY DEF NotYet
  <2>1. submission[Demo!Sent(s, n)] = Demo!As(Demo!Unsent, "unsent") /\ Demo!Sent(s, n) \in Demo!Intents
    BY Names DEF DemoInv, NotYet
  <2>2. Demo!Sent(s, n) # i
    BY <2>1 DEF Demo!Status, Demo!As
  <2> QED BY <1>3, <2>1, <2>2
<1>6. Opening("budget") \in Demo!Intents /\ Sequel("budget") \in Demo!Intents
      /\ Opening("budget") # Sequel("budget")
  BY Names
<1>7. Budget'
  <2>1. scenario["budget"] > 0 =>
          /\ Demo!Asks(Opening("budget"))' = Demo!Transfer("demo-agent", "own", 3)
          /\ Demo!Status(Opening("budget"))' \in {"sent", "reserved", "success"}
    BY <1>3, <1>4, <1>6 DEF DemoInv, Budget
  <2>2. scenario["budget"] = 2 =>
          /\ Demo!Asks(Sequel("budget"))' = Demo!Transfer("second-agent", "own", 8)
          /\ Demo!Status(Sequel("budget"))' \in {"sent", "blocked"}
    BY <1>3, <1>4, <1>6 DEF DemoInv, Budget
  <2>3. scenario["budget"] = 2 => Demo!Status(Opening("budget"))' = "success"
    BY <1>3, <1>6 DEF DemoInv, Budget
  <2> QED BY <2>1, <2>2, <2>3 DEF Budget, Opening, Sequel, Demo!Transfer
<1>8. Demo!Known("budget") => Demo!Known("budget")'
  BY <1>3, <1>6 DEF Demo!Known, Sequel
<1>9. OwnAccount'
  BY <1>4, <1>8 DEF DemoInv, OwnAccount, Opening, Sequel
<1> QED BY <1>3, <1>5, <1>7, <1>9 DEF DemoInv

LEMMA DecideKeeps ==
  ASSUME DemoInv, NEW i \in Demo!Intents, Demo!Decide(i)
  PROVE  DemoInv'
<1> DEFINE status == IF Demo!Governs(Demo!Asks(i)) /\ Demo!Permits(Demo!Asks(i))
                       THEN "reserved" ELSE "blocked"
<1>1. /\ submission' = [submission EXCEPT ![i].status = status] /\ UNCHANGED scenario
      /\ Demo!Status(i) = "sent" /\ status \in {"blocked", "reserved"}
  BY DEF Demo!Decide
<1>2. Demo!Asks(i).type = "terminate_instance" /\ status = "reserved" => Demo!Inspected(Demo!Asks(i))
  BY DEF Demo!Governs
<1>3. \A s \in Demo!Scenario, n \in {1, 2} : i = Demo!Sent(s, n) => scenario[s] >= n
  BY <1>1 DEF DemoInv, DemoTypes, NotYet, Demo!Status, Demo!As
<1>4. Paid("own") \ {Opening("budget"), Sequel("budget")} = {} \/ Demo!Known("budget")
  BY DEF Paid, DemoInv, OwnAccount
<1>5. i = Opening("budget") => status = "reserved"
  <2> SUFFICES ASSUME i = Opening("budget") PROVE status = "reserved"
    OBVIOUS
  <2>1. scenario["budget"] = 1
    BY <1>1, <1>3, Names DEF DemoInv, DemoTypes, Budget, Opening
  <2>2. Demo!Status(Sequel("budget")) = "unsent"
    BY <2>1, Names DEF DemoInv, NotYet, Sequel, Demo!Status, Demo!As
  <2>3. Paid("own") = {}
    BY <1>1, <1>4, <2>1, <2>2 DEF Paid, Demo!Known
  <2>4. Demo!Asks(i) = Demo!Transfer("demo-agent", "own", 3)
    BY <2>1 DEF DemoInv, Budget
  <2>5. /\ Demo!Asks(i).type = "transfer" /\ Demo!Asks(i).on = "own" /\ Demo!Asks(i).amount = 3
    BY <2>4 DEF Demo!Transfer
  <2>6. Demo!Spent("own") = 0
    BY <2>3, <2>5, SpentOnce
  <2> QED BY <2>5, <2>6 DEF Demo!Governs, Demo!Permits, Demo!MaxCumulativeValue
<1>6. i = Sequel("budget") => status = "blocked"
  <2> SUFFICES ASSUME i = Sequel("budget") PROVE status = "blocked"
    OBVIOUS
  <2>1. scenario["budget"] = 2
    BY <1>3, Names DEF DemoInv, DemoTypes, Sequel
  <2>2. /\ Demo!Asks(i) = Demo!Transfer("second-agent", "own", 8)
        /\ Demo!Asks(Opening("budget")) = Demo!Transfer("demo-agent", "own", 3)
        /\ Demo!Status(Opening("budget")) = "success"
    BY <2>1 DEF DemoInv, Budget
  <2>3. /\ Demo!Asks(i).type = "transfer" /\ Demo!Asks(i).on = "own" /\ Demo!Asks(i).amount = 8
        /\ Demo!Asks(Opening("budget")).type = "transfer" /\ Demo!Asks(Opening("budget")).on = "own"
        /\ Demo!Asks(Opening("budget")).amount = 3
    BY <2>2 DEF Demo!Transfer
  <2>4. ~Demo!Known("budget")
    BY <1>1 DEF Demo!Known, Sequel
  <2>5. Opening("budget") \in Paid("own") /\ Sequel("budget") \notin Paid("own")
    BY <1>1, <2>2, <2>3, Names DEF Paid
  <2>6. Paid("own") = {Opening("budget")}
    BY <1>4, <2>4, <2>5
  <2>7. Demo!Spent("own") = 3
    BY <2>3, <2>6, SpentOnce
  <2> QED BY <2>3, <2>7 DEF Demo!Governs, Demo!MaxCumulativeValue
<1> HIDE DEF status
<1> QED BY <1>1, <1>2, <1>5, <1>6, MoveKeeps

LEMMA ExecuteKeeps ==
  ASSUME DemoInv, NEW i \in Demo!Intents, Demo!Execute(i)
  PROVE  DemoInv'
<1> DEFINE status == IF Demo!Asks(i).type = "lookup_instance_cost" /\ Demo!Asks(i).on = NoInstance
                       THEN "failed" ELSE "success"
<1>1. /\ submission' = [submission EXCEPT ![i].status = status] /\ UNCHANGED scenario
      /\ Demo!Status(i) = "reserved" /\ status \in {"failed", "success"}
  BY DEF Demo!Execute
<1>2. Demo!Asks(i).type = "terminate_instance" => Demo!Inspected(Demo!Asks(i))
  BY <1>1 DEF DemoInv, Looked
<1>3. \A s \in Demo!Scenario, n \in {1, 2} : i = Demo!Sent(s, n) => scenario[s] >= n
  BY <1>1 DEF DemoInv, DemoTypes, NotYet, Demo!Status, Demo!As
<1>4. i # Sequel("budget")
  BY <1>1, <1>3, Names DEF DemoInv, DemoTypes, Budget, Sequel
<1>5. i = Opening("budget") => status = "success"
  <2>1. i = Opening("budget") => scenario["budget"] > 0
    BY <1>3, Names DEF DemoInv, DemoTypes, Opening
  <2>2. i = Opening("budget") => Demo!Asks(i).type = "transfer"
    BY <2>1 DEF DemoInv, Budget, Demo!Transfer
  <2> QED BY <2>2
<1> HIDE DEF status
<1> QED BY <1>1, <1>2, <1>4, <1>5, MoveKeeps

LEMMA DemoKept ==
  ASSUME DemoInv, [Demo!Next]_Demo!vars
  PROVE  DemoInv'
<1>1. CASE UNCHANGED Demo!vars
  <2>1. submission' = submission /\ scenario' = scenario
    BY <1>1 DEF Demo!vars
  <2> QED
    BY <2>1
    DEF DemoInv, DemoTypes, NotYet, Budget, OwnAccount, Looked, Demo!Asks, Demo!Status,
        Demo!Known, Demo!Inspected, Demo!Succeeded
<1> QED BY <1>1, PostKeeps, SendKeeps, DecideKeeps, ExecuteKeeps DEF Demo!Next

LEMMA DemoTrue ==
  Demo!Spec => [](Demo!SecondTransferIsBlocked /\ Demo!TerminationsWereInspected)
<1>1. DemoInv => Demo!SecondTransferIsBlocked
  <2> SUFFICES ASSUME DemoInv, Demo!Status(Sequel("budget")) \in {"blocked", "reserved", "success"}
               PROVE  /\ Demo!Status(Opening("budget")) = "success"
                      /\ Demo!Status(Sequel("budget")) = "blocked"
    BY DEF Demo!SecondTransferIsBlocked, Opening, Sequel
  <2>1. Demo!Status(Sequel("budget")) # "unsent"
    OBVIOUS
  <2>2. scenario["budget"] = 2
    BY <2>1, Names DEF DemoInv, DemoTypes, NotYet, Sequel, Demo!Status, Demo!As
  <2> QED BY <2>2 DEF DemoInv, Budget
<1>2. DemoInv => Demo!TerminationsWereInspected
  BY DEF DemoInv, Looked, Demo!TerminationsWereInspected, Demo!Inspected, Demo!Succeeded
<1> QED BY <1>1, <1>2, DemoInitially, DemoKept, PTL DEF Demo!Spec

(* The pages show what is so: the viewer the replay that was asked for     *)
(* last, in whatever order the answers come, with all its events unless its*)
(* playback was stopped or its replay replaced; and the demo blocks its    *)
(* second transfer and terminates no instance that the same actor has not  *)
(* looked up, whoever posts what meanwhile (useReplay.ts:22-76, App.tsx:   *)
(* 52-91, demo-server/server.ts:37-51, 106-118).                           *)
THEOREM PagesTrue == View!Spec /\ Demo!Spec => []PagesTellTheTruth
<1>1. View!ShowsWhatWasAskedLast /\ View!EverythingIsThere
      /\ Demo!SecondTransferIsBlocked /\ Demo!TerminationsWereInspected => PagesTellTheTruth
  BY DEF PagesTellTheTruth
<1> QED BY <1>1, ViewTrue, DemoTrue, PTL

-----------------------------------------------------------------------------
(* The commands of the CLI, which are those of EngineProofs with a store of*)
(* their own and no governance: it extends the module that Applications    *)
(* instantiates, and here it gets the same substitutions.                  *)
Proved == INSTANCE EngineProofs WITH
  Governed <- FALSE, Window <- 1, MaxClock <- 0,
  history <- evidence, call <- invocation, faults <- mishaps

LEMMA TheSameCalls ==
  \A c \in Call : /\ Commands!Main(c) <=> Proved!Main(c)
                  /\ Commands!Worker(c) <=> Proved!Worker(c)
                  /\ Commands!Crash(c) <=> Proved!Crash(c)
<1> TAKE c \in Call
<1> USE DEF Commands!Follows, Proved!Follows, Commands!LastOf, Proved!LastOf,
            Commands!FollowsAlways, Proved!FollowsAlways, Commands!TraceRecord,
            Proved!TraceRecord, Commands!Traces, Proved!Traces, Commands!TraceOf,
            Proved!TraceOf, Commands!TraceOfCall, Proved!TraceOfCall,
            Commands!NoTrace, Proved!NoTrace, Commands!StatusOf, Proved!StatusOf,
            Commands!Event, Proved!Event, Commands!Accepted, Proved!Accepted,
            Commands!Store, Proved!Store, Commands!Records, Proved!Records,
            Commands!RecordFails, Proved!RecordFails, Commands!Moves,
            Proved!Moves, Commands!Answered, Proved!Answered, Commands!Caught,
            Proved!Caught, Commands!vars, Proved!vars
<1>1. Commands!Before(c) <=> Proved!Before(c)
  <2>1. /\ Commands!Receive(c) <=> Proved!Receive(c)
        /\ Commands!Duplicate(c) <=> Proved!Duplicate(c)
        /\ Commands!ReceiveFails(c) <=> Proved!ReceiveFails(c)
    BY DEF Commands!Receive, Proved!Receive, Commands!Duplicate,
         Proved!Duplicate, Commands!ReceiveFails, Proved!ReceiveFails,
         Commands!Stages, Proved!Stages
  <2>2. Commands!InBudget(c) <=> Proved!InBudget(c)
    BY DEF Commands!InBudget, Proved!InBudget, Commands!WithinLimit,
         Proved!WithinLimit, Commands!Used, Proved!Used, Commands!Counts,
         Proved!Counts, Commands!Cardinality, Proved!Cardinality
  <2>3. \A s : Commands!StageOf(s) = Proved!StageOf(s)
    BY DEF Commands!StageOf, Proved!StageOf, Commands!Stages, Proved!Stages
  <2>4. Commands!StagePasses(c) <=> Proved!StagePasses(c)
    BY <2>2 DEF Commands!StagePasses, Proved!StagePasses, Commands!StageOf,
         Proved!StageOf, Commands!Stages, Proved!Stages
  <2>5. /\ Commands!TemporalRejects(c) <=> Proved!TemporalRejects(c)
        /\ Commands!PolicyDenies(c) <=> Proved!PolicyDenies(c)
        /\ Commands!StageThrows(c) <=> Proved!StageThrows(c)
    BY <2>2, <2>3 DEF Commands!TemporalRejects, Proved!TemporalRejects,
         Commands!PolicyDenies, Proved!PolicyDenies, Commands!StageThrows,
         Proved!StageThrows
  <2>6. Commands!StageRecordFails(c) <=> Proved!StageRecordFails(c)
    BY <2>2, <2>3 DEF Commands!StageRecordFails, Proved!StageRecordFails
  <2>7. Commands!Reserve(c) <=> Proved!Reserve(c)
    BY <2>2 DEF Commands!Reserve, Proved!Reserve
  <2>8. /\ Commands!ReserveRefuses(c) <=> Proved!ReserveRefuses(c)
        /\ Commands!ReserveFails(c) <=> Proved!ReserveFails(c)
    BY <2>2 DEF Commands!ReserveRefuses, Proved!ReserveRefuses,
         Commands!ReserveFails, Proved!ReserveFails
  <2> QED BY ONLY <2>1, <2>4, <2>5, <2>6, <2>7, <2>8 DEF Commands!Before,
         Proved!Before
<1>2. Commands!Identity(c) <=> Proved!Identity(c)
  BY DEF Commands!Identity, Proved!Identity, Commands!InTime, Proved!InTime,
         Commands!Unlockable, Proved!Unlockable, Commands!Issue, Proved!Issue,
         Commands!IssueFails, Proved!IssueFails, Commands!AfterAudit,
         Proved!AfterAudit, Commands!AuditEvent, Proved!AuditEvent,
         Commands!Audit, Proved!Audit, Commands!AuditFails, Proved!AuditFails,
         Commands!LastUnlock, Proved!LastUnlock, Commands!LastUnlockFails,
         Proved!LastUnlockFails, Commands!Enter, Proved!Enter,
         Commands!EnterFails, Proved!EnterFails, Commands!Resolve,
         Proved!Resolve, Commands!Reject, Proved!Reject, Commands!Timer,
         Proved!Timer, Commands!Concluded, Proved!Concluded, Commands!Revoked,
         Proved!Revoked, Commands!Revoke, Proved!Revoke, Commands!RevokeFails,
         Proved!RevokeFails, Commands!Denied, Proved!Denied, Commands!Closing,
         Proved!Closing, Commands!ClosedAs, Proved!ClosedAs
<1>3. Commands!After(c) <=> Proved!After(c)
  BY DEF Commands!After, Proved!After, Commands!Mint, Proved!Mint,
         Commands!MintFails, Proved!MintFails, Commands!Denied, Proved!Denied,
         Commands!Closing, Proved!Closing, Commands!ClosedAs, Proved!ClosedAs,
         Commands!Close, Proved!Close, Commands!CloseFails, Proved!CloseFails
<1>4. Commands!Worker(c) <=> Proved!Worker(c)
  <2>1. \A result : Commands!ExecutorReturns(c, result) <=> Proved!ExecutorReturns(c, result)
    BY DEF Commands!ExecutorReturns, Proved!ExecutorReturns, Commands!InTime,
         Proved!InTime
  <2>2. \A effect : Commands!ExecutorThrows(c, effect) <=> Proved!ExecutorThrows(c, effect)
    BY DEF Commands!ExecutorThrows, Proved!ExecutorThrows
  <2>3. /\ Commands!RecordCompletion(c) <=> Proved!RecordCompletion(c)
        /\ Commands!CompletionFails(c) <=> Proved!CompletionFails(c)
    BY DEF Commands!Completed, Proved!Completed, Commands!RecordCompletion,
         Proved!RecordCompletion, Commands!CompletionFails,
         Proved!CompletionFails
  <2> QED BY ONLY <2>1, <2>2, <2>3 DEF Commands!Worker, Proved!Worker
<1>5. Commands!Crash(c) <=> Proved!Crash(c)
  BY DEF Commands!Crash, Proved!Crash
<1> QED BY <1>1, <1>2, <1>3, <1>4, <1>5 DEF Commands!Main, Proved!Main

LEMMA TheSameCommands ==
  /\ Commands!CommandInit <=> Proved!CommandInit
  /\ [Commands!CommandNext]_Commands!commandVars <=> [Proved!CommandNext]_Proved!commandVars
  /\ OutcomesAreTrue <=> Proved!AnswersAreTrue /\ Proved!ExitTellsWhatHappened
<1>1. Commands!CommandInit <=> Proved!CommandInit
  BY Zenon DEF Commands!CommandInit, Proved!CommandInit, Commands!Init,
         Proved!Init, Commands!New, Proved!New
<1>2. (UNCHANGED Commands!commandVars) <=> UNCHANGED Proved!commandVars
  BY Zenon DEF Commands!commandVars, Proved!commandVars, Commands!vars,
         Proved!vars
<1>3. Commands!Next <=> Proved!Next
  BY TheSameCalls DEF Commands!Next, Proved!Next, Commands!Tick, Proved!Tick
<1>4. \A c \in Call : /\ Commands!Speak(c) <=> Proved!Speak(c)
                      /\ Commands!SpeakError(c) <=> Proved!SpeakError(c)
  BY DEF Commands!Speak, Proved!Speak, Commands!SpeakError, Proved!SpeakError,
         Commands!Over, Proved!Over, Commands!Replays, Proved!Replays,
         Commands!ExitCode, Proved!ExitCode, Commands!StatusCode,
         Proved!StatusCode, Commands!FinalOutcome, Proved!FinalOutcome,
         Commands!LastOf, Proved!LastOf, Commands!vars, Proved!vars
<1>5. Commands!CommandNext <=> Proved!CommandNext
  BY <1>3, <1>4 DEF Commands!CommandNext, Proved!CommandNext
<1>6. OutcomesAreTrue <=> Proved!AnswersAreTrue /\ Proved!ExitTellsWhatHappened
  BY DEF OutcomesAreTrue, Commands!AnswersAreTrue, Proved!AnswersAreTrue,
         Commands!ExitTellsWhatHappened, Proved!ExitTellsWhatHappened,
         Commands!Reported, Proved!Reported, Commands!ReplayTellsTheAnswer,
         Proved!ReplayTellsTheAnswer, Commands!RefusalNeverExecutes,
         Proved!RefusalNeverExecutes, Commands!Alone, Proved!Alone,
         Commands!Over, Proved!Over, Commands!FinalOutcome,
         Proved!FinalOutcome, Commands!LastOf, Proved!LastOf
<1>7. [Commands!CommandNext]_Commands!commandVars <=> [Proved!CommandNext]_Proved!commandVars
  BY <1>2, <1>5
<1> QED BY <1>1, <1>6, <1>7

(* The exit code of a command agrees with the answer of process() and the  *)
(* replay of its events when its intent was submitted once, whatever fails *)
(* and whatever the other commands do (run.ts:46-67).                      *)
THEOREM OutcomesTold ==
  ASSUME Ttl \in Nat \ {0}
  PROVE  Commands!CommandSpec => []OutcomesAreTrue
<1>1. Proved!CommandSpec => [](Proved!AnswersAreTrue /\ Proved!ExitTellsWhatHappened)
  <2>1. Proved!PositiveTtl
    BY DEF Proved!PositiveTtl
  <2>2. Proved!PositiveTtl =>
          (Proved!CommandSpec => [](Proved!AnswersAreTrue /\ Proved!ExitTellsWhatHappened))
    BY CloudIsBounded, Proved!ExitsTell, Zenon DEF Proved!IsFiniteSet, IsFiniteSet
  <2> QED BY <2>1, <2>2, PTL
<1>2. []OutcomesAreTrue <=> [](Proved!AnswersAreTrue /\ Proved!ExitTellsWhatHappened)
  BY TheSameCommands, PTL
<1>3. Commands!CommandSpec <=> Proved!CommandSpec
  BY TheSameCommands, PTL DEF Commands!CommandSpec, Proved!CommandSpec
<1> QED BY <1>1, <1>2, <1>3, PTL

-----------------------------------------------------------------------------
(* What a command takes from its operator. *)

(* A name that was passed over was absent at that moment: whatever of the  *)
(* names that were wanted was there all along is still to be tried.        *)
LookupInv ==
  /\ lookup = [pc |-> lookup.pc, wanted |-> lookup.wanted, names |-> lookup.names,
               config |-> lookup.config]
  /\ lookup.names \in Seq(Configs!Names)
  /\ \A n \in stayed : disk[n] # Configs!Absent
  /\ lookup.pc \in {"looking", "ready"} => lookup.wanted \cap stayed \subseteq Range(lookup.names)
  /\ lookup.pc = "looking" => lookup.config = Configs!NoConfig
  /\ lookup.pc = "ready" =>
       lookup.config = IF lookup.names = <<>> THEN Configs!NoConfig ELSE disk[Head(lookup.names)]

LEMMA LookupStarts == Configs!Init => LookupInv
<1> SUFFICES ASSUME Configs!Init PROVE LookupInv
  OBVIOUS
<1>1. PICK names \in {Candidates} \cup {<<n>> : n \in Configs!Names} :
        lookup = [pc |-> "looking", wanted |-> Configs!Range(names), names |-> names,
                  config |-> Configs!NoConfig]
  BY DEF Configs!Init
<1>2. names \in Seq(Configs!Names)
  <2>1. Configs!Names = Range(Candidates)
    BY DEF Configs!Names, Configs!Range, Range
  <2>2. \A n \in Configs!Names : <<n>> \in Seq(Configs!Names)
    OBVIOUS
  <2> QED BY <2>1, <2>2, OperatorWritesText
<1>3. Configs!Range(names) = Range(names)
  BY DEF Configs!Range, Range
<1>4. \A n \in stayed : disk[n] # Configs!Absent
  BY DEF Configs!Init
<1> QED BY <1>1, <1>2, <1>3, <1>4 DEF LookupInv

LEMMA LookupSteps == LookupInv /\ [Configs!Next]_Configs!vars => LookupInv'
<1> SUFFICES ASSUME LookupInv, [Configs!Next]_Configs!vars PROVE LookupInv'
  OBVIOUS
<1>1. CASE UNCHANGED Configs!vars
  BY <1>1 DEF LookupInv, Configs!vars, Configs!Names, Configs!Absent
<1>2. CASE Configs!Look
  <2>1. lookup.pc = "looking" /\ UNCHANGED <<disk, edits, stayed>>
    BY <1>2 DEF Configs!Look
  <2>2. CASE lookup.names = <<>> /\ lookup' = [lookup EXCEPT !.pc = "ready"]
    <3>1. Range(lookup.names) = {}
      <4>1. DOMAIN lookup.names = {}
        BY <2>2
      <4> QED BY <4>1 DEF Range
    <3> QED BY <2>1, <2>2, <3>1 DEF LookupInv, Configs!Names, Configs!Absent, Configs!NoConfig
  <2>3. CASE /\ lookup.names # <<>> /\ disk[Head(lookup.names)] = Configs!Absent
             /\ lookup' = [lookup EXCEPT !.names = Tail(@)]
    <3>1. /\ Tail(lookup.names) \in Seq(Configs!Names)
          /\ Range(lookup.names) \subseteq {Head(lookup.names)} \cup Range(Tail(lookup.names))
      <4>1. lookup.names \in Seq(Configs!Names)
        BY DEF LookupInv
      <4>2. \A n \in DOMAIN lookup.names :
              n = 1 \/ (n - 1 \in DOMAIN Tail(lookup.names) /\ Tail(lookup.names)[n - 1] = lookup.names[n])
        BY <2>3, <4>1, HeadTailProperties
      <4>3. Head(lookup.names) = lookup.names[1]
        BY <4>1, <2>3
      <4>4. Tail(lookup.names) \in Seq(Configs!Names)
        BY <2>3, <4>1
      <4>5. \A n \in DOMAIN lookup.names :
              lookup.names[n] \in {Head(lookup.names)} \cup Range(Tail(lookup.names))
        BY <4>2, <4>3 DEF Range
      <4> QED BY <4>4, <4>5 DEF Range
    <3>2. Head(lookup.names) \notin stayed
      BY <2>3 DEF LookupInv
    <3>3. lookup'.names = Tail(lookup.names)
      BY <2>3 DEF LookupInv
    <3> QED BY <2>1, <2>3, <3>1, <3>2 DEF LookupInv, Configs!Names, Configs!Absent, Configs!NoConfig
  <2>4. CASE lookup' = [lookup EXCEPT !.pc = "threw"]
    BY <2>1, <2>4 DEF LookupInv, Configs!Names, Configs!Absent, Configs!NoConfig
  <2>5. CASE /\ lookup.names # <<>>
             /\ lookup' = [lookup EXCEPT !.pc = "ready", !.config = disk[Head(lookup.names)]]
    BY <2>1, <2>5 DEF LookupInv, Configs!Names, Configs!Absent, Configs!NoConfig
  <2> QED BY <1>2, <2>2, <2>3, <2>4, <2>5 DEF Configs!Look, Configs!Found
<1>3. CASE Configs!Edit
  <2>1. /\ stayed' = {n \in stayed : disk'[n] # Configs!Absent} /\ UNCHANGED lookup
        /\ lookup.pc = "looking"
    BY <1>3 DEF Configs!Edit
  <2> QED BY <2>1 DEF LookupInv, Configs!Names, Configs!Absent, Configs!NoConfig
<1> QED BY <1>1, <1>2, <1>3 DEF Configs!Next

-----------------------------------------------------------------------------
(* The stack holds the document and the sections that are open, in their   *)
(* order, and a line of any indent closes an end of it: without the latter *)
(* the innermost section that stays open would have to be found by         *)
(* induction.  Every line was put into the section it belongs to.          *)
Below(k, indent) == \A j \in DOMAIN stack : j <= k <=> (j = 1 \/ stack[j].indent < indent)
Indented == \A j, k \in DOMAIN stack : j < k => stack[j].line < stack[k].line
OpenLines ==
  /\ stack[1] = [line |-> 0, indent |-> -1]
  /\ \A k \in DOMAIN stack : k # 1 =>
       /\ stack[k].line \in DOMAIN lines /\ Yaml!Encloses(stack[k].line, Len(lines))
       /\ stack[k].indent = lines[stack[k].line].indent
  /\ \A s \in DOMAIN lines : Yaml!Encloses(s, Len(lines)) =>
       \E k \in DOMAIN stack : k # 1 /\ stack[k].line = s
Lines == [indent : Indents, section : BOOLEAN]
Sections == [line : Nat, indent : Int]
YamlTypes ==
  /\ lines \in Seq(Lines) /\ stack \in Seq(Sections) /\ stack # <<>>
  /\ parent \in Seq(Nat) /\ Len(parent) = Len(lines)
YamlInv ==
  /\ YamlTypes
  /\ \A indent \in Indents : \E k \in DOMAIN stack : Below(k, indent)
  /\ Indented
  /\ OpenLines
  /\ Yaml!LinesAreWhereTheyBelong

LEMMA YamlStarts == Yaml!Init => YamlInv
<1> SUFFICES ASSUME Yaml!Init PROVE YamlInv
  OBVIOUS
<1>1. lines = <<>> /\ parent = <<>> /\ stack = <<[line |-> 0, indent |-> -1]>>
  BY DEF Yaml!Init
<1>2. DOMAIN stack = {1} /\ stack[1] = [line |-> 0, indent |-> -1] /\ DOMAIN lines = {}
  BY <1>1
<1>3. YamlTypes
  BY <1>1 DEF YamlTypes, Sections
<1>4. \A indent \in Indents : Below(1, indent)
  BY <1>2 DEF Below
<1>5. Indented /\ OpenLines /\ Yaml!LinesAreWhereTheyBelong
  BY <1>2 DEF Indented, OpenLines, Yaml!LinesAreWhereTheyBelong
<1> QED BY <1>2, <1>3, <1>4, <1>5 DEF YamlInv

(* The greatest of a set of integers is the one that no other exceeds. *)
LEMMA Greatest ==
  ASSUME NEW S, S \subseteq Int, NEW x \in S, \A y \in S : x >= y
  PROVE  Yaml!Max(S) = x /\ Arguments!Max(S) = x
<1>1. \A y \in S : (\A z \in S : y >= z) => y = x
  OBVIOUS
<1>2. (CHOOSE y \in S : \A z \in S : y >= z) = x
  BY <1>1
<1> QED BY <1>2 DEF Yaml!Max, Arguments!Max

(* A line closes what is not less indented, and the sections that stay are *)
(* those that enclose it.                                                  *)
LEMMA LinesClose ==
  ASSUME YamlInv, NEW line \in Lines
  PROVE  \E m \in DOMAIN stack :
           /\ Below(m, line.indent)
           /\ Yaml!Closed(line.indent) \in Seq(Sections)
           /\ Len(Yaml!Closed(line.indent)) = m
           /\ \A k \in 1 .. m : Yaml!Closed(line.indent)[k] = stack[k]
           /\ Yaml!Last(Yaml!Closed(line.indent)) = stack[m]
<1>1. line.indent \in Indents
  BY DEF Lines
<1>2. PICK m \in DOMAIN stack : Below(m, line.indent)
  BY <1>1 DEF YamlInv
<1>3. stack \in Seq(Sections) /\ stack # <<>>
  BY DEF YamlInv, YamlTypes
<1>4. m \in 1 .. Len(stack) /\ DOMAIN stack = 1 .. Len(stack) /\ Len(stack) \in Nat
  BY <1>3
<1>5. Yaml!Max({n \in DOMAIN stack : n = 1 \/ stack[n].indent < line.indent}) = m
  <2> DEFINE S == {n \in DOMAIN stack : n = 1 \/ stack[n].indent < line.indent}
  <2>1. S \subseteq Int /\ m \in S /\ \A y \in S : m >= y
    BY <1>2, <1>4 DEF Below
  <2> QED BY <2>1, Greatest
<1>6. Yaml!Closed(line.indent) = SubSeq(stack, 1, m)
  BY <1>5 DEF Yaml!Closed
<1>7. \A i \in 1 .. m : stack[i] \in Sections
  BY <1>3, <1>4
<1>8. /\ SubSeq(stack, 1, m) \in Seq(Sections) /\ Len(SubSeq(stack, 1, m)) = m
      /\ \A k \in 1 .. m : SubSeq(stack, 1, m)[k] = stack[k]
  <2>1. /\ SubSeq(stack, 1, m) \in Seq(Sections)
        /\ Len(SubSeq(stack, 1, m)) = IF 1 <= m THEN m - 1 + 1 ELSE 0
        /\ \A i \in 1 .. m - 1 + 1 : SubSeq(stack, 1, m)[i] = stack[1 + i - 1]
    BY <1>4, <1>7, SubSeqProperties
  <2> QED BY <2>1, <1>4
<1>9. Yaml!Last(Yaml!Closed(line.indent)) = stack[m]
  BY <1>4, <1>6, <1>8 DEF Yaml!Last
<1> QED BY <1>2, <1>6, <1>8, <1>9

LEMMA YamlTyped ==
  ASSUME YamlTypes
  PROVE  /\ Len(lines) \in Nat /\ DOMAIN lines = 1 .. Len(lines)
         /\ \A i \in DOMAIN lines : lines[i].indent \in Indents /\ lines[i].indent \in Int
         /\ \A line \in Lines : /\ line.indent \in Indents /\ line.indent \in Int
                               /\ line.section \in BOOLEAN
         /\ Len(stack) \in Nat /\ Len(stack) >= 1 /\ DOMAIN stack = 1 .. Len(stack)
         /\ \A k \in DOMAIN stack : stack[k].line \in Nat /\ stack[k].indent \in Int
<1>1. /\ lines \in Seq(Lines) /\ stack \in Seq(Sections) /\ stack # <<>>
  BY DEF YamlTypes
<1>2. \A line \in Lines : /\ line.indent \in Indents /\ line.indent \in Int
                        /\ line.section \in BOOLEAN
  <2>1. \A indent \in Indents : indent \in Int
    BY OperatorWritesText
  <2>2. \A line \in Lines : line.indent \in Indents /\ line.section \in BOOLEAN
    BY Zenon DEF Lines
  <2> QED BY <2>1, <2>2
<1>3. \A section \in Sections : section.line \in Nat /\ section.indent \in Int
  BY DEF Sections
<1>4. (\A i \in DOMAIN lines : lines[i] \in Lines) /\ \A k \in DOMAIN stack : stack[k] \in Sections
  BY <1>1
<1> QED BY <1>1, <1>2, <1>3, <1>4

(* What a new line changes: it is enclosed by the open sections that are   *)
(* less indented, and by those only; those before it belong where they did.*)
LEMMA LinesEnclose ==
  ASSUME YamlInv, NEW line \in Lines, lines' = Append(lines, line),
         NEW N \in Nat, N = Len(lines)
  PROVE  /\ lines' \in Seq(Lines) /\ Len(lines') = N + 1
         /\ DOMAIN lines' = 1 .. N + 1 /\ lines'[N + 1] = line
         /\ \A i \in 1 .. N : lines'[i] = lines[i]
         /\ \A s \in 1 .. N :
              Yaml!Encloses(s, N + 1)' <=>
                (Yaml!Encloses(s, N) /\ lines[s].indent < line.indent)
         /\ Yaml!Encloses(N + 1, N + 1)' <=> line.section
         /\ \A n \in 1 .. N : Yaml!Section(n)' = Yaml!Section(n)
<1>1. lines \in Seq(Lines) /\ DOMAIN lines = 1 .. N
  BY DEF YamlInv, YamlTypes
<1>2. /\ lines' \in Seq(Lines) /\ Len(lines') = N + 1
      /\ DOMAIN lines' = 1 .. N + 1 /\ lines'[N + 1] = line
      /\ \A i \in 1 .. N : lines'[i] = lines[i]
  BY <1>1, AppendProperties
<1>3. /\ line.indent \in Int
      /\ \A i \in 1 .. N : lines[i].indent \in Int
  BY <1>1, YamlTyped DEF YamlInv
<1>4. ASSUME NEW s \in 1 .. N
      PROVE  Yaml!Encloses(s, N + 1)' <=> (Yaml!Encloses(s, N) /\ lines[s].indent < line.indent)
  <2>1. \A i \in s + 1 .. N + 1 : i = N + 1 \/ i \in s + 1 .. N
    BY <1>1
  <2>2. N + 1 \in s + 1 .. N + 1 /\ \A i \in s + 1 .. N : i \in 1 .. N /\ i \in s + 1 .. N + 1
    BY <1>1
  <2>3. (\A i \in s + 1 .. N + 1 : lines'[i].indent > lines'[s].indent)
          <=> /\ line.indent > lines[s].indent
              /\ \A i \in s + 1 .. N : lines[i].indent > lines[s].indent
    BY <1>2, <2>1, <2>2
  <2>4. Yaml!Encloses(s, N + 1)' <=>
          /\ lines'[s].section
          /\ \A i \in s + 1 .. N + 1 : lines'[i].indent > lines'[s].indent
    BY DEF Yaml!Encloses
  <2> QED BY <1>2, <1>3, <2>3, <2>4 DEF Yaml!Encloses
<1>5. Yaml!Encloses(N + 1, N + 1)' <=> line.section
  <2>1. N + 1 + 1 .. N + 1 = {}
    BY <1>1
  <2> QED BY <1>2, <2>1 DEF Yaml!Encloses
<1>6. ASSUME NEW n \in 1 .. N
      PROVE  Yaml!Section(n)' = Yaml!Section(n)
  <2>1. ASSUME NEW s \in 1 .. n - 1
        PROVE  Yaml!Encloses(s, n)' <=> Yaml!Encloses(s, n)
    <3>1. s \in 1 .. N /\ s + 1 .. n \subseteq 1 .. N
      BY <1>1
    <3> QED BY <1>2, <3>1 DEF Yaml!Encloses
  <2>2. {s \in 1 .. n - 1 : Yaml!Encloses(s, n)'} = {s \in 1 .. n - 1 : Yaml!Encloses(s, n)}
    BY <2>1
  <2> QED BY <2>2 DEF Yaml!Section, Yaml!Max
<1> QED BY <1>2, <1>4, <1>5, <1>6

LEMMA YamlSteps == YamlInv /\ [Yaml!Next]_Yaml!vars => YamlInv'
<1> SUFFICES ASSUME YamlInv, [Yaml!Next]_Yaml!vars PROVE YamlInv'
  OBVIOUS
<1>1. CASE UNCHANGED Yaml!vars
  <2>1. lines' = lines /\ stack' = stack /\ parent' = parent
    BY <1>1 DEF Yaml!vars
  <2>2. YamlTypes' <=> YamlTypes
    BY <2>1 DEF YamlTypes
  <2>3. \A k, indent : Below(k, indent)' <=> Below(k, indent)
    BY <2>1 DEF Below
  <2>4. (Indented' <=> Indented) /\ (OpenLines' <=> OpenLines)
    BY <2>1 DEF Indented, OpenLines, Yaml!Encloses
  <2>5. Yaml!LinesAreWhereTheyBelong' <=> Yaml!LinesAreWhereTheyBelong
    BY <2>1 DEF Yaml!LinesAreWhereTheyBelong, Yaml!Section, Yaml!Encloses, Yaml!Max
  <2> QED BY <2>1, <2>2, <2>3, <2>4, <2>5 DEF YamlInv
<1>2. ASSUME NEW line \in Lines, Yaml!ParseLine(line) PROVE YamlInv'
  <2>0. PICK N \in Nat : N = Len(lines)
    BY DEF YamlInv, YamlTypes
  <2> DEFINE open == Yaml!Closed(line.indent)
  <2>1. /\ lines' = Append(lines, line)
        /\ parent' = Append(parent, Yaml!Last(open).line)
        /\ stack' = IF line.section
                      THEN Append(open, [line |-> N + 1, indent |-> line.indent]) ELSE open
    BY <1>2, <2>0 DEF Yaml!ParseLine
  <2>2. PICK m \in DOMAIN stack :
          /\ Below(m, line.indent)
          /\ open \in Seq(Sections) /\ Len(open) = m
          /\ \A k \in 1 .. m : open[k] = stack[k]
          /\ Yaml!Last(open) = stack[m]
    BY LinesClose
  <2>3. /\ lines' \in Seq(Lines) /\ Len(lines') = N + 1
        /\ DOMAIN lines' = 1 .. N + 1 /\ lines'[N + 1] = line
        /\ \A i \in 1 .. N : lines'[i] = lines[i]
        /\ \A s \in 1 .. N : Yaml!Encloses(s, N + 1)' <=>
                               (Yaml!Encloses(s, N) /\ lines[s].indent < line.indent)
        /\ Yaml!Encloses(N + 1, N + 1)' <=> line.section
        /\ \A n \in 1 .. N : Yaml!Section(n)' = Yaml!Section(n)
    BY <2>0, <2>1, LinesEnclose
  <2>4. /\ lines \in Seq(Lines) /\ N \in Nat /\ DOMAIN lines = 1 .. N
        /\ stack \in Seq(Sections) /\ m \in Nat /\ m >= 1
        /\ \A k \in 1 .. m : k \in DOMAIN stack
        /\ parent \in Seq(Nat) /\ Len(parent) = N
        /\ line.indent \in Int /\ line.section \in BOOLEAN
    <3>1. m \in DOMAIN stack
      OBVIOUS
    <3> QED BY <2>0, <3>1, YamlTyped DEF YamlInv, YamlTypes
  <2> HIDE DEF open
  <2>5. /\ stack' \in Seq(Sections)
        /\ \A k \in 1 .. m : k \in DOMAIN stack' /\ stack'[k] = stack[k]
        /\ IF line.section
             THEN /\ DOMAIN stack' = 1 .. m + 1
                  /\ stack'[m + 1] = [line |-> N + 1, indent |-> line.indent]
             ELSE DOMAIN stack' = 1 .. m
    <3>1. DOMAIN open = 1 .. m
      BY <2>2
    <3>2. CASE ~line.section
      BY <2>1, <2>2, <2>4, <3>1, <3>2
    <3>3. CASE line.section
      <4>1. [line |-> N + 1, indent |-> line.indent] \in Sections
        BY <2>4 DEF Sections
      <4>2. stack' = Append(open, [line |-> N + 1, indent |-> line.indent])
        BY <2>1, <3>3
      <4> QED BY <2>2, <2>4, <3>3, <4>1, <4>2, AppendProperties
    <3> QED BY <2>4, <3>2, <3>3
  <2>6. \A k \in 1 .. m : /\ stack[k].line \in 0 .. N /\ stack[k].indent \in Int
                          /\ k # 1 => /\ stack[k].line \in 1 .. N
                                      /\ Yaml!Encloses(stack[k].line, N)
                                      /\ stack[k].indent = lines[stack[k].line].indent
                                      /\ stack[k].indent < line.indent
    <3>1. stack[1].line = 0 /\ stack[1].indent = -1
      BY DEF YamlInv, OpenLines
    <3>2. \A k \in 1 .. m : k # 1 => /\ stack[k].line \in DOMAIN lines
                                      /\ Yaml!Encloses(stack[k].line, N)
                                      /\ stack[k].indent = lines[stack[k].line].indent
      BY <2>0, <2>4 DEF YamlInv, OpenLines
    <3>3. \A k \in 1 .. m : k # 1 => stack[k].indent < line.indent
      BY <2>2, <2>4 DEF Below
    <3>4. \A k \in 1 .. m : stack[k].indent \in Int
      BY <2>4, YamlTyped DEF YamlInv
    <3> QED BY <2>4, <3>1, <3>2, <3>3, <3>4
  <2>7. \A s \in 1 .. N : Yaml!Encloses(s, N + 1)' => \E k \in 1 .. m : k # 1 /\ stack[k].line = s
    <3> SUFFICES ASSUME NEW s \in 1 .. N, Yaml!Encloses(s, N + 1)'
                 PROVE  \E k \in 1 .. m : k # 1 /\ stack[k].line = s
      OBVIOUS
    <3>1. Yaml!Encloses(s, N) /\ lines[s].indent < line.indent
      BY <2>3
    <3>2. PICK k \in DOMAIN stack : k # 1 /\ stack[k].line = s
      BY <2>0, <2>4, <3>1 DEF YamlInv, OpenLines
    <3>3. stack[k].indent = lines[s].indent
      BY <3>2 DEF YamlInv, OpenLines
    <3>4. k <= m /\ k \in 1 .. m
      BY <2>2, <2>4, <3>1, <3>2, <3>3 DEF Below
    <3> QED BY <3>2, <3>4
  <2>8. YamlTypes'
    <3>1. stack' # <<>>
      BY <2>4, <2>5
    <3>2. Yaml!Last(open).line \in Nat
      BY <2>2, YamlTyped DEF YamlInv
    <3>3. parent' \in Seq(Nat) /\ Len(parent') = N + 1
      BY <2>1, <2>4, <3>2
    <3> QED BY <2>3, <2>5, <3>1, <3>3 DEF YamlTypes
  <2>9. ASSUME NEW indent \in Indents PROVE \E k \in DOMAIN stack' : Below(k, indent)'
    <3>1. PICK k \in DOMAIN stack : Below(k, indent)
      BY DEF YamlInv
    <3>2. indent \in Int /\ k \in Nat /\ k >= 1
      BY <2>4, OperatorWritesText
    <3>3. \A j \in 1 .. m : j <= k <=> (j = 1 \/ stack'[j].indent < indent)
      BY <2>4, <2>5, <3>1 DEF Below
    <3>4. CASE ~line.section
      <4>1. CASE k <= m
        BY <2>5, <3>2, <3>3, <3>4, <4>1 DEF Below
      <4>2. CASE m < k
        <5>1. \A j \in 1 .. m : j <= m <=> (j = 1 \/ stack'[j].indent < indent)
          BY <2>4, <3>2, <3>3, <4>2
        <5>2. DOMAIN stack' = 1 .. m
          BY <2>5, <3>4
        <5>3. Below(m, indent)'
          BY <5>1, <5>2 DEF Below
        <5> QED BY <2>4, <5>2, <5>3
      <4> QED BY <2>4, <3>2, <4>1, <4>2
    <3>5. CASE line.section /\ k < m
      <4>1. stack'[m].indent >= indent /\ m # 1
        <5>1. ~(m <= k) /\ m \in 1 .. m
          BY <2>4, <3>2, <3>5
        <5>2. ~(m = 1 \/ stack'[m].indent < indent)
          BY <3>3, <5>1
        <5>3. stack'[m].indent \in Int
          BY <2>5, <2>6, <5>1
        <5> QED BY <3>2, <5>2, <5>3
      <4>2. ~(stack'[m + 1].indent < indent)
        BY <2>4, <2>5, <2>6, <3>2, <3>5, <4>1
      <4>3. \A j \in 1 .. m + 1 : j <= k <=> (j = 1 \/ stack'[j].indent < indent)
        <5>1. \A j \in 1 .. m + 1 : j = m + 1 \/ j \in 1 .. m
          BY <2>4
        <5>2. ~(m + 1 <= k) /\ m + 1 # 1
          BY <2>4, <3>2, <3>5
        <5> QED BY <3>3, <4>2, <5>1, <5>2, Zenon
      <4>4. DOMAIN stack' = 1 .. m + 1 /\ k \in 1 .. m + 1
        BY <2>4, <2>5, <3>2, <3>5
      <4>5. Below(k, indent)'
        BY <4>3, <4>4 DEF Below
      <4> QED BY <4>4, <4>5
    <3>6. CASE line.section /\ m <= k
      <4> DEFINE last == IF line.indent < indent THEN m + 1 ELSE m
      <4>1. \A j \in 1 .. m + 1 : j <= last <=> (j = 1 \/ stack'[j].indent < indent)
        BY <2>4, <2>5, <3>2, <3>3, <3>6
      <4>2. last \in DOMAIN stack'
        BY <2>4, <2>5, <3>6
      <4> QED BY <2>5, <3>6, <4>1, <4>2 DEF Below
    <3> QED BY <2>4, <3>2, <3>4, <3>5, <3>6
  <2>10. Indented'
    <3> SUFFICES ASSUME NEW j \in DOMAIN stack', NEW k \in DOMAIN stack', j < k
                 PROVE  stack'[j].line < stack'[k].line
      BY DEF Indented
    <3>0. j \in 1 .. m + 1 /\ k \in 1 .. m + 1
      <4>1. DOMAIN stack' = 1 .. m + 1 \/ DOMAIN stack' = 1 .. m
        BY <2>5
      <4> QED BY <2>4, <4>1
    <3>1. CASE k <= m
      <4>1. j \in 1 .. m /\ k \in 1 .. m
        BY <2>4, <3>0, <3>1
      <4>2. stack[j].line < stack[k].line
        BY <2>4, <4>1 DEF YamlInv, Indented
      <4> QED BY <2>5, <4>1, <4>2
    <3>2. CASE k > m
      <4>1. line.section /\ k = m + 1 /\ j \in 1 .. m
        BY <2>4, <2>5, <3>2
      <4>2. stack'[k].line = N + 1 /\ stack'[j].line \in 0 .. N
        BY <2>5, <2>6, <4>1
      <4> QED BY <2>4, <4>2
    <3> QED BY <2>4, <2>5, <3>1, <3>2
  <2>11. OpenLines'
    <3>1. stack'[1] = [line |-> 0, indent |-> -1]
      BY <2>4, <2>5 DEF YamlInv, OpenLines
    <3>2. ASSUME NEW k \in DOMAIN stack', k # 1
          PROVE  /\ stack'[k].line \in 1 .. N + 1
                 /\ \A s \in 1 .. N + 1 : stack'[k].line = s => Yaml!Encloses(s, N + 1)'
                 /\ stack'[k].indent = lines'[stack'[k].line].indent
      <4>1. CASE k <= m
        <5>1. k \in 1 .. m
          BY <2>4, <2>5, <4>1
        <5>2. /\ stack[k].line \in 1 .. N /\ Yaml!Encloses(stack[k].line, N)
              /\ stack[k].indent = lines[stack[k].line].indent /\ stack[k].indent < line.indent
          BY <2>6, <3>2, <5>1
        <5> QED BY <2>3, <2>4, <2>5, <5>1, <5>2
      <4>2. CASE k > m
        <5>1. line.section /\ k = m + 1 /\ stack'[k].line = N + 1
          BY <2>4, <2>5, <4>2
        <5> QED BY <2>3, <2>4, <2>5, <5>1
      <4> QED BY <2>4, <2>5, <4>1, <4>2
    <3>3. ASSUME NEW s \in DOMAIN lines', Yaml!Encloses(s, N + 1)'
          PROVE  \E k \in DOMAIN stack' : k # 1 /\ stack'[k].line = s
      <4>1. CASE s = N + 1
        <5>1. line.section
          BY <2>3, <3>3, <4>1
        <5> QED BY <2>4, <2>5, <4>1, <5>1
      <4>2. CASE s # N + 1
        <5>1. s \in 1 .. N
          BY <2>3, <2>4, <4>2
        <5>2. PICK k \in 1 .. m : k # 1 /\ stack[k].line = s
          BY <2>7, <3>3, <5>1
        <5> QED BY <2>5, <5>2
      <4> QED BY <4>1, <4>2
    <3>4. \A k \in DOMAIN stack' : k # 1 =>
            Yaml!Encloses(stack[k].line, Len(lines))'
      BY <2>3, <3>2 DEF Yaml!Encloses
    <3>5. \A s \in DOMAIN lines' : Yaml!Encloses(s, Len(lines))' =>
            \E k \in DOMAIN stack' : k # 1 /\ stack'[k].line = s
      BY <2>3, <3>3 DEF Yaml!Encloses
    <3> QED BY <2>3, <3>1, <3>2, <3>4, <3>5 DEF OpenLines
  <2>12. Yaml!LinesAreWhereTheyBelong'
    <3>1. Yaml!Section(N + 1)' = stack[m].line
      <4> DEFINE S == {0} \cup {s \in 1 .. N + 1 - 1 : Yaml!Encloses(s, N + 1)'}
      <4>1. S \subseteq Int /\ stack[m].line \in S
        BY <2>3, <2>4, <2>6 DEF YamlInv, OpenLines
      <4>2. \A s \in S : stack[m].line >= s
        <5>1. m \in 1 .. m /\ stack[m].line \in Nat
          BY <2>4, <2>6
        <5>2. ASSUME NEW s \in 1 .. N, Yaml!Encloses(s, N + 1)' PROVE stack[m].line >= s
          <6>1. PICK k \in 1 .. m : k # 1 /\ stack[k].line = s
            BY <2>7, <5>2
          <6>2. k = m \/ stack[k].line < stack[m].line
            BY <2>4, <5>1 DEF YamlInv, Indented
          <6> QED BY <5>1, <6>1, <6>2
        <5>3. \A s \in S : s = 0 \/ (s \in 1 .. N /\ Yaml!Encloses(s, N + 1)')
          BY <2>4
        <5> QED BY <5>1, <5>2, <5>3
      <4>3. Yaml!Section(N + 1)' = Yaml!Max(S)
        BY DEF Yaml!Section, Yaml!Max
      <4> QED BY <4>1, <4>2, <4>3, Greatest
    <3>2. parent'[N + 1] = stack[m].line /\ \A n \in 1 .. N : parent'[n] = parent[n]
      BY <2>1, <2>2, <2>4
    <3>3. \A n \in 1 .. N : parent[n] = Yaml!Section(n)
      BY <2>4 DEF YamlInv, Yaml!LinesAreWhereTheyBelong
    <3>4. \A n \in 1 .. N + 1 : n = N + 1 \/ n \in 1 .. N
      BY <2>4
    <3> QED BY <2>3, <3>1, <3>2, <3>3, <3>4 DEF Yaml!LinesAreWhereTheyBelong
  <2> QED BY <2>8, <2>9, <2>10, <2>11, <2>12 DEF YamlInv
<1> QED BY <1>1, <1>2 DEF Yaml!Next, Lines

-----------------------------------------------------------------------------
(* Of the words before the one that is read next, each is used as it will  *)
(* be in the end; none of them has the next one as its value.              *)
ValueWords == /\ index \in 1 .. Len(args) + 1
              /\ \A m \in 1 .. index - 1 : Arguments!Option(m) => Arguments!ValueOf(m) < index
IsPositional(n) ==
  /\ ~Arguments!Option(n)
  /\ \A m \in 1 .. n - 1 : Arguments!Option(m) => Arguments!ValueOf(m) # n
Positionals ==
  /\ positionals \in Seq(Nat)
  /\ \A k \in DOMAIN positionals :
       positionals[k] \in 1 .. index - 1 /\ IsPositional(positionals[k])
  /\ \A n \in 1 .. index - 1 : IsPositional(n) => \E k \in DOMAIN positionals : positionals[k] = n
  /\ \A m, n \in DOMAIN positionals : m < n => positionals[m] < positionals[n]
LastWith(f, n) ==
  /\ Arguments!Option(n) /\ Arguments!Name(n) = f
  /\ \A m \in 1 .. index - 1 : Arguments!Option(m) /\ Arguments!Name(m) = f => m <= n
Flags ==
  /\ \A f \in DOMAIN flags :
       \E n \in 1 .. index - 1 : LastWith(f, n) /\ flags[f] = Arguments!ValueOf(n)
  /\ \A n \in 1 .. index - 1 : Arguments!Option(n) => Arguments!Name(n) \in DOMAIN flags
ArgumentsInv == /\ args \in Seq(Arguments!Arg)
                /\ ValueWords /\ Positionals /\ Flags

LEMMA ArgumentsStart == Arguments!Init => ArgumentsInv
<1> SUFFICES ASSUME Arguments!Init PROVE ArgumentsInv
  OBVIOUS
<1>1. index = 1 /\ flags = <<>> /\ positionals = <<>>
  BY DEF Arguments!Init
<1>2. args \in Seq(Arguments!Arg) /\ Len(args) \in Nat
  <2>1. PICK n \in 0 .. MaxArgs : args \in [1 .. n -> Arguments!Arg]
    BY DEF Arguments!Init, Arguments!BoundedSeq, Arguments!SeqOf
  <2>2. n \in Nat
    BY OperatorWritesText
  <2> QED BY <2>1, <2>2
<1>3. DOMAIN flags = {} /\ DOMAIN positionals = {} /\ 1 .. index - 1 = {} /\ positionals \in Seq(Nat)
  BY <1>1
<1>4. ValueWords
  BY <1>1, <1>2, <1>3 DEF ValueWords
<1> QED BY <1>2, <1>3, <1>4 DEF ArgumentsInv, Positionals, Flags

LEMMA WordsTyped ==
  ASSUME ArgumentsInv
  PROVE  /\ Len(args) \in Nat /\ DOMAIN args = 1 .. Len(args) /\ index \in Nat /\ index >= 1
         /\ \A n \in Int : Arguments!ValueOf(n) \in Int
         /\ \A n \in DOMAIN args : args[n].kind \in {"bare", "inline", "empty", "word"}
<1>1. args \in Seq(Arguments!Arg) /\ index \in 1 .. Len(args) + 1
  BY DEF ArgumentsInv, ValueWords
<1>2. \A arg \in Arguments!Arg : arg.kind \in {"bare", "inline", "empty", "word"}
  BY DEF Arguments!Arg
<1>3. \A n \in DOMAIN args : args[n] \in Arguments!Arg
  BY <1>1
<1>4. \A n \in Int : Arguments!ValueOf(n) \in Int
  BY <1>1 DEF Arguments!ValueOf
<1> QED BY <1>1, <1>2, <1>3, <1>4

(* A word that is not an option, and is no value of one before it.         *)
LEMMA PositionalKept ==
  ASSUME ArgumentsInv, args' = args, index <= Len(args), Arguments!Positional
  PROVE  ArgumentsInv'
<1>1. /\ ~Arguments!Option(index) /\ positionals' = Append(positionals, index)
      /\ index' = index + 1 /\ flags' = flags
  BY DEF Arguments!Positional
<1>2. /\ Len(args) \in Nat /\ DOMAIN args = 1 .. Len(args) /\ index \in Nat /\ index >= 1
      /\ \A n \in Int : Arguments!ValueOf(n) \in Int
  BY WordsTyped
<1>3. 1 .. index' - 1 = 1 .. index /\ \A n \in 1 .. index : n = index \/ n \in 1 .. index - 1
  BY <1>1, <1>2
<1>4. \A n : /\ Arguments!Option(n)' <=> Arguments!Option(n)
             /\ Arguments!ValueOf(n)' = Arguments!ValueOf(n)
             /\ Arguments!Name(n)' = Arguments!Name(n)
             /\ IsPositional(n)' <=> IsPositional(n)
  BY DEF Arguments!Option, Arguments!ValueOf, Arguments!Name, IsPositional
<1>5. \A m \in 1 .. index - 1 : Arguments!Option(m) => Arguments!ValueOf(m) < index
  BY DEF ArgumentsInv, ValueWords
<1>6. ValueWords'
  <2>1. index' \in 1 .. Len(args') + 1
    BY <1>1, <1>2
  <2>2. \A m \in 1 .. index : Arguments!Option(m) => Arguments!ValueOf(m) < index + 1
    <3> SUFFICES ASSUME NEW m \in 1 .. index, Arguments!Option(m)
                 PROVE  Arguments!ValueOf(m) < index + 1
      OBVIOUS
    <3>1. m \in 1 .. index - 1 /\ Arguments!ValueOf(m) \in Int
      BY <1>1, <1>2, <1>3
    <3>2. Arguments!ValueOf(m) < index
      BY <1>5, <3>1
    <3> QED BY <1>2, <3>1, <3>2
  <2> QED BY <1>1, <1>3, <1>4, <2>1, <2>2 DEF ValueWords
<1>7. IsPositional(index)
  BY <1>1, <1>2, <1>5 DEF IsPositional
<1>8. Positionals'
  <2>1. /\ positionals \in Seq(Nat)
        /\ \A k \in DOMAIN positionals :
             positionals[k] \in 1 .. index /\ positionals[k] \in Int /\ positionals[k] < index
    <3>1. positionals \in Seq(Nat) /\ \A k \in DOMAIN positionals : positionals[k] \in 1 .. index - 1
      BY DEF ArgumentsInv, Positionals
    <3>2. \A n \in 1 .. index - 1 : n \in 1 .. index /\ n \in Int /\ n < index
      BY <1>2
    <3> QED BY <3>1, <3>2
  <2>2. /\ positionals' \in Seq(Nat) /\ Len(positionals') = Len(positionals) + 1
        /\ Len(positionals) \in Nat /\ DOMAIN positionals = 1 .. Len(positionals)
        /\ DOMAIN positionals' = 1 .. Len(positionals) + 1
        /\ positionals'[Len(positionals) + 1] = index
        /\ \A k \in DOMAIN positionals : positionals'[k] = positionals[k]
    <3>1. /\ Append(positionals, index) \in Seq(Nat)
          /\ Len(Append(positionals, index)) = Len(positionals) + 1
          /\ \A k \in 1 .. Len(positionals) : Append(positionals, index)[k] = positionals[k]
          /\ Append(positionals, index)[Len(positionals) + 1] = index
      BY <1>2, <2>1, AppendProperties
    <3>2. Len(positionals) \in Nat /\ DOMAIN positionals = 1 .. Len(positionals)
      BY <2>1
    <3>3. DOMAIN Append(positionals, index) = 1 .. Len(positionals) + 1
      BY <3>1
    <3> QED BY <1>1, <3>1, <3>2, <3>3
  <2>3. \A k \in DOMAIN positionals' : k = Len(positionals) + 1 \/ k \in DOMAIN positionals
    BY <2>2
  <2>4. \A k \in DOMAIN positionals' :
          positionals'[k] \in 1 .. index /\ IsPositional(positionals'[k])
    <3>1. \A k \in DOMAIN positionals : IsPositional(positionals[k])
      BY DEF ArgumentsInv, Positionals
    <3>2. index \in 1 .. index
      BY <1>2
    <3> QED BY <1>7, <2>1, <2>2, <2>3, <3>1, <3>2
  <2>5. \A n \in 1 .. index : IsPositional(n) =>
          \E k \in DOMAIN positionals' : positionals'[k] = n
    <3> SUFFICES ASSUME NEW n \in 1 .. index, IsPositional(n)
                 PROVE  \E k \in DOMAIN positionals' : positionals'[k] = n
      OBVIOUS
    <3>1. CASE n = index
      BY <2>2, <3>1
    <3>2. CASE n \in 1 .. index - 1
      <4>1. PICK k \in DOMAIN positionals : positionals[k] = n
        BY <3>2 DEF ArgumentsInv, Positionals
      <4> QED BY <2>2, <4>1
    <3> QED BY <1>3, <3>1, <3>2
  <2>6. \A m, n \in DOMAIN positionals' : m < n => positionals'[m] < positionals'[n]
    <3> SUFFICES ASSUME NEW m \in DOMAIN positionals', NEW n \in DOMAIN positionals', m < n
                 PROVE  positionals'[m] < positionals'[n]
      OBVIOUS
    <3>1. m \in DOMAIN positionals
      BY <2>2
    <3>2. CASE n \in DOMAIN positionals
      BY <2>2, <3>1, <3>2 DEF ArgumentsInv, Positionals
    <3>3. CASE n = Len(positionals) + 1
      BY <2>1, <2>2, <3>1, <3>3
    <3> QED BY <2>3, <3>2, <3>3
  <2>7. \A k \in DOMAIN positionals' : IsPositional(positionals[k])'
    BY <2>4 DEF IsPositional, Arguments!Option, Arguments!ValueOf
  <2> QED BY <1>3, <1>4, <2>2, <2>4, <2>5, <2>6, <2>7 DEF Positionals
<1>9. Flags'
  <2>1. \A f, n : LastWith(f, n) => LastWith(f, n)'
    BY <1>1, <1>3, <1>4 DEF LastWith
  <2>2. ASSUME NEW f \in DOMAIN flags
        PROVE  \E n \in 1 .. index : LastWith(f, n)' /\ flags[f] = Arguments!ValueOf(n)'
    <3>1. PICK n \in 1 .. index - 1 : LastWith(f, n) /\ flags[f] = Arguments!ValueOf(n)
      BY DEF ArgumentsInv, Flags
    <3> QED BY <1>2, <1>4, <2>1, <3>1
  <2>3. \A n \in 1 .. index : Arguments!Option(n)' => Arguments!Name(n)' \in DOMAIN flags
    BY <1>1, <1>3, <1>4 DEF ArgumentsInv, Flags
  <2> QED BY <1>1, <1>3, <2>2, <2>3 DEF Flags
<1> QED BY <1>6, <1>8, <1>9 DEF ArgumentsInv

(* An option, and the word that is its value when there is one.            *)
LEMMA OptionKept ==
  ASSUME ArgumentsInv, args' = args, index <= Len(args), Arguments!Option(index),
         positionals' = positionals, Arguments!Set(Arguments!Name(index), Arguments!ValueOf(index)),
         \/ index' = index + 1 /\ Arguments!ValueOf(index) < index + 1
         \/ /\ index' = index + 2 /\ index + 1 <= Len(args)
            /\ ~Arguments!Option(index + 1) /\ Arguments!ValueOf(index) = index + 1
  PROVE  ArgumentsInv'
<1>1. /\ Len(args) \in Nat /\ DOMAIN args = 1 .. Len(args) /\ index \in Nat /\ index >= 1
      /\ \A n \in Int : Arguments!ValueOf(n) \in Int
  BY WordsTyped
<1>2. /\ index' \in Nat /\ index' > index /\ Arguments!ValueOf(index) < index'
      /\ index' \in 1 .. Len(args) + 1
      /\ \A n \in 1 .. index' - 1 :
           \/ n \in 1 .. index - 1 \/ n = index
           \/ n = index + 1 /\ ~Arguments!Option(n) /\ Arguments!ValueOf(index) = n
  <2>1. Arguments!ValueOf(index) \in Int /\ index <= Len(args)
    BY <1>1
  <2>2. CASE index' = index + 1 /\ Arguments!ValueOf(index) < index + 1
    <3>1. \A n \in 1 .. index : n \in 1 .. index - 1 \/ n = index
      BY <1>1
    <3>2. index' - 1 = index
      BY <1>1, <2>2
    <3> QED BY <1>1, <2>1, <2>2, <3>1, <3>2
  <2>3. CASE /\ index' = index + 2 /\ index + 1 <= Len(args)
             /\ ~Arguments!Option(index + 1) /\ Arguments!ValueOf(index) = index + 1
    <3>1. \A n \in 1 .. index + 1 : n \in 1 .. index - 1 \/ n = index \/ n = index + 1
      BY <1>1
    <3>2. index' - 1 = index + 1
      BY <1>1, <2>3
    <3> QED BY <1>1, <2>1, <2>3, <3>1, <3>2
  <2> QED BY <2>2, <2>3
<1>3. /\ \A n \in 1 .. index - 1 : n \in 1 .. index' - 1 /\ n \in Int /\ n < index
      /\ index \in 1 .. index' - 1
  <2>1. index \in Nat /\ index >= 1 /\ index' \in Nat /\ index' > index
    BY <1>1, <1>2
  <2>2. PICK i \in Nat, j \in Nat : i = index /\ j = index'
    BY <2>1
  <2>3. i >= 1 /\ j > i
    BY <2>1, <2>2
  <2>4. (\A n \in 1 .. i - 1 : n \in 1 .. j - 1 /\ n \in Int /\ n < i) /\ i \in 1 .. j - 1
    BY ONLY <2>3, i \in Nat, j \in Nat
  <2> QED BY <2>2, <2>4, Zenon
<1>4. PICK i \in 1 .. index' - 1 : i = index
  BY <1>3
<1>5. \A n : /\ Arguments!Option(n)' <=> Arguments!Option(n)
             /\ Arguments!ValueOf(n)' = Arguments!ValueOf(n)
             /\ Arguments!Name(n)' = Arguments!Name(n)
             /\ IsPositional(n)' <=> IsPositional(n)
  BY DEF Arguments!Option, Arguments!ValueOf, Arguments!Name, IsPositional
<1>6. ValueWords'
  <2> SUFFICES ASSUME NEW m \in 1 .. index' - 1, Arguments!Option(m)
               PROVE  Arguments!ValueOf(m) < index'
    BY <1>2, <1>5 DEF ValueWords
  <2>1. CASE m \in 1 .. index - 1
    <3>1. Arguments!ValueOf(m) < index /\ Arguments!ValueOf(m) \in Int
      BY <1>1, <1>3, <2>1 DEF ArgumentsInv, ValueWords
    <3> QED BY <1>1, <1>2, <3>1
  <2>2. CASE m = index
    BY <1>2, <2>2
  <2> QED BY <1>2, <2>1, <2>2
<1>7. Positionals'
  <2>1. \A n \in 1 .. index' - 1 : IsPositional(n) => n \in 1 .. index - 1
    <3>1. ~IsPositional(index)
      BY DEF IsPositional
    <3>2. Arguments!ValueOf(index) = index + 1 => ~IsPositional(index + 1)
      BY <1>1 DEF IsPositional
    <3> QED BY <1>2, <3>1, <3>2
  <2>2. \A k \in DOMAIN positionals : positionals[k] \in 1 .. index' - 1 /\ IsPositional(positionals[k])
    BY <1>3 DEF ArgumentsInv, Positionals
  <2>3. \A k \in DOMAIN positionals : IsPositional(positionals[k])'
    BY <2>2 DEF IsPositional, Arguments!Option, Arguments!ValueOf
  <2> QED BY <1>5, <2>1, <2>2, <2>3 DEF ArgumentsInv, Positionals
<1>8. Flags'
  <2>0. PICK name : name = Arguments!Name(i)
    OBVIOUS
  <2>1. flags' = [f \in DOMAIN flags \cup {name} |->
                    IF f = name THEN Arguments!ValueOf(i) ELSE flags[f]]
    BY <1>4, <2>0 DEF Arguments!Set
  <2>2. LastWith(name, i)'
    <3>1. \A m \in 1 .. index' - 1 : Arguments!Option(m) => m <= i
      <4>1. \A m \in 1 .. index' - 1 : Arguments!Option(m) => m \in 1 .. index - 1 \/ m = index
        BY <1>2
      <4> QED BY <1>1, <1>3, <1>4, <4>1
    <3>2. Arguments!Option(i) /\ Arguments!Name(i) = name
      BY <1>4, <2>0
    <3> QED BY <1>5, <3>1, <3>2 DEF LastWith
  <2>3. ASSUME NEW f \in DOMAIN flags, f # name
        PROVE  \E n \in 1 .. index' - 1 : LastWith(f, n)' /\ flags'[f] = Arguments!ValueOf(n)'
    <3>1. PICK n \in 1 .. index - 1 : LastWith(f, n) /\ flags[f] = Arguments!ValueOf(n)
      BY DEF ArgumentsInv, Flags
    <3>2. LastWith(f, n)'
      <4>1. \A m \in 1 .. index' - 1 : Arguments!Option(m) /\ Arguments!Name(m) = f => m \in 1 .. index - 1
        BY <1>2, <1>4, <2>0, <2>3
      <4> QED BY <1>5, <3>1, <4>1 DEF LastWith
    <3> QED BY <1>3, <1>5, <2>1, <2>3, <3>1, <3>2
  <2>4. \A f \in DOMAIN flags' :
          \E n \in 1 .. index' - 1 : LastWith(f, n)' /\ flags'[f] = Arguments!ValueOf(n)'
    <3>1. \A f \in DOMAIN flags' : f = name \/ f \in DOMAIN flags
      BY <2>1
    <3>2. flags'[name] = Arguments!ValueOf(i)
      BY <2>1
    <3> QED BY <1>5, <2>2, <2>3, <3>1, <3>2
  <2>5. \A n \in 1 .. index' - 1 : Arguments!Option(n) => Arguments!Name(n) \in DOMAIN flags'
    <3>1. \A n \in 1 .. index - 1 : Arguments!Option(n) => Arguments!Name(n) \in DOMAIN flags
      BY DEF ArgumentsInv, Flags
    <3> QED BY <1>2, <1>4, <2>0, <2>1, <3>1
  <2> QED BY <1>5, <2>4, <2>5 DEF Flags
<1> QED BY <1>6, <1>7, <1>8 DEF ArgumentsInv

LEMMA ArgumentsStep == ArgumentsInv /\ [Arguments!Next]_Arguments!vars => ArgumentsInv'
<1> SUFFICES ASSUME ArgumentsInv, [Arguments!Next]_Arguments!vars PROVE ArgumentsInv'
  OBVIOUS
<1>1. CASE UNCHANGED Arguments!vars
  <2>1. args' = args /\ index' = index /\ flags' = flags /\ positionals' = positionals
    BY <1>1 DEF Arguments!vars
  <2>2. \A n : /\ Arguments!Option(n)' <=> Arguments!Option(n)
               /\ Arguments!ValueOf(n)' = Arguments!ValueOf(n)
               /\ Arguments!Name(n)' = Arguments!Name(n)
               /\ IsPositional(n)' <=> IsPositional(n)
    BY <2>1 DEF Arguments!Option, Arguments!ValueOf, Arguments!Name, IsPositional
  <2>3. \A f, n : LastWith(f, n)' <=> LastWith(f, n)
    BY <2>1, <2>2 DEF LastWith
  <2>4. (\A k \in DOMAIN positionals : IsPositional(positionals[k]))
          => \A k \in DOMAIN positionals : IsPositional(positionals[k])'
    BY <2>1 DEF IsPositional, Arguments!Option, Arguments!ValueOf
  <2>5. ValueWords' /\ Flags'
    BY <2>1, <2>2, <2>3 DEF ArgumentsInv, ValueWords, Flags
  <2>6. Positionals'
    BY <2>1, <2>2, <2>4 DEF ArgumentsInv, Positionals
  <2> QED BY <2>1, <2>5, <2>6 DEF ArgumentsInv
<1>2. CASE Arguments!Next
  <2>1. /\ index <= Len(args) /\ args' = args
        /\ Arguments!Positional \/ Arguments!Inline \/ Arguments!Alone \/ Arguments!WithValue
    BY <1>2 DEF Arguments!Next
  <2>2. Len(args) \in Nat /\ index \in Nat
    BY WordsTyped
  <2>3. CASE Arguments!Positional
    BY <2>1, <2>3, PositionalKept
  <2>4. CASE Arguments!Inline
    <3>1. Arguments!Option(index) /\ Arguments!ValueOf(index) = index
      BY <2>4 DEF Arguments!Inline, Arguments!Option, Arguments!ValueOf
    <3> QED BY <2>1, <2>2, <2>4, <3>1, OptionKept DEF Arguments!Inline
  <2>5. CASE Arguments!Alone
    <3>1. Arguments!Option(index) /\ Arguments!ValueOf(index) = 0
      BY <2>5 DEF Arguments!Alone, Arguments!Option, Arguments!ValueOf, Arguments!HasValue
    <3> QED BY <2>1, <2>2, <2>5, <3>1, OptionKept DEF Arguments!Alone
  <2>6. CASE Arguments!WithValue
    <3>1. /\ Arguments!Option(index) /\ Arguments!ValueOf(index) = index + 1
          /\ ~Arguments!Option(index + 1) /\ index + 1 <= Len(args)
      BY <2>2, <2>6 DEF Arguments!WithValue, Arguments!Option, Arguments!ValueOf, Arguments!HasValue
    <3> QED BY <2>1, <2>2, <2>6, <3>1, OptionKept DEF Arguments!WithValue
  <2> QED BY <2>1, <2>3, <2>4, <2>5, <2>6
<1> QED BY <1>1, <1>2

LEMMA WordsUsed == ArgumentsInv => Arguments!WordsAreUsedOnce
<1> SUFFICES ASSUME ArgumentsInv, index > Len(args) PROVE Arguments!WordsAreUsedOnce
  BY DEF Arguments!WordsAreUsedOnce
<1>1. /\ Len(args) \in Nat /\ DOMAIN args = 1 .. Len(args) /\ index - 1 = Len(args)
  <2>1. index \in 1 .. Len(args) + 1
    BY DEF ArgumentsInv, ValueWords
  <2>2. Len(args) \in Nat /\ DOMAIN args = 1 .. Len(args) /\ index \in Nat
    BY WordsTyped
  <2> QED BY <2>1, <2>2
<1>2. Arguments!Range(positionals) = {n \in DOMAIN args : IsPositional(n)}
  BY <1>1 DEF ArgumentsInv, Positionals, Arguments!Range
<1>3. \A m, n \in DOMAIN positionals : m < n => positionals[m] < positionals[n]
  BY DEF ArgumentsInv, Positionals
<1>4. ASSUME NEW f \in DOMAIN flags
      PROVE  \E n \in DOMAIN args :
               /\ Arguments!Option(n) /\ Arguments!Name(n) = f /\ flags[f] = Arguments!ValueOf(n)
               /\ Arguments!Max({m \in DOMAIN args : Arguments!Option(m) /\ Arguments!Name(m) = f}) = n
  <2>1. PICK n \in DOMAIN args : LastWith(f, n) /\ flags[f] = Arguments!ValueOf(n)
    BY <1>1 DEF ArgumentsInv, Flags
  <2> DEFINE S == {m \in DOMAIN args : Arguments!Option(m) /\ Arguments!Name(m) = f}
  <2>2. S \subseteq Int /\ n \in S /\ \A m \in S : n >= m
    BY <1>1, <2>1 DEF LastWith
  <2>3. Arguments!Max(S) = n
    BY <2>2, Greatest
  <2> QED BY <2>1, <2>3 DEF LastWith
<1>5. DOMAIN flags = {Arguments!Name(n) : n \in {m \in DOMAIN args : Arguments!Option(m)}}
  <2>1. \A n \in DOMAIN args : Arguments!Option(n) => Arguments!Name(n) \in DOMAIN flags
    BY <1>1 DEF ArgumentsInv, Flags
  <2> QED BY <1>4, <2>1
<1>6. \A f \in DOMAIN flags : flags[f] =
        Arguments!ValueOf(Arguments!Max({n \in DOMAIN args : Arguments!Option(n) /\ Arguments!Name(n) = f}))
  BY <1>4
<1> QED BY <1>2, <1>3, <1>5, <1>6 DEF Arguments!WordsAreUsedOnce, IsPositional

(* What the operator wrote is what the command reads: for any lists of     *)
(* candidates, configurations, edits, indents and spellings of flags, any  *)
(* number of lines and of words (loader.ts:66-82, 222-235, cli/index.ts:   *)
(* 20-52).                                                                 *)
THEOREM OperatorUnderstood ==
  Configs!Spec /\ Yaml!Spec /\ Arguments!Spec => []OperatorIsUnderstood
<1>1. LookupInv => Configs!ConfigIsTheFirstThere
  <2>1. Configs!Range(lookup.names) = Range(lookup.names)
    BY DEF Configs!Range, Range
  <2> QED BY <2>1 DEF LookupInv, Configs!ConfigIsTheFirstThere
<1>2. Configs!Spec => []LookupInv
  BY LookupStarts, LookupSteps, PTL DEF Configs!Spec
<1>3. Yaml!Spec => []YamlInv
  BY YamlStarts, YamlSteps, PTL DEF Yaml!Spec
<1>4. YamlInv => Yaml!LinesAreWhereTheyBelong
  BY DEF YamlInv
<1>5. Arguments!Spec => []ArgumentsInv
  BY ArgumentsStart, ArgumentsStep, PTL DEF Arguments!Spec
<1>6. LookupInv /\ YamlInv /\ ArgumentsInv => OperatorIsUnderstood
  BY <1>1, <1>4, WordsUsed DEF OperatorIsUnderstood
<1> QED BY <1>2, <1>3, <1>5, <1>6, PTL

-----------------------------------------------------------------------------
(* The packages.  The state of an entity is computed by two recursions,    *)
(* over its events and over the facts of one; what is needed of them       *)
(* follows by looking at the shortest list for which it would fail.        *)
LEMMA Least ==
  ASSUME NEW T, T \subseteq Nat, T # {}
  PROVE  \E m \in T : \A k \in T : m <= k
<1> DEFINE R == OpToRel(<, Nat)
<1>1. IsWellFoundedOn(R, Nat)
  BY NatLessThanWellFounded
<1>2. \A x, y \in Nat : x < y => <<x, y>> \in R
  BY DEF OpToRel
<1>3. PICK m \in T : \A k \in T : ~(<<k, m>> \in R)
  <2> HIDE DEF R
  <2> QED BY <1>1, WFMin, Zenon
<1> HIDE DEF R
<1>4. ASSUME NEW k \in T PROVE m <= k
  <2>1. k \in Nat /\ m \in Nat /\ ~(k < m)
    BY <1>2, <1>3
  <2> QED BY <2>1
<1> QED BY <1>4

(* The first that is not, when there is one that is not. *)
LEMMA FirstOutside ==
  ASSUME NEW S, 0 \in S, NEW N \in Nat, \A n \in 1 .. N : n - 1 \in S => n \in S
  PROVE  \A n \in 0 .. N : n \in S
<1> DEFINE T == {n \in 0 .. N : n \notin S}
<1> SUFFICES ASSUME T # {} PROVE FALSE
  OBVIOUS
<1>1. PICK m \in T : \A k \in T : m <= k
  <2>1. T \subseteq Nat
    OBVIOUS
  <2> HIDE DEF T
  <2> QED BY <2>1, Least
<1>2. m \in 1 .. N /\ m \notin S
  OBVIOUS
<1>3. m - 1 \in 0 .. N /\ ~(m <= m - 1)
  BY <1>2
<1> QED BY <1>1, <1>2, <1>3

-----------------------------------------------------------------------------
(* One fact after the other. *)
Asserts(f, t) == f.type = t /\ Packages!Active(f)
WriteFact(state, f) ==
  IF Packages!Active(f)
    THEN [t \in DOMAIN state \cup {f.type} |-> IF t = f.type THEN f ELSE state[t]]
    ELSE state
Writes(state, facts, n, g) ==
  g = [k \in 0 .. n |-> IF k = 0 THEN state ELSE WriteFact(g[k - 1], facts[k])]

LEMMA WritesExist ==
  ASSUME NEW state, NEW facts, NEW N \in Nat
  PROVE  \E g : Writes(state, facts, N, g)
<1> DEFINE S == {n \in Nat : \E g : Writes(state, facts, n, g)}
<1>1. 0 \in S
  <2> DEFINE g == [k \in 0 .. 0 |-> state]
  <2>1. Writes(state, facts, 0, g)
    BY DEF Writes
  <2> QED BY <2>1
<1>2. ASSUME NEW n \in 1 .. N, n - 1 \in S PROVE n \in S
  <2>1. PICK h : Writes(state, facts, n - 1, h)
    BY <1>2
  <2> DEFINE g == [k \in 0 .. n |-> IF k = n THEN WriteFact(h[n - 1], facts[n]) ELSE h[k]]
  <2>2. \A k \in 0 .. n - 1 : g[k] = h[k]
    OBVIOUS
  <2>3. \A k \in 0 .. n - 1 : h[k] = IF k = 0 THEN state ELSE WriteFact(h[k - 1], facts[k])
    BY <2>1 DEF Writes
  <2>4. ASSUME NEW k \in 0 .. n
        PROVE  g[k] = IF k = 0 THEN state ELSE WriteFact(g[k - 1], facts[k])
    <3>1. CASE k = n
      <4>1. g[k] = WriteFact(h[n - 1], facts[n]) /\ g[n - 1] = h[n - 1]
        BY <2>2, <3>1
      <4> QED BY <3>1, <4>1
    <3>2. CASE k # n
      <4>1. k \in 0 .. n - 1 /\ (k # 0 => k - 1 \in 0 .. n - 1)
        BY <3>2
      <4> HIDE DEF g
      <4> QED BY <2>2, <2>3, <4>1
    <3> QED BY <3>1, <3>2
  <2>5. g = [k \in 0 .. n |-> g[k]]
    OBVIOUS
  <2>6. Writes(state, facts, n, g)
    <3> HIDE DEF g
    <3> QED BY <2>4, <2>5 DEF Writes
  <2> QED BY <2>6
<1>3. \A n \in 0 .. N : n \in S
  <2> HIDE DEF S
  <2> QED BY <1>1, <1>2, FirstOutside
<1> QED BY <1>3

(* What the facts of one event make of a state: of each type the last one  *)
(* that is valid, and what was there when none is.                         *)
Overwrites(new, state, facts, n) ==
  \A t : /\ t \in DOMAIN new <=> (t \in DOMAIN state \/ \E k \in 1 .. n : Asserts(facts[k], t))
         /\ t \in DOMAIN state /\ (\A k \in 1 .. n : ~Asserts(facts[k], t)) => new[t] = state[t]
         /\ \A k \in 1 .. n :
              Asserts(facts[k], t) /\ (\A i \in 1 .. n : Asserts(facts[i], t) => i <= k)
                => new[t] = facts[k]

LEMMA WritingOverwrites ==
  ASSUME NEW state, NEW facts, Len(facts) \in Nat
  PROVE  Overwrites(Packages!Written(state, facts), state, facts, Len(facts))
<1> DEFINE N == Len(facts)
<1>1. PICK g : Writes(state, facts, N, g) /\ Packages!Written(state, facts) = g[N]
  <2> DEFINE g == CHOOSE g : Writes(state, facts, N, g)
  <2>1. Writes(state, facts, N, g)
    BY WritesExist
  <2>2. Packages!Written(state, facts) = g[N]
    BY DEF Packages!Written, Writes, WriteFact
  <2> QED BY <2>1, <2>2
<1> HIDE DEF N
<1> DEFINE S == {n \in 0 .. N : Overwrites(g[n], state, facts, n)}
<1>2. N \in Nat
  BY DEF N
<1>3. \A n \in 0 .. N : g[n] = IF n = 0 THEN state ELSE WriteFact(g[n - 1], facts[n])
  BY <1>1 DEF Writes
<1>4. 0 \in S
  <2>1. g[0] = state /\ 1 .. 0 = {}
    BY <1>2, <1>3
  <2> QED BY <1>2, <2>1 DEF Overwrites
<1>5. ASSUME NEW n \in 1 .. N, n - 1 \in S PROVE n \in S
  <2>1. Overwrites(g[n - 1], state, facts, n - 1)
    BY <1>5
  <2>2. g[n] = WriteFact(g[n - 1], facts[n])
    BY <1>2, <1>3
  <2>3. /\ n \in 1 .. n /\ \A k \in 1 .. n - 1 : k \in 1 .. n /\ k < n
        /\ \A k \in 1 .. n : k = n \/ k \in 1 .. n - 1
    OBVIOUS
  <2>4. CASE Packages!Active(facts[n])
    <3>1. g[n] = [t \in DOMAIN g[n - 1] \cup {facts[n].type} |->
                    IF t = facts[n].type THEN facts[n] ELSE g[n - 1][t]]
      BY <2>2, <2>4 DEF WriteFact
    <3>2. \A t : Asserts(facts[n], t) <=> t = facts[n].type
      BY <2>4 DEF Asserts
    <3> SUFFICES ASSUME NEW t
                 PROVE  /\ t \in DOMAIN g[n] <=> (t \in DOMAIN state \/ \E k \in 1 .. n : Asserts(facts[k], t))
                        /\ t \in DOMAIN state /\ (\A k \in 1 .. n : ~Asserts(facts[k], t)) => g[n][t] = state[t]
                        /\ \A k \in 1 .. n :
                             Asserts(facts[k], t) /\ (\A i \in 1 .. n : Asserts(facts[i], t) => i <= k)
                               => g[n][t] = facts[k]
      BY DEF Overwrites
    <3>3. CASE t = facts[n].type
      BY <2>3, <3>1, <3>2, <3>3
    <3>4. CASE t # facts[n].type
      <4>1. (t \in DOMAIN g[n] <=> t \in DOMAIN g[n - 1]) /\ (t \in DOMAIN g[n - 1] => g[n][t] = g[n - 1][t])
        BY <3>1, <3>4
      <4>2. ~Asserts(facts[n], t)
        BY <3>2, <3>4
      <4>3. /\ t \in DOMAIN g[n - 1] <=> (t \in DOMAIN state \/ \E k \in 1 .. n - 1 : Asserts(facts[k], t))
            /\ t \in DOMAIN state /\ (\A k \in 1 .. n - 1 : ~Asserts(facts[k], t)) => g[n - 1][t] = state[t]
            /\ \A k \in 1 .. n - 1 :
                 Asserts(facts[k], t) /\ (\A i \in 1 .. n - 1 : Asserts(facts[i], t) => i <= k)
                   => g[n - 1][t] = facts[k]
        BY <2>1 DEF Overwrites
      <4> QED BY <2>3, <4>1, <4>2, <4>3
    <3> QED BY <3>3, <3>4
  <2>5. CASE ~Packages!Active(facts[n])
    <3>1. g[n] = g[n - 1] /\ \A t : ~Asserts(facts[n], t)
      BY <2>2, <2>5 DEF WriteFact, Asserts
    <3> QED BY <2>1, <2>3, <3>1 DEF Overwrites
  <2> QED BY <2>4, <2>5
<1>6. \A n \in 0 .. N : n \in S
  <2> HIDE DEF S
  <2> QED BY <1>2, <1>4, <1>5, FirstOutside
<1>7. N \in S
  BY <1>2, <1>6
<1> QED BY <1>1, <1>7 DEF N

-----------------------------------------------------------------------------
(* One event after the other. *)
EntityWrites(entity, n, g) ==
  g = [k \in 0 .. n |->
         IF k = 0 THEN <<>>
         ELSE IF Entity[events[k].source] = entity
                THEN Packages!Written(g[k - 1], events[k].facts)
                ELSE g[k - 1]]

LEMMA EntityWritesExist ==
  ASSUME NEW entity, NEW N \in Nat
  PROVE  \E g : EntityWrites(entity, N, g)
<1> DEFINE Step(state, k) ==
             IF Entity[events[k].source] = entity
               THEN Packages!Written(state, events[k].facts) ELSE state
           S == {n \in Nat : \E g : EntityWrites(entity, n, g)}
<1>1. 0 \in S
  <2> DEFINE g == [k \in 0 .. 0 |-> <<>>]
  <2>1. EntityWrites(entity, 0, g)
    BY DEF EntityWrites
  <2> QED BY <2>1
<1>2. ASSUME NEW n \in 1 .. N, n - 1 \in S PROVE n \in S
  <2>1. PICK h : EntityWrites(entity, n - 1, h)
    BY <1>2
  <2> DEFINE g == [k \in 0 .. n |-> IF k = n THEN Step(h[n - 1], n) ELSE h[k]]
  <2>2. \A k \in 0 .. n - 1 : g[k] = h[k]
    OBVIOUS
  <2>3. \A k \in 0 .. n - 1 : h[k] = IF k = 0 THEN <<>> ELSE Step(h[k - 1], k)
    BY <2>1 DEF EntityWrites
  <2>a. g[n] = Step(h[n - 1], n)
    OBVIOUS
  <2>5. g = [k \in 0 .. n |-> g[k]]
    OBVIOUS
  <2>4. ASSUME NEW k \in 0 .. n
        PROVE  g[k] = IF k = 0 THEN <<>> ELSE Step(g[k - 1], k)
    <3> HIDE DEF g, Step
    <3>1. CASE k = n
      <4>1. g[n - 1] = h[n - 1]
        BY <2>2
      <4> QED BY <2>a, <3>1, <4>1
    <3>2. CASE k # n
      <4>1. k \in 0 .. n - 1 /\ (k # 0 => k - 1 \in 0 .. n - 1)
        BY <3>2
      <4> QED BY <2>2, <2>3, <4>1
    <3> QED BY <3>1, <3>2
  <2>6. EntityWrites(entity, n, g)
    <3> HIDE DEF g
    <3> QED BY <2>4, <2>5 DEF EntityWrites
  <2> QED BY <2>6
<1>3. \A n \in 0 .. N : n \in S
  <2> HIDE DEF S
  <2> QED BY <1>1, <1>2, FirstOutside
<1> QED BY <1>3

(* What the first n events make of an entity: of each type the fact of the *)
(* last one among those that are valid.                                    *)
Tells(entity, t, i, k) ==
  /\ Entity[events[i].source] = entity
  /\ k \in DOMAIN events[i].facts /\ Asserts(events[i].facts[k], t)
Latest(entity, t, n, i, k) ==
  \A j \in 1 .. n : \A l : Tells(entity, t, j, l) => j < i \/ (j = i /\ l <= k)
TellsLatest(new, entity, n) ==
  \A t : /\ t \in DOMAIN new <=> \E i \in 1 .. n : \E k : Tells(entity, t, i, k)
         /\ \A i \in 1 .. n : \A k :
              Tells(entity, t, i, k) /\ Latest(entity, t, n, i, k)
                => new[t] = events[i].facts[k]

LEMMA StateTellsLatest ==
  ASSUME Len(events) \in Nat,
         \A n \in 1 .. Len(events) : /\ Len(events[n].facts) \in Nat
                                     /\ DOMAIN events[n].facts = 1 .. Len(events[n].facts),
         NEW entity
  PROVE  TellsLatest(Packages!StateOf(entity), entity, Len(events))
<1>0. PICK N \in Nat : N = Len(events)
  OBVIOUS
<1>1. PICK g : EntityWrites(entity, N, g) /\ Packages!StateOf(entity) = g[N]
  <2> DEFINE g == CHOOSE g : EntityWrites(entity, N, g)
  <2>1. EntityWrites(entity, N, g)
    BY EntityWritesExist
  <2>2. Packages!StateOf(entity) = g[N]
    BY <1>0 DEF Packages!StateOf, EntityWrites
  <2> QED BY <2>1, <2>2
<1> DEFINE S == {n \in 0 .. N : TellsLatest(g[n], entity, n)}
<1>3. \A n \in 0 .. N : g[n] = IF n = 0 THEN <<>>
                               ELSE IF Entity[events[n].source] = entity
                                      THEN Packages!Written(g[n - 1], events[n].facts)
                                      ELSE g[n - 1]
  BY <1>1 DEF EntityWrites
<1>4. 0 \in S
  <2>1. DOMAIN g[0] = {} /\ 1 .. 0 = {}
    BY <1>3
  <2> QED BY <2>1 DEF TellsLatest
<1>5. ASSUME NEW n \in 1 .. N, n - 1 \in S PROVE n \in S
  <2>1. TellsLatest(g[n - 1], entity, n - 1)
    BY <1>5
  <2>3. /\ n \in 1 .. n /\ \A i \in 1 .. n - 1 : i \in 1 .. n /\ i < n /\ ~(n < i) /\ n # i
        /\ \A i \in 1 .. n : i = n \/ i \in 1 .. n - 1
    OBVIOUS
  <2>4. CASE Entity[events[n].source] = entity
    <3> DEFINE facts == events[n].facts
    <3>1. /\ Len(facts) \in Nat /\ DOMAIN facts = 1 .. Len(facts)
          /\ g[n] = Packages!Written(g[n - 1], facts)
      BY <1>0, <1>3, <2>4
    <3>2. Overwrites(g[n], g[n - 1], facts, Len(facts))
      BY <3>1, WritingOverwrites
    <3>3. \A t, k : Tells(entity, t, n, k) <=> k \in 1 .. Len(facts) /\ Asserts(facts[k], t)
      BY <2>4, <3>1 DEF Tells
    <3> HIDE DEF facts
    <3>4. ASSUME NEW t
          PROVE  t \in DOMAIN g[n] <=> \E i \in 1 .. n : \E k : Tells(entity, t, i, k)
      <4>1. t \in DOMAIN g[n] <=> (t \in DOMAIN g[n - 1] \/ \E k \in 1 .. Len(facts) : Asserts(facts[k], t))
        BY <3>2 DEF Overwrites
      <4>2. t \in DOMAIN g[n - 1] <=> \E i \in 1 .. n - 1 : \E k : Tells(entity, t, i, k)
        BY <2>1 DEF TellsLatest
      <4> QED BY <2>3, <3>3, <4>1, <4>2
    <3>5. ASSUME NEW t, NEW i \in 1 .. n, NEW k,
                 Tells(entity, t, i, k), Latest(entity, t, n, i, k)
          PROVE  g[n][t] = events[i].facts[k]
      <4>1. CASE i = n
        <5>1. k \in 1 .. Len(facts) /\ Asserts(facts[k], t)
          BY <3>3, <3>5, <4>1
        <5>2. \A l \in 1 .. Len(facts) : Asserts(facts[l], t) => l <= k
          BY <2>3, <3>3, <3>5, <4>1 DEF Latest
        <5> QED BY <3>2, <4>1, <5>1, <5>2 DEF Overwrites, facts
      <4>2. CASE i \in 1 .. n - 1
        <5>1. \A l \in 1 .. Len(facts) : ~Asserts(facts[l], t)
          BY <2>3, <3>3, <3>5, <4>2 DEF Latest
        <5>2. Latest(entity, t, n - 1, i, k)
          BY <2>3, <3>5 DEF Latest
        <5>3. t \in DOMAIN g[n - 1] /\ g[n - 1][t] = events[i].facts[k]
          BY <2>1, <3>5, <4>2, <5>2 DEF TellsLatest
        <5> QED BY <3>2, <5>1, <5>3 DEF Overwrites
      <4> QED BY <2>3, <4>1, <4>2
    <3>6. TellsLatest(g[n], entity, n)
      BY <3>4, <3>5, ZenonT(30) DEF TellsLatest
    <3> QED BY <3>6
  <2>5. CASE Entity[events[n].source] # entity
    <3>1. g[n] = g[n - 1] /\ \A t, k : ~Tells(entity, t, n, k)
      BY <1>3, <2>5 DEF Tells
    <3>2. \A t, i, k : Latest(entity, t, n, i, k) => Latest(entity, t, n - 1, i, k)
      BY <2>3 DEF Latest
    <3>3. TellsLatest(g[n], entity, n)
      BY <2>1, <2>3, <3>1, <3>2 DEF TellsLatest
    <3> QED BY <3>3
  <2> QED BY <2>4, <2>5
<1>6. \A n \in 0 .. N : n \in S
  <2> HIDE DEF S
  <2> QED BY <1>4, <1>5, FirstOutside
<1>7. N \in S
  BY <1>6
<1> QED BY <1>0, <1>1, <1>7

-----------------------------------------------------------------------------
(* The list: each event is of the proposal that was answered then, and has *)
(* its facts.                                                              *)
Recorded == {[source |-> p, facts |-> Facts[p], at |-> time] : p \in Proposal, time \in Nat}
AnswersInOrder ==
  /\ Len(events) = Len(answered)
  /\ \A n \in 1 .. Len(answered) : events[n].source = answered[n]
  /\ \A n \in 1 .. Len(answered) : proposal[answered[n]].pc = "allowed"
  /\ \A p \in Proposal : proposal[p].pc = "allowed" => \E n \in 1 .. Len(answered) : answered[n] = p
  /\ \A m, n \in 1 .. Len(answered) : answered[m] = answered[n] => m = n
FactTypes ==
  /\ clock \in Nat
  /\ events \in Seq(Recorded) /\ answered \in Seq(Proposal)
  /\ DOMAIN proposal = Proposal
  /\ \A p \in Proposal :
       /\ proposal[p].pc \in {"new", "evaluating", "allowed", "denied", "threw", "refused"}
       /\ proposal[p] = [pc |-> proposal[p].pc, context |-> proposal[p].context]
FactInv == FactTypes /\ AnswersInOrder

LEMMA FactsStart == Packages!Init => FactInv
<1> SUFFICES ASSUME Packages!Init PROVE FactInv
  OBVIOUS
<1>1. /\ clock = 1 /\ events = <<>> /\ answered = <<>>
      /\ proposal = [p \in Proposal |-> [pc |-> "new", context |-> <<>>]]
  BY DEF Packages!Init
<1>2. FactTypes
  BY <1>1 DEF FactTypes
<1>3. AnswersInOrder
  BY <1>1 DEF AnswersInOrder
<1> QED BY <1>2, <1>3 DEF FactInv

(* A step of one proposal that allows nothing. *)
LEMMA NothingRecorded ==
  ASSUME FactInv, NEW p \in Proposal, proposal[p].pc # "allowed",
         NEW q \in [pc : {"evaluating", "denied", "threw", "refused"}, context : {proposal'[p].context}],
         proposal' = [proposal EXCEPT ![p] = q], UNCHANGED <<clock, events, answered>>
  PROVE  FactInv'
<1>1. /\ DOMAIN proposal' = Proposal /\ proposal'[p] = q
      /\ \A o \in Proposal : o # p => proposal'[o] = proposal[o]
  BY DEF FactInv, FactTypes
<1>2. q.pc \in {"evaluating", "denied", "threw", "refused"} /\ q = [pc |-> q.pc, context |-> q.context]
  OBVIOUS
<1>3. FactTypes'
  BY <1>1, <1>2 DEF FactInv, FactTypes
<1>4. \A o \in Proposal : (proposal'[o].pc = "allowed") <=> (proposal[o].pc = "allowed")
  BY <1>1, <1>2
<1>5. \A n \in 1 .. Len(answered) : answered[n] \in Proposal
  BY DEF FactInv, FactTypes
<1>6. AnswersInOrder'
  BY <1>4, <1>5 DEF FactInv, AnswersInOrder
<1> QED BY <1>3, <1>6 DEF FactInv

LEMMA AllowKeepsFacts ==
  ASSUME FactInv, NEW p \in Proposal, Packages!Allow(p)
  PROVE  FactInv'
<1>1. /\ proposal[p].pc = "evaluating" /\ proposal' = [proposal EXCEPT ![p].pc = "allowed"]
      /\ events' = Append(events, [source |-> p, facts |-> Facts[p], at |-> clock])
      /\ answered' = Append(answered, p) /\ clock' = clock
  BY DEF Packages!Allow, Packages!Moves
<1>2. /\ DOMAIN proposal' = Proposal
      /\ proposal'[p] = [pc |-> "allowed", context |-> proposal[p].context]
      /\ \A o \in Proposal : o # p => proposal'[o] = proposal[o]
  BY <1>1 DEF FactInv, FactTypes
<1>3. PICK N \in Nat : N = Len(answered) /\ N = Len(events)
  BY DEF FactInv, FactTypes, AnswersInOrder
<1>4. /\ events' \in Seq(Recorded) /\ Len(events') = N + 1
      /\ events'[N + 1].source = p /\ \A n \in 1 .. N : events'[n] = events[n]
  <2> DEFINE event == [source |-> p, facts |-> Facts[p], at |-> clock]
  <2>1. event \in Recorded /\ event.source = p
    BY DEF Recorded, FactInv, FactTypes
  <2>2. events \in Seq(Recorded)
    BY DEF FactInv, FactTypes
  <2>3. events' = Append(events, event)
    BY <1>1
  <2> HIDE DEF event
  <2> QED BY <1>3, <2>1, <2>2, <2>3, AppendProperties
<1>5. /\ answered' \in Seq(Proposal) /\ Len(answered') = N + 1
      /\ answered'[N + 1] = p /\ \A n \in 1 .. N : answered'[n] = answered[n]
  <2>1. answered \in Seq(Proposal) /\ Len(answered) = N
    BY <1>3 DEF FactInv, FactTypes
  <2>2. answered' = Append(answered, p)
    BY <1>1
  <2>3. answered' \in Seq(Proposal) /\ Len(answered') = N + 1
    BY <2>1, <2>2, AppendProperties
  <2>4. answered'[N + 1] = p
    BY <2>1, <2>2, AppendProperties
  <2>5. \A n \in 1 .. N : answered'[n] = answered[n]
    BY <2>1, <2>2, AppendProperties
  <2> QED BY <2>3, <2>4, <2>5
<1>6. \A n \in 1 .. N + 1 : n = N + 1 \/ n \in 1 .. N
  BY <1>3
<1>7. FactTypes'
  BY <1>1, <1>2, <1>4, <1>5 DEF FactInv, FactTypes
<1>8. \A n \in 1 .. N : /\ answered[n] # p /\ answered[n] \in Proposal /\ events[n].source = answered[n]
                        /\ proposal[answered[n]].pc = "allowed"
  BY <1>1, <1>3 DEF FactInv, FactTypes, AnswersInOrder
<1>9. AnswersInOrder'
  <2>1. \A n \in 1 .. N + 1 : events'[n].source = answered'[n] /\ proposal'[answered'[n]].pc = "allowed"
    BY <1>2, <1>4, <1>5, <1>6, <1>8
  <2>2. ASSUME NEW o \in Proposal, proposal'[o].pc = "allowed"
        PROVE  \E n \in 1 .. N + 1 : answered'[n] = o
    <3>1. CASE o = p
      BY <1>3, <1>5, <3>1
    <3>2. CASE o # p
      <4>1. PICK n \in 1 .. N : answered[n] = o
        BY <1>2, <1>3, <2>2, <3>2 DEF FactInv, AnswersInOrder
      <4> QED BY <1>3, <1>5, <4>1
    <3> QED BY <3>1, <3>2
  <2>3. \A m, n \in 1 .. N + 1 : answered'[m] = answered'[n] => m = n
    BY <1>3, <1>5, <1>6, <1>8 DEF FactInv, AnswersInOrder
  <2> QED BY <1>4, <1>5, <2>1, <2>2, <2>3 DEF AnswersInOrder
<1> QED BY <1>7, <1>9 DEF FactInv

LEMMA FactSteps == FactInv /\ [Packages!Next]_Packages!vars => FactInv'
<1> SUFFICES ASSUME FactInv, [Packages!Next]_Packages!vars PROVE FactInv'
  OBVIOUS
<1>1. CASE UNCHANGED Packages!vars
  BY <1>1 DEF Packages!vars, FactInv, FactTypes, AnswersInOrder
<1>2. CASE Packages!Tick
  BY <1>2 DEF Packages!Tick, FactInv, FactTypes, AnswersInOrder
<1>3. ASSUME NEW p \in Proposal, Packages!Submit(p) PROVE FactInv'
  <2>1. proposal[p].pc = "new" /\ UNCHANGED <<clock, events, answered>>
    BY <1>3 DEF Packages!Submit
  <2>2. CASE p \in GovernedFacts
    <3> DEFINE q == [pc |-> "refused", context |-> proposal[p].context]
    <3>1. proposal' = [proposal EXCEPT ![p] = q]
      BY <1>3, <2>2 DEF Packages!Submit, Packages!Moves, FactInv, FactTypes
    <3>2. proposal'[p] = q
      BY <3>1 DEF FactInv, FactTypes
    <3> QED BY <2>1, <3>1, <3>2, NothingRecorded
  <2>3. CASE p \notin GovernedFacts
    <3> DEFINE q == [pc |-> "evaluating", context |-> Packages!EventsOf(Entity[p])]
    <3>1. proposal' = [proposal EXCEPT ![p] = q]
      BY <1>3, <2>3 DEF Packages!Submit
    <3>2. proposal'[p] = q
      BY <3>1 DEF FactInv, FactTypes
    <3> QED BY <2>1, <3>1, <3>2, NothingRecorded
  <2> QED BY <2>2, <2>3
<1>4. ASSUME NEW p \in Proposal, Packages!Deny(p) PROVE FactInv'
  <2>1. PICK end \in {"denied", "threw"} : Packages!Moves(p, end)
    BY <1>4 DEF Packages!Deny
  <2> DEFINE q == [pc |-> end, context |-> proposal[p].context]
  <2>2. proposal[p].pc = "evaluating" /\ UNCHANGED <<clock, events, answered>>
    BY <1>4 DEF Packages!Deny
  <2>a. proposal[p] = [pc |-> proposal[p].pc, context |-> proposal[p].context]
    BY DEF FactInv, FactTypes
  <2>b. [proposal[p] EXCEPT !.pc = end] = q
    BY <2>a
  <2>3. proposal' = [proposal EXCEPT ![p] = q]
    <3>1. proposal' = [proposal EXCEPT ![p] = [proposal[p] EXCEPT !.pc = end]]
      BY <2>1 DEF Packages!Moves
    <3> HIDE DEF q
    <3> QED BY <2>b, <3>1
  <2>4. proposal'[p] = q
    BY <2>3 DEF FactInv, FactTypes
  <2> QED BY <2>2, <2>3, <2>4, NothingRecorded
<1> QED BY <1>1, <1>2, <1>3, <1>4, AllowKeepsFacts DEF Packages!Next

LEMMA ListIsRight == FactInv => Packages!ListIsWhatWasAllowed
<1> SUFFICES ASSUME FactInv PROVE Packages!ListIsWhatWasAllowed
  OBVIOUS
<1>1. /\ answered \in Seq(Proposal) /\ DOMAIN answered = 1 .. Len(answered)
      /\ DOMAIN events = 1 .. Len(answered)
      /\ \A n \in DOMAIN answered : answered[n] \in Proposal
  BY DEF FactInv, FactTypes, AnswersInOrder
<1>2. [n \in DOMAIN events |-> events[n].source] = answered
  <2>1. answered = [n \in 1 .. Len(answered) |-> answered[n]]
    BY <1>1
  <2>2. \A n \in 1 .. Len(answered) : events[n].source = answered[n]
    BY DEF FactInv, AnswersInOrder
  <2> QED BY <1>1, <2>1, <2>2
<1>3. Packages!Range(answered) = {p \in Proposal : proposal[p].pc = "allowed"}
  BY <1>1 DEF Packages!Range, FactInv, AnswersInOrder
<1>4. \A m, n \in DOMAIN answered : answered[m] = answered[n] => m = n
  BY <1>1 DEF FactInv, AnswersInOrder
<1> QED BY <1>2, <1>3, <1>4 DEF Packages!ListIsWhatWasAllowed

LEMMA StateIsRight == FactInv => Packages!StateIsTheLatestValidFact
<1> SUFFICES ASSUME FactInv, NEW entity, NEW t
             PROVE  /\ t \in DOMAIN Packages!StateOf(entity) <=> Packages!Positions(entity, t) # {}
                    /\ \A pos \in Packages!Positions(entity, t) :
                         Packages!IsLatest(pos, Packages!Positions(entity, t))
                           => Packages!StateOf(entity)[t] = events[pos[1]].facts[pos[2]]
  BY DEF Packages!StateIsTheLatestValidFact
<1>1. /\ Len(events) \in Nat /\ DOMAIN events = 1 .. Len(events)
      /\ \A n \in 1 .. Len(events) : events[n] \in Recorded
  BY DEF FactInv, FactTypes
<1>2. \A n \in 1 .. Len(events) : /\ Len(events[n].facts) \in Nat
                                  /\ DOMAIN events[n].facts = 1 .. Len(events[n].facts)
  <2>1. \A event \in Recorded : \E p \in Proposal : event.facts = Facts[p]
    BY DEF Recorded
  <2>2. \A p \in Proposal : Len(Facts[p]) \in Nat /\ DOMAIN Facts[p] = 1 .. Len(Facts[p])
    BY FactsAreLists
  <2> QED BY <1>1, <2>1, <2>2
<1>3. TellsLatest(Packages!StateOf(entity), entity, Len(events))
  BY <1>1, <1>2, StateTellsLatest
<1> DEFINE positions == Packages!Positions(entity, t)
<1>4. \A i, k : <<i, k>> \in positions <=> i \in 1 .. Len(events) /\ Tells(entity, t, i, k)
  BY <1>1 DEF Packages!Positions, Tells, Asserts
<1>5. \A pos \in positions : /\ pos = <<pos[1], pos[2]>> /\ pos[1] \in 1 .. Len(events)
                             /\ Tells(entity, t, pos[1], pos[2])
  BY <1>1 DEF Packages!Positions, Tells, Asserts
<1> HIDE DEF positions
<1>6. t \in DOMAIN Packages!StateOf(entity) <=> positions # {}
  BY <1>3, <1>4, <1>5 DEF TellsLatest
<1>7. ASSUME NEW pos \in positions, Packages!IsLatest(pos, positions)
      PROVE  Packages!StateOf(entity)[t] = events[pos[1]].facts[pos[2]]
  <2>1. ASSUME NEW j \in 1 .. Len(events), NEW l, Tells(entity, t, j, l)
        PROVE  j < pos[1] \/ (j = pos[1] /\ l <= pos[2])
    <3>1. <<j, l>> \in positions
      BY <1>4, <2>1
    <3>2. <<j, l>>[1] < pos[1] \/ (<<j, l>>[1] = pos[1] /\ <<j, l>>[2] <= pos[2])
      BY <1>7, <3>1 DEF Packages!IsLatest
    <3> QED BY <3>2
  <2>2. Latest(entity, t, Len(events), pos[1], pos[2])
    BY <2>1 DEF Latest
  <2> QED BY <1>3, <1>5, <2>2 DEF TellsLatest
<1> QED BY <1>6, <1>7 DEF positions

(* The store of the packages holds what was allowed, each proposal once and*)
(* in the order of the answers, and the state of an entity is the latest   *)
(* fact of each type that is valid now: for any proposals, any number of   *)
(* facts of any types and validity, and any entities (submitProposal.ts:   *)
(* 7-35, collectActiveFacts.ts:3-12, resolveConflicts.ts:3-10).            *)
THEOREM FactsKept == Packages!Spec => []FactsAreKept
<1>1. Packages!Spec => []FactInv
  BY FactsStart, FactSteps, PTL DEF Packages!Spec
<1>2. FactInv => FactsAreKept
  BY ListIsRight, StateIsRight DEF FactsAreKept
<1> QED BY <1>1, <1>2, PTL
=============================================================================
