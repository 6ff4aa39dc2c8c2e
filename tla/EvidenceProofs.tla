--------------------------- MODULE EvidenceProofs ---------------------------
(***************************************************************************)
(* Theorems about evidence outside a database: the command line's store,   *)
(* for any number of appends to any number of files, the one in memory, for*)
(* any transactions and queries, and at the end the chains of hashes, for  *)
(* any events, links and damage.                                           *)
(***************************************************************************)
EXTENDS FileEventStore, InMemoryStore, GenuineChains, SequenceTheorems, FiniteSetTheorems,
        WellFoundedInduction, TLAPS

EventRecord == [event: Writer \cup {NoEvent}, seq: Nat, prev: Writer \cup {NoEvent}]

FileTypes ==
  /\ file \in [Filed -> Seq(EventRecord)]
  /\ found \in [Writer -> Seq(EventRecord)]
  /\ append \in [Writer -> {"idle", "reading", "read", "writing", "ok", "failed", "crashed"}]

(* Numbered from one, each event linked to the one before it. *)
IsChain(all) ==
  \A j \in 1..Len(all) :
    /\ all[j].seq = j
    /\ all[j].prev = IF j = 1 THEN NoEvent ELSE all[j - 1].event
Chains == /\ \A i \in Filed : file[i] # Torn => IsChain(file[i])
          /\ \A w \in Writer : IsChain(found[w])

(* An append that has met no other one is alone at its file, which is empty*)
(* while it writes.                                                        *)
Alone == \A w \in Busy : w \notin raced => \A x \in Busy : IntentOf[x] = IntentOf[w] => x = w
Emptied == \A w \in Writer : append[w] = "writing" /\ w \notin raced => Target(w) = Torn

(* Its event is in the file from then on, and in what others read of it.   *)
Has(all, w) == \E j \in 1..Len(all) : all[j].event = w
Kept ==
  \A w \in Writer : append[w] = "ok" /\ w \notin raced =>
    /\ Target(w) = Torn \/ Has(Target(w), w)
    /\ \A x \in Writer : IntentOf[x] = IntentOf[w] /\ append[x] \in {"read", "writing"} =>
         Has(found[x], w)

Blamed ==
  \A w \in Writer : Target(w) = Torn =>
    \E x \in Writer : /\ IntentOf[x] = IntentOf[w]
                      /\ x \in raced \/ append[x] \in {"writing", "crashed"}

FileInv == FileTypes /\ Chains /\ Alone /\ Emptied /\ Kept /\ Blamed

-----------------------------------------------------------------------------
LEMMA TornIsNoChain == Torn \in Seq(EventRecord) /\ ~IsChain(Torn) /\ Torn # Absent
BY DEF Torn, Absent, EventRecord, IsChain

(* What an append writes is a chain of all it has read and its own event. *)
LEMMA WholeIsChain ==
  ASSUME FileTypes, Chains, NEW w \in Writer
  PROVE  LET whole == Append(found[w], Finalized(w))
         IN  /\ whole \in Seq(EventRecord) /\ whole # Torn
             /\ IsChain(whole) /\ Has(whole, w)
             /\ \A x \in Writer : Has(found[w], x) => Has(whole, x)
<1> DEFINE s == found[w]
           e == Finalized(w)
           whole == Append(s, e)
<1>1. s \in Seq(EventRecord) /\ IsChain(s) /\ Len(s) \in Nat
  BY DEF FileTypes, Chains
<1>2. /\ e \in EventRecord /\ e.event = w /\ e.seq = Len(s) + 1
      /\ e.prev = IF Len(s) = 0 THEN NoEvent ELSE s[Len(s)].event
  <2>1. CASE s = <<>>
    BY <2>1 DEF Finalized, LastEvent, EventRecord
  <2>2. CASE s # <<>>
    <3>1. Len(s) \in 1..Len(s) /\ s[Len(s)] \in EventRecord
      BY <1>1, <2>2
    <3>2. s[Len(s)].seq = Len(s)
      BY <1>1, <3>1 DEF IsChain
    <3>3. e = [event |-> w, seq |-> Len(s) + 1, prev |-> s[Len(s)].event]
      BY <2>2, <3>2 DEF Finalized, LastEvent
    <3>4. s[Len(s)].event \in Writer \cup {NoEvent}
      BY <3>1 DEF EventRecord
    <3> QED BY <1>1, <3>1, <3>3, <3>4 DEF EventRecord
  <2> QED BY <2>1, <2>2
<1> HIDE DEF e, s
<1>3. /\ whole \in Seq(EventRecord) /\ Len(whole) = Len(s) + 1
      /\ whole[Len(s) + 1] = e /\ \A j \in 1..Len(s) : whole[j] = s[j]
  BY <1>1, <1>2
<1> HIDE DEF whole
<1>4. IsChain(whole)
  <2> SUFFICES ASSUME NEW j \in 1..Len(whole)
               PROVE  /\ whole[j].seq = j
                      /\ whole[j].prev = IF j = 1 THEN NoEvent ELSE whole[j - 1].event
    BY DEF IsChain
  <2>1. CASE j \in 1..Len(s)
    <3>1. s[j].seq = j /\ s[j].prev = IF j = 1 THEN NoEvent ELSE s[j - 1].event
      BY <1>1, <2>1 DEF IsChain
    <3>2. whole[j] = s[j] /\ (j # 1 => whole[j - 1] = s[j - 1])
      BY <1>1, <1>3, <2>1
    <3> QED BY <3>1, <3>2
  <2>2. CASE j = Len(s) + 1
    <3>1. whole[j] = e /\ j - 1 = Len(s) /\ j \in Nat /\ (j = 1 <=> Len(s) = 0)
      BY <1>1, <1>3, <2>2
    <3>2. Len(s) # 0 => whole[Len(s)] = s[Len(s)]
      BY <1>1, <1>3
    <3> QED BY <1>2, <2>2, <3>1, <3>2
  <2> QED BY <1>1, <1>3, <2>1, <2>2
<1>5. Has(whole, w) /\ \A x \in Writer : Has(s, x) => Has(whole, x)
  BY <1>1, <1>2, <1>3 DEF Has
<1>6. whole # Torn
  BY <1>4, TornIsNoChain
<1> QED BY <1>3, <1>4, <1>5, <1>6 DEF whole, s, e

LEMMA FileInitInv == ASSUME FilesInit PROVE FileInv
<1>1. FileTypes
  BY DEF FilesInit, FileTypes, Absent
<1>2. Absent # Torn /\ IsChain(Absent)
  BY TornIsNoChain DEF Absent, IsChain
<1>3. \A w \in Writer : IntentOf[w] \in Filed /\ Target(w) = Absent
  BY DEF FilesInit, Target, Filed
<1> QED BY <1>1, <1>2, <1>3 DEF FilesInit, FileInv, Chains, Alone, Busy, Emptied, Kept, Blamed

LEMMA CalledKeeps == ASSUME FileInv, NEW w \in Writer, Called(w) PROVE FileInv'
<1>1. /\ append[w] = "idle" /\ append' = [append EXCEPT ![w] = "reading"] /\ UNCHANGED <<file, found>>
      /\ raced' = raced \cup Rivals(w) \cup (IF Rivals(w) = {} THEN {} ELSE {w})
  BY DEF Called
<1>2. append'[w] = "reading" /\ \A x \in Writer : x # w => append'[x] = append[x]
  BY <1>1 DEF FileInv, FileTypes
<1>3. raced \subseteq raced' /\ \A x \in Writer : Target(x)' = Target(x)
  BY <1>1 DEF Target
<1>4. FileTypes'
  BY <1>1 DEF FileInv, FileTypes
<1>5. Chains'
  BY <1>1 DEF FileInv, Chains
<1>6. Alone'
  <2> SUFFICES ASSUME NEW x \in Busy', x \notin raced', NEW y \in Busy', IntentOf[y] = IntentOf[x]
               PROVE  y = x
    BY DEF Alone
  <2>1. x \in Busy \cup {w} /\ y \in Busy \cup {w} /\ w \notin Busy
    BY <1>1, <1>2 DEF Busy
  <2>2. CASE x = w /\ y # w
    BY <1>1, <2>1, <2>2 DEF Rivals
  <2>3. CASE x # w /\ y = w
    BY <1>1, <2>1, <2>3 DEF Rivals
  <2>4. CASE x # w /\ y # w
    BY <1>3, <2>1, <2>4 DEF FileInv, Alone
  <2> QED BY <2>2, <2>3, <2>4
<1>7. Emptied' /\ Kept'
  BY <1>1, <1>2, <1>3 DEF FileInv, Emptied, Kept
<1>8. Blamed'
  BY <1>1, <1>2, <1>3 DEF FileInv, Blamed
<1> QED BY <1>4, <1>5, <1>6, <1>7, <1>8 DEF FileInv

LEMMA ReadFileKeeps == ASSUME FileInv, NEW w \in Writer, ReadFile(w) PROVE FileInv'
<1>1. /\ append[w] = "reading" /\ UNCHANGED <<file, raced>>
      /\ found' = [found EXCEPT ![w] = IF Target(w) = Torn THEN Absent ELSE Target(w)]
      /\ append' = [append EXCEPT ![w] = IF Target(w) = Torn THEN "failed" ELSE "read"]
  BY DEF ReadFile
<1>2. /\ append'[w] = IF Target(w) = Torn THEN "failed" ELSE "read"
      /\ found'[w] = IF Target(w) = Torn THEN Absent ELSE Target(w)
      /\ \A x \in Writer : x # w => append'[x] = append[x] /\ found'[x] = found[x]
  BY <1>1 DEF FileInv, FileTypes
<1>3. \A x \in Writer : Target(x)' = Target(x)
  BY <1>1 DEF Target
<1>4. IntentOf[w] \in Filed /\ Target(w) \in Seq(EventRecord) /\ Absent \in Seq(EventRecord)
  BY DEF FileInv, FileTypes, Filed, Target, Absent
<1>5. FileTypes'
  BY <1>1, <1>4 DEF FileInv, FileTypes
<1>6. Chains'
  BY <1>1, <1>2, <1>4 DEF FileInv, Chains, Target, IsChain, Absent
<1>7. Alone'
  BY <1>1, <1>2 DEF FileInv, Alone, Busy
<1>8. Emptied' /\ Blamed'
  BY <1>1, <1>2, <1>3 DEF FileInv, Emptied, Blamed
<1>9. Kept'
  <2> SUFFICES ASSUME NEW x \in Writer, append'[x] = "ok", x \notin raced'
               PROVE  /\ Target(x)' = Torn \/ Has(Target(x)', x)
                      /\ \A y \in Writer : IntentOf[y] = IntentOf[x] /\ append'[y] \in {"read", "writing"} =>
                           Has(found'[y], x)
    BY DEF Kept, Has
  <2>1. x # w /\ append[x] = "ok" /\ x \notin raced
    BY <1>1, <1>2
  <2>2. Target(x) = Torn \/ Has(Target(x), x)
    BY <2>1 DEF FileInv, Kept
  <2>3. ASSUME NEW y \in Writer, IntentOf[y] = IntentOf[x], append'[y] \in {"read", "writing"}
        PROVE  Has(found'[y], x)
    <3>1. CASE y = w
      BY <1>2, <2>2, <2>3, <3>1 DEF Target
    <3>2. CASE y # w
      BY <1>2, <2>1, <2>3, <3>2 DEF FileInv, Kept
    <3> QED BY <3>1, <3>2
  <2> QED BY <1>3, <2>2, <2>3
<1> QED BY <1>5, <1>6, <1>7, <1>8, <1>9 DEF FileInv

LEMMA TruncateKeeps == ASSUME FileInv, NEW w \in Writer, Truncate(w) PROVE FileInv'
<1>1. /\ append[w] = "read" /\ UNCHANGED <<found, raced>>
      /\ file' = [file EXCEPT ![IntentOf[w]] = Torn]
      /\ append' = [append EXCEPT ![w] = "writing"]
  BY DEF Truncate
<1>2. append'[w] = "writing" /\ \A x \in Writer : x # w => append'[x] = append[x]
  BY <1>1 DEF FileInv, FileTypes
<1>3. \A x \in Writer : Target(x)' = IF IntentOf[x] = IntentOf[w] THEN Torn ELSE Target(x)
  BY <1>1 DEF FileInv, FileTypes, Target, Filed
<1>4. FileTypes'
  BY <1>1, TornIsNoChain DEF FileInv, FileTypes
<1>5. Chains'
  BY <1>1 DEF FileInv, FileTypes, Chains
<1>6. Alone'
  BY <1>1, <1>2 DEF FileInv, Alone, Busy
<1>7. Emptied' /\ Blamed'
  BY <1>1, <1>2, <1>3 DEF FileInv, Emptied, Blamed
<1>8. Kept'
  BY <1>1, <1>2, <1>3 DEF FileInv, Kept, Has
<1> QED BY <1>4, <1>5, <1>6, <1>7, <1>8 DEF FileInv

LEMMA WriteKeeps == ASSUME FileInv, NEW w \in Writer, Write(w) PROVE FileInv'
<1> DEFINE whole == Append(found[w], Finalized(w))
<1>1. PICK text \in IF Target(w) = Torn THEN {whole} ELSE {whole, Torn} :
        file' = [file EXCEPT ![IntentOf[w]] = text]
  BY DEF Write
<1>2. /\ append[w] = "writing" /\ append' = [append EXCEPT ![w] = "ok"] /\ UNCHANGED <<found, raced>>
  BY DEF Write
<1>3. /\ whole \in Seq(EventRecord) /\ whole # Torn /\ IsChain(whole) /\ Has(whole, w)
      /\ \A x \in Writer : Has(found[w], x) => Has(whole, x)
  BY WholeIsChain DEF FileInv
<1> HIDE DEF whole
<1>4. append'[w] = "ok" /\ \A x \in Writer : x # w => append'[x] = append[x]
  BY <1>2 DEF FileInv, FileTypes
<1>5. \A x \in Writer : Target(x)' = IF IntentOf[x] = IntentOf[w] THEN text ELSE Target(x)
  BY <1>1 DEF FileInv, FileTypes, Target, Filed
<1>6. FileTypes'
  BY <1>1, <1>2, <1>3, TornIsNoChain DEF FileInv, FileTypes
<1>7. Chains'
  BY <1>1, <1>2, <1>3 DEF FileInv, FileTypes, Chains
<1>8. Alone'
  BY <1>2, <1>4 DEF FileInv, Alone, Busy
<1>9. w \notin raced => /\ Target(w) = Torn /\ text = whole
                       /\ \A x \in Writer : x # w /\ IntentOf[x] = IntentOf[w] => x \notin Busy
  BY <1>1, <1>2 DEF FileInv, Emptied, Alone, Busy
<1>10. Emptied'
  <2> SUFFICES ASSUME NEW x \in Writer, append'[x] = "writing", x \notin raced
               PROVE  Target(x)' = Torn
    BY <1>2 DEF Emptied
  <2>1. x # w /\ append[x] = "writing" /\ Target(x) = Torn
    BY <1>4 DEF FileInv, Emptied
  <2>2. IntentOf[x] # IntentOf[w]
    BY <1>2, <2>1 DEF FileInv, Alone, Busy
  <2> QED BY <1>5, <2>1, <2>2
<1>11. Kept'
  <2> SUFFICES ASSUME NEW x \in Writer, append'[x] = "ok", x \notin raced
               PROVE  /\ Target(x)' = Torn \/ Has(Target(x)', x)
                      /\ \A y \in Writer : IntentOf[y] = IntentOf[x] /\ append'[y] \in {"read", "writing"} =>
                           Has(found[y], x)
    BY <1>2 DEF Kept, Has
  <2>1. CASE x = w
    BY <1>3, <1>4, <1>5, <1>9, <2>1 DEF Busy
  <2>2. CASE x # w
    <3>1. /\ Target(x) = Torn \/ Has(Target(x), x)
          /\ \A y \in Writer : IntentOf[y] = IntentOf[x] /\ append[y] \in {"read", "writing"} =>
               Has(found[y], x)
      BY <1>4, <2>2 DEF FileInv, Kept
    <3>2. IntentOf[x] = IntentOf[w] => Has(whole, x)
      BY <1>2, <1>3, <3>1
    <3>3. Target(x)' = Torn \/ Has(Target(x)', x)
      BY <1>1, <1>5, <3>1, <3>2
    <3> QED BY <1>4, <3>1, <3>3
  <2> QED BY <2>1, <2>2
<1>12. Blamed'
  <2> SUFFICES ASSUME NEW x \in Writer, Target(x)' = Torn
               PROVE  \E y \in Writer : /\ IntentOf[y] = IntentOf[x]
                                        /\ y \in raced \/ append'[y] \in {"writing", "crashed"}
    BY <1>2 DEF Blamed
  <2>1. CASE IntentOf[x] = IntentOf[w]
    BY <1>3, <1>5, <1>9, <2>1
  <2>2. CASE IntentOf[x] # IntentOf[w]
    <3>1. PICK y \in Writer : /\ IntentOf[y] = IntentOf[x]
                              /\ y \in raced \/ append[y] \in {"writing", "crashed"}
      BY <1>5, <2>2 DEF FileInv, Blamed
    <3> QED BY <1>4, <2>2, <3>1
  <2> QED BY <2>1, <2>2
<1> QED BY <1>6, <1>7, <1>8, <1>10, <1>11, <1>12 DEF FileInv

LEMMA DieKeeps == ASSUME FileInv, NEW w \in Writer, Die(w) PROVE FileInv'
<1>1. /\ append[w] = "writing" /\ append' = [append EXCEPT ![w] = "crashed"]
      /\ UNCHANGED <<file, found, raced>>
  BY DEF Die
<1>2. append'[w] = "crashed" /\ \A x \in Writer : x # w => append'[x] = append[x]
  BY <1>1 DEF FileInv, FileTypes
<1>3. \A x \in Writer : Target(x)' = Target(x)
  BY <1>1 DEF Target
<1>4. FileTypes' /\ Chains'
  BY <1>1 DEF FileInv, FileTypes, Chains
<1>5. Alone'
  BY <1>1, <1>2 DEF FileInv, Alone, Busy
<1>6. Emptied' /\ Kept'
  BY <1>1, <1>2, <1>3 DEF FileInv, Emptied, Kept
<1>7. Blamed'
  BY <1>1, <1>2, <1>3 DEF FileInv, Blamed
<1> QED BY <1>4, <1>5, <1>6, <1>7 DEF FileInv

LEMMA FileStepInv == ASSUME FileInv, [FilesNext]_filesVars PROVE FileInv'
<1>1. CASE UNCHANGED filesVars
  BY <1>1 DEF filesVars, FileInv, FileTypes, Chains, Alone, Busy, Emptied, Kept, Blamed, Target
<1>2. CASE FilesNext
  BY <1>2, CalledKeeps, ReadFileKeeps, TruncateKeeps, WriteKeeps, DieKeeps DEF FilesNext
<1> QED BY <1>1, <1>2

(* What can be read of a file is a well linked chain, and an acknowledged  *)
(* event is lost to an overlapping append only, for any appends, files,    *)
(* interleavings and deaths (FileEventStore.ts:22-47).                     *)
THEOREM ChainsAreKept == FilesSpec => []FilesKeepChains
<1>1. FileInv => FilesKeepChains
  <2> SUFFICES ASSUME FileInv PROVE FilesKeepChains
    OBVIOUS
  <2>1. \A i \in Filed : file[i] \in Seq(EventRecord)
    BY DEF FileInv, FileTypes
  <2>2. EveryReadIsAChain
    BY <2>1 DEF FileInv, Chains, IsChain, EveryReadIsAChain
  <2>3. \A w \in Writer : Target(w) \in Seq(EventRecord)
    BY <2>1 DEF Target, Filed
  <2>4. \A w \in Writer : append[w] = "ok" /\ w \notin raced /\ Target(w) # Torn =>
          \E j \in DOMAIN Target(w) : Target(w)[j].event = w
    BY <2>3 DEF FileInv, Kept, Has
  <2>5. LossNeedsARace
    BY <2>4 DEF FileInv, Blamed, LossNeedsARace
  <2> QED BY <2>2, <2>5 DEF FilesKeepChains
<1> QED BY <1>1, FileInitInv, FileStepInv, PTL DEF FilesSpec
-----------------------------------------------------------------------------
(* A set of natural numbers has a least one; one with a bound, a greatest. *)
LEMMA LeastOf ==
  ASSUME NEW T, T \subseteq Nat, T # {}
  PROVE  \E m \in T : \A k \in T : m <= k
<1> DEFINE R == OpToRel(<, Nat)
<1>1. IsWellFoundedOn(R, Nat)
  BY NatLessThanWellFounded
<1>2. \A x, y \in Nat : x < y => <<x, y>> \in R
  BY DEF OpToRel
<1>3. PICK m \in T : \A k \in T : ~(<<k, m>> \in R)
  <2> HIDE DEF R
  <2> QED BY <1>1, WFMin, Zenon
<1> HIDE DEF R
<1>4. \A k \in T : m <= k
  <2> TAKE k \in T
  <2>1. k \in Nat /\ m \in Nat
    OBVIOUS
  <2>2. ~(k < m)
    BY <1>2, <1>3, <2>1
  <2> QED BY <2>1, <2>2
<1> QED BY <1>3, <1>4

LEMMA GreatestOf ==
  ASSUME NEW n \in Nat, NEW T, T \subseteq 0..n, T # {}
  PROVE  \E m \in T : \A k \in T : k <= m
<1> DEFINE U == {n - k : k \in T}
<1>1. U \subseteq Nat /\ U # {}
  <2>1. \A k \in T : k \in 0..n /\ n - k \in Nat
    OBVIOUS
  <2> QED BY <2>1
<1> HIDE DEF U
<1>2. PICK u \in U : \A k \in U : u <= k
  BY <1>1, LeastOf
<1>3. PICK m \in T : u = n - m
  BY DEF U
<1>4. \A k \in T : k <= m
  <2> TAKE k \in T
  <2>1. n - m <= n - k
    BY <1>2, <1>3 DEF U
  <2> QED BY <2>1
<1> QED BY <1>4

-----------------------------------------------------------------------------
(* Lists sorted by timestamp: the insertion, and the binary search.        *)
Success == [intent: Subject, status: TraceStatus, at: Nat]
Sorted(list) == \A j, k \in 1..Len(list) : j <= k => list[j].at <= list[k].at

LEMMA InsertedAt ==
  ASSUME NEW S, NEW list \in Seq(S), NEW record \in S, NEW n \in 0..Len(list)
  PROVE  LET longer == InsertAt(list, n + 1, record)
         IN  /\ longer \in Seq(S) /\ Len(longer) = Len(list) + 1
             /\ \A j \in 1..Len(list) + 1 :
                  longer[j] = IF j <= n THEN list[j] ELSE IF j = n + 1 THEN record ELSE list[j - 1]
<1> DEFINE front == SubSeq(list, 1, n)
           back == SubSeq(list, n + 1, Len(list))
           middle == front \o <<record>>
<1>1. Len(list) \in Nat /\ \A j \in 1..Len(list) : list[j] \in S
  BY ElementOfSeq, LenProperties
<1>2. /\ front \in Seq(S) /\ Len(front) = n
      /\ \A j \in 1..n : front[j] = list[j]
  BY <1>1, SubSeqProperties
<1>3. /\ back \in Seq(S) /\ Len(back) = Len(list) - n
      /\ \A j \in 1..(Len(list) - n) : back[j] = list[n + j]
  BY <1>1, SubSeqProperties
<1>4. <<record>> \in Seq(S) /\ Len(<<record>>) = 1 /\ <<record>>[1] = record
  OBVIOUS
<1> HIDE DEF front, back
<1>5. /\ middle \in Seq(S) /\ Len(middle) = n + 1
      /\ \A j \in 1..n + 1 : middle[j] = IF j <= n THEN list[j] ELSE record
  <2>1. /\ middle \in Seq(S) /\ Len(middle) = n + 1
        /\ \A j \in 1..n + 1 : middle[j] = IF j <= n THEN front[j] ELSE <<record>>[j - n]
    BY <1>2, <1>4, ConcatProperties
  <2> QED BY <1>1, <1>2, <1>4, <2>1
<1> HIDE DEF middle
<1>6. /\ middle \o back \in Seq(S) /\ Len(middle \o back) = Len(list) + 1
      /\ \A j \in 1..Len(list) + 1 :
           (middle \o back)[j] = IF j <= n + 1 THEN middle[j] ELSE back[j - (n + 1)]
  BY <1>1, <1>3, <1>5, ConcatProperties
<1>7. InsertAt(list, n + 1, record) = middle \o back
  <2>1. (n + 1) - 1 = n
    BY <1>1
  <2> QED BY <2>1 DEF InsertAt, middle, front, back
<1>8. \A j \in 1..Len(list) + 1 :
        (middle \o back)[j] = IF j <= n THEN list[j] ELSE IF j = n + 1 THEN record ELSE list[j - 1]
  <2> TAKE j \in 1..Len(list) + 1
  <2>0. n \in Nat /\ j \in Nat
    BY <1>1
  <2>1. CASE j <= n + 1
    BY <1>1, <1>5, <1>6, <2>0, <2>1
  <2>2. CASE j > n + 1
    <3>1. j - (n + 1) \in 1..(Len(list) - n) /\ n + (j - (n + 1)) = j - 1
      BY <1>1, <2>0, <2>2
    <3>2. back[j - (n + 1)] = list[j - 1]
      BY <1>3, <3>1
    <3>3. (middle \o back)[j] = back[j - (n + 1)]
      BY <1>6, <2>0, <2>2
    <3> QED BY <2>0, <2>2, <3>2, <3>3
  <2>3. j <= n + 1 \/ j > n + 1
    BY <2>0
  <2> QED BY <2>1, <2>2, <2>3, Zenon
<1> DEFINE longer == middle \o back
<1>9. /\ longer \in Seq(S) /\ Len(longer) = Len(list) + 1
      /\ \A j \in 1..Len(list) + 1 :
           longer[j] = IF j <= n THEN list[j] ELSE IF j = n + 1 THEN record ELSE list[j - 1]
  BY <1>6, <1>8, Zenon
<1> HIDE DEF longer
<1>10. InsertAt(list, n + 1, record) = longer
  BY <1>7 DEF longer
<1> QED BY <1>9, <1>10

(* Place keeps a list sorted, adds the record and forgets nothing. *)
LEMMA PlaceSorts ==
  ASSUME NEW list \in Seq(Success), NEW record \in Success, Sorted(list)
  PROVE  LET longer == Place(list, record)
         IN  /\ longer \in Seq(Success) /\ Sorted(longer)
             /\ \A j \in 1..Len(longer) :
                  longer[j] = record \/ \E k \in 1..Len(list) : longer[j] = list[k]
             /\ \A k \in 1..Len(list) : \E j \in 1..Len(longer) : longer[j] = list[k]
             /\ \E j \in 1..Len(longer) : longer[j] = record
<1> DEFINE before == {j \in DOMAIN list : list[j].at <= record.at}
           n == IF before = {} THEN 0 ELSE CHOOSE j \in before : \A k \in before : k <= j
<1>1. /\ Len(list) \in Nat /\ DOMAIN list = 1..Len(list)
      /\ \A j \in 1..Len(list) : list[j] \in Success
  BY ElementOfSeq, LenProperties
<1>2. /\ n \in 0..Len(list)
      /\ \A j \in 1..Len(list) : list[j].at <= record.at <=> j <= n
  <2>1. CASE before = {}
    <3>1. n = 0
      BY <2>1
    <3> QED BY <1>1, <2>1, <3>1
  <2>2. CASE before # {}
    <3>1. before \subseteq 0..Len(list)
      BY <1>1
    <3>2. \E m \in before : \A k \in before : k <= m
      BY <1>1, <2>2, <3>1, GreatestOf
    <3>3. n \in before /\ \A k \in before : k <= n
      BY <2>2, <3>2
    <3>4. n \in 1..Len(list) /\ list[n].at <= record.at
      BY <1>1, <3>3
    <3> HIDE DEF n
    <3>5. ASSUME NEW j \in 1..Len(list), j <= n
          PROVE  list[j].at <= record.at
      <4>1. list[j].at <= list[n].at
        BY <3>4, <3>5 DEF Sorted
      <4>2. list[j].at \in Nat /\ list[n].at \in Nat /\ record.at \in Nat
        BY <1>1, <3>4 DEF Success
      <4> QED BY <3>4, <4>1, <4>2
    <3>6. ASSUME NEW j \in 1..Len(list), list[j].at <= record.at
          PROVE  j <= n
      BY <1>1, <3>3, <3>6
    <3> QED BY <3>4, <3>5, <3>6
  <2> QED BY <2>1, <2>2
<1>3. Place(list, record) = InsertAt(list, n + 1, record)
  BY DEF Place
<1> HIDE DEF n, before
<1> DEFINE longer == InsertAt(list, n + 1, record)
<1>4. /\ longer \in Seq(Success) /\ Len(longer) = Len(list) + 1
      /\ \A j \in 1..Len(list) + 1 :
           longer[j] = IF j <= n THEN list[j] ELSE IF j = n + 1 THEN record ELSE list[j - 1]
  BY <1>2, InsertedAt
<1> HIDE DEF longer
<1>5. Sorted(longer)
  <2> SUFFICES ASSUME NEW j \in 1..Len(list) + 1, NEW k \in 1..Len(list) + 1, j <= k
               PROVE  longer[j].at <= longer[k].at
    BY <1>4 DEF Sorted
  <2>1. \A l \in 1..Len(list) : list[l].at \in Nat
    BY <1>1 DEF Success
  <2>2. record.at \in Nat
    BY DEF Success
  <2>3. CASE j <= n /\ k <= n
    BY <1>1, <1>2, <1>4, <2>3 DEF Sorted
  <2>4. CASE j <= n /\ k = n + 1
    BY <1>1, <1>2, <1>4, <2>4
  <2>5. CASE j <= n /\ k > n + 1
    <3>1. list[j].at <= list[k - 1].at
      BY <1>1, <1>2, <2>5 DEF Sorted
    <3> QED BY <1>1, <1>2, <1>4, <2>5, <3>1
  <2>6. CASE j = n + 1 /\ k = n + 1
    BY <1>1, <1>2, <1>4, <2>2, <2>6
  <2>7. CASE j = n + 1 /\ k > n + 1
    <3>1. k - 1 \in 1..Len(list) /\ ~(k - 1 <= n)
      BY <1>1, <1>2, <2>7
    <3>2. record.at <= list[k - 1].at
      BY <1>2, <2>1, <2>2, <3>1
    <3> QED BY <1>1, <1>2, <1>4, <2>7, <3>2
  <2>8. CASE j > n + 1 /\ k > n + 1
    <3>1. list[j - 1].at <= list[k - 1].at
      BY <1>1, <1>2, <2>8 DEF Sorted
    <3> QED BY <1>1, <1>2, <1>4, <2>8, <3>1
  <2> QED BY <1>1, <1>2, <2>3, <2>4, <2>5, <2>6, <2>7, <2>8
<1>6. \A j \in 1..Len(longer) :
        longer[j] = record \/ \E k \in 1..Len(list) : longer[j] = list[k]
  <2> TAKE j \in 1..Len(longer)
  <2>1. CASE j <= n
    BY <1>1, <1>2, <1>4, <2>1
  <2>2. CASE j > n + 1
    <3>1. j - 1 \in 1..Len(list) /\ longer[j] = list[j - 1]
      BY <1>1, <1>2, <1>4, <2>2
    <3> QED BY <3>1
  <2>3. CASE j = n + 1
    BY <1>1, <1>2, <1>4, <2>3
  <2> QED BY <1>1, <1>2, <1>4, <2>1, <2>2, <2>3
<1>7. \A k \in 1..Len(list) : \E j \in 1..Len(longer) : longer[j] = list[k]
  <2> TAKE k \in 1..Len(list)
  <2>1. CASE k <= n
    BY <1>1, <1>2, <1>4, <2>1
  <2>2. CASE k > n
    <3>1. k + 1 \in 1..Len(longer) /\ longer[k + 1] = list[k]
      BY <1>1, <1>2, <1>4, <2>2
    <3> QED BY <3>1
  <2> QED BY <1>1, <1>2, <2>1, <2>2
<1>8. n + 1 \in 1..Len(longer) /\ longer[n + 1] = record
  BY <1>1, <1>2, <1>4
<1>9. Place(list, record) = longer
  BY <1>3 DEF longer
<1> QED BY <1>4, <1>5, <1>6, <1>7, <1>8, <1>9

-----------------------------------------------------------------------------
(* One step of the search, and what a search that takes such steps is. *)
Halved(list, from, search, low, high) ==
  LET middle == (low + high) \div 2
  IN IF low >= high THEN low
     ELSE IF list[middle + 1].at <= from THEN search[middle + 1][high]
     ELSE search[low][middle]
Searches(list, from, search) ==
  search = [low \in 0..Len(list) |->
              [high \in 0..Len(list) |-> Halved(list, from, search, low, high)]]

LEMMA FirstAfterSearches ==
  ASSUME NEW list, NEW from
  PROVE  FirstAfter(list, from) =
           (CHOOSE search : Searches(list, from, search))[0][Len(list)]
BY DEF FirstAfter, Searches, Halved

LEMMA SearchSteps ==
  ASSUME NEW list, NEW from, NEW search, Searches(list, from, search),
         NEW low \in 0..Len(list), NEW high \in 0..Len(list)
  PROVE  search[low][high] = Halved(list, from, search, low, high)
<1> DEFINE F == [l \in 0..Len(list) |->
                   [h \in 0..Len(list) |-> Halved(list, from, search, l, h)]]
<1>1. F[low][high] = Halved(list, from, search, low, high)
  OBVIOUS
<1>2. search = F
  BY DEF Searches
<1> HIDE DEF F
<1> QED BY <1>1, <1>2

(* Where a sorted list passes "from". *)
Splits(list, from, m) ==
  m \in 0..Len(list) /\ \A j \in 1..Len(list) : list[j].at <= from <=> j <= m

LEMMA SplitExists ==
  ASSUME NEW list \in Seq(Success), Sorted(list), NEW from \in Int
  PROVE  \E m : Splits(list, from, m)
<1> DEFINE before == {j \in 1..Len(list) : list[j].at <= from}
<1>0. Len(list) \in Nat /\ \A j \in 1..Len(list) : list[j] \in Success
  BY ElementOfSeq, LenProperties
<1>1. Len(list) \in Nat /\ \A j \in 1..Len(list) : list[j].at \in Nat
  BY <1>0 DEF Success
<1>2. CASE before = {}
  <2>1. Splits(list, from, 0)
    BY <1>1, <1>2 DEF Splits
  <2> QED BY <2>1
<1>3. CASE before # {}
  <2>1. PICK m \in before : \A k \in before : k <= m
    <3>1. before \subseteq 0..Len(list)
      BY <1>1
    <3> HIDE DEF before
    <3> QED BY <1>1, <1>3, <3>1, GreatestOf
  <2>2. ASSUME NEW j \in 1..Len(list) PROVE list[j].at <= from <=> j <= m
    <3>1. j <= m => list[j].at <= list[m].at
      BY <1>1, <2>1 DEF Sorted
    <3>2. list[m].at <= from /\ list[m].at \in Nat /\ list[j].at \in Nat
      BY <1>1, <2>1
    <3> QED BY <2>1, <3>1, <3>2
  <2>3. Splits(list, from, m)
    BY <1>1, <2>1, <2>2 DEF Splits
  <2> QED BY <2>3
<1> QED BY <1>2, <1>3

(* There is a search: the one that answers at once. *)
Clamped(m, low, high) ==
  IF low >= high \/ m < low THEN low ELSE IF m > high THEN high ELSE m
Outright(list, m) ==
  [low \in 0..Len(list) |-> [high \in 0..Len(list) |-> Clamped(m, low, high)]]

LEMMA MiddleIsBetween ==
  ASSUME NEW low \in Nat, NEW high \in Nat, low < high
  PROVE  (low + high) \div 2 \in low..(high - 1)
<1>1. (low + high) \div 2 \in Int /\ low <= (low + high) \div 2 /\ (low + high) \div 2 < high
  OBVIOUS
<1> QED BY <1>1

LEMMA SearchExists ==
  ASSUME NEW list \in Seq(Success), NEW from \in Int, NEW m, Splits(list, from, m)
  PROVE  Searches(list, from, Outright(list, m))
<1> DEFINE g == Outright(list, m)
<1>1. Len(list) \in Nat /\ m \in 0..Len(list)
  BY LenProperties DEF Splits
<1>2. \A low, high \in 0..Len(list) : g[low][high] = Clamped(m, low, high)
  BY DEF Outright
<1> HIDE DEF g
<1>3. ASSUME NEW low \in 0..Len(list), NEW high \in 0..Len(list)
      PROVE  Clamped(m, low, high) = Halved(list, from, g, low, high)
  <2>1. CASE low >= high
    BY <2>1 DEF Clamped, Halved
  <2>2. CASE low < high
    <3> DEFINE middle == (low + high) \div 2
    <3>1. middle \in low..(high - 1)
      BY <1>1, <2>2, MiddleIsBetween
    <3>2. ~(low >= high)
      BY <1>1, <2>2
    <3>3. Halved(list, from, g, low, high) =
            IF list[middle + 1].at <= from THEN g[middle + 1][high] ELSE g[low][middle]
      BY <3>2 DEF Halved
    <3> HIDE DEF middle
    <3>4. middle \in 0..Len(list) /\ middle + 1 \in 1..Len(list) /\ middle + 1 \in 0..Len(list)
      BY <1>1, <3>1
    <3>5. CASE list[middle + 1].at <= from
      <4>1. middle + 1 <= m
        BY <3>4, <3>5 DEF Splits
      <4>2. Halved(list, from, g, low, high) = Clamped(m, middle + 1, high)
        BY <1>2, <3>3, <3>4, <3>5
      <4>3. Clamped(m, middle + 1, high) = Clamped(m, low, high)
        BY <1>1, <3>1, <4>1 DEF Clamped
      <4> QED BY <4>2, <4>3
    <3>6. CASE ~(list[middle + 1].at <= from)
      <4>1. ~(middle + 1 <= m)
        BY <3>4, <3>6 DEF Splits
      <4>2. Halved(list, from, g, low, high) = Clamped(m, low, middle)
        BY <1>2, <3>3, <3>4, <3>6
      <4>3. Clamped(m, low, middle) = Clamped(m, low, high)
        BY <1>1, <3>1, <4>1 DEF Clamped
      <4> QED BY <4>2, <4>3
    <3> QED BY <3>5, <3>6
  <2> QED BY <1>1, <2>1, <2>2
<1>4. g = [low \in 0..Len(list) |->
             [high \in 0..Len(list) |-> Halved(list, from, g, low, high)]]
  <2>1. g = [low \in 0..Len(list) |-> [high \in 0..Len(list) |-> Clamped(m, low, high)]]
    BY DEF g, Outright
  <2> QED BY <1>3, <2>1, Zenon
<1> QED BY <1>4 DEF Searches, g

(* Whatever search was chosen, it answers the same: of the intervals for   *)
(* which it would not, there would be a shortest.                          *)
LEMMA SearchesAgree ==
  ASSUME NEW list \in Seq(Success), NEW from \in Int,
         NEW f, Searches(list, from, f), NEW g, Searches(list, from, g),
         NEW low \in 0..Len(list), NEW high \in 0..Len(list)
  PROVE  f[low][high] = g[low][high]
<1>0. Len(list) \in Nat
  BY LenProperties
<1> DEFINE Differs(l, h) == f[l][h] # g[l][h]
           T == {d \in Nat : \E l, h \in 0..Len(list) : Differs(l, h) /\ d = IF l < h THEN h - l ELSE 0}
<1> SUFFICES ASSUME Differs(low, high) PROVE FALSE
  OBVIOUS
<1>1. T # {}
  <2>1. (IF low < high THEN high - low ELSE 0) \in Nat
    BY <1>0
  <2> QED BY <2>1
<1>2. PICK d \in T : \A k \in T : d <= k
  <2>1. T \subseteq Nat
    OBVIOUS
  <2> HIDE DEF T
  <2> QED BY <1>1, <2>1, LeastOf
<1>3. PICK l \in 0..Len(list), h \in 0..Len(list) :
        Differs(l, h) /\ d = IF l < h THEN h - l ELSE 0
  BY <1>2
<1>4. ASSUME NEW x \in 0..Len(list), NEW y \in 0..Len(list), x <= y, y - x < d
      PROVE  f[x][y] = g[x][y]
  <2> SUFFICES ASSUME Differs(x, y) PROVE FALSE
    OBVIOUS
  <2>1. y - x \in Nat /\ y - x = IF x < y THEN y - x ELSE 0
    BY <1>0, <1>4
  <2>2. y - x \in T
    BY <2>1
  <2> HIDE DEF T
  <2>3. d <= y - x /\ d \in Nat
    BY <1>2, <2>2 DEF T
  <2> QED BY <1>4, <2>1, <2>3
<1>5. /\ f[l][h] = Halved(list, from, f, l, h)
      /\ g[l][h] = Halved(list, from, g, l, h)
  BY SearchSteps
<1>6. CASE l >= h
  BY <1>3, <1>5, <1>6 DEF Halved
<1>7. CASE l < h
  <2> DEFINE middle == (l + h) \div 2
  <2>1. middle \in l..(h - 1)
    BY <1>0, <1>7, MiddleIsBetween
  <2>2. /\ Halved(list, from, f, l, h) =
             IF list[middle + 1].at <= from THEN f[middle + 1][h] ELSE f[l][middle]
        /\ Halved(list, from, g, l, h) =
             IF list[middle + 1].at <= from THEN g[middle + 1][h] ELSE g[l][middle]
    <3>1. ~(l >= h)
      BY <1>0, <1>7
    <3> QED BY <3>1 DEF Halved
  <2> HIDE DEF middle
  <2>3. d = h - l
    BY <1>3, <1>7
  <2>4. f[middle + 1][h] = g[middle + 1][h]
    BY <1>0, <1>4, <2>1, <2>3
  <2>5. f[l][middle] = g[l][middle]
    BY <1>0, <1>4, <2>1, <2>3
  <2> QED BY <1>3, <1>5, <2>2, <2>4, <2>5
<1> QED BY <1>0, <1>6, <1>7

(* The binary search finds where the list passes "from". *)
LEMMA SearchFinds ==
  ASSUME NEW list \in Seq(Success), Sorted(list), NEW from \in Int
  PROVE  Splits(list, from, FirstAfter(list, from))
<1>1. PICK m : Splits(list, from, m)
  BY SplitExists
<1> DEFINE f == CHOOSE search : Searches(list, from, search)
<1>2. Searches(list, from, Outright(list, m))
  BY <1>1, SearchExists
<1>3. Searches(list, from, f)
  BY <1>2
<1> HIDE DEF f
<1>4. Len(list) \in Nat /\ 0 \in 0..Len(list) /\ Len(list) \in 0..Len(list)
  BY LenProperties
<1>5. f[0][Len(list)] = Outright(list, m)[0][Len(list)]
  BY <1>2, <1>3, <1>4, SearchesAgree
<1>6. Outright(list, m)[0][Len(list)] = m
  BY <1>1, <1>4 DEF Outright, Clamped, Splits
<1>7. FirstAfter(list, from) = f[0][Len(list)]
  BY FirstAfterSearches DEF f
<1> QED BY <1>1, <1>5, <1>6, <1>7

-----------------------------------------------------------------------------
(* The last trace of a proposal, as one more event is added to a log.      *)
Added == [tx: Work, intent: Subject, status: TraceStatus, at: Nat, seq: Nat]
Traced(s, i) == {j \in 1..Len(s) : s[j].intent = i /\ s[j].status # "none"}
Bears(e, i) == e.intent = i /\ e.status # "none"
TraceOf(e) == [status |-> e.status, at |-> e.at]

LEMMA LastTraceIs ==
  ASSUME NEW s \in Seq(Added), NEW i
  PROVE  /\ Traced(s, i) = {} => Promised!LastTrace(s, i) = NoTrace
         /\ \A m \in Traced(s, i) :
              (\A k \in Traced(s, i) : k <= m) => Promised!LastTrace(s, i) = TraceOf(s[m])
<1>1. DOMAIN s = 1..Len(s) /\ Len(s) \in Nat
  BY LenProperties
<1>2. Promised!LastTrace(s, i) =
        IF Traced(s, i) = {} THEN NoTrace
        ELSE TraceOf(s[CHOOSE j \in Traced(s, i) : \A k \in Traced(s, i) : k <= j])
  BY <1>1 DEF Promised!LastTrace, Traced, TraceOf, Promised!NoTrace, NoTrace
<1>3. ASSUME NEW m \in Traced(s, i), \A k \in Traced(s, i) : k <= m
      PROVE  (CHOOSE j \in Traced(s, i) : \A k \in Traced(s, i) : k <= j) = m
  <2> DEFINE c == CHOOSE j \in Traced(s, i) : \A k \in Traced(s, i) : k <= j
  <2>1. c \in Traced(s, i) /\ \A k \in Traced(s, i) : k <= c
    BY <1>3
  <2> HIDE DEF c
  <2>2. c <= m /\ m <= c /\ c \in Nat /\ m \in Nat
    BY <1>1, <1>3, <2>1 DEF Traced
  <2> QED BY <2>2 DEF c
<1> QED BY <1>2, <1>3

LEMMA LastExists ==
  ASSUME NEW s \in Seq(Added), NEW i, Traced(s, i) # {}
  PROVE  \E m \in Traced(s, i) : \A k \in Traced(s, i) : k <= m
<1>1. Len(s) \in Nat /\ Traced(s, i) \subseteq 0..Len(s)
  BY LenProperties DEF Traced
<1> QED BY <1>1, GreatestOf

LEMMA LastTraceTyped ==
  ASSUME NEW s \in Seq(Added), NEW i
  PROVE  Promised!LastTrace(s, i) \in TraceRecord
<1>1. CASE Traced(s, i) = {}
  BY <1>1, LastTraceIs DEF NoTrace, TraceRecord, TraceStatus
<1>2. CASE Traced(s, i) # {}
  <2>1. PICK m \in Traced(s, i) : \A k \in Traced(s, i) : k <= m
    BY <1>2, LastExists
  <2>2. s[m] \in Added
    BY <2>1, ElementOfSeq DEF Traced
  <2>3. Promised!LastTrace(s, i) = TraceOf(s[m])
    BY <2>1, LastTraceIs
  <2> QED BY <2>2, <2>3 DEF Added, TraceOf, TraceRecord
<1> QED BY <1>1, <1>2

LEMMA LastTraceOfNothing ==
  ASSUME NEW i
  PROVE  Promised!LastTrace(<<>>, i) = NoTrace
<1>1. <<>> \in Seq(Added) /\ Traced(<<>>, i) = {}
  BY DEF Traced
<1> QED BY <1>1, LastTraceIs

LEMMA LastTraceOfMore ==
  ASSUME NEW s \in Seq(Added), NEW e \in Added, NEW i
  PROVE  Promised!LastTrace(Append(s, e), i) =
           IF Bears(e, i) THEN TraceOf(e) ELSE Promised!LastTrace(s, i)
<1> DEFINE longer == Append(s, e)
           n == Len(s) + 1
<1>1. /\ longer \in Seq(Added) /\ Len(longer) = n /\ Len(s) \in Nat
      /\ \A j \in 1..Len(s) : longer[j] = s[j]
      /\ longer[n] = e
  BY AppendProperties, LenProperties
<1> HIDE DEF longer
<1>2. Traced(longer, i) = Traced(s, i) \cup (IF Bears(e, i) THEN {n} ELSE {})
  BY <1>1 DEF Traced, Bears
<1>3. \A k \in Traced(s, i) : k \in 1..Len(s)
  BY DEF Traced
<1>4. CASE Bears(e, i)
  <2>1. n \in Traced(longer, i) /\ \A k \in Traced(longer, i) : k <= n
    BY <1>1, <1>2, <1>3, <1>4
  <2>2. Promised!LastTrace(longer, i) = TraceOf(longer[n])
    BY <1>1, <2>1, LastTraceIs
  <2> QED BY <1>1, <1>4, <2>2 DEF longer
<1>5. CASE ~Bears(e, i)
  <2>1. Traced(longer, i) = Traced(s, i)
    BY <1>2, <1>5
  <2>2. CASE Traced(s, i) = {}
    BY <1>1, <1>5, <2>1, <2>2, LastTraceIs DEF longer
  <2>3. CASE Traced(s, i) # {}
    <3>1. PICK m \in Traced(s, i) : \A k \in Traced(s, i) : k <= m
      BY <2>3, LastExists
    <3>2. /\ Promised!LastTrace(s, i) = TraceOf(s[m])
          /\ Promised!LastTrace(longer, i) = TraceOf(longer[m])
      BY <1>1, <2>1, <3>1, LastTraceIs
    <3>3. longer[m] = s[m]
      BY <1>1, <1>3, <3>1
    <3> QED BY <1>5, <3>2, <3>3 DEF longer
  <2> QED BY <2>2, <2>3
<1> QED BY <1>4, <1>5

-----------------------------------------------------------------------------
(* What the indexes are of a log.                                          *)
Keyed(key, i) == key \in {Everyone, AgentOf[i]}
Indexes == [latest: [Subject -> TraceRecord],
            successes: [Key -> Seq(Success)],
            reservations: [Key -> [Subject -> TraceRecord]]]

LatestIs(ix, log) == \A i \in Subject : ix.latest[i] = Promised!LastTrace(log, i)
ReservationsAre(ix) ==
  \A key \in Key, i \in Subject :
    ix.reservations[key][i] =
      IF Keyed(key, i) /\ Open(ix.latest[i].status) THEN ix.latest[i] ELSE NoTrace
SuccessesSorted(ix) ==
  \A key \in Key :
    /\ Sorted(ix.successes[key])
    /\ \A j \in 1..Len(ix.successes[key]) : Keyed(key, ix.successes[key][j].intent)
Listed(list, i, n) == \E j \in 1..Len(list) : list[j].intent = i /\ list[j].at = n
SuccessesListed(ix) ==
  \A key \in Key, i \in Subject :
    Keyed(key, i) /\ ix.latest[i].status = "SUCCESS" =>
      Listed(ix.successes[key], i, ix.latest[i].at)
IndexOf(ix, log) == /\ ix \in Indexes /\ LatestIs(ix, log) /\ ReservationsAre(ix)
                    /\ SuccessesSorted(ix) /\ SuccessesListed(ix)

(* Every key and proposal is looked at by itself. *)
LEMMA IndexedIs ==
  ASSUME NEW ix \in Indexes, SuccessesSorted(ix), NEW e \in Added, e.status # "none"
  PROVE  LET after == Indexed(ix, e)
         IN  /\ after \in Indexes
             /\ \A i \in Subject :
                  after.latest[i] = IF i = e.intent THEN TraceOf(e) ELSE ix.latest[i]
             /\ \A key \in Key, i \in Subject :
                  after.reservations[key][i] =
                    IF Keyed(key, e.intent) /\ i = e.intent
                    THEN IF Open(e.status) THEN TraceOf(e) ELSE NoTrace
                    ELSE ix.reservations[key][i]
             /\ \A key \in Key :
                  after.successes[key] =
                    IF Keyed(key, e.intent) /\ e.status = "SUCCESS"
                    THEN Place(ix.successes[key], Record(e)) ELSE ix.successes[key]
<1> DEFINE last == [ix.latest EXCEPT ![e.intent] = TraceOf(e)]
           entry(key) == IF Open(e.status) THEN TraceOf(e) ELSE NoTrace
           open == [key \in Key |-> IF ~Keyed(key, e.intent) THEN ix.reservations[key]
                     ELSE [ix.reservations[key] EXCEPT ![e.intent] = entry(key)]]
           done == [key \in Key |-> IF Keyed(key, e.intent) /\ e.status = "SUCCESS"
                     THEN Place(ix.successes[key], Record(e)) ELSE ix.successes[key]]
<1>1. Indexed(ix, e) = [latest |-> last, reservations |-> open, successes |-> done]
  <2>1. \A key \in Key : key \in {k \in Key : k \in {Everyone, AgentOf[e.intent]}} <=> Keyed(key, e.intent)
    BY DEF Keyed
  <2> QED BY <2>1 DEF Indexed, TraceOf
<1>2. TraceOf(e) \in TraceRecord /\ NoTrace \in TraceRecord /\ e.intent \in Subject
  BY DEF TraceOf, TraceRecord, Added, NoTrace, TraceStatus
<1>3. /\ last \in [Subject -> TraceRecord]
      /\ \A i \in Subject : last[i] = IF i = e.intent THEN TraceOf(e) ELSE ix.latest[i]
  BY <1>2 DEF Indexes
<1>4. /\ open \in [Key -> [Subject -> TraceRecord]]
      /\ \A key \in Key, i \in Subject :
           open[key][i] = IF Keyed(key, e.intent) /\ i = e.intent
                          THEN IF Open(e.status) THEN TraceOf(e) ELSE NoTrace
                          ELSE ix.reservations[key][i]
  <2>1. \A key \in Key : ix.reservations[key] \in [Subject -> TraceRecord]
    BY DEF Indexes
  <2>2. \A key \in Key : open[key] = IF ~Keyed(key, e.intent) THEN ix.reservations[key]
                     ELSE [ix.reservations[key] EXCEPT ![e.intent] = entry(key)]
    OBVIOUS
  <2>3. \A key \in Key : open[key] \in [Subject -> TraceRecord]
    BY <1>2, <2>1, <2>2
  <2>4. open \in [Key -> [Subject -> TraceRecord]]
    BY <2>3
  <2>5. ASSUME NEW key \in Key, NEW i \in Subject
        PROVE  open[key][i] = IF Keyed(key, e.intent) /\ i = e.intent
                          THEN IF Open(e.status) THEN TraceOf(e) ELSE NoTrace
                          ELSE ix.reservations[key][i]
    BY <1>2, <2>1, <2>2
  <2> QED BY <2>4, <2>5
<1>5. done \in [Key -> Seq(Success)]
  <2>1. Record(e) \in Success
    BY DEF Record, Success, Added
  <2>2. \A key \in Key : ix.successes[key] \in Seq(Success) /\ Sorted(ix.successes[key])
    BY DEF Indexes, SuccessesSorted
  <2>3. \A key \in Key : Place(ix.successes[key], Record(e)) \in Seq(Success)
    BY <2>1, <2>2, PlaceSorts
  <2> QED BY <2>2, <2>3
<1>6. Indexed(ix, e).latest = last /\ Indexed(ix, e).reservations = open /\ Indexed(ix, e).successes = done
  BY <1>1
<1>7. Indexed(ix, e) \in Indexes
  BY <1>1, <1>3, <1>4, <1>5 DEF Indexes
<1>8. \A key \in Key : done[key] =
                    IF Keyed(key, e.intent) /\ e.status = "SUCCESS"
                    THEN Place(ix.successes[key], Record(e)) ELSE ix.successes[key]
  OBVIOUS
<1> HIDE DEF last, open, done
<1> QED BY <1>3, <1>4, <1>6, <1>7, <1>8

(* One more event, and its trace in the indexes. *)
LEMMA IndexGoesOn ==
  ASSUME NEW log \in Seq(Added), NEW ix, IndexOf(ix, log), NEW e \in Added
  PROVE  IndexOf(Indexed(ix, e), Append(log, e))
<1>1. CASE e.status = "none"
  <2>1. Indexed(ix, e) = ix
    BY <1>1 DEF Indexed
  <2>2. \A i \in Subject : Promised!LastTrace(Append(log, e), i) = Promised!LastTrace(log, i)
    BY <1>1, LastTraceOfMore DEF Bears
  <2> QED BY <2>1, <2>2 DEF IndexOf, LatestIs
<1>2. CASE e.status # "none"
  <2> DEFINE after == Indexed(ix, e)
             list(key) == ix.successes[key]
             longer(key) == Place(list(key), Record(e))
  <2>1. /\ ix \in Indexes /\ LatestIs(ix, log) /\ ReservationsAre(ix)
        /\ SuccessesSorted(ix) /\ SuccessesListed(ix)
    BY DEF IndexOf
  <2>2. /\ after \in Indexes
        /\ \A i \in Subject :
             after.latest[i] = IF i = e.intent THEN TraceOf(e) ELSE ix.latest[i]
        /\ \A key \in Key, i \in Subject :
             after.reservations[key][i] =
               IF Keyed(key, e.intent) /\ i = e.intent
               THEN IF Open(e.status) THEN TraceOf(e) ELSE NoTrace
               ELSE ix.reservations[key][i]
        /\ \A key \in Key :
             after.successes[key] =
               IF Keyed(key, e.intent) /\ e.status = "SUCCESS" THEN longer(key) ELSE list(key)
    BY <1>2, <2>1, IndexedIs
  <2> HIDE DEF after
  <2>3. /\ Record(e) \in Success /\ Record(e).intent = e.intent /\ Record(e).at = e.at
        /\ TraceOf(e).status = e.status /\ TraceOf(e).at = e.at
    BY DEF Record, Success, Added, TraceOf
  <2>4. LatestIs(after, Append(log, e))
    <3> SUFFICES ASSUME NEW i \in Subject
                 PROVE  after.latest[i] = Promised!LastTrace(Append(log, e), i)
      BY DEF LatestIs
    <3>1. Promised!LastTrace(Append(log, e), i) =
            IF Bears(e, i) THEN TraceOf(e) ELSE Promised!LastTrace(log, i)
      BY LastTraceOfMore
    <3>2. Bears(e, i) <=> i = e.intent
      BY <1>2 DEF Bears
    <3> QED BY <2>1, <2>2, <3>1, <3>2 DEF LatestIs
  <2>5. ReservationsAre(after)
    <3> SUFFICES ASSUME NEW key \in Key, NEW i \in Subject
                 PROVE  after.reservations[key][i] =
                          IF Keyed(key, i) /\ Open(after.latest[i].status)
                          THEN after.latest[i] ELSE NoTrace
      BY DEF ReservationsAre
    <3>1. CASE i = e.intent
      <4>1. CASE Keyed(key, i)
        BY <2>2, <2>3, <3>1, <4>1
      <4>2. CASE ~Keyed(key, i)
        <5>1. after.reservations[key][i] = ix.reservations[key][i]
          BY <2>2, <3>1, <4>2
        <5> QED BY <2>1, <4>2, <5>1 DEF ReservationsAre
      <4> QED BY <4>1, <4>2
    <3>2. CASE i # e.intent
      <4>1. after.reservations[key][i] = ix.reservations[key][i] /\ after.latest[i] = ix.latest[i]
        BY <2>2, <3>2
      <4> QED BY <2>1, <4>1 DEF ReservationsAre
    <3> QED BY <3>1, <3>2
  <2>6. ASSUME NEW key \in Key
        PROVE  /\ longer(key) \in Seq(Success) /\ Sorted(longer(key))
               /\ \A j \in 1..Len(longer(key)) :
                    \/ longer(key)[j] = Record(e)
                    \/ \E k \in 1..Len(list(key)) : longer(key)[j] = list(key)[k]
               /\ \A k \in 1..Len(list(key)) :
                    \E j \in 1..Len(longer(key)) : longer(key)[j] = list(key)[k]
               /\ \E j \in 1..Len(longer(key)) : longer(key)[j] = Record(e)
    <3>1. list(key) \in Seq(Success) /\ Sorted(list(key))
      BY <2>1 DEF Indexes, SuccessesSorted
    <3> QED BY <2>3, <3>1, PlaceSorts
  <2> HIDE DEF longer
  <2>7. SuccessesSorted(after)
    <3> SUFFICES ASSUME NEW key \in Key
                 PROVE  /\ Sorted(after.successes[key])
                        /\ \A j \in 1..Len(after.successes[key]) :
                             Keyed(key, after.successes[key][j].intent)
      BY DEF SuccessesSorted
    <3>1. /\ Sorted(list(key))
          /\ \A j \in 1..Len(list(key)) : Keyed(key, list(key)[j].intent)
      BY <2>1 DEF SuccessesSorted
    <3>2. CASE ~(Keyed(key, e.intent) /\ e.status = "SUCCESS")
      BY <2>2, <3>1, <3>2
    <3>3. CASE Keyed(key, e.intent) /\ e.status = "SUCCESS"
      <4>1. after.successes[key] = longer(key)
        BY <2>2, <3>3
      <4> QED BY <2>3, <2>6, <3>1, <3>3, <4>1
    <3> QED BY <3>2, <3>3
  <2>8. SuccessesListed(after)
    <3> SUFFICES ASSUME NEW key \in Key, NEW i \in Subject,
                        Keyed(key, i), after.latest[i].status = "SUCCESS"
                 PROVE  Listed(after.successes[key], i, after.latest[i].at)
      BY DEF SuccessesListed
    <3>1. CASE i = e.intent
      <4>1. e.status = "SUCCESS" /\ after.latest[i].at = e.at
        BY <2>2, <2>3, <3>1
      <4>2. after.successes[key] = longer(key)
        BY <2>2, <3>1, <4>1
      <4>3. PICK j \in 1..Len(longer(key)) : longer(key)[j] = Record(e)
        BY <2>6
      <4> QED BY <2>3, <3>1, <4>1, <4>2, <4>3 DEF Listed
    <3>2. CASE i # e.intent
      <4>1. after.latest[i] = ix.latest[i]
        BY <2>2, <3>2
      <4>2. PICK k \in 1..Len(list(key)) :
              list(key)[k].intent = i /\ list(key)[k].at = ix.latest[i].at
        BY <2>1, <4>1 DEF SuccessesListed, Listed
      <4>3. CASE after.successes[key] = list(key)
        BY <4>1, <4>2, <4>3 DEF Listed
      <4>4. CASE after.successes[key] = longer(key)
        <5>1. PICK j \in 1..Len(longer(key)) : longer(key)[j] = list(key)[k]
          BY <2>6, <4>2
        <5> QED BY <4>1, <4>2, <4>4, <5>1 DEF Listed
      <4> QED BY <2>2, <4>3, <4>4
    <3> QED BY <3>1, <3>2
  <2> QED BY <2>2, <2>4, <2>5, <2>7, <2>8 DEF IndexOf, after
<1> QED BY <1>1, <1>2

-----------------------------------------------------------------------------
(* The events of a transaction, one after the other, over the indexes.     *)
Folded(ix, p, f, s) == IF s = {} THEN ix ELSE Indexed(f[s \ {Max(s)}], p[Max(s)])
Folds(ix, p, n, f) == f = [s \in SUBSET (1..n) |-> Folded(ix, p, f, s)]

LEMMA FoldIs ==
  ASSUME NEW ix, NEW p \in Seq(Added)
  PROVE  FoldLeft(Indexed, ix, p) = (CHOOSE f : Folds(ix, p, Len(p), f))[1..Len(p)]
<1>1. DOMAIN p = 1..Len(p)
  BY LenProperties
<1>2. FoldLeft(Indexed, ix, p) =
        (CHOOSE f : f = [s \in SUBSET DOMAIN p |-> Folded(ix, p, f, s)])[DOMAIN p]
  BY DEF FoldLeft, MapThenFoldSet, Folded
<1> QED BY <1>1, <1>2 DEF Folds

LEMMA FoldsAt ==
  ASSUME NEW ix, NEW p, NEW n, NEW f, Folds(ix, p, n, f), NEW s \in SUBSET (1..n)
  PROVE  f[s] = Folded(ix, p, f, s)
<1> DEFINE F == [t \in SUBSET (1..n) |-> Folded(ix, p, f, t)]
<1>1. F[s] = Folded(ix, p, f, s)
  OBVIOUS
<1>2. f = F
  BY DEF Folds
<1> HIDE DEF F
<1> QED BY <1>1, <1>2

LEMMA MaxIs ==
  ASSUME NEW n \in Nat, NEW s \in SUBSET (1..n), NEW m \in s, \A k \in s : k <= m
  PROVE  Max(s) = m
<1>1. \A k \in s : k \in Nat /\ m \in Nat /\ m >= k
  OBVIOUS
<1>2. Max(s) \in s /\ \A k \in s : Max(s) >= k
  BY <1>1 DEF Max
<1>3. Max(s) <= m /\ m <= Max(s) /\ Max(s) \in Nat /\ m \in Nat
  BY <1>1, <1>2
<1> QED BY <1>3

(* A fold over the subsets of 1..n makes one over those of 1..n+1. *)
LEMMA FoldGoesOn ==
  ASSUME NEW ix, NEW p, NEW n \in Nat, NEW f, Folds(ix, p, n, f)
  PROVE  \E g : Folds(ix, p, n + 1, g)
<1> DEFINE m == n + 1
           Value(s) == IF m \in s THEN Indexed(f[s \ {m}], p[m]) ELSE f[s]
           g == [s \in SUBSET (1..m) |-> Value(s)]
<1>1. \A s \in SUBSET (1..m) : m \notin s => s \in SUBSET (1..n)
  OBVIOUS
<1>2. \A s \in SUBSET (1..m) : g[s] = Value(s)
  OBVIOUS
<1> HIDE DEF g
<1>3. ASSUME NEW s \in SUBSET (1..m)
      PROVE  Value(s) = Folded(ix, p, g, s)
  <2>1. CASE m \in s
    <3>1. Max(s) = m
      BY <2>1, MaxIs
    <3>2. s \ {m} \in SUBSET (1..m) /\ m \notin s \ {m}
      OBVIOUS
    <3>3. g[s \ {m}] = f[s \ {m}]
      BY <1>2, <3>2
    <3>4. Folded(ix, p, g, s) = Indexed(g[s \ {m}], p[m])
      BY <2>1, <3>1 DEF Folded
    <3> QED BY <2>1, <3>3, <3>4
  <2>2. CASE m \notin s
    <3>1. s \in SUBSET (1..n)
      BY <1>1, <2>2
    <3>2. f[s] = Folded(ix, p, f, s)
      BY <3>1, FoldsAt
    <3>3. s \ {Max(s)} \in SUBSET (1..m) /\ m \notin s \ {Max(s)}
      BY <2>2
    <3>4. g[s \ {Max(s)}] = f[s \ {Max(s)}]
      BY <1>2, <3>3
    <3> QED BY <2>2, <3>2, <3>4 DEF Folded
  <2> QED BY <2>1, <2>2
<1>4. g = [s \in SUBSET (1..m) |-> Folded(ix, p, g, s)]
  <2>1. g = [s \in SUBSET (1..m) |-> Value(s)]
    BY DEF g
  <2> HIDE DEF Value
  <2> QED BY <1>3, <2>1, Zenon
<1> QED BY <1>4 DEF Folds

LEMMA FoldExists ==
  ASSUME NEW ix, NEW p \in Seq(Added)
  PROVE  \E f : Folds(ix, p, Len(p), f)
<1> DEFINE T == {n \in Nat : ~ \E f : Folds(ix, p, n, f)}
<1>1. Len(p) \in Nat
  BY LenProperties
<1> SUFFICES ASSUME T # {} PROVE FALSE
  BY <1>1
<1>2. PICK n \in T : \A k \in T : n <= k
  <2>1. T \subseteq Nat
    OBVIOUS
  <2> HIDE DEF T
  <2> QED BY <2>1, LeastOf
<1>3. n # 0
  <2> DEFINE f == [s \in SUBSET (1..0) |-> ix]
  <2>1. \A s \in SUBSET (1..0) : s = {}
    OBVIOUS
  <2>2. \A s \in SUBSET (1..0) : Folded(ix, p, f, s) = ix
    BY <2>1 DEF Folded
  <2>3. f = [s \in SUBSET (1..0) |-> Folded(ix, p, f, s)]
    BY <2>2, Zenon
  <2>4. Folds(ix, p, 0, f)
    BY <2>3 DEF Folds
  <2> QED BY <1>2, <2>4
<1>4. n - 1 \in Nat /\ (n - 1) + 1 = n /\ ~(n <= n - 1)
  BY <1>2, <1>3
<1>5. n - 1 \notin T
  BY <1>2, <1>4
<1>6. PICK f : Folds(ix, p, n - 1, f)
  BY <1>4, <1>5
<1>7. \E g : Folds(ix, p, n, g)
  BY <1>4, <1>6, FoldGoesOn
<1> QED BY <1>2, <1>7

LEMMA PrefixGrows ==
  ASSUME NEW p \in Seq(Added), NEW k \in 1..Len(p)
  PROVE  SubSeq(p, 1, k) = Append(SubSeq(p, 1, k - 1), p[k])
<1>1. Len(p) \in Nat /\ k - 1 \in Nat /\ k \in Nat /\ \A j \in 1..Len(p) : p[j] \in Added
  BY ElementOfSeq, LenProperties
<1> DEFINE u == SubSeq(p, 1, k)
           v == SubSeq(p, 1, k - 1)
<1>2. u \in Seq(Added) /\ Len(u) = k /\ \A j \in 1..k : u[j] = p[j]
  BY <1>1, SubSeqProperties
<1>3. v \in Seq(Added) /\ Len(v) = k - 1 /\ \A j \in 1..(k - 1) : v[j] = p[j]
  BY <1>1, SubSeqProperties
<1> HIDE DEF u, v
<1>4. /\ Append(v, p[k]) \in Seq(Added) /\ Len(Append(v, p[k])) = k
      /\ \A j \in 1..(k - 1) : Append(v, p[k])[j] = v[j]
      /\ Append(v, p[k])[k] = p[k]
  BY <1>1, <1>3, AppendProperties
<1>5. \A j \in 1..k : u[j] = Append(v, p[k])[j]
  <2> TAKE j \in 1..k
  <2>1. CASE j = k
    BY <1>2, <1>4, <2>1
  <2>2. CASE j # k
    <3>1. j \in 1..(k - 1)
      BY <1>1, <2>2
    <3> QED BY <1>2, <1>3, <1>4, <3>1
  <2> QED BY <2>1, <2>2
<1>6. u = Append(v, p[k])
  BY <1>2, <1>4, <1>5, SeqEqual
<1> QED BY <1>6 DEF u, v

LEMMA ConcatAppend ==
  ASSUME NEW S, NEW u \in Seq(S), NEW v \in Seq(S), NEW e \in S
  PROVE  u \o Append(v, e) = Append(u \o v, e)
<1>1. Append(v, e) = v \o <<e>> /\ <<e>> \in Seq(S)
  BY AppendIsConcat
<1>2. u \o v \in Seq(S)
  BY ConcatProperties
<1>3. Append(u \o v, e) = (u \o v) \o <<e>>
  BY <1>2, AppendIsConcat
<1> QED BY <1>1, <1>3, ConcatAssociative

(* The indexes of a log, and those of the log with a transaction added.    *)
LEMMA IndexOfAll ==
  ASSUME NEW log \in Seq(Added), NEW ix, IndexOf(ix, log), NEW p \in Seq(Added)
  PROVE  IndexOf(FoldLeft(Indexed, ix, p), log \o p)
<1> DEFINE f == CHOOSE g : Folds(ix, p, Len(p), g)
<1>1. Folds(ix, p, Len(p), f)
  BY FoldExists
<1> HIDE DEF f
<1>2. Len(p) \in Nat /\ \A j \in 1..Len(p) : p[j] \in Added
  BY ElementOfSeq, LenProperties
<1> DEFINE Good(k) == IndexOf(f[1..k], log \o SubSeq(p, 1, k))
           T == {k \in 0..Len(p) : ~Good(k)}
<1>3. Good(0)
  <2>1. 1..0 = {} /\ SubSeq(p, 1, 0) = <<>>
    BY SubSeqEmpty
  <2>2. f[{}] = ix
    BY <1>1, FoldsAt DEF Folded
  <2>3. log \o <<>> = log
    BY ConcatEmptySeq
  <2> QED BY <2>1, <2>2, <2>3
<1>4. ASSUME NEW k \in 1..Len(p), Good(k - 1)
      PROVE  Good(k)
  <2>1. /\ 1..k \in SUBSET (1..Len(p)) /\ k \in 1..k /\ \A j \in 1..k : j <= k
        /\ (1..k) \ {k} = 1..(k - 1) /\ 1..k # {}
    <3>1. k \in Nat /\ 1 <= k /\ k <= Len(p)
      BY <1>2
    <3> QED BY <1>2, <3>1
  <2>2. Max(1..k) = k
    BY <1>2, <2>1, MaxIs
  <2>3. f[1..k] = Indexed(f[1..(k - 1)], p[k])
    <3>1. f[1..k] = Folded(ix, p, f, 1..k)
      BY <1>1, <2>1, FoldsAt
    <3> QED BY <2>1, <2>2, <3>1 DEF Folded
  <2> DEFINE front == SubSeq(p, 1, k - 1)
  <2>4. front \in Seq(Added)
    BY <1>2, SubSeqProperties
  <2> HIDE DEF front
  <2>5. log \o front \in Seq(Added) /\ p[k] \in Added
    BY <1>2, <2>4, ConcatProperties
  <2>6. SubSeq(p, 1, k) = Append(front, p[k])
    BY PrefixGrows DEF front
  <2>7. log \o Append(front, p[k]) = Append(log \o front, p[k])
    BY <1>2, <2>4, ConcatAppend
  <2>8. IndexOf(Indexed(f[1..(k - 1)], p[k]), Append(log \o front, p[k]))
    BY <1>4, <2>5, IndexGoesOn DEF front
  <2> QED BY <2>3, <2>6, <2>7, <2>8
<1> HIDE DEF Good
<1>5. T = {}
  <2> SUFFICES ASSUME T # {} PROVE FALSE
    OBVIOUS
  <2>1. PICK k \in T : \A j \in T : k <= j
    <3>1. T \subseteq Nat
      BY <1>2
    <3> HIDE DEF T
    <3> QED BY <3>1, LeastOf
  <2>2. k # 0
    BY <1>3, <2>1
  <2>3. k \in 1..Len(p) /\ k - 1 \in 0..Len(p) /\ ~(k <= k - 1)
    BY <1>2, <2>1, <2>2
  <2>4. Good(k - 1)
    BY <2>1, <2>3
  <2> QED BY <1>4, <2>1, <2>3, <2>4
<1>6. Good(Len(p))
  BY <1>2, <1>5
<1>7. SubSeq(p, 1, Len(p)) = p
  BY SubSeqFull
<1> QED BY <1>6, <1>7, FoldIs DEF Good, f

-----------------------------------------------------------------------------
(* Queries: what the store's indexes answer, and what a transaction sees.  *)
Held == [latest |-> latest, successes |-> successes, reservations |-> reservations]

(* The slice of a sorted list that the two ends of a query cut out. *)
LEMMA SliceIs ==
  ASSUME NEW list \in Seq(Success), Sorted(list), NEW from \in Int, NEW to \in Int
  PROVE  LET low == FirstAfter(list, from)
             end == {j \in (low + 1)..Len(list) : list[j].at > to}
             high == IF end = {} THEN Len(list)
                     ELSE (CHOOSE j \in end : \A k \in end : j <= k) - 1
         IN  /\ (low + 1)..high \subseteq 1..Len(list)
             /\ \A j \in 1..Len(list) :
                  j \in (low + 1)..high <=> list[j].at > from /\ list[j].at <= to
<1> DEFINE low == FirstAfter(list, from)
           end == {j \in (low + 1)..Len(list) : list[j].at > to}
           least == CHOOSE j \in end : \A k \in end : j <= k
           high == IF end = {} THEN Len(list) ELSE least - 1
           Cut(first, last) == /\ first..last \subseteq 1..Len(list)
                               /\ \A j \in 1..Len(list) :
                                    j \in first..last <=> list[j].at > from /\ list[j].at <= to
<1>1. Len(list) \in Nat /\ \A j \in 1..Len(list) : list[j] \in Success
  BY ElementOfSeq, LenProperties
<1>2. \A j \in 1..Len(list) : list[j].at \in Nat
  BY <1>1 DEF Success
<1>3. low \in 0..Len(list) /\ \A j \in 1..Len(list) : list[j].at <= from <=> j <= low
  BY SearchFinds DEF Splits
<1> HIDE DEF low
<1>4. ASSUME end = {} PROVE Cut(low + 1, high)
  <2>1. high = Len(list)
    BY <1>4
  <2> HIDE DEF high
  <2>2. \A j \in (low + 1)..Len(list) : ~(list[j].at > to)
    BY <1>4
  <2>3. (low + 1)..high \subseteq 1..Len(list)
    BY <1>1, <1>3, <2>1
  <2>4. ASSUME NEW j \in 1..Len(list)
        PROVE  j \in (low + 1)..high <=> list[j].at > from /\ list[j].at <= to
    BY <1>1, <1>2, <1>3, <2>1, <2>2
  <2> QED BY <2>3, <2>4
<1>5. ASSUME end # {} PROVE Cut(low + 1, high)
  <2>1. \E m \in end : \A k \in end : m <= k
    <3>1. end \subseteq Nat
      BY <1>1, <1>3
    <3> HIDE DEF end
    <3> QED BY <1>5, <3>1, LeastOf
  <2>2. least \in end /\ \A k \in end : least <= k
    BY <2>1
  <2>3. high = least - 1
    BY <1>5
  <2> HIDE DEF least, high
  <2>4. least \in (low + 1)..Len(list) /\ list[least].at > to /\ least \in 1..Len(list)
    BY <1>1, <1>3, <2>2
  <2>5. (low + 1)..high \subseteq 1..Len(list)
    BY <1>1, <1>3, <2>3, <2>4
  <2>6. ASSUME NEW j \in 1..Len(list)
        PROVE  j \in (low + 1)..high <=> list[j].at > from /\ list[j].at <= to
    <3>1. list[j].at > from <=> j \in (low + 1)..Len(list)
      BY <1>1, <1>2, <1>3
    <3>2. ASSUME j \in (low + 1)..Len(list) PROVE list[j].at <= to <=> j < least
      <4>1. j >= least => list[j].at > to
        <5>1. j >= least => list[least].at <= list[j].at
          BY <1>1, <2>4 DEF Sorted
        <5> QED BY <1>2, <2>4, <5>1
      <4>2. list[j].at > to => least <= j
        BY <2>2, <3>2
      <4> QED BY <1>1, <1>2, <1>3, <2>4, <4>1, <4>2
    <3>3. j \in (low + 1)..high <=> j \in (low + 1)..Len(list) /\ j < least
      BY <1>1, <1>3, <2>3, <2>4
    <3> QED BY <3>1, <3>2, <3>3
  <2> QED BY <2>5, <2>6
<1>6. Cut(low + 1, high)
  BY <1>4, <1>5
<1> QED BY <1>6 DEF low

LEMMA StoreQueryIs ==
  ASSUME NEW log, IndexOf(Held, log),
         NEW key \in Key, NEW from \in Int, NEW to \in Int, NEW open \in BOOLEAN
  PROVE  StoreQuery(key, from, to, open) =
           {i \in Subject : Matches(i, latest[i], key, from, to, open)}
<1> DEFINE list == successes[key]
           low == FirstAfter(list, from)
           end == {j \in (low + 1)..Len(list) : list[j].at > to}
           high == IF end = {} THEN Len(list)
                   ELSE (CHOOSE j \in end : \A k \in end : j <= k) - 1
           slice == {j \in (low + 1)..high :
                       latest[list[j].intent] = [status |-> "SUCCESS", at |-> list[j].at]}
           done == {list[j].intent : j \in slice}
           reserved == {i \in Subject : open /\ reservations[key][i] # NoTrace
                                       /\ reservations[key][i].at <= to}
<1>1. /\ Held \in Indexes /\ LatestIs(Held, log) /\ ReservationsAre(Held)
      /\ SuccessesSorted(Held) /\ SuccessesListed(Held)
      /\ Held.latest = latest /\ Held.successes = successes /\ Held.reservations = reservations
  BY DEF IndexOf, Held
<1>2. /\ list \in Seq(Success) /\ Sorted(list)
      /\ \A j \in 1..Len(list) : Keyed(key, list[j].intent)
      /\ \A i \in Subject : latest[i] \in TraceRecord
  BY <1>1 DEF Indexes, SuccessesSorted
<1>3. /\ (low + 1)..high \subseteq 1..Len(list)
      /\ \A j \in 1..Len(list) :
           j \in (low + 1)..high <=> list[j].at > from /\ list[j].at <= to
  BY <1>2, SliceIs
<1>4. StoreQuery(key, from, to, open) = done \cup reserved
  BY DEF StoreQuery
<1> HIDE DEF high, end, low, list
<1>5. \A j \in 1..Len(list) : list[j] \in Success
  BY <1>2, ElementOfSeq
<1>6. ASSUME NEW i \in Subject
      PROVE  i \in done <=> /\ Keyed(key, i) /\ latest[i].status = "SUCCESS"
                            /\ latest[i].at > from /\ latest[i].at <= to
  <2>1. ASSUME i \in done
        PROVE  /\ Keyed(key, i) /\ latest[i].status = "SUCCESS"
               /\ latest[i].at > from /\ latest[i].at <= to
    <3>1. PICK j \in slice : i = list[j].intent
      BY <2>1
    <3>2. j \in 1..Len(list) /\ list[j].at > from /\ list[j].at <= to
      BY <1>3, <3>1
    <3>3. latest[i] = [status |-> "SUCCESS", at |-> list[j].at]
      BY <3>1
    <3> QED BY <1>2, <3>1, <3>2, <3>3
  <2>2. ASSUME Keyed(key, i), latest[i].status = "SUCCESS",
               latest[i].at > from, latest[i].at <= to
        PROVE  i \in done
    <3>1. PICK j \in 1..Len(list) : list[j].intent = i /\ list[j].at = latest[i].at
      BY <1>1, <2>2 DEF SuccessesListed, Listed, list
    <3>2. j \in (low + 1)..high
      BY <1>3, <2>2, <3>1
    <3>3. latest[i] = [status |-> "SUCCESS", at |-> latest[i].at]
      BY <1>2, <2>2 DEF TraceRecord
    <3>4. latest[list[j].intent] = [status |-> "SUCCESS", at |-> list[j].at]
      BY <3>1, <3>3
    <3>5. j \in slice
      BY <3>2, <3>4
    <3> QED BY <3>1, <3>5
  <2> QED BY <2>1, <2>2
<1>7. done \subseteq Subject
  <2> SUFFICES ASSUME NEW j \in slice PROVE list[j].intent \in Subject
    OBVIOUS
  <2>1. j \in 1..Len(list)
    BY <1>3
  <2> QED BY <1>5, <2>1 DEF Success
<1>8. ASSUME NEW i \in Subject
      PROVE  i \in reserved <=> /\ Keyed(key, i) /\ open /\ latest[i].at <= to
                                /\ latest[i].status \in {"RESERVED", "RUNNING"}
  <2>1. reservations[key][i] =
          IF Keyed(key, i) /\ Open(latest[i].status) THEN latest[i] ELSE NoTrace
    BY <1>1 DEF ReservationsAre
  <2>2. Open(latest[i].status) => latest[i] # NoTrace
    BY DEF Open, NoTrace
  <2>3. Open(latest[i].status) <=> latest[i].status \in {"RESERVED", "RUNNING"}
    BY DEF Open
  <2> QED BY <2>1, <2>2, <2>3
<1>9. \A i \in Subject : i \in done \/ i \in reserved <=> Matches(i, latest[i], key, from, to, open)
  BY <1>6, <1>8 DEF Matches, Keyed
<1> HIDE DEF done, reserved
<1>10. reserved \subseteq Subject
  BY DEF reserved
<1> QED BY <1>4, <1>7, <1>9, <1>10

LEMMA TxQueryIs ==
  ASSUME NEW log, IndexOf(Held, log),
         NEW key \in Key, NEW from \in Int, NEW to \in Int, NEW open \in BOOLEAN
  PROVE  TxQuery(key, from, to, open) =
           {i \in Subject : Matches(i, Latest(i), key, from, to, open)}
<1>1. StoreQuery(key, from, to, open) =
        {i \in Subject : Matches(i, latest[i], key, from, to, open)}
  BY StoreQueryIs
<1>2. \A i \in Subject : Latest(i) = IF changed[i] # NoTrace THEN changed[i] ELSE latest[i]
  BY DEF Latest
<1>3. \A i \in Subject : i \in TxQuery(key, from, to, open) <=>
                         Matches(i, Latest(i), key, from, to, open)
  BY <1>1, <1>2 DEF TxQuery
<1>4. TxQuery(key, from, to, open) \subseteq Subject
  BY <1>1 DEF TxQuery
<1> QED BY <1>3, <1>4

-----------------------------------------------------------------------------
(* One transaction at a time, over a log of whole ones.                    *)
Input == [intent: Subject, status: TraceStatus, at: Nat]

MemoryTypes ==
  /\ events \in Seq(Added) /\ pending \in Seq(Added) /\ waiting \in Seq(Work)
  /\ changed \in [Subject -> TraceRecord]
  /\ phase \in [Work -> {"idle", "work", "ok", "failed"}]

(* The buffer is what the transaction sees after the committed events. *)
Buffered == \A i \in Subject : Latest(i) = Promised!LastTrace(events \o pending, i)

(* It is empty while nobody runs, and the runner's own events in turn else. *)
Running ==
  IF waiting = <<>> THEN pending = <<>> /\ changed = Untouched
  ELSE /\ Promised!InTurn(events, pending, Head(waiting))
       /\ Len(pending) <= Len(Script[Head(waiting)])

(* Nobody queues twice, or after it has ended. *)
Queued ==
  /\ \A j \in 1..Len(waiting) : phase[waiting[j]] = "work"
  /\ \A j, k \in 1..Len(waiting) : waiting[j] = waiting[k] => j = k

Unseen == \A t \in Work : phase[t] \in {"idle", "work"} =>
            \A j \in 1..Len(events) : events[j].tx # t

MemoryInv == /\ MemoryTypes /\ IndexOf(Held, events) /\ Buffered
             /\ Running /\ Queued /\ Unseen

(* What a transaction accepts is what the log allows after its own events. *)
LEMMA AcceptsIsLegal ==
  ASSUME MemoryTypes, IndexOf(Held, events), Buffered, NEW input \in Input
  PROVE  Accepts(input) <=> Promised!Legal(events \o pending, input)
<1> DEFINE seen == events \o pending
           last(i) == Promised!LastTrace(seen, i)
           query == TxQuery(Everyone, input.at - Span, input.at, TRUE)
           fits(used) == input.status = "RESERVED" =>
                           Cardinality(used \ {input.intent}) + 1 <= Cap
<1>1. /\ input.intent \in Subject /\ input.at \in Nat /\ Span \in Int
      /\ input.at - Span \in Int /\ input.at \in Int /\ Everyone \in Key
  BY TimesAreNumbers DEF Input, Key
<1>2. seen \in Seq(Added)
  BY ConcatProperties DEF MemoryTypes
<1>3. \A i \in Subject : Latest(i) = last(i) /\ last(i) \in TraceRecord
  BY <1>2, LastTraceTyped DEF Buffered
<1> HIDE DEF last
<1>4. query = {i \in Subject : Matches(i, last(i), Everyone, input.at - Span, input.at, TRUE)}
  <2>1. query = {i \in Subject : Matches(i, Latest(i), Everyone, input.at - Span, input.at, TRUE)}
    BY <1>1, TxQueryIs
  <2> HIDE DEF query
  <2> QED BY <1>3, <2>1
<1>5. Promised!Spent(seen, input.at) =
        {i \in Subject : last(i).at <= input.at /\ Promised!Counts(last(i), input.at, Span)}
  BY DEF Promised!Spent, last
<1>6. ASSUME NEW i \in Subject
      PROVE  Matches(i, last(i), Everyone, input.at - Span, input.at, TRUE) <=>
             last(i).at <= input.at /\ Promised!Counts(last(i), input.at, Span)
  <2>1. last(i).at \in Nat
    BY <1>3 DEF TraceRecord
  <2>2. last(i).at > input.at - Span <=> last(i).at + Span > input.at
    BY <1>1, <2>1
  <2> QED BY <2>2 DEF Matches, Promised!Counts
<1>7. query = Promised!Spent(seen, input.at)
  <2> HIDE DEF query
  <2> QED BY <1>4, <1>5, <1>6
<1>8. Accepts(input) <=>
        /\ input.status # "none" => Follows(last(input.intent), input.status, input.at)
        /\ fits(query)
  <2>1. Latest(input.intent) = last(input.intent)
    BY <1>1, <1>3
  <2> QED BY <2>1 DEF Accepts
<1>9. Promised!Legal(seen, input) <=>
        /\ input.status = "none" \/ Follows(last(input.intent), input.status, input.at)
        /\ fits(Promised!Spent(seen, input.at))
  BY DEF Promised!Legal, Promised!Follows, Follows, last, Promised!Cardinality, Cardinality
<1> HIDE DEF query, fits, seen
<1> QED BY <1>7, <1>8, <1>9 DEF seen

LEMMA FinalizedIsAdded ==
  ASSUME NEW s \in Seq(Added), NEW t \in Work, NEW input \in Input
  PROVE  /\ Promised!Finalized(s, t, input) \in Added
         /\ Promised!Finalized(s, t, input).intent = input.intent
         /\ Promised!Finalized(s, t, input).status = input.status
         /\ Promised!Finalized(s, t, input).at = input.at
<1> DEFINE same == {j \in DOMAIN s : s[j].intent = input.intent}
<1>1. same \subseteq 1..Len(s) /\ Len(s) \in Nat
  BY LenProperties
<1>2. IsFiniteSet(same)
  <2> HIDE DEF same
  <2>1. IsFiniteSet(1..Len(s))
    BY <1>1, FS_Interval
  <2> QED BY <1>1, <2>1, FS_Subset
<1>3. 1 + Cardinality(same) \in Nat
  BY <1>2, FS_CardinalityType
<1>4. Promised!Finalized(s, t, input) =
        [tx |-> t, intent |-> input.intent, status |-> input.status, at |-> input.at,
         seq |-> 1 + Cardinality(same)]
  BY DEF Promised!Finalized, Promised!Cardinality, Cardinality
<1> HIDE DEF same
<1> QED BY <1>3, <1>4 DEF Added, Input

(* The first events of a longer sequence are those of the shorter one. *)
LEMMA FirstOfAppend ==
  ASSUME NEW S, NEW s \in Seq(S), NEW e \in S, NEW n \in 0..Len(s)
  PROVE  SubSeq(Append(s, e), 1, n) = SubSeq(s, 1, n)
<1> DEFINE longer == Append(s, e)
<1>1. /\ longer \in Seq(S) /\ Len(longer) = Len(s) + 1 /\ Len(s) \in Nat
      /\ \A j \in 1..Len(s) : longer[j] = s[j]
  BY AppendProperties, LenProperties
<1> HIDE DEF longer
<1>2. \A j \in 1..n : s[j] \in S /\ longer[j] = s[j] /\ longer[j] \in S
  BY <1>1, ElementOfSeq
<1>3. /\ SubSeq(s, 1, n) \in Seq(S) /\ Len(SubSeq(s, 1, n)) = n
      /\ \A j \in 1..n : SubSeq(s, 1, n)[j] = s[j]
  BY <1>1, <1>2, SubSeqProperties
<1>4. /\ SubSeq(longer, 1, n) \in Seq(S) /\ Len(SubSeq(longer, 1, n)) = n
      /\ \A j \in 1..n : SubSeq(longer, 1, n)[j] = longer[j]
  BY <1>1, <1>2, SubSeqProperties
<1>5. SubSeq(longer, 1, n) = SubSeq(s, 1, n)
  BY <1>2, <1>3, <1>4, SeqEqual
<1> QED BY <1>5 DEF longer

LEMMA NextInTurn ==
  ASSUME NEW t, NEW s, NEW d \in Seq(Added), NEW e \in Added, Promised!InTurn(s, d, t),
         Promised!Legal(s \o d, Script[t][Len(d) + 1]),
         e = Promised!Finalized(s \o d, t, Script[t][Len(d) + 1])
  PROVE  Promised!InTurn(s, Append(d, e), t)
<1>1. /\ Append(d, e) \in Seq(Added) /\ Len(Append(d, e)) = Len(d) + 1 /\ Len(d) \in Nat
      /\ \A i \in 1..Len(d) : Append(d, e)[i] = d[i]
      /\ Append(d, e)[Len(d) + 1] = e
  BY AppendProperties, LenProperties
<1>2. DOMAIN Append(d, e) = 1..Len(d) + 1 /\ DOMAIN d = 1..Len(d)
  BY <1>1, LenProperties
<1> DEFINE Right(seen, event, k) == /\ Promised!Legal(seen, Script[t][k])
                                    /\ event = Promised!Finalized(seen, t, Script[t][k])
<1>3. \A k \in DOMAIN d : Right(s \o SubSeq(d, 1, k - 1), d[k], k)
  BY DEF Promised!InTurn
<1>4. ASSUME NEW k \in DOMAIN Append(d, e)
      PROVE  Right(s \o SubSeq(Append(d, e), 1, k - 1), Append(d, e)[k], k)
  <2>1. k - 1 \in 0..Len(d)
    BY <1>1, <1>2
  <2>2. SubSeq(Append(d, e), 1, k - 1) = SubSeq(d, 1, k - 1)
    BY <2>1, FirstOfAppend
  <2>3. CASE k = Len(d) + 1
    <3>1. SubSeq(d, 1, k - 1) = d
      BY <1>1, <2>3, SubSeqFull
    <3>2. Append(d, e)[k] = e
      BY <1>1, <2>3
    <3> QED BY <2>2, <2>3, <3>1, <3>2
  <2>4. CASE k # Len(d) + 1
    <3>1. k \in DOMAIN d
      BY <1>1, <1>2, <2>4
    <3>2. Append(d, e)[k] = d[k]
      BY <1>1, <1>2, <3>1
    <3> HIDE DEF Right
    <3> QED BY <1>3, <2>2, <3>1, <3>2
  <2> QED BY <2>3, <2>4
<1> QED BY <1>4 DEF Promised!InTurn

LEMMA InTurnIsItsOwn ==
  ASSUME NEW t, NEW s, NEW d, Promised!InTurn(s, d, t)
  PROVE  \A k \in DOMAIN d : d[k].tx = t
<1>1. \A seen, input : Promised!Finalized(seen, t, input).tx = t
  BY DEF Promised!Finalized
<1>2. \A k \in DOMAIN d : d[k] = Promised!Finalized(s \o SubSeq(d, 1, k - 1), t, Script[t][k])
  BY DEF Promised!InTurn
<1> QED BY <1>1, <1>2

LEMMA ScriptTypes ==
  ASSUME NEW t \in Work
  PROVE  /\ Len(Script[t]) \in Nat /\ \A k \in 1..Len(Script[t]) : Script[t][k] \in Input
<1>1. Script[t] \in Seq(Input)
  BY ScriptsAreInputs DEF Input
<1> QED BY <1>1, ElementOfSeq, LenProperties

LEMMA MemoryInitInv == ASSUME MemoryInit PROVE MemoryInv
<1>1. MemoryTypes
  BY DEF MemoryInit, MemoryTypes, Untouched, NoTrace, TraceRecord, TraceStatus
<1>2. IndexOf(Held, events)
  <2>1. \A i \in Subject : latest[i] = NoTrace /\ Promised!LastTrace(events, i) = NoTrace
    BY LastTraceOfNothing DEF MemoryInit, Untouched
  <2>2. \A key \in Key : successes[key] = <<>> /\ Len(successes[key]) = 0
    BY DEF MemoryInit
  <2>3. \A key \in Key, i \in Subject : reservations[key][i] = NoTrace
    BY DEF MemoryInit, Untouched
  <2>4. Held \in Indexes
    BY DEF MemoryInit, Held, Indexes, Untouched, NoTrace, TraceRecord, TraceStatus
  <2>5. LatestIs(Held, events) /\ ReservationsAre(Held)
    BY <2>1, <2>3 DEF LatestIs, ReservationsAre, Held
  <2>6. SuccessesSorted(Held)
    BY <2>2 DEF SuccessesSorted, Sorted, Held
  <2>7. SuccessesListed(Held)
    BY <2>1 DEF SuccessesListed, Held, NoTrace
  <2> QED BY <2>4, <2>5, <2>6, <2>7 DEF IndexOf
<1>3. Buffered
  <2>1. events \o pending = <<>>
    BY DEF MemoryInit
  <2> QED BY <2>1, LastTraceOfNothing DEF MemoryInit, Buffered, Latest, Untouched
<1> QED BY <1>1, <1>2, <1>3 DEF MemoryInit, MemoryInv, Running, Queued, Unseen

LEMMA EntersKeeps == ASSUME MemoryInv, NEW t \in Work, Enters(t) PROVE MemoryInv'
<1> USE DEF MemoryInv
<1>1. /\ phase[t] = "idle" /\ phase' = [phase EXCEPT ![t] = "work"] /\ waiting' = Append(waiting, t)
      /\ UNCHANGED <<events, latest, successes, reservations, pending, changed>>
  BY DEF Enters, indexes
<1>2. phase'[t] = "work" /\ \A u \in Work : u # t => phase'[u] = phase[u]
  BY <1>1 DEF MemoryTypes
<1>3. /\ waiting \in Seq(Work) /\ Len(waiting) \in Nat /\ \A j \in 1..Len(waiting) : waiting[j] \in Work
  BY ElementOfSeq, LenProperties DEF MemoryTypes
<1>4. /\ waiting' \in Seq(Work) /\ Len(waiting') = Len(waiting) + 1
      /\ \A j \in 1..Len(waiting) : waiting'[j] = waiting[j]
      /\ waiting'[Len(waiting) + 1] = t
  BY <1>1, <1>3, AppendProperties
<1>5. MemoryTypes'
  BY <1>1, <1>4 DEF MemoryTypes
<1>6. IndexOf(Held, events)' /\ Buffered'
  BY <1>1 DEF IndexOf, Held, LatestIs, ReservationsAre, SuccessesSorted, SuccessesListed, Buffered, Latest
<1>7. Running'
  <2>1. waiting' # <<>> /\ Head(waiting') = IF waiting = <<>> THEN t ELSE Head(waiting)
    BY <1>1, <1>3, HeadTailAppend
  <2>2. CASE waiting = <<>>
    <3>1. pending = <<>> /\ Len(pending) = 0
      BY <2>2 DEF Running
    <3>2. Promised!InTurn(events, pending, t)
      BY <3>1 DEF Promised!InTurn
    <3> QED BY <1>1, <2>1, <2>2, <3>1, <3>2, ScriptTypes DEF Running
  <2>3. CASE waiting # <<>>
    BY <1>1, <2>1, <2>3 DEF Running
  <2> QED BY <2>2, <2>3
<1>8. Queued'
  <2>1. \A j \in 1..Len(waiting) : waiting[j] # t
    BY <1>1 DEF Queued
  <2>2. \A j \in 1..Len(waiting') : j \in 1..Len(waiting) \/ j = Len(waiting) + 1
    BY <1>3, <1>4
  <2> QED BY <1>2, <1>3, <1>4, <2>1, <2>2 DEF Queued
<1>9. Unseen'
  BY <1>1, <1>2 DEF Unseen
<1> QED BY <1>5, <1>6, <1>7, <1>8, <1>9

LEMMA HeadIsQueued ==
  ASSUME MemoryTypes, waiting # <<>>
  PROVE  /\ 1 \in 1..Len(waiting) /\ Head(waiting) = waiting[1] /\ waiting[1] \in Work
         /\ Len(waiting) \in Nat /\ Len(waiting) > 0
<1>1. waiting \in Seq(Work) /\ Len(waiting) \in Nat /\ Len(waiting) # 0
  BY LenProperties, EmptySeq DEF MemoryTypes
<1> QED BY <1>1, ElementOfSeq, HeadTailProperties

LEMMA AppendEventKeeps ==
  ASSUME MemoryInv, NEW t \in Work, AppendEvent(t)
  PROVE  MemoryInv'
<1> USE DEF MemoryInv
<1> DEFINE input == NextAppend(t)
           e == Promised!Finalized(events \o pending, t, input)
           trace == [status |-> input.status, at |-> input.at]
<1>1. /\ waiting # <<>> /\ Head(waiting) = t /\ Len(pending) < Len(Script[t]) /\ Accepts(input)
      /\ pending' = Append(pending, e)
      /\ changed' = IF input.status = "none" THEN changed ELSE [changed EXCEPT ![input.intent] = trace]
      /\ UNCHANGED <<events, latest, successes, reservations, waiting, phase>>
  BY DEF AppendEvent, indexes
<1>2. /\ pending \in Seq(Added) /\ events \in Seq(Added) /\ Len(pending) \in Nat
      /\ events \o pending \in Seq(Added)
  BY LenProperties, ConcatProperties DEF MemoryTypes
<1>3. /\ input \in Input /\ input = Script[t][Len(pending) + 1]
  BY <1>1, <1>2, ScriptTypes DEF NextAppend
<1> HIDE DEF input
<1>4. /\ e \in Added /\ e.intent = input.intent /\ e.status = input.status /\ e.at = input.at
  BY <1>2, <1>3, FinalizedIsAdded
<1>5. Promised!Legal(events \o pending, input)
  BY <1>1, <1>3, AcceptsIsLegal
<1>6. Promised!InTurn(events, pending', t)
  <2>1. Promised!InTurn(events, pending, t)
    BY <1>1 DEF Running
  <2> QED BY <1>1, <1>2, <1>3, <1>4, <1>5, <2>1, NextInTurn
<1> HIDE DEF e
<1>7. pending' \in Seq(Added) /\ Len(pending') = Len(pending) + 1
  BY <1>1, <1>2, <1>4, AppendProperties
<1>8. trace \in TraceRecord /\ input.intent \in Subject /\ trace = TraceOf(e)
  BY <1>3, <1>4 DEF Input, TraceRecord, TraceOf
<1>9. MemoryTypes'
  BY <1>1, <1>7, <1>8 DEF MemoryTypes
<1>10. IndexOf(Held, events)'
  BY <1>1 DEF IndexOf, Held, LatestIs, ReservationsAre, SuccessesSorted, SuccessesListed
<1>11. Buffered'
  <2>1. events \o pending' = Append(events \o pending, e)
    BY <1>1, <1>2, <1>4, ConcatAppend
  <2>2. ASSUME NEW i \in Subject
        PROVE  Latest(i)' = Promised!LastTrace(events \o pending', i)
    <3>1. Promised!LastTrace(events \o pending', i) =
            IF Bears(e, i) THEN TraceOf(e) ELSE Promised!LastTrace(events \o pending, i)
      BY <1>2, <1>4, <2>1, LastTraceOfMore
    <3>2. Latest(i) = Promised!LastTrace(events \o pending, i)
      BY DEF Buffered
    <3>3. CASE Bears(e, i)
      <4>1. input.status # "none" /\ i = input.intent
        BY <1>4, <3>3 DEF Bears
      <4>2. changed'[i] = trace /\ trace # NoTrace
        BY <1>1, <4>1 DEF MemoryTypes, NoTrace
      <4> QED BY <1>8, <3>1, <3>3, <4>2 DEF Latest
    <3>4. CASE ~Bears(e, i)
      <4>1. changed'[i] = changed[i]
        BY <1>1, <1>4, <3>4 DEF Bears, MemoryTypes
      <4> QED BY <1>1, <3>1, <3>2, <3>4, <4>1 DEF Latest
    <3> QED BY <3>3, <3>4
  <2> QED BY <1>1, <2>2 DEF Buffered
<1>12. Running'
  <2>1. Len(pending') <= Len(Script[t])
    BY <1>1, <1>2, <1>7, ScriptTypes
  <2> QED BY <1>1, <1>6, <2>1 DEF Running
<1>13. Queued' /\ Unseen'
  BY <1>1 DEF Queued, Unseen
<1> QED BY <1>9, <1>10, <1>11, <1>12, <1>13

(* However it ends, the next in the queue starts with an empty buffer. *)
LEMMA ClosedKeeps ==
  ASSUME MemoryTypes, Queued, waiting # <<>>, NEW t \in Work, Head(waiting) = t,
         NEW answer \in {"ok", "failed"}, Closed(t, answer)
  PROVE  /\ phase[t] = "work" /\ phase'[t] = answer
         /\ \A u \in Work : u # t => phase'[u] = phase[u]
         /\ phase' \in [Work -> {"idle", "work", "ok", "failed"}]
         /\ waiting' \in Seq(Work) /\ pending' = <<>> /\ changed' = Untouched
         /\ Queued' /\ Running'
<1>1. /\ waiting' = Tail(waiting) /\ pending' = <<>> /\ changed' = Untouched
      /\ phase' = [phase EXCEPT ![t] = answer]
  BY DEF Closed
<1>2. phase'[t] = answer /\ \A u \in Work : u # t => phase'[u] = phase[u]
  BY <1>1 DEF MemoryTypes
<1>3. /\ 1 \in 1..Len(waiting) /\ waiting[1] = t /\ Len(waiting) \in Nat
      /\ phase[t] = "work"
  BY HeadIsQueued DEF Queued
<1>4. /\ waiting' \in Seq(Work) /\ Len(waiting') = Len(waiting) - 1
      /\ \A j \in 1..Len(waiting') : waiting'[j] = waiting[j + 1]
  BY <1>1, HeadTailProperties DEF MemoryTypes
<1>5. \A j \in 1..Len(waiting') : j + 1 \in 1..Len(waiting) /\ j + 1 # 1 /\ waiting[j + 1] \in Work
  <2>1. \A j \in 1..Len(waiting) : waiting[j] \in Work
    BY ElementOfSeq DEF MemoryTypes
  <2> QED BY <1>3, <1>4, <2>1
<1>6. Queued'
  <2>1. ASSUME NEW j \in 1..Len(waiting') PROVE phase'[waiting'[j]] = "work"
    <3>1. waiting[j + 1] # t
      BY <1>3, <1>5 DEF Queued
    <3> QED BY <1>2, <1>4, <1>5, <3>1 DEF Queued
  <2>2. ASSUME NEW j \in 1..Len(waiting'), NEW k \in 1..Len(waiting'), waiting'[j] = waiting'[k]
        PROVE  j = k
    <3>1. j + 1 = k + 1
      BY <1>4, <1>5, <2>2 DEF Queued
    <3> QED BY <3>1
  <2> QED BY <2>1, <2>2 DEF Queued
<1>7. Running'
  <2>1. \A s, u : Promised!InTurn(s, <<>>, u)
    BY DEF Promised!InTurn
  <2>2. waiting' # <<>> => Head(waiting') \in Work
    BY <1>4, HeadTailProperties
  <2>3. waiting' # <<>> => Len(<<>>) <= Len(Script[Head(waiting')])
    BY <2>2, ScriptTypes
  <2> QED BY <1>1, <2>1, <2>3 DEF Running
<1>8. phase' \in [Work -> {"idle", "work", "ok", "failed"}]
  BY <1>1 DEF MemoryTypes
<1> QED BY <1>1, <1>2, <1>3, <1>4, <1>6, <1>7, <1>8

(* With an empty buffer a transaction sees the committed events. *)
LEMMA NothingBuffered ==
  ASSUME NEW ix, NEW log \in Seq(Added), IndexOf(ix, log), NEW i \in Subject
  PROVE  ix.latest[i] = Promised!LastTrace(log \o <<>>, i)
BY ConcatEmptySeq DEF IndexOf, LatestIs

LEMMA BufferedAgain ==
  ASSUME events' \in Seq(Added), IndexOf(Held, events)', pending' = <<>>, changed' = Untouched
  PROVE  Buffered'
<1>1. ASSUME NEW i \in Subject PROVE Latest(i)' = Promised!LastTrace(events' \o pending', i)
  <2>1. Latest(i)' = latest'[i]
    BY DEF Latest, Untouched
  <2>2. Held'.latest = latest'
    BY DEF Held
  <2>3. Held'.latest[i] = Promised!LastTrace(events' \o <<>>, i)
    BY NothingBuffered DEF IndexOf
  <2> QED BY <2>1, <2>2, <2>3
<1> QED BY <1>1 DEF Buffered

LEMMA RefusedKeeps == ASSUME MemoryInv, NEW t \in Work, Refuse(t) PROVE MemoryInv'
<1> USE DEF MemoryInv
<1>1. /\ waiting # <<>> /\ Head(waiting) = t /\ Closed(t, "failed")
      /\ UNCHANGED <<events, latest, successes, reservations>>
  BY DEF Refuse, indexes
<1>2. /\ phase[t] = "work" /\ phase'[t] = "failed"
      /\ \A u \in Work : u # t => phase'[u] = phase[u]
      /\ phase' \in [Work -> {"idle", "work", "ok", "failed"}]
      /\ waiting' \in Seq(Work) /\ pending' = <<>> /\ changed' = Untouched
      /\ Queued' /\ Running'
  BY <1>1, ClosedKeeps
<1>3. IndexOf(Held, events)'
  BY <1>1 DEF IndexOf, Held, LatestIs, ReservationsAre, SuccessesSorted, SuccessesListed
<1>4. MemoryTypes'
  BY <1>1, <1>2 DEF MemoryTypes, Untouched, NoTrace, TraceRecord, TraceStatus
<1>5. Buffered'
  BY <1>2, <1>3, <1>4, BufferedAgain DEF MemoryTypes
<1>6. Unseen'
  BY <1>1, <1>2 DEF Unseen
<1> QED BY <1>2, <1>3, <1>4, <1>5, <1>6

(* A commit adds the buffer, event by event, to the log and the indexes. *)
LEMMA CommittedKeeps == ASSUME MemoryInv, NEW t \in Work, CommitAll(t) PROVE MemoryInv'
<1> USE DEF MemoryInv
<1> DEFINE after == FoldLeft(Indexed, Held, pending)
<1>1. /\ waiting # <<>> /\ Head(waiting) = t /\ Closed(t, "ok") /\ events' = events \o pending
      /\ latest' = after.latest /\ successes' = after.successes
      /\ reservations' = after.reservations
  BY DEF CommitAll, Held
<1>2. /\ phase[t] = "work" /\ phase'[t] = "ok"
      /\ \A u \in Work : u # t => phase'[u] = phase[u]
      /\ phase' \in [Work -> {"idle", "work", "ok", "failed"}]
      /\ waiting' \in Seq(Work) /\ pending' = <<>> /\ changed' = Untouched
      /\ Queued' /\ Running'
  BY <1>1, ClosedKeeps
<1>3. events \in Seq(Added) /\ pending \in Seq(Added)
  BY DEF MemoryTypes
<1>4. IndexOf(after, events')
  BY <1>1, <1>3, IndexOfAll
<1> HIDE DEF after
<1>5. Held' = after
  BY <1>1, <1>4 DEF IndexOf, Indexes, Held
<1>6. IndexOf(Held, events)'
  BY <1>4, <1>5 DEF IndexOf, LatestIs, ReservationsAre, SuccessesSorted, SuccessesListed
<1>7. events' \in Seq(Added)
  BY <1>1, <1>3, ConcatProperties
<1>8. MemoryTypes'
  BY <1>2, <1>7 DEF MemoryTypes, Untouched, NoTrace, TraceRecord, TraceStatus
<1>9. Buffered'
  BY <1>2, <1>6, <1>7, BufferedAgain
<1>10. Unseen'
  <2> SUFFICES ASSUME NEW u \in Work, phase'[u] \in {"idle", "work"}, NEW j \in 1..Len(events')
               PROVE  events'[j].tx # u
    BY DEF Unseen
  <2>1. u # t /\ phase[u] \in {"idle", "work"}
    BY <1>2
  <2>2. /\ Len(events) \in Nat /\ Len(pending) \in Nat
        /\ Len(events \o pending) = Len(events) + Len(pending)
        /\ \A k \in 1..Len(events) + Len(pending) :
             (events \o pending)[k] = IF k <= Len(events) THEN events[k] ELSE pending[k - Len(events)]
    BY <1>3, ConcatProperties, LenProperties
  <2>3. CASE j <= Len(events)
    BY <1>1, <2>1, <2>2, <2>3 DEF Unseen
  <2>4. CASE ~(j <= Len(events))
    <3>1. j - Len(events) \in 1..Len(pending) /\ events'[j] = pending[j - Len(events)]
      BY <1>1, <2>2, <2>4
    <3>2. \A k \in 1..Len(pending) : pending[k].tx = t
      <4>1. Promised!InTurn(events, pending, t)
        BY <1>1 DEF Running
      <4>2. DOMAIN pending = 1..Len(pending)
        BY <1>3, LenProperties
      <4> QED BY <4>1, <4>2, InTurnIsItsOwn
    <3> QED BY <2>1, <3>1, <3>2
  <2> QED BY <2>3, <2>4
<1> QED BY <1>2, <1>6, <1>8, <1>9, <1>10

LEMMA MemoryStepInv == ASSUME MemoryInv, [MemoryNext]_memoryVars PROVE MemoryInv'
<1>1. CASE UNCHANGED memoryVars
  BY <1>1 DEF memoryVars, indexes, MemoryInv, MemoryTypes, IndexOf, Held, LatestIs, ReservationsAre,
     SuccessesSorted, SuccessesListed, Buffered, Latest, Running, Queued, Unseen
<1>2. CASE MemoryNext
  BY <1>2, EntersKeeps, AppendEventKeeps, RefusedKeeps, CommittedKeeps DEF MemoryNext
<1> QED BY <1>1, <1>2

(* The in-memory store's sorted and keyed indexes answer every query with  *)
(* exactly the proposals whose last trace matches it, and a transaction's  *)
(* own buffer is part of the answer, for any transactions and any bounds   *)
(* of a query (InMemoryIEECStore.ts:40-44, 67-116).                        *)
THEOREM QueriesExact == MemorySpec => []QueriesAreExact
<1>1. MemoryInv => QueriesAreExact
  <2> SUFFICES ASSUME MemoryInv, NEW key \in Key, NEW from \in Times, NEW to \in Times,
                      NEW open \in BOOLEAN
               PROVE  QueryIsExact(key, from, to, open) /\ OwnWritesAreSeen(key, from, to, open)
    BY DEF QueriesAreExact
  <2>1. from \in Int /\ to \in Int
    BY TimesAreNumbers
  <2>2. IndexOf(Held, events) /\ Buffered
    BY DEF MemoryInv
  <2>3. \A i \in Subject : latest[i] = Promised!LastTrace(events, i)
    BY <2>2 DEF IndexOf, LatestIs, Held
  <2>4. QueryIsExact(key, from, to, open)
    <3>1. StoreQuery(key, from, to, open) =
            {i \in Subject : Matches(i, latest[i], key, from, to, open)}
      BY <2>1, <2>2, StoreQueryIs
    <3> QED BY <2>3, <3>1 DEF QueryIsExact
  <2>5. OwnWritesAreSeen(key, from, to, open)
    <3>1. TxQuery(key, from, to, open) =
            {i \in Subject : Matches(i, Latest(i), key, from, to, open)}
      BY <2>1, <2>2, TxQueryIs
    <3> QED BY <2>2, <3>1 DEF OwnWritesAreSeen, Buffered
  <2> QED BY <2>4, <2>5
<1> QED BY <1>1, MemoryInitInv, MemoryStepInv, PTL DEF MemorySpec

(* A commit of the store is one of the log, whole and with every decision  *)
(* of the transaction still true of it; no other step shows.               *)
LEMMA MemoryStepIsLogged ==
  ASSUME MemoryInv, [MemoryNext]_memoryVars
  PROVE  [Promised!Next]_events
<1> SUFFICES ASSUME events' # events PROVE Promised!Next
  OBVIOUS
<1>1. PICK t \in Work : CommitAll(t)
  BY DEF MemoryNext, memoryVars, Enters, AppendEvent, Refuse
<1>2. /\ waiting # <<>> /\ Head(waiting) = t /\ Len(pending) = Len(Script[t])
      /\ events' = events \o pending
  BY <1>1 DEF CommitAll
<1>3. /\ events \in Seq(Added) /\ pending \in Seq(Added)
      /\ Len(events) \in Nat /\ Len(pending) \in Nat
  BY LenProperties DEF MemoryInv, MemoryTypes
<1>4. Len(events') = Len(events) + Len(pending)
  BY <1>2, <1>3, ConcatProperties
<1>5. SubSeq(events', Len(events) + 1, Len(events')) = pending
  <2>1. CASE Len(pending) = 0
    <3>1. pending = <<>> /\ Len(events') < Len(events) + 1
      BY <1>3, <1>4, <2>1, EmptySeq
    <3> QED BY <1>3, <1>4, <3>1, SubSeqEmpty
  <2>2. CASE Len(pending) # 0
    <3>1. /\ Len(events) + 1 \in Len(events) + 1..Len(events) + Len(pending)
          /\ Len(events') \in Len(events) + 1..Len(events) + Len(pending)
      BY <1>3, <1>4, <2>2
    <3>2. SubSeq(events \o pending, Len(events) + 1, Len(events')) =
            SubSeq(pending, Len(events) + 1 - Len(events), Len(events') - Len(events))
      BY <1>3, <3>1, SubSeqOfConcat2
    <3>3. Len(events) + 1 - Len(events) = 1 /\ Len(events') - Len(events) = Len(pending)
      BY <1>3, <1>4
    <3> QED BY <1>2, <1>3, <3>2, <3>3, SubSeqFull
  <2> QED BY <2>1, <2>2
<1>6. \A j \in DOMAIN events : events[j].tx # t
  <2>1. phase[t] = "work"
    BY <1>2, HeadIsQueued DEF MemoryInv, Queued
  <2> QED BY <1>3, <2>1, LenProperties DEF MemoryInv, Unseen
<1>7. Promised!InTurn(events, pending, t)
  BY <1>2 DEF MemoryInv, Running
<1>8. Promised!Commit(t)
  BY <1>2, <1>5, <1>6, <1>7 DEF Promised!Commit
<1> QED BY <1>8 DEF Promised!Next

(* The in-memory store implements the evidence log, for any transactions   *)
(* and any rate limit: whole transactions only, each event legal and       *)
(* numbered after the log it is added to (InMemoryIEECStore.ts:16-53).     *)
THEOREM MemoryLogImplemented == MemorySpec => MemoryImplementsLog
<1>1. MemoryInit => Promised!Init
  BY DEF MemoryInit, Promised!Init
<1> QED BY <1>1, MemoryInitInv, MemoryStepInv, MemoryStepIsLogged, PTL
        DEF MemorySpec, MemoryImplementsLog, Promised!Spec

-----------------------------------------------------------------------------
(* The stable sort by sequence: every event has a rank of its own.         *)
LEMMA RanksArePlaces ==
  ASSUME NEW S, \A e \in S : e.sequence \in Nat, NEW list \in Seq(S)
  PROVE  \A k \in 1..Len(list) : \E i \in 1..Len(list) : Rank(list, i) = k
<1> DEFINE n == Len(list)
           D == 1..n
           E(i) == {j \in D : Earlier(list, j, i)}
           rank == [i \in D |-> Rank(list, i)]
<1>0. n \in Nat /\ DOMAIN list = D /\ \A i \in D : list[i].sequence \in Nat
  BY LenProperties, ElementOfSeq
<1>1. IsFiniteSet(D) /\ Cardinality(D) = n
  <2>1. 1 \in Int /\ n \in Int
    BY <1>0
  <2>2. IsFiniteSet(1..n) /\ Cardinality(1..n) = IF 1 > n THEN 0 ELSE n - 1 + 1
    BY <2>1, FS_Interval
  <2> QED BY <1>0, <2>2
<1> HIDE DEF D
<1>d. \A i \in D : i \in Nat /\ 1 <= i /\ i <= n
  BY <1>0 DEF D
<1>2. \A i \in D : IsFiniteSet(E(i)) /\ Cardinality(E(i)) \in Nat /\ Rank(list, i) = 1 + Cardinality(E(i))
  <2> TAKE i \in D
  <2>1. E(i) \in SUBSET D
    OBVIOUS
  <2>2. Rank(list, i) = 1 + Cardinality(E(i))
    BY <1>0 DEF Rank
  <2> HIDE DEF E
  <2> QED BY <1>1, <2>1, <2>2, FS_Subset, FS_CardinalityType
<1>3. \A i \in D : Cardinality(E(i)) < n
  <2> TAKE i \in D
  <2>1. E(i) \in SUBSET D /\ i \in D /\ i \notin E(i)
    BY <1>0, <1>d DEF Earlier
  <2> HIDE DEF E
  <2>2. Cardinality(E(i)) <= n /\ (n = Cardinality(E(i)) => D = E(i))
    BY <1>1, <2>1, FS_Subset
  <2> QED BY <1>0, <1>2, <2>1, <2>2
<1>4. \A i, j \in D : i # j => Rank(list, i) # Rank(list, j)
  <2>1. ASSUME NEW i \in D, NEW j \in D, Earlier(list, i, j)
        PROVE  Cardinality(E(i)) < Cardinality(E(j))
    <3>1. E(i) \in SUBSET E(j) /\ i \in E(j) /\ i \notin E(i)
      BY <1>0, <1>d, <2>1 DEF Earlier
    <3> HIDE DEF E
    <3>2. /\ Cardinality(E(i)) <= Cardinality(E(j))
          /\ Cardinality(E(j)) = Cardinality(E(i)) => E(j) = E(i)
      BY <1>2, <3>1, FS_Subset
    <3> QED BY <1>2, <3>1, <3>2
  <2>2. \A i, j \in D : i # j => Earlier(list, i, j) \/ Earlier(list, j, i)
    BY <1>0, <1>d DEF Earlier
  <2> HIDE DEF E
  <2> TAKE i \in D, j \in D
  <2> HAVE i # j
  <2>3. Cardinality(E(i)) \in Nat /\ Cardinality(E(j)) \in Nat
    BY <1>2
  <2>4. Cardinality(E(i)) < Cardinality(E(j)) \/ Cardinality(E(j)) < Cardinality(E(i))
    BY <2>1, <2>2
  <2> QED BY <1>2, <2>3, <2>4
<1>5. rank \in [D -> D]
  <2> SUFFICES ASSUME NEW i \in D PROVE Rank(list, i) \in D
    OBVIOUS
  <2> HIDE DEF E
  <2>1. Cardinality(E(i)) \in Nat /\ Cardinality(E(i)) < n /\ Rank(list, i) = 1 + Cardinality(E(i))
    BY <1>2, <1>3
  <2> QED BY <1>0, <2>1 DEF D
<1>6. rank \in Injection(D, D)
  BY <1>4, <1>5 DEF Injection, IsInjective
<1>7. rank \in Surjection(D, D)
  <2> HIDE DEF rank
  <2> QED BY <1>1, <1>6, FS_Injection
<1>8. \A k \in D : \E i \in D : rank[i] = k
  BY <1>7 DEF Surjection
<1>9. \A k \in D : \E i \in D : Rank(list, i) = k
  BY <1>8
<1> QED BY <1>9 DEF D

LEMMA OrderedHasThemAll ==
  ASSUME NEW S, \A e \in S : e.sequence \in Nat, NEW list \in Seq(S)
  PROVE  /\ Ordered(list) \in Seq(S) /\ Len(Ordered(list)) = Len(list)
         /\ \A i \in 1..Len(list) : \E k \in 1..Len(list) : Ordered(list)[k] = list[i]
<1> DEFINE n == Len(list)
           at == [k \in 1..n |-> CHOOSE i \in 1..n : Rank(list, i) = k]
<1>0. n \in Nat /\ DOMAIN list = 1..n /\ \A i \in 1..n : list[i] \in S
  BY LenProperties, ElementOfSeq
<1>1. \A k \in 1..n : \E i \in 1..n : Rank(list, i) = k
  BY RanksArePlaces
<1>2. at \in [1..n -> 1..n] /\ \A k \in 1..n : Rank(list, at[k]) = k
  BY <1>1
<1>3. Ordered(list) = [k \in 1..n |-> list[at[k]]]
  BY <1>0 DEF Ordered
<1> HIDE DEF at
<1>4. Ordered(list) \in Seq(S) /\ Len(Ordered(list)) = n
  BY <1>0, <1>2, <1>3
<1>5. at \in Injection(1..n, 1..n)
  BY <1>2 DEF Injection, IsInjective
<1>6. at \in Surjection(1..n, 1..n)
  <2>1. IsFiniteSet(1..n)
    BY <1>0, FS_Interval
  <2> QED BY <1>5, <2>1, FS_Injection
<1>7. \A i \in 1..n : \E k \in 1..n : at[k] = i
  BY <1>6 DEF Surjection
<1>8. ASSUME NEW i \in 1..n PROVE \E k \in 1..n : Ordered(list)[k] = list[i]
  <2>1. PICK k \in 1..n : at[k] = i
    BY <1>7
  <2> QED BY <1>3, <2>1
<1> QED BY <1>4, <1>8

-----------------------------------------------------------------------------
(* The events of one intent: what was appended is a chain, and whatever    *)
(* damage does to a copy, it makes up no hash.                             *)
EventOf(c) == [sequence: Nat, payload: Body,
               previous: {NoHash} \cup {c[i].hash : i \in 1..Len(c)},
               hash: {c[i].hash : i \in 1..Len(c)}]

PreviousOf(c, i) == IF i = 1 THEN NoHash ELSE c[i - 1].hash

Chained(c) == \A i \in 1..Len(c) :
  /\ c[i].sequence = i
  /\ c[i].previous = PreviousOf(c, i)
  /\ c[i].hash = Hash(i, c[i].payload, c[i].previous)

EventInv == /\ chain \in Seq(EventOf(chain)) /\ Chained(chain)
            /\ copy \in Seq(EventOf(chain))

LEMMA HashIsSome ==
  ASSUME NEW a, NEW b, NEW c
  PROVE  <<a, b, c>> # <<>>
<1>1. Len(<<a, b, c>>) = 3 /\ Len(<<>>) = 0
  OBVIOUS
<1> QED BY <1>1

(* An event whose hash is right is the appended event that has that hash.  *)
LEMMA RightHashIsGenuine ==
  ASSUME EventInv, NEW e \in EventOf(chain), Recomputed(e) = e.hash
  PROVE  e.sequence \in 1..Len(chain) /\ e = chain[e.sequence]
<1>1. PICK k \in 1..Len(chain) : e.hash = chain[k].hash
  BY DEF EventOf
<1>2. chain[k] \in EventOf(chain)
  BY ElementOfSeq DEF EventInv
<1>3. chain[k].sequence = k /\ chain[k].hash = <<k, chain[k].payload, chain[k].previous>>
  BY DEF EventInv, Chained, Hash
<1>4. e.hash = <<e.sequence, e.payload, e.previous>>
  BY DEF Recomputed, Hash
<1>5. e.sequence = k /\ e.payload = chain[k].payload /\ e.previous = chain[k].previous
  BY <1>1, <1>3, <1>4
<1>6. e = chain[k]
  BY <1>1, <1>2, <1>3, <1>5 DEF EventOf
<1> QED BY <1>5, <1>6

(* The links force each of them to its own place.                          *)
LEMMA IntactIsInPlace ==
  ASSUME EventInv, NEW s \in Seq(EventOf(chain)), Intact(s)
  PROVE  \A i \in 1..Len(s) : s[i].sequence = i
<1> DEFINE Wrong == {i \in 1..Len(s) : s[i].sequence # i}
<1>0. Len(s) \in Nat /\ DOMAIN s = 1..Len(s) /\ \A i \in 1..Len(s) : s[i] \in EventOf(chain)
  BY LenProperties, ElementOfSeq
<1>1. \A i \in 1..Len(s) : s[i].previous = PreviousOf(s, i) /\ Recomputed(s[i]) = s[i].hash
  BY <1>0 DEF Intact, PreviousOf
<1>2. \A i \in 1..Len(s) : s[i].sequence \in 1..Len(chain) /\ s[i] = chain[s[i].sequence]
  BY <1>0, <1>1, RightHashIsGenuine
<1>3. SUFFICES ASSUME Wrong # {} PROVE FALSE
  OBVIOUS
<1>4. PICK m \in Wrong : \A k \in Wrong : m <= k
  <2>1. Wrong \subseteq Nat
    BY <1>0
  <2> QED BY <1>3, <2>1, LeastOf
<1>5. m \in 1..Len(s) /\ s[m].sequence # m
  OBVIOUS
<1> DEFINE q == s[m].sequence
<1>6. q \in 1..Len(chain) /\ s[m] = chain[q] /\ q \in Nat
  BY <1>2, <1>5
<1>c. Len(chain) \in Nat
  BY LenProperties DEF EventInv
<1>7. chain[q].previous = PreviousOf(chain, q)
  BY <1>6 DEF EventInv, Chained
<1>8. \A i \in 1..Len(chain) : chain[i].hash = <<i, chain[i].payload, chain[i].previous>>
  BY DEF EventInv, Chained, Hash
<1>9. CASE m = 1
  <2>1. chain[q].previous = <<>> /\ q # 1
    BY <1>1, <1>5, <1>6, <1>9 DEF PreviousOf, NoHash
  <2>2. q - 1 \in 1..Len(chain) /\ chain[q].previous = chain[q - 1].hash
    BY <1>6, <1>7, <1>c, <2>1 DEF PreviousOf
  <2>3. chain[q - 1].hash = <<q - 1, chain[q - 1].payload, chain[q - 1].previous>>
    BY <1>8, <2>2
  <2> QED BY <2>1, <2>2, <2>3, HashIsSome
<1>10. CASE m # 1
  <2>1. m - 1 \in 1..Len(s) /\ s[m].previous = s[m - 1].hash
    BY <1>0, <1>1, <1>5, <1>10 DEF PreviousOf
  <2>2. s[m - 1].sequence = m - 1
    BY <1>4, <1>5, <2>1
  <2>3. m - 1 \in 1..Len(chain) /\ s[m - 1] = chain[m - 1]
    BY <1>2, <2>1, <2>2
  <2>4. chain[q].previous = <<m - 1, chain[m - 1].payload, chain[m - 1].previous>>
    BY <1>6, <1>8, <2>1, <2>3
  <2>5. q # 1
    BY <1>7, <2>4, HashIsSome DEF PreviousOf, NoHash
  <2>6. q - 1 \in 1..Len(chain) /\ chain[q].previous = chain[q - 1].hash
    BY <1>6, <1>7, <1>c, <2>5 DEF PreviousOf
  <2>7. chain[q - 1].hash = <<q - 1, chain[q - 1].payload, chain[q - 1].previous>>
    BY <1>8, <2>6
  <2>8. q - 1 = m - 1
    BY <2>4, <2>6, <2>7
  <2> QED BY <1>5, <1>6, <2>1, <2>8
<1> QED BY <1>9, <1>10

LEMMA IntactIsPrefix ==
  ASSUME EventInv, NEW s \in Seq(EventOf(chain))
  PROVE  Intact(s) <=> IsPrefix(s, chain)
<1>0. /\ Len(s) \in Nat /\ DOMAIN s = 1..Len(s) /\ \A i \in 1..Len(s) : s[i] \in EventOf(chain)
      /\ Len(chain) \in Nat /\ chain \in Seq(EventOf(chain))
  BY LenProperties, ElementOfSeq DEF EventInv
<1>1. IsPrefix(s, chain) <=> Len(s) <= Len(chain) /\ \A i \in 1..Len(s) : s[i] = chain[i]
  <2>1. SubSeq(s, 1, Len(s)) = s
    BY SubSeqFull
  <2>2. ASSUME Len(s) <= Len(chain)
        PROVE  SubSeq(chain, 1, Len(s)) = s <=> \A i \in 1..Len(s) : s[i] = chain[i]
    <3> DEFINE front == SubSeq(chain, 1, Len(s))
    <3>1. \A i \in 1..Len(s) : chain[i] \in EventOf(chain)
      BY <1>0, <2>2, ElementOfSeq
    <3>2. /\ front \in Seq(EventOf(chain)) /\ Len(front) = Len(s)
          /\ \A i \in 1..Len(s) : front[i] = chain[i]
      BY <1>0, <2>2, <3>1
    <3> HIDE DEF front
    <3>3. (\A i \in 1..Len(s) : s[i] = chain[i]) => front = s
      BY <3>2, SeqEqual
    <3>4. front = s => \A i \in 1..Len(s) : s[i] = chain[i]
      BY <3>2
    <3>5. front = s <=> \A i \in 1..Len(s) : s[i] = chain[i]
      BY <3>3, <3>4
    <3> QED BY <3>5 DEF front
  <2> QED BY <2>1, <2>2 DEF IsPrefix
<1>2. ASSUME Intact(s) PROVE IsPrefix(s, chain)
  <2>1. \A i \in 1..Len(s) : s[i].sequence = i
    BY <1>2, IntactIsInPlace
  <2>2. \A i \in 1..Len(s) : Recomputed(s[i]) = s[i].hash
    BY <1>0, <1>2 DEF Intact
  <2>3. \A i \in 1..Len(s) : i \in 1..Len(chain) /\ s[i] = chain[i]
    BY <1>0, <2>1, <2>2, RightHashIsGenuine
  <2>4. Len(s) <= Len(chain)
    BY <1>0, <2>3
  <2> QED BY <1>1, <2>3, <2>4
<1>3. ASSUME IsPrefix(s, chain) PROVE Intact(s)
  <2>1. Len(s) <= Len(chain) /\ \A i \in 1..Len(s) : s[i] = chain[i]
    BY <1>1, <1>3
  <2>2. ASSUME NEW i \in DOMAIN s
        PROVE  /\ s[i].previous = IF i = 1 THEN NoHash ELSE s[i - 1].hash
               /\ Recomputed(s[i]) = s[i].hash
    <3>1. i \in 1..Len(chain) /\ i \in 1..Len(s) /\ s[i] = chain[i]
      BY <1>0, <2>1
    <3>2. /\ chain[i].sequence = i /\ chain[i].previous = PreviousOf(chain, i)
          /\ chain[i].hash = Hash(i, chain[i].payload, chain[i].previous)
      BY <3>1 DEF EventInv, Chained
    <3>3. i # 1 => i - 1 \in 1..Len(s) /\ s[i - 1] = chain[i - 1]
      BY <1>0, <2>1, <3>1
    <3> QED BY <3>1, <3>2, <3>3 DEF PreviousOf, Recomputed
  <2> QED BY <2>2 DEF Intact
<1> QED BY <1>2, <1>3

LEMMA EventInvHolds ==
  ASSUME EventInv
  PROVE  IntactMeansGenuine /\ VerifiedSourceSucceeded
<1>0. copy \in Seq(EventOf(chain)) /\ \A e \in EventOf(chain) : e.sequence \in Nat
  BY DEF EventInv, EventOf
<1>1. /\ Ordered(copy) \in Seq(EventOf(chain)) /\ Len(Ordered(copy)) = Len(copy)
      /\ \A i \in 1..Len(copy) : \E k \in 1..Len(copy) : Ordered(copy)[k] = copy[i]
  BY <1>0, OrderedHasThemAll
<1>2. IntactMeansGenuine
  BY <1>1, IntactIsPrefix DEF IntactMeansGenuine
<1>3. ASSUME NEW h, SourceVerified(copy, h)
      PROVE  \E g \in Range(chain) : g.hash = h /\ g.payload = Completed
  <2>1. PICK e \in Range(copy) : e.hash = h /\ e.payload = Completed
    BY <1>3 DEF SourceVerified
  <2>2. PICK i \in 1..Len(copy) : e = copy[i]
    BY <1>0, RangeEquality
  <2>3. PICK k \in 1..Len(copy) : Ordered(copy)[k] = e
    BY <1>1, <2>2
  <2>4. Recomputed(e) = e.hash
    <3>1. DOMAIN Ordered(copy) = 1..Len(copy)
      BY <1>1, LenProperties
    <3> QED BY <1>3, <2>3, <3>1 DEF SourceVerified, Intact
  <2>5. e.sequence \in 1..Len(chain) /\ e = chain[e.sequence]
    BY <1>0, <2>2, <2>4, ElementOfSeq, RightHashIsGenuine
  <2>6. e \in Range(chain)
    BY <2>5, RangeEquality DEF EventInv
  <2> QED BY <2>1, <2>6
<1>4. VerifiedSourceSucceeded
  BY <1>3 DEF VerifiedSourceSucceeded
<1> QED BY <1>2, <1>4

LEMMA EventsMayGrow ==
  ASSUME NEW c \in Seq(EventOf(chain)), EventInv, NEW p \in Body
  PROVE  LET longer == Append(chain, Linked(chain, p))
         IN  /\ EventOf(chain) \subseteq EventOf(longer)
             /\ longer \in Seq(EventOf(longer)) /\ Chained(longer)
<1> DEFINE n == Len(chain)
           link == Linked(chain, p)
           longer == Append(chain, link)
           previous == IF chain = <<>> THEN NoHash ELSE Last(chain).hash
<1>0. n \in Nat /\ chain \in Seq(EventOf(chain)) /\ (chain = <<>> <=> n = 0)
  BY EmptySeq, LenProperties DEF EventInv
<1>1. link = [sequence |-> n + 1, payload |-> p, previous |-> previous,
              hash |-> Hash(n + 1, p, previous)]
  BY DEF Linked
<1>2. /\ chain = <<>> => previous = NoHash
      /\ chain # <<>> => previous = chain[n].hash /\ n \in 1..n
  BY <1>0 DEF Last
<1> HIDE DEF link, previous
<1> DEFINE All == EventOf(chain) \cup {link}
<1>3. /\ Len(longer) = n + 1 /\ longer[n + 1] = link
      /\ \A i \in 1..n : longer[i] = chain[i]
      /\ longer \in Seq(All)
  <2>1. chain \in Seq(All) /\ link \in All
    BY <1>0, SeqMonotonic
  <2> HIDE DEF All
  <2> QED BY <2>1, AppendProperties
<1> HIDE DEF longer, All
<1>4. n + 1 \in 1..n + 1 /\ \A i \in 1..n : i \in 1..n + 1
  BY <1>0
<1>5. {chain[i].hash : i \in 1..n} \subseteq {longer[i].hash : i \in 1..n + 1}
  <2> SUFFICES ASSUME NEW i \in 1..n
               PROVE  \E j \in 1..n + 1 : chain[i].hash = longer[j].hash
    OBVIOUS
  <2> QED BY <1>3, <1>4
<1>6. EventOf(chain) \subseteq EventOf(longer)
  <2> DEFINE H == {chain[i].hash : i \in 1..n}
             K == {longer[i].hash : i \in 1..n + 1}
  <2>1. EventOf(chain) = [sequence: Nat, payload: Body, previous: {NoHash} \cup H, hash: H]
    BY DEF EventOf
  <2>2. EventOf(longer) = [sequence: Nat, payload: Body, previous: {NoHash} \cup K, hash: K]
    BY <1>3 DEF EventOf
  <2>3. H \subseteq K
    BY <1>5
  <2> HIDE DEF H, K
  <2> QED BY <2>1, <2>2, <2>3
<1>7. link \in EventOf(longer)
  <2>1. link.hash = Hash(n + 1, p, previous)
    BY <1>1
  <2>2. Hash(n + 1, p, previous) \in {longer[i].hash : i \in 1..Len(longer)}
    BY <1>3, <1>4, <2>1
  <2>3. previous \in {NoHash} \cup {longer[i].hash : i \in 1..Len(longer)}
    BY <1>2, <1>3, <1>4
  <2>4. n + 1 \in Nat
    BY <1>0
  <2> QED BY <1>1, <2>2, <2>3, <2>4 DEF EventOf
<1>8. longer \in Seq(EventOf(longer))
  <2>1. All \subseteq EventOf(longer)
    BY <1>6, <1>7 DEF All
  <2> QED BY <1>3, <2>1, SeqMonotonic
<1>9. Chained(longer)
  <2> SUFFICES ASSUME NEW i \in 1..n + 1
               PROVE  /\ longer[i].sequence = i /\ longer[i].previous = PreviousOf(longer, i)
                      /\ longer[i].hash = Hash(i, longer[i].payload, longer[i].previous)
    BY <1>3 DEF Chained
  <2>1. CASE i \in 1..n
    <3>1. longer[i] = chain[i] /\ (i # 1 => i - 1 \in 1..n /\ longer[i - 1] = chain[i - 1])
      BY <1>0, <1>3, <2>1
    <3> QED BY <2>1, <3>1 DEF EventInv, Chained, PreviousOf
  <2>2. CASE i = n + 1
    <3>1. longer[i] = link /\ (i = 1 <=> chain = <<>>)
      BY <1>0, <1>3, <2>2
    <3>2. i # 1 => i - 1 = n /\ n \in 1..n /\ longer[n] = chain[n]
      BY <1>0, <1>3, <2>2
    <3>3. link.previous = PreviousOf(longer, i)
      <4>1. link.previous = previous
        BY <1>1
      <4> QED BY <1>2, <3>1, <3>2, <4>1 DEF PreviousOf
    <3> QED BY <1>1, <2>2, <3>1, <3>3
  <2>3. i \in 1..n \/ i = n + 1
    BY <1>0
  <2> QED BY <2>1, <2>2, <2>3
<1> QED BY <1>6, <1>8, <1>9 DEF longer, link

LEMMA DamageMakesNoHash ==
  ASSUME EventInv, EventsAreBounded
  PROVE  Damaged(copy) \subseteq Seq(EventOf(chain))
<1> DEFINE E == EventOf(chain)
<1>0. copy \in Seq(E) /\ Len(copy) \in Nat /\ DOMAIN copy = 1..Len(copy) /\ \A i \in 1..Len(copy) : copy[i] \in E
  BY LenProperties, ElementOfSeq DEF EventInv
<1>1. \A e \in E : Altered(e) \subseteq E
  <2> DEFINE H == {chain[i].hash : i \in 1..Len(chain)}
  <2>1. E = [sequence: Nat, payload: Body, previous: {NoHash} \cup H, hash: H]
    BY DEF EventOf
  <2>2. \A g \in Range(chain) : g.hash \in H
    <3>1. Range(chain) = {chain[i] : i \in 1..Len(chain)}
      BY RangeEquality DEF EventInv
    <3> QED BY <3>1
  <2>3. \A n \in 1..MaxEvents : n \in Nat
    BY EventsAreBounded
  <2> HIDE DEF E, H
  <2> TAKE e \in E
  <2>4. ASSUME NEW d \in Altered(e) PROVE d \in E
    BY <2>1, <2>2, <2>3 DEF Altered
  <2> QED BY <2>4
<1> HIDE DEF E
<1>2. ASSUME NEW i \in 1..Len(copy)
      PROVE  /\ RemoveAt(copy, i) \in Seq(E) /\ InsertAt(copy, i, copy[i]) \in Seq(E)
             /\ \A e \in E : ReplaceAt(copy, i, e) \in Seq(E)
  <2>1. SubSeq(copy, 1, i - 1) \in Seq(E) /\ SubSeq(copy, i + 1, Len(copy)) \in Seq(E) /\ SubSeq(copy, i, Len(copy)) \in Seq(E)
    BY <1>0
  <2>2. RemoveAt(copy, i) \in Seq(E)
    BY <2>1, ConcatProperties DEF RemoveAt
  <2>3. <<copy[i]>> \in Seq(E)
    BY <1>0
  <2>4. InsertAt(copy, i, copy[i]) \in Seq(E)
    <3>1. SubSeq(copy, 1, i - 1) \o <<copy[i]>> \in Seq(E)
      BY <2>1, <2>3, ConcatProperties
    <3> QED BY <2>1, <3>1, ConcatProperties DEF InsertAt
  <2>5. \A e \in E : ReplaceAt(copy, i, e) \in Seq(E)
    BY <1>0, ExceptSeq DEF ReplaceAt
  <2> QED BY <2>2, <2>4, <2>5
<1>3. ASSUME NEW c \in Damaged(copy) PROVE c \in Seq(E)
  <2>1. PICK i \in 1..Len(copy) : \/ c = RemoveAt(copy, i) \/ c = InsertAt(copy, i, copy[i])
                                 \/ \E e \in Altered(copy[i]) : c = ReplaceAt(copy, i, e)
    BY <1>0, <1>3 DEF Damaged
  <2> QED BY <1>0, <1>1, <1>2, <2>1
<1> QED BY <1>3 DEF E

LEMMA EventStepInv ==
  ASSUME EventInv, EventsAreBounded, [EventsNext]_eventVars
  PROVE  EventInv'
<1>1. CASE Append1
  <2>1. PICK p \in Body : chain' = Append(chain, Linked(chain, p)) /\ copy' = chain'
    BY <1>1 DEF Append1
  <2>2. EventOf(chain) \subseteq EventOf(chain') /\ chain' \in Seq(EventOf(chain')) /\ Chained(chain')
    BY <2>1, EventsMayGrow DEF EventInv
  <2>3. copy' \in Seq(EventOf(chain'))
    BY <2>1, <2>2
  <2> QED BY <2>2, <2>3 DEF EventInv
<1>2. CASE Damage
  <2>1. copy' \in Seq(EventOf(chain)) /\ chain' = chain
    BY <1>2, DamageMakesNoHash DEF Damage
  <2>2. EventOf(chain') = EventOf(chain) /\ (Chained(chain') <=> Chained(chain))
    BY <2>1
  <2> QED BY <2>1, <2>2 DEF EventInv
<1>3. CASE UNCHANGED eventVars
  BY <1>3 DEF eventVars, EventInv
<1> QED BY <1>1, <1>2, <1>3 DEF EventsNext

-----------------------------------------------------------------------------
(* Links of evidence: the outside of every payload that was linked is      *)
(* frozen, and unless the caller froze it, so is the inside.               *)
PayloadType == payload \in [Payload -> [value: Int, outer: BOOLEAN, inner: BOOLEAN, given: BOOLEAN]]
FrozenByWhom == \A p \in Payload : payload[p].outer => payload[p].inner \/ payload[p].given
LinkIsHeld(link) == link.payload \in Payload /\ payload[link.payload].outer
LinksAreHeld == /\ evidence \in Seq(Range(evidence))
                /\ \A link \in links \cup Range(evidence) : LinkIsHeld(link)
EvidenceInv == PayloadType /\ FrozenByWhom /\ LinksAreHeld /\ ChainsStaySound

LEMMA EvidenceInitInv ==
  ASSUME EvidenceInit
  PROVE  EvidenceInv
<1>1. evidence = <<>> /\ links = {}
  BY DEF EvidenceInit
<1>2. evidence \in Seq({}) /\ Len(evidence) = 0
  BY <1>1
<1>3. Range(evidence) = {} /\ DOMAIN evidence = {}
  <2>1. Range(evidence) \in SUBSET {}
    BY <1>2, RangeOfSeq
  <2>2. DOMAIN evidence = 1..Len(evidence)
    BY <1>2, LenProperties
  <2> QED BY <1>2, <2>1, <2>2
<1>4. PayloadType /\ FrozenByWhom
  BY DEF EvidenceInit, PayloadType, FrozenByWhom
<1>5. LinksAreHeld
  BY <1>1, <1>2, <1>3 DEF LinksAreHeld
<1>6. ChainsStaySound
  BY <1>3 DEF ChainsStaySound, Sound
<1> QED BY <1>4, <1>5, <1>6 DEF EvidenceInv

(* A step that keeps the values of the linked payloads keeps a chain sound.*)
LEMMA ValuesKeepSound ==
  ASSUME EvidenceInv, evidence' = evidence,
         \A p \in Payload : payload[p].given => payload'[p].given,
         \A link \in Range(evidence) :
           payload'[link.payload].value = payload[link.payload].value \/ payload[link.payload].given
  PROVE  ChainsStaySound'
<1>0. /\ evidence \in Seq(Range(evidence)) /\ DOMAIN evidence = 1..Len(evidence)
      /\ \A i \in DOMAIN evidence : evidence[i] \in Range(evidence) /\ evidence[i].payload \in Payload
  <2>1. evidence \in Seq(Range(evidence)) /\ \A link \in Range(evidence) : link.payload \in Payload
    BY DEF EvidenceInv, LinksAreHeld, LinkIsHeld
  <2> QED BY <2>1, LenProperties, ElementOfSeq
<1>1. CASE \E i \in DOMAIN evidence : payload[evidence[i].payload].given
  BY <1>0, <1>1 DEF ChainsStaySound
<1>2. CASE \A i \in DOMAIN evidence : ~payload[evidence[i].payload].given
  <2>1. \A i \in DOMAIN evidence : payload'[evidence[i].payload].value = payload[evidence[i].payload].value
    BY <1>0, <1>2
  <2>2. Sound(evidence)
    BY <1>2 DEF EvidenceInv, ChainsStaySound
  <2>3. Sound(evidence)'
    BY <2>1, <2>2 DEF Sound, Verifies, Content
  <2> QED BY <2>3 DEF ChainsStaySound
<1> QED BY <1>1, <1>2

LEMMA HeldStaysHeld ==
  ASSUME EvidenceInv, evidence' = evidence,
         \A p \in Payload : payload[p].outer => payload'[p].outer,
         \A link \in links' : link \in links \/ (link.payload \in Payload /\ payload'[link.payload].outer)
  PROVE  LinksAreHeld'
BY DEF EvidenceInv, LinksAreHeld, LinkIsHeld

LEMMA EvidenceStepInv ==
  ASSUME EvidenceInv, [EvidenceNext]_evidenceVars
  PROVE  EvidenceInv'
<1> DEFINE Object == [value: Int, outer: BOOLEAN, inner: BOOLEAN, given: BOOLEAN]
<1>0. PayloadType /\ FrozenByWhom /\ LinksAreHeld /\ \A p \in Payload : payload[p] \in Object
  BY DEF EvidenceInv, PayloadType
<1>1. ASSUME NEW p \in Payload, NEW o \in Object, payload' = [payload EXCEPT ![p] = o],
             o.outer => o.inner \/ o.given
      PROVE  PayloadType' /\ FrozenByWhom'
  <2> HIDE DEF Object
  <2>1. payload' \in [Payload -> Object]
    BY <1>0, <1>1 DEF PayloadType, Object
  <2>2. \A q \in Payload : payload'[q] = IF q = p THEN o ELSE payload[q]
    BY <1>0, <1>1 DEF PayloadType
  <2> QED BY <1>0, <1>1, <2>1, <2>2 DEF PayloadType, FrozenByWhom, Object
<1>2. ASSUME payload' = payload
      PROVE  PayloadType' /\ FrozenByWhom'
  BY <1>0, <1>2 DEF PayloadType, FrozenByWhom
<1>3. CASE \E r \in Resource : Mask(r)
  <2>1. UNCHANGED <<payload, links, evidence>>
    BY <1>3 DEF Mask
  <2>2. LinksAreHeld'
    BY <2>1, HeldStaysHeld
  <2> QED BY <1>2, <2>1, <2>2, ValuesKeepSound DEF EvidenceInv
<1>4. ASSUME NEW p \in Payload, NEW t \in Trace, NEW name \in DOMAIN masked, Create(p, t, name)
      PROVE  EvidenceInv'
  <2> DEFINE link == Link(t, Unmask(name), p, Genesis, Unsigned)
             o == Frozen(payload[p])
  <2>1. links' = links \cup {link} /\ payload' = [payload EXCEPT ![p] = o] /\ evidence' = evidence
    BY <1>4 DEF Create
  <2>2. /\ o \in Object /\ o.value = payload[p].value /\ o.given = payload[p].given /\ o.outer
        /\ o.inner \/ o.given
    BY <1>0 DEF Frozen, FrozenByWhom
  <2>3. link.payload = p
    BY DEF Link
  <2> HIDE DEF link, o
  <2>4. \A q \in Payload : payload'[q] = IF q = p THEN o ELSE payload[q]
    BY <1>0, <2>1 DEF PayloadType
  <2>5. PayloadType' /\ FrozenByWhom'
    BY <1>1, <2>1, <2>2
  <2>6. LinksAreHeld'
    <3>1. \A q \in Payload : payload[q].outer => payload'[q].outer
      BY <2>2, <2>4
    <3>2. \A l \in links' : l \in links \/ (l.payload \in Payload /\ payload'[l.payload].outer)
      BY <2>1, <2>2, <2>3, <2>4
    <3> QED BY <2>1, <3>1, <3>2, HeldStaysHeld
  <2>7. ChainsStaySound'
    <3>1. \A q \in Payload : payload'[q].value = payload[q].value /\ payload'[q].given = payload[q].given
      BY <2>2, <2>4
    <3>2. \A l \in Range(evidence) : l.payload \in Payload
      BY <1>0 DEF LinksAreHeld, LinkIsHeld
    <3> QED BY <2>1, <3>1, <3>2, ValuesKeepSound
  <2> QED BY <2>5, <2>6, <2>7 DEF EvidenceInv
<1>5. ASSUME NEW link \in links, NEW s \in Signature, Sign(link, s)
      PROVE  EvidenceInv'
  <2> DEFINE made == Link(link.trace, link.resource, link.payload, link.previous, s)
  <2>1. links' = links \cup {made} /\ UNCHANGED <<payload, evidence>>
    BY <1>5 DEF Sign
  <2>2. made.payload = link.payload
    BY DEF Link
  <2> HIDE DEF made
  <2>3. link.payload \in Payload /\ payload[link.payload].outer
    BY <1>0 DEF LinksAreHeld, LinkIsHeld
  <2>4. LinksAreHeld'
    BY <2>1, <2>2, <2>3, HeldStaysHeld
  <2> QED BY <1>2, <2>1, <2>4, ValuesKeepSound DEF EvidenceInv
<1>6. ASSUME NEW link \in links, Extend(link)
      PROVE  EvidenceInv'
  <2> DEFINE again == Relinked(link)
             longer == Append(evidence, again)
  <2>1. Sound(longer) /\ evidence' = longer /\ UNCHANGED <<payload, links>>
    BY <1>6 DEF Extend
  <2>2. again.payload = link.payload
    BY DEF Relinked, Link
  <2>3. link.payload \in Payload /\ payload[link.payload].outer
    BY <1>0 DEF LinksAreHeld, LinkIsHeld
  <2> HIDE DEF again
  <2>4. longer \in Seq(Range(evidence) \cup {again})
    <3>1. evidence \in Seq(Range(evidence) \cup {again})
      BY <1>0, SeqMonotonic DEF LinksAreHeld
    <3> QED BY <3>1, AppendProperties
  <2>5. longer \in Seq(Range(longer)) /\ Range(longer) \subseteq Range(evidence) \cup {again}
    BY <2>4, SeqOfRange, RangeOfSeq
  <2> HIDE DEF longer
  <2>6. LinksAreHeld'
    BY <1>0, <2>1, <2>2, <2>3, <2>5 DEF LinksAreHeld, LinkIsHeld
  <2>7. Sound(evidence)'
    BY <2>1 DEF Sound, Verifies, Content
  <2> QED BY <1>2, <2>1, <2>6, <2>7 DEF EvidenceInv, ChainsStaySound
<1>7. ASSUME NEW p \in Payload, Freeze(p)
      PROVE  EvidenceInv'
  <2> DEFINE o == [payload[p] EXCEPT !.outer = TRUE, !.given = TRUE]
  <2>1. payload' = [payload EXCEPT ![p] = o] /\ UNCHANGED <<links, evidence>>
    BY <1>0, <1>7 DEF Freeze, PayloadType
  <2>2. o \in Object /\ o.value = payload[p].value /\ o.outer /\ o.given
    BY <1>0
  <2> HIDE DEF o
  <2>3. \A q \in Payload : payload'[q] = IF q = p THEN o ELSE payload[q]
    BY <1>0, <2>1 DEF PayloadType
  <2>4. PayloadType' /\ FrozenByWhom'
    BY <1>1, <2>1, <2>2
  <2>5. LinksAreHeld'
    BY <2>1, <2>2, <2>3, HeldStaysHeld
  <2>6. ChainsStaySound'
    <3>1. \A l \in Range(evidence) : l.payload \in Payload
      BY <1>0 DEF LinksAreHeld, LinkIsHeld
    <3> QED BY <2>1, <2>2, <2>3, <3>1, ValuesKeepSound
  <2> QED BY <2>4, <2>5, <2>6 DEF EvidenceInv
<1>8. ASSUME NEW p \in Payload, Overwrite(p)
      PROVE  EvidenceInv'
  <2> DEFINE o == [payload[p] EXCEPT !.value = 1 - payload[p].value]
  <2>1. payload' = [payload EXCEPT ![p] = o] /\ UNCHANGED <<links, evidence>> /\ ~payload[p].inner
    BY <1>0, <1>8 DEF Overwrite, PayloadType
  <2>2. /\ o \in Object /\ o.outer = payload[p].outer /\ o.inner = payload[p].inner
        /\ o.given = payload[p].given /\ (o.outer => o.inner \/ o.given)
    BY <1>0 DEF FrozenByWhom
  <2> HIDE DEF o
  <2>3. \A q \in Payload : payload'[q] = IF q = p THEN o ELSE payload[q]
    BY <1>0, <2>1 DEF PayloadType
  <2>4. PayloadType' /\ FrozenByWhom'
    BY <1>1, <2>1, <2>2
  <2>5. LinksAreHeld'
    BY <2>1, <2>2, <2>3, HeldStaysHeld
  <2>6. ChainsStaySound'
    <3>1. \A l \in Range(evidence) : /\ l.payload \in Payload
                                     /\ payload[l.payload].inner \/ payload[l.payload].given
      BY <1>0 DEF LinksAreHeld, LinkIsHeld, FrozenByWhom
    <3>2. \A q \in Payload : payload[q].given => payload'[q].given
      BY <2>2, <2>3
    <3>3. \A l \in Range(evidence) :
            payload'[l.payload].value = payload[l.payload].value \/ payload[l.payload].given
      BY <2>1, <2>3, <3>1
    <3> QED BY <2>1, <3>2, <3>3, ValuesKeepSound
  <2> QED BY <2>4, <2>5, <2>6 DEF EvidenceInv
<1>9. CASE UNCHANGED evidenceVars
  <2>1. UNCHANGED <<payload, links, evidence>>
    BY <1>9 DEF evidenceVars
  <2>2. LinksAreHeld'
    BY <2>1, HeldStaysHeld
  <2> QED BY <1>2, <2>1, <2>2, ValuesKeepSound DEF EvidenceInv
<1> QED BY <1>3, <1>4, <1>5, <1>6, <1>7, <1>8, <1>9 DEF EvidenceNext

-----------------------------------------------------------------------------
(* What verifies is what was made, however many events and links there are *)
(* and however often a copy is damaged or a payload written to: replay's   *)
(* integrity check, the source of a capability and the chain of evidence   *)
(* (ReplayEngine.ts:93-128, sdk/client.ts:44-66, EvidenceLink.ts:17-30).   *)
THEOREM ChainsVerifyWhatWasMade == EventsSpec /\ EvidenceSpec => []ChainsAreGenuine
<1>1. EventsInit => EventInv
  <2> SUFFICES ASSUME EventsInit PROVE EventInv
    OBVIOUS
  <2>1. chain \in Seq(EventOf(chain)) /\ copy \in Seq(EventOf(chain)) /\ Len(chain) = 0
    BY EmptySeq DEF EventsInit
  <2> QED BY <2>1 DEF EventInv, Chained
<1>2. EventInv /\ [EventsNext]_eventVars => EventInv'
  BY EventStepInv, EventsAreBounded
<1>3. EvidenceInit => EvidenceInv
  BY EvidenceInitInv
<1>4. EvidenceInv /\ [EvidenceNext]_evidenceVars => EvidenceInv'
  BY EvidenceStepInv
<1>5. EventInv /\ EvidenceInv => ChainsAreGenuine
  BY EventInvHolds DEF EvidenceInv, ChainsAreGenuine
<1> QED BY <1>1, <1>2, <1>3, <1>4, <1>5, PTL DEF EventsSpec, EvidenceSpec
=============================================================================
