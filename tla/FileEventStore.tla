--------------------------- MODULE FileEventStore ---------------------------
(***************************************************************************)
(* FileEventStore (src/core/event/FileEventStore.ts), the store of the     *)
(* command line: one JSON file per intent, read whole and written whole by *)
(* every append.  Writers are the appends of "serve" and of other command  *)
(* line processes; nothing orders those of one intent.                     *)
(***************************************************************************)
EXTENDS Naturals, Sequences

CONSTANTS Writer,    \* appends, each of one event
          IntentOf,  \* the intent each appends to
          NoEvent
ASSUME WritersAreEvents == NoEvent \notin Writer

Filed == {IntentOf[w] : w \in Writer}
Absent == <<>>           \* ENOENT reads as no events
Torn == <<[event |-> NoEvent, seq |-> 0, prev |-> NoEvent]>>  \* JSON.parse throws

VARIABLES file,   \* per intent, the events of its file, or Torn
          found,  \* what an append has read
          append,
          raced   \* history: appends that met another one of their intent
filesVars == <<file, found, append, raced>>

FilesInit == /\ file = [i \in Filed |-> Absent]
             /\ found = [w \in Writer |-> Absent]
             /\ append = [w \in Writer |-> "idle"]
             /\ raced = {}

Busy == {w \in Writer : append[w] \in {"reading", "read", "writing"}}
Rivals(w) == {x \in Busy : IntentOf[x] = IntentOf[w]}
Target(w) == file[IntentOf[w]]

Called(w) == /\ append[w] = "idle"
             /\ append' = [append EXCEPT ![w] = "reading"]
             /\ raced' = raced \cup Rivals(w) \cup (IF Rivals(w) = {} THEN {} ELSE {w})
             /\ UNCHANGED <<file, found>>

(* queryByIntent: readFile and JSON.parse. *)
ReadFile(w) == /\ append[w] = "reading"
               /\ found' = [found EXCEPT ![w] = IF Target(w) = Torn THEN Absent ELSE Target(w)]
               /\ append' = [append EXCEPT ![w] = IF Target(w) = Torn THEN "failed" ELSE "read"]
               /\ UNCHANGED <<file, raced>>

(* The finalized event, linked to the last event that was read. *)
LastEvent(events) == IF events = <<>> THEN [event |-> NoEvent, seq |-> 0, prev |-> NoEvent]
                ELSE events[Len(events)]

Finalized(w) == [event |-> w, seq |-> LastEvent(found[w]).seq + 1, prev |-> LastEvent(found[w]).event]

(* writeFile opens the file, which empties it, and then writes it. *)
Truncate(w) == /\ append[w] = "read"
               /\ file' = [file EXCEPT ![IntentOf[w]] = Torn]
               /\ append' = [append EXCEPT ![w] = "writing"]
               /\ UNCHANGED <<found, raced>>

(* Mutant: the events that were read are not written back. *)
WriteLast(w) ==
  /\ append[w] = "writing"
  /\ file' = [file EXCEPT ![IntentOf[w]] = <<Finalized(w)>>]
  /\ append' = [append EXCEPT ![w] = "ok"]
  /\ UNCHANGED <<found, raced>>

(* The bytes go in from the start of the file: over those of another       *)
(* append, they leave its text or a mixture.                               *)
Write(w) ==
  /\ append[w] = "writing"
  /\ LET whole == Append(found[w], Finalized(w))
     IN file' \in {[file EXCEPT ![IntentOf[w]] = text] :
                     text \in IF Target(w) = Torn THEN {whole} ELSE {whole, Torn}}
  /\ append' = [append EXCEPT ![w] = "ok"]
  /\ UNCHANGED <<found, raced>>

(* The process dies while it writes: the file stays cut short. *)
Die(w) == /\ append[w] = "writing"
          /\ append' = [append EXCEPT ![w] = "crashed"]
          /\ UNCHANGED <<file, found, raced>>

FilesNext == \E w \in Writer : Called(w) \/ ReadFile(w) \/ Truncate(w) \/ Write(w) \/ Die(w)
FilesSpec == FilesInit /\ [][FilesNext]_filesVars
-----------------------------------------------------------------------------
(* What can be read is a chain: numbered from one, each event linked to    *)
(* the one before it, whatever the appends did to each other (:27-39).     *)
EveryReadIsAChain ==
  \A i \in Filed : file[i] # Torn =>
    \A j \in DOMAIN file[i] :
      /\ file[i][j].seq = j
      /\ file[i][j].prev = IF j = 1 THEN NoEvent ELSE file[i][j - 1].event

(* The storage layer of the evidence chain "MUST be append-only"           *)
(* (rfcs/0002-event-evidence-chain.md:158).  Here an event whose append    *)
(* returned is lost only to an append that overlapped its own, and a file  *)
(* stops being readable only to such a race, or to a death while writing.  *)
LossNeedsARace ==
  \A w \in Writer :
    /\ append[w] = "ok" /\ w \notin raced /\ Target(w) # Torn =>
         \E j \in DOMAIN Target(w) : Target(w)[j].event = w
    /\ Target(w) = Torn =>
         \E x \in Writer :
           /\ IntentOf[x] = IntentOf[w]
           /\ \/ x \in raced
              \/ append[x] \in {"writing", "crashed"}

(* What can be read of a file is a well linked chain, and an acknowledged  *)
(* event of it is lost to an overlapping append only (:22-47).             *)
FilesKeepChains == EveryReadIsAChain /\ LossNeedsARace
=============================================================================
