----------------------------- MODULE ReplayView -----------------------------
(***************************************************************************)
(* The replay viewer: which replay it shows while requests overlap         *)
(* (apps/replay-ui hooks/useReplay.ts), and how far its playback is        *)
(* (App.tsx).  A step is one batch of state updates with the effects React *)
(* runs for it; an effect sees the values of the render it belongs to.     *)
(***************************************************************************)
EXTENDS Naturals, FiniteSets

CONSTANTS Id,           \* intents that can be looked at
          Mocks,        \* those with a replay among the examples
          Default,      \* the example shown when there is nothing else
          Length,       \* [Id -> number of events of its replay]
          MaxRequests

VARIABLES intentId, data, error, loading,
          requests,     \* the fetches under way: [n, id, cancelled]
          sent,         \* how many were sent
          posting,      \* runScenario or the simulation is waiting for its POST
          playbackActive, visibleCount, selected, interval,
          cut           \* the playback was stopped, or its replay replaced

vars == <<intentId, data, error, loading, requests, sent, posting,
          playbackActive, visibleCount, selected, interval, cut>>

(* Replays are objects: one that was fetched is never one of the examples. *)
Nothing == <<>>
Example(id) == <<id, "example">>
Fetched(id) == <<id, "fetched">>

(* displayReplay. *)
Shown(d, id) == IF d # Nothing THEN d ELSE Example(IF id \in Mocks THEN id ELSE Default)
Events(replay) == Length[replay[1]]

Init ==
  /\ intentId \in Id /\ data = Nothing /\ error = FALSE /\ loading = TRUE
  /\ requests = {[n |-> 1, id |-> intentId, cancelled |-> FALSE]} /\ sent = 1
  /\ posting = FALSE
  /\ playbackActive = FALSE /\ interval = FALSE /\ cut = FALSE
  /\ visibleCount = Events(Shown(data, intentId)) /\ selected = 1

-----------------------------------------------------------------------------
(* The effects of the player after a batch: the first one resets it for a  *)
(* new replay, the second one starts the interval if the batch says that   *)
(* playback is active, even where the first has just ended it.             *)
Play(replay, changed, active) ==
  /\ playbackActive' = (active /\ ~changed)
  /\ interval' = (active /\ ~changed)
  /\ IF active /\ (changed \/ ~playbackActive)
       THEN visibleCount' = 1 /\ selected' = 1
       ELSE IF changed
         THEN visibleCount' = Events(replay) /\ selected' = 1
         ELSE UNCHANGED <<visibleCount, selected>>
  /\ cut' = IF changed \/ (active /\ ~playbackActive) THEN active /\ changed
            ELSE cut \/ (playbackActive /\ ~active)

(* setIntentId: the effect of useReplay cancels its last request and sends *)
(* a new one; what is shown changes at once only if it was an example.     *)
Show(id, active) ==
  IF id = intentId
    THEN /\ Play(Shown(data, id), FALSE, active)
         /\ UNCHANGED <<intentId, data, error, loading, requests, sent>>
    ELSE /\ sent < MaxRequests /\ sent' = sent + 1
         /\ intentId' = id /\ loading' = TRUE /\ error' = FALSE
         /\ requests' = {[r EXCEPT !.cancelled = TRUE] : r \in requests}
                        \cup {[n |-> sent + 1, id |-> id, cancelled |-> FALSE]}
         /\ Play(Shown(data, id), Shown(data, id) # Shown(data, intentId), active)
         /\ UNCHANGED data

Select(id) == id # intentId /\ Show(id, playbackActive) /\ UNCHANGED posting

(* What a new state of useReplay changes for the player: fetched data is a *)
(* new object, an example always the same one.                             *)
Replaces(d) == (d # Nothing /\ d[2] = "fetched") \/ Shown(d, intentId) # Shown(data, intentId)

(* Mutant: an answer is taken whatever was asked since. *)
SettleLate(r, d) ==
  /\ requests' = requests \ {r}
  /\ data' = d /\ error' = (d = Nothing) /\ loading' = FALSE
  /\ Play(Shown(d, intentId), Replaces(d), playbackActive)
  /\ UNCHANGED <<intentId, sent, posting>>

(* A request ends: its data, or the example, or an error. *)
Settle(r, d) ==
  /\ requests' = requests \ {r}
  /\ IF r.cancelled
       THEN UNCHANGED <<data, error, loading, playbackActive, visibleCount, selected, interval, cut>>
       ELSE /\ data' = d /\ error' = (d = Nothing) /\ loading' = FALSE
            /\ Play(Shown(d, intentId), Replaces(d), playbackActive)
  /\ UNCHANGED <<intentId, sent, posting>>

Answer(r) == Settle(r, Fetched(r.id))
NoAnswer(r) == Settle(r, IF r.id \in Mocks THEN Example(r.id) ELSE Nothing)

-----------------------------------------------------------------------------
Rest == UNCHANGED <<intentId, data, error, loading, requests, sent>>

(* The button of the player. *)
Toggle == Play(Shown(data, intentId), FALSE, ~playbackActive) /\ Rest /\ UNCHANGED posting

(* The interval ticks: one more event, and the end stops it. *)
Tick ==
  LET length == Events(Shown(data, intentId))
      next == visibleCount + 1
      least == IF next < length THEN next ELSE length
  IN  /\ interval
      /\ visibleCount' = least /\ selected' = least
      /\ interval' = (next < length) /\ playbackActive' = (next < length)
      /\ Rest /\ UNCHANGED <<posting, cut>>

(* An event is clicked. *)
Pick(e) ==
  /\ e \in 1 .. visibleCount
  /\ playbackActive' = FALSE /\ interval' = FALSE /\ cut' = FALSE
  /\ visibleCount' = Events(Shown(data, intentId)) /\ selected' = e
  /\ Rest /\ UNCHANGED posting

(* The POST of a scenario, or of the simulation, which also plays. *)
Post == ~posting /\ posting' = TRUE
        /\ UNCHANGED <<intentId, data, error, loading, requests, sent,
                       playbackActive, visibleCount, selected, interval, cut>>
Posted ==
  /\ posting /\ posting' = FALSE
  /\ \E id \in Id \ Mocks, plays \in BOOLEAN : Show(id, plays \/ playbackActive)

Next ==
  \/ \E id \in Id : Select(id)
  \/ \E r \in requests : Answer(r) \/ NoAnswer(r)
  \/ Toggle \/ Tick \/ Post \/ Posted
  \/ \E e \in 1 .. visibleCount : Pick(e)

Spec == Init /\ [][Next]_vars

-----------------------------------------------------------------------------
(* A replay that is not being loaded is the one that was asked for last,   *)
(* in whatever order the answers come (useReplay.ts:22-76).                *)
ShowsWhatWasAskedLast ==
  ~loading => data \in {Fetched(intentId), Example(intentId), Nothing}

(* Without playback all events are there, and the one shown in detail is   *)
(* among those visible, unless the playback was stopped or its replay      *)
(* replaced under it: then the new replay stays at its first event         *)
(* (App.tsx:52-91).                                                        *)
EverythingIsThere ==
  LET length == Events(Shown(data, intentId)) IN
    /\ selected \in 1 .. visibleCount /\ visibleCount <= length
    /\ ~playbackActive /\ ~cut => visibleCount = length
=============================================================================
