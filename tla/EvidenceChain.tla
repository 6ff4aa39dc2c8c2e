--------------------------- MODULE EvidenceChain ---------------------------
(***************************************************************************)
(* Evidence links, chains of them and the proxy that hides resource names  *)
(* (core/evidence).  Links and chains are immutable values, but the        *)
(* payload of a link is an object of the caller: what is kept of it is the *)
(* reference, and deepFreeze is all that stops the caller from changing it *)
(* afterwards.  A hash is the tuple of what is hashed.                     *)
(***************************************************************************)
EXTENDS Naturals, Sequences, FiniteSets, SequencesExt, TLC

CONSTANTS Payload,      \* payload objects, each with a nested object in it
          Trace, Resource, Signature,
          MaxMade, MaxLinks

VARIABLES payload,      \* [Payload -> the nested value, and what is frozen]
          links,        \* the links made so far
          evidence,     \* the chain the caller holds
          masked        \* SovereignProxy: the resources, in the order of their names

evidenceVars == <<payload, links, evidence, masked>>

Genesis == <<>>
Unsigned == "UNSIGNED"

EvidenceInit ==
  /\ payload = [p \in Payload |-> [value |-> 0, outer |-> FALSE, inner |-> FALSE, given |-> FALSE]]
  /\ links = {} /\ evidence = <<>> /\ masked = <<>>

-----------------------------------------------------------------------------
(* mask_resource: a known resource keeps its name, a new one gets the next.*)
Masked(names, r) == IF Contains(names, r) THEN names ELSE Append(names, r)

Mask(r) == masked' = Masked(masked, r) /\ UNCHANGED <<payload, links, evidence>>

(* unmask_resource. *)
Unmask(name) == masked[name]

(* deepFreeze: an object that is frozen already is not entered. *)
Frozen(object) ==
  IF object.outer THEN object ELSE [object EXCEPT !.outer = TRUE, !.inner = TRUE]

(* create: the hash is over the payload as it is now. *)
Content(t, r, p, previous, s) == <<t, r, payload[p].value, previous, s>>
Link(t, r, p, previous, s) ==
  [trace |-> t, resource |-> r, payload |-> p, previous |-> previous, signature |-> s,
   hash |-> Content(t, r, p, previous, s)]

Create(p, t, name) ==
  /\ Cardinality(links) < MaxMade
  /\ links' = links \cup {Link(t, Unmask(name), p, Genesis, Unsigned)}
  /\ payload' = [payload EXCEPT ![p] = Frozen(@)]
  /\ UNCHANGED <<evidence, masked>>

(* with_signature: a new link with the payload as it is by now. *)
Sign(link, s) ==
  /\ Cardinality(links) < MaxMade
  /\ links' = links \cup
       {Link(link.trace, link.resource, link.payload, link.previous, s)}
  /\ UNCHANGED <<payload, evidence, masked>>

(* verify_integrity of a link. *)
Verifies(link) ==
  link.hash = Content(link.trace, link.resource, link.payload, link.previous, link.signature)

(* A chain can be built of links that verify, follow each other, and are   *)
(* all of one trace.                                                       *)
Sound(sequence) ==
  \A i \in DOMAIN sequence :
    /\ sequence[i].trace = sequence[1].trace
    /\ Verifies(sequence[i])
    /\ sequence[i].previous = (IF i = 1 THEN Genesis ELSE sequence[i - 1].hash)

(* with_prev_link_hash: the link is made anew, its signature is kept. *)
Relinked(link) ==
  Link(link.trace, link.resource, link.payload,
       IF evidence = <<>> THEN Genesis ELSE Last(evidence).hash, link.signature)

(* append throws, and the caller keeps the chain it had, unless the new    *)
(* chain is sound as a whole.                                              *)
Extend(link) ==
  LET longer == Append(evidence, Relinked(link)) IN
    /\ Len(evidence) < MaxLinks
    /\ Sound(longer)
    /\ evidence' = longer
    /\ UNCHANGED <<payload, links, masked>>

-----------------------------------------------------------------------------
(* The caller, who still holds the objects: he may freeze one himself, as  *)
(* far as Object.freeze goes, and write into what is not frozen.           *)
Freeze(p) ==
  /\ ~payload[p].outer
  /\ payload' = [payload EXCEPT ![p].outer = TRUE, ![p].given = TRUE]
  /\ UNCHANGED <<links, evidence, masked>>

Overwrite(p) ==
  /\ ~payload[p].inner
  /\ payload' = [payload EXCEPT ![p].value = 1 - @]
  /\ UNCHANGED <<links, evidence, masked>>

EvidenceNext ==
  \/ \E r \in Resource : Mask(r)
  \/ \E p \in Payload, t \in Trace, name \in DOMAIN masked : Create(p, t, name)
  \/ \E link \in links, s \in Signature : Sign(link, s)
  \/ \E link \in links : Extend(link)
  \/ \E p \in Payload : Freeze(p) \/ Overwrite(p)

EvidenceSpec == EvidenceInit /\ [][EvidenceNext]_evidenceVars

-----------------------------------------------------------------------------
(* A chain that was built goes on verifying, unless the caller had frozen  *)
(* the outside of a payload himself: deepFreeze then leaves its inside     *)
(* writable (EvidenceLink.ts:17-30).                                       *)
ChainsStaySound ==
  Sound(evidence) \/ \E i \in DOMAIN evidence : payload[evidence[i].payload].given
=============================================================================
