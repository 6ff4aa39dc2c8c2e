-------------------------- MODULE GovernanceProofs --------------------------
(***************************************************************************)
(* Proofs about TemporalGovernance, for any number of proposals, rules and *)
(* tokens, any amounts, windows and lifetimes.  The sum of a rule's budget *)
(* is a fold over a set; what is needed of it follows by looking at a      *)
(* smallest set for which it would fail.                                   *)
(***************************************************************************)
EXTENDS Governance, FiniteSetTheorems, WellFoundedInduction, TLAPS

-----------------------------------------------------------------------------
(* A set of natural numbers has a least one. *)
LEMMA Least ==
  ASSUME NEW T, T \subseteq Nat, T # {}
  PROVE  \E m \in T : \A k \in T : m <= k
<1> DEFINE R == OpToRel(<, Nat)
<1>1. IsWellFoundedOn(R, Nat)
  BY NatLessThanWellFounded
<1>2. \A x, y \in Nat : x < y => <<x, y>> \in R
  BY DEF OpToRel
<1>3. PICK m \in T : \A k \in T : ~(<<k, m>> \in R)
  <2> HIDE DEF R
  <2> QED BY <1>1, WFMin, Zenon
<1> HIDE DEF R
<1>4. \A k \in T : m <= k
  <2> TAKE k \in T
  <2>1. k \in Nat /\ m \in Nat
    OBVIOUS
  <2>2. ~(k < m)
    BY <1>2, <1>3, <2>1
  <2> QED BY <2>1, <2>2
<1> QED BY <1>3, <1>4

(* A family of sets of proposals has a member that includes no other one. *)
LEMMA Minimal ==
  ASSUME NEW F, F \subseteq SUBSET Proposal, F # {}
  PROVE  \E M \in F : \A T \in F : T \subseteq M => T = M
<1> DEFINE R == StrictSubsetOrdering(Proposal)
<1>1. IsWellFoundedOn(R, FiniteSubsetsOf(Proposal))
  BY FS_StrictSubsetOrderingWellFounded
<1>2. \A T, M \in SUBSET Proposal : T \subseteq M /\ T # M => <<T, M>> \in R
  BY DEF StrictSubsetOrdering
<1>a. F \subseteq FiniteSubsetsOf(Proposal)
  BY ProposalsAreFew, FS_Subset DEF FiniteSubsetsOf
<1>3. PICK M \in F : \A T \in F : ~(<<T, M>> \in R)
  <2> HIDE DEF R
  <2> QED BY <1>1, <1>a, WFMin, Zenon
<1>4. \A T \in F : T \in SUBSET Proposal
  OBVIOUS
<1> HIDE DEF R
<1> QED BY <1>2, <1>3, <1>4

-----------------------------------------------------------------------------
(* g gives the sum over every subset of M. *)
Sums(rule, M, g) ==
  g = [s \in SUBSET M |-> IF s = {} THEN 0
                          ELSE LET x == CHOOSE x \in s : TRUE
                               IN Weight(rule, x) + g[s \ {x}]]
TheSums(rule, M) == CHOOSE g : Sums(rule, M, g)

Chosen(s) == CHOOSE x \in s : TRUE
Rest(s) == s \ {Chosen(s)}

LEMMA SpentIsSum ==
  ASSUME NEW rule, NEW S
  PROVE  Spent(rule, S) = TheSums(rule, S)[S]
BY DEF Spent, MapThenSumSet, MapThenFoldSet, TheSums, Sums

LEMMA SumsAt ==
  ASSUME NEW rule, NEW M, NEW g, Sums(rule, M, g)
  PROVE  /\ g[{}] = 0
         /\ \A s \in SUBSET M : s # {} =>
              g[s] = Weight(rule, Chosen(s)) + g[Rest(s)]
BY DEF Sums, Chosen, Rest

LEMMA RestIsSmaller ==
  ASSUME NEW s, s # {}
  PROVE  Chosen(s) \in s /\ Rest(s) \subseteq s /\ Rest(s) # s
BY DEF Chosen, Rest

(* Two sums agree where both are defined. *)
LEMMA SumsAgree ==
  ASSUME NEW rule, NEW M \in SUBSET Proposal, NEW N \in SUBSET Proposal,
         NEW g, Sums(rule, M, g), NEW h, Sums(rule, N, h)
  PROVE  \A s \in (SUBSET M) \cap (SUBSET N) : g[s] = h[s]
<1> DEFINE F == {s \in (SUBSET M) \cap (SUBSET N) : g[s] # h[s]}
<1> SUFFICES ASSUME F # {} PROVE FALSE
  OBVIOUS
<1>1. PICK s \in F : \A T \in F : T \subseteq s => T = s
  <2>1. F \subseteq SUBSET Proposal
    OBVIOUS
  <2> HIDE DEF F
  <2> QED BY <2>1, Minimal
<1>2. s # {}
  BY SumsAt
<1>3. Rest(s) \in (SUBSET M) \cap (SUBSET N) /\ Rest(s) # s /\ Rest(s) \subseteq s
  BY <1>2, RestIsSmaller
<1>4. g[Rest(s)] = h[Rest(s)]
  BY <1>1, <1>3
<1>5. /\ g[s] = Weight(rule, Chosen(s)) + g[Rest(s)]
      /\ h[s] = Weight(rule, Chosen(s)) + h[Rest(s)]
  BY <1>2, SumsAt
<1> QED BY <1>4, <1>5

(* There is a sum for every set of proposals. *)
LEMMA SumsExist ==
  ASSUME NEW rule, NEW M \in SUBSET Proposal
  PROVE  Sums(rule, M, TheSums(rule, M))
<1> DEFINE F == {T \in SUBSET Proposal : ~Sums(rule, T, TheSums(rule, T))}
<1> SUFFICES ASSUME F # {} PROVE FALSE
  OBVIOUS
<1>1. PICK T \in F : \A S \in F : S \subseteq T => S = T
  <2>1. F \subseteq SUBSET Proposal
    OBVIOUS
  <2> HIDE DEF F
  <2> QED BY <2>1, Minimal
<1>2. \A S \in SUBSET T : S # T => Sums(rule, S, TheSums(rule, S))
  BY <1>1
<1> DEFINE Value(s) == IF s = {} THEN 0
                       ELSE Weight(rule, Chosen(s)) + TheSums(rule, Rest(s))[Rest(s)]
           g == [s \in SUBSET T |-> Value(s)]
<1>3. ASSUME NEW s \in SUBSET T, s # {}
      PROVE  g[Rest(s)] = TheSums(rule, Rest(s))[Rest(s)]
  <2> DEFINE r == Rest(s)
  <2> SUFFICES g[r] = TheSums(rule, r)[r]
    OBVIOUS
  <2>1. r \in SUBSET T /\ r # T
    BY <1>3, RestIsSmaller
  <2>2. Sums(rule, r, TheSums(rule, r)) /\ g[r] = Value(r)
    BY <1>2, <2>1
  <2> HIDE DEF r
  <2>3. CASE r = {}
    BY <2>2, <2>3, SumsAt
  <2>4. CASE r # {}
    <3> DEFINE q == Rest(r)
    <3>1. q \in SUBSET r /\ q \in SUBSET T /\ q # T
      BY <2>1, <2>4, RestIsSmaller
    <3>2. Sums(rule, q, TheSums(rule, q))
      BY <1>2, <3>1
    <3>3. TheSums(rule, r)[q] = TheSums(rule, q)[q]
      BY <1>1, <2>1, <2>2, <3>1, <3>2, SumsAgree
    <3>4. TheSums(rule, r)[r] = Weight(rule, Chosen(r)) + TheSums(rule, r)[q]
      BY <2>2, <2>4, SumsAt
    <3> QED BY <2>2, <2>4, <3>3, <3>4
  <2> QED BY <2>3, <2>4
<1>4. \A s \in SUBSET T : Value(s) = IF s = {} THEN 0 ELSE Weight(rule, Chosen(s)) + g[Rest(s)]
  BY <1>3
<1>5. Sums(rule, T, g)
  <2>1. g = [s \in SUBSET T |-> IF s = {} THEN 0 ELSE Weight(rule, Chosen(s)) + g[Rest(s)]]
    BY <1>4, Zenon
  <2> QED BY <2>1 DEF Sums, Chosen, Rest
<1> HIDE DEF g
<1>6. Sums(rule, T, TheSums(rule, T))
  BY <1>5 DEF TheSums
<1> QED BY <1>1, <1>6

LEMMA SpentOfNothing ==
  ASSUME NEW rule
  PROVE  Spent(rule, {}) = 0
BY SpentIsSum, SumsExist, SumsAt

(* The sum leaves out one proposal, the one it chose. *)
LEMMA SpentChooses ==
  ASSUME NEW rule, NEW S \in SUBSET Proposal, S # {}
  PROVE  \E x \in S : Spent(rule, S) = Weight(rule, x) + Spent(rule, S \ {x})
<1>1. Rest(S) \in SUBSET Proposal /\ Rest(S) \subseteq S /\ Chosen(S) \in S
  BY RestIsSmaller
<1>2. TheSums(rule, S)[S] = Weight(rule, Chosen(S)) + TheSums(rule, S)[Rest(S)]
  BY SumsExist, SumsAt
<1>3. TheSums(rule, S)[Rest(S)] = TheSums(rule, Rest(S))[Rest(S)]
  BY <1>1, SumsExist, SumsAgree
<1>4. Spent(rule, S) = Weight(rule, Chosen(S)) + Spent(rule, Rest(S))
  BY <1>2, <1>3, SpentIsSum
<1> QED BY <1>1, <1>4 DEF Rest

(* It may as well leave out any other one. *)
LEMMA SpentStep ==
  ASSUME NEW rule \in Rules, NEW S \in SUBSET Proposal, NEW x \in S
  PROVE  /\ Spent(rule, S) \in Nat
         /\ Spent(rule, S) = Weight(rule, x) + Spent(rule, S \ {x})
<1> DEFINE Good(T) == /\ Spent(rule, T) \in Nat
                      /\ \A y \in T : Spent(rule, T) = Weight(rule, y) + Spent(rule, T \ {y})
           F == {T \in SUBSET Proposal : ~Good(T)}
<1> SUFFICES ASSUME F # {} PROVE FALSE
  OBVIOUS
<1>1. PICK T \in F : \A U \in F : U \subseteq T => U = T
  <2>1. F \subseteq SUBSET Proposal
    OBVIOUS
  <2> HIDE DEF F
  <2> QED BY <2>1, Minimal
<1>2. \A U \in SUBSET T : U # T => Good(U)
  BY <1>1
<1>3. T # {}
  <2>1. Good({})
    BY SpentOfNothing
  <2> HIDE DEF Good
  <2> QED BY <1>1, <2>1
<1>4. PICK y \in T : Spent(rule, T) = Weight(rule, y) + Spent(rule, T \ {y})
  BY <1>3, SpentChooses
<1>5. \A z \in Proposal : Weight(rule, z) \in Nat
  BY AmountsAreCounts DEF Weight
<1>6. Spent(rule, T \ {y}) \in Nat
  BY <1>2
<1>7. Spent(rule, T) \in Nat
  BY <1>4, <1>5, <1>6
<1>8. ASSUME NEW z \in T, z # y
      PROVE  Spent(rule, T) = Weight(rule, z) + Spent(rule, T \ {z})
  <2> DEFINE U == T \ {y}
             V == T \ {z}
             W == T \ {y, z}
  <2>1. /\ U \in SUBSET T /\ U # T /\ z \in U /\ U \ {z} = W
        /\ V \in SUBSET T /\ V # T /\ y \in V /\ V \ {y} = W
        /\ W \in SUBSET T /\ W # T
    BY <1>8
  <2> HIDE DEF U, V, W
  <2>2. Good(U) /\ Good(V) /\ Good(W)
    BY <1>2, <2>1
  <2>3. Spent(rule, U) = Weight(rule, z) + Spent(rule, W)
    BY <2>1, <2>2
  <2>4. Spent(rule, V) = Weight(rule, y) + Spent(rule, W)
    BY <2>1, <2>2
  <2>5. Weight(rule, z) \in Nat /\ Weight(rule, y) \in Nat /\ Spent(rule, W) \in Nat
    BY <1>5, <2>2
  <2>6. Spent(rule, T) = Weight(rule, y) + Spent(rule, U)
    BY <1>4 DEF U
  <2>7. Spent(rule, T) = Weight(rule, z) + Spent(rule, V)
    BY <2>3, <2>4, <2>5, <2>6
  <2> QED BY <2>7 DEF V
<1>9. Good(T)
  BY <1>4, <1>7, <1>8
<1> QED BY <1>1, <1>9

LEMMA SpentIsNat ==
  ASSUME NEW rule \in Rules, NEW S \in SUBSET Proposal
  PROVE  Spent(rule, S) \in Nat
<1>1. CASE S = {}
  BY <1>1, SpentOfNothing
<1>2. CASE S # {}
  BY <1>2, SpentStep
<1> QED BY <1>1, <1>2

(* Fewer proposals spend no more. *)
LEMMA SpentIsMonotone ==
  ASSUME NEW rule \in Rules, NEW S \in SUBSET Proposal, NEW R \in SUBSET S
  PROVE  Spent(rule, R) <= Spent(rule, S)
<1> DEFINE F == {T \in SUBSET Proposal : R \subseteq T /\ ~(Spent(rule, R) <= Spent(rule, T))}
<1> SUFFICES ASSUME F # {} PROVE FALSE
  OBVIOUS
<1>1. PICK T \in F : \A U \in F : U \subseteq T => U = T
  <2>1. F \subseteq SUBSET Proposal
    OBVIOUS
  <2> HIDE DEF F
  <2> QED BY <2>1, Minimal
<1>2. Spent(rule, R) \in Nat
  BY SpentIsNat
<1>3. PICK x \in T : x \notin R
  <2>1. R \subseteq T /\ ~(Spent(rule, R) <= Spent(rule, T))
    BY <1>1
  <2>2. Spent(rule, R) <= Spent(rule, R)
    BY <1>2
  <2>3. R # T
    BY <2>1, <2>2
  <2> QED BY <2>1, <2>3
<1>4. T \ {x} \in SUBSET Proposal /\ R \subseteq T \ {x} /\ T \ {x} # T
  BY <1>1, <1>3
<1>5. Spent(rule, R) <= Spent(rule, T \ {x})
  BY <1>1, <1>4
<1>6. Spent(rule, T) = Weight(rule, x) + Spent(rule, T \ {x}) /\ Spent(rule, T \ {x}) \in Nat
  BY <1>4, SpentStep, SpentIsNat
<1>7. Weight(rule, x) \in Nat
  BY AmountsAreCounts DEF Weight
<1> QED BY <1>1, <1>2, <1>5, <1>6, <1>7

-----------------------------------------------------------------------------
TokenRecord == [source: Proposal, actor: {Attr[p].actor : p \in Proposal},
                bound: {Attr[p].resource : p \in Proposal}, issued: Nat, expires: Nat]
ContractRecord == [from: Nat, end: Nat, issued: Nat,
                   tokens: SUBSET TokenRecord, sources: SUBSET Proposal]

Types == /\ clock \in Nat
         /\ trace \in [Proposal -> TraceRecord]
         /\ tokens \subseteq TokenRecord
         /\ contract \in [Proposal -> ContractRecord]

(* Nothing is recorded ahead of the clock, and a token says of its source  *)
(* what is so, and will be.                                                *)
TracesArePast == \A p \in Proposal : trace[p].at <= clock
TokensAreTrue ==
  \A t \in tokens :
    /\ t.actor = Attr[t.source].actor /\ t.bound = Attr[t.source].resource
    /\ Attr[t.source].action = "probe"
    /\ trace[t.source].status = "SUCCESS" /\ trace[t.source].at <= t.issued
    /\ t.issued <= clock

(* What a contract was granted for: its end is not after any of its ends.  *)
SourcesStand(p) ==
  /\ contract[p].from <= clock /\ contract[p].issued <= clock
  /\ \A s \in contract[p].sources :
       s # p /\ trace[s].status = "SUCCESS" /\ trace[s].at <= contract[p].issued
TokensStand(p) ==
  /\ \A t \in contract[p].tokens :
       /\ t \in tokens /\ t.issued <= contract[p].issued /\ contract[p].end <= t.expires
       /\ t.bound = Attr[p].resource /\ t.actor = Attr[p].actor
       /\ t.source # p /\ t.source \in contract[p].sources
  /\ Attr[p].action \in Needs => contract[p].tokens # {}
Precedes(rule, p, q) ==
  /\ q # p /\ Attr[q].action = rule.requires /\ SameScope(rule, p, q)
  /\ Attr[q].resource = Attr[p].resource
PrecedingStand(p) ==
  \A rule \in Preceding(p) :
    \E q \in contract[p].sources :
      Precedes(rule, p, q) /\ contract[p].end <= trace[q].at + rule.window
Granted(p) == SourcesStand(p) /\ TokensStand(p) /\ PrecedingStand(p)
ContractsStand == \A p \in Proposal : trace[p].status = "RESERVED" => Granted(p)

Inv == Types /\ TracesArePast /\ TokensAreTrue /\ ContractsStand

-----------------------------------------------------------------------------
LEMMA MinIsLeast ==
  ASSUME NEW T, T \subseteq Nat, T # {}
  PROVE  Min(T) \in T /\ \A k \in T : Min(T) <= k
BY Least, Zenon DEF Min

LEMMA EndsAreTimes ==
  ASSUME Types, NEW p \in Proposal, NEW ts \in SUBSET tokens, NEW requested \in {{}, {clock + 1}},
         NEW source \in [Preceding(p) -> Proposal]
  PROVE  Ends(p, ts, source, requested) \subseteq Nat /\ Ends(p, ts, source, requested) # {}
<1>1. clock + ContractTtl \in Nat /\ requested \subseteq Nat
  BY LifetimesAreValid DEF Types
<1>2. \A rule \in DOMAIN source : trace[source[rule]].at + rule.window \in Nat
  <2> TAKE rule \in DOMAIN source
  <2>1. rule \in Preceding(p) /\ source[rule] \in Proposal
    OBVIOUS
  <2>2. rule.window \in Nat
    BY <2>1, RulesAreValid DEF Preceding, Applies
  <2>3. trace[source[rule]].at \in Nat
    BY <2>1 DEF Types, TraceRecord
  <2> QED BY <2>2, <2>3
<1>3. \A t \in ts : t.expires \in Nat
  BY DEF Types, TokenRecord
<1> QED BY <1>1, <1>2, <1>3 DEF Ends

(* What one reservation does, its choices named. *)
Reserves(p, ts, requested, source) ==
  /\ CapabilitiesHold(ts, p, clock)
  /\ \A rule \in DOMAIN source : source[rule] \in Sources(rule, p, clock)
  /\ LET end == Min(Ends(p, ts, source, requested))
     IN /\ clock < end
        /\ contract' = [contract EXCEPT ![p] =
             [from |-> clock, end |-> end, issued |-> clock, tokens |-> ts,
              sources |-> {source[rule] : rule \in DOMAIN source} \cup {t.source : t \in ts}]]

LEMMA ReservationGrants ==
  ASSUME Types, NEW p \in Proposal, trace[p] = NoTrace,
         NEW ts \in SUBSET tokens, NEW requested \in {{}, {clock + 1}},
         NEW source \in [Preceding(p) -> Proposal],
         Reserves(p, ts, requested, source),
         trace' = [trace EXCEPT ![p] = [status |-> "RESERVED", at |-> clock]],
         UNCHANGED <<clock, tokens>>, TracesArePast
  PROVE  contract'[p] \in ContractRecord /\ Granted(p)'
<1> DEFINE end == Min(Ends(p, ts, source, requested))
           c == [from |-> clock, end |-> end, issued |-> clock, tokens |-> ts,
                 sources |-> {source[rule] : rule \in DOMAIN source} \cup {t.source : t \in ts}]
<1>1. end \in Nat /\ \A k \in Ends(p, ts, source, requested) : end <= k
  BY EndsAreTimes, MinIsLeast
<1>2. contract'[p] = c
  BY DEF Reserves, Types
<1>3. \A t \in ts : t.source \in Proposal
  BY DEF Types, TokenRecord
<1>4. c \in ContractRecord
  BY <1>1, <1>3 DEF ContractRecord, Types
<1>5. c.from = clock /\ c.issued = clock /\ c.end = end /\ c.tokens = ts
      /\ c.sources = {source[rule] : rule \in DOMAIN source} \cup {t.source : t \in ts}
  OBVIOUS
<1> HIDE DEF c, end
<1>6. \A q \in Proposal : q # p => trace'[q] = trace[q]
  BY DEF Types
<1>7. \A t \in ts : t.source # p /\ trace[t.source].status = "SUCCESS"
  BY DEF Reserves, CapabilitiesHold
<1>8. \A rule \in Preceding(p) :
        /\ source[rule] \in Proposal /\ Precedes(rule, p, source[rule])
        /\ trace[source[rule]].status = "SUCCESS"
  BY DEF Reserves, Sources, Matching, Records, Precedes, Preceding, SameScope
<1>9. SourcesStand(p)'
  <2>1. \A s \in c.sources : s \in Proposal /\ s # p /\ trace[s].status = "SUCCESS"
    BY <1>3, <1>5, <1>7, <1>8 DEF Precedes
  <2>2. \A s \in c.sources : trace[s].at <= clock
    BY <2>1 DEF TracesArePast
  <2>3. clock \in Nat
    BY DEF Types
  <2> QED BY <1>2, <1>5, <1>6, <2>1, <2>2, <2>3 DEF SourcesStand
<1>10. TokensStand(p)'
  <2>1. \A t \in ts : t.expires \in Ends(p, ts, source, requested) /\ t.source \in c.sources
    BY <1>5 DEF Ends
  <2>2. \A t \in ts : /\ t.issued <= clock /\ t.bound = Attr[p].resource
                      /\ t.actor = Attr[p].actor /\ t.source # p
    BY DEF Reserves, CapabilitiesHold, TokenValid
  <2>3. Attr[p].action \in Needs => ts # {}
    BY DEF Reserves, CapabilitiesHold
  <2> QED BY <1>1, <1>2, <1>5, <2>1, <2>2, <2>3 DEF TokensStand
<1>11. PrecedingStand(p)'
  <2> SUFFICES ASSUME NEW rule \in Preceding(p)
               PROVE  /\ source[rule] \in c.sources /\ Precedes(rule, p, source[rule])
                      /\ c.end <= trace'[source[rule]].at + rule.window
    BY <1>2 DEF PrecedingStand
  <2>1. trace[source[rule]].at + rule.window \in Ends(p, ts, source, requested)
    BY DEF Ends
  <2>2. source[rule] \in Proposal /\ source[rule] # p
    BY <1>8 DEF Precedes
  <2> QED BY <1>1, <1>5, <1>6, <1>8, <2>1, <2>2
<1> QED BY <1>2, <1>4, <1>9, <1>10, <1>11 DEF Granted

(* A grant stands as long as successes and tokens are not taken back.      *)
LEMMA GrantsStand ==
  ASSUME Types, NEW p \in Proposal, Granted(p), contract'[p] = contract[p],
         \A q \in Proposal : trace[q].status = "SUCCESS" => trace'[q] = trace[q],
         tokens \subseteq tokens', clock' \in Nat, clock <= clock'
  PROVE  Granted(p)'
<1>1. /\ contract[p].from \in Nat /\ contract[p].issued \in Nat /\ contract[p].sources \subseteq Proposal
      /\ clock \in Nat
  BY DEF Types, ContractRecord
<1>2. SourcesStand(p)'
  BY <1>1 DEF Granted, SourcesStand
<1>3. TokensStand(p)'
  BY DEF Granted, TokensStand
<1>4. \A q \in contract[p].sources : trace'[q] = trace[q]
  BY <1>1 DEF Granted, SourcesStand
<1>5. PrecedingStand(p)'
  <2> SUFFICES ASSUME NEW rule \in Preceding(p)
               PROVE  \E q \in contract[p].sources :
                        Precedes(rule, p, q) /\ contract[p].end <= trace'[q].at + rule.window
    BY DEF PrecedingStand
  <2>1. PICK q \in contract[p].sources :
               Precedes(rule, p, q) /\ contract[p].end <= trace[q].at + rule.window
    BY DEF Granted, PrecedingStand
  <2> QED BY <1>4, <2>1
<1> QED BY <1>2, <1>3, <1>5 DEF Granted

-----------------------------------------------------------------------------
LEMMA InitInv == ASSUME GovernanceInit PROVE Inv
BY DEF GovernanceInit, Inv, Types, TraceRecord, TraceStatus, NoTrace, ContractRecord, NoContract,
       TracesArePast, TokensAreTrue, ContractsStand

(* What a step that reserves or ends one proposal leaves of the others. *)
LEMMA TracesStay ==
  ASSUME Types, TracesArePast, TokensAreTrue, NEW p \in Proposal,
         NEW status \in TraceStatus, trace[p].status # "SUCCESS",
         trace' = [trace EXCEPT ![p] = [status |-> status, at |-> clock]],
         UNCHANGED <<clock, tokens>>
  PROVE  /\ trace' \in [Proposal -> TraceRecord] /\ TracesArePast' /\ TokensAreTrue'
         /\ trace'[p].status = status
         /\ \A q \in Proposal : q # p \/ trace[q].status = "SUCCESS" => trace'[q] = trace[q]
<1>1. /\ clock \in Nat /\ trace \in [Proposal -> TraceRecord]
      /\ \A t \in tokens : t.source \in Proposal
  BY DEF Types, TokenRecord
<1>2. trace' \in [Proposal -> TraceRecord]
  BY <1>1 DEF TraceRecord
<1>3. trace'[p] = [status |-> status, at |-> clock]
  BY <1>1
<1>4. \A q \in Proposal : q # p => trace'[q] = trace[q]
  BY <1>1
<1>5. TracesArePast'
  BY <1>1, <1>3, <1>4 DEF TracesArePast
<1>6. TokensAreTrue'
  BY <1>1, <1>4 DEF TokensAreTrue
<1> QED BY <1>2, <1>3, <1>4, <1>5, <1>6

LEMMA ReserveKeeps == ASSUME Inv, NEW p \in Proposal, Reserve(p) PROVE Inv'
<1>1. PICK ts \in SUBSET tokens, requested \in {{}, {clock + 1}}, source \in [Preceding(p) -> Proposal] :
        Reserves(p, ts, requested, source)
  BY DEF Reserve, Reserves
<1>2. /\ trace[p] = NoTrace /\ UNCHANGED <<clock, tokens>>
      /\ trace' = [trace EXCEPT ![p] = [status |-> "RESERVED", at |-> clock]]
  BY DEF Reserve
<1>3. contract'[p] \in ContractRecord /\ Granted(p)'
  BY <1>1, <1>2, ReservationGrants DEF Inv
<1>4. trace[p].status # "SUCCESS" /\ "RESERVED" \in TraceStatus
  BY <1>2 DEF NoTrace, TraceStatus
<1>5. /\ trace' \in [Proposal -> TraceRecord] /\ TracesArePast' /\ TokensAreTrue'
      /\ \A q \in Proposal : q # p \/ trace[q].status = "SUCCESS" => trace'[q] = trace[q]
  BY <1>2, <1>4, TracesStay DEF Inv
<1>6. contract' \in [Proposal -> ContractRecord] /\ \A q \in Proposal : q # p => contract'[q] = contract[q]
  BY <1>1, <1>3 DEF Reserves, Inv, Types
<1>7. ASSUME NEW q \in Proposal, trace'[q].status = "RESERVED" PROVE Granted(q)'
  <2>1. CASE q = p
    BY <1>3, <2>1
  <2>2. CASE q # p
    <3>1. Granted(q) /\ contract'[q] = contract[q]
      BY <1>5, <1>6, <1>7, <2>2 DEF Inv, ContractsStand
    <3>2. tokens \subseteq tokens' /\ clock' \in Nat /\ clock <= clock'
      BY <1>2 DEF Inv, Types
    <3> QED BY <1>5, <3>1, <3>2, GrantsStand DEF Inv
  <2> QED BY <2>1, <2>2
<1> QED BY <1>2, <1>5, <1>6, <1>7 DEF Inv, Types, ContractsStand

LEMMA FinishKeeps == ASSUME Inv, NEW p \in Proposal, Finish(p) PROVE Inv'
<1>1. PICK status \in {"SUCCESS", "FAILED"} :
        trace' = [trace EXCEPT ![p] = [status |-> status, at |-> clock]]
  BY DEF Finish
<1>2. trace[p].status # "SUCCESS" /\ status \in TraceStatus /\ UNCHANGED <<clock, tokens>>
  BY DEF Finish, TraceStatus
<1>3. /\ trace' \in [Proposal -> TraceRecord] /\ TracesArePast' /\ TokensAreTrue'
      /\ trace'[p].status = status
      /\ \A q \in Proposal : q # p \/ trace[q].status = "SUCCESS" => trace'[q] = trace[q]
  BY <1>1, <1>2, TracesStay DEF Inv
<1>4. contract' \in [Proposal -> ContractRecord] /\ \A q \in Proposal : q # p => contract'[q] = contract[q]
  BY DEF Finish, Inv, Types, NoContract, ContractRecord
<1>5. ASSUME NEW q \in Proposal, trace'[q].status = "RESERVED" PROVE Granted(q)'
  <2>1. q # p
    BY <1>3, <1>5
  <2>2. Granted(q) /\ contract'[q] = contract[q]
    BY <1>3, <1>4, <1>5, <2>1 DEF Inv, ContractsStand
  <2>3. tokens \subseteq tokens' /\ clock' \in Nat /\ clock <= clock'
    BY <1>2 DEF Inv, Types
  <2> QED BY <1>3, <2>2, <2>3, GrantsStand DEF Inv
<1> QED BY <1>2, <1>3, <1>4, <1>5 DEF Inv, Types, ContractsStand

LEMMA MintKeeps == ASSUME Inv, NEW p \in Proposal, Mint(p) PROVE Inv'
<1>1. clock \in Nat /\ UNCHANGED <<clock, trace, contract>> /\ tokens' = tokens \cup {Token(p)}
  BY DEF Mint, Inv, Types
<1>2. Token(p) \in TokenRecord
  BY <1>1, LifetimesAreValid DEF Token, TokenRecord
<1>3. Types' /\ TracesArePast'
  BY <1>1, <1>2 DEF Inv, Types, TracesArePast
<1>4. TokensAreTrue'
  BY <1>1 DEF Inv, TokensAreTrue, TracesArePast, Token, Mint, MayMint
<1>5. ASSUME NEW q \in Proposal, trace'[q].status = "RESERVED" PROVE Granted(q)'
  <2>1. Granted(q) /\ tokens \subseteq tokens' /\ clock' \in Nat /\ clock <= clock'
    BY <1>1, <1>5 DEF Inv, ContractsStand
  <2> QED BY <1>1, <2>1, GrantsStand DEF Inv
<1> QED BY <1>3, <1>4, <1>5 DEF Inv, ContractsStand

LEMMA TickKeeps == ASSUME Inv, Tick PROVE Inv'
<1>1. clock \in Nat /\ clock' = clock + 1 /\ UNCHANGED <<trace, tokens, contract>>
  BY DEF Tick, Inv, Types
<1>2. Types'
  BY <1>1 DEF Inv, Types
<1>3. TracesArePast'
  BY <1>1 DEF Inv, Types, TraceRecord, TracesArePast
<1>4. TokensAreTrue'
  BY <1>1 DEF Inv, Types, TokenRecord, TokensAreTrue
<1>5. ASSUME NEW q \in Proposal, trace'[q].status = "RESERVED" PROVE Granted(q)'
  <2>1. Granted(q) /\ tokens \subseteq tokens' /\ clock' \in Nat /\ clock <= clock'
    BY <1>1, <1>5 DEF Inv, ContractsStand
  <2> QED BY <1>1, <2>1, GrantsStand DEF Inv
<1> QED BY <1>2, <1>3, <1>4, <1>5 DEF Inv, ContractsStand

LEMMA StepInv == ASSUME Inv, [GovernanceNext]_governanceVars PROVE Inv'
<1>1. CASE Tick
  BY <1>1, TickKeeps
<1>2. ASSUME NEW p \in Proposal, Reserve(p) PROVE Inv'
  BY <1>2, ReserveKeeps
<1>3. ASSUME NEW p \in Proposal, Finish(p) PROVE Inv'
  BY <1>3, FinishKeeps
<1>4. ASSUME NEW p \in Proposal, Mint(p) PROVE Inv'
  BY <1>4, MintKeeps
<1>5. CASE UNCHANGED governanceVars
  BY <1>5 DEF governanceVars, Inv, Types, TracesArePast, TokensAreTrue, ContractsStand, Granted,
              SourcesStand, TokensStand, PrecedingStand
<1> QED BY <1>1, <1>2, <1>3, <1>4, <1>5 DEF GovernanceNext

(* Every variable of governance keeps its type, and every open contract    *)
(* stands on its sources, tokens and preconditions, for any proposals,     *)
(* rules and lifetimes (TemporalGovernance.ts:102-127).                    *)
THEOREM ContractsStandAlways == GovernanceSpec => []Inv
BY InitInv, StepInv, PTL DEF GovernanceSpec

-----------------------------------------------------------------------------
(* A rule's precondition has a latest record as long as the contract lasts. *)
LEMMA SourcesRemain ==
  ASSUME Inv, NEW p \in Proposal, trace[p].status = "RESERVED", clock < contract[p].end,
         NEW rule \in Preceding(p)
  PROVE  Sources(rule, p, clock) # {}
<1> DEFINE M == Matching(rule, p, clock)
           T == {clock - trace[q].at : q \in M}
<1>1. Types /\ TracesArePast /\ Granted(p)
  BY DEF Inv, ContractsStand
<1>2. M \subseteq Proposal
  BY DEF Matching, Records
<1>3. PICK q \in contract[p].sources :
             Precedes(rule, p, q) /\ contract[p].end <= trace[q].at + rule.window
  BY <1>1 DEF Granted, PrecedingStand
<1>4. q \in Proposal /\ trace[q].status = "SUCCESS"
  BY <1>1 DEF Types, ContractRecord, Granted, SourcesStand
<1>5. /\ clock \in Nat /\ contract[p].end \in Nat /\ rule.window \in Nat /\ trace[q].at \in Nat
      /\ trace[q].at <= clock
  BY <1>1, <1>4, RulesAreValid DEF Types, TraceRecord, ContractRecord, TracesArePast, Preceding, Applies
<1>6. trace[q].at + rule.window > clock
  BY <1>3, <1>5
<1>7. rule.type = "PRECEDING"
  BY DEF Preceding
<1>8. q \in M
  BY <1>3, <1>4, <1>5, <1>6, <1>7 DEF Matching, Records, Precedes, SameScope
<1>9. \A r \in M : trace[r].at \in Nat /\ trace[r].at <= clock
  BY <1>1, <1>2 DEF Types, TraceRecord, TracesArePast
<1>10. T \subseteq Nat /\ T # {}
  BY <1>5, <1>8, <1>9
<1>11. PICK n \in T : \A k \in T : n <= k
  <2> HIDE DEF T
  <2> QED BY <1>10, Least
<1>12. PICK r \in M : n = clock - trace[r].at
  OBVIOUS
<1>13. \A s \in M : clock - trace[r].at <= clock - trace[s].at
  BY <1>11, <1>12
<1>14. \A s \in M : trace[s].at <= trace[r].at
  <2> HIDE DEF M
  <2> QED BY <1>5, <1>9, <1>12, <1>13
<1> QED BY <1>12, <1>14 DEF Sources

LEMMA GoodWhileItLasts == ASSUME Inv PROVE GoodUntilItsEnd
<1> SUFFICES ASSUME NEW p \in Proposal, trace[p].status = "RESERVED", clock < contract[p].end
             PROVE  CanUnlock(p) /\ \A rule \in Preceding(p) : Sources(rule, p, clock) # {}
  BY DEF GoodUntilItsEnd
<1>1. Types /\ TokensAreTrue /\ Granted(p)
  BY DEF Inv, ContractsStand
<1>2. SourcesStand(p) /\ TokensStand(p)
  BY <1>1 DEF Granted
<1>3. clock \in Nat /\ contract[p].issued \in Nat /\ contract[p].end \in Nat
  BY <1>1 DEF Types, ContractRecord
<1>4. CapabilitiesHold(contract[p].tokens, p, clock)
  <2>1. ASSUME NEW t \in contract[p].tokens
        PROVE  /\ TokenValid(t, p, clock)
               /\ t.actor = Attr[p].actor /\ Attr[t.source].actor = t.actor
               /\ trace[t.source].status = "SUCCESS" /\ trace[t.source].at <= t.issued
               /\ t.source # p /\ Attr[t.source].action = "probe"
               /\ t.bound = Attr[t.source].resource
    <3>1. /\ t \in tokens /\ t.issued <= contract[p].issued /\ contract[p].end <= t.expires
          /\ t.bound = Attr[p].resource /\ t.actor = Attr[p].actor /\ t.source # p
      BY <1>2 DEF TokensStand
    <3>2. /\ t.actor = Attr[t.source].actor /\ t.bound = Attr[t.source].resource
          /\ Attr[t.source].action = "probe" /\ t.issued <= clock
          /\ trace[t.source].status = "SUCCESS" /\ trace[t.source].at <= t.issued
      BY <1>1, <3>1 DEF TokensAreTrue
    <3>3. t.expires \in Nat /\ t.issued \in Nat
      BY <1>1, <3>1 DEF Types, TokenRecord
    <3>4. clock < t.expires
      BY <1>3, <3>1, <3>3
    <3>5. TokenValid(t, p, clock)
      BY <3>1, <3>2, <3>4 DEF TokenValid
    <3> QED BY <3>1, <3>2, <3>5
  <2>2. Attr[p].action \in Needs => contract[p].tokens # {}
    BY <1>2 DEF TokensStand
  <2> QED BY <2>1, <2>2 DEF CapabilitiesHold
<1>5. CanUnlock(p)
  BY <1>2, <1>4 DEF CanUnlock, SourcesStand
<1> QED BY <1>5, SourcesRemain

LEMMA EarnedAlways == ASSUME Inv PROVE EarnedByInspection
<1> SUFFICES ASSUME NEW p \in Proposal, trace[p].status = "RESERVED", Attr[p].action \in Needs
             PROVE  \E q \in contract[p].sources :
                      /\ Attr[q].action = "probe" /\ trace[q].status = "SUCCESS"
                      /\ Attr[q].actor = Attr[p].actor /\ Attr[q].resource = Attr[p].resource
                      /\ trace[q].at <= contract[p].issued
  BY DEF EarnedByInspection
<1>1. Granted(p) /\ TokensAreTrue
  BY DEF Inv, ContractsStand
<1>2. PICK t \in contract[p].tokens : TRUE
  BY <1>1 DEF Granted, TokensStand
<1>3. /\ t \in tokens /\ t.source \in contract[p].sources
      /\ t.bound = Attr[p].resource /\ t.actor = Attr[p].actor
  BY <1>1, <1>2 DEF Granted, TokensStand
<1>4. /\ Attr[t.source].action = "probe" /\ trace[t.source].status = "SUCCESS"
      /\ t.actor = Attr[t.source].actor /\ t.bound = Attr[t.source].resource
  BY <1>1, <1>3 DEF TokensAreTrue
<1>5. trace[t.source].at <= contract[p].issued
  BY <1>1, <1>3 DEF Granted, SourcesStand
<1> QED BY <1>3, <1>4, <1>5

(* A proposal that needs a capability follows a READ of its own resource   *)
(* by its own actor, and what was checked when it was reserved holds as    *)
(* long as its contract, for any rules, proposals and lifetimes            *)
(* (TemporalGovernance.ts:65-138).                                         *)
THEOREM AuthorityEarned == GovernanceSpec => []AuthorityIsEarned
<1>1. Inv => AuthorityIsEarned
  BY EarnedAlways, GoodWhileItLasts DEF AuthorityIsEarned
<1> QED BY <1>1, ContractsStandAlways, PTL

-----------------------------------------------------------------------------
(* The proposals that use up a rule's budget in the scope of p. *)
Users(rule, p) ==
  {q \in Proposal : /\ Attr[q].action = rule.target /\ SameScope(rule, p, q)
                    /\ Counts(trace[q], clock, rule.window)}

LEMMA BudgetsByUsers ==
  BudgetsHold <=> \A rule \in Rules, p \in Proposal :
                    rule.type # "PRECEDING" => Spent(rule, Users(rule, p)) <= rule.limit
BY DEF BudgetsHold, Users

LEMMA BudgetsAtFirst == ASSUME GovernanceInit PROVE BudgetsHold
<1> SUFFICES ASSUME NEW rule \in Rules, NEW p \in Proposal
             PROVE  Spent(rule, Users(rule, p)) <= rule.limit
  BY BudgetsByUsers
<1>1. Users(rule, p) = {}
  BY DEF Users, GovernanceInit, NoTrace, Counts
<1> QED BY <1>1, SpentOfNothing, RulesAreValid

(* A step after which no other proposal counts spends no more. *)
LEMMA BudgetsShrink ==
  ASSUME BudgetsHold, Types, Types',
         \A rule \in Rules, q \in Proposal :
           Counts(trace[q], clock, rule.window)' => Counts(trace[q], clock, rule.window)
  PROVE  BudgetsHold'
<1> SUFFICES ASSUME NEW rule \in Rules, NEW p \in Proposal, rule.type # "PRECEDING"
             PROVE  Spent(rule, Users(rule, p)') <= rule.limit
  BY DEF BudgetsHold, Users
<1> DEFINE S == Users(rule, p)
           R == Users(rule, p)'
<1>1. S \in SUBSET Proposal /\ R \in SUBSET S
  BY DEF Users
<1>2. Spent(rule, S) <= rule.limit
  BY BudgetsByUsers
<1> HIDE DEF S, R
<1>3. Spent(rule, R) <= Spent(rule, S) /\ Spent(rule, R) \in Nat /\ Spent(rule, S) \in Nat
  BY <1>1, SpentIsMonotone, SpentIsNat
<1>4. rule.limit \in Nat
  BY RulesAreValid
<1> QED BY <1>2, <1>3, <1>4 DEF R

LEMMA ReserveSpends ==
  ASSUME Inv, BudgetsHold, NEW p \in Proposal, Reserve(p)
  PROVE  BudgetsHold'
<1> SUFFICES ASSUME NEW rule \in Rules, NEW q \in Proposal, rule.type # "PRECEDING"
             PROVE  Spent(rule, Users(rule, q)') <= rule.limit
  BY DEF BudgetsHold, Users
<1> DEFINE S == Users(rule, q)
           R == Users(rule, q)'
           O == Records(rule, p, clock)
<1>1. /\ Types /\ TracesArePast /\ UNCHANGED clock /\ trace[p] = NoTrace
      /\ trace' = [trace EXCEPT ![p] = [status |-> "RESERVED", at |-> clock]]
      /\ \A r \in Applies(p) : RulePasses(r, p, clock)
  BY DEF Reserve, Inv
<1>2. \A r \in Proposal : r # p => trace'[r] = trace[r]
  BY <1>1 DEF Types
<1>3. R \in SUBSET Proposal /\ S \in SUBSET Proposal /\ O \in SUBSET Proposal
  BY DEF Users, Records
<1>4. Spent(rule, S) <= rule.limit /\ rule.limit \in Nat
  BY BudgetsByUsers, RulesAreValid
<1>5. CASE p \notin R
  <2>1. R \in SUBSET S
    BY <1>1, <1>2, <1>5 DEF Users
  <2> HIDE DEF R, S, O
  <2>2. Spent(rule, R) <= Spent(rule, S) /\ Spent(rule, R) \in Nat /\ Spent(rule, S) \in Nat
    BY <1>3, <2>1, SpentIsMonotone, SpentIsNat
  <2>3. Spent(rule, R) <= rule.limit
    BY <1>4, <2>2
  <2> QED BY <2>3 DEF R
<1>6. CASE p \in R
  <2>1. Attr[p].action = rule.target /\ SameScope(rule, q, p)
    BY <1>6 DEF Users
  <2>2. Spent(rule, O) + Weight(rule, p) <= rule.limit
    BY <1>1, <2>1 DEF Applies, RulePasses
  <2>3. R \ {p} \in SUBSET O
    <3> SUFFICES ASSUME NEW r \in R, r # p PROVE r \in O
      OBVIOUS
    <3>1. /\ r \in Proposal /\ Attr[r].action = rule.target /\ SameScope(rule, q, r)
          /\ Counts(trace'[r], clock, rule.window)
      BY <1>1 DEF Users
    <3>2. SameScope(rule, p, r)
      BY <2>1, <3>1 DEF SameScope
    <3>3. trace[r].at <= clock /\ Counts(trace[r], clock, rule.window)
      BY <1>1, <1>2, <3>1 DEF TracesArePast
    <3> QED BY <3>1, <3>2, <3>3 DEF Records, SameScope
  <2> HIDE DEF R, S, O
  <2>4. Spent(rule, R) = Weight(rule, p) + Spent(rule, R \ {p})
    BY <1>3, <1>6, SpentStep
  <2>5. /\ Spent(rule, R \ {p}) <= Spent(rule, O)
        /\ Spent(rule, R \ {p}) \in Nat /\ Spent(rule, O) \in Nat
    BY <1>3, <2>3, SpentIsMonotone, SpentIsNat
  <2>6. Weight(rule, p) \in Nat
    BY AmountsAreCounts DEF Weight
  <2>7. Spent(rule, R) <= rule.limit
    BY <1>4, <2>2, <2>4, <2>5, <2>6
  <2> QED BY <2>7 DEF R
<1> QED BY <1>5, <1>6

LEMMA StepBudgets ==
  ASSUME Inv, Inv', BudgetsHold, [GovernanceNext]_governanceVars
  PROVE  BudgetsHold'
<1>a. Types /\ Types'
  BY DEF Inv
<1>1. CASE Tick
  <2>1. \A rule \in Rules, q \in Proposal :
          Counts(trace[q], clock, rule.window)' => Counts(trace[q], clock, rule.window)
    <3> TAKE rule \in Rules, q \in Proposal
    <3>1. trace' = trace /\ clock' = clock + 1 /\ clock \in Nat
      BY <1>1, <1>a DEF Tick, Types
    <3>2. trace[q].at \in Nat /\ rule.window \in Nat
      BY <1>a, RulesAreValid DEF Types, TraceRecord
    <3> QED BY <3>1, <3>2 DEF Counts
  <2> QED BY <1>a, <2>1, BudgetsShrink
<1>2. ASSUME NEW p \in Proposal, Reserve(p) PROVE BudgetsHold'
  BY <1>2, ReserveSpends
<1>3. ASSUME NEW p \in Proposal, Finish(p) PROVE BudgetsHold'
  <2>1. \A rule \in Rules, q \in Proposal :
          Counts(trace[q], clock, rule.window)' => Counts(trace[q], clock, rule.window)
    BY <1>3, <1>a DEF Finish, Types, Counts
  <2> QED BY <1>a, <2>1, BudgetsShrink
<1>4. ASSUME NEW p \in Proposal, Mint(p) PROVE BudgetsHold'
  BY <1>4 DEF Mint, BudgetsHold
<1>5. CASE UNCHANGED governanceVars
  BY <1>5 DEF governanceVars, BudgetsHold
<1> QED BY <1>1, <1>2, <1>3, <1>4, <1>5 DEF GovernanceNext

(* Successes in the window and open reservations never exceed the budget   *)
(* of a rule in any of its scopes, for any rules, amounts and windows      *)
(* (temporal.ts:59-97).                                                    *)
THEOREM BudgetsAreKept == GovernanceSpec => []BudgetsHold
BY ContractsStandAlways, BudgetsAtFirst, StepBudgets, PTL DEF GovernanceSpec
=============================================================================
