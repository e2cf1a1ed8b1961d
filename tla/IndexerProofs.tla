---------------------------- MODULE IndexerProofs ----------------------------
(***************************************************************************)
(* Proofs about the indexer: its type invariant, and that it only attests  *)
(* to evidence that can be explained.                                      *)
(*                                                                         *)
(* A record travels from the RPC node through the cache, a cycle, the      *)
(* queue, another cycle's batch and a transaction that may be late; the    *)
(* pool is traded meanwhile.  Genuine is the set of the records that are   *)
(* in order at this moment.  It only grows, and every place a record can   *)
(* be in holds members of it: that is the inductive invariant.             *)
(***************************************************************************)
EXTENDS Indexer, FiniteSetTheorems, WellFoundedInduction, TLAPS

Genuine ==
    {a \in ActivityRecord :
        /\ a.at <= now
        /\ a.lastSwapUnixTs > 0 => a.lastSwapUnixTs \in SwapTimes(a.pool) /\ Explained(a)}

\* Candidates and cache entries made of records in G, and the states of a cycle that holds such records.
Candidates(G) == [activity : G, score : Nat]

Entries(G) == [record : G, cachedAtMs : Nat]

CycleStates(G) ==
    {s \in [phase : Phases, todo : SUBSET Pools, miss : Miss \cup {None},
            activity : G \cup {None}, batch : Seq(Candidates(G))] :
        /\ s.phase \in {"deriving", "derived"} => s.miss # None
        /\ s.phase \in {"derived", "enriching"} => s.activity # None
        /\ s.phase \in {"submitting", "pending", "landed", "rejected"} => s.batch # <<>>
        /\ Len(s.batch) <= maxCandidatesPerCycle}

WorldOK ==
    /\ now \in Nat
    /\ signatures \in [Pools -> Seq(Signature)]
    /\ reserves \in [Pools -> Reserves]
    /\ anchored \subseteq Pools
    /\ slotHashes \in HashKinds
    /\ submissionMode \in BOOLEAN

\* A step adds at most one signature, to one pool.
SignatureAdded(q, amm) ==
    signatures' = [signatures EXCEPT ![q] = Append(@, [blockTime |-> now, amm |-> amm])]

Holds(G) ==
    /\ cache \in [Pools -> Entries(G) \cup {None}]
    /\ queue \in [Pools -> Candidates(G) \cup {None}]
    /\ cycle \in [Cycles -> CycleStates(G)]
    /\ late \subseteq G

EvidenceInv == WorldOK /\ Holds(Genuine)

-----------------------------------------------------------------------------
\* What the proofs use of the assumption on the constants, in parts.
LEMMA LimitsNat ==
    maxCandidatesPerCycle \in Nat /\ scanLimit \in Nat /\ inactivitySeconds \in Nat
BY IndexerAssumption

LEMMA NoneApart ==
    None \notin ActivityRecord /\ None \notin Miss
BY IndexerAssumption

(***************************************************************************)
(* The greatest of finitely many numbers.                                  *)
(***************************************************************************)
LEMMA MaxOfBounded ==
    ASSUME NEW n \in Nat, NEW T \in SUBSET (0..n), T # {}
    PROVE  Max(T) \in T /\ \A y \in T : y <= Max(T)
<1> DEFINE D == {n - y : y \in T}
<1>1. D \in SUBSET Nat /\ D # {}
  <2>1. \A y \in T : y \in Nat /\ y <= n /\ n - y \in Nat
      OBVIOUS
  <2> QED
      BY <2>1
<1>2. PICK d \in D : \A e \in D : ~(<<e, d>> \in OpToRel(<, Nat))
    BY <1>1, WFMin, NatLessThanWellFounded
<1>3. PICK x \in T : d = n - x
    OBVIOUS
<1>4. \A y \in T : x >= y
  <2>1. SUFFICES ASSUME NEW y \in T, ~(x >= y) PROVE FALSE
      OBVIOUS
  <2>2. n - y \in D /\ n - y < d /\ n - y \in Nat /\ d \in Nat
      BY <1>3, <2>1
  <2>3. <<n - y, d>> \in OpToRel(<, Nat)
      BY <2>2 DEF OpToRel
  <2> QED
      BY <1>2, <2>2, <2>3
<1>5. \E z \in T : \A y \in T : z >= y
    BY <1>4
<1>6. Max(T) \in T /\ \A y \in T : Max(T) >= y
    BY <1>5 DEF Max
<1> QED
    BY <1>6

LEMMA MinOfTwo ==
    ASSUME NEW a \in Nat, NEW b \in Nat
    PROVE  Min({a, b}) \in Nat /\ Min({a, b}) <= a /\ Min({a, b}) <= b
<1>1. \E x \in {a, b} : \A y \in {a, b} : x =< y
    OBVIOUS
<1>2. Min({a, b}) \in {a, b} /\ \A y \in {a, b} : Min({a, b}) =< y
    BY <1>1 DEF Min
<1> QED
    BY <1>2

\* The newest of some of a pool's swaps is one of its swaps.
LEMMA NewestIs ==
    ASSUME WorldOK, NEW p \in Pools, NEW swaps \in SUBSET Swaps(p), swaps # {}
    PROVE  /\ Max(swaps) \in swaps
           /\ \A i \in swaps : i <= Max(swaps)
           /\ Newest(p, swaps) = signatures[p][Max(swaps)].blockTime
           /\ Newest(p, swaps) \in SwapTimes(p)
           /\ Newest(p, swaps) \in Nat
<1>1. signatures[p] \in Seq(Signature) /\ Len(signatures[p]) \in Nat
    BY DEF WorldOK
<1>2. swaps \in SUBSET (0..Len(signatures[p]))
    BY <1>1 DEF Swaps
<1>3. Max(swaps) \in swaps /\ \A i \in swaps : i <= Max(swaps)
    BY <1>1, <1>2, MaxOfBounded
<1>4. Newest(p, swaps) = signatures[p][Max(swaps)].blockTime
    BY DEF Newest
<1>5. Max(swaps) \in Swaps(p) /\ signatures[p][Max(swaps)] \in Signature
    BY <1>1, <1>3 DEF Swaps
<1>6. Newest(p, swaps) \in SwapTimes(p)
    BY <1>4, <1>5 DEF SwapTimes
<1> QED
    BY <1>3, <1>4, <1>5, <1>6 DEF Signature

\* A scan that holds a swap holds the last one.
LEMMA ScanHasLastSwap ==
    ASSUME WorldOK, NEW p \in Pools, Scanned(p) # {}
    PROVE  Newest(p, Scanned(p)) = LastSwap(p)
<1>1. Scanned(p) \in SUBSET Swaps(p) /\ Swaps(p) \in SUBSET Swaps(p) /\ Swaps(p) # {}
    BY DEF Scanned
<1>2. /\ Max(Scanned(p)) \in Scanned(p) /\ \A i \in Scanned(p) : i <= Max(Scanned(p))
      /\ Newest(p, Scanned(p)) = signatures[p][Max(Scanned(p))].blockTime
    BY <1>1, NewestIs
<1>3. /\ Max(Swaps(p)) \in Swaps(p) /\ \A i \in Swaps(p) : i <= Max(Swaps(p))
      /\ LastSwap(p) = signatures[p][Max(Swaps(p))].blockTime
    BY <1>1, NewestIs DEF LastSwap
<1>4. Swaps(p) \subseteq Nat /\ Len(signatures[p]) \in Nat /\ scanLimit \in Nat
  <2>1. signatures[p] \in Seq(Signature)
      BY DEF WorldOK
  <2> QED
      BY <2>1, LimitsNat DEF Swaps
<1>5. Max(Swaps(p)) \in Nat /\ Max(Scanned(p)) \in Nat /\ Max(Scanned(p)) <= Max(Swaps(p))
      /\ Max(Scanned(p)) > Len(signatures[p]) - scanLimit
    BY <1>1, <1>2, <1>3, <1>4 DEF Scanned
<1>6. Max(Swaps(p)) > Len(signatures[p]) - scanLimit
    BY <1>4, <1>5
<1>7. Max(Swaps(p)) \in Scanned(p)
    BY <1>3, <1>6 DEF Scanned
<1>8. Max(Swaps(p)) = Max(Scanned(p))
    BY <1>2, <1>5, <1>7
<1> QED
    BY <1>2, <1>3, <1>8

\* The swaps of a pool that got a signature: the old ones, and that one if it is a swap.
LEMMA SwapsAfter ==
    ASSUME WorldOK, NEW q \in Pools, NEW amm \in BOOLEAN, SignatureAdded(q, amm)
    PROVE  /\ Len(signatures[q]) + 1 \in Nat
           /\ Swaps(q)' = Swaps(q) \cup (IF amm THEN {Len(signatures[q]) + 1} ELSE {})
           /\ \A i \in Swaps(q) : signatures'[q][i] = signatures[q][i]
           /\ signatures'[q][Len(signatures[q]) + 1] = [blockTime |-> now, amm |-> amm]
<1> DEFINE s == signatures[q]
           e == [blockTime |-> now, amm |-> amm]
<1>1. s \in Seq(Signature) /\ Len(s) \in Nat /\ DOMAIN s = 1..Len(s) /\ e \in Signature
    BY DEF WorldOK, Signature
<1>2. signatures'[q] = Append(s, e)
    BY DEF SignatureAdded, WorldOK
<1>3. /\ DOMAIN signatures'[q] = 1..(Len(s) + 1)
      /\ \A i \in 1..Len(s) : signatures'[q][i] = s[i]
      /\ signatures'[q][Len(s) + 1] = e
    BY <1>1, <1>2
<1>4. 1..(Len(s) + 1) = 1..Len(s) \cup {Len(s) + 1}
    BY <1>1
<1>5. e.amm = amm
    OBVIOUS
<1>6. Swaps(q)' = {i \in DOMAIN signatures'[q] : signatures'[q][i].amm}
    BY DEF Swaps
<1>7. \A i : i \in Swaps(q)' <=> i \in Swaps(q) \/ (amm /\ i = Len(s) + 1)
  <2> TAKE i
  <2>1. CASE i \in 1..Len(s)
      BY <1>1, <1>3, <1>4, <1>6, <2>1 DEF Swaps
  <2>2. CASE i = Len(s) + 1
      BY <1>1, <1>3, <1>4, <1>5, <1>6, <2>2 DEF Swaps
  <2>3. CASE i \notin 1..Len(s) /\ i # Len(s) + 1
      BY <1>1, <1>3, <1>4, <1>6, <2>3 DEF Swaps
  <2> QED
      BY <2>1, <2>2, <2>3
<1> QED
    BY <1>1, <1>3, <1>7 DEF Swaps

-----------------------------------------------------------------------------
(***************************************************************************)
(* Genuine records: a fresh one is, and one that was stays so.             *)
(***************************************************************************)
LEMMA DerivedIsGenuine ==
    ASSUME WorldOK, NEW p \in Pools, NEW visible \in SUBSET Scanned(p)
    PROVE  deriveLastSwapV4(p, visible) \in Genuine
<1> DEFINE a == deriveLastSwapV4(p, visible)
<1>1. /\ a = [pool |-> p, lastSwapUnixTs |-> Newest(p, visible), at |-> now,
              complete |-> visible = Scanned(p)]
      /\ now \in Nat
    BY DEF deriveLastSwapV4, Derivation, WorldOK
<1>2. CASE visible = {}
  <2>1. a.lastSwapUnixTs = 0 /\ a \in ActivityRecord /\ a.at = now
      BY <1>1, <1>2 DEF Newest, ActivityRecord
  <2> QED
      BY <1>1, <2>1 DEF Genuine
<1>3. CASE visible # {}
  <2>1. Newest(p, visible) \in SwapTimes(p) /\ Newest(p, visible) \in Nat
      BY <1>3, NewestIs DEF Scanned
  <2>2. a \in ActivityRecord /\ a.at = now /\ a.pool = p
        /\ a.lastSwapUnixTs = Newest(p, visible)
      BY <1>1, <2>1 DEF ActivityRecord
  <2>3. Explained(a)
    <3>1. CASE visible = Scanned(p)
        BY <1>3, <2>2, <3>1, ScanHasLastSwap DEF Explained
    <3>2. CASE visible # Scanned(p)
      <4>1. a.complete <=> visible = Scanned(p)
          BY DEF deriveLastSwapV4, Derivation
      <4> QED
          BY <3>2, <4>1 DEF Explained
    <3> QED
        BY <3>1, <3>2
  <2> QED
      BY <1>1, <2>1, <2>2, <2>3 DEF Genuine
<1> QED
    BY <1>2, <1>3

\* A signature that a pool gets makes no evidence of it inexplicable.
LEMMA ExplainedAfterSignature ==
    ASSUME WorldOK, WorldOK', NEW q \in Pools, NEW amm \in BOOLEAN, SignatureAdded(q, amm),
           NEW a \in ActivityRecord, a.pool = q, a.at <= now,
           a.lastSwapUnixTs \in SwapTimes(q), Explained(a)
    PROVE  (a.lastSwapUnixTs \in SwapTimes(q))' /\ Explained(a)'
<1> DEFINE n == Len(signatures[q]) + 1
<1>1. /\ n \in Nat
      /\ Swaps(q)' = Swaps(q) \cup (IF amm THEN {n} ELSE {})
      /\ \A i \in Swaps(q) : signatures'[q][i] = signatures[q][i]
      /\ signatures'[q][n] = [blockTime |-> now, amm |-> amm]
    BY SwapsAfter
<1>2. (a.lastSwapUnixTs \in SwapTimes(q))'
  <2>1. PICK i \in Swaps(q) : a.lastSwapUnixTs = signatures[q][i].blockTime
      BY DEF SwapTimes
  <2>2. i \in Swaps(q)' /\ a.lastSwapUnixTs = signatures'[q][i].blockTime
      BY <1>1, <2>1
  <2> QED
      BY <2>2 DEF SwapTimes
<1>3. a.at \in Nat /\ now \in Nat /\ Swaps(q) \subseteq 1..(n - 1)
    BY <1>1 DEF ActivityRecord, WorldOK, Swaps
<1>4. CASE amm
  <2>1. Swaps(q)' \in SUBSET (0..n) /\ n \in Swaps(q)'
      BY <1>1, <1>3, <1>4
  <2>2. Max(Swaps(q)') \in Swaps(q)' /\ \A i \in Swaps(q)' : i <= Max(Swaps(q)')
      BY <1>1, <2>1, MaxOfBounded
  <2>3. Max(Swaps(q)') = n
    <3>1. Max(Swaps(q)') \in 0..n /\ n <= Max(Swaps(q)')
        BY <2>1, <2>2
    <3> HIDE DEF n
    <3> QED
        BY <1>1, <3>1
  <2>4. LastSwap(q)' = now
      BY <1>1, <2>1, <2>3 DEF LastSwap, Newest
  <2> QED
      BY <1>2, <1>3, <2>4 DEF Explained
<1>5. CASE ~amm
  <2>1. Swaps(q)' = Swaps(q) /\ Swaps(q) # {}
      BY <1>1, <1>5 DEF SwapTimes
  <2>2. Max(Swaps(q)) \in Swaps(q)
      BY <2>1, NewestIs
  <2>3. LastSwap(q)' = LastSwap(q)
      BY <1>1, <2>1, <2>2 DEF LastSwap, Newest
  <2> QED
      BY <1>2, <2>3 DEF Explained
<1> QED
    BY <1>4, <1>5

\* Time and trades leave every genuine record genuine: a swap is not before the record.
LEMMA GenuineGrows ==
    ASSUME WorldOK, WorldOK',
           now' >= now,
           \/ signatures' = signatures
           \/ \E q \in Pools, amm \in BOOLEAN : SignatureAdded(q, amm)
    PROVE  Genuine \subseteq Genuine'
<1> SUFFICES ASSUME NEW a \in Genuine PROVE a \in Genuine'
    OBVIOUS
<1>1. /\ a \in ActivityRecord /\ a.at <= now
      /\ a.lastSwapUnixTs > 0 => a.lastSwapUnixTs \in SwapTimes(a.pool) /\ Explained(a)
    BY DEF Genuine
<1>2. a.pool \in Pools /\ a.at \in Nat /\ now \in Nat /\ now' \in Nat
    BY <1>1 DEF ActivityRecord, WorldOK
<1>3. a.at <= now'
    BY <1>1, <1>2
<1>4. CASE ~(a.lastSwapUnixTs > 0)
    BY <1>1, <1>3, <1>4 DEF Genuine
<1>5. CASE a.lastSwapUnixTs > 0 /\ signatures'[a.pool] = signatures[a.pool]
  <2>1. Swaps(a.pool)' = Swaps(a.pool)
      BY <1>5 DEF Swaps
  <2>2. (LastSwap(a.pool))' = LastSwap(a.pool) /\ (SwapTimes(a.pool))' = SwapTimes(a.pool)
      BY <1>5, <2>1 DEF LastSwap, SwapTimes, Newest
  <2> QED
      BY <1>1, <1>3, <1>5, <2>2 DEF Genuine, Explained
<1>6. CASE a.lastSwapUnixTs > 0 /\ signatures'[a.pool] # signatures[a.pool]
  <2>1. PICK q \in Pools, amm \in BOOLEAN : SignatureAdded(q, amm)
      BY <1>6
  <2>2. a.pool = q
      BY <1>2, <1>6, <2>1 DEF SignatureAdded, WorldOK
  <2>3. (a.lastSwapUnixTs \in SwapTimes(a.pool))' /\ Explained(a)'
      BY <1>1, <1>6, <2>1, <2>2, ExplainedAfterSignature
  <2> QED
      BY <1>1, <1>3, <2>3 DEF Genuine
<1> QED
    BY <1>4, <1>5, <1>6

-----------------------------------------------------------------------------
(***************************************************************************)
(* The states of a cycle.  G is any set of records.                        *)
(***************************************************************************)
LEMMA IdleHolds ==
    ASSUME NEW G
    PROVE  Idle \in CycleStates(G)
<1>1. /\ Idle \in [phase : Phases, todo : SUBSET Pools, miss : Miss \cup {None},
                   activity : G \cup {None}, batch : Seq(Candidates(G))]
      /\ Idle.phase = "idle" /\ Idle.batch = <<>>
    BY DEF Idle, Phases
<1>2. Len(<<>>) = 0 /\ maxCandidatesPerCycle \in Nat
    BY LimitsNat
<1> QED
    BY <1>1, <1>2 DEF CycleStates

LEMMA SubmittingHolds ==
    ASSUME NEW G, NEW b \in Seq(Candidates(G)), Len(b) <= maxCandidatesPerCycle
    PROVE  Submitting(b) \in CycleStates(G)
<1>1. CASE b = <<>>
    BY <1>1, IdleHolds DEF Submitting
<1>2. CASE b # <<>>
  <2> DEFINE s == Submitting(b)
  <2>1. s = [phase |-> "submitting", todo |-> {}, miss |-> None, activity |-> None,
           batch |-> b]
      BY <1>2 DEF Submitting, Idle
  <2> QED
      BY <1>2, <2>1 DEF CycleStates, Phases
<1> QED
    BY <1>1, <1>2

\* What is left of a batch is a batch.
LEMMA NextCandidateHolds ==
    ASSUME NEW G, NEW s \in CycleStates(G),
           s.phase \in {"submitting", "pending", "landed", "rejected"}
    PROVE  Submitting(Tail(s.batch)) \in CycleStates(G)
<1>1. s.batch \in Seq(Candidates(G)) /\ s.batch # <<>> /\ Len(s.batch) <= maxCandidatesPerCycle
    BY DEF CycleStates
<1>2. Tail(s.batch) \in Seq(Candidates(G)) /\ Len(Tail(s.batch)) = Len(s.batch) - 1
    BY <1>1
<1>3. Len(s.batch) \in Nat /\ maxCandidatesPerCycle \in Nat
    BY <1>1, LimitsNat
<1>4. Len(Tail(s.batch)) <= maxCandidatesPerCycle
    BY <1>1, <1>2, <1>3
<1> QED
    BY <1>2, <1>4, SubmittingHolds

\* The record of the candidate that is being submitted.
LEMMA HeadHolds ==
    ASSUME NEW G, NEW s \in CycleStates(G), s.phase = "pending"
    PROVE  Head(s.batch).activity \in G
<1>1. s.batch \in Seq(Candidates(G)) /\ s.batch # <<>>
    BY DEF CycleStates
<1>2. Head(s.batch) \in Candidates(G)
    BY <1>1
<1> QED
    BY <1>2 DEF Candidates

LEMMA CycleUpdated ==
    ASSUME NEW G, cycle \in [Cycles -> CycleStates(G)], NEW c \in Cycles,
           NEW s \in CycleStates(G), cycle' = [cycle EXCEPT ![c] = s]
    PROVE  cycle' \in [Cycles -> CycleStates(G)]
OBVIOUS

LEMMA CandidateAdvances ==
    ASSUME NEW G, cycle \in [Cycles -> CycleStates(G)], NEW c \in Cycles,
           cycle[c].phase \in {"submitting", "pending", "landed", "rejected"},
           cycle' = NextCandidate(c)
    PROVE  cycle' \in [Cycles -> CycleStates(G)]
<1>1. cycle[c] \in CycleStates(G)
    OBVIOUS
<1>2. Submitting(Tail(cycle[c].batch)) \in CycleStates(G)
    BY <1>1, NextCandidateHolds
<1>3. cycle' = [cycle EXCEPT ![c] = Submitting(Tail(cycle[c].batch))]
    BY DEF NextCandidate
<1> QED
    BY <1>2, <1>3, CycleUpdated

LEMMA CycleEnds ==
    ASSUME NEW G, cycle \in [Cycles -> CycleStates(G)], NEW c \in Cycles,
           cycle' = [cycle EXCEPT ![c] = Idle]
    PROVE  cycle' \in [Cycles -> CycleStates(G)]
BY IdleHolds, CycleUpdated

\* A step that only changes the phase of a cycle that keeps its batch.
LEMMA PhaseChanges ==
    ASSUME NEW G, cycle \in [Cycles -> CycleStates(G)], NEW c \in Cycles,
           cycle[c].phase \in {"submitting", "pending"},
           NEW ph \in {"pending", "landed", "rejected"},
           cycle' = [cycle EXCEPT ![c].phase = ph]
    PROVE  cycle' \in [Cycles -> CycleStates(G)]
<1> DEFINE s == [cycle[c] EXCEPT !.phase = ph]
<1>1. cycle[c] \in CycleStates(G)
    OBVIOUS
<1>2. s \in CycleStates(G)
    BY <1>1 DEF CycleStates, Phases
<1>3. cycle' = [cycle EXCEPT ![c] = s]
    OBVIOUS
<1> QED
    BY <1>2, <1>3, CycleUpdated

\* The next pool: whatever became of the last one.
LEMMA PoolAdvances ==
    ASSUME NEW G, cycle \in [Cycles -> CycleStates(G)], NEW c \in Cycles,
           cycle[c].phase = "enriching",
           cycle' = NextPool(c)
    PROVE  cycle' \in [Cycles -> CycleStates(G)]
<1> DEFINE s == [cycle[c] EXCEPT !.phase = "scanning", !.activity = None]
<1>1. cycle[c] \in CycleStates(G)
    OBVIOUS
<1>2. s \in CycleStates(G)
    BY <1>1 DEF CycleStates, Phases
<1>3. cycle' = [cycle EXCEPT ![c] = s]
    BY <1>1 DEF NextPool, CycleStates
<1> QED
    BY <1>2, <1>3, CycleUpdated

\* The three ways on from a pool that is being indexed.
LEMMA ActivityCached ==
    ASSUME NEW G, None \notin G, cycle \in [Cycles -> CycleStates(G)],
           cache \in [Pools -> Entries(G) \cup {None}],
           NEW c \in Cycles, NEW p \in Pools, indexActivityCached(c, p)
    PROVE  cycle' \in [Cycles -> CycleStates(G)]
<1> DEFINE s == [cycle[c] EXCEPT !.phase = "enriching", !.todo = @ \ {p},
                                 !.activity = cache[p].record]
<1>1. cycle[c] \in CycleStates(G) /\ cycle[c].phase = "scanning"
    BY DEF indexActivityCached
<1>2. cache[p] \in Entries(G)
    BY DEF indexActivityCached, CacheFresh
<1>3. cache[p].record \in G
    BY <1>2 DEF Entries
<1>4. s \in CycleStates(G)
    BY <1>1, <1>3 DEF CycleStates, Phases
<1>5. cycle' = [cycle EXCEPT ![c] = s]
    BY <1>1 DEF indexActivityCached, CycleStates
<1> QED
    BY <1>4, <1>5, CycleUpdated

LEMMA ActivityMissed ==
    ASSUME NEW G, now \in Nat, cycle \in [Cycles -> CycleStates(G)],
           NEW c \in Cycles, NEW p \in Pools, indexActivityMisses(c, p)
    PROVE  cycle' \in [Cycles -> CycleStates(G)]
<1> DEFINE m == [pool |-> p, now |-> now]
           s == [cycle[c] EXCEPT !.phase = "deriving", !.todo = @ \ {p}, !.miss = m]
<1>1. cycle[c] \in CycleStates(G)
    OBVIOUS
<1>2. m \in Miss /\ m # None
    BY NoneApart DEF Miss
<1>3. s \in CycleStates(G)
    BY <1>1, <1>2 DEF CycleStates, Phases
<1>4. cycle' = [cycle EXCEPT ![c] = s]
    BY <1>1 DEF indexActivityMisses, CycleStates
<1> QED
    BY <1>3, <1>4, CycleUpdated

LEMMA ActivityRead ==
    ASSUME NEW G, None \notin G, cycle \in [Cycles -> CycleStates(G)],
           NEW c \in Cycles, cycle[c].phase = "deriving", NEW a \in G,
           cycle' = [cycle EXCEPT ![c].phase = "derived", ![c].activity = a]
    PROVE  cycle' \in [Cycles -> CycleStates(G)]
<1> DEFINE s == [cycle[c] EXCEPT !.phase = "derived", !.activity = a]
<1>1. cycle[c] \in CycleStates(G)
    OBVIOUS
<1>2. s \in CycleStates(G)
    BY <1>1 DEF CycleStates, Phases
<1>3. cycle' = [cycle EXCEPT ![c] = s]
    BY <1>1 DEF CycleStates
<1> QED
    BY <1>2, <1>3, CycleUpdated

LEMMA ActivityCaches ==
    ASSUME NEW G, cycle \in [Cycles -> CycleStates(G)],
           cache \in [Pools -> Entries(G) \cup {None}],
           NEW c \in Cycles, indexActivityCaches(c)
    PROVE  /\ cycle' \in [Cycles -> CycleStates(G)]
           /\ cache' \in [Pools -> Entries(G) \cup {None}]
<1> DEFINE s == [cycle[c] EXCEPT !.phase = "enriching", !.miss = None]
           e == [record |-> cycle[c].activity, cachedAtMs |-> cycle[c].miss.now]
<1>1. cycle[c] \in CycleStates(G) /\ cycle[c].phase = "derived"
    BY DEF indexActivityCaches
<1>2. cycle[c].miss \in Miss /\ cycle[c].activity \in G
    BY <1>1 DEF CycleStates
<1>3. e \in Entries(G) /\ cycle[c].miss.pool \in Pools
    BY <1>2 DEF Entries, Miss
<1>4. cache' \in [Pools -> Entries(G) \cup {None}]
    BY <1>3 DEF indexActivityCaches
<1>5. s \in CycleStates(G)
    BY <1>1 DEF CycleStates, Phases
<1>6. cycle' = [cycle EXCEPT ![c] = s]
    BY <1>1 DEF indexActivityCaches, CycleStates
<1> QED
    BY <1>4, <1>5, <1>6, CycleUpdated

-----------------------------------------------------------------------------
(***************************************************************************)
(* The queue: what enrichment puts into it, and what a drain takes out.    *)
(***************************************************************************)
LEMMA ProductNat ==
    ASSUME NEW x \in Nat, NEW y \in Nat
    PROVE  x * y \in Nat
OBVIOUS

\* What passes the pre-filter has a score.
LEMMA ScoreNat ==
    ASSUME WorldOK, NEW a \in ActivityRecord, NEW r \in Reserves, preFilterPool(a, r)
    PROVE  scoreCandidate(a, r) \in Nat
<1>1. a.lastSwapUnixTs \in Nat /\ now \in Nat /\ inactivitySeconds \in Nat
    BY IndexerAssumption DEF ActivityRecord, WorldOK
<1>2. Elapsed(a) \in Int
    BY <1>1 DEF Elapsed
<1>3. Elapsed(a) \in Nat
    BY <1>1, <1>2 DEF preFilterPool
<1>4. r.tvlLamports \in Nat /\ r.priceCollapseMargin \in Nat
    BY IndexerAssumption DEF ReserveRecord
<1>5. Elapsed(a) * r.tvlLamports \in Nat
    BY <1>3, <1>4, ProductNat
<1> QED
    BY <1>4, <1>5, ProductNat DEF scoreCandidate

LEMMA Enqueued ==
    ASSUME NEW G, G \subseteq ActivityRecord,
           queue \in [Pools -> Candidates(G) \cup {None}],
           NEW scored \in Candidates(G)
    PROVE  enqueue(scored) \in [Pools -> Candidates(G) \cup {None}]
<1>1. scored.activity.pool \in Pools
    BY DEF Candidates, ActivityRecord
<1> QED
    BY <1>1 DEF enqueue

\* The queue holds finitely many candidates, so the budget is a number of them.
LEMMA BudgetBounds == Budget \in Nat /\ Budget <= maxCandidatesPerCycle
<1> DEFINE D == {q \in Pools : queue[q] # None}
           f == [p \in D |-> queue[p]]
<1>1. IsFiniteSet(D)
    BY IndexerAssumption, FS_Subset
<1>2. f \in Surjection(D, Queued)
    BY DEF Surjection, Queued
<1>3. IsFiniteSet(Queued)
    BY <1>1, <1>2, FS_Surjection DEF ExistsSurjection
<1>4. Cardinality(Queued) \in Nat
    BY <1>3, FS_CardinalityType
<1>5. maxCandidatesPerCycle \in Nat
    BY LimitsNat
<1> QED
    BY <1>4, <1>5, MinOfTwo DEF Budget

\* A batch is made of queued candidates, and no longer than the budget.
LEMMA BatchDrained ==
    ASSUME NEW G, queue \in [Pools -> Candidates(G) \cup {None}],
           NEW top \in SUBSET Queued, Cardinality(top) = Budget,
           NEW b \in SetToSeqs(top)
    PROVE  b \in Seq(Candidates(G)) /\ Len(b) <= maxCandidatesPerCycle
<1>1. b \in [1..Budget -> top]
    BY DEF SetToSeqs
<1>2. top \subseteq Candidates(G)
    BY DEF Queued
<1>3. b \in [1..Budget -> Candidates(G)]
    BY <1>1, <1>2
<1>4. Budget \in Nat /\ Budget <= maxCandidatesPerCycle
    BY BudgetBounds
<1>5. b \in Seq(Candidates(G)) /\ Len(b) = Budget
    BY <1>3, <1>4
<1> QED
    BY <1>4, <1>5

-----------------------------------------------------------------------------
(***************************************************************************)
(* One step of a cycle.                                                    *)
(***************************************************************************)
LEMMA CycleSteps ==
    ASSUME NEW G, G \subseteq ActivityRecord, WorldOK, Holds(G),
           \A p \in Pools : \A visible \in SUBSET Scanned(p) :
               deriveLastSwapV4(p, visible) \in G,
           NEW c \in Cycles, CycleNext(c)
    PROVE  WorldOK' /\ Holds(G)' /\ now' = now /\ signatures' = signatures
<1> USE DEF Holds
<1>0. None \notin G
    BY NoneApart
<1>c. cycle[c] \in CycleStates(G)
    OBVIOUS
<1>1. CASE enumeratePools(c)
  <2>1. PICK found \in SUBSET Pools : cycle' = [cycle EXCEPT ![c] =
            [Idle EXCEPT !.phase = "scanning", !.todo = found]]
      BY <1>1 DEF enumeratePools
  <2>2. [Idle EXCEPT !.phase = "scanning", !.todo = found] \in CycleStates(G)
      BY IdleHolds DEF Idle, CycleStates, Phases
  <2>3. cycle' \in [Cycles -> CycleStates(G)]
      BY <2>1, <2>2, CycleUpdated
  <2> QED
      BY <1>1, <2>3 DEF enumeratePools, WorldOK, worldVars, setup
<1>2. ASSUME NEW p \in Pools, indexActivityCached(c, p)
      PROVE  WorldOK' /\ Holds(G)' /\ now' = now /\ signatures' = signatures
  <2>1. cycle' \in [Cycles -> CycleStates(G)]
      BY <1>0, <1>2, ActivityCached
  <2> QED
      BY <1>2, <2>1 DEF indexActivityCached, WorldOK, worldVars, setup
<1>3. ASSUME NEW p \in Pools, indexActivityMisses(c, p)
      PROVE  WorldOK' /\ Holds(G)' /\ now' = now /\ signatures' = signatures
  <2>1. cycle' \in [Cycles -> CycleStates(G)]
      BY <1>3, ActivityMissed DEF WorldOK
  <2> QED
      BY <1>3, <2>1 DEF indexActivityMisses, WorldOK, worldVars, setup
<1>14. ASSUME NEW visible, historyRead(c, visible)
       PROVE  WorldOK' /\ Holds(G)' /\ now' = now /\ signatures' = signatures
  <2>1. cycle[c].phase = "deriving" /\ cycle[c].miss \in Miss
      BY <1>14, <1>c DEF historyRead, CycleStates
  <2>2. cycle[c].miss.pool \in Pools /\ visible \in SUBSET Scanned(cycle[c].miss.pool)
      BY <1>14, <2>1 DEF historyRead, Miss
  <2>3. deriveLastSwapV4(cycle[c].miss.pool, visible) \in G
      BY <2>2
  <2>4. cycle' = [cycle EXCEPT ![c].phase = "derived",
                  ![c].activity = deriveLastSwapV4(cycle[c].miss.pool, visible)]
      BY <1>14 DEF historyRead
  <2>5. cycle' \in [Cycles -> CycleStates(G)]
      BY <1>0, <2>1, <2>3, <2>4, ActivityRead
  <2>6. UNCHANGED <<slotHashes, submissionMode>>
      BY <1>14 DEF historyRead, setup, Disturbed
  <2> QED
      BY <1>14, <2>5, <2>6 DEF historyRead, WorldOK, worldVars
<1>15. CASE indexActivityCaches(c)
  <2>1. /\ cycle' \in [Cycles -> CycleStates(G)]
        /\ cache' \in [Pools -> Entries(G) \cup {None}]
      BY <1>15, ActivityCaches
  <2> QED
      BY <1>15, <2>1 DEF indexActivityCaches, WorldOK, worldVars, setup
<1>4. CASE indexActivityThrows(c)
  <2>1. cycle' \in [Cycles -> CycleStates(G)]
      BY <1>4, CycleEnds DEF indexActivityThrows
  <2> QED
      BY <1>4, <2>1 DEF indexActivityThrows, WorldOK, worldVars, Disturbed
<1>5. CASE enrichAndEnqueue(c)
  <2> DEFINE a == cycle[c].activity
             r == reserves[a.pool]
  <2>1. a \in G
      BY <1>5, <1>c DEF enrichAndEnqueue, CycleStates
  <2>2. a.pool \in Pools /\ r \in Reserves
      BY <2>1 DEF ActivityRecord, WorldOK
  <2>3. cycle' \in [Cycles -> CycleStates(G)]
      BY <1>5, PoolAdvances DEF enrichAndEnqueue
  <2>4. queue' \in [Pools -> Candidates(G) \cup {None}]
    <3>1. CASE preFilterPool(a, r)
      <4> DEFINE scored == [activity |-> a, score |-> scoreCandidate(a, r)]
      <4>1. scoreCandidate(a, r) \in Nat
          BY <2>1, <2>2, <3>1, ScoreNat
      <4>2. scored \in Candidates(G)
          BY <2>1, <4>1 DEF Candidates
      <4>3. queue' = enqueue(scored)
          BY <1>5, <3>1 DEF enrichAndEnqueue
      <4> QED
          BY <4>2, <4>3, Enqueued
    <3>2. CASE ~preFilterPool(a, r)
        BY <1>5, <3>2 DEF enrichAndEnqueue
    <3> QED
        BY <3>1, <3>2
  <2> QED
      BY <1>5, <2>3, <2>4 DEF enrichAndEnqueue, WorldOK, worldVars, setup
<1>6. CASE enrichmentUnavailable(c)
  <2>1. cycle' \in [Cycles -> CycleStates(G)]
      BY <1>6, PoolAdvances DEF enrichmentUnavailable
  <2> QED
      BY <1>6, <2>1 DEF enrichmentUnavailable, WorldOK, worldVars, Disturbed
<1>7. CASE drain(c)
  <2>1. PICK top \in SUBSET Queued :
          /\ Cardinality(top) = Budget
          /\ \E b \in SetToSeqs(top) : cycle' = [cycle EXCEPT ![c] = Submitting(b)]
          /\ queue' = [p \in Pools |-> IF queue[p] \in top THEN None ELSE queue[p]]
      BY <1>7 DEF drain
  <2>2. PICK b \in SetToSeqs(top) : cycle' = [cycle EXCEPT ![c] = Submitting(b)]
      BY <2>1
  <2>3. Submitting(b) \in CycleStates(G)
      BY <2>1, BatchDrained, SubmittingHolds
  <2>4. cycle' \in [Cycles -> CycleStates(G)]
      BY <2>2, <2>3, CycleUpdated
  <2>5. queue' \in [Pools -> Candidates(G) \cup {None}]
      BY <2>1
  <2> QED
      BY <1>7, <2>4, <2>5 DEF drain, WorldOK, worldVars, setup
<1>8. CASE submitCandidateNot(c)
  <2>1. cycle' \in [Cycles -> CycleStates(G)]
      BY <1>8, CandidateAdvances DEF submitCandidateNot
  <2>2. UNCHANGED <<slotHashes, submissionMode>>
      BY <1>8 DEF submitCandidateNot, setup, Disturbed
  <2> QED
      BY <1>8, <2>1, <2>2 DEF submitCandidateNot, WorldOK, worldVars
<1>9. CASE submitCandidate(c)
  <2>1. cycle' \in [Cycles -> CycleStates(G)]
      BY <1>9, PhaseChanges DEF submitCandidate
  <2> QED
      BY <1>9, <2>1 DEF submitCandidate, WorldOK, worldVars, setup
<1>10. CASE transactionLands(c)
  <2> DEFINE a == Head(cycle[c].batch).activity
  <2>1. cycle' \in [Cycles -> CycleStates(G)]
    <3>1. PICK ph \in {"landed", "rejected"} : cycle' = [cycle EXCEPT ![c].phase = ph]
        BY <1>10 DEF transactionLands
    <3> QED
        BY <1>10, <3>1, PhaseChanges DEF transactionLands
  <2>2. a \in G
      BY <1>10, <1>c, HeadHolds DEF transactionLands
  <2>3. anchored' \subseteq Pools
      BY <1>10, <2>2 DEF transactionLands, AnchoredBy, ActivityRecord, WorldOK
  <2> QED
      BY <1>10, <2>1, <2>3 DEF transactionLands, WorldOK, setup
<1>11. CASE sendConfirmed(c)
  <2>1. cycle' \in [Cycles -> CycleStates(G)]
      BY <1>11, CandidateAdvances DEF sendConfirmed
  <2> QED
      BY <1>11, <2>1 DEF sendConfirmed, WorldOK, worldVars, setup
<1>12. CASE sendFailed(c)
  <2>1. cycle' \in [Cycles -> CycleStates(G)]
      BY <1>12, CandidateAdvances DEF sendFailed
  <2>2. UNCHANGED <<slotHashes, submissionMode>>
      BY <1>12 DEF sendFailed, setup, Disturbed
  <2>3. late' \subseteq G
    <3>1. CASE late' = late
        BY <3>1
    <3>2. CASE cycle[c].phase = "pending" /\ Late({Head(cycle[c].batch).activity})
      <4>1. Head(cycle[c].batch).activity \in G
          BY <3>2, <1>c, HeadHolds
      <4> QED
          BY <3>2, <4>1 DEF Late
    <3> QED
        BY <1>12, <3>1, <3>2 DEF sendFailed
  <2> QED
      BY <1>12, <2>1, <2>2, <2>3 DEF sendFailed, WorldOK, worldVars
<1>13. CASE trackSubmissionThrows(c)
  <2>1. cycle' \in [Cycles -> CycleStates(G)]
      BY <1>13, CycleEnds DEF trackSubmissionThrows
  <2> QED
      BY <1>13, <2>1 DEF trackSubmissionThrows, WorldOK, worldVars, Disturbed
<1> QED
    BY <1>1, <1>2, <1>3, <1>4, <1>5, <1>6, <1>7, <1>8, <1>9, <1>10, <1>11, <1>12, <1>13,
       <1>14, <1>15
    DEF CycleNext

(***************************************************************************)
(* One step of the world.                                                  *)
(***************************************************************************)
LEMMA StatesGrow ==
    ASSUME NEW G, NEW H, G \subseteq H
    PROVE  /\ Candidates(G) \subseteq Candidates(H)
           /\ Entries(G) \subseteq Entries(H)
           /\ CycleStates(G) \subseteq CycleStates(H)
<1>1. Candidates(G) \subseteq Candidates(H) /\ Entries(G) \subseteq Entries(H)
    BY DEF Candidates, Entries
<1>2. Seq(Candidates(G)) \subseteq Seq(Candidates(H))
    BY <1>1
<1>3. CycleStates(G) \subseteq CycleStates(H)
    BY <1>2 DEF CycleStates
<1> QED
    BY <1>1, <1>3

\* What has been sent and not confirmed.
LEMMA SentHolds ==
    ASSUME NEW G, Holds(G)
    PROVE  Sent \subseteq G
<1> SUFFICES ASSUME NEW c \in Cycles, cycle[c].phase = "pending"
             PROVE  Head(cycle[c].batch).activity \in G
    BY DEF Sent
<1>1. cycle[c] \in CycleStates(G)
    BY DEF Holds
<1> QED
    BY <1>1, HeadHolds

LEMMA WorldSteps ==
    ASSUME WorldOK, WorldNext, \A a \in late : a \in ActivityRecord
    PROVE  /\ WorldOK'
           /\ now' >= now
           /\ \/ signatures' = signatures
              \/ \E q \in Pools, amm \in BOOLEAN : SignatureAdded(q, amm)
<1>0. now \in Nat
    BY DEF WorldOK
<1>a. ASSUME NEW q \in Pools, NEW amm \in BOOLEAN, Signed(q, amm)
      PROVE  signatures' \in [Pools -> Seq(Signature)] /\ SignatureAdded(q, amm)
  <2> DEFINE e == [blockTime |-> now, amm |-> amm]
  <2>1. signatures[q] \in Seq(Signature) /\ e \in Signature
      BY <1>0 DEF WorldOK, Signature
  <2>2. Append(signatures[q], e) \in Seq(Signature)
      BY <2>1
  <2>3. signatures' = [signatures EXCEPT ![q] = Append(signatures[q], e)]
      BY <1>a DEF Signed
  <2> QED
      BY <2>2, <2>3 DEF WorldOK, SignatureAdded
<1>1. CASE Tick
    BY <1>1 DEF Tick, WorldOK, setup
<1>2. ASSUME NEW p \in Pools, Swap(p)
      PROVE  WorldOK' /\ now' = now /\ SignatureAdded(p, TRUE)
  <2>1. signatures' \in [Pools -> Seq(Signature)] /\ SignatureAdded(p, TRUE)
      BY <1>2, <1>a DEF Swap
  <2> QED
      BY <1>2, <2>1 DEF Swap, WorldOK, Disturbed
<1>6. ASSUME NEW p \in Pools, OtherSignature(p)
      PROVE  WorldOK' /\ now' = now /\ SignatureAdded(p, FALSE)
  <2>1. signatures' \in [Pools -> Seq(Signature)] /\ SignatureAdded(p, FALSE)
      BY <1>6, <1>a DEF OtherSignature
  <2> QED
      BY <1>6, <2>1 DEF OtherSignature, WorldOK, Disturbed
<1>3. ASSUME NEW p \in Pools, AnchorSwept(p)
      PROVE  WorldOK' /\ now' = now /\ signatures' = signatures
    BY <1>3 DEF AnchorSwept, WorldOK, Disturbed
<1>4. ASSUME NEW a \in late, LateTransaction(a)
      PROVE  WorldOK' /\ now' = now /\ signatures' = signatures
  <2>1. a.pool \in Pools
      BY DEF ActivityRecord
  <2> QED
      BY <1>4, <2>1 DEF LateTransaction, AnchoredBy, WorldOK, setup
<1>5. CASE Crash
    BY <1>5 DEF Crash, WorldOK, worldVars, Disturbed
<1>7. CASE \E p \in Pools : Swap(p) \/ OtherSignature(p)
  <2>1. WorldOK' /\ now' = now /\ \E q \in Pools, amm \in BOOLEAN : SignatureAdded(q, amm)
      BY <1>2, <1>6, <1>7
  <2> QED
      BY <1>0, <2>1
<1> QED
    BY <1>0, <1>1, <1>3, <1>4, <1>5, <1>7 DEF WorldNext

\* The world adds nothing to what the indexer holds: it lets go of it, or sends it.
LEMMA WorldHolds ==
    ASSUME NEW G, Holds(G), WorldNext
    PROVE  Holds(G)'
<1> USE DEF Holds
<1>1. CASE Tick
    BY <1>1 DEF Tick
<1>2. ASSUME NEW p \in Pools, Swap(p) \/ OtherSignature(p) \/ AnchorSwept(p)
      PROVE  Holds(G)'
    BY <1>2 DEF Swap, OtherSignature, AnchorSwept
<1>3. ASSUME NEW a \in late, LateTransaction(a)
      PROVE  Holds(G)'
    BY <1>3 DEF LateTransaction
<1>4. CASE Crash
  <2>1. late' \subseteq G
      BY <1>4, SentHolds DEF Crash, Late
  <2>2. cycle' \in [Cycles -> CycleStates(G)]
      BY <1>4, IdleHolds DEF Crash
  <2> QED
      BY <1>4, <2>1, <2>2 DEF Crash
<1> QED
    BY <1>1, <1>2, <1>3, <1>4 DEF WorldNext

-----------------------------------------------------------------------------
(***************************************************************************)
(* The invariant.                                                          *)
(***************************************************************************)
LEMMA EvidenceInit ==
    ASSUME Init
    PROVE  EvidenceInv
<1>1. WorldOK
    BY IndexerAssumption DEF Init, WorldOK
<1>2. Holds(Genuine)
    BY IdleHolds DEF Init, Holds
<1> QED
    BY <1>1, <1>2 DEF EvidenceInv

LEMMA EvidenceNext ==
    ASSUME EvidenceInv, [Next]_vars
    PROVE  EvidenceInv'
<1> USE DEF EvidenceInv
<1>1. PICK G : G = Genuine
    OBVIOUS
<1>2. G \subseteq ActivityRecord /\ WorldOK /\ Holds(G)
    BY <1>1 DEF Genuine
<1>3. CASE WorldNext
  <2>1. \A a \in late : a \in ActivityRecord
      BY <1>2 DEF Holds
  <2>2. WorldOK' /\ Genuine \subseteq Genuine'
      BY <1>3, <2>1, WorldSteps, GenuineGrows
  <2>3. Holds(G)'
      BY <1>2, <1>3, WorldHolds
  <2>4. PICK H : H = Genuine'
      OBVIOUS
  <2>5. Holds(H)'
    <3>1. /\ Candidates(G) \subseteq Candidates(H) /\ Entries(G) \subseteq Entries(H)
          /\ CycleStates(G) \subseteq CycleStates(H)
        BY <1>1, <2>2, <2>4, StatesGrow
    <3> QED
        BY <1>1, <2>2, <2>3, <2>4, <3>1 DEF Holds
  <2> QED
      BY <2>2, <2>4, <2>5
<1>4. CASE \E c \in Cycles : CycleNext(c)
  <2>1. WorldOK' /\ Holds(G)' /\ now' = now /\ signatures' = signatures
      BY <1>1, <1>2, <1>4, CycleSteps, DerivedIsGenuine
  <2>2. Genuine' = G
      BY <1>1, <2>1 DEF Genuine, Explained, LastSwap, SwapTimes, Swaps, Newest
  <2> QED
      BY <2>1, <2>2
<1>5. CASE UNCHANGED vars
  <2>1. WorldOK' /\ Holds(G)' /\ now' = now /\ signatures' = signatures
      BY <1>2, <1>5 DEF vars, worldVars, setup, WorldOK, Holds
  <2>2. Genuine' = G
      BY <1>1, <2>1 DEF Genuine, Explained, LastSwap, SwapTimes, Swaps, Newest
  <2> QED
      BY <2>1, <2>2
<1> QED
    BY <1>3, <1>4, <1>5 DEF Next

LEMMA EvidenceAlways == Spec => []EvidenceInv
BY EvidenceInit, EvidenceNext, PTL DEF Spec

(***************************************************************************)
(* Type correctness, for any pools, cycles and bounds: whatever the cycles *)
(* do to the shared cache and queue, a record is never half of one, and no *)
(* cycle submits more than its budget.                                     *)
(***************************************************************************)
THEOREM IndexerTypeCorrect == Spec => []TypeOK
<1>1. ASSUME EvidenceInv PROVE TypeOK
  <2> USE <1>1 DEF EvidenceInv
  <2>1. Genuine \subseteq ActivityRecord
      BY DEF Genuine
  <2>2. Candidates(Genuine) \subseteq ScoredCandidate
      BY <2>1 DEF Candidates, ScoredCandidate
  <2>4. Entries(Genuine) \subseteq CacheEntry
      BY <2>1 DEF Entries, CacheEntry
  <2>3. ASSUME NEW c \in Cycles
        PROVE  /\ cycle[c].phase \in Phases
               /\ cycle[c].todo \subseteq Pools
               /\ cycle[c].miss \in Miss \cup {None}
               /\ cycle[c].activity \in ActivityRecord \cup {None}
               /\ Len(cycle[c].batch) <= maxCandidatesPerCycle
               /\ ToSet(cycle[c].batch) \subseteq ScoredCandidate
    <3>1. cycle[c] \in CycleStates(Genuine)
        BY DEF Holds
    <3>2. cycle[c].batch \in Seq(Candidates(Genuine))
        BY <3>1 DEF CycleStates
    <3>3. ToSet(cycle[c].batch) \subseteq Candidates(Genuine)
        BY <3>2 DEF ToSet
    <3> QED
        BY <2>1, <2>2, <3>1, <3>3 DEF CycleStates
  <2> QED
      BY <2>1, <2>2, <2>3, <2>4 DEF TypeOK, WorldOK, Holds
<1> QED
    BY <1>1, EvidenceAlways, PTL

(***************************************************************************)
(* The evidence that is attested, for any pools, cycles, scan limit and    *)
(* bounds: the swap time the indexer signs for Phase 1 is that of a        *)
(* transaction of that very pool, and if it is not the last one then the   *)
(* pool was traded after its signatures were read or the RPC node withheld *)
(* a transaction.                                                          *)
(***************************************************************************)
THEOREM EvidenceAlwaysExplained == Spec => []AttestedEvidenceExplained
<1>1. ASSUME EvidenceInv PROVE AttestedEvidenceExplained
  <2>1. Sent \cup late \subseteq Genuine
      BY <1>1, SentHolds DEF EvidenceInv, Holds
  <2> QED
      BY <2>1 DEF Genuine, AttestedEvidenceExplained
<1> QED
    BY <1>1, EvidenceAlways, PTL
=============================================================================
