------------------------------ MODULE Indexer ------------------------------
(***************************************************************************)
(* The off-chain indexer (indexer/src): it enumerates pools, derives when  *)
(* each was last traded, pre-filters, scores and queues the candidates,    *)
(* and submits the best of the queue to Phase 1 of the scanner program,    *)
(* signing the last-swap attestation itself.  Everything it knows is in    *)
(* memory: a crash forgets it.                                             *)
(*                                                                         *)
(* The loop of index.ts runs one cycle after the other; the ops service    *)
(* starts cycles on a timer whether or not the last one has ended, so      *)
(* several may share the cache and the queue.  A step ends at every await  *)
(* across which shared state is kept: the cache is looked up, the RPC node *)
(* reads the pool's history, and the cache is written, in three steps.     *)
(* The fetches of one derivation are one step, since a transaction in the  *)
(* list no longer changes, and so are the reads of stages 3 and 4.         *)
(***************************************************************************)
EXTENDS Integers, SequencesExt

CONSTANTS
    None,                     \* no cache entry, no queue entry
    Pools,
    Cycles,                   \* scan cycles that may be under way at once
    inactivitySeconds,
    minTvlLamports,
    lpBurnDustThreshold,
    ttlMs,                    \* life of an activity cache entry
    scanLimit,                \* signatures a derivation looks at
    maxCandidatesPerCycle,
    maxPoolsPerScan,
    ScannerRefuses,           \* pools that fail C2 or C5, seen on chain only
    HashKinds,                \* what the SlotHashes sysvar may record
    Reserves,                 \* reserves a pool may have
    InitialReserves,          \* [Pools -> Reserves] to begin with
    InitialSignatures,        \* the pools' histories to begin with
    MaxTime,                  \* bound on time
    MaxLate,                  \* bound on transactions given up on
    MaxDisturbances           \* bound on trades, sweeps and faults together

VARIABLES
    now,                      \* wall clock and on-chain clock
    signatures,               \* [Pools -> its signatures, oldest first]
    reserves,                 \* [Pools -> Reserves]
    anchored,                 \* pools with an EligibilityAnchor
    slotHashes,               \* what the SlotHashes sysvar records of a slot
    submissionMode,           \* the constructor got oracle and writer key
    cache,                    \* [Pools -> CacheEntry or None]
    queue,                    \* [Pools -> ScoredCandidate or None]
    cycle,                    \* [Cycles -> the progress of a runOnce]
    late,                     \* transactions given up on but still valid
    disturbances              \* trades, sweeps and faults so far

worldVars == <<now, signatures, reserves, anchored>>
setup == <<slotHashes, submissionMode, disturbances>>
vars == <<worldVars, setup, cache, queue, cycle, late>>

\* A signature of a pool: did it succeed and invoke the AMM on the pool?
Signature == [blockTime : Nat, amm : BOOLEAN]

(***************************************************************************)
(* A last-swap time of 0 stands for noSwapFound.  Two fields are history:  *)
(* when the pool's signatures were read, and whether the RPC node returned *)
(* every transaction it was asked for.                                     *)
(***************************************************************************)
ActivityRecord ==
    [pool : Pools, lastSwapUnixTs : Nat, at : Nat, complete : BOOLEAN]

CacheEntry == [record : ActivityRecord, cachedAtMs : Nat]

\* A cache miss: indexActivity takes the time before it awaits the history.
Miss == [pool : Pools, now : Nat]

ReserveRecord == [wsol : BOOLEAN, tvlLamports : Nat, lpSupply : Nat,
                  priceCollapseMargin : Nat]

ScoredCandidate == [activity : ActivityRecord, score : Nat]

Idle == [phase |-> "idle", todo |-> {}, miss |-> None, activity |-> None,
         batch |-> <<>>]

Phases == {"idle", "scanning", "deriving", "derived", "enriching",
           "submitting", "pending", "landed", "rejected"}

ASSUME IndexerAssumption ==
    /\ inactivitySeconds \in Nat \ {0}
    /\ maxCandidatesPerCycle \in Nat
    /\ scanLimit \in Nat
    /\ HashKinds \subseteq {"blockhash", "bank hash"}
    /\ Reserves \subseteq ReserveRecord
    /\ InitialReserves \subseteq [Pools -> Reserves]
    /\ InitialSignatures \in [Pools -> Seq(Signature)]
    /\ \A p \in Pools : \A i \in DOMAIN InitialSignatures[p] :
          InitialSignatures[p][i].blockTime \in 1..2
    /\ ScannerRefuses \subseteq Pools
    /\ IsFiniteSet(Pools)
    /\ None \notin ActivityRecord \cup CacheEntry \cup Miss \cup ScoredCandidate

\* The signatures of p that are transactions of the AMM on it, by position.
Swaps(p) == {i \in DOMAIN signatures[p] : signatures[p][i].amm}

SwapTimes(p) == {signatures[p][i].blockTime : i \in Swaps(p)}

\* The time of the newest of them, 0 if there is none.
Newest(p, swaps) ==
    IF swaps = {} THEN 0 ELSE signatures[p][Max(swaps)].blockTime

LastSwap(p) == Newest(p, Swaps(p))

(***************************************************************************)
(* getSignaturesForAddress returns the newest scanLimit signatures, those  *)
(* of failed and of unrelated transactions included.                       *)
(***************************************************************************)
Scanned(p) == {i \in Swaps(p) : i > Len(signatures[p]) - scanLimit}

InScanWindow(p) == Scanned(p) # {}

(***************************************************************************)
(* submissionMode is whether the GraveScannerV2 was constructed with both  *)
(* keys.  buildScanner, which both entry points of the repository use,     *)
(* passes neither: as shipped it is FALSE.                                 *)
(***************************************************************************)
Init ==
    /\ now = 2
    /\ signatures = InitialSignatures
    /\ reserves \in InitialReserves
    /\ anchored = {}
    /\ slotHashes \in HashKinds
    /\ submissionMode \in BOOLEAN
    /\ cache = [p \in Pools |-> None]
    /\ queue = [p \in Pools |-> None]
    /\ cycle = [c \in Cycles |-> Idle]
    /\ late = {}
    /\ disturbances = 0

Disturbed ==
    /\ disturbances < MaxDisturbances
    /\ disturbances' = disturbances + 1
    /\ UNCHANGED <<slotHashes, submissionMode>>

-----------------------------------------------------------------------------
(***************************************************************************)
(* Stage 1: getProgramAccounts, cut off at maxPoolsPerScan in whatever     *)
(* order the node returns the accounts.  A failed call fails the cycle.    *)
(***************************************************************************)
enumeratePools(c) ==
    /\ cycle[c].phase = "idle"
    /\ \E found \in SUBSET Pools :
          /\ Cardinality(found) = Min({Cardinality(Pools), maxPoolsPerScan})
          /\ cycle' = [cycle EXCEPT ![c] =
                 [Idle EXCEPT !.phase = "scanning", !.todo = found]]
    /\ UNCHANGED <<worldVars, setup, cache, queue, late>>


\* At the time bound every entry has expired: real time goes on.
CacheFresh(p) ==
    /\ cache[p] # None
    /\ now - cache[p].cachedAtMs < ttlMs
    /\ now < MaxTime

Derivation(p, lastSwapUnixTs, visible) ==
    [pool |-> p, lastSwapUnixTs |-> lastSwapUnixTs, at |-> now,
     complete |-> visible = Scanned(p)]

\* Mutant: the signatures are scanned oldest first.
deriveFirstSwapV4(p, visible) ==
    Derivation(p, IF visible = {} THEN 0 ELSE signatures[p][Min(visible)].blockTime,
               visible)

\* Mutant: another sentinel for a pool without swaps.
deriveLastSwapMinusOne(p, visible) ==
    Derivation(p, IF visible = {} THEN -1 ELSE Newest(p, visible), visible)

(***************************************************************************)
(* deriveLastSwapV4: the newest AMM transaction among the scanned          *)
(* signatures; one that the node cannot return is passed over.             *)
(***************************************************************************)
deriveLastSwapV4(p, visible) == Derivation(p, Newest(p, visible), visible)

\* Stage 2, for the next pool of the enumeration: a fresh entry is returned.
indexActivityCached(c, p) ==
    /\ cycle[c].phase = "scanning"
    /\ p \in cycle[c].todo
    /\ CacheFresh(p)
    /\ cycle' = [cycle EXCEPT ![c].phase = "enriching", ![c].todo = @ \ {p},
                              ![c].activity = cache[p].record]
    /\ UNCHANGED <<worldVars, setup, cache, queue, late>>

indexActivityMisses(c, p) ==
    /\ cycle[c].phase = "scanning"
    /\ p \in cycle[c].todo
    /\ ~CacheFresh(p)
    /\ cycle' = [cycle EXCEPT ![c].phase = "deriving", ![c].todo = @ \ {p},
                              ![c].miss = [pool |-> p, now |-> now]]
    /\ UNCHANGED <<worldVars, setup, cache, queue, late>>

\* The RPC node answers, with all it was asked for or with less.
historyRead(c, visible) ==
    LET p == cycle[c].miss.pool IN
    /\ cycle[c].phase = "deriving"
    /\ visible \subseteq Scanned(p)
    /\ cycle' = [cycle EXCEPT ![c].phase = "derived",
                              ![c].activity = deriveLastSwapV4(p, visible)]
    /\ IF visible = Scanned(p) THEN UNCHANGED setup ELSE Disturbed
    /\ UNCHANGED <<worldVars, cache, queue, late>>

\* The entry replaces whatever another cycle has cached meanwhile.
indexActivityCaches(c) ==
    /\ cycle[c].phase = "derived"
    /\ cache' = [cache EXCEPT ![cycle[c].miss.pool] =
           [record |-> cycle[c].activity, cachedAtMs |-> cycle[c].miss.now]]
    /\ cycle' = [cycle EXCEPT ![c].phase = "enriching", ![c].miss = None]
    /\ UNCHANGED <<worldVars, setup, queue, late>>

(***************************************************************************)
(* An RPC error in the derivation is not caught in runOnce: the cycle ends *)
(* without visiting the other pools and without submitting anything.       *)
(***************************************************************************)
indexActivityThrows(c) ==
    /\ Disturbed
    /\ cycle[c].phase = "deriving"
    /\ cycle' = [cycle EXCEPT ![c] = Idle]
    /\ UNCHANGED <<worldVars, cache, queue, late>>

-----------------------------------------------------------------------------
(***************************************************************************)
(* Stages 3 to 7: reserves, metadata, pre-filter, score, enqueue.  A       *)
(* missing account or an RPC error in the first two skips the pool.        *)
(***************************************************************************)
Elapsed(activity) ==
    IF activity.lastSwapUnixTs = 0 THEN 10 * inactivitySeconds
    ELSE now - activity.lastSwapUnixTs

\* C5 and C6 are assumed, C2 only asks for a WSOL side.
preFilterPool(activity, r) ==
    /\ Elapsed(activity) >= inactivitySeconds
    /\ r.wsol
    /\ r.tvlLamports >= minTvlLamports
    /\ r.lpSupply > lpBurnDustThreshold

\* The product of the margins, over the constant thresholds.
scoreCandidate(activity, r) ==
    Elapsed(activity) * r.tvlLamports * r.priceCollapseMargin

\* The higher score wins, whichever of the two records is newer.
enqueue(scored) ==
    LET p == scored.activity.pool IN
    IF queue[p] = None \/ scored.score > queue[p].score
    THEN [queue EXCEPT ![p] = scored]
    ELSE queue

NextPool(c) == [cycle EXCEPT ![c].phase = "scanning", ![c].activity = None]

enrichAndEnqueue(c) ==
    LET activity == cycle[c].activity
        r == reserves[activity.pool]
    IN  /\ cycle[c].phase = "enriching"
        /\ queue' = IF preFilterPool(activity, r)
                    THEN enqueue([activity |-> activity,
                                  score |-> scoreCandidate(activity, r)])
                    ELSE queue
        /\ cycle' = NextPool(c)
        /\ UNCHANGED <<worldVars, setup, cache, late>>

enrichmentUnavailable(c) ==
    /\ Disturbed
    /\ cycle[c].phase = "enriching"
    /\ cycle' = NextPool(c)
    /\ UNCHANGED <<worldVars, cache, queue, late>>

-----------------------------------------------------------------------------
(***************************************************************************)
(* Stage 8.  The best candidates leave the queue before any is submitted.  *)
(***************************************************************************)
Queued == {queue[p] : p \in {q \in Pools : queue[q] # None}}

Budget == Min({maxCandidatesPerCycle, Cardinality(Queued)})

ByScore(s) ==
    \A i, j \in DOMAIN s : i < j => s[i].score >= s[j].score

Leading(top) ==
    \A s \in top, t \in Queued \ top : s.score >= t.score

\* The cycle ends when its batch does.
Submitting(batch) ==
    IF batch = <<>> THEN Idle
    ELSE [Idle EXCEPT !.phase = "submitting", !.batch = batch]

drain(c) ==
    /\ cycle[c].phase = "scanning"
    /\ cycle[c].todo = {}
    /\ \E top \in SUBSET Queued :
          /\ Cardinality(top) = Budget
          /\ Leading(top)
          /\ \E batch \in SetToSeqs(top) :
                /\ ByScore(batch)
                /\ cycle' = [cycle EXCEPT ![c] = Submitting(batch)]
          /\ queue' = [p \in Pools |->
                 IF queue[p] \in top THEN None ELSE queue[p]]
    /\ UNCHANGED <<worldVars, setup, cache, late>>

NextCandidate(c) == [cycle EXCEPT ![c] = Submitting(Tail(@.batch))]

\* No oracle key or no writer key, or no slot or slot hash to be had.
submitCandidateNot(c) ==
    /\ cycle[c].phase = "submitting"
    /\ IF submissionMode THEN Disturbed ELSE UNCHANGED setup
    /\ cycle' = NextCandidate(c)
    /\ UNCHANGED <<worldVars, cache, queue, late>>

(***************************************************************************)
(* What the SDK takes for the hash of the attested slot: the blockhash of  *)
(* the block in that slot.                                                 *)
(***************************************************************************)
fetchSlotHash == "blockhash"

\* The record is signed as it is, with the slot of this moment and its hash.
submitCandidate(c) ==
    /\ submissionMode
    /\ cycle[c].phase = "submitting"
    /\ cycle' = [cycle EXCEPT ![c].phase = "pending"]
    /\ UNCHANGED <<worldVars, setup, cache, queue, late>>

(***************************************************************************)
(* evaluate_pool_phase_1, as far as it concerns this component: the anchor *)
(* must not exist, the signed hash must be the one the SlotHashes sysvar   *)
(* records for the slot (6030 otherwise), and the attested time, not the   *)
(* real one, must be old enough.  Module GraveScanner has the whole        *)
(* handler.  On agave the sysvar records the bank hash.                    *)
(***************************************************************************)
Derelict(p, lastSwapUnixTs) ==
    /\ lastSwapUnixTs > 0
    /\ now - lastSwapUnixTs >= inactivitySeconds
    /\ reserves[p].tvlLamports >= minTvlLamports
    /\ reserves[p].lpSupply > lpBurnDustThreshold
    /\ p \notin ScannerRefuses

Accepts(activity) ==
    /\ activity.pool \notin anchored
    /\ slotHashes = fetchSlotHash
    /\ Derelict(activity.pool, activity.lastSwapUnixTs)

AnchoredBy(activity) ==
    IF Accepts(activity) THEN anchored \cup {activity.pool} ELSE anchored

transactionLands(c) ==
    /\ cycle[c].phase = "pending"
    /\ LET a == Head(cycle[c].batch).activity IN
          /\ anchored' = AnchoredBy(a)
          /\ cycle' = [cycle EXCEPT ![c].phase =
                 IF Accepts(a) THEN "landed" ELSE "rejected"]
    /\ UNCHANGED <<now, signatures, reserves, setup, cache, queue, late>>

\* Stage 9 follows a confirmation: trackSubmission only reads and logs.
sendConfirmed(c) ==
    /\ cycle[c].phase = "landed"
    /\ cycle' = NextCandidate(c)
    /\ UNCHANGED <<worldVars, setup, cache, queue, late>>

\* But what it throws ends the cycle, and with it the rest of the batch.
trackSubmissionThrows(c) ==
    /\ Disturbed
    /\ cycle[c].phase = "landed"
    /\ cycle' = [cycle EXCEPT ![c] = Idle]
    /\ UNCHANGED <<worldVars, cache, queue, late>>

\* Given up on, a transaction can still land while its blockhash is recent.
Late(sent) ==
    /\ late' = late \cup sent
    /\ Cardinality(late') <= MaxLate

(***************************************************************************)
(* sendAndConfirmTransaction throws: the program refused, or nobody saw    *)
(* the confirmation in time - the transaction may have landed, or may yet. *)
(* The candidate is dropped in every case.                                 *)
(***************************************************************************)
sendFailed(c) ==
    /\ cycle[c].phase \in {"pending", "landed", "rejected"}
    /\ \/ late' = late
       \/ cycle[c].phase = "pending" /\ Late({Head(cycle[c].batch).activity})
    /\ IF cycle[c].phase = "rejected" THEN UNCHANGED setup ELSE Disturbed
    /\ cycle' = NextCandidate(c)
    /\ UNCHANGED <<worldVars, cache, queue>>

-----------------------------------------------------------------------------
(***************************************************************************)
(* The world: time, trading, the sweep of an anchor, the network, and the  *)
(* process dying.                                                          *)
(***************************************************************************)
Tick ==
    /\ now < MaxTime
    /\ now' = now + 1
    /\ UNCHANGED <<signatures, reserves, anchored, setup, cache, queue, cycle,
                   late>>

Signed(p, amm) ==
    signatures' = [signatures EXCEPT ![p] = Append(@, [blockTime |-> now, amm |-> amm])]

Swap(p) ==
    /\ Disturbed
    /\ Signed(p, TRUE)
    /\ \E r \in Reserves : reserves' = [reserves EXCEPT ![p] = r]
    /\ UNCHANGED <<now, anchored, cache, queue, cycle, late>>

\* A failed transaction that names the pool, or one that does not invoke the AMM.
OtherSignature(p) ==
    /\ Disturbed
    /\ Signed(p, FALSE)
    /\ UNCHANGED <<now, reserves, anchored, cache, queue, cycle, late>>

AnchorSwept(p) ==
    /\ Disturbed
    /\ p \in anchored
    /\ anchored' = anchored \ {p}
    /\ UNCHANGED <<now, signatures, reserves, cache, queue, cycle, late>>

LateTransaction(a) ==
    /\ late' = late \ {a}
    /\ anchored' = AnchoredBy(a)
    /\ UNCHANGED <<now, signatures, reserves, setup, cache, queue, cycle>>

Sent == {Head(cycle[c].batch).activity :
            c \in {d \in Cycles : cycle[d].phase = "pending"}}

Crash ==
    /\ Disturbed
    /\ late' = late \/ Late(Sent)
    /\ cache' = [p \in Pools |-> None]
    /\ queue' = [p \in Pools |-> None]
    /\ cycle' = [c \in Cycles |-> Idle]
    /\ UNCHANGED worldVars

-----------------------------------------------------------------------------
CycleNext(c) ==
    \/ enumeratePools(c)
    \/ \E p \in Pools : indexActivityCached(c, p) \/ indexActivityMisses(c, p)
    \/ \E p \in Pools : \E visible \in SUBSET Swaps(p) : historyRead(c, visible)
    \/ indexActivityCaches(c)
    \/ indexActivityThrows(c)
    \/ enrichAndEnqueue(c)
    \/ enrichmentUnavailable(c)
    \/ drain(c)
    \/ submitCandidateNot(c)
    \/ submitCandidate(c)
    \/ transactionLands(c)
    \/ sendConfirmed(c)
    \/ sendFailed(c)
    \/ trackSubmissionThrows(c)

WorldNext ==
    \/ Tick
    \/ \E p \in Pools : Swap(p) \/ OtherSignature(p) \/ AnchorSwept(p)
    \/ \E a \in late : LateTransaction(a)
    \/ Crash

Next == WorldNext \/ \E c \in Cycles : CycleNext(c)

Spec == Init /\ [][Next]_vars

(***************************************************************************)
(* Time passes, cycles keep being started and none hangs, and a cache      *)
(* entry does not stay fresh for ever.  The faults are finitely many: what *)
(* is claimed is recovery from them.                                       *)
(***************************************************************************)
FairSpec ==
    /\ Spec
    /\ WF_vars(Tick)
    /\ \A c \in Cycles : WF_vars(CycleNext(c))

-----------------------------------------------------------------------------
(***************************************************************************)
(* Properties.                                                             *)
(***************************************************************************)
\* Type correctness; a cycle never holds more than its budget.
TypeOK ==
    /\ now \in Nat
    /\ signatures \in [Pools -> Seq(Signature)]
    /\ reserves \in [Pools -> Reserves]
    /\ anchored \subseteq Pools
    /\ slotHashes \in HashKinds
    /\ submissionMode \in BOOLEAN
    /\ cache \in [Pools -> CacheEntry \cup {None}]
    /\ queue \in [Pools -> ScoredCandidate \cup {None}]
    /\ \A c \in Cycles :
          /\ cycle[c].phase \in Phases
          /\ cycle[c].todo \subseteq Pools
          /\ cycle[c].miss \in Miss \cup {None}
          /\ cycle[c].activity \in ActivityRecord \cup {None}
          /\ Len(cycle[c].batch) <= maxCandidatesPerCycle
          /\ ToSet(cycle[c].batch) \subseteq ScoredCandidate
    /\ late \subseteq ActivityRecord

(***************************************************************************)
(* What the indexer signs can be outdated but never made up.  The swap     *)
(* time of an attestation on its way to Phase 1, late or not, is that of a *)
(* transaction of that very pool, and if the pool was traded later, then   *)
(* after its signatures were read or in a transaction the RPC node         *)
(* withheld.  Records survive the cache, which two cycles may fill at      *)
(* once, the queue, crashes and late transactions without being mixed up,  *)
(* and the scan limit costs evidence but never falsifies it.               *)
(***************************************************************************)
Explained(a) ==
    \/ a.lastSwapUnixTs = LastSwap(a.pool)
    \/ LastSwap(a.pool) >= a.at
    \/ ~a.complete

AttestedEvidenceExplained ==
    \A a \in Sent \cup late :
        a.lastSwapUnixTs > 0 =>
            a.lastSwapUnixTs \in SwapTimes(a.pool) /\ Explained(a)

(***************************************************************************)
(* A pool with a WSOL side that stays derelict by the scanner's criteria,  *)
(* and whose last swap is within the scan limit, is submitted with its     *)
(* true last swap again and again, although candidates are drained before  *)
(* they are submitted and dropped when they fail, cycles die half way and  *)
(* the process crashes.  It takes the keys and a budget that covers every  *)
(* candidate.                                                              *)
(***************************************************************************)
StaysDerelict(p) ==
    <>[](/\ submissionMode
         /\ reserves[p].wsol
         /\ Derelict(p, LastSwap(p))
         /\ InScanWindow(p))

=============================================================================
