----------------------------- MODULE Snapshotter -----------------------------
(***************************************************************************)
(* The LP-holder snapshotter (snapshotter/src): it reads the LP mint's     *)
(* supply, its token accounts and the UNCX lock records with three         *)
(* separate RPC calls, builds the canonical leaf set, seals it into the    *)
(* Merkle artifact the claims are served from, and the salvage then pins   *)
(* the artifact's supply against the live mint.                            *)
(*                                                                         *)
(* The ledger keeps moving meanwhile.  It is kept as the sequence of its   *)
(* states, because the reads need not see the same one: the supply is read *)
(* at commitment "confirmed", while the two enumerations use the client's  *)
(* default, "finalized", which lags behind.                                *)
(***************************************************************************)
EXTENDS MerkleTree, FiniteSets

CONSTANTS
    None,             \* an absent value
    Accounts,         \* addresses of the SPL token accounts of the LP mint
    AccountOwner,     \* who controls each of them (a pubkey, as a number)
    Custody,          \* the token account in which the locker keeps locked LP
    Locks,            \* global ids of the UNCX TokenLock records
    LockOwner,        \* the beneficial owner recorded in each of them
    Cases,            \* what to start from: a ledger state and a SnapshotRequest
                      \* (sink_exclusions, custody_owner_overrides)
    MoveAmounts,      \* bound: LP tokens one ledger step may move
    FinalityLag,      \* bound: how many states "finalized" is behind
    MaxSlot           \* bound: ledger states in one behaviour

ASSUME AccountAssumption ==
    /\ AccountOwner \in [Accounts -> Nat]
    /\ LockOwner \in [Locks -> Nat]
    /\ Custody \in Accounts
    /\ IsFiniteSet(Accounts)
    /\ IsFiniteSet(Locks)

\* The SnapshotErrors, and the CLI failing to write the file.
Errors ==
    {"Source", "SupplyMismatch", "LockRecordInvalid", "CustodyNotFound", "CustodyAmbiguous",
     "LockOwnerIsCustody", "CustodyExcludedAsSink", "InvariantViolated", "EmptySnapshot",
     "ArtifactMismatch", "write failed"}

LedgerState ==
    [balance : [Accounts -> Nat], locked : [Locks -> Nat \cup {None}]]

\* What a lock record accounts for.
LockedAmounts(state) ==
    [l \in Locks |-> IF state.locked[l] = None THEN 0 ELSE state.locked[l]]

\* The custody account holds what is locked, and perhaps more.
CustodyCovers(state) == SumFunction(LockedAmounts(state)) <= state.balance[Custody]

ASSUME LedgerAssumption ==
    /\ \A c \in Cases : c.ledger \in LedgerState /\ CustodyCovers(c.ledger)
    /\ MoveAmounts \subseteq Nat
    /\ MaxSlot \in Nat \ {0}
    /\ None \notin Nat \cup Errors

VARIABLES
    request,      \* what the operator asked for
    ledger,       \* the states of the LP mint so far, the newest last
    phase,        \* how far the snapshotter has come
    error,        \* the SnapshotError it stopped with
    supplyRead,   \* MintSupply: amount and slot, as served
    accountsRead, \* the parsed token accounts, as served
    snapshot,     \* the LpSnapshot the builder returned
    file,         \* the published artifact
    copy,         \* what a reader of the published file made of it
    registry,     \* root and supply the salvage sealed on chain
    served        \* history: the ledger state behind every read, whether the two
                  \* enumerations were complete, and the lock records of the second

vars == <<request, ledger, phase, error, supplyRead, accountsRead, snapshot, file, copy,
          registry, served>>

\* The sum of the values of a function.
Total(f) == SumFunction(f)

Get(f, x) == IF x \in DOMAIN f THEN f[x] ELSE 0

-----------------------------------------------------------------------------
(***************************************************************************)
(* The ledger: SPL token, Raydium and the UNCX locker, as far as the LP    *)
(* mint is concerned.  locked[l] is the record's current_locked_amount, or *)
(* None when the record does not exist.  Locked tokens sit in the custody  *)
(* account, to which anybody may also transfer.                            *)
(***************************************************************************)
Now == Len(ledger)

Live == ledger[Now]

MintSupplyOf(state) == Total(state.balance)

\* Once the snapshot is aborted or the root sealed, later ledger steps matter to nobody;
\* while it is "built" they are the same as after publishing, which reads no ledger.
LedgerStep(state) ==
    /\ Now < MaxSlot
    /\ registry = None
    /\ phase \notin {"aborted", "built"}
    /\ ledger' = Append(ledger, state)
    /\ UNCHANGED <<request, phase, error, supplyRead, accountsRead, snapshot, file, copy,
                   registry, served>>

Transfer(a, b, n) ==
    /\ a # Custody /\ a # b
    /\ Live.balance[a] >= n
    /\ LedgerStep([Live EXCEPT !.balance[a] = @ - n, !.balance[b] = @ + n])

Deposit(a, n) ==
    /\ a # Custody
    /\ LedgerStep([Live EXCEPT !.balance[a] = @ + n])

Withdraw(a, n) ==
    /\ a # Custody
    /\ Live.balance[a] >= n
    /\ LedgerStep([Live EXCEPT !.balance[a] = @ - n])

LockLp(a, l, n) ==
    /\ a # Custody
    /\ Live.balance[a] >= n
    /\ LedgerStep([Live EXCEPT !.balance[a] = @ - n, !.balance[Custody] = @ + n,
                               !.locked[l] = IF @ = None THEN n ELSE @ + n])

\* The record of an emptied lock may stay behind or be closed.
UnlockLp(l, a, n) ==
    /\ AccountOwner[a] = LockOwner[l] /\ a # Custody
    /\ Live.locked[l] # None
    /\ Live.locked[l] >= n
    /\ \E left \in {Live.locked[l] - n} \cup
                   (IF Live.locked[l] = n THEN {None} ELSE {}) :
            LedgerStep([Live EXCEPT !.balance[a] = @ + n, !.balance[Custody] = @ - n,
                                    !.locked[l] = left])

-----------------------------------------------------------------------------
(***************************************************************************)
(* What the RPC node serves.  Raw accounts carry what the parsers check.   *)
(* A response may be missing, leave one account out, or hold one account   *)
(* that is malformed or belongs elsewhere.                                 *)
(***************************************************************************)
LP_MINT == "lp_mint"
POOL == "pool"
TOKEN_PROGRAM == "token_program"
ACCOUNT_SIZE == 165
MINT_SIZE == 82

token_lock_address(id) == <<"uncx_locker", id>>

RawMint(state) ==
    [owner |-> TOKEN_PROGRAM, size |-> MINT_SIZE, supply |-> MintSupplyOf(state)]

RawTokenAccounts(state) ==
    {[address |-> a, size |-> ACCOUNT_SIZE, mint |-> LP_MINT,
      owner |-> AccountOwner[a], amount |-> state.balance[a]] : a \in Accounts}

RawTokenLocks(state) ==
    {[address |-> token_lock_address(l), well_formed |-> TRUE, lock_global_id |-> l,
      amm_id |-> POOL, lp_mint |-> LP_MINT, lock_owner |-> LockOwner[l],
      current_locked_amount |-> state.locked[l]] :
         l \in {x \in Locks : state.locked[x] # None}}

Garbled(S, Spoil(_)) == {(S \ {r}) \cup {Spoil(r)} : r \in S}

MintResponses(state) ==
    {None, RawMint(state), [RawMint(state) EXCEPT !.owner = "other"],
     [RawMint(state) EXCEPT !.size = 0]}

AccountResponses(state) ==
    LET all == RawTokenAccounts(state)
    IN {None, all} \cup {all \ {r} : r \in all}
         \cup Garbled(all, LAMBDA r : [r EXCEPT !.size = 0])
         \cup Garbled(all, LAMBDA r : [r EXCEPT !.mint = "other"])

LockResponses(state) ==
    LET all == RawTokenLocks(state)
    IN {None, all} \cup {all \ {r} : r \in all}
         \cup Garbled(all, LAMBDA r : [r EXCEPT !.well_formed = FALSE])
         \cup Garbled(all, LAMBDA r : [r EXCEPT !.address = token_lock_address(0)])
         \cup Garbled(all, LAMBDA r : [r EXCEPT !.amm_id = "other"])
         \cup Garbled(all, LAMBDA r : [r EXCEPT !.lp_mint = "other"])

\* get_account_with_commitment asks for "confirmed", the enumerations for "finalized".
ConfirmedSlots == {Now}

FinalizedSlots == {s \in 1..Now : s >= Now - FinalityLag}

parse_spl_mint_supply(raw) == raw.owner = TOKEN_PROGRAM /\ raw.size = MINT_SIZE

parse_spl_token_account(raw) == raw.size = ACCOUNT_SIZE /\ raw.mint = LP_MINT

TokenAccountSnapshot(raw) ==
    [address |-> raw.address, owner |-> raw.owner, amount |-> raw.amount]

\* Size and discriminator, the PDA derived from the declared id, the two bindings.
TokenLockRecord_parse(raw) ==
    /\ raw.well_formed
    /\ raw.address = token_lock_address(raw.lock_global_id)
    /\ raw.amm_id = POOL
    /\ raw.lp_mint = LP_MINT

-----------------------------------------------------------------------------
(***************************************************************************)
(* SnapshotBuilder::build from the moment it has all three answers.        *)
(* Balances are u64 and their sums u128 in the code; the sums stay below   *)
(* the u64 supply, so the checked additions never overflow.                *)
(***************************************************************************)
per_owner(accounts) ==
    [o \in {a.owner : a \in accounts} |->
        Total([a \in {b \in accounts : b.owner = o} |-> a.amount])]

\* The exclusion pass: zero balances and declared sinks go to the ledger.
Excluded(owners) ==
    {[owner |-> o, lp_balance |-> 0, reason |-> "ZeroBalance"] :
        o \in {x \in DOMAIN owners : owners[x] = 0}}
    \cup
    {[owner |-> o, lp_balance |-> owners[o], reason |-> "ExplicitSink"] :
        o \in {x \in DOMAIN owners : owners[x] # 0 /\ x \in request.sink_exclusions}}

\* Mutant: zero balances stay in the leaf set.
ClaimableWithZeros(owners) ==
    [o \in DOMAIN owners \ request.sink_exclusions |-> owners[o]]

Claimable(owners) ==
    [o \in {x \in DOMAIN owners : owners[x] # 0 /\ x \notin request.sink_exclusions} |-> owners[o]]

Attributions(records) ==
    [o \in {r.lock_owner : r \in records} |->
        Total([r \in {t \in records : t.lock_owner = o} |-> r.current_locked_amount])]

TotalLocked(records) == Total([r \in records |-> r.current_locked_amount])

\* Mutant: several candidates are settled by taking any one of them.
CustodyCandidatesFirst(accounts, total) ==
    {CHOOSE a \in accounts : a.amount = total}

\* The accounts that hold exactly the locked total; several of them need an override.
CustodyCandidates(accounts, total) ==
    LET candidates == {a \in accounts : a.amount = total}
    IN IF Cardinality(candidates) <= 1 THEN candidates
       ELSE {a \in candidates : a.owner \in request.custody_owner_overrides}

CustodyNotFound(accounts, total) == \A a \in accounts : a.amount # total

Rank(S, x) == Cardinality({y \in S : y < x})

InOrder(S) == [i \in 1..Cardinality(S) |-> CHOOSE x \in S : Rank(S, x) = i - 1]

Entries(balances) ==
    LET order == InOrder(DOMAIN balances)
    IN [i \in DOMAIN order |-> [owner |-> order[i], lp_balance |-> balances[order[i]]]]

\* The account that locked LP is lifted from, when there is any.
Lifted(accounts, records) ==
    CHOOSE a \in CustodyCandidates(accounts, TotalLocked(records)) : TRUE

\* The owners who keep what they hold: the custody's owner is removed entirely.
FreeOwners(accounts, records) ==
    LET holders == DOMAIN Claimable(per_owner(accounts))
    IN IF TotalLocked(records) = 0 THEN holders
       ELSE holders \ {Lifted(accounts, records).owner}

\* Free and locked LP, per owner.
Merged(accounts, records) ==
    LET claimable    == Claimable(per_owner(accounts))
        attributions == Attributions(records)
        free         == FreeOwners(accounts, records)
    IN [o \in free \cup DOMAIN attributions |->
           (IF o \in free THEN claimable[o] ELSE 0) + Get(attributions, o)]

EnumeratedTotal(accounts) == Total([a \in accounts |-> a.amount])

SinkTotal(accounts) == Total([x \in Excluded(per_owner(accounts)) |-> x.lp_balance])

\* The error that aborts the snapshot, or None, in the order the code checks.
BuildError(accounts, records) ==
    LET total_locked == TotalLocked(records)
        chosen       == CustodyCandidates(accounts, total_locked)
        owner        == Lifted(accounts, records).owner
        merged       == Merged(accounts, records)
        entries      == Entries(merged)
    IN IF total_locked > 0 /\ CustodyNotFound(accounts, total_locked)
         THEN "CustodyNotFound"
       ELSE IF total_locked > 0 /\ Cardinality(chosen) # 1
         THEN "CustodyAmbiguous"
       ELSE IF total_locked > 0 /\ owner \in DOMAIN Attributions(records)
         THEN "LockOwnerIsCustody"
       ELSE IF total_locked > 0 /\ owner \notin DOMAIN Claimable(per_owner(accounts))
         THEN "CustodyExcludedAsSink"
       ELSE IF Total(merged) + SinkTotal(accounts) # EnumeratedTotal(accounts)
         THEN "InvariantViolated"
       ELSE IF entries = <<>>
         THEN "EmptySnapshot"
       ELSE IF ~validate_entries(entries)
         THEN "InvariantViolated"
       ELSE None

LpSnapshot(supply, accounts, records) ==
    [snapshot_slot |-> supply.slot,
     lp_total_supply_at_snapshot |-> supply.amount,
     entries |-> Entries(Merged(accounts, records)),
     exclusions |-> Excluded(per_owner(accounts)),
     custody |-> IF TotalLocked(records) = 0 THEN None ELSE Lifted(accounts, records).address,
     reconciliation |-> [enumerated_total |-> EnumeratedTotal(accounts),
                         entries_total |-> Total(Merged(accounts, records)),
                         sink_exclusions_total |-> SinkTotal(accounts)]]

-----------------------------------------------------------------------------
(***************************************************************************)
(* The sealed artifact.                                                    *)
(***************************************************************************)
ARTIFACT_FORMAT_VERSION == 1

seal(snap) ==
    LET tree == from_entries(snap.entries)
    IN [format_version |-> ARTIFACT_FORMAT_VERSION,
        snapshot_slot |-> snap.snapshot_slot,
        lp_total_supply_at_snapshot |-> snap.lp_total_supply_at_snapshot,
        merkle_root |-> tree_root(tree),
        leaf_count |-> leaf_count(tree),
        tree_depth |-> tree_depth(tree),
        entries |-> [i \in DOMAIN snap.entries |->
                        [owner |-> snap.entries[i].owner,
                         lp_balance |-> snap.entries[i].lp_balance,
                         leaf |-> tree[1][i],
                         proof |-> tree_proof(tree, i - 1)]],
        reconciliation |-> snap.reconciliation]

\* Mutant: the persisted proofs are taken as they are.
verify_integrity_without_proofs(art) ==
    LET entries == [i \in DOMAIN art.entries |->
                       [owner |-> art.entries[i].owner,
                        lp_balance |-> art.entries[i].lp_balance]]
        tree    == from_entries(entries)
    IN /\ validate_entries(entries)
       /\ tree_root(tree) = art.merkle_root
       /\ art.leaf_count = Len(entries)

\* The reader's check: everything must derive from the persisted entries again.
verify_integrity(art) ==
    LET entries == [i \in DOMAIN art.entries |->
                       [owner |-> art.entries[i].owner,
                        lp_balance |-> art.entries[i].lp_balance]]
        tree    == from_entries(entries)
        r       == art.reconciliation
    IN /\ art.format_version = ARTIFACT_FORMAT_VERSION
       /\ validate_entries(entries)
       /\ tree_root(tree) = art.merkle_root
       /\ art.leaf_count = Len(entries)
       /\ art.tree_depth = tree_depth(tree)
       /\ \A i \in DOMAIN entries :
              /\ art.entries[i].leaf = tree[1][i]
              /\ art.entries[i].proof = tree_proof(tree, i - 1)
       /\ Total([i \in DOMAIN entries |-> entries[i].lp_balance]) = r.entries_total
       /\ r.entries_total + r.sink_exclusions_total = r.enumerated_total
       /\ r.enumerated_total = art.lp_total_supply_at_snapshot

\* What a reader may find in the file: the artifact, text that does not parse (None), or
\* an artifact in which something drifted.
FileContents(art) ==
    {art, None,
     [art EXCEPT !.format_version = 0],
     [art EXCEPT !.merkle_root = art.entries[1].leaf],
     [art EXCEPT !.leaf_count = @ + 1],
     [art EXCEPT !.tree_depth = @ + 1],
     [art EXCEPT !.entries = Tail(@)],
     [art EXCEPT !.reconciliation.entries_total = @ + 1],
     [art EXCEPT !.reconciliation.enumerated_total = @ + 1],
     [art EXCEPT !.lp_total_supply_at_snapshot = @ + 1]}
    \cup UNION {{[art EXCEPT !.entries[i].lp_balance = @ + 1],
                 [art EXCEPT !.entries[i].proof = <<art.entries[i].leaf>>],
                 [art EXCEPT !.entries[i].leaf = art.merkle_root]} : i \in {1, Len(art.entries)}}

-----------------------------------------------------------------------------
(***************************************************************************)
(* The run of the snapshotter.                                             *)
(***************************************************************************)
Init ==
    /\ \E c \in Cases : ledger = <<c.ledger>> /\ request = c.request
    /\ phase = "start"
    /\ error = None
    /\ supplyRead = None
    /\ accountsRead = {}
    /\ snapshot = None
    /\ file = None
    /\ copy = None
    /\ registry = None
    /\ served = [supply |-> None, accounts |-> None, locks |-> None,
                 all_accounts |-> FALSE, all_locks |-> FALSE, records |-> {}]

\* Mutant: the reason is lost.
AbortSilently(e) == phase' = "aborted" /\ error' = error

Abort(e) == phase' = "aborted" /\ error' = e

\* lp_mint_supply
ReadSupply ==
    /\ phase = "start"
    /\ \E s \in ConfirmedSlots : \E raw \in MintResponses(ledger[s]) :
         LET parsed == raw # None /\ parse_spl_mint_supply(raw)
         IN \/ /\ parsed
               /\ supplyRead' = [amount |-> raw.supply, slot |-> s]
               /\ phase' = "supply"
               /\ served' = [served EXCEPT !.supply = s]
               /\ error' = error
            \/ /\ ~parsed
               /\ Abort("Source")
               /\ UNCHANGED <<supplyRead, served>>
    /\ UNCHANGED <<request, ledger, accountsRead, snapshot, file, copy, registry>>

\* The completeness gate.
SupplyGate(accounts) == EnumeratedTotal(accounts) = supplyRead.amount

\* token_accounts and the completeness gate
ReadAccounts ==
    /\ phase = "supply"
    /\ \E s \in FinalizedSlots : \E raw \in AccountResponses(ledger[s]) :
         LET parsed   == raw # None /\ \A r \in raw : parse_spl_token_account(r)
             accounts == {TokenAccountSnapshot(r) : r \in raw}
         IN \/ /\ parsed /\ SupplyGate(accounts)
               /\ accountsRead' = accounts
               /\ phase' = "accounts"
               /\ served' = [served EXCEPT !.accounts = s,
                                           !.all_accounts = raw = RawTokenAccounts(ledger[s])]
               /\ error' = error
            \/ /\ parsed /\ ~SupplyGate(accounts)
               /\ Abort("SupplyMismatch")
               /\ UNCHANGED <<accountsRead, served>>
            \/ /\ ~parsed
               /\ Abort("Source")
               /\ UNCHANGED <<accountsRead, served>>
    /\ UNCHANGED <<request, ledger, supplyRead, snapshot, file, copy, registry>>

\* token_locks and the rest of build
ReadLocksAndBuild ==
    /\ phase = "accounts"
    /\ \E s \in FinalizedSlots : \E raw \in LockResponses(ledger[s]) :
         LET parsed  == raw # None /\ \A r \in raw : TokenLockRecord_parse(r)
             e       == BuildError(accountsRead, raw)
         IN \/ /\ parsed
               /\ IF e = None
                    THEN /\ snapshot' = LpSnapshot(supplyRead, accountsRead, raw)
                         /\ phase' = "built"
                         /\ error' = error
                    ELSE snapshot' = snapshot /\ Abort(e)
               /\ served' = [served EXCEPT !.locks = s,
                                           !.all_locks = raw = RawTokenLocks(ledger[s]),
                                           !.records = raw]
            \/ /\ ~parsed
               /\ Abort(IF raw = None THEN "Source" ELSE "LockRecordInvalid")
               /\ UNCHANGED <<snapshot, served>>
    /\ UNCHANGED <<request, ledger, supplyRead, accountsRead, file, copy, registry>>

\* The rest of the CLI's main: seal, verify_integrity, write.
PublishArtifact ==
    /\ phase = "built"
    /\ LET art == seal(snapshot)
       IN \/ IF verify_integrity(art)
               THEN file' = art /\ phase' = "published" /\ error' = error
               ELSE file' = file /\ Abort("ArtifactMismatch")
          \/ file' = file /\ Abort("write failed")
    /\ UNCHANGED <<request, ledger, supplyRead, accountsRead, snapshot, copy, registry, served>>

\* from_json and verify_integrity in the hands of a claimant, after the salvage.
LoadArtifact ==
    /\ registry # None
    /\ copy = None
    /\ \E content \in FileContents(file) :
          copy' = IF content # None /\ verify_integrity(content)
                    THEN [accepted |-> TRUE, artifact |-> content]
                    ELSE [accepted |-> FALSE, artifact |-> None]
    /\ UNCHANGED <<request, ledger, phase, error, supplyRead, accountsRead, snapshot, file,
                   registry, served>>

\* Mutant: the salvage does not pin the supply.
SupplyPinnedNot(art) == TRUE

SupplyPinned(art) == MintSupplyOf(Live) = art.lp_total_supply_at_snapshot

\* The part of salvage_pool that concerns the snapshot.
SealRoot ==
    /\ phase = "published"
    /\ registry = None
    /\ SupplyPinned(file)
    /\ registry' = [lp_snapshot_merkle_root |-> file.merkle_root,
                    lp_total_supply_at_snapshot |-> file.lp_total_supply_at_snapshot,
                    slot |-> Now]
    /\ UNCHANGED <<request, ledger, phase, error, supplyRead, accountsRead, snapshot, file, copy,
                   served>>

LedgerMoves ==
    \E a \in Accounts, n \in MoveAmounts :
        \/ \E b \in Accounts : Transfer(a, b, n)
        \/ Deposit(a, n)
        \/ Withdraw(a, n)
        \/ \E l \in Locks : LockLp(a, l, n) \/ UnlockLp(l, a, n)

Next ==
    \/ LedgerMoves
    \/ ReadSupply
    \/ ReadAccounts
    \/ ReadLocksAndBuild
    \/ PublishArtifact
    \/ LoadArtifact
    \/ SealRoot

Spec == Init /\ [][Next]_vars

-----------------------------------------------------------------------------
(***************************************************************************)
(* Properties                                                              *)
(***************************************************************************)
LpSnapshots ==
    [snapshot_slot : 1..MaxSlot,
     lp_total_supply_at_snapshot : Nat,
     entries : Seq([owner : Nat, lp_balance : Nat]),
     exclusions : SUBSET [owner : Nat, lp_balance : Nat,
                          reason : {"ZeroBalance", "ExplicitSink"}],
     custody : Accounts \cup {None},
     reconciliation : [enumerated_total : Nat, entries_total : Nat,
                       sink_exclusions_total : Nat]]

\* Type correctness; the mint's amounts never run below zero.
TypeOK ==
    /\ request \in {c.request : c \in Cases}
    /\ ledger \in Seq(LedgerState)
    /\ Len(ledger) \in 1..MaxSlot
    /\ phase \in {"start", "supply", "accounts", "built", "published", "aborted"}
    /\ error \in Errors \cup {None}
    /\ (phase = "aborted") <=> (error # None)
    /\ phase \in {"built", "published"} => snapshot \in LpSnapshots
    /\ file # None => phase = "published"
    /\ phase = "published" => file.leaf_count = Len(snapshot.entries)

Owners == {AccountOwner[a] : a \in Accounts} \cup {LockOwner[l] : l \in Locks}

LockedBy(state, o) ==
    Total([l \in {m \in Locks : LockOwner[m] = o /\ state.locked[m] # None} |->
              state.locked[l]])

LockedTotal(state) == Total([o \in Owners |-> LockedBy(state, o)])

\* What belongs to o: its free tokens and those locked in its name.
Beneficial(state, o) ==
    Total([a \in {b \in Accounts \ {Custody} : AccountOwner[b] = o} |-> state.balance[a]])
      + LockedBy(state, o)

ShareOf(art, o) ==
    Total([i \in {j \in DOMAIN art.entries : art.entries[j].owner = o} |->
              art.entries[i].lp_balance])

\* Neither o's token accounts nor its locks changed while the snapshotter was reading.
Unmoved(o) ==
    LET slots == {served.supply, served.accounts, served.locks}
    IN \A s, t \in Min(slots)..Max(slots) :
          /\ \A a \in Accounts : AccountOwner[a] = o => ledger[s].balance[a] = ledger[t].balance[a]
          /\ \A l \in Locks : LockOwner[l] = o => ledger[s].locked[l] = ledger[t].locked[l]

(***************************************************************************)
(* Torn reads do not rob a bystander.  The three reads of build may see    *)
(* three different ledger states.  As long as the lock records were all    *)
(* served, the custody account held exactly what they lock, and the        *)
(* enumeration was complete or the supply the same at the first two reads  *)
(* (then the completeness gate catches a missing account), a holder who    *)
(* moved nothing meanwhile gets a leaf for all its tokens, free and        *)
(* locked, whatever the others did.                                        *)
(***************************************************************************)
UnmovedHolderPaidInFull ==
    /\ file # None
    /\ served.all_locks
    /\ \/ served.all_accounts
       \/ MintSupplyOf(ledger[served.accounts]) = supplyRead.amount
    /\ ledger[served.accounts].balance[Custody] = LockedTotal(ledger[served.locks])
    /\ request.custody_owner_overrides \subseteq {AccountOwner[Custody]}
    =>
    \A o \in Owners \ (request.sink_exclusions \cup {AccountOwner[Custody]}) :
        Unmoved(o) => ShareOf(file, o) = Beneficial(ledger[served.accounts], o)

(***************************************************************************)
(* A sealed root covers the live supply.  Although the accounts may have   *)
(* been enumerated at an older state than the one the salvage executes in, *)
(* the claims under the root it seals and the declared sinks add up to     *)
(* exactly the LP supply that exists at that moment: the pool's proceeds   *)
(* are neither over-allocated nor left without a claimant.                 *)
(***************************************************************************)
SealedClaimsCoverSupply ==
    registry # None =>
        Total([i \in DOMAIN file.entries |-> file.entries[i].lp_balance])
          + Total([x \in snapshot.exclusions |-> x.lp_balance])
        = MintSupplyOf(ledger[registry.slot])

(***************************************************************************)
(* The builder's proofs satisfy the verifier.  Every entry of a published  *)
(* artifact opens the published root in claim_lp_proceeds, whatever the    *)
(* number of leaves, and no entry's proof opens it for another holder's    *)
(* leaf.                                                                   *)
(***************************************************************************)
EveryEntryOpensTheRoot ==
    file # None =>
        \A i, j \in DOMAIN file.entries :
            verify_proof(file.merkle_root,
                         compute_leaf(file.entries[i].owner, file.entries[i].lp_balance),
                         file.entries[j].proof)
            <=> i = j

(***************************************************************************)
(* A copy that verify_integrity accepts, and that names the sealed root,   *)
(* carries the published claims: same holders, balances and proofs.        *)
(***************************************************************************)
AcceptedCopyIsAuthentic ==
    /\ copy # None
    /\ copy.accepted
    /\ copy.artifact.merkle_root = registry.lp_snapshot_merkle_root
    => copy.artifact.entries = file.entries

(***************************************************************************)
(* When build reports InvariantViolated.  Only two kinds of input lead to  *)
(* it.  The record of an emptied lock whose owner holds no LP otherwise,   *)
(* or is a declared sink, reaches the leaf set as a zero balance.  Or the  *)
(* very account that locked LP was lifted from shares its owner with       *)
(* another funded account, whose LP was removed with it.                   *)
(***************************************************************************)
InvariantViolatedExplained ==
    error = "InvariantViolated" =>
        \/ \E r \in served.records :
              /\ r.current_locked_amount = 0
              /\ \/ r.lock_owner \in request.sink_exclusions
                 \/ \A a \in accountsRead : a.owner = r.lock_owner => a.amount = 0
        \/ LET custody == Lifted(accountsRead, served.records)
           IN /\ TotalLocked(served.records) > 0
              /\ \E b \in accountsRead \ {custody} : b.owner = custody.owner /\ b.amount > 0

\* All reads were complete and of one ledger state.
ReadsAgree ==
    /\ served.all_accounts /\ served.all_locks
    /\ served.accounts = served.supply /\ served.locks = served.supply

(***************************************************************************)
(* "debug_assert_eq!(removed, chosen.amount)" (builder.rs:214): whatever   *)
(* is lifted as the custody was all that its owner held.  It fails, when   *)
(* all reads agree, once the owner has a second funded account.  A debug   *)
(* build panics there; a release build goes on to the closing identity and *)
(* reports InvariantViolated.                                              *)
(***************************************************************************)
RemovedIsTheCustody ==
    /\ ReadsAgree
    /\ TotalLocked(served.records) > 0
    /\ error \notin {"CustodyNotFound", "CustodyAmbiguous", "LockOwnerIsCustody",
                     "CustodyExcludedAsSink"}
    => LET chosen == Lifted(accountsRead, served.records)
       IN per_owner(accountsRead)[chosen.owner] = chosen.amount

(***************************************************************************)
(* "fail-closed: ambiguity or a missing custody account aborts the         *)
(* snapshot rather than guessing" (snapshotter/src/lib.rs): when all reads *)
(* were complete and of one ledger state, locked LP is lifted from the     *)
(* locker's custody account or not at all.  It fails: the custody is       *)
(* whichever single account holds exactly the locked total, and once       *)
(* somebody has sent LP to the real one that may be a holder's.            *)
(***************************************************************************)
CustodyNeverGuessed ==
    ReadsAgree /\ snapshot # None => snapshot.custody \in {None, Custody}
=============================================================================
