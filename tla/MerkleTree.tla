----------------------------- MODULE MerkleTree -----------------------------
(***************************************************************************)
(* The Merkle tree over the LP-holder snapshot: the off-chain builder      *)
(* (snapshotter/src/tree.rs) and the on-chain verifier                     *)
(* (programs/grave-vault/src/merkle.rs) that its proofs have to satisfy.   *)
(*                                                                         *)
(* SHA-256 is taken to be free of collisions, so a hash is its preimage:   *)
(* a leaf is the record of its owner and balance, a parent the unordered   *)
(* pair of its children (the code sorts the two by bytes before hashing).  *)
(* The 40-byte leaf preimage and the 64-byte parent preimage can never     *)
(* coincide, which the two record shapes keep.                             *)
(***************************************************************************)
EXTENDS Integers, Sequences, SequencesExt

compute_leaf(owner, balance) == [owner |-> owner, lp_balance |-> balance]

hash_pair(a, b) == [children |-> {a, b}]

-----------------------------------------------------------------------------
(***************************************************************************)
(* The builder.  An entry set is canonical when it is not empty, strictly  *)
(* ascending by owner and free of zero balances; a pubkey is a number, and *)
(* byte order is the order of numbers.                                     *)
(***************************************************************************)
validate_entries(entries) ==
    /\ entries # <<>>
    /\ \A i \in 1..(Len(entries) - 1) : entries[i].owner < entries[i + 1].owner
    /\ \A i \in 1..Len(entries) : entries[i].lp_balance # 0

LeafLevel(entries) ==
    [i \in DOMAIN entries |-> compute_leaf(entries[i].owner, entries[i].lp_balance)]

\* Mutant: the trailing odd node is dropped instead of promoted.
NextLevelDropsOdd(level) ==
    [i \in 1..(Len(level) \div 2) |-> hash_pair(level[2 * i - 1], level[2 * i])]

\* Pairs hash together; an odd node at the end of a level promotes unchanged.
NextLevel(level) ==
    [i \in 1..((Len(level) + 1) \div 2) |->
        IF 2 * i <= Len(level) THEN hash_pair(level[2 * i - 1], level[2 * i])
                               ELSE level[2 * i - 1]]

\* The levels from the leaves up to the one that holds just the root.  A level is added
\* while the last one has more than one node, which is fewer times than there are leaves.
from_entries(entries) ==
    LET grow[k \in 1..Len(entries)] ==
            IF k = 1 THEN <<LeafLevel(entries)>>
            ELSE LET levels == grow[k - 1]
                     last   == levels[Len(levels)]
                 IN IF Len(last) > 1 THEN Append(levels, NextLevel(last)) ELSE levels
    IN grow[Len(entries)]

tree_root(levels) == levels[Len(levels)][1]

leaf_count(levels) == Len(levels[1])

tree_depth(levels) == Len(levels) - 1

\* The siblings on the path from the leaf with this (zero-based) index to the root; a
\* level at which the node is the trailing odd one contributes nothing.
tree_proof(levels, index) ==
    LET walk[k \in 0..tree_depth(levels)] ==
            IF k = 0 THEN [idx |-> index, proof |-> <<>>]
            ELSE LET level == levels[k]
                     idx   == walk[k - 1].idx
                     proof == walk[k - 1].proof
                 IN [idx |-> idx \div 2,
                     proof |->
                        IF idx % 2 = 1 THEN Append(proof, level[idx])
                        ELSE IF idx + 1 < Len(level) THEN Append(proof, level[idx + 2])
                        ELSE proof]
    IN walk[tree_depth(levels)].proof

-----------------------------------------------------------------------------
(***************************************************************************)
(* The verifier of claim_lp_proceeds folds the siblings over the leaf.     *)
(***************************************************************************)
fold_proof(leaf, proof) ==
    LET current[k \in 0..Len(proof)] ==
            IF k = 0 THEN leaf ELSE hash_pair(current[k - 1], proof[k])
    IN current[Len(proof)]

verify_proof(root, leaf, proof) == fold_proof(leaf, proof) = root
=============================================================================
