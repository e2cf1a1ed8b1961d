-------------------------- MODULE SnapshotterProofs --------------------------
(***************************************************************************)
(* Proofs about the snapshotter: its type invariant, that the claims under *)
(* a sealed root cover the LP supply, when build reports InvariantViolated,*)
(* that torn reads do not rob a bystander, and - for trees of any height - *)
(* that every proof opens the root for its own leaf only and that a root   *)
(* commits to the whole entry set.                                         *)
(***************************************************************************)
EXTENDS Snapshotter, SetSums

-----------------------------------------------------------------------------
(***************************************************************************)
(* The canonical order: InOrder lists a set of owners, ascending.          *)
(***************************************************************************)
LEMMA RankBounds ==
    ASSUME NEW S \in SUBSET Nat, IsFiniteSet(S), NEW x \in S
    PROVE  Rank(S, x) \in 0..(Cardinality(S) - 1)
<1> DEFINE T == {y \in S : y < x}
<1>1. T \in SUBSET (S \ {x})
    OBVIOUS
<1>2. IsFiniteSet(S \ {x}) /\ Cardinality(S \ {x}) = Cardinality(S) - 1
    BY FS_RemoveElement
<1>3. Cardinality(S) \in Nat
    BY FS_CardinalityType
<1> HIDE DEF T
<1>4. IsFiniteSet(T) /\ Cardinality(T) <= Cardinality(S \ {x})
    BY <1>1, <1>2, FS_Subset
<1>5. Cardinality(T) \in Nat
    BY <1>4, FS_CardinalityType
<1>6. Rank(S, x) = Cardinality(T)
    BY DEF Rank, T
<1> QED
    BY <1>2, <1>3, <1>4, <1>5, <1>6

LEMMA RankAscends ==
    ASSUME NEW S \in SUBSET Nat, IsFiniteSet(S), NEW x \in S, NEW z \in S, x < z
    PROVE  Rank(S, x) < Rank(S, z)
<1> DEFINE T == {y \in S : y < x}
           U == {y \in S : y < z}
<1>1. T \in SUBSET U /\ U \in SUBSET S /\ T # U
  <2>1. x \in U /\ x \notin T
      OBVIOUS
  <2>2. \A y \in S : y < x => y < z
      OBVIOUS
  <2> QED
      BY <2>1, <2>2
<1>2. Rank(S, x) = Cardinality(T) /\ Rank(S, z) = Cardinality(U)
    BY DEF Rank
<1> HIDE DEF T, U
<1>3. IsFiniteSet(U)
    BY <1>1, FS_Subset
<1>4. IsFiniteSet(T) /\ Cardinality(T) <= Cardinality(U) /\ Cardinality(T) # Cardinality(U)
    BY <1>1, <1>3, FS_Subset
<1>5. Cardinality(T) \in Nat /\ Cardinality(U) \in Nat
    BY <1>3, <1>4, FS_CardinalityType
<1> QED
    BY <1>2, <1>4, <1>5

\* Every rank is taken.
LEMMA RankExists ==
    ASSUME NEW S \in SUBSET Nat, IsFiniteSet(S), NEW i \in 1..Cardinality(S)
    PROVE  \E x \in S : Rank(S, x) = i - 1
<1> DEFINE R == 0..(Cardinality(S) - 1)
           r == [x \in S |-> Rank(S, x)]
<1>1. Cardinality(S) \in Nat
    BY FS_CardinalityType
<1>2. IsFiniteSet(R) /\ Cardinality(R) = Cardinality(S)
  <2> DEFINE n == Cardinality(S) - 1
  <2>1. 0 \in Int /\ n \in Int
      BY <1>1
  <2> HIDE DEF n
  <2>2. IsFiniteSet(0..n) /\ Cardinality(0..n) = IF 0 > n THEN 0 ELSE n - 0 + 1
      BY <2>1, FS_Interval
  <2> QED
      BY <1>1, <2>2 DEF n
<1>3. r \in [S -> R]
    BY RankBounds
<1>4. ASSUME NEW x \in S, NEW z \in S, r[x] = r[z] PROVE x = z
  <2>1. ~(x < z) /\ ~(z < x)
    <3>1. Rank(S, x) = Rank(S, z) /\ Rank(S, x) \in Nat
        BY <1>1, <1>4, RankBounds
    <3>2. ~(Rank(S, x) < Rank(S, z)) /\ ~(Rank(S, z) < Rank(S, x))
        BY <3>1
    <3> QED
        BY <3>2, RankAscends
  <2>2. x \in Nat /\ z \in Nat
      OBVIOUS
  <2> QED
      BY <2>1, <2>2
<1>5. r \in Injection(S, R)
  <2>1. DOMAIN r = S
      OBVIOUS
  <2> HIDE DEF r, R
  <2> QED
      BY <1>3, <1>4, <2>1 DEF Injection, IsInjective
<1>6. r \in Surjection(S, R)
  <2> HIDE DEF r, R
  <2> QED
      BY <1>2, <1>5, FS_Injection
<1>7. i - 1 \in R
    BY <1>1
<1>8. PICK x \in S : r[x] = i - 1
  <2> HIDE DEF r, R
  <2> QED
      BY <1>6, <1>7 DEF Surjection
<1> QED
    BY <1>8

LEMMA InOrderIs ==
    ASSUME NEW S \in SUBSET Nat, IsFiniteSet(S)
    PROVE  /\ InOrder(S) \in [1..Cardinality(S) -> S]
           /\ \A i, j \in 1..Cardinality(S) : i < j => InOrder(S)[i] < InOrder(S)[j]
           /\ \A x \in S : \E i \in 1..Cardinality(S) : InOrder(S)[i] = x
<1>1. Cardinality(S) \in Nat
    BY FS_CardinalityType
<1>2. ASSUME NEW i \in 1..Cardinality(S)
      PROVE  InOrder(S)[i] \in S /\ Rank(S, InOrder(S)[i]) = i - 1
    BY RankExists DEF InOrder
<1>3. ASSUME NEW x \in S, NEW z \in S PROVE x < z <=> Rank(S, x) < Rank(S, z)
  <2>1. x \in Nat /\ z \in Nat /\ Rank(S, x) \in Nat /\ Rank(S, z) \in Nat
      BY <1>1, RankBounds
  <2>2. x < z => Rank(S, x) < Rank(S, z)
      BY RankAscends
  <2>3. z < x => Rank(S, z) < Rank(S, x)
      BY RankAscends
  <2> QED
      BY <2>1, <2>2, <2>3
<1>4. InOrder(S) \in [1..Cardinality(S) -> S]
    BY <1>2 DEF InOrder
<1>5. ASSUME NEW i \in 1..Cardinality(S), NEW j \in 1..Cardinality(S), i < j
      PROVE  InOrder(S)[i] < InOrder(S)[j]
  <2>1. i - 1 < j - 1
      BY <1>1, <1>5
  <2> QED
      BY <1>2, <1>3, <2>1
<1>6. ASSUME NEW x \in S PROVE \E i \in 1..Cardinality(S) : InOrder(S)[i] = x
  <2> DEFINE i == Rank(S, x) + 1
  <2>1. i \in 1..Cardinality(S) /\ i - 1 = Rank(S, x) /\ Rank(S, x) \in Nat
      BY <1>1, RankBounds
  <2> HIDE DEF i
  <2>2. InOrder(S)[i] \in S /\ Rank(S, InOrder(S)[i]) = Rank(S, x)
      BY <1>2, <2>1
  <2> DEFINE z == InOrder(S)[i]
  <2>3. z \in S /\ ~(Rank(S, z) < Rank(S, x)) /\ ~(Rank(S, x) < Rank(S, z))
      BY <2>1, <2>2
  <2> HIDE DEF z
  <2>4. ~(z < x) /\ ~(x < z) /\ z \in Nat /\ x \in Nat
      BY <1>3, <2>3
  <2>5. z = x
      BY <2>4
  <2> QED
      BY <2>1, <2>5 DEF z
<1> QED
    BY <1>4, <1>5, <1>6

-----------------------------------------------------------------------------
(***************************************************************************)
(* The leaf set.                                                           *)
(***************************************************************************)
\* Balances of finitely many owners.
Balances(b) ==
    /\ DOMAIN b \in SUBSET Nat
    /\ IsFiniteSet(DOMAIN b)
    /\ \A o \in DOMAIN b : b[o] \in Nat

\* One entry per owner, ascending.
LEMMA EntriesAre ==
    ASSUME NEW b, Balances(b)
    PROVE  LET n == Cardinality(DOMAIN b)
               e == Entries(b)
           IN  /\ n \in Nat
               /\ e \in [1..n -> [owner : Nat, lp_balance : Nat]]
               /\ \A i \in 1..n : e[i].owner \in DOMAIN b /\ e[i].lp_balance = b[e[i].owner]
               /\ \A i, j \in 1..n : i < j => e[i].owner < e[j].owner
               /\ \A o \in DOMAIN b : \E i \in 1..n : e[i].owner = o
<1> DEFINE n == Cardinality(DOMAIN b)
           e == Entries(b)
           q == InOrder(DOMAIN b)
<1>1. n \in Nat
    BY FS_CardinalityType DEF Balances
<1>2. /\ q \in [1..n -> DOMAIN b]
      /\ \A i, j \in 1..n : i < j => q[i] < q[j]
      /\ \A o \in DOMAIN b : \E i \in 1..n : q[i] = o
    BY InOrderIs DEF Balances
<1> HIDE DEF q
<1>3. DOMAIN q = 1..n
    BY <1>2
<1>4. e = [i \in 1..n |-> [owner |-> q[i], lp_balance |-> b[q[i]]]]
    BY <1>3 DEF Entries, q
<1> HIDE DEF e, n
<1>5. \A i \in 1..n : e[i].owner = q[i] /\ e[i].lp_balance = b[q[i]]
    BY <1>4
<1>6. \A i \in 1..n : q[i] \in DOMAIN b /\ q[i] \in Nat /\ b[q[i]] \in Nat
    BY <1>2 DEF Balances
<1>7. e \in [1..n -> [owner : Nat, lp_balance : Nat]]
    BY <1>4, <1>6
<1>8. \A i \in 1..n : e[i].owner \in DOMAIN b /\ e[i].lp_balance = b[e[i].owner]
    BY <1>5, <1>6
<1>9. \A i, j \in 1..n : i < j => e[i].owner < e[j].owner
    BY <1>2, <1>5
<1>10. \A o \in DOMAIN b : \E i \in 1..n : e[i].owner = o
    BY <1>2, <1>5
<1> QED
    BY <1>1, <1>7, <1>8, <1>9, <1>10 DEF e, n

LEMMA SequenceIs ==
    ASSUME NEW R, NEW n \in Nat, NEW e \in [1..n -> R]
    PROVE  e \in Seq(R) /\ Len(e) = n
OBVIOUS

\* A leaf set that is not canonical has a zero balance in it.
LEMMA RefusedForZero ==
    ASSUME NEW b, Balances(b), Entries(b) # <<>>, ~validate_entries(Entries(b))
    PROVE  \E o \in DOMAIN b : b[o] = 0
<1> DEFINE n == Cardinality(DOMAIN b)
           e == Entries(b)
<1>1. /\ n \in Nat
      /\ e \in [1..n -> [owner : Nat, lp_balance : Nat]]
      /\ \A i \in 1..n : e[i].owner \in DOMAIN b /\ e[i].lp_balance = b[e[i].owner]
      /\ \A i, j \in 1..n : i < j => e[i].owner < e[j].owner
    BY EntriesAre
<1> HIDE DEF e, n
<1>2. e \in Seq([owner : Nat, lp_balance : Nat]) /\ Len(e) = n
    BY <1>1, SequenceIs
<1>3. \A i \in 1..(n - 1) : e[i].owner < e[i + 1].owner
    BY <1>1
<1>4. PICK i \in 1..n : e[i].lp_balance = 0
    BY <1>2, <1>3 DEF validate_entries, e
<1> QED
    BY <1>1, <1>4

\* What an artifact with these leaves gives an owner.
LEMMA ShareIs ==
    ASSUME NEW b, Balances(b), NEW art, NEW o,
           DOMAIN art.entries = DOMAIN Entries(b),
           \A i \in DOMAIN art.entries :
               /\ art.entries[i].owner = Entries(b)[i].owner
               /\ art.entries[i].lp_balance = Entries(b)[i].lp_balance
    PROVE  ShareOf(art, o) = Get(b, o)
<1> DEFINE n == Cardinality(DOMAIN b)
           e == Entries(b)
           J == {j \in DOMAIN art.entries : art.entries[j].owner = o}
           f == [i \in J |-> art.entries[i].lp_balance]
<1>1. /\ n \in Nat
      /\ e \in [1..n -> [owner : Nat, lp_balance : Nat]]
      /\ \A i \in 1..n : e[i].owner \in DOMAIN b /\ e[i].lp_balance = b[e[i].owner]
      /\ \A i, j \in 1..n : i < j => e[i].owner < e[j].owner
      /\ \A x \in DOMAIN b : \E i \in 1..n : e[i].owner = x
    BY EntriesAre
<1>2. ShareOf(art, o) = SumFunctionOnSet(f, J)
    BY SumFunctionIs DEF ShareOf, Total
<1>3. J = {j \in 1..n : e[j].owner = o}
    BY <1>1
<1>4. CASE o \notin DOMAIN b
  <2>1. J = {}
      BY <1>1, <1>3, <1>4
  <2>2. SumFunctionOnSet(f, {}) = 0
      BY SumEmpty
  <2> QED
      BY <1>2, <1>4, <2>1, <2>2 DEF Get
<1>5. CASE o \in DOMAIN b
  <2>1. PICK i \in 1..n : e[i].owner = o
      BY <1>1, <1>5
  <2>2. ASSUME NEW j \in 1..n, e[j].owner = o PROVE j = i
    <3>1. ~(i < j) /\ ~(j < i)
      <4>1. ~(e[i].owner < e[j].owner) /\ ~(e[j].owner < e[i].owner)
          BY <1>1, <2>1, <2>2
      <4> HIDE DEF e
      <4> QED
          BY <1>1, <4>1
    <3> QED
        BY <1>1, <3>1
  <2>3. J = {i}
      BY <1>3, <2>1, <2>2
  <2>4. f[i] = b[o] /\ b[o] \in Int
    <3>1. i \in J /\ i \in DOMAIN art.entries
        BY <2>3
    <3>2. f[i] = art.entries[i].lp_balance
        BY <3>1
    <3>3. art.entries[i].lp_balance = e[i].lp_balance
        BY <3>1
    <3>4. e[i].lp_balance = b[o]
        BY <1>1, <2>1
    <3>5. b[o] \in Int
        BY <1>5 DEF Balances
    <3> QED
        BY <3>2, <3>3, <3>4, <3>5
  <2>5. SumFunctionOnSet(f, {i}) = f[i]
    <3> HIDE DEF f
    <3> QED
        BY <2>4, SumSingle
  <2> QED
      BY <1>2, <1>5, <2>3, <2>4, <2>5 DEF Get
<1> QED
    BY <1>4, <1>5

-----------------------------------------------------------------------------
(***************************************************************************)
(* Per-owner totals of token accounts and of lock records.                 *)
(***************************************************************************)
AccountSet(accounts) ==
    /\ IsFiniteSet(accounts)
    /\ accounts \subseteq [address : Accounts, owner : Nat, amount : Nat]

RecordSet(records) ==
    /\ IsFiniteSet(records)
    /\ \A r \in records : r.lock_owner \in Nat /\ r.current_locked_amount \in Nat

Amounts(accounts) == [a \in accounts |-> a.amount]

LockAmounts(records) == [r \in records |-> r.current_locked_amount]

HeldBy(accounts, o) == {a \in accounts : a.owner = o}

LockedFor(records, o) == {r \in records : r.lock_owner = o}

\* The total of a function that agrees with f.
LEMMA TotalIs ==
    ASSUME NEW T, IsFiniteSet(T), NEW f, NEW e, DOMAIN e = T,
           \A x \in T : e[x] \in Int /\ e[x] = f[x]
    PROVE  Total(e) = SumFunctionOnSet(f, T)
<1>1. Total(e) = SumFunctionOnSet(e, T)
    BY SumFunctionIs DEF Total
<1>2. SumFunctionOnSet(e, T) = SumFunctionOnSet(f, T)
    BY SumCongruent
<1> QED
    BY <1>1, <1>2

LEMMA PerOwnerIs ==
    ASSUME NEW accounts, AccountSet(accounts)
    PROVE  /\ Balances(per_owner(accounts))
           /\ DOMAIN per_owner(accounts) = {a.owner : a \in accounts}
           /\ \A o \in DOMAIN per_owner(accounts) :
                 per_owner(accounts)[o] = SumFunctionOnSet(Amounts(accounts), HeldBy(accounts, o))
           /\ Total(per_owner(accounts)) = EnumeratedTotal(accounts)
           /\ EnumeratedTotal(accounts) = SumFunctionOnSet(Amounts(accounts), accounts)
<1> DEFINE f == Amounts(accounts)
           k == [a \in accounts |-> a.owner]
           g == per_owner(accounts)
<1>1. IsFiniteSet(accounts) /\ \A a \in accounts : a.owner \in Nat /\ a.amount \in Nat
    BY DEF AccountSet
<1>2. DOMAIN f = accounts /\ \A a \in accounts : f[a] = a.amount /\ f[a] \in Nat /\ f[a] \in Int
    BY <1>1 DEF Amounts
<1>3. DOMAIN g = {a.owner : a \in accounts} /\ DOMAIN g \in SUBSET Nat
    BY <1>1 DEF per_owner
<1>4. DOMAIN g = {k[a] : a \in accounts}
    BY <1>3
<1>5. ASSUME NEW o \in DOMAIN g
      PROVE  /\ g[o] = SumFunctionOnSet(f, HeldBy(accounts, o))
             /\ HeldBy(accounts, o) = Group(accounts, k, o)
  <2> DEFINE T == HeldBy(accounts, o)
             e == [a \in T |-> a.amount]
  <2>1. T \in SUBSET accounts /\ T = Group(accounts, k, o)
      BY DEF HeldBy, Group
  <2>2. IsFiniteSet(T)
      BY <1>1, <2>1, FS_Subset
  <2>3. g[o] = Total(e)
      BY <1>3 DEF per_owner, HeldBy
  <2>4. DOMAIN e = T /\ \A a \in T : e[a] \in Int /\ e[a] = f[a]
      BY <1>2, <2>1
  <2> HIDE DEF T, e, f
  <2>5. Total(e) = SumFunctionOnSet(f, T)
      BY <2>2, <2>4, TotalIs
  <2> QED
      BY <2>1, <2>3, <2>5 DEF T
<1>6. EnumeratedTotal(accounts) = SumFunctionOnSet(f, accounts)
    BY SumFunctionIs DEF EnumeratedTotal, Total, Amounts
<1>7. /\ IsFiniteSet(DOMAIN g)
      /\ \A o \in DOMAIN g : g[o] \in Nat
      /\ SumFunction(g) = SumFunctionOnSet(f, accounts)
  <2>1. \A o \in DOMAIN g : g[o] = SumFunctionOnSet(f, Group(accounts, k, o))
      BY <1>5
  <2>2. \A a \in accounts : f[a] \in Nat
      BY <1>2
  <2> HIDE DEF f, k, g
  <2> QED
      BY <1>1, <1>4, <2>1, <2>2, GroupedTotals
<1> HIDE DEF f, k, g
<1> QED
    BY <1>3, <1>5, <1>6, <1>7 DEF Balances, Total, f, g

LEMMA AttributionsAre ==
    ASSUME NEW records, RecordSet(records)
    PROVE  /\ Balances(Attributions(records))
           /\ DOMAIN Attributions(records) = {r.lock_owner : r \in records}
           /\ \A o \in DOMAIN Attributions(records) :
                 Attributions(records)[o]
                     = SumFunctionOnSet(LockAmounts(records), LockedFor(records, o))
           /\ Total(Attributions(records)) = TotalLocked(records)
           /\ TotalLocked(records) \in Nat
<1> DEFINE f == LockAmounts(records)
           k == [r \in records |-> r.lock_owner]
           g == Attributions(records)
<1>1. IsFiniteSet(records)
      /\ \A r \in records : r.lock_owner \in Nat /\ r.current_locked_amount \in Nat
    BY DEF RecordSet
<1>2. DOMAIN f = records
      /\ \A r \in records : f[r] = r.current_locked_amount /\ f[r] \in Nat /\ f[r] \in Int
    BY <1>1 DEF LockAmounts
<1>3. DOMAIN g = {r.lock_owner : r \in records} /\ DOMAIN g \in SUBSET Nat
    BY <1>1 DEF Attributions
<1>4. DOMAIN g = {k[r] : r \in records}
    BY <1>3
<1>5. ASSUME NEW o \in DOMAIN g
      PROVE  /\ g[o] = SumFunctionOnSet(f, LockedFor(records, o))
             /\ LockedFor(records, o) = Group(records, k, o)
  <2> DEFINE T == LockedFor(records, o)
             e == [r \in T |-> r.current_locked_amount]
  <2>1. T \in SUBSET records /\ T = Group(records, k, o)
      BY DEF LockedFor, Group
  <2>2. IsFiniteSet(T)
      BY <1>1, <2>1, FS_Subset
  <2>3. g[o] = Total(e)
      BY <1>3 DEF Attributions, LockedFor
  <2>4. DOMAIN e = T /\ \A r \in T : e[r] \in Int /\ e[r] = f[r]
      BY <1>2, <2>1
  <2> HIDE DEF T, e, f
  <2>5. Total(e) = SumFunctionOnSet(f, T)
      BY <2>2, <2>4, TotalIs
  <2> QED
      BY <2>1, <2>3, <2>5 DEF T
<1>6. TotalLocked(records) = SumFunctionOnSet(f, records)
    BY SumFunctionIs DEF TotalLocked, Total, LockAmounts
<1>7. /\ IsFiniteSet(DOMAIN g)
      /\ \A o \in DOMAIN g : g[o] \in Nat
      /\ SumFunction(g) = SumFunctionOnSet(f, records)
  <2>1. \A o \in DOMAIN g : g[o] = SumFunctionOnSet(f, Group(records, k, o))
      BY <1>5
  <2>2. \A r \in records : f[r] \in Nat
      BY <1>2
  <2> HIDE DEF f, k, g
  <2> QED
      BY <1>1, <1>4, <2>1, <2>2, GroupedTotals
<1>8. SumFunctionOnSet(f, records) \in Nat
    BY <1>1, <1>2, SumNat
<1> HIDE DEF f, k, g
<1> QED
    BY <1>3, <1>5, <1>6, <1>7, <1>8 DEF Balances, Total, f, g

-----------------------------------------------------------------------------
(***************************************************************************)
(* The exclusion pass and the merge lose nothing.                          *)
(***************************************************************************)
LEMMA ExclusionPass ==
    ASSUME NEW w, Balances(w)
    PROVE  LET ex == [x \in Excluded(w) |-> x.lp_balance]
           IN  /\ Balances(Claimable(w))
               /\ DOMAIN Claimable(w) =
                     {o \in DOMAIN w : w[o] # 0 /\ o \notin request.sink_exclusions}
               /\ \A o \in DOMAIN Claimable(w) : Claimable(w)[o] = w[o]
               /\ Excluded(w) \in SUBSET [owner : Nat, lp_balance : Nat,
                                          reason : {"ZeroBalance", "ExplicitSink"}]
               /\ Total(ex) \in Nat
               /\ Total(Claimable(w)) + Total(ex) = Total(w)
<1> DEFINE D == DOMAIN w
           c == Claimable(w)
           C == DOMAIN c
           X == D \ C
           E == Excluded(w)
           k == [o \in X |-> [owner |-> o, lp_balance |-> w[o],
                              reason |-> IF w[o] = 0 THEN "ZeroBalance" ELSE "ExplicitSink"]]
           ex == [x \in E |-> x.lp_balance]
<1>1. D \in SUBSET Nat /\ IsFiniteSet(D) /\ \A o \in D : w[o] \in Nat /\ w[o] \in Int
    BY DEF Balances
<1>2. /\ C = {o \in D : w[o] # 0 /\ o \notin request.sink_exclusions}
      /\ \A o \in C : c[o] = w[o]
    BY DEF Claimable
<1>3. X = {o \in D : w[o] = 0 \/ o \in request.sink_exclusions}
    BY <1>2
<1>4. C \in SUBSET D /\ X \in SUBSET D /\ IsFiniteSet(C) /\ IsFiniteSet(X)
    BY <1>1, <1>2, FS_Subset
<1>5. Balances(c)
    BY <1>1, <1>2, <1>4 DEF Balances
<1>6. E = {k[o] : o \in X}
    BY <1>3 DEF Excluded
<1>7. E \in SUBSET [owner : Nat, lp_balance : Nat, reason : {"ZeroBalance", "ExplicitSink"}]
    BY <1>1, <1>3 DEF Excluded
<1>8. /\ \A o, p \in X : k[o] = k[p] => o = p
      /\ \A o \in X : k[o].lp_balance = w[o] /\ k[o] \in E
    BY <1>6
<1>9. \A o \in X : w[o] \in Int /\ ex[k[o]] = w[o]
    BY <1>1, <1>8
<1>10. IsFiniteSet(E) /\ SumFunctionOnSet(ex, E) = SumFunctionOnSet(w, X)
  <2> HIDE DEF k, X, E, ex
  <2> QED
      BY <1>4, <1>6, <1>8, <1>9, SumReindexed
<1>11. Total(ex) = SumFunctionOnSet(ex, E)
    BY SumFunctionIs DEF Total
<1>12. Total(c) = SumFunctionOnSet(w, C)
  <2>1. \A o \in C : c[o] \in Int /\ c[o] = w[o]
      BY <1>1, <1>2, <1>4
  <2> HIDE DEF c
  <2> QED
      BY <1>4, <2>1, TotalIs
<1>13. Total(w) = SumFunctionOnSet(w, D)
    BY SumFunctionIs DEF Total
<1>14. SumFunctionOnSet(w, D) = SumFunctionOnSet(w, C) + SumFunctionOnSet(w, X)
  <2> HIDE DEF C, D
  <2> QED
      BY <1>1, <1>4, SumSplit
<1>15. SumFunctionOnSet(w, X) \in Nat
  <2>1. \A o \in X : w[o] \in Nat
      BY <1>1, <1>4
  <2> HIDE DEF X
  <2> QED
      BY <1>4, <2>1, SumNat
<1> HIDE DEF C, D, X, c, k
<1> QED
    BY <1>2, <1>5, <1>7, <1>10, <1>11, <1>12, <1>13, <1>14, <1>15 DEF C, c, D

LEMMA MergedIs ==
    ASSUME NEW accounts, AccountSet(accounts), NEW records, RecordSet(records)
    PROVE  LET free == FreeOwners(accounts, records)
               held == Claimable(per_owner(accounts))
               attr == Attributions(records)
               m    == Merged(accounts, records)
           IN  /\ free \in SUBSET DOMAIN held
               /\ DOMAIN m = free \cup DOMAIN attr
               /\ \A o \in DOMAIN m :
                     m[o] = (IF o \in free THEN held[o] ELSE 0) + Get(attr, o)
               /\ Balances(m)
               /\ Total(m) = SumFunctionOnSet(held, free) + TotalLocked(records)
<1> DEFINE free == FreeOwners(accounts, records)
           held == Claimable(per_owner(accounts))
           attr == Attributions(records)
           m    == Merged(accounts, records)
           D    == DOMAIN m
           A    == DOMAIN attr
           f == [o \in D |-> IF o \in free THEN held[o] ELSE 0]
           e == [o \in D |-> Get(attr, o)]
<1>1. Balances(held) /\ Balances(attr) /\ Total(attr) = TotalLocked(records)
    BY PerOwnerIs, ExclusionPass, AttributionsAre
<1>2. free \in SUBSET DOMAIN held
    BY DEF FreeOwners
<1>3. /\ D = free \cup A
      /\ \A o \in D : m[o] = (IF o \in free THEN held[o] ELSE 0) + Get(attr, o)
    BY DEF Merged
<1> HIDE DEF free, held, attr, m
<1>4. /\ free \in SUBSET Nat /\ A \in SUBSET Nat /\ IsFiniteSet(free) /\ IsFiniteSet(A)
      /\ (\A o \in free : held[o] \in Nat) /\ (\A o \in A : attr[o] \in Nat)
    BY <1>1, <1>2, FS_Subset DEF Balances
<1> HIDE DEF A, D
<1>5. D \in SUBSET Nat /\ IsFiniteSet(D)
    BY <1>3, <1>4, FS_Union
<1>6. \A o \in D : f[o] \in Nat /\ e[o] \in Nat /\ m[o] = f[o] + e[o]
    BY <1>3, <1>4 DEF Get, A
<1>7. Balances(m)
    BY <1>5, <1>6 DEF Balances, D
<1>8. /\ \A o \in D \ free : f[o] = 0
      /\ \A o \in D \ A : e[o] = 0
      /\ \A o \in free : f[o] = held[o] /\ f[o] \in Int
      /\ \A o \in A : e[o] = attr[o] /\ e[o] \in Int
    BY <1>3, <1>4 DEF Get, A
<1> HIDE DEF f, e
<1>9. SumFunctionOnSet(m, D) = SumFunctionOnSet(f, D) + SumFunctionOnSet(e, D)
  <2>1. \A o \in D : f[o] \in Int /\ e[o] \in Int /\ m[o] = f[o] + e[o]
      BY <1>6
  <2> QED
      BY <1>5, <2>1, SumPlus
<1>10. SumFunctionOnSet(f, free) = SumFunctionOnSet(f, D)
  <2>1. free \in SUBSET D /\ \A o \in D : f[o] \in Int
      BY <1>3, <1>6
  <2> QED
      BY <1>5, <1>8, <2>1, SumNonzero
<1>11. SumFunctionOnSet(e, A) = SumFunctionOnSet(e, D)
  <2>1. A \in SUBSET D /\ \A o \in D : e[o] \in Int
      BY <1>3, <1>6
  <2> QED
      BY <1>5, <1>8, <2>1, SumNonzero
<1>12. SumFunctionOnSet(f, free) = SumFunctionOnSet(held, free)
    BY <1>4, <1>8, SumCongruent
<1>13. SumFunctionOnSet(e, A) = SumFunctionOnSet(attr, A)
    BY <1>4, <1>8, SumCongruent
<1>14. Total(m) = SumFunctionOnSet(m, D) /\ Total(attr) = SumFunctionOnSet(attr, A)
    BY SumFunctionIs DEF Total, D, A
<1>15. Total(m) = SumFunctionOnSet(held, free) + TotalLocked(records)
    BY <1>1, <1>9, <1>10, <1>11, <1>12, <1>13, <1>14
<1> QED
    BY <1>2, <1>3, <1>7, <1>15 DEF free, held, attr, m, D, A

(***************************************************************************)
(* The closing identity holds once the custody's owner holds nothing but   *)
(* the locked total.                                                       *)
(***************************************************************************)
LEMMA ClosingIdentity ==
    ASSUME NEW accounts, AccountSet(accounts), NEW records, RecordSet(records),
           LET held  == Claimable(per_owner(accounts))
               owner == Lifted(accounts, records).owner
           IN  \/ TotalLocked(records) = 0
               \/ owner \in DOMAIN held /\ held[owner] = TotalLocked(records)
    PROVE  Total(Merged(accounts, records)) + SinkTotal(accounts) = EnumeratedTotal(accounts)
<1> DEFINE free  == FreeOwners(accounts, records)
           held  == Claimable(per_owner(accounts))
           H     == DOMAIN held
           owner == Lifted(accounts, records).owner
           locked == TotalLocked(records)
<1>1. Balances(per_owner(accounts)) /\ Total(per_owner(accounts)) = EnumeratedTotal(accounts)
    BY PerOwnerIs
<1>2. Balances(held) /\ Total(held) + SinkTotal(accounts) = EnumeratedTotal(accounts)
      /\ SinkTotal(accounts) \in Nat
    BY <1>1, ExclusionPass DEF SinkTotal
<1>3. Total(Merged(accounts, records)) = SumFunctionOnSet(held, free) + locked
    BY MergedIs
<1>4. locked \in Nat
    BY AttributionsAre
<1>5. free = IF locked = 0 THEN H ELSE H \ {owner}
    BY DEF FreeOwners
<1>6. locked = 0 \/ (owner \in H /\ held[owner] = locked)
    OBVIOUS
<1> HIDE DEF held, free, owner, locked
<1>7. Total(held) = SumFunctionOnSet(held, H)
    BY SumFunctionIs DEF Total
<1>8. IsFiniteSet(H) /\ \A o \in H : held[o] \in Int
    BY <1>2 DEF Balances
<1> HIDE DEF H
<1>9. SumFunctionOnSet(held, free) + locked = SumFunctionOnSet(held, H)
  <2>1. CASE locked = 0
    <3>1. SumFunctionOnSet(held, H) \in Int
        BY <1>8, SumType
    <3> QED
        BY <1>5, <2>1, <3>1
  <2>2. CASE locked # 0
    <3>1. SumFunctionOnSet(held, H) = SumFunctionOnSet(held, H \ {owner}) + held[owner]
        BY <1>6, <1>8, <2>2, SumRemove
    <3> QED
        BY <1>5, <1>6, <2>2, <3>1
  <2> QED
      BY <2>1, <2>2
<1> QED
    BY <1>2, <1>3, <1>7, <1>9 DEF free, held, owner, locked

LEMMA LiftedIs ==
    ASSUME NEW accounts, NEW records, IsFiniteSet(accounts),
           Cardinality(CustodyCandidates(accounts, TotalLocked(records))) = 1
    PROVE  /\ CustodyCandidates(accounts, TotalLocked(records)) = {Lifted(accounts, records)}
           /\ Lifted(accounts, records) \in accounts
           /\ Lifted(accounts, records).amount = TotalLocked(records)
<1> DEFINE S == CustodyCandidates(accounts, TotalLocked(records))
<1>1. S \in SUBSET accounts /\ \A a \in S : a.amount = TotalLocked(records)
    BY DEF CustodyCandidates
<1>2. IsFiniteSet(S)
  <2> HIDE DEF S
  <2> QED
      BY <1>1, FS_Subset
<1>3. PICK y : S = {y}
    BY <1>2, FS_Singleton
<1>4. Lifted(accounts, records) = y
    BY <1>3 DEF Lifted
<1> QED
    BY <1>1, <1>3, <1>4

\* An owner whose other accounts are empty holds what the one account holds.
LEMMA LoneAccount ==
    ASSUME NEW accounts, AccountSet(accounts), NEW a \in accounts,
           \A b \in accounts : b # a /\ b.owner = a.owner => b.amount = 0
    PROVE  per_owner(accounts)[a.owner] = a.amount
<1> DEFINE f == Amounts(accounts)
           T == HeldBy(accounts, a.owner)
<1>1. per_owner(accounts)[a.owner] = SumFunctionOnSet(f, T)
    BY PerOwnerIs
<1>2. IsFiniteSet(accounts) /\ \A b \in accounts : b.amount \in Nat
    BY DEF AccountSet
<1>3. T \in SUBSET accounts /\ a \in T
    BY DEF HeldBy
<1>4. /\ \A b \in T : f[b] \in Int /\ f[b] = b.amount
      /\ \A b \in T \ {a} : f[b] = 0
    BY <1>2, <1>3 DEF Amounts, HeldBy
<1> HIDE DEF f, T
<1>5. IsFiniteSet(T)
    BY <1>2, <1>3, FS_Subset
<1>6. SumFunctionOnSet(f, {a}) = SumFunctionOnSet(f, T)
  <2>1. {a} \in SUBSET T
      BY <1>3
  <2> QED
      BY <1>4, <1>5, <2>1, SumNonzero
<1>7. SumFunctionOnSet(f, {a}) = f[a]
    BY <1>3, <1>4, SumSingle
<1> QED
    BY <1>1, <1>3, <1>4, <1>6, <1>7

\* A leaf of zero comes from the record of an emptied lock.
LEMMA ZeroLeaf ==
    ASSUME NEW accounts, AccountSet(accounts), NEW records, RecordSet(records),
           TotalLocked(records) > 0 =>
               Lifted(accounts, records).owner \notin DOMAIN Attributions(records),
           NEW o \in DOMAIN Merged(accounts, records), Merged(accounts, records)[o] = 0
    PROVE  /\ \E r \in records : r.lock_owner = o /\ r.current_locked_amount = 0
           /\ \/ o \in request.sink_exclusions
              \/ \A a \in accounts : a.owner = o => a.amount = 0
<1> DEFINE free == FreeOwners(accounts, records)
           held == Claimable(per_owner(accounts))
           attr == Attributions(records)
           m    == Merged(accounts, records)
           w    == per_owner(accounts)
<1>1. /\ free \in SUBSET DOMAIN held
      /\ DOMAIN m = free \cup DOMAIN attr
      /\ m[o] = (IF o \in free THEN held[o] ELSE 0) + Get(attr, o)
    BY MergedIs, ZenonT(40)
<1>2. /\ Balances(w) /\ DOMAIN w = {a.owner : a \in accounts}
      /\ \A p \in DOMAIN w : w[p] = SumFunctionOnSet(Amounts(accounts), HeldBy(accounts, p))
    BY PerOwnerIs
<1>3. /\ DOMAIN held = {p \in DOMAIN w : w[p] # 0 /\ p \notin request.sink_exclusions}
      /\ \A p \in DOMAIN held : held[p] = w[p]
    BY <1>2, ExclusionPass
<1>4. /\ Balances(attr) /\ DOMAIN attr = {r.lock_owner : r \in records}
      /\ \A p \in DOMAIN attr :
            attr[p] = SumFunctionOnSet(LockAmounts(records), LockedFor(records, p))
      /\ TotalLocked(records) \in Nat
    BY AttributionsAre
<1>5. Get(attr, o) \in Nat
    BY <1>4 DEF Get, Balances
<1>6. o \notin free
  <2> SUFFICES ASSUME o \in free PROVE FALSE
      OBVIOUS
  <2>1. held[o] \in Nat /\ held[o] # 0
      BY <1>1, <1>2, <1>3 DEF Balances
  <2>2. held[o] + Get(attr, o) = 0
      BY <1>1
  <2> HIDE DEF held, attr
  <2> QED
      BY <1>5, <2>1, <2>2
<1>7. o \in DOMAIN attr /\ attr[o] = 0
  <2>1. o \in DOMAIN attr
      BY <1>1, <1>6
  <2>2. Get(attr, o) = 0
      BY <1>1, <1>5, <1>6
  <2> QED
      BY <2>1, <2>2 DEF Get
<1>8. PICK r \in records : r.lock_owner = o
    BY <1>4, <1>7
<1>9. r.current_locked_amount = 0
  <2> DEFINE T == LockedFor(records, o)
             f == LockAmounts(records)
  <2>1. IsFiniteSet(records) /\ T \in SUBSET records /\ r \in T
      BY <1>8 DEF RecordSet, LockedFor
  <2>2. \A x \in T : f[x] \in Nat /\ f[x] = x.current_locked_amount
      BY <2>1 DEF RecordSet, LockAmounts
  <2>3. SumFunctionOnSet(f, T) = 0
      BY <1>4, <1>7
  <2> HIDE DEF f, T
  <2>4. IsFiniteSet(T)
      BY <2>1, FS_Subset
  <2>5. f[r] <= SumFunctionOnSet(f, T)
      BY <2>1, <2>2, <2>4, SumMember
  <2>6. f[r] \in Nat /\ f[r] = r.current_locked_amount
      BY <2>1, <2>2
  <2> QED
      BY <2>3, <2>5, <2>6
<1>10. o \notin DOMAIN held
  <2> SUFFICES ASSUME o \in DOMAIN held PROVE FALSE
      OBVIOUS
  <2>1. TotalLocked(records) # 0 /\ o = Lifted(accounts, records).owner
      BY <1>6 DEF FreeOwners
  <2>2. TotalLocked(records) > 0
      BY <1>4, <2>1
  <2> QED
      BY <1>7, <2>1, <2>2
<1>11. \/ o \in request.sink_exclusions
       \/ \A a \in accounts : a.owner = o => a.amount = 0
  <2> SUFFICES ASSUME o \notin request.sink_exclusions, NEW a \in accounts, a.owner = o
               PROVE  a.amount = 0
      OBVIOUS
  <2> DEFINE T == HeldBy(accounts, o)
             f == Amounts(accounts)
  <2>1. IsFiniteSet(accounts) /\ T \in SUBSET accounts /\ a \in T
      BY DEF AccountSet, HeldBy
  <2>2. \A x \in T : f[x] \in Nat /\ f[x] = x.amount
      BY <2>1 DEF AccountSet, Amounts
  <2>3. SumFunctionOnSet(f, T) = 0
      BY <1>2, <1>3, <1>10
  <2> HIDE DEF f, T
  <2>4. IsFiniteSet(T)
      BY <2>1, FS_Subset
  <2>5. f[a] <= SumFunctionOnSet(f, T)
      BY <2>1, <2>2, <2>4, SumMember
  <2>6. f[a] \in Nat /\ f[a] = a.amount
      BY <2>1, <2>2
  <2> QED
      BY <2>3, <2>5, <2>6
<1> QED
    BY <1>8, <1>9, <1>11

\* What the checks before the closing identity establish.
LEMMA CustodySettled ==
    ASSUME NEW accounts, NEW records,
           BuildError(accounts, records) \in {None, "InvariantViolated"},
           TotalLocked(records) > 0
    PROVE  /\ Cardinality(CustodyCandidates(accounts, TotalLocked(records))) = 1
           /\ Lifted(accounts, records).owner \notin DOMAIN Attributions(records)
           /\ Lifted(accounts, records).owner \in DOMAIN Claimable(per_owner(accounts))
<1> DEFINE locked == TotalLocked(records) > 0
           lost == CustodyNotFound(accounts, TotalLocked(records))
           single == Cardinality(CustodyCandidates(accounts, TotalLocked(records))) = 1
           own == Lifted(accounts, records).owner \in DOMAIN Attributions(records)
           holds == Lifted(accounts, records).owner \in DOMAIN Claimable(per_owner(accounts))
<1>1. None \notin Errors
    BY LedgerAssumption
<1>2. /\ locked /\ lost => BuildError(accounts, records) = "CustodyNotFound"
      /\ locked /\ ~lost /\ ~single => BuildError(accounts, records) = "CustodyAmbiguous"
      /\ locked /\ ~lost /\ single /\ own => BuildError(accounts, records) = "LockOwnerIsCustody"
      /\ locked /\ ~lost /\ single /\ ~own /\ ~holds
            => BuildError(accounts, records) = "CustodyExcludedAsSink"
    BY DEF BuildError
<1> HIDE DEF lost, single, own, holds
<1> QED
    BY <1>1, <1>2 DEF Errors, single, own, holds

LEMMA ViolationExplained ==
    ASSUME NEW accounts, AccountSet(accounts), NEW records, RecordSet(records),
           BuildError(accounts, records) = "InvariantViolated"
    PROVE  \/ \E r \in records :
                 /\ r.current_locked_amount = 0
                 /\ \/ r.lock_owner \in request.sink_exclusions
                    \/ \A a \in accounts : a.owner = r.lock_owner => a.amount = 0
           \/ /\ TotalLocked(records) > 0
              /\ \E b \in accounts \ {Lifted(accounts, records)} :
                    b.owner = Lifted(accounts, records).owner /\ b.amount > 0
<1> DEFINE locked == TotalLocked(records)
           custody == Lifted(accounts, records)
           held == Claimable(per_owner(accounts))
           m == Merged(accounts, records)
<1>1. locked \in Nat
    BY AttributionsAre
<1>2. locked > 0 => /\ Cardinality(CustodyCandidates(accounts, locked)) = 1
                    /\ custody.owner \notin DOMAIN Attributions(records)
                    /\ custody.owner \in DOMAIN held
    BY CustodySettled
<1>3. CASE Total(m) + SinkTotal(accounts) # EnumeratedTotal(accounts)
  <2>1. locked # 0 /\ ~(custody.owner \in DOMAIN held /\ held[custody.owner] = locked)
      BY <1>3, ClosingIdentity
  <2>2. locked > 0
      BY <1>1, <2>1
  <2>3. custody \in accounts /\ custody.amount = locked
      BY <1>2, <2>2, LiftedIs DEF AccountSet
  <2>4. held[custody.owner] = per_owner(accounts)[custody.owner]
      BY <1>2, <2>2, PerOwnerIs, ExclusionPass
  <2>5. ~\A b \in accounts : b # custody /\ b.owner = custody.owner => b.amount = 0
      BY <1>2, <2>1, <2>2, <2>3, <2>4, LoneAccount
  <2>6. PICK b \in accounts : b # custody /\ b.owner = custody.owner /\ b.amount # 0
      BY <2>5
  <2>7. b.amount > 0
      BY <2>6 DEF AccountSet
  <2> QED
      BY <2>2, <2>6, <2>7
<1>4. CASE Total(m) + SinkTotal(accounts) = EnumeratedTotal(accounts)
  <2>1. Entries(m) # <<>> /\ ~validate_entries(Entries(m))
      BY <1>4, LedgerAssumption DEF BuildError, Errors
  <2>2. Balances(m)
      BY MergedIs
  <2>3. PICK o \in DOMAIN m : m[o] = 0
      BY <2>1, <2>2, RefusedForZero
  <2>4. /\ \E r \in records : r.lock_owner = o /\ r.current_locked_amount = 0
        /\ \/ o \in request.sink_exclusions
           \/ \A a \in accounts : a.owner = o => a.amount = 0
      BY <1>2, <2>3, ZeroLeaf
  <2> QED
      BY <2>4
<1> QED
    BY <1>3, <1>4

-----------------------------------------------------------------------------
(***************************************************************************)
(* The ledger: its states keep the types, and the custody account covers   *)
(* the locks, so that no balance runs below zero.                          *)
(***************************************************************************)
LedgerInv ==
    /\ ledger \in Seq(LedgerState)
    /\ Len(ledger) \in 1..MaxSlot
    /\ \A s \in 1..Len(ledger) : CustodyCovers(ledger[s])

LEMMA LiveIs ==
    ASSUME LedgerInv
    PROVE  Live \in LedgerState /\ CustodyCovers(Live)
BY LedgerAssumption DEF LedgerInv, Live, Now

LEMMA LockedAmountsType ==
    ASSUME NEW x \in LedgerState
    PROVE  /\ DOMAIN LockedAmounts(x) = Locks
           /\ \A l \in Locks : LockedAmounts(x)[l] \in Nat
           /\ SumFunction(LockedAmounts(x)) = SumFunctionOnSet(LockedAmounts(x), Locks)
           /\ SumFunctionOnSet(LockedAmounts(x), Locks) \in Nat
<1>1. DOMAIN LockedAmounts(x) = Locks /\ \A l \in Locks : LockedAmounts(x)[l] \in Nat
    BY DEF LockedAmounts, LedgerState
<1>2. IsFiniteSet(Locks)
    BY AccountAssumption
<1> QED
    BY <1>1, <1>2, SumNat, SumFunctionIs

\* Moving free tokens leaves the locks covered.
LEMMA FreeMove ==
    ASSUME NEW x \in LedgerState, CustodyCovers(x), NEW bal \in [Accounts -> Nat],
           bal[Custody] >= x.balance[Custody], NEW y, y = [balance |-> bal, locked |-> x.locked]
    PROVE  y \in LedgerState /\ CustodyCovers(y)
<1>1. y \in LedgerState
    BY DEF LedgerState
<1>2. LockedAmounts(y) = LockedAmounts(x)
    BY DEF LockedAmounts
<1>3. SumFunction(LockedAmounts(x)) \in Nat
    BY LockedAmountsType
<1>4. x.balance[Custody] \in Nat /\ bal[Custody] \in Nat
    BY AccountAssumption DEF LedgerState
<1> QED
    BY <1>1, <1>2, <1>3, <1>4 DEF CustodyCovers

\* The locks change by as much as the custody account.
LEMMA LockMove ==
    ASSUME NEW x \in LedgerState, CustodyCovers(x), NEW bal \in [Accounts -> Int],
           NEW l \in Locks, NEW v \in Nat \cup {None}, NEW d \in Int,
           (IF v = None THEN 0 ELSE v) = LockedAmounts(x)[l] + d,
           bal[Custody] = x.balance[Custody] + d,
           \A a \in Accounts \ {Custody} : bal[a] \in Nat,
           NEW y, y = [balance |-> bal, locked |-> [x.locked EXCEPT ![l] = v]]
    PROVE  y \in LedgerState /\ CustodyCovers(y)
<1> DEFINE e == LockedAmounts(y)
           f == LockedAmounts(x)
<1>1. None \notin Nat /\ IsFiniteSet(Locks) /\ Custody \in Accounts
    BY LedgerAssumption, AccountAssumption
<1>2. [x.locked EXCEPT ![l] = v] \in [Locks -> Nat \cup {None}]
    BY DEF LedgerState
<1>3. /\ \A m \in Locks : f[m] \in Nat /\ f[m] \in Int
      /\ SumFunction(f) = SumFunctionOnSet(f, Locks)
      /\ SumFunctionOnSet(f, Locks) \in Nat
    BY LockedAmountsType
<1>4. DOMAIN e = Locks /\ (\A m \in Locks \ {l} : e[m] = f[m])
      /\ e[l] = (IF v = None THEN 0 ELSE v)
    BY <1>2 DEF LockedAmounts, LedgerState
<1>5. e[l] = f[l] + d /\ e[l] \in Nat
    BY <1>4
<1> HIDE DEF e, f
<1>6. \A m \in Locks : e[m] \in Nat /\ e[m] \in Int
    BY <1>3, <1>4, <1>5
<1>7. SumFunctionOnSet(e, Locks) = SumFunctionOnSet(f, Locks) - f[l] + e[l]
    BY <1>1, <1>3, <1>4, <1>6, SumChanged
<1>8. SumFunction(e) = SumFunctionOnSet(e, Locks) /\ SumFunctionOnSet(e, Locks) \in Nat
    BY <1>1, <1>4, <1>6, SumNat, SumFunctionIs
<1>9. SumFunction(f) <= x.balance[Custody] /\ x.balance[Custody] \in Nat
    BY <1>1 DEF CustodyCovers, LedgerState, f
<1>10. SumFunction(e) = SumFunction(f) + d
  <2>1. f[l] \in Int
      BY <1>3
  <2> QED
      BY <1>3, <1>5, <1>7, <1>8, <2>1
<1>11. SumFunction(e) <= bal[Custody] /\ bal[Custody] \in Nat
    BY <1>1, <1>3, <1>8, <1>9, <1>10
<1>12. bal \in [Accounts -> Nat]
    BY <1>11
<1> QED
    BY <1>2, <1>11, <1>12 DEF LedgerState, CustodyCovers, e

LEMMA LedgerMovesState ==
    ASSUME LedgerInv, LedgerMoves
    PROVE  \E st \in LedgerState : CustodyCovers(st) /\ LedgerStep(st)
<1> DEFINE Good(st) == st \in LedgerState /\ CustodyCovers(st)
<1>1. Live \in LedgerState /\ CustodyCovers(Live)
    BY LiveIs
<1>2. PICK x : x = Live
    OBVIOUS
<1>3. x \in LedgerState /\ CustodyCovers(x)
    BY <1>1, <1>2
<1>4. /\ x.balance \in [Accounts -> Nat] /\ x.locked \in [Locks -> Nat \cup {None}]
      /\ x = [balance |-> x.balance, locked |-> x.locked]
    BY <1>3 DEF LedgerState
<1>5. PICK a \in Accounts, n \in MoveAmounts :
        \/ \E b \in Accounts : Transfer(a, b, n)
        \/ Deposit(a, n)
        \/ Withdraw(a, n)
        \/ \E l \in Locks : LockLp(a, l, n) \/ UnlockLp(l, a, n)
    BY DEF LedgerMoves
<1>6. n \in Nat /\ Custody \in Accounts /\ None \notin Nat
    BY LedgerAssumption, AccountAssumption
<1>7. ASSUME NEW b \in Accounts, Transfer(a, b, n)
      PROVE  \E st \in LedgerState : CustodyCovers(st) /\ LedgerStep(st)
  <2> DEFINE bal == [[x.balance EXCEPT ![a] = x.balance[a] - n] EXCEPT ![b] = x.balance[b] + n]
             st == [Live EXCEPT !.balance[a] = @ - n, !.balance[b] = @ + n]
  <2>1. a # Custody /\ a # b /\ x.balance[a] >= n /\ LedgerStep(st)
      BY <1>2, <1>7 DEF Transfer
  <2>2. bal \in [Accounts -> Nat] /\ bal[Custody] >= x.balance[Custody]
      BY <1>4, <1>6, <2>1
  <2>3. st = [balance |-> bal, locked |-> x.locked]
    <3>1. st = [x EXCEPT !.balance = bal]
        BY <1>2, <1>4
    <3> QED
        BY <1>4, <3>1
  <2>4. Good(st)
      BY <1>3, <2>2, <2>3, FreeMove
  <2> QED
      BY <2>1, <2>4
<1>8. ASSUME Deposit(a, n)
      PROVE  \E st \in LedgerState : CustodyCovers(st) /\ LedgerStep(st)
  <2> DEFINE bal == [x.balance EXCEPT ![a] = @ + n]
             st == [Live EXCEPT !.balance[a] = @ + n]
  <2>1. a # Custody /\ LedgerStep(st)
      BY <1>8 DEF Deposit
  <2>2. bal \in [Accounts -> Nat] /\ bal[Custody] >= x.balance[Custody]
      BY <1>4, <1>6, <2>1
  <2>3. st = [balance |-> bal, locked |-> x.locked]
      BY <1>2, <1>4
  <2>4. Good(st)
      BY <1>3, <2>2, <2>3, FreeMove
  <2> QED
      BY <2>1, <2>4
<1>9. ASSUME Withdraw(a, n)
      PROVE  \E st \in LedgerState : CustodyCovers(st) /\ LedgerStep(st)
  <2> DEFINE bal == [x.balance EXCEPT ![a] = @ - n]
             st == [Live EXCEPT !.balance[a] = @ - n]
  <2>1. a # Custody /\ x.balance[a] >= n /\ LedgerStep(st)
      BY <1>2, <1>9 DEF Withdraw
  <2>2. bal \in [Accounts -> Nat] /\ bal[Custody] >= x.balance[Custody]
      BY <1>4, <1>6, <2>1
  <2>3. st = [balance |-> bal, locked |-> x.locked]
      BY <1>2, <1>4
  <2>4. Good(st)
      BY <1>3, <2>2, <2>3, FreeMove
  <2> QED
      BY <2>1, <2>4
<1>10. ASSUME NEW l \in Locks, LockLp(a, l, n)
       PROVE  \E st \in LedgerState : CustodyCovers(st) /\ LedgerStep(st)
  <2> DEFINE bal == [[x.balance EXCEPT ![a] = x.balance[a] - n]
                        EXCEPT ![Custody] = x.balance[Custody] + n]
             v == IF x.locked[l] = None THEN n ELSE x.locked[l] + n
             st == [Live EXCEPT !.balance[a] = @ - n, !.balance[Custody] = @ + n,
                                !.locked[l] = IF @ = None THEN n ELSE @ + n]
  <2>1. a # Custody /\ x.balance[a] >= n /\ LedgerStep(st)
      BY <1>2, <1>10 DEF LockLp
  <2>2. /\ bal \in [Accounts -> Int] /\ bal[Custody] = x.balance[Custody] + n
        /\ \A c \in Accounts \ {Custody} : bal[c] \in Nat
      BY <1>4, <1>6, <2>1
  <2>3. v \in Nat /\ v = LockedAmounts(x)[l] + n
      BY <1>4, <1>6 DEF LockedAmounts
  <2>4. st = [balance |-> bal, locked |-> [x.locked EXCEPT ![l] = v]]
    <3>1. st = [[x EXCEPT !.balance = bal] EXCEPT !.locked[l] = v]
        BY <1>2, <1>4
    <3>2. [x EXCEPT !.balance = bal] = [balance |-> bal, locked |-> x.locked]
        BY <1>4
    <3>3. [[balance |-> bal, locked |-> x.locked] EXCEPT !.locked[l] = v]
            = [balance |-> bal, locked |-> [x.locked EXCEPT ![l] = v]]
        OBVIOUS
    <3> QED
        BY <3>1, <3>2, <3>3, Zenon
  <2> HIDE DEF bal, v, st
  <2>5. (IF v = None THEN 0 ELSE v) = LockedAmounts(x)[l] + n /\ n \in Int
      BY <1>6, <2>3
  <2>6. Good(st)
      BY <1>3, <2>2, <2>3, <2>4, <2>5, LockMove
  <2> QED
      BY <2>1, <2>6
<1>11. ASSUME NEW l \in Locks, UnlockLp(l, a, n)
       PROVE  \E st \in LedgerState : CustodyCovers(st) /\ LedgerStep(st)
  <2>1. a # Custody /\ x.locked[l] # None /\ x.locked[l] >= n
      BY <1>2, <1>11 DEF UnlockLp
  <2>2. PICK v \in {x.locked[l] - n} \cup (IF x.locked[l] = n THEN {None} ELSE {}) :
            LedgerStep([Live EXCEPT !.balance[a] = @ + n, !.balance[Custody] = @ - n,
                                    !.locked[l] = v])
      BY <1>2, <1>11 DEF UnlockLp
  <2> DEFINE bal == [[x.balance EXCEPT ![a] = x.balance[a] + n]
                        EXCEPT ![Custody] = x.balance[Custody] - n]
             st == [Live EXCEPT !.balance[a] = @ + n, !.balance[Custody] = @ - n,
                                !.locked[l] = v]
  <2>3. x.locked[l] \in Nat /\ LockedAmounts(x)[l] = x.locked[l]
      BY <1>4, <2>1 DEF LockedAmounts
  <2>4. v \in Nat \cup {None} /\ (IF v = None THEN 0 ELSE v) = LockedAmounts(x)[l] + (0 - n)
      BY <1>6, <2>1, <2>2, <2>3
  <2>5. /\ bal \in [Accounts -> Int] /\ bal[Custody] = x.balance[Custody] + (0 - n)
        /\ \A c \in Accounts \ {Custody} : bal[c] \in Nat
      BY <1>4, <1>6, <2>1
  <2>6. st = [balance |-> bal, locked |-> [x.locked EXCEPT ![l] = v]]
    <3>1. st = [[x EXCEPT !.balance = bal] EXCEPT !.locked[l] = v]
        BY <1>2, <1>4
    <3>2. [x EXCEPT !.balance = bal] = [balance |-> bal, locked |-> x.locked]
        BY <1>4
    <3>3. [[balance |-> bal, locked |-> x.locked] EXCEPT !.locked[l] = v]
            = [balance |-> bal, locked |-> [x.locked EXCEPT ![l] = v]]
        OBVIOUS
    <3> QED
        BY <3>1, <3>2, <3>3, Zenon
  <2>7. LedgerStep(st)
      BY <2>2
  <2> DEFINE d == 0 - n
  <2>8. d \in Int
      BY <1>6
  <2> HIDE DEF bal, st, d
  <2>9. Good(st)
      BY <1>3, <2>4, <2>5, <2>6, <2>8, LockMove DEF d
  <2> QED
      BY <2>7, <2>9
<1> QED
    BY <1>5, <1>7, <1>8, <1>9, <1>10, <1>11


-----------------------------------------------------------------------------
(***************************************************************************)
(* What the reads bring home: an answer that parses holds accounts, or     *)
(* lock records, of the ledger state it was served from.                   *)
(***************************************************************************)
AccountAt(x, a) ==
    [address |-> a, owner |-> AccountOwner[a], amount |-> x.balance[a]]

AccountsOf(x, A) == {AccountAt(x, a) : a \in A}

LEMMA AccountsServed ==
    ASSUME NEW x \in LedgerState, NEW raw \in AccountResponses(x), raw # None,
           \A r \in raw : parse_spl_token_account(r)
    PROVE  \E A \in SUBSET Accounts :
               /\ {TokenAccountSnapshot(r) : r \in raw} = AccountsOf(x, A)
               /\ raw = RawTokenAccounts(x) => A = Accounts
<1> DEFINE all == RawTokenAccounts(x)
           At(a) == [address |-> a, size |-> ACCOUNT_SIZE, mint |-> LP_MINT,
                     owner |-> AccountOwner[a], amount |-> x.balance[a]]
           A == {a \in Accounts : At(a) \in raw}
<1>1. ASSUME NEW r, r \in raw PROVE r.size # 0 /\ r.mint # "other"
    BY <1>1 DEF parse_spl_token_account, ACCOUNT_SIZE, LP_MINT
<1>2. all = {At(a) : a \in Accounts}
    BY DEF RawTokenAccounts
<1>3. \/ raw = all
      \/ \E r \in all : raw = all \ {r}
      \/ \E r \in all : raw = (all \ {r}) \cup {[r EXCEPT !.size = 0]}
      \/ \E r \in all : raw = (all \ {r}) \cup {[r EXCEPT !.mint = "other"]}
    BY DEF AccountResponses, Garbled
<1>4. \A r \in all : [r EXCEPT !.size = 0].size = 0 /\ [r EXCEPT !.mint = "other"].mint = "other"
    BY <1>2
<1> HIDE DEF all
<1>5. raw \subseteq all
  <2>1. \A r \in all : [r EXCEPT !.size = 0] \notin raw
      BY <1>1, <1>4
  <2>2. \A r \in all : [r EXCEPT !.mint = "other"] \notin raw
      BY <1>1, <1>4
  <2> QED
      BY <1>3, <2>1, <2>2, Zenon
<1>6. \A a \in Accounts : TokenAccountSnapshot(At(a)) = AccountAt(x, a)
    BY DEF TokenAccountSnapshot, AccountAt
<1> HIDE DEF At
<1>7. raw = {At(a) : a \in A}
    BY <1>2, <1>5
<1>8. {TokenAccountSnapshot(r) : r \in raw} = AccountsOf(x, A)
    BY <1>6, <1>7 DEF AccountsOf
<1>9. raw = all => A = Accounts
    BY <1>2
<1> QED
    BY <1>8, <1>9 DEF all

Existing(x) == {l \in Locks : x.locked[l] # None}

RecordAt(x, l) ==
    [address |-> token_lock_address(l), well_formed |-> TRUE, lock_global_id |-> l,
     amm_id |-> POOL, lp_mint |-> LP_MINT, lock_owner |-> LockOwner[l],
     current_locked_amount |-> x.locked[l]]

RecordsOf(x, L) == {RecordAt(x, l) : l \in L}

LEMMA RecordsServed ==
    ASSUME NEW x \in LedgerState, NEW raw \in LockResponses(x), raw # None,
           \A r \in raw : TokenLockRecord_parse(r)
    PROVE  \E L \in SUBSET Existing(x) :
               /\ raw = RecordsOf(x, L)
               /\ raw = RawTokenLocks(x) => L = Existing(x)
<1> DEFINE all == RawTokenLocks(x)
           L == {l \in Existing(x) : RecordAt(x, l) \in raw}
<1>1. ASSUME NEW r, r \in raw
      PROVE  /\ r.well_formed /\ r.amm_id = "pool" /\ r.lp_mint = "lp_mint"
             /\ r.address = token_lock_address(r.lock_global_id)
    BY <1>1 DEF TokenLockRecord_parse, POOL, LP_MINT
<1>2. all = {RecordAt(x, l) : l \in Existing(x)}
    BY DEF RawTokenLocks, RecordAt, Existing
<1>3. \/ raw = all
      \/ \E r \in all : raw = all \ {r}
      \/ \E r \in all : raw = (all \ {r}) \cup {[r EXCEPT !.well_formed = FALSE]}
      \/ \E r \in all : raw = (all \ {r}) \cup {[r EXCEPT !.address = token_lock_address(0)]}
      \/ \E r \in all : raw = (all \ {r}) \cup {[r EXCEPT !.amm_id = "other"]}
      \/ \E r \in all : raw = (all \ {r}) \cup {[r EXCEPT !.lp_mint = "other"]}
    BY DEF LockResponses, Garbled
<1>4. \A r \in all : /\ [r EXCEPT !.well_formed = FALSE].well_formed = FALSE
                     /\ [r EXCEPT !.amm_id = "other"].amm_id = "other"
                     /\ [r EXCEPT !.lp_mint = "other"].lp_mint = "other"
    BY <1>2 DEF RecordAt
<1>5. ASSUME NEW r \in all, [r EXCEPT !.address = token_lock_address(0)] \in raw
      PROVE  [r EXCEPT !.address = token_lock_address(0)] = r
  <2> DEFINE s == [r EXCEPT !.address = token_lock_address(0)]
  <2>1. PICK l \in Existing(x) : r = RecordAt(x, l)
      BY <1>2
  <2>2. s.address = token_lock_address(0) /\ s.lock_global_id = l
      BY <2>1 DEF RecordAt
  <2>3. token_lock_address(0) = token_lock_address(l)
      BY <1>1, <1>5, <2>2
  <2>4. r.address = token_lock_address(0)
      BY <2>1, <2>3 DEF RecordAt
  <2> QED
      BY <2>1, <2>4 DEF RecordAt
<1> HIDE DEF all
<1>6. raw \subseteq all
    BY <1>1, <1>3, <1>4, <1>5
<1>7. raw = RecordsOf(x, L)
    BY <1>2, <1>6 DEF RecordsOf
<1>8. raw = all => L = Existing(x)
    BY <1>2
<1> QED
    BY <1>7, <1>8 DEF all

\* What they add up to.
LEMMA AccountsOfAre ==
    ASSUME NEW x \in LedgerState, NEW A \in SUBSET Accounts
    PROVE  /\ AccountSet(AccountsOf(x, A))
           /\ EnumeratedTotal(AccountsOf(x, A)) = SumFunctionOnSet(x.balance, A)
           /\ MintSupplyOf(x) = SumFunctionOnSet(x.balance, Accounts)
           /\ MintSupplyOf(x) \in Nat
<1> DEFINE k == [a \in A |-> AccountAt(x, a)]
           f == x.balance
           S == AccountsOf(x, A)
           g == Amounts(S)
<1>1. IsFiniteSet(Accounts) /\ IsFiniteSet(A)
    BY AccountAssumption, FS_Subset
<1>2. DOMAIN f = Accounts /\ \A a \in Accounts : f[a] \in Nat /\ f[a] \in Int
    BY DEF LedgerState
<1>3. S = {k[a] : a \in A}
    BY DEF AccountsOf
<1>4. S \subseteq [address : Accounts, owner : Nat, amount : Nat]
    BY <1>2, AccountAssumption DEF AccountsOf, AccountAt
<1>5. \A a \in A : k[a] \in S /\ k[a].address = a /\ k[a].amount = f[a]
    BY <1>3 DEF AccountAt
<1>6. \A a, b \in A : k[a] = k[b] => a = b
    BY <1>5
<1>7. \A s \in S : g[s] = s.amount
    BY DEF Amounts
<1>8. \A a \in A : f[a] \in Int /\ g[k[a]] = f[a]
    BY <1>2, <1>5, <1>7
<1> HIDE DEF k, f, g, S
<1>9. IsFiniteSet({k[a] : a \in A})
      /\ SumFunctionOnSet(g, {k[a] : a \in A}) = SumFunctionOnSet(f, A)
    BY <1>1, <1>6, <1>8, SumReindexed
<1>10. AccountSet(S)
    BY <1>3, <1>4, <1>9 DEF AccountSet
<1>11. EnumeratedTotal(S) = SumFunctionOnSet(g, S)
    BY <1>10, PerOwnerIs DEF g
<1>12. MintSupplyOf(x) = SumFunctionOnSet(f, Accounts)
    BY <1>2, SumFunctionIs DEF MintSupplyOf, Total, f
<1>13. SumFunctionOnSet(f, Accounts) \in Nat
    BY <1>1, <1>2, SumNat
<1> QED
    BY <1>3, <1>9, <1>10, <1>11, <1>12, <1>13 DEF S, f

LEMMA RecordsOfAre ==
    ASSUME NEW x \in LedgerState, NEW L \in SUBSET Existing(x)
    PROVE  /\ RecordSet(RecordsOf(x, L))
           /\ TotalLocked(RecordsOf(x, L)) = SumFunctionOnSet(x.locked, L)
<1> DEFINE k == [l \in L |-> RecordAt(x, l)]
           f == x.locked
           S == RecordsOf(x, L)
           g == LockAmounts(S)
<1>1. IsFiniteSet(L)
    BY AccountAssumption, FS_Subset DEF Existing
<1>2. \A l \in L : l \in Locks /\ f[l] \in Nat /\ f[l] \in Int
    BY DEF LedgerState, Existing
<1>3. S = {k[l] : l \in L}
    BY DEF RecordsOf
<1>4. \A r \in S : r.lock_owner \in Nat /\ r.current_locked_amount \in Nat
    BY <1>2, AccountAssumption DEF RecordsOf, RecordAt
<1>5. \A l \in L : k[l] \in S /\ k[l].lock_global_id = l /\ k[l].current_locked_amount = f[l]
    BY <1>3 DEF RecordAt
<1>6. \A l, m \in L : k[l] = k[m] => l = m
    BY <1>5
<1>7. DOMAIN g = S /\ \A s \in S : g[s] = s.current_locked_amount
    BY DEF LockAmounts
<1>8. \A l \in L : f[l] \in Int /\ g[k[l]] = f[l]
    BY <1>2, <1>5, <1>7
<1>9. TotalLocked(S) = SumFunction(g)
    BY DEF TotalLocked, LockAmounts, Total
<1> HIDE DEF k, f, g, S
<1>10. IsFiniteSet({k[l] : l \in L})
       /\ SumFunctionOnSet(g, {k[l] : l \in L}) = SumFunctionOnSet(f, L)
    BY <1>1, <1>6, <1>8, SumReindexed
<1>11. SumFunction(g) = SumFunctionOnSet(g, S)
    BY <1>7, SumFunctionIs
<1> QED
    BY <1>3, <1>4, <1>9, <1>10, <1>11 DEF RecordSet, S, f


-----------------------------------------------------------------------------
(***************************************************************************)
(* The snapshot and the artifact.                                          *)
(***************************************************************************)
LEMMA BuildErrorIs ==
    ASSUME NEW accounts, NEW records
    PROVE  BuildError(accounts, records) \in Errors \cup {None}
BY DEF BuildError, Errors

SinksTold(snap) ==
    snap.reconciliation.sink_exclusions_total
        = Total([x \in snap.exclusions |-> x.lp_balance])

LEMMA BuiltIs ==
    ASSUME NEW accounts, AccountSet(accounts), NEW records, RecordSet(records),
           BuildError(accounts, records) = None,
           NEW supply \in [amount : Nat, slot : 1..MaxSlot]
    PROVE  LET snap == LpSnapshot(supply, accounts, records)
           IN  /\ snap \in LpSnapshots
               /\ snap.entries = Entries(Merged(accounts, records))
               /\ SinksTold(snap)
<1> DEFINE m == Merged(accounts, records)
           w == per_owner(accounts)
           n == Cardinality(DOMAIN m)
           custody == IF TotalLocked(records) = 0 THEN None ELSE Lifted(accounts, records).address
<1>1. Balances(m)
    BY MergedIs
<1>2. n \in Nat /\ Entries(m) \in [1..n -> [owner : Nat, lp_balance : Nat]]
    BY <1>1, EntriesAre
<1>3. Entries(m) \in Seq([owner : Nat, lp_balance : Nat])
    BY <1>2, SequenceIs
<1>4. Balances(w) /\ EnumeratedTotal(accounts) = Total(w)
    BY PerOwnerIs
<1>5. /\ Excluded(w) \in SUBSET [owner : Nat, lp_balance : Nat,
                                 reason : {"ZeroBalance", "ExplicitSink"}]
      /\ SinkTotal(accounts) \in Nat
    BY <1>4, ExclusionPass DEF SinkTotal
<1>6. \A b : Balances(b) => Total(b) \in Nat
    BY SumNat, SumFunctionIs DEF Balances, Total
<1>7. Total(m) \in Nat /\ EnumeratedTotal(accounts) \in Nat
    BY <1>1, <1>4, <1>6
<1>8. custody \in Accounts \cup {None}
  <2>1. CASE TotalLocked(records) = 0
      BY <2>1
  <2>2. CASE TotalLocked(records) # 0
    <3> TotalLocked(records) \in Nat
        BY AttributionsAre
    <3>1. TotalLocked(records) > 0
        BY <2>2
    <3>2. Cardinality(CustodyCandidates(accounts, TotalLocked(records))) = 1
        BY <3>1, CustodySettled
    <3>3. Lifted(accounts, records) \in accounts
        BY <3>2, LiftedIs DEF AccountSet
    <3> QED
        BY <3>3 DEF AccountSet
  <2> QED
      BY <2>1, <2>2
<1> HIDE DEF m, w, custody
<1> DEFINE snap == [snapshot_slot |-> supply.slot,
                    lp_total_supply_at_snapshot |-> supply.amount,
                    entries |-> Entries(m),
                    exclusions |-> Excluded(w),
                    custody |-> custody,
                    reconciliation |-> [enumerated_total |-> EnumeratedTotal(accounts),
                                        entries_total |-> Total(m),
                                        sink_exclusions_total |-> SinkTotal(accounts)]]
<1>9. LpSnapshot(supply, accounts, records) = snap
    BY DEF LpSnapshot, m, w, custody
<1>10. snap \in LpSnapshots
    BY <1>3, <1>5, <1>7, <1>8 DEF LpSnapshots
<1>11. SinksTold(snap)
    BY DEF SinksTold, SinkTotal, w
<1> QED
    BY <1>9, <1>10, <1>11 DEF m

\* The artifact's entries are those of the snapshot, with leaf and proof.
SameClaims(art, snap) ==
    /\ DOMAIN art.entries = DOMAIN snap.entries
    /\ \A i \in DOMAIN snap.entries :
          /\ art.entries[i].owner = snap.entries[i].owner
          /\ art.entries[i].lp_balance = snap.entries[i].lp_balance

LEMMA SealIs ==
    ASSUME NEW snap
    PROVE  /\ SameClaims(seal(snap), snap)
           /\ seal(snap).reconciliation = snap.reconciliation
<1> DEFINE tree == from_entries(snap.entries)
           e == [i \in DOMAIN snap.entries |->
                    [owner |-> snap.entries[i].owner,
                     lp_balance |-> snap.entries[i].lp_balance,
                     leaf |-> tree[1][i],
                     proof |-> tree_proof(tree, i - 1)]]
<1>1. seal(snap).entries = e /\ seal(snap).reconciliation = snap.reconciliation
    BY DEF seal
<1>2. /\ DOMAIN e = DOMAIN snap.entries
      /\ \A i \in DOMAIN snap.entries : e[i].owner = snap.entries[i].owner
                                        /\ e[i].lp_balance = snap.entries[i].lp_balance
    OBVIOUS
<1> QED
    BY <1>1, <1>2 DEF SameClaims

LEMMA IntegrityMeans ==
    ASSUME NEW art, NEW n \in Nat, DOMAIN art.entries = 1..n, verify_integrity(art)
    PROVE  /\ art.leaf_count = n
           /\ Total([i \in DOMAIN art.entries |-> art.entries[i].lp_balance])
                + art.reconciliation.sink_exclusions_total = art.lp_total_supply_at_snapshot
<1> DEFINE entries == [i \in DOMAIN art.entries |-> [owner |-> art.entries[i].owner,
                                                     lp_balance |-> art.entries[i].lp_balance]]
<1>1. /\ art.leaf_count = Len(entries)
      /\ Total([i \in DOMAIN entries |-> entries[i].lp_balance])
             = art.reconciliation.entries_total
      /\ art.reconciliation.entries_total + art.reconciliation.sink_exclusions_total
             = art.reconciliation.enumerated_total
      /\ art.reconciliation.enumerated_total = art.lp_total_supply_at_snapshot
    BY DEF verify_integrity
<1>2. entries \in [1..n -> {entries[i] : i \in 1..n}]
    OBVIOUS
<1>3. Len(entries) = n
    BY <1>2, SequenceIs
<1>4. [i \in DOMAIN entries |-> entries[i].lp_balance]
        = [i \in DOMAIN art.entries |-> art.entries[i].lp_balance]
    OBVIOUS
<1> QED
    BY <1>1, <1>3, <1>4

LEMMA SameShares ==
    ASSUME NEW art, NEW snap, SameClaims(art, snap), NEW o
    PROVE  ShareOf(art, o) = ShareOf(snap, o)
<1>1. {j \in DOMAIN art.entries : art.entries[j].owner = o}
        = {j \in DOMAIN snap.entries : snap.entries[j].owner = o}
    BY DEF SameClaims
<1>2. [i \in {j \in DOMAIN art.entries : art.entries[j].owner = o} |-> art.entries[i].lp_balance]
        = [i \in {j \in DOMAIN snap.entries : snap.entries[j].owner = o} |->
              snap.entries[i].lp_balance]
    BY <1>1 DEF SameClaims
<1> QED
    BY <1>2 DEF ShareOf


-----------------------------------------------------------------------------
(***************************************************************************)
(* A bystander's leaf.  x is the state the accounts were read from, y the  *)
(* one the locks were read from.                                           *)
(***************************************************************************)
OwnedBy(A, o) == {a \in A : AccountOwner[a] = o}

LocksOf(y, o) == {l \in Existing(y) : LockOwner[l] = o}

\* A per-owner total is the sum over the owner's accounts that were served.
LEMMA HoldingsServed ==
    ASSUME NEW x \in LedgerState, NEW A \in SUBSET Accounts, NEW o
    PROVE  LET w == per_owner(AccountsOf(x, A))
           IN  /\ DOMAIN w = {AccountOwner[a] : a \in A}
               /\ Get(w, o) = SumFunctionOnSet(x.balance, OwnedBy(A, o))
<1> DEFINE S == AccountsOf(x, A)
           w == per_owner(S)
           T == OwnedBy(A, o)
           k == [a \in T |-> AccountAt(x, a)]
           f == x.balance
           g == Amounts(S)
<1>0. \A a : /\ AccountAt(x, a).address = a
            /\ AccountAt(x, a).owner = AccountOwner[a]
            /\ AccountAt(x, a).amount = x.balance[a]
    BY DEF AccountAt
<1>1. AccountSet(S)
    BY AccountsOfAre
<1>2. /\ DOMAIN w = {a.owner : a \in S}
      /\ \A p \in DOMAIN w : w[p] = SumFunctionOnSet(g, HeldBy(S, p))
    BY <1>1, PerOwnerIs
<1>3. DOMAIN w = {AccountOwner[a] : a \in A}
  <2>1. {s.owner : s \in S} = {AccountOwner[a] : a \in A}
      BY <1>0 DEF AccountsOf
  <2> QED
      BY <1>2, <2>1, Zenon
<1>4. IsFiniteSet(T)
    BY AccountAssumption, FS_Subset DEF OwnedBy
<1>5. HeldBy(S, o) = {k[a] : a \in T}
  <2>1. HeldBy(S, o) = {AccountAt(x, a) : a \in T}
      BY <1>0 DEF HeldBy, AccountsOf, OwnedBy
  <2> QED
      BY <2>1
<1>6. \A a \in T : f[a] \in Int /\ k[a] \in S /\ k[a].address = a /\ k[a].amount = f[a]
    BY <1>0 DEF LedgerState, OwnedBy, AccountsOf
<1>7. \A s \in S : g[s] = s.amount
    BY DEF Amounts
<1>8. \A a \in T : f[a] \in Int /\ g[k[a]] = f[a]
    BY <1>6, <1>7
<1>9. \A a, b \in T : k[a] = k[b] => a = b
    BY <1>6
<1>10. T = {} => o \notin DOMAIN w
    BY <1>3 DEF OwnedBy
<1>11. o \notin DOMAIN w => T = {}
    BY <1>3 DEF OwnedBy
<1> HIDE DEF S, w, T, k, f, g
<1>12. SumFunctionOnSet(g, {k[a] : a \in T}) = SumFunctionOnSet(f, T)
    BY <1>4, <1>8, <1>9, SumReindexed
<1>13. Get(w, o) = SumFunctionOnSet(f, T)
  <2>1. CASE o \in DOMAIN w
      BY <1>2, <1>5, <1>12, <2>1 DEF Get
  <2>2. CASE o \notin DOMAIN w
      BY <1>11, <2>2, SumEmpty DEF Get
  <2> QED
      BY <2>1, <2>2
<1> QED
    BY <1>3, <1>13 DEF w, S, f, T

\* The same for the lock records, when all of them were served.
LEMMA LockedServed ==
    ASSUME NEW y \in LedgerState, NEW o
    PROVE  LET attr == Attributions(RecordsOf(y, Existing(y)))
           IN  /\ Get(attr, o) = LockedBy(y, o)
               /\ LockedBy(y, o) = SumFunctionOnSet(y.locked, LocksOf(y, o))
<1> DEFINE S == RecordsOf(y, Existing(y))
           attr == Attributions(S)
           T == LocksOf(y, o)
           k == [l \in T |-> RecordAt(y, l)]
           f == y.locked
           g == LockAmounts(S)
           e == [l \in T |-> f[l]]
<1>0. \A l : /\ RecordAt(y, l).lock_global_id = l
            /\ RecordAt(y, l).lock_owner = LockOwner[l]
            /\ RecordAt(y, l).current_locked_amount = y.locked[l]
    BY DEF RecordAt
<1>1. RecordSet(S)
    BY RecordsOfAre
<1>2. /\ DOMAIN attr = {r.lock_owner : r \in S}
      /\ \A p \in DOMAIN attr : attr[p] = SumFunctionOnSet(g, LockedFor(S, p))
    BY <1>1, AttributionsAre
<1>3. DOMAIN attr = {LockOwner[l] : l \in Existing(y)}
  <2>1. {r.lock_owner : r \in S} = {LockOwner[l] : l \in Existing(y)}
      BY <1>0 DEF RecordsOf
  <2> QED
      BY <1>2, <2>1, Zenon
<1>4. IsFiniteSet(T)
    BY AccountAssumption, FS_Subset DEF LocksOf, Existing
<1>5. LockedFor(S, o) = {k[l] : l \in T}
  <2>1. LockedFor(S, o) = {RecordAt(y, l) : l \in T}
      BY <1>0 DEF LockedFor, RecordsOf, LocksOf
  <2> QED
      BY <2>1
<1>6. \A l \in T : /\ f[l] \in Int /\ k[l] \in S
                   /\ k[l].lock_global_id = l /\ k[l].current_locked_amount = f[l]
    BY <1>0 DEF LedgerState, LocksOf, Existing, RecordsOf
<1>7. \A s \in S : g[s] = s.current_locked_amount
    BY DEF LockAmounts
<1>8. \A l \in T : f[l] \in Int /\ g[k[l]] = f[l]
    BY <1>6, <1>7
<1>9. \A l, m \in T : k[l] = k[m] => l = m
    BY <1>6
<1>10. o \notin DOMAIN attr => T = {}
    BY <1>3 DEF LocksOf
<1>11. LockedBy(y, o) = Total(e)
  <2>1. {m \in Locks : LockOwner[m] = o /\ y.locked[m] # None} = T
      BY DEF LocksOf, Existing
  <2> QED
      BY <2>1 DEF LockedBy
<1>12. DOMAIN e = T /\ \A l \in T : e[l] \in Int /\ e[l] = f[l]
    BY <1>8
<1> HIDE DEF S, attr, T, k, f, g, e
<1>13. Total(e) = SumFunctionOnSet(f, T)
    BY <1>4, <1>12, TotalIs
<1>14. SumFunctionOnSet(g, {k[l] : l \in T}) = SumFunctionOnSet(f, T)
    BY <1>4, <1>8, <1>9, SumReindexed
<1>15. Get(attr, o) = SumFunctionOnSet(f, T)
  <2>1. CASE o \in DOMAIN attr
      BY <1>2, <1>5, <1>14, <2>1 DEF Get
  <2>2. CASE o \notin DOMAIN attr
      BY <1>10, <2>2, SumEmpty DEF Get
  <2> QED
      BY <2>1, <2>2
<1> QED
    BY <1>11, <1>13, <1>15 DEF attr, S, f, T

\* What the locks of all owners hold is the total the builder looks for.
LEMMA LockedTotalIs ==
    ASSUME NEW y \in LedgerState
    PROVE  LockedTotal(y) = TotalLocked(RecordsOf(y, Existing(y)))
<1> DEFINE S == Existing(y)
           f == y.locked
           k == LockOwner
           g == [o \in Owners |-> LockedBy(y, o)]
<1>1. IsFiniteSet(Accounts) /\ IsFiniteSet(Locks) /\ IsFiniteSet(S)
    BY AccountAssumption, FS_Subset DEF Existing
<1>2. IsFiniteSet({AccountOwner[a] : a \in Accounts}) /\ IsFiniteSet({LockOwner[l] : l \in Locks})
  <2>1. AccountOwner \in Surjection(Accounts, {AccountOwner[a] : a \in Accounts})
      BY AccountAssumption DEF Surjection
  <2>2. LockOwner \in Surjection(Locks, {LockOwner[l] : l \in Locks})
      BY AccountAssumption DEF Surjection
  <2> QED
      BY <1>1, <2>1, <2>2, FS_Surjection, Zenon
<1>3. IsFiniteSet(Owners)
    BY <1>2, FS_Union DEF Owners
<1>4. \A l \in S : k[l] \in Owners /\ f[l] \in Int
    BY DEF LedgerState, Existing, Owners
<1>5. \A o : LocksOf(y, o) = Group(S, k, o)
    BY DEF LocksOf, Group
<1>6. \A o \in Owners : g[o] = SumFunctionOnSet(f, Group(S, k, o))
    BY <1>5, LockedServed
<1>7. DOMAIN g = Owners /\ LockedTotal(y) = SumFunction(g)
    BY DEF LockedTotal, Total
<1> HIDE DEF S, f, k, g
<1>8. SumFunctionOnSet(f, S) = SumFunctionOnSet(g, Owners)
    BY <1>1, <1>3, <1>4, <1>6, SumFibers
<1>9. SumFunction(g) = SumFunctionOnSet(g, Owners)
    BY <1>7, SumFunctionIs
<1>10. TotalLocked(RecordsOf(y, Existing(y))) = SumFunctionOnSet(f, S)
    BY RecordsOfAre DEF f, S
<1> QED
    BY <1>7, <1>8, <1>9, <1>10

\* An account that was not served holds nothing, when the supply is that of x.
LEMMA NothingMissing ==
    ASSUME NEW x \in LedgerState, NEW A \in SUBSET Accounts,
           A = Accounts \/ MintSupplyOf(x) = EnumeratedTotal(AccountsOf(x, A))
    PROVE  \A a \in Accounts \ A : x.balance[a] = 0
<1> DEFINE f == x.balance
           R == Accounts \ A
<1>1. SUFFICES ASSUME NEW a \in R, f[a] # 0
               PROVE  FALSE
    OBVIOUS
<1>2. SumFunctionOnSet(f, A) = SumFunctionOnSet(f, Accounts)
    BY <1>1, AccountsOfAre
<1>3. IsFiniteSet(Accounts) /\ IsFiniteSet(A) /\ IsFiniteSet(R)
    BY AccountAssumption, FS_Subset
<1>4. \A b \in Accounts : f[b] \in Nat /\ f[b] \in Int
    BY DEF LedgerState
<1> HIDE DEF f
<1>5. SumFunctionOnSet(f, Accounts) = SumFunctionOnSet(f, A) + SumFunctionOnSet(f, R)
    BY <1>3, <1>4, SumSplit
<1>6. SumFunctionOnSet(f, A) \in Nat /\ SumFunctionOnSet(f, R) \in Nat
    BY <1>3, <1>4, SumNat
<1>7. f[a] <= SumFunctionOnSet(f, R) /\ f[a] \in Nat
    BY <1>3, <1>4, SumMember
<1> QED
    BY <1>1, <1>2, <1>5, <1>6, <1>7


\* The account LP is lifted from belongs to the custody's owner.
LEMMA LiftedFromCustody ==
    ASSUME NEW x \in LedgerState, NEW A \in SUBSET Accounts,
           NEW accounts, accounts = AccountsOf(x, A), NEW records, RecordSet(records),
           \A a \in Accounts \ A : x.balance[a] = 0,
           TotalLocked(records) > 0, x.balance[Custody] = TotalLocked(records),
           request.custody_owner_overrides \subseteq {AccountOwner[Custody]},
           BuildError(accounts, records) = None
    PROVE  Lifted(accounts, records).owner = AccountOwner[Custody]
<1> DEFINE total == TotalLocked(records)
           candidates == {a \in accounts : a.amount = total}
           custody == AccountAt(x, Custody)
           lifted == Lifted(accounts, records)
<1>1. AccountSet(accounts)
    BY AccountsOfAre
<1>2. CustodyCandidates(accounts, total) = {lifted}
  <2>1. IsFiniteSet(accounts)
      BY <1>1 DEF AccountSet
  <2>2. Cardinality(CustodyCandidates(accounts, total)) = 1
      BY CustodySettled
  <2> QED
      BY <2>1, <2>2, LiftedIs
<1>3. Custody \in A
    BY AccountAssumption, AttributionsAre
<1>4. custody.amount = x.balance[Custody] /\ custody.owner = AccountOwner[Custody]
    BY DEF AccountAt
<1>5. custody \in candidates
    BY <1>3, <1>4 DEF AccountsOf
<1> HIDE DEF custody, lifted
<1>6. CASE Cardinality(candidates) <= 1
  <2>1. candidates = {lifted}
      BY <1>2, <1>6 DEF CustodyCandidates
  <2>2. custody = lifted
      BY <1>5, <2>1
  <2> QED
      BY <1>4, <2>2 DEF lifted
<1>7. CASE ~(Cardinality(candidates) <= 1)
  <2>1. {a \in candidates : a.owner \in request.custody_owner_overrides} = {lifted}
      BY <1>2, <1>7 DEF CustodyCandidates
  <2>2. lifted.owner \in request.custody_owner_overrides
      BY <2>1
  <2> QED
      BY <2>2 DEF lifted
<1> QED
    BY <1>6, <1>7

LEMMA MergedAt ==
    ASSUME NEW accounts, NEW records, NEW o
    PROVE  LET free == FreeOwners(accounts, records)
               held == Claimable(per_owner(accounts))
               attr == Attributions(records)
               m    == Merged(accounts, records)
           IN  /\ DOMAIN m = free \cup DOMAIN attr
               /\ o \in DOMAIN m => m[o] = (IF o \in free THEN held[o] ELSE 0) + Get(attr, o)
BY DEF Merged

LEMMA HolderPaid ==
    ASSUME NEW x \in LedgerState, NEW A \in SUBSET Accounts, NEW y \in LedgerState,
           NEW accounts, accounts = AccountsOf(x, A),
           NEW records, records = RecordsOf(y, Existing(y)),
           A = Accounts \/ MintSupplyOf(x) = EnumeratedTotal(accounts),
           x.balance[Custody] = LockedTotal(y),
           request.custody_owner_overrides \subseteq {AccountOwner[Custody]},
           BuildError(accounts, records) = None,
           NEW o, o \notin request.sink_exclusions, o # AccountOwner[Custody],
           \A l \in Locks : LockOwner[l] = o => x.locked[l] = y.locked[l]
    PROVE  Get(Merged(accounts, records), o) = Beneficial(x, o)
<1> DEFINE w == per_owner(accounts)
           held == Claimable(w)
           free == FreeOwners(accounts, records)
           attr == Attributions(records)
           m == Merged(accounts, records)
           f == x.balance
<1>1. AccountSet(accounts) /\ RecordSet(records) /\ Existing(y) \in SUBSET Existing(y)
    BY AccountsOfAre, RecordsOfAre
<1>2. TotalLocked(records) = x.balance[Custody] /\ TotalLocked(records) \in Nat
    BY <1>1, LockedTotalIs, AttributionsAre
<1>3. \A a \in Accounts \ A : f[a] = 0
    BY NothingMissing
<1>4. Get(w, o) = SumFunctionOnSet(f, OwnedBy(A, o))
    BY HoldingsServed
<1>5. Get(attr, o) = LockedBy(y, o) /\ Get(attr, o) \in Nat
  <2>1. Get(attr, o) = LockedBy(y, o)
      BY LockedServed
  <2>2. Balances(attr)
      BY <1>1, AttributionsAre
  <2> QED
      BY <2>1, <2>2 DEF Get, Balances
<1>6. LockedBy(y, o) = LockedBy(x, o)
  <2> DEFINE X == LocksOf(x, o)
  <2>1. LocksOf(x, o) = LocksOf(y, o)
      BY DEF LocksOf, Existing
  <2>2. \A l \in X : x.locked[l] \in Int /\ x.locked[l] = y.locked[l]
      BY DEF LocksOf, Existing, LedgerState
  <2>3. IsFiniteSet(X)
      BY AccountAssumption, FS_Subset DEF LocksOf, Existing
  <2>4. LockedBy(x, o) = SumFunctionOnSet(x.locked, X) /\ LockedBy(y, o) = SumFunctionOnSet(y.locked, X)
      BY <2>1, LockedServed
  <2> HIDE DEF X
  <2>5. SumFunctionOnSet(x.locked, X) = SumFunctionOnSet(y.locked, X)
      BY <2>2, <2>3, SumCongruent
  <2> QED
      BY <2>4, <2>5
<1>7. Balances(w) /\ Get(w, o) \in Nat
    BY <1>1, PerOwnerIs DEF Get, Balances
<1>8. /\ DOMAIN held = {p \in DOMAIN w : w[p] # 0 /\ p \notin request.sink_exclusions}
      /\ \A p \in DOMAIN held : held[p] = w[p]
    BY <1>7, ExclusionPass
<1>9. o \in free <=> o \in DOMAIN held
  <2>1. CASE TotalLocked(records) = 0
      BY <2>1 DEF FreeOwners
  <2>2. CASE TotalLocked(records) # 0
    <3>1. TotalLocked(records) > 0
        BY <1>2, <2>2
    <3>2. Lifted(accounts, records).owner = AccountOwner[Custody]
        BY <1>1, <1>2, <1>3, <3>1, LiftedFromCustody
    <3> QED
        BY <2>2, <3>2 DEF FreeOwners
  <2> QED
      BY <2>1, <2>2
<1>10. (IF o \in free THEN held[o] ELSE 0) = Get(w, o)
    BY <1>8, <1>9 DEF Get
<1>11. /\ DOMAIN m = free \cup DOMAIN attr
       /\ o \in DOMAIN m => m[o] = (IF o \in free THEN held[o] ELSE 0) + Get(attr, o)
    BY MergedAt, ZenonT(40)
<1> HIDE DEF free, held, attr, m, w, f
<1>12. Get(m, o) = Get(w, o) + Get(attr, o)
  <2>1. CASE o \in DOMAIN m
    <3>1. Get(m, o) = m[o]
        BY <2>1 DEF Get
    <3>2. m[o] = (IF o \in free THEN held[o] ELSE 0) + Get(attr, o)
        BY <1>11, <2>1
    <3> QED
        BY <1>10, <3>1, <3>2
  <2>2. CASE o \notin DOMAIN m
    <3>1. o \notin free /\ o \notin DOMAIN attr
        BY <1>11, <2>2
    <3>2. Get(w, o) = 0 /\ Get(attr, o) = 0 /\ Get(m, o) = 0
        BY <1>10, <2>2, <3>1 DEF Get
    <3> QED
        BY <3>2
  <2> QED
      BY <2>1, <2>2
<1>13. SumFunctionOnSet(f, OwnedBy(A, o)) =
          Total([a \in {b \in Accounts \ {Custody} : AccountOwner[b] = o} |-> x.balance[a]])
  <2> DEFINE T == {b \in Accounts \ {Custody} : AccountOwner[b] = o}
             e == [a \in T |-> x.balance[a]]
  <2>1. IsFiniteSet(T) /\ OwnedBy(A, o) \in SUBSET T
      BY AccountAssumption, FS_Subset DEF OwnedBy
  <2>2. DOMAIN e = T /\ \A a \in T : e[a] \in Int /\ e[a] = f[a] /\ f[a] \in Int
      BY DEF LedgerState, f
  <2>3. \A a \in T \ OwnedBy(A, o) : f[a] = 0
      BY <1>3 DEF OwnedBy
  <2> HIDE DEF T, e
  <2>4. Total(e) = SumFunctionOnSet(f, T)
      BY <2>1, <2>2, TotalIs
  <2>5. SumFunctionOnSet(f, OwnedBy(A, o)) = SumFunctionOnSet(f, T)
      BY <2>1, <2>2, <2>3, SumNonzero
  <2>6. SumFunctionOnSet(f, OwnedBy(A, o)) = Total(e)
      BY <2>4, <2>5
  <2> QED
      BY <2>6 DEF e, T
<1> QED
    BY <1>4, <1>5, <1>6, <1>12, <1>13 DEF Beneficial, m


-----------------------------------------------------------------------------
(***************************************************************************)
(* The run.  What the snapshotter holds in each phase is tied to the       *)
(* ledger states it was served from, which later ledger steps leave alone. *)
(***************************************************************************)
Served ==
    [supply : Nat \cup {None}, accounts : Nat \cup {None}, locks : Nat \cup {None},
     all_accounts : BOOLEAN, all_locks : BOOLEAN,
     records : SUBSET UNION {RawTokenLocks(x) : x \in LedgerState}]

PhaseInv ==
    /\ request \in {c.request : c \in Cases}
    /\ phase \in {"start", "supply", "accounts", "built", "published", "aborted"}
    /\ error \in Errors \cup {None}
    /\ (phase = "aborted") <=> (error # None)
    /\ file # None => phase = "published"
    /\ served \in Served

SupplyInv ==
    phase \in {"supply", "accounts", "built", "published"} =>
        supplyRead \in [amount : Nat, slot : 1..Len(ledger)] /\ served.supply \in 1..Len(ledger)

\* The accounts of one ledger state, which add up to the supply of another.
AccountsInv ==
    phase \in {"accounts", "built", "published"} =>
        /\ served.accounts \in 1..Len(ledger)
        /\ \E A \in SUBSET Accounts :
              /\ accountsRead = AccountsOf(ledger[served.accounts], A)
              /\ served.all_accounts => A = Accounts
        /\ EnumeratedTotal(accountsRead) = supplyRead.amount

\* UnmovedHolderPaidInFull, of a snapshot and the states x and y its accounts and its
\* locks were read from.
Paid(snap, x, y) ==
    /\ served.all_locks
    /\ served.all_accounts \/ MintSupplyOf(x) = supplyRead.amount
    /\ x.balance[Custody] = LockedTotal(y)
    /\ request.custody_owner_overrides \subseteq {AccountOwner[Custody]}
    =>
    \A o \in Owners \ (request.sink_exclusions \cup {AccountOwner[Custody]}) :
        (\A l \in Locks : LockOwner[l] = o => x.locked[l] = y.locked[l]) =>
            ShareOf(snap, o) = Beneficial(x, o)

SnapshotInv ==
    phase \in {"built", "published"} =>
        /\ served.locks \in 1..Len(ledger)
        /\ snapshot \in LpSnapshots
        /\ SinksTold(snapshot)
        /\ Paid(snapshot, ledger[served.accounts], ledger[served.locks])

FileInv ==
    phase = "published" =>
        /\ SameClaims(file, snapshot)
        /\ file.leaf_count = Len(snapshot.entries)
        /\ Total([i \in DOMAIN file.entries |-> file.entries[i].lp_balance])
             + Total([x \in snapshot.exclusions |-> x.lp_balance])
           = file.lp_total_supply_at_snapshot

RegistryInv ==
    registry # None =>
        /\ phase = "published"
        /\ registry.slot \in 1..Len(ledger)
        /\ MintSupplyOf(ledger[registry.slot]) = file.lp_total_supply_at_snapshot

SnapshotterInv ==
    /\ LedgerInv
    /\ PhaseInv
    /\ SupplyInv
    /\ AccountsInv
    /\ SnapshotInv
    /\ FileInv
    /\ RegistryInv
    /\ InvariantViolatedExplained

LEMMA InitInv ==
    Init => SnapshotterInv
<1> SUFFICES ASSUME Init PROVE SnapshotterInv
    OBVIOUS
<1>1. PICK c \in Cases : ledger = <<c.ledger>> /\ request = c.request
    BY DEF Init
<1>2. c.ledger \in LedgerState /\ CustodyCovers(c.ledger) /\ MaxSlot \in Nat \ {0}
    BY LedgerAssumption
<1>3. ledger \in Seq(LedgerState) /\ Len(ledger) = 1 /\ ledger[1] = c.ledger
    BY <1>1, <1>2
<1>4. LedgerInv
    BY <1>2, <1>3 DEF LedgerInv
<1>5. None \notin Errors /\ phase = "start" /\ error = None /\ file = None /\ registry = None
    BY LedgerAssumption DEF Init
<1>6. served \in Served
    BY DEF Init, Served
<1>7. PhaseInv
    BY <1>1, <1>5, <1>6 DEF PhaseInv
<1>8. InvariantViolatedExplained
    BY <1>5 DEF InvariantViolatedExplained, Errors
<1> QED
    BY <1>4, <1>5, <1>7, <1>8
    DEF SnapshotterInv, SupplyInv, AccountsInv, SnapshotInv, FileInv, RegistryInv

\* A ledger step leaves every earlier state as it was.
LEMMA LedgerStepInv ==
    ASSUME SnapshotterInv, LedgerMoves
    PROVE  SnapshotterInv'
<1>1. PICK st \in LedgerState : CustodyCovers(st) /\ LedgerStep(st)
    BY LedgerMovesState DEF SnapshotterInv
<1>2. /\ Len(ledger) < MaxSlot /\ phase # "aborted" /\ ledger' = Append(ledger, st)
      /\ UNCHANGED <<request, phase, error, supplyRead, accountsRead, snapshot, file, copy,
                     registry, served>>
    BY <1>1 DEF LedgerStep, Now
<1>3. /\ ledger \in Seq(LedgerState) /\ Len(ledger) \in 1..MaxSlot
      /\ MaxSlot \in Nat
      /\ \A s \in 1..Len(ledger) : CustodyCovers(ledger[s])
    BY LedgerAssumption DEF SnapshotterInv, LedgerInv
<1>4. /\ ledger' \in Seq(LedgerState) /\ Len(ledger') = Len(ledger) + 1
      /\ Len(ledger) \in Nat
      /\ \A s \in 1..Len(ledger) : ledger'[s] = ledger[s]
      /\ ledger'[Len(ledger) + 1] = st
    BY <1>2, <1>3
<1>5. \A s \in 1..Len(ledger) : s \in 1..Len(ledger')
    BY <1>4
<1>6. LedgerInv'
  <2>1. \A s \in 1..Len(ledger') : CustodyCovers(ledger'[s])
      BY <1>1, <1>3, <1>4
  <2> QED
      BY <1>2, <1>3, <1>4, <2>1 DEF LedgerInv
<1>7. PhaseInv'
    BY <1>2 DEF SnapshotterInv, PhaseInv
<1>8. SupplyInv'
    BY <1>2, <1>3, <1>5 DEF SnapshotterInv, SupplyInv
<1>9. AccountsInv'
    BY <1>2, <1>4, <1>5 DEF SnapshotterInv, AccountsInv
<1>10. SnapshotInv'
  <2> SUFFICES ASSUME phase \in {"built", "published"} PROVE SnapshotInv'
      BY <1>2 DEF SnapshotInv
  <2>1. /\ served.locks \in 1..Len(ledger) /\ snapshot \in LpSnapshots /\ SinksTold(snapshot)
        /\ Paid(snapshot, ledger[served.accounts], ledger[served.locks])
        /\ served.accounts \in 1..Len(ledger)
      BY DEF SnapshotterInv, SnapshotInv, AccountsInv
  <2>2. /\ ledger'[served'.accounts] = ledger[served.accounts]
        /\ ledger'[served'.locks] = ledger[served.locks]
      BY <1>2, <1>4, <2>1
  <2>3. Paid(snapshot, ledger[served.accounts], ledger[served.locks])'
      BY <1>2, <2>1, <2>2 DEF Paid
  <2>4. LpSnapshots' = LpSnapshots /\ SinksTold(snapshot)'
      BY <1>2, <2>1 DEF LpSnapshots
  <2> QED
      BY <1>2, <1>5, <2>1, <2>3, <2>4 DEF SnapshotInv
<1>11. FileInv'
    BY <1>2 DEF SnapshotterInv, FileInv
<1>12. RegistryInv'
    BY <1>2, <1>4, <1>5 DEF SnapshotterInv, RegistryInv
<1>13. InvariantViolatedExplained'
  <2>1. error' # "InvariantViolated"
    <3>1. error = None /\ None \notin Errors
        BY <1>2, LedgerAssumption DEF SnapshotterInv, PhaseInv
    <3> QED
        BY <1>2, <3>1 DEF Errors
  <2> QED
      BY <2>1 DEF InvariantViolatedExplained
<1> QED
    BY <1>6, <1>7, <1>8, <1>9, <1>10, <1>11, <1>12, <1>13 DEF SnapshotterInv


\* Before publication there is neither a file nor a sealed root.
LEMMA NothingPublished ==
    ASSUME SnapshotterInv, phase # "published"
    PROVE  file = None /\ registry = None
BY DEF SnapshotterInv, PhaseInv, RegistryInv

LEMMA AbortInv ==
    ASSUME SnapshotterInv, phase # "published", NEW e \in Errors, Abort(e),
           UNCHANGED <<request, ledger, file, registry>>, served' \in Served,
           InvariantViolatedExplained'
    PROVE  SnapshotterInv'
<1>1. phase' = "aborted" /\ error' = e /\ None \notin Errors
    BY LedgerAssumption DEF Abort
<1>2. file' = None /\ registry' = None
    BY NothingPublished
<1>3. LedgerInv'
    BY DEF SnapshotterInv, LedgerInv
<1>4. PhaseInv'
    BY <1>1, <1>2 DEF SnapshotterInv, PhaseInv
<1> QED
    BY <1>1, <1>2, <1>3, <1>4
    DEF SnapshotterInv, SupplyInv, AccountsInv, SnapshotInv, FileInv, RegistryInv

LEMMA ReadSupplyInv ==
    ASSUME SnapshotterInv, ReadSupply
    PROVE  SnapshotterInv'
<1>1. PICK s \in ConfirmedSlots : \E raw \in MintResponses(ledger[s]) :
         LET parsed == raw # None /\ parse_spl_mint_supply(raw)
         IN \/ /\ parsed
               /\ supplyRead' = [amount |-> raw.supply, slot |-> s]
               /\ phase' = "supply"
               /\ served' = [served EXCEPT !.supply = s]
               /\ error' = error
            \/ /\ ~parsed
               /\ Abort("Source")
               /\ UNCHANGED <<supplyRead, served>>
    BY DEF ReadSupply
<1>2. PICK raw \in MintResponses(ledger[s]) :
         LET parsed == raw # None /\ parse_spl_mint_supply(raw)
         IN \/ /\ parsed
               /\ supplyRead' = [amount |-> raw.supply, slot |-> s]
               /\ phase' = "supply"
               /\ served' = [served EXCEPT !.supply = s]
               /\ error' = error
            \/ /\ ~parsed
               /\ Abort("Source")
               /\ UNCHANGED <<supplyRead, served>>
    BY <1>1
<1>3. /\ phase = "start"
      /\ UNCHANGED <<request, ledger, accountsRead, snapshot, file, copy, registry>>
    BY DEF ReadSupply
<1>4. s \in 1..Len(ledger) /\ ledger[s] \in LedgerState /\ s \in Nat
    BY DEF ConfirmedSlots, Now, SnapshotterInv, LedgerInv
<1>5. served \in Served /\ None \notin Errors /\ error = None
    BY <1>3, LedgerAssumption DEF SnapshotterInv, PhaseInv
<1>6. CASE /\ raw # None /\ parse_spl_mint_supply(raw)
           /\ supplyRead' = [amount |-> raw.supply, slot |-> s]
           /\ phase' = "supply"
           /\ served' = [served EXCEPT !.supply = s]
           /\ error' = error
  <2>1. raw.supply \in Nat
    <3>1. MintSupplyOf(ledger[s]) \in Nat
        BY <1>4, AccountsOfAre
    <3>2. raw.supply = MintSupplyOf(ledger[s])
        BY <1>6 DEF MintResponses, RawMint
    <3> QED
        BY <3>1, <3>2
  <2>2. served' \in Served /\ served'.supply = s
      BY <1>4, <1>5, <1>6 DEF Served
  <2>3. file' = None /\ registry' = None
      BY <1>3, NothingPublished
  <2>4. LedgerInv' /\ PhaseInv'
      BY <1>3, <1>5, <1>6, <2>2, <2>3 DEF SnapshotterInv, LedgerInv, PhaseInv
  <2>5. SupplyInv'
      BY <1>3, <1>4, <1>6, <2>1, <2>2 DEF SupplyInv
  <2>6. InvariantViolatedExplained'
      BY <1>5, <1>6 DEF InvariantViolatedExplained, Errors
  <2> QED
      BY <1>6, <2>3, <2>4, <2>5, <2>6
      DEF SnapshotterInv, AccountsInv, SnapshotInv, FileInv, RegistryInv
<1>7. CASE Abort("Source") /\ UNCHANGED <<supplyRead, served>>
  <2>1. InvariantViolatedExplained'
      BY <1>7 DEF InvariantViolatedExplained, Abort
  <2>2. "Source" \in Errors
      BY DEF Errors
  <2> QED
      BY <1>3, <1>5, <1>7, <2>1, <2>2, AbortInv
<1> QED
    BY <1>2, <1>6, <1>7

LEMMA ReadAccountsInv ==
    ASSUME SnapshotterInv, ReadAccounts
    PROVE  SnapshotterInv'
<1> DEFINE Step(s, raw) ==
             LET parsed   == raw # None /\ \A r \in raw : parse_spl_token_account(r)
                 accounts == {TokenAccountSnapshot(r) : r \in raw}
             IN \/ /\ parsed /\ SupplyGate(accounts)
                   /\ accountsRead' = accounts
                   /\ phase' = "accounts"
                   /\ served' = [served EXCEPT !.accounts = s,
                                               !.all_accounts = raw = RawTokenAccounts(ledger[s])]
                   /\ error' = error
                \/ /\ parsed /\ ~SupplyGate(accounts)
                   /\ Abort("SupplyMismatch")
                   /\ UNCHANGED <<accountsRead, served>>
                \/ /\ ~parsed
                   /\ Abort("Source")
                   /\ UNCHANGED <<accountsRead, served>>
<1>1. PICK s \in FinalizedSlots : \E raw \in AccountResponses(ledger[s]) : Step(s, raw)
    BY DEF ReadAccounts
<1>2. PICK raw \in AccountResponses(ledger[s]) : Step(s, raw)
    BY <1>1
<1>3. /\ phase = "supply"
      /\ UNCHANGED <<request, ledger, supplyRead, snapshot, file, copy, registry>>
    BY DEF ReadAccounts
<1>4. s \in 1..Len(ledger) /\ ledger[s] \in LedgerState /\ s \in Nat
    BY DEF FinalizedSlots, Now, SnapshotterInv, LedgerInv
<1>5. served \in Served /\ None \notin Errors /\ error = None
    BY <1>3, LedgerAssumption DEF SnapshotterInv, PhaseInv
<1> DEFINE accounts == {TokenAccountSnapshot(r) : r \in raw}
<1>6. CASE /\ raw # None /\ \A r \in raw : parse_spl_token_account(r)
           /\ SupplyGate(accounts)
           /\ accountsRead' = accounts
           /\ phase' = "accounts"
           /\ served' = [served EXCEPT !.accounts = s,
                                       !.all_accounts = raw = RawTokenAccounts(ledger[s])]
           /\ error' = error
  <2>1. PICK A \in SUBSET Accounts :
            accounts = AccountsOf(ledger[s], A)
            /\ (raw = RawTokenAccounts(ledger[s]) => A = Accounts)
      BY <1>4, <1>6, AccountsServed
  <2>2. /\ served' \in Served /\ served'.accounts = s /\ served'.supply = served.supply
        /\ served'.all_accounts => raw = RawTokenAccounts(ledger[s])
      BY <1>4, <1>5, <1>6 DEF Served
  <2>3. file' = None /\ registry' = None
      BY <1>3, NothingPublished
  <2>4. LedgerInv' /\ PhaseInv'
      BY <1>3, <1>5, <1>6, <2>2, <2>3 DEF SnapshotterInv, LedgerInv, PhaseInv
  <2>5. SupplyInv'
      BY <1>3, <1>6, <2>2 DEF SnapshotterInv, SupplyInv
  <2> HIDE DEF accounts
  <2>6. AccountsInv'
    <3>1. EnumeratedTotal(accountsRead') = supplyRead'.amount
        BY <1>3, <1>6 DEF SupplyGate
    <3>2. \E B \in SUBSET Accounts :
              /\ accountsRead' = AccountsOf(ledger'[served'.accounts], B)
              /\ served'.all_accounts => B = Accounts
        BY <1>3, <1>6, <2>1, <2>2
    <3>3. served'.accounts \in 1..Len(ledger')
        BY <1>3, <1>4, <2>2
    <3> QED
        BY <3>1, <3>2, <3>3 DEF AccountsInv
  <2>7. InvariantViolatedExplained'
      BY <1>5, <1>6 DEF InvariantViolatedExplained, Errors
  <2> QED
      BY <1>6, <2>3, <2>4, <2>5, <2>6, <2>7
      DEF SnapshotterInv, SnapshotInv, FileInv, RegistryInv
<1>7. CASE \E e \in {"SupplyMismatch", "Source"} : Abort(e) /\ UNCHANGED <<accountsRead, served>>
  <2>1. PICK e \in {"SupplyMismatch", "Source"} :
            Abort(e) /\ UNCHANGED <<accountsRead, served>>
      BY <1>7
  <2>2. InvariantViolatedExplained'
      BY <2>1 DEF InvariantViolatedExplained, Abort
  <2>3. e \in Errors
      BY DEF Errors
  <2> QED
      BY <1>3, <1>5, <2>1, <2>2, <2>3, AbortInv
<1> QED
    BY <1>2, <1>6, <1>7


LEMMA ReadLocksInv ==
    ASSUME SnapshotterInv, ReadLocksAndBuild
    PROVE  SnapshotterInv'
<1> DEFINE Step(s, raw) ==
             LET parsed == raw # None /\ \A r \in raw : TokenLockRecord_parse(r)
                 e      == BuildError(accountsRead, raw)
             IN \/ /\ parsed
                   /\ IF e = None
                        THEN /\ snapshot' = LpSnapshot(supplyRead, accountsRead, raw)
                             /\ phase' = "built"
                             /\ error' = error
                        ELSE snapshot' = snapshot /\ Abort(e)
                   /\ served' = [served EXCEPT !.locks = s,
                                               !.all_locks = raw = RawTokenLocks(ledger[s]),
                                               !.records = raw]
                \/ /\ ~parsed
                   /\ Abort(IF raw = None THEN "Source" ELSE "LockRecordInvalid")
                   /\ UNCHANGED <<snapshot, served>>
<1>1. PICK s \in FinalizedSlots : \E raw \in LockResponses(ledger[s]) : Step(s, raw)
    BY DEF ReadLocksAndBuild
<1>2. PICK raw \in LockResponses(ledger[s]) : Step(s, raw)
    BY <1>1
<1>3. /\ phase = "accounts"
      /\ UNCHANGED <<request, ledger, supplyRead, accountsRead, file, copy, registry>>
    BY DEF ReadLocksAndBuild
<1>4. s \in 1..Len(ledger) /\ ledger[s] \in LedgerState /\ s \in Nat
    BY DEF FinalizedSlots, Now, SnapshotterInv, LedgerInv
<1>5. served \in Served /\ None \notin Errors /\ error = None
    BY <1>3, LedgerAssumption DEF SnapshotterInv, PhaseInv
<1>6. served.accounts \in 1..Len(ledger) /\ ledger[served.accounts] \in LedgerState
    BY <1>3 DEF SnapshotterInv, AccountsInv, LedgerInv
<1>7. PICK A \in SUBSET Accounts :
          /\ accountsRead = AccountsOf(ledger[served.accounts], A)
          /\ served.all_accounts => A = Accounts
    BY <1>3 DEF SnapshotterInv, AccountsInv
<1>8. EnumeratedTotal(accountsRead) = supplyRead.amount
    BY <1>3 DEF SnapshotterInv, AccountsInv
<1>9. PICK x : x = ledger[served.accounts]
    OBVIOUS
<1>10. PICK y : y = ledger[s]
    OBVIOUS
<1>11. x \in LedgerState /\ y \in LedgerState
    BY <1>4, <1>6, <1>9, <1>10
<1>12. PICK accounts : accounts = accountsRead
    OBVIOUS
<1>13. accounts = AccountsOf(x, A) /\ AccountSet(accounts)
    BY <1>7, <1>9, <1>11, <1>12, AccountsOfAre
<1>14. CASE raw # None /\ \A r \in raw : TokenLockRecord_parse(r)
  <2>1. PICK L \in SUBSET Existing(y) :
            raw = RecordsOf(y, L) /\ (raw = RawTokenLocks(y) => L = Existing(y))
      BY <1>10, <1>11, <1>14, RecordsServed
  <2>2. RecordSet(raw)
      BY <1>11, <2>1, RecordsOfAre
  <2>3. /\ served' = [served EXCEPT !.locks = s, !.all_locks = raw = RawTokenLocks(ledger[s]),
                                    !.records = raw]
        /\ IF BuildError(accounts, raw) = None
             THEN /\ snapshot' = LpSnapshot(supplyRead, accounts, raw)
                  /\ phase' = "built"
                  /\ error' = error
             ELSE Abort(BuildError(accounts, raw))
      BY <1>2, <1>12, <1>14
  <2>4. /\ served' \in Served /\ served'.locks = s
        /\ served'.supply = served.supply /\ served'.accounts = served.accounts
        /\ served'.all_accounts = served.all_accounts
        /\ served'.all_locks => raw = RawTokenLocks(y)
        /\ served'.records = raw
    <3>1. raw \in SUBSET UNION {RawTokenLocks(z) : z \in LedgerState}
      <4>1. raw \subseteq RawTokenLocks(y)
          BY <2>1 DEF RecordsOf, RecordAt, Existing, RawTokenLocks
      <4> QED
          BY <1>11, <4>1
    <3> QED
        BY <1>4, <1>5, <1>10, <2>3, <3>1 DEF Served
  <2>5. CASE BuildError(accounts, raw) = None
    <3>1. /\ snapshot' = LpSnapshot(supplyRead, accounts, raw)
          /\ phase' = "built"
          /\ error' = error
        BY <2>3, <2>5
    <3>2. supplyRead \in [amount : Nat, slot : 1..MaxSlot]
        BY <1>3, LedgerAssumption DEF SnapshotterInv, SupplyInv, LedgerInv
    <3>3. PICK snap : snap = LpSnapshot(supplyRead, accounts, raw)
        OBVIOUS
    <3>4. /\ snap \in LpSnapshots
          /\ snap.entries = Entries(Merged(accounts, raw))
          /\ SinksTold(snap)
        BY <1>13, <2>2, <2>5, <3>2, <3>3, BuiltIs
    <3>5. snapshot' = snap
        BY <3>1, <3>3
    <3>6. Balances(Merged(accounts, raw))
        BY <1>13, <2>2, MergedIs
    <3>7. ASSUME served'.all_locks,
                 served'.all_accounts \/ MintSupplyOf(x) = supplyRead'.amount,
                 x.balance[Custody] = LockedTotal(y),
                 request'.custody_owner_overrides \subseteq {AccountOwner[Custody]},
                 NEW o \in Owners \ (request'.sink_exclusions \cup {AccountOwner[Custody]}),
                 \A l \in Locks : LockOwner[l] = o => x.locked[l] = y.locked[l]
          PROVE  ShareOf(snap, o) = Beneficial(x, o)
      <4>1. raw = RecordsOf(y, Existing(y))
          BY <2>1, <2>4, <3>7
      <4>2. A = Accounts \/ MintSupplyOf(x) = EnumeratedTotal(accounts)
          BY <1>3, <1>7, <1>8, <1>12, <2>4, <3>7
      <4>3. /\ request.custody_owner_overrides \subseteq {AccountOwner[Custody]}
            /\ o \notin request.sink_exclusions /\ o # AccountOwner[Custody]
          BY <1>3, <3>7
      <4>4. Get(Merged(accounts, raw), o) = Beneficial(x, o)
          BY <1>11, <1>13, <2>5, <3>7, <4>1, <4>2, <4>3, HolderPaid
      <4>5. ShareOf(snap, o) = Get(Merged(accounts, raw), o)
          BY <3>4, <3>6, ShareIs
      <4> QED
          BY <4>4, <4>5
    <3>8. ledger'[served'.accounts] = x /\ ledger'[served'.locks] = y
        BY <1>3, <1>9, <1>10, <2>4
    <3>9. Paid(snapshot, ledger[served.accounts], ledger[served.locks])'
        BY <3>5, <3>7, <3>8 DEF Paid
    <3>10. file' = None /\ registry' = None
        BY <1>3, NothingPublished
    <3>11. LedgerInv' /\ PhaseInv'
        BY <1>3, <1>5, <2>4, <3>1, <3>10 DEF SnapshotterInv, LedgerInv, PhaseInv
    <3>12. SupplyInv'
        BY <1>3, <2>4, <3>1 DEF SnapshotterInv, SupplyInv
    <3>13. AccountsInv'
        BY <1>3, <1>6, <1>7, <1>8, <2>4, <3>1 DEF AccountsInv
    <3>14. SnapshotInv'
        BY <1>3, <1>4, <2>4, <3>4, <3>5, <3>9 DEF SnapshotInv, LpSnapshots
    <3>15. InvariantViolatedExplained'
        BY <1>5, <3>1 DEF InvariantViolatedExplained, Errors
    <3> QED
        BY <3>1, <3>10, <3>11, <3>12, <3>13, <3>14, <3>15
        DEF SnapshotterInv, FileInv, RegistryInv
  <2>6. CASE BuildError(accounts, raw) # None
    <3>1. PICK e : e = BuildError(accounts, raw)
        OBVIOUS
    <3>2. e \in Errors /\ Abort(e)
        BY <2>3, <2>6, <3>1, BuildErrorIs
    <3>3. InvariantViolatedExplained'
      <4>1. SUFFICES ASSUME e = "InvariantViolated" PROVE InvariantViolatedExplained'
          BY <3>2 DEF InvariantViolatedExplained, Abort
      <4>2. \/ \E r \in raw :
                 /\ r.current_locked_amount = 0
                 /\ \/ r.lock_owner \in request.sink_exclusions
                    \/ \A a \in accounts : a.owner = r.lock_owner => a.amount = 0
            \/ /\ TotalLocked(raw) > 0
               /\ \E b \in accounts \ {Lifted(accounts, raw)} :
                     b.owner = Lifted(accounts, raw).owner /\ b.amount > 0
        <5>1. BuildError(accounts, raw) = "InvariantViolated"
            BY <3>1, <4>1
        <5>2. AccountSet(accounts)
            BY <1>13
        <5> QED
            BY <2>2, <5>1, <5>2, ViolationExplained
      <4>3. /\ served'.records = raw /\ accountsRead' = accounts
            /\ request' = request
          BY <1>3, <1>12, <2>4
      <4>4. Lifted(accountsRead, served.records)' = Lifted(accounts, raw)
          BY <4>3 DEF Lifted, CustodyCandidates
      <4> QED
          BY <4>2, <4>3, <4>4 DEF InvariantViolatedExplained
    <3> QED
        BY <1>3, <2>4, <3>2, <3>3, AbortInv
  <2> QED
      BY <2>5, <2>6
<1>15. CASE ~(raw # None /\ \A r \in raw : TokenLockRecord_parse(r))
  <2>1. PICK e \in {"Source", "LockRecordInvalid"} : Abort(e) /\ UNCHANGED <<snapshot, served>>
      BY <1>2, <1>15
  <2>2. InvariantViolatedExplained'
      BY <2>1 DEF InvariantViolatedExplained, Abort
  <2>3. e \in Errors
      BY DEF Errors
  <2> QED
      BY <1>3, <1>5, <2>1, <2>2, <2>3, AbortInv
<1> QED
    BY <1>14, <1>15


LEMMA PublishInv ==
    ASSUME SnapshotterInv, PublishArtifact
    PROVE  SnapshotterInv'
<1>1. /\ phase = "built"
      /\ UNCHANGED <<request, ledger, supplyRead, accountsRead, snapshot, copy, registry, served>>
    BY DEF PublishArtifact
<1>2. served \in Served /\ error = None /\ None \notin Errors /\ registry = None
    BY <1>1, LedgerAssumption, NothingPublished DEF SnapshotterInv, PhaseInv
<1>3. CASE verify_integrity(seal(snapshot)) /\ file' = seal(snapshot)
           /\ phase' = "published" /\ error' = error
  <2>1. snapshot \in LpSnapshots /\ SinksTold(snapshot)
      BY <1>1 DEF SnapshotterInv, SnapshotInv
  <2>2. PICK snap : snap = snapshot
      OBVIOUS
  <2>3. PICK art : art = seal(snap)
      OBVIOUS
  <2>4. file' = art /\ snapshot' = snap
      BY <1>1, <1>3, <2>2, <2>3
  <2>5. snap.entries \in Seq([owner : Nat, lp_balance : Nat])
      BY <2>1, <2>2 DEF LpSnapshots
  <2>6. DOMAIN snap.entries = 1..Len(snap.entries) /\ Len(snap.entries) \in Nat
      BY <2>5
  <2>7. SameClaims(art, snap) /\ art.reconciliation = snap.reconciliation
      BY <2>3, SealIs
  <2>8. DOMAIN art.entries = 1..Len(snap.entries) /\ verify_integrity(art)
      BY <1>3, <2>2, <2>3, <2>6, <2>7 DEF SameClaims
  <2>9. /\ art.leaf_count = Len(snap.entries)
        /\ Total([i \in DOMAIN art.entries |-> art.entries[i].lp_balance])
             + art.reconciliation.sink_exclusions_total = art.lp_total_supply_at_snapshot
      BY <2>6, <2>8, IntegrityMeans
  <2>10. art.reconciliation.sink_exclusions_total
            = Total([x \in snap.exclusions |-> x.lp_balance])
      BY <2>1, <2>2, <2>7 DEF SinksTold
  <2>11. FileInv'
      BY <2>4, <2>7, <2>9, <2>10 DEF FileInv
  <2>12. LedgerInv' /\ PhaseInv'
      BY <1>1, <1>2, <1>3 DEF SnapshotterInv, LedgerInv, PhaseInv
  <2>13. SupplyInv' /\ AccountsInv'
      BY <1>1, <1>3 DEF SnapshotterInv, SupplyInv, AccountsInv
  <2>14. SnapshotInv'
    <3>1. SinksTold(snapshot)' /\ LpSnapshots' = LpSnapshots
        BY <1>1, <2>1 DEF LpSnapshots
    <3>2. /\ served.locks \in 1..Len(ledger)
          /\ Paid(snapshot, ledger[served.accounts], ledger[served.locks])
        BY <1>1 DEF SnapshotterInv, SnapshotInv
    <3>3. Paid(snapshot, ledger[served.accounts], ledger[served.locks])'
        BY <1>1, <3>2 DEF Paid
    <3> QED
        BY <1>1, <2>1, <3>1, <3>2, <3>3 DEF SnapshotInv
  <2>15. RegistryInv' /\ InvariantViolatedExplained'
      BY <1>1, <1>2, <1>3 DEF RegistryInv, InvariantViolatedExplained, Errors
  <2> QED
      BY <2>11, <2>12, <2>13, <2>14, <2>15 DEF SnapshotterInv
<1>4. CASE \E e \in {"ArtifactMismatch", "write failed"} : file' = file /\ Abort(e)
  <2>1. PICK e \in {"ArtifactMismatch", "write failed"} : file' = file /\ Abort(e)
      BY <1>4
  <2>2. InvariantViolatedExplained'
      BY <2>1 DEF InvariantViolatedExplained, Abort
  <2>3. e \in Errors
      BY DEF Errors
  <2> QED
      BY <1>1, <1>2, <2>1, <2>2, <2>3, AbortInv
<1> QED
    BY <1>3, <1>4 DEF PublishArtifact

\* A step that touches neither what was read nor what was published.
LEMMA QuietInv ==
    ASSUME SnapshotterInv,
           UNCHANGED <<request, ledger, phase, error, supplyRead, accountsRead, snapshot, file,
                       served>>,
           RegistryInv'
    PROVE  SnapshotterInv'
<1>1. LedgerInv' /\ PhaseInv' /\ SupplyInv' /\ AccountsInv'
    BY DEF SnapshotterInv, LedgerInv, PhaseInv, SupplyInv, AccountsInv
<1>2. SnapshotInv'
    BY DEF SnapshotterInv, SnapshotInv, Paid, LpSnapshots
<1>3. FileInv'
    BY DEF SnapshotterInv, FileInv
<1>4. Lifted(accountsRead, served.records)' = Lifted(accountsRead, served.records)
    BY DEF Lifted, CustodyCandidates
<1>5. InvariantViolatedExplained'
    BY <1>4 DEF SnapshotterInv, InvariantViolatedExplained
<1> QED
    BY <1>1, <1>2, <1>3, <1>5 DEF SnapshotterInv

LEMMA SealRootInv ==
    ASSUME SnapshotterInv, SealRoot
    PROVE  SnapshotterInv'
<1>1. /\ phase = "published"
      /\ MintSupplyOf(ledger[Len(ledger)]) = file.lp_total_supply_at_snapshot
      /\ registry'.slot = Len(ledger)
      /\ UNCHANGED <<request, ledger, phase, error, supplyRead, accountsRead, snapshot, file,
                     copy, served>>
    BY DEF SealRoot, SupplyPinned, Live, Now
<1>2. Len(ledger) \in 1..Len(ledger)
    BY DEF SnapshotterInv, LedgerInv
<1>3. RegistryInv'
    BY <1>1, <1>2 DEF RegistryInv
<1> QED
    BY <1>1, <1>3, QuietInv

LEMMA NextInv ==
    SnapshotterInv /\ [Next]_vars => SnapshotterInv'
<1> SUFFICES ASSUME SnapshotterInv, [Next]_vars PROVE SnapshotterInv'
    OBVIOUS
<1>1. CASE LedgerMoves
    BY <1>1, LedgerStepInv
<1>2. CASE ReadSupply
    BY <1>2, ReadSupplyInv
<1>3. CASE ReadAccounts
    BY <1>3, ReadAccountsInv
<1>4. CASE ReadLocksAndBuild
    BY <1>4, ReadLocksInv
<1>5. CASE PublishArtifact
    BY <1>5, PublishInv
<1>6. CASE LoadArtifact
  <2>1. UNCHANGED <<request, ledger, phase, error, supplyRead, accountsRead, snapshot, file,
                    registry, served>>
      BY <1>6 DEF LoadArtifact
  <2>2. RegistryInv'
      BY <2>1 DEF SnapshotterInv, RegistryInv
  <2> QED
      BY <2>1, <2>2, QuietInv
<1>7. CASE SealRoot
    BY <1>7, SealRootInv
<1>8. CASE UNCHANGED vars
  <2>1. RegistryInv'
      BY <1>8 DEF vars, SnapshotterInv, RegistryInv
  <2> QED
      BY <1>8, <2>1, QuietInv DEF vars
<1> QED
    BY <1>1, <1>2, <1>3, <1>4, <1>5, <1>6, <1>7, <1>8 DEF Next

LEMMA AlwaysInv ==
    Spec => []SnapshotterInv
BY InitInv, NextInv, PTL DEF Spec

-----------------------------------------------------------------------------
\* What the reads saw lies between the first and the last of them.
LEMMA WithinReads ==
    ASSUME NEW a \in Nat, NEW b \in Nat, NEW c \in Nat
    PROVE  LET S == {a, b, c} IN b \in Min(S)..Max(S) /\ c \in Min(S)..Max(S)
<1> DEFINE S == {a, b, c}
<1>1. \E x \in S : \A y \in S : x <= y
    OBVIOUS
<1>2. \E x \in S : \A y \in S : x >= y
    OBVIOUS
<1>3. Min(S) \in S /\ \A y \in S : Min(S) <= y
    BY <1>1, Zenon DEF Min
<1>4. Max(S) \in S /\ \A y \in S : Max(S) >= y
    BY <1>2, Zenon DEF Max
<1> QED
    BY <1>3, <1>4

(***************************************************************************)
(* Torn reads do not rob a bystander, for any ledger, any accounts and     *)
(* locks and any finality lag: what build makes of three reads of three    *)
(* different states still gives a holder who moved nothing, and whose      *)
(* locks were all served, a leaf for everything it owns.                   *)
(***************************************************************************)
THEOREM UnmovedHolderAlwaysPaidInFull ==
    Spec => []UnmovedHolderPaidInFull
<1>1. SnapshotterInv => UnmovedHolderPaidInFull
  <2>1. SUFFICES ASSUME SnapshotterInv, file # None, served.all_locks,
                        \/ served.all_accounts
                        \/ MintSupplyOf(ledger[served.accounts]) = supplyRead.amount,
                        ledger[served.accounts].balance[Custody]
                            = LockedTotal(ledger[served.locks]),
                        request.custody_owner_overrides \subseteq {AccountOwner[Custody]},
                        NEW o \in Owners \ (request.sink_exclusions \cup {AccountOwner[Custody]}),
                        Unmoved(o)
                 PROVE  ShareOf(file, o) = Beneficial(ledger[served.accounts], o)
      BY DEF UnmovedHolderPaidInFull
  <2>2. phase = "published"
      BY <2>1 DEF SnapshotterInv, PhaseInv
  <2>3. /\ served.supply \in Nat /\ served.accounts \in Nat /\ served.locks \in Nat
        /\ Paid(snapshot, ledger[served.accounts], ledger[served.locks])
        /\ SameClaims(file, snapshot)
      BY <2>1, <2>2 DEF SnapshotterInv, SupplyInv, AccountsInv, SnapshotInv, FileInv, LedgerInv
  <2>4. LET slots == {served.supply, served.accounts, served.locks}
        IN  served.accounts \in Min(slots)..Max(slots) /\ served.locks \in Min(slots)..Max(slots)
      BY <2>3, WithinReads
  <2>5. \A l \in Locks :
            LockOwner[l] = o => ledger[served.accounts].locked[l] = ledger[served.locks].locked[l]
      BY <2>1, <2>4 DEF Unmoved
  <2>6. ShareOf(snapshot, o) = Beneficial(ledger[served.accounts], o)
      BY <2>1, <2>3, <2>5 DEF Paid
  <2>7. ShareOf(file, o) = ShareOf(snapshot, o)
      BY <2>3, SameShares
  <2> QED
      BY <2>6, <2>7
<1> QED
    BY <1>1, AlwaysInv, PTL

(***************************************************************************)
(* A sealed root covers the live supply, for every ledger and every way    *)
(* the enumeration lags behind: the artifact closes on the supply it       *)
(* names, and the salvage pins that supply to the mint's at that moment.   *)
(***************************************************************************)
THEOREM SealedClaimsAlwaysCoverSupply ==
    Spec => []SealedClaimsCoverSupply
<1>1. SnapshotterInv => SealedClaimsCoverSupply
    BY DEF SnapshotterInv, FileInv, RegistryInv, SealedClaimsCoverSupply
<1> QED
    BY <1>1, AlwaysInv, PTL

(***************************************************************************)
(* When build reports InvariantViolated, an emptied lock, or a second      *)
(* funded account of the owner whose account was taken for the custody, is *)
(* the reason, on every ledger.                                            *)
(***************************************************************************)
THEOREM ViolationAlwaysExplained ==
    Spec => []InvariantViolatedExplained
<1>1. SnapshotterInv => InvariantViolatedExplained
    BY DEF SnapshotterInv
<1> QED
    BY <1>1, AlwaysInv, PTL

(***************************************************************************)
(* Type correctness: no balance runs below zero, whatever is transferred,  *)
(* locked and released, and a built snapshot is a well-formed LpSnapshot.  *)
(***************************************************************************)
THEOREM SnapshotterTypeCorrect ==
    Spec => []TypeOK
<1>1. SnapshotterInv => TypeOK
    BY DEF SnapshotterInv, LedgerInv, PhaseInv, SnapshotInv, FileInv, TypeOK
<1> QED
    BY <1>1, AlwaysInv, PTL

-----------------------------------------------------------------------------
(***************************************************************************)
(* Tuples of anything: sequences without naming the set of their elements. *)
(***************************************************************************)
Tuple(s, n) == s = [i \in 1..n |-> s[i]]

LEMMA TupleIs ==
    ASSUME NEW n \in Nat, NEW s, Tuple(s, n)
    PROVE  s \in Seq({s[i] : i \in 1..n}) /\ Len(s) = n /\ DOMAIN s = 1..n
<1> DEFINE R == {s[i] : i \in 1..n}
<1>1. s \in [1..n -> R]
    BY DEF Tuple
<1>2. DOMAIN s = 1..n
    BY DEF Tuple
<1> HIDE DEF R
<1>3. s \in Seq(R) /\ Len(s) = n
    BY <1>1, SequenceIs
<1> QED
    BY <1>2, <1>3 DEF R

LEMMA AppendIs ==
    ASSUME NEW n \in Nat, NEW s, Tuple(s, n), NEW x
    PROVE  /\ Tuple(Append(s, x), n + 1)
           /\ Append(s, x)[n + 1] = x
           /\ \A i \in 1..n : Append(s, x)[i] = s[i]
<1> DEFINE R == {s[i] : i \in 1..n} \cup {x}
<1>1. s \in [1..n -> R]
    BY DEF Tuple
<1> HIDE DEF R
<1>2. s \in Seq(R) /\ Len(s) = n
    BY <1>1, SequenceIs
<1>3. x \in R
    BY DEF R
<1>4. /\ Append(s, x) \in Seq(R)
      /\ Len(Append(s, x)) = n + 1
      /\ Append(s, x)[n + 1] = x
      /\ \A i \in 1..n : Append(s, x)[i] = s[i]
    BY <1>2, <1>3
<1>5. Append(s, x) \in [1..(n + 1) -> R]
  <2>1. PICK t : t = Append(s, x)
      OBVIOUS
  <2>2. t \in Seq(R) /\ Len(t) = n + 1
      BY <1>4, <2>1
  <2>3. t \in [1..(n + 1) -> R]
      BY <2>2
  <2> QED
      BY <2>1, <2>3
<1> QED
    BY <1>4, <1>5 DEF Tuple

LEMMA EmptyTuple ==
    Tuple(<<>>, 0)
<1>1. <<>> = [i \in 1..0 |-> <<>>[i]]
    OBVIOUS
<1> QED
    BY <1>1 DEF Tuple

-----------------------------------------------------------------------------
(***************************************************************************)
(* The verifier's fold.                                                    *)
(***************************************************************************)
Folds(c, leaf, proof, n) ==
    c = [k \in 0..n |-> IF k = 0 THEN leaf ELSE hash_pair(c[k - 1], proof[k])]

LEMMA FoldsAt ==
    ASSUME NEW n \in Nat, NEW c, NEW leaf, NEW proof, Folds(c, leaf, proof, n)
    PROVE  /\ c[0] = leaf
           /\ \A k \in 1..n : c[k] = hash_pair(c[k - 1], proof[k])
<1>1. \A k \in 0..n : c[k] = IF k = 0 THEN leaf ELSE hash_pair(c[k - 1], proof[k])
    BY DEF Folds
<1>2. 0 \in 0..n /\ \A k \in 1..n : k \in 0..n /\ k # 0
    OBVIOUS
<1> QED
    BY <1>1, <1>2

LEMMA FoldExists ==
    ASSUME NEW leaf, NEW proof, NEW n \in Nat
    PROVE  \E c : Folds(c, leaf, proof, n)
<1> DEFINE K == {k \in Nat : \E c : Folds(c, leaf, proof, k)}
<1>1. 0 \in K
  <2> DEFINE c == [k \in 0..0 |-> leaf]
  <2>1. Folds(c, leaf, proof, 0)
    <3>1. \A k \in 0..0 : k = 0
        OBVIOUS
    <3> QED
        BY <3>1 DEF Folds
  <2> QED
      BY <2>1
<1>2. ASSUME NEW k \in K PROVE k + 1 \in K
  <2>1. PICK c : Folds(c, leaf, proof, k)
      OBVIOUS
  <2> DEFINE d == [j \in 0..(k + 1) |-> IF j = k + 1 THEN hash_pair(c[k], proof[k + 1]) ELSE c[j]]
  <2>2. \A j \in 0..k : d[j] = c[j] /\ j # k + 1
      OBVIOUS
  <2>3. k \in Nat /\ c[0] = leaf /\ \A j \in 1..k : c[j] = hash_pair(c[j - 1], proof[j])
      BY <2>1, FoldsAt
  <2>4. d[0] = leaf
      BY <2>2, <2>3
  <2>5. ASSUME NEW j \in 1..(k + 1) PROVE d[j] = hash_pair(d[j - 1], proof[j])
    <3>1. j - 1 \in 0..k /\ d[j - 1] = c[j - 1]
        BY <2>2, <2>3
    <3>2. CASE j = k + 1
        BY <2>3, <3>1, <3>2
    <3>3. CASE j # k + 1
        BY <2>2, <2>3, <3>1, <3>3
    <3> QED
        BY <3>2, <3>3
  <2>6. d = [j \in 0..(k + 1) |-> IF j = 0 THEN leaf ELSE hash_pair(d[j - 1], proof[j])]
    <3>1. \A j \in 0..(k + 1) : d[j] = IF j = 0 THEN leaf ELSE hash_pair(d[j - 1], proof[j])
      <4>1. \A j \in 0..(k + 1) : j = 0 \/ j \in 1..(k + 1)
          BY <2>3
      <4> HIDE DEF d
      <4> QED
          BY <2>4, <2>5, <4>1
    <3>2. d = [j \in 0..(k + 1) |-> d[j]]
        OBVIOUS
    <3> HIDE DEF d
    <3> QED
        BY <3>1, <3>2
  <2>7. Folds(d, leaf, proof, k + 1)
    <3> HIDE DEF d
    <3> QED
        BY <2>6 DEF Folds
  <2> QED
      BY <2>3, <2>7
<1>3. K = Nat
    BY <1>1, <1>2, NatSetInduction
<1> QED
    BY <1>3

\* Two folds over proofs that agree, agree as far as both go.
LEMMA FoldsAgree ==
    ASSUME NEW m \in Nat, NEW n \in Nat, m <= n, NEW leaf, NEW p, NEW q,
           \A i \in 1..m : p[i] = q[i],
           NEW c, Folds(c, leaf, p, m), NEW d, Folds(d, leaf, q, n)
    PROVE  c[m] = d[m]
<1> DEFINE K == {k \in Nat : k <= m => c[k] = d[k]}
<1>0. /\ c[0] = leaf /\ \A k \in 1..m : c[k] = hash_pair(c[k - 1], p[k])
      /\ d[0] = leaf /\ \A k \in 1..n : d[k] = hash_pair(d[k - 1], q[k])
    BY FoldsAt
<1>1. 0 \in K
    BY <1>0
<1>2. ASSUME NEW k \in K PROVE k + 1 \in K
  <2>1. SUFFICES ASSUME k + 1 <= m PROVE c[k + 1] = d[k + 1]
      OBVIOUS
  <2>2. c[k] = d[k] /\ k + 1 \in 1..m /\ k + 1 \in 1..n /\ (k + 1) - 1 = k
      BY <2>1
  <2>3. c[k + 1] = hash_pair(c[k], p[k + 1]) /\ d[k + 1] = hash_pair(d[k], q[k + 1])
      BY <1>0, <2>2
  <2> QED
      BY <2>2, <2>3
<1>3. K = Nat
    BY <1>1, <1>2, NatSetInduction
<1> QED
    BY <1>3

LEMMA FoldIs ==
    ASSUME NEW n \in Nat, NEW leaf, NEW proof, Tuple(proof, n)
    PROVE  \E c : Folds(c, leaf, proof, n) /\ fold_proof(leaf, proof) = c[n]
<1> DEFINE c == CHOOSE c : Folds(c, leaf, proof, n)
<1>1. Folds(c, leaf, proof, n)
    BY FoldExists
<1>2. Len(proof) = n
    BY TupleIs
<1>3. fold_proof(leaf, proof) = c[n]
    BY <1>2 DEF fold_proof, Folds
<1> QED
    BY <1>1, <1>3

LEMMA FoldEmpty ==
    ASSUME NEW leaf
    PROVE  fold_proof(leaf, <<>>) = leaf
<1>1. PICK c : Folds(c, leaf, <<>>, 0) /\ fold_proof(leaf, <<>>) = c[0]
    BY EmptyTuple, FoldIs
<1> QED
    BY <1>1, FoldsAt

LEMMA FoldAppend ==
    ASSUME NEW n \in Nat, NEW leaf, NEW proof, Tuple(proof, n), NEW x
    PROVE  fold_proof(leaf, Append(proof, x)) = hash_pair(fold_proof(leaf, proof), x)
<1> DEFINE q == Append(proof, x)
<1>1. Tuple(q, n + 1) /\ q[n + 1] = x /\ \A i \in 1..n : proof[i] = q[i]
    BY AppendIs
<1> HIDE DEF q
<1>2. PICK c : Folds(c, leaf, proof, n) /\ fold_proof(leaf, proof) = c[n]
    BY FoldIs
<1>3. PICK d : Folds(d, leaf, q, n + 1) /\ fold_proof(leaf, q) = d[n + 1]
    BY <1>1, FoldIs
<1>4. n + 1 \in Nat /\ n <= n + 1 /\ n + 1 \in 1..(n + 1) /\ (n + 1) - 1 = n
    OBVIOUS
<1>5. c[n] = d[n]
    BY <1>1, <1>2, <1>3, <1>4, FoldsAgree
<1>6. d[n + 1] = hash_pair(d[n], q[n + 1])
    BY <1>3, <1>4, FoldsAt
<1> QED
    BY <1>1, <1>2, <1>3, <1>5, <1>6 DEF q

LEMMA HashPairInjective ==
    ASSUME NEW a, NEW b, NEW x, hash_pair(a, x) = hash_pair(b, x)
    PROVE  a = b
<1>1. {a, x} = {b, x}
    BY DEF hash_pair
<1> QED
    BY <1>1

\* A proof opens a root for one leaf at most.
LEMMA FoldInjective ==
    ASSUME NEW n \in Nat, NEW a, NEW b, NEW proof, Tuple(proof, n),
           fold_proof(a, proof) = fold_proof(b, proof)
    PROVE  a = b
<1>1. PICK c : Folds(c, a, proof, n) /\ fold_proof(a, proof) = c[n]
    BY FoldIs
<1>2. PICK d : Folds(d, b, proof, n) /\ fold_proof(b, proof) = d[n]
    BY FoldIs
<1>3. /\ c[0] = a /\ \A k \in 1..n : c[k] = hash_pair(c[k - 1], proof[k])
      /\ d[0] = b /\ \A k \in 1..n : d[k] = hash_pair(d[k - 1], proof[k])
    BY <1>1, <1>2, FoldsAt
<1> DEFINE K == {k \in Nat : k <= n /\ c[k] = d[k] => a = b}
<1>4. 0 \in K
    BY <1>3
<1>5. ASSUME NEW k \in K PROVE k + 1 \in K
  <2>1. SUFFICES ASSUME k + 1 <= n, c[k + 1] = d[k + 1] PROVE a = b
      OBVIOUS
  <2>2. k + 1 \in 1..n /\ (k + 1) - 1 = k /\ k <= n
      BY <2>1
  <2>3. hash_pair(c[k], proof[k + 1]) = hash_pair(d[k], proof[k + 1])
      BY <1>3, <2>1, <2>2
  <2>4. c[k] = d[k]
      BY <2>3, HashPairInjective
  <2> QED
      BY <2>2, <2>4
<1>6. K = Nat
    BY <1>4, <1>5, NatSetInduction
<1>7. n \in K /\ c[n] = d[n]
    BY <1>1, <1>2, <1>6
<1> QED
    BY <1>7


-----------------------------------------------------------------------------
(***************************************************************************)
(* The levels of the tree.                                                 *)
(***************************************************************************)
LEMMA Halves ==
    ASSUME NEW m \in Nat, m # 0
    PROVE  /\ (m + 1) \div 2 \in Nat \ {0}
           /\ m > 1 => (m + 1) \div 2 < m
           /\ \A i \in 1..((m + 1) \div 2) : /\ 2 * i - 1 \in 1..m
                                             /\ 2 * i \in 1..m \/ 2 * i - 1 = m
OBVIOUS

LEMMA NextLevelIs ==
    ASSUME NEW level, Len(level) \in Nat \ {0}
    PROVE  /\ Tuple(NextLevel(level), (Len(level) + 1) \div 2)
           /\ Len(NextLevel(level)) = (Len(level) + 1) \div 2
           /\ Len(NextLevel(level)) \in Nat \ {0}
           /\ Len(level) > 1 => Len(NextLevel(level)) < Len(level)
           /\ \A i \in 1..((Len(level) + 1) \div 2) :
                 NextLevel(level)[i] =
                     IF 2 * i <= Len(level) THEN hash_pair(level[2 * i - 1], level[2 * i])
                                            ELSE level[2 * i - 1]
<1> DEFINE m == Len(level)
           n == (m + 1) \div 2
           next == NextLevel(level)
<1>1. n \in Nat \ {0} /\ (m > 1 => n < m)
    BY Halves
<1>2. Tuple(next, n)
    BY DEF NextLevel, Tuple
<1>3. \A i \in 1..n : next[i] = IF 2 * i <= m THEN hash_pair(level[2 * i - 1], level[2 * i])
                                             ELSE level[2 * i - 1]
    BY DEF NextLevel
<1> HIDE DEF n, next
<1>4. Len(next) = n
    BY <1>1, <1>2, TupleIs
<1> QED
    BY <1>1, <1>2, <1>3, <1>4 DEF n, next

LEMMA LeafLevelIs ==
    ASSUME NEW n \in Nat, NEW entries, Tuple(entries, n)
    PROVE  /\ Tuple(LeafLevel(entries), n)
           /\ Len(LeafLevel(entries)) = n
           /\ \A i \in 1..n : LeafLevel(entries)[i]
                  = compute_leaf(entries[i].owner, entries[i].lp_balance)
<1>1. DOMAIN entries = 1..n
    BY TupleIs
<1>2. Tuple(LeafLevel(entries), n)
    BY <1>1 DEF LeafLevel, Tuple
<1>3. Len(LeafLevel(entries)) = n
    BY <1>2, TupleIs
<1> QED
    BY <1>1, <1>2, <1>3 DEF LeafLevel

Grown(levels) ==
    IF Len(levels[Len(levels)]) > 1 THEN Append(levels, NextLevel(levels[Len(levels)]))
                                    ELSE levels

Grows(g, entries, n) ==
    g = [k \in 1..n |-> IF k = 1 THEN <<LeafLevel(entries)>> ELSE Grown(g[k - 1])]

LEMMA GrowsAt ==
    ASSUME NEW n \in Nat, n # 0, NEW g, NEW entries, Grows(g, entries, n)
    PROVE  /\ g[1] = <<LeafLevel(entries)>>
           /\ \A k \in 1..(n - 1) : g[k + 1] = Grown(g[k])
<1>1. \A k \in 1..n : g[k] = IF k = 1 THEN <<LeafLevel(entries)>> ELSE Grown(g[k - 1])
    BY DEF Grows
<1>2. 1 \in 1..n /\ \A k \in 1..(n - 1) : k + 1 \in 1..n /\ k + 1 # 1 /\ (k + 1) - 1 = k
    OBVIOUS
<1> QED
    BY <1>1, <1>2

LEMMA GrowthExists ==
    ASSUME NEW entries, NEW n \in Nat
    PROVE  \E g : Grows(g, entries, n)
<1> DEFINE K == {k \in Nat : \E g : Grows(g, entries, k)}
<1>1. 0 \in K
  <2> DEFINE g == [k \in 1..0 |-> 0]
  <2>1. Grows(g, entries, 0)
      BY DEF Grows
  <2> QED
      BY <2>1
<1>2. ASSUME NEW k \in K PROVE k + 1 \in K
  <2>1. PICK g : Grows(g, entries, k)
      OBVIOUS
  <2>2. k \in Nat
      OBVIOUS
  <2> DEFINE h == [j \in 1..(k + 1) |->
                      IF j = 1 THEN <<LeafLevel(entries)>> ELSE Grown(g[j - 1])]
  <2>3. \A j \in 1..k : g[j] = h[j]
      BY <2>1, <2>2 DEF Grows
  <2>4. ASSUME NEW j \in 1..(k + 1)
        PROVE  h[j] = IF j = 1 THEN <<LeafLevel(entries)>> ELSE Grown(h[j - 1])
    <3>1. j # 1 => j - 1 \in 1..k
        BY <2>2
    <3>2. j # 1 => g[j - 1] = h[j - 1]
        BY <2>3, <3>1
    <3>3. h[j] = IF j = 1 THEN <<LeafLevel(entries)>> ELSE Grown(g[j - 1])
        OBVIOUS
    <3> HIDE DEF h
    <3> QED
        BY <3>2, <3>3
  <2>5. h = [j \in 1..(k + 1) |-> h[j]]
      OBVIOUS
  <2> HIDE DEF h
  <2>6. Grows(h, entries, k + 1)
    <3>1. h = [j \in 1..(k + 1) |->
                  IF j = 1 THEN <<LeafLevel(entries)>> ELSE Grown(h[j - 1])]
        BY <2>4, <2>5
    <3> QED
        BY <3>1 DEF Grows
  <2> QED
      BY <2>2, <2>6
<1>3. K = Nat
    BY <1>1, <1>2, NatSetInduction
<1> QED
    BY <1>3

\* d levels, each made from the one below.
TreeUpTo(levels, d, entries) ==
    /\ Tuple(levels, d)
    /\ levels[1] = LeafLevel(entries)
    /\ \A k \in 1..d : Len(levels[k]) \in Nat \ {0} /\ Tuple(levels[k], Len(levels[k]))
    /\ \A k \in 1..(d - 1) : levels[k + 1] = NextLevel(levels[k])

LEMMA GrownTree ==
    ASSUME NEW d \in Nat, d # 0, NEW levels, NEW entries, TreeUpTo(levels, d, entries)
    PROVE  \E e \in d..(d + 1) :
              /\ TreeUpTo(Grown(levels), e, entries)
              /\ Len(levels[d]) > 1 => Len(Grown(levels)[e]) < Len(levels[d])
              /\ Len(levels[d]) = 1 => Len(Grown(levels)[e]) = 1
<1>1. Len(levels) = d /\ d \in 1..d
  <2>1. Tuple(levels, d)
      BY DEF TreeUpTo
  <2>2. Len(levels) = d
      BY <2>1, TupleIs, Zenon
  <2>3. d \in 1..d
      OBVIOUS
  <2> QED
      BY <2>2, <2>3
<1>2. CASE ~(Len(levels[d]) > 1)
  <2>1. Grown(levels) = levels
      BY <1>1, <1>2 DEF Grown
  <2>2. d \in d..(d + 1)
      OBVIOUS
  <2> QED
      BY <1>2, <2>1, <2>2
<1>3. CASE Len(levels[d]) > 1
  <2> DEFINE last == levels[d]
             next == NextLevel(last)
             new == Append(levels, next)
  <2>1. Grown(levels) = new
      BY <1>1, <1>3 DEF Grown
  <2>2. Len(last) \in Nat \ {0}
      BY <1>1 DEF TreeUpTo
  <2>3. /\ Tuple(next, (Len(last) + 1) \div 2)
        /\ Len(next) = (Len(last) + 1) \div 2
        /\ Len(next) \in Nat \ {0}
        /\ Len(next) < Len(last)
      BY <1>3, <2>2, NextLevelIs
  <2>4. Tuple(levels, d)
      BY DEF TreeUpTo
  <2> HIDE DEF next
  <2>5. Tuple(new, d + 1) /\ new[d + 1] = next /\ \A i \in 1..d : new[i] = levels[i]
      BY <2>4, AppendIs
  <2> HIDE DEF new
  <2>6. ASSUME NEW k \in 1..(d + 1)
        PROVE  Len(new[k]) \in Nat \ {0} /\ Tuple(new[k], Len(new[k]))
    <3>1. k = d + 1 \/ k \in 1..d
        OBVIOUS
    <3>2. CASE k = d + 1
      <4>1. Tuple(next, Len(next))
          BY <2>3
      <4> QED
          BY <2>3, <2>5, <3>2, <4>1
    <3>3. CASE k \in 1..d
        BY <2>5, <3>3 DEF TreeUpTo
    <3> QED
        BY <3>1, <3>2, <3>3
  <2>7. ASSUME NEW k \in 1..d PROVE new[k + 1] = NextLevel(new[k])
    <3>1. k = d \/ k \in 1..(d - 1)
        OBVIOUS
    <3>2. CASE k = d
        BY <2>5, <3>2 DEF next
    <3>3. CASE k \in 1..(d - 1)
      <4>1. k \in 1..d /\ k + 1 \in 1..d
          BY <3>3
      <4>2. levels[k + 1] = NextLevel(levels[k])
          BY <3>3 DEF TreeUpTo
      <4> QED
          BY <2>5, <4>1, <4>2
    <3> QED
        BY <3>1, <3>2, <3>3
  <2>8. new[1] = LeafLevel(entries)
    <3>1. 1 \in 1..d
        OBVIOUS
    <3> QED
        BY <2>5, <3>1 DEF TreeUpTo
  <2>9. TreeUpTo(new, d + 1, entries)
    <3>1. (d + 1) - 1 = d
        OBVIOUS
    <3> QED
        BY <2>5, <2>6, <2>7, <2>8, <3>1 DEF TreeUpTo
  <2>10. d + 1 \in d..(d + 1)
      OBVIOUS
  <2>11. Len(levels[d]) # 1
    <3>1. PICK x \in Nat : x = Len(levels[d])
        BY <2>2
    <3>2. x > 1
        BY <1>3, <3>1
    <3>3. x # 1
        BY <3>2
    <3> QED
        BY <3>1, <3>3
  <2>12. Len(Grown(levels)[d + 1]) < Len(levels[d])
      BY <2>1, <2>3, <2>5
  <2> QED
      BY <2>1, <2>9, <2>10, <2>11, <2>12
<1> QED
    BY <1>2, <1>3

\* The tree has a root: halving ends before the loop's bound does.
IsTree(levels, d, entries) ==
    /\ d \in Nat \ {0}
    /\ TreeUpTo(levels, d, entries)
    /\ Len(levels[d]) = 1

LEMMA TreeIs ==
    ASSUME NEW n \in Nat, n # 0, NEW entries, Tuple(entries, n)
    PROVE  \E d : IsTree(from_entries(entries), d, entries)
<1> DEFINE g == CHOOSE g : Grows(g, entries, n)
           Short(k) == \E d \in Nat : /\ d # 0
                                      /\ TreeUpTo(g[k], d, entries)
                                      /\ Len(g[k][d]) = 1 \/ Len(g[k][d]) + k <= n + 1
           K == {k \in Nat : k + 1 <= n => Short(k + 1)}
<1>1. Grows(g, entries, n)
    BY GrowthExists
<1>2. from_entries(entries) = g[n]
  <2>1. Len(entries) = n
      BY TupleIs
  <2> QED
      BY <2>1 DEF from_entries, Grows, Grown
<1> HIDE DEF g
<1>3. g[1] = <<LeafLevel(entries)>> /\ \A k \in 1..(n - 1) : g[k + 1] = Grown(g[k])
    BY <1>1, GrowsAt
<1>4. Short(1)
  <2> DEFINE leaves == LeafLevel(entries)
  <2>1. Tuple(leaves, n) /\ Len(leaves) = n
      BY LeafLevelIs
  <2> HIDE DEF leaves
  <2>2. Tuple(<<leaves>>, 1) /\ <<leaves>>[1] = leaves
      BY DEF Tuple
  <2>3. TreeUpTo(<<leaves>>, 1, entries)
    <3>1. \A k \in 1..1 : k = 1
        OBVIOUS
    <3>2. \A k \in 1..(1 - 1) : FALSE
        OBVIOUS
    <3> QED
        BY <2>1, <2>2, <3>1, <3>2 DEF TreeUpTo, leaves
  <2>4. Len(<<leaves>>[1]) + 1 <= n + 1
      BY <2>1, <2>2
  <2>5. g[1] = <<leaves>>
      BY <1>3 DEF leaves
  <2> QED
      BY <2>3, <2>4, <2>5
<1>5. ASSUME NEW j \in 1..(n - 1), Short(j) PROVE Short(j + 1)
  <2>1. PICK d \in Nat : /\ d # 0
                         /\ TreeUpTo(g[j], d, entries)
                         /\ Len(g[j][d]) = 1 \/ Len(g[j][d]) + j <= n + 1
      BY <1>5
  <2>2. g[j + 1] = Grown(g[j])
      BY <1>3
  <2>3. PICK e \in d..(d + 1) :
            /\ TreeUpTo(Grown(g[j]), e, entries)
            /\ Len(g[j][d]) > 1 => Len(Grown(g[j])[e]) < Len(g[j][d])
            /\ Len(g[j][d]) = 1 => Len(Grown(g[j])[e]) = 1
      BY <2>1, GrownTree
  <2>4. e \in Nat /\ e # 0 /\ e \in 1..e /\ d \in 1..d
      BY <2>1
  <2>5. PICK x \in Nat \ {0} : x = Len(g[j][d])
      BY <2>1, <2>4 DEF TreeUpTo
  <2>6. PICK y \in Nat \ {0} : y = Len(Grown(g[j])[e])
      BY <2>3, <2>4 DEF TreeUpTo
  <2>7. (x > 1 => y < x) /\ (x = 1 => y = 1) /\ (x = 1 \/ x + j <= n + 1)
      BY <2>1, <2>3, <2>5, <2>6
  <2>8. y = 1 \/ y + (j + 1) <= n + 1
      BY <2>7
  <2> QED
      BY <2>2, <2>3, <2>4, <2>6, <2>8
<1> HIDE DEF Short
<1>6. 0 \in K
  <2>1. 0 + 1 = 1
      OBVIOUS
  <2> QED
      BY <1>4, <2>1
<1>7. ASSUME NEW k \in K PROVE k + 1 \in K
  <2>1. k \in Nat
      OBVIOUS
  <2>2. ASSUME (k + 1) + 1 <= n PROVE Short((k + 1) + 1)
    <3>1. k + 1 \in 1..(n - 1) /\ k + 1 <= n
        BY <2>1, <2>2
    <3>2. Short(k + 1)
        BY <3>1
    <3> QED
        BY <1>5, <3>1, <3>2
  <2> QED
      BY <2>1, <2>2
<1>8. Short(n)
  <2>1. K = Nat
      BY <1>6, <1>7, NatSetInduction
  <2>2. n - 1 \in Nat /\ (n - 1) + 1 = n
      OBVIOUS
  <2>3. n - 1 \in K
      BY <2>1, <2>2
  <2>4. (n - 1) + 1 <= n => Short((n - 1) + 1)
      BY <2>3
  <2> QED
      BY <2>2, <2>4
<1>9. PICK d \in Nat : /\ d # 0
                       /\ TreeUpTo(g[n], d, entries)
                       /\ Len(g[n][d]) = 1 \/ Len(g[n][d]) + n <= n + 1
    BY <1>8 DEF Short
<1>10. PICK x \in Nat \ {0} : x = Len(g[n][d])
  <2>1. d \in 1..d
      BY <1>9
  <2> QED
      BY <1>9, <2>1 DEF TreeUpTo
<1>11. Len(g[n][d]) = 1
  <2>1. x = 1 \/ x + n <= n + 1
      BY <1>9, <1>10
  <2>2. x = 1
      BY <2>1
  <2> QED
      BY <1>10, <2>2
<1> QED
    BY <1>2, <1>9, <1>11 DEF IsTree

-----------------------------------------------------------------------------
(***************************************************************************)
(* The path from a leaf to the root.                                       *)
(***************************************************************************)
\* What one level adds to a proof, at the node it has reached.
PathStep(level, at) ==
    [idx |-> at.idx \div 2,
     proof |-> IF at.idx % 2 = 1 THEN Append(at.proof, level[at.idx])
               ELSE IF at.idx + 1 < Len(level) THEN Append(at.proof, level[at.idx + 2])
               ELSE at.proof]

Walks(w, levels, index, n) ==
    w = [k \in 0..n |-> IF k = 0 THEN [idx |-> index, proof |-> <<>>]
                        ELSE PathStep(levels[k], w[k - 1])]

LEMMA WalkExists ==
    ASSUME NEW levels, NEW index, NEW n \in Nat
    PROVE  \E w : Walks(w, levels, index, n)
<1> DEFINE K == {k \in Nat : \E w : Walks(w, levels, index, k)}
           Start == [idx |-> index, proof |-> <<>>]
<1>1. 0 \in K
  <2> DEFINE w == [k \in 0..0 |-> Start]
  <2>1. \A k \in 0..0 : k = 0
      OBVIOUS
  <2>2. Walks(w, levels, index, 0)
      BY <2>1 DEF Walks
  <2> QED
      BY <2>2
<1>2. ASSUME NEW k \in K PROVE k + 1 \in K
  <2>1. PICK w : Walks(w, levels, index, k)
      OBVIOUS
  <2>2. k \in Nat
      OBVIOUS
  <2> HIDE DEF Start
  <2> DEFINE h == [j \in 0..(k + 1) |-> IF j = 0 THEN Start ELSE PathStep(levels[j], w[j - 1])]
  <2>3. \A j \in 0..k : w[j] = h[j]
      BY <2>1, <2>2 DEF Walks, Start
  <2>4. ASSUME NEW j \in 0..(k + 1)
        PROVE  h[j] = IF j = 0 THEN Start ELSE PathStep(levels[j], h[j - 1])
    <3>1. j # 0 => j - 1 \in 0..k
        BY <2>2
    <3>2. j # 0 => w[j - 1] = h[j - 1]
        BY <2>3, <3>1
    <3>3. h[j] = IF j = 0 THEN Start ELSE PathStep(levels[j], w[j - 1])
        OBVIOUS
    <3> HIDE DEF h
    <3> QED
        BY <3>2, <3>3
  <2>5. h = [j \in 0..(k + 1) |-> h[j]]
      OBVIOUS
  <2> HIDE DEF h
  <2>6. Walks(h, levels, index, k + 1)
    <3>1. h = [j \in 0..(k + 1) |-> IF j = 0 THEN Start ELSE PathStep(levels[j], h[j - 1])]
        BY <2>4, <2>5
    <3> QED
        BY <3>1 DEF Walks, Start
  <2> QED
      BY <2>2, <2>6
<1>3. K = Nat
    BY <1>1, <1>2, NatSetInduction
<1> QED
    BY <1>3

LEMMA WalksAt ==
    ASSUME NEW n \in Nat, NEW w, NEW levels, NEW index, Walks(w, levels, index, n)
    PROVE  /\ w[0] = [idx |-> index, proof |-> <<>>]
           /\ \A k \in 1..n : w[k] = PathStep(levels[k], w[k - 1])
<1>1. \A k \in 0..n : w[k] = IF k = 0 THEN [idx |-> index, proof |-> <<>>]
                             ELSE PathStep(levels[k], w[k - 1])
    BY DEF Walks
<1>2. 0 \in 0..n /\ \A k \in 1..n : k \in 0..n /\ k # 0
    OBVIOUS
<1> QED
    BY <1>1, <1>2

\* The proof so far leads from the leaf to this node of this level.
Reaches(leaf, at, level) ==
    /\ at.idx \in Nat
    /\ at.idx + 1 \in 1..Len(level)
    /\ \E m \in Nat : Tuple(at.proof, m)
    /\ fold_proof(leaf, at.proof) = level[at.idx + 1]

LEMMA HalfIndex ==
    ASSUME NEW idx \in Nat, NEW n \in Nat, idx + 1 <= n
    PROVE  /\ idx \div 2 \in Nat
           /\ idx \div 2 + 1 \in 1..((n + 1) \div 2)
           /\ idx % 2 = 1 => /\ 2 * (idx \div 2 + 1) = idx + 1
                             /\ 2 * (idx \div 2 + 1) <= n
                             /\ 2 * (idx \div 2 + 1) - 1 = idx
           /\ idx % 2 # 1 => /\ 2 * (idx \div 2 + 1) = idx + 2
                             /\ 2 * (idx \div 2 + 1) - 1 = idx + 1
                             /\ idx + 1 < n <=> 2 * (idx \div 2 + 1) <= n
OBVIOUS

LEMMA PathStepReaches ==
    ASSUME NEW level, Len(level) \in Nat \ {0}, NEW leaf, NEW at, Reaches(leaf, at, level)
    PROVE  Reaches(leaf, PathStep(level, at), NextLevel(level))
<1>1. PICK n \in Nat \ {0} : n = Len(level)
    OBVIOUS
<1>2. PICK idx : idx = at.idx
    OBVIOUS
<1>3. PICK proof : proof = at.proof
    OBVIOUS
<1>4. idx \in Nat /\ idx + 1 \in 1..n /\ fold_proof(leaf, proof) = level[idx + 1]
    BY <1>1, <1>2, <1>3 DEF Reaches
<1>5. PICK m \in Nat : Tuple(proof, m)
    BY <1>3 DEF Reaches
<1>6. PICK p : p = idx \div 2 + 1
    OBVIOUS
<1>7. idx + 1 <= n
    BY <1>4
<1>8. /\ idx \div 2 \in Nat
      /\ p \in 1..((n + 1) \div 2)
      /\ idx % 2 = 1 => 2 * p = idx + 1 /\ 2 * p <= n /\ 2 * p - 1 = idx
      /\ idx % 2 # 1 => 2 * p = idx + 2 /\ 2 * p - 1 = idx + 1 /\ (idx + 1 < n <=> 2 * p <= n)
    BY <1>4, <1>6, <1>7, HalfIndex
<1>9. PICK next : next = NextLevel(level)
    OBVIOUS
<1>10. /\ Len(next) = (n + 1) \div 2
       /\ \A i \in 1..((n + 1) \div 2) :
             next[i] = IF 2 * i <= n THEN hash_pair(level[2 * i - 1], level[2 * i])
                                     ELSE level[2 * i - 1]
    BY <1>1, <1>9, NextLevelIs
<1>11. next[p] = IF 2 * p <= n THEN hash_pair(level[2 * p - 1], level[2 * p])
                               ELSE level[2 * p - 1]
    BY <1>8, <1>10
<1>12. PICK to : to = PathStep(level, at)
    OBVIOUS
<1>13. /\ to.idx = idx \div 2
       /\ to.proof = IF idx % 2 = 1 THEN Append(proof, level[idx])
                     ELSE IF idx + 1 < n THEN Append(proof, level[idx + 2])
                     ELSE proof
    BY <1>1, <1>2, <1>3, <1>12 DEF PathStep
<1>14. to.idx \in Nat /\ to.idx + 1 = p /\ to.idx + 1 \in 1..Len(next)
    BY <1>6, <1>8, <1>10, <1>13
<1>15. \A x : /\ Tuple(Append(proof, x), m + 1)
              /\ fold_proof(leaf, Append(proof, x)) = hash_pair(level[idx + 1], x)
  <2>1. \A x : Tuple(Append(proof, x), m + 1)
      BY <1>5, AppendIs, Zenon
  <2>2. ASSUME NEW x
        PROVE  fold_proof(leaf, Append(proof, x)) = hash_pair(fold_proof(leaf, proof), x)
      BY <1>5, FoldAppend
  <2> QED
      BY <1>4, <2>1, <2>2, Zenon
<1>16. m + 1 \in Nat /\ \A a, b : hash_pair(a, b) = hash_pair(b, a)
    BY DEF hash_pair
<1>17. (\E k \in Nat : Tuple(to.proof, k)) /\ fold_proof(leaf, to.proof) = next[p]
  <2>1. CASE idx % 2 = 1
    <3>1. to.proof = Append(proof, level[idx])
        BY <1>13, <2>1
    <3>2. next[p] = hash_pair(level[idx], level[idx + 1])
        BY <1>8, <1>11, <2>1
    <3> QED
        BY <1>15, <1>16, <3>1, <3>2
  <2>2. CASE idx % 2 # 1 /\ idx + 1 < n
    <3>1. to.proof = Append(proof, level[idx + 2])
        BY <1>13, <2>2
    <3>2. next[p] = hash_pair(level[idx + 1], level[idx + 2])
        BY <1>8, <1>11, <2>2
    <3> QED
        BY <1>15, <1>16, <3>1, <3>2
  <2>3. CASE idx % 2 # 1 /\ ~(idx + 1 < n)
    <3>1. to.proof = proof
        BY <1>13, <2>3
    <3>2. next[p] = level[idx + 1]
        BY <1>8, <1>11, <2>3
    <3> QED
        BY <1>4, <1>5, <3>1, <3>2
  <2> QED
      BY <2>1, <2>2, <2>3
<1> QED
    BY <1>9, <1>12, <1>14, <1>17 DEF Reaches

\* Every leaf's proof opens the root.
LEMMA ProofOpens ==
    ASSUME NEW levels, NEW d, NEW entries, IsTree(levels, d, entries),
           NEW i \in 1..Len(levels[1])
    PROVE  /\ \E m \in Nat : Tuple(tree_proof(levels, i - 1), m)
           /\ fold_proof(levels[1][i], tree_proof(levels, i - 1)) = tree_root(levels)
<1>1. /\ d \in Nat \ {0} /\ d - 1 \in Nat /\ d \in 1..d /\ 1 \in 1..d
      /\ Tuple(levels, d) /\ Len(levels[d]) = 1
      /\ \A k \in 1..d : Len(levels[k]) \in Nat \ {0}
      /\ \A k \in 1..(d - 1) : levels[k + 1] = NextLevel(levels[k])
    BY DEF IsTree, TreeUpTo
<1>2. Len(levels) = d
    BY <1>1, TupleIs, Zenon
<1>3. tree_depth(levels) = d - 1 /\ tree_root(levels) = levels[d][1]
    BY <1>2 DEF tree_depth, tree_root
<1> DEFINE w == CHOOSE w : Walks(w, levels, i - 1, d - 1)
           leaf == levels[1][i]
           K == {k \in Nat : k <= d - 1 => Reaches(leaf, w[k], levels[k + 1])}
<1>4. Walks(w, levels, i - 1, d - 1)
    BY <1>1, WalkExists
<1>5. tree_proof(levels, i - 1) = w[d - 1].proof
    BY <1>3 DEF tree_proof, Walks, PathStep
<1> HIDE DEF w, leaf
<1>6. /\ w[0] = [idx |-> i - 1, proof |-> <<>>]
      /\ \A k \in 1..(d - 1) : w[k] = PathStep(levels[k], w[k - 1])
    BY <1>1, <1>4, WalksAt
<1>7. 0 \in K
  <2>1. i \in Nat /\ i - 1 \in Nat /\ (i - 1) + 1 = i
      BY <1>1
  <2>2. w[0].idx = i - 1 /\ w[0].proof = <<>>
      BY <1>6
  <2>3. fold_proof(leaf, w[0].proof) = leaf
      BY <2>2, FoldEmpty
  <2>4. Reaches(leaf, w[0], levels[1])
      BY <2>1, <2>2, <2>3, EmptyTuple DEF Reaches, leaf
  <2>5. 0 + 1 = 1
      OBVIOUS
  <2> QED
      BY <2>4, <2>5
<1>8. ASSUME NEW k \in K PROVE k + 1 \in K
  <2>1. SUFFICES ASSUME k + 1 <= d - 1 PROVE Reaches(leaf, w[k + 1], levels[(k + 1) + 1])
      OBVIOUS
  <2>2. k + 1 \in 1..(d - 1) /\ k + 1 \in 1..d /\ (k + 1) - 1 = k /\ k <= d - 1
      BY <1>1, <2>1
  <2>3. Reaches(leaf, w[k], levels[k + 1])
      BY <2>2
  <2>4. w[k + 1] = PathStep(levels[k + 1], w[k]) /\ levels[(k + 1) + 1] = NextLevel(levels[k + 1])
      BY <1>1, <1>6, <2>2
  <2>5. Len(levels[k + 1]) \in Nat \ {0}
      BY <1>1, <2>2
  <2>6. Reaches(leaf, PathStep(levels[k + 1], w[k]), NextLevel(levels[k + 1]))
      BY <2>3, <2>5, PathStepReaches
  <2> QED
      BY <2>4, <2>6
<1>9. Reaches(leaf, w[d - 1], levels[d])
  <2>1. K = Nat
      BY <1>7, <1>8, NatSetInduction
  <2>2. d - 1 \in K /\ (d - 1) + 1 = d /\ d - 1 <= d - 1
      BY <1>1, <2>1
  <2>3. Reaches(leaf, w[d - 1], levels[(d - 1) + 1])
      BY <2>2
  <2> QED
      BY <2>2, <2>3
<1>10. w[d - 1].idx + 1 = 1
    BY <1>1, <1>9 DEF Reaches
<1> QED
    BY <1>3, <1>5, <1>9, <1>10 DEF Reaches, leaf

-----------------------------------------------------------------------------
(***************************************************************************)
(* A root names its leaves.  Hashing being free of collisions, what lies   *)
(* below a node is determined by it, and a leaf is never taken for a       *)
(* parent, so two trees with one root have the same set of leaves.         *)
(***************************************************************************)
Nodes(levels, d) == UNION {{levels[k][i] : i \in 1..Len(levels[k])} : k \in 1..d}

Closed(S) == \A a, b : hash_pair(a, b) \in S => a \in S /\ b \in S

IsLeaf(levels, x) == \E j \in 1..Len(levels[1]) : x = levels[1][j]

IsParent(levels, d, x) == \E a, b \in Nodes(levels, d) : x = hash_pair(a, b)

LEMMA LeafOrParent ==
    ASSUME NEW levels, NEW d, NEW entries, IsTree(levels, d, entries)
    PROVE  \A x \in Nodes(levels, d) : IsLeaf(levels, x) \/ IsParent(levels, d, x)
<1>1. /\ d \in Nat \ {0}
      /\ \A k \in 1..d : Len(levels[k]) \in Nat \ {0}
      /\ \A k \in 1..(d - 1) : levels[k + 1] = NextLevel(levels[k])
    BY DEF IsTree, TreeUpTo
<1> DEFINE Kind(x) == IsLeaf(levels, x) \/ IsParent(levels, d, x)
           K == {k \in Nat : k + 1 <= d => \A i \in 1..Len(levels[k + 1]) : Kind(levels[k + 1][i])}
<1>2. 0 \in K
  <2>1. \A i \in 1..Len(levels[1]) : Kind(levels[1][i])
      BY DEF IsLeaf
  <2>2. 0 + 1 = 1
      OBVIOUS
  <2> HIDE DEF Kind
  <2> QED
      BY <2>1, <2>2
<1>3. ASSUME NEW k \in K PROVE k + 1 \in K
  <2>1. SUFFICES ASSUME (k + 1) + 1 <= d, NEW i \in 1..Len(levels[(k + 1) + 1])
                 PROVE  Kind(levels[(k + 1) + 1][i])
    <3> HIDE DEF Kind
    <3> QED
        OBVIOUS
  <2>2. k + 1 \in 1..(d - 1) /\ k + 1 \in 1..d /\ k + 1 <= d
      BY <1>1, <2>1
  <2>3. PICK level : level = levels[k + 1]
      OBVIOUS
  <2>4. PICK n \in Nat \ {0} : n = Len(level)
      BY <1>1, <2>2, <2>3
  <2>5. \A j \in 1..n : Kind(level[j]) /\ level[j] \in Nodes(levels, d)
    <3>1. \A j \in 1..n : level[j] \in Nodes(levels, d)
        BY <2>2, <2>3, <2>4 DEF Nodes
    <3> HIDE DEF Kind
    <3> QED
        BY <2>2, <2>3, <2>4, <3>1
  <2>6. PICK next : next = NextLevel(level)
      OBVIOUS
  <2>7. /\ Len(next) = (n + 1) \div 2
        /\ \A j \in 1..((n + 1) \div 2) :
             next[j] = IF 2 * j <= n THEN hash_pair(level[2 * j - 1], level[2 * j])
                                     ELSE level[2 * j - 1]
      BY <2>4, <2>6, NextLevelIs
  <2>8. levels[(k + 1) + 1] = next
      BY <1>1, <2>2, <2>3, <2>6
  <2>9. i \in 1..((n + 1) \div 2)
      BY <2>1, <2>7, <2>8
  <2>10. 2 * i - 1 \in 1..n /\ (2 * i <= n => 2 * i \in 1..n)
      BY <2>9
  <2>11. CASE 2 * i <= n
    <3>1. next[i] = hash_pair(level[2 * i - 1], level[2 * i])
        BY <2>7, <2>9, <2>11
    <3>2. level[2 * i - 1] \in Nodes(levels, d) /\ level[2 * i] \in Nodes(levels, d)
        BY <2>5, <2>10, <2>11
    <3> QED
        BY <2>8, <3>1, <3>2 DEF IsParent
  <2>12. CASE ~(2 * i <= n)
    <3>1. next[i] = level[2 * i - 1]
        BY <2>7, <2>9, <2>12
    <3> HIDE DEF Kind
    <3> QED
        BY <2>5, <2>8, <2>10, <3>1
  <2> QED
      BY <2>11, <2>12
<1>4. K = Nat
  <2> HIDE DEF Kind
  <2> QED
      BY <1>2, <1>3, NatSetInduction
<1>5. SUFFICES ASSUME NEW x \in Nodes(levels, d) PROVE Kind(x)
    OBVIOUS
<1>6. PICK k \in 1..d : \E i \in 1..Len(levels[k]) : x = levels[k][i]
    BY DEF Nodes
<1>7. k - 1 \in Nat /\ (k - 1) + 1 = k /\ k <= d
    BY <1>1
<1>8. \A i \in 1..Len(levels[k]) : Kind(levels[k][i])
  <2> HIDE DEF Kind
  <2>1. k - 1 \in K
      BY <1>4, <1>7
  <2>2. \A i \in 1..Len(levels[(k - 1) + 1]) : Kind(levels[(k - 1) + 1][i])
      BY <1>7, <2>1
  <2> QED
      BY <1>7, <2>2
<1> HIDE DEF Kind
<1> QED
    BY <1>6, <1>8

LEMMA LeafIsNoParent ==
    ASSUME NEW o, NEW b, NEW x, NEW y
    PROVE  compute_leaf(o, b) # hash_pair(x, y)
<1>1. DOMAIN compute_leaf(o, b) = {"owner", "lp_balance"}
    BY DEF compute_leaf
<1>2. DOMAIN hash_pair(x, y) = {"children"}
    BY DEF hash_pair
<1>3. "children" \notin {"owner", "lp_balance"}
    OBVIOUS
<1> QED
    BY <1>1, <1>2, <1>3

LEMMA PairsOf ==
    ASSUME NEW a, NEW b, NEW x, NEW y, hash_pair(a, b) = hash_pair(x, y), NEW S, x \in S, y \in S
    PROVE  a \in S /\ b \in S
<1>1. hash_pair(a, b).children = hash_pair(x, y).children
    OBVIOUS
<1>2. {a, b} = {x, y}
    BY <1>1 DEF hash_pair
<1> QED
    BY <1>2

\* The leaves of a tree, as the leaf level has them.
LEMMA LeavesAre ==
    ASSUME NEW n \in Nat, NEW entries, Tuple(entries, n), NEW levels, NEW d,
           IsTree(levels, d, entries)
    PROVE  /\ Len(levels[1]) = n
           /\ \A i \in 1..n :
                 levels[1][i] = compute_leaf(entries[i].owner, entries[i].lp_balance)
<1>1. levels[1] = LeafLevel(entries)
    BY DEF IsTree, TreeUpTo
<1> QED
    BY <1>1, LeafLevelIs

LEMMA NodesClosed ==
    ASSUME NEW n \in Nat, NEW entries, Tuple(entries, n), NEW levels, NEW d,
           IsTree(levels, d, entries)
    PROVE  Closed(Nodes(levels, d))
<1> SUFFICES ASSUME NEW a, NEW b, hash_pair(a, b) \in Nodes(levels, d)
             PROVE  a \in Nodes(levels, d) /\ b \in Nodes(levels, d)
    BY DEF Closed
<1>1. ~IsLeaf(levels, hash_pair(a, b))
    BY LeavesAre, LeafIsNoParent DEF IsLeaf
<1>2. PICK x, y \in Nodes(levels, d) : hash_pair(a, b) = hash_pair(x, y)
    BY <1>1, LeafOrParent DEF IsParent
<1> QED
    BY <1>2, PairsOf

\* A closed set that holds the root holds every leaf.
LEMMA LeavesBelow ==
    ASSUME NEW levels, NEW d, NEW entries, IsTree(levels, d, entries),
           NEW S, Closed(S), tree_root(levels) \in S
    PROVE  \A i \in 1..Len(levels[1]) : levels[1][i] \in S
<1>1. /\ d \in Nat \ {0} /\ Tuple(levels, d) /\ Len(levels[d]) = 1
      /\ \A k \in 1..d : Len(levels[k]) \in Nat \ {0}
      /\ \A k \in 1..(d - 1) : levels[k + 1] = NextLevel(levels[k])
    BY DEF IsTree, TreeUpTo
<1>2. Len(levels) = d
    BY <1>1, TupleIs, Zenon
<1> DEFINE In(k) == \A i \in 1..Len(levels[k]) : levels[k][i] \in S
           K == {k \in Nat : k <= d - 1 => In(d - k)}
<1>3. 0 \in K
  <2>1. levels[d][1] \in S
      BY <1>2 DEF tree_root
  <2>2. In(d)
    <3>1. \A i \in 1..1 : i = 1
        OBVIOUS
    <3> QED
        BY <1>1, <2>1, <3>1
  <2>3. d - 0 = d
      BY <1>1
  <2> HIDE DEF In
  <2> QED
      BY <2>2, <2>3
<1>4. ASSUME NEW k \in K PROVE k + 1 \in K
  <2>1. SUFFICES ASSUME k + 1 <= d - 1 PROVE In(d - (k + 1))
    <3> HIDE DEF In
    <3> QED
        OBVIOUS
  <2>2. PICK l : l = d - (k + 1)
      OBVIOUS
  <2>3. l \in 1..(d - 1) /\ l \in 1..d /\ l + 1 = d - k /\ k <= d - 1
      BY <1>1, <2>1, <2>2
  <2>4. PICK level : level = levels[l]
      OBVIOUS
  <2>5. PICK n \in Nat \ {0} : n = Len(level)
      BY <1>1, <2>3, <2>4
  <2>6. PICK next : next = NextLevel(level)
      OBVIOUS
  <2>7. /\ Len(next) = (n + 1) \div 2
        /\ \A j \in 1..((n + 1) \div 2) :
             next[j] = IF 2 * j <= n THEN hash_pair(level[2 * j - 1], level[2 * j])
                                     ELSE level[2 * j - 1]
      BY <2>5, <2>6, NextLevelIs
  <2>8. levels[l + 1] = next
      BY <1>1, <2>3, <2>4, <2>6
  <2>9. \A j \in 1..((n + 1) \div 2) : next[j] \in S
    <3>1. In(d - k)
      <4> HIDE DEF In
      <4> QED
          BY <2>3
    <3>2. In(l + 1)
        BY <2>3, <3>1
    <3> QED
        BY <2>7, <2>8, <3>2
  <2>10. ASSUME NEW i \in 1..n PROVE level[i] \in S
    <3>1. PICK p : p = (i + 1) \div 2
        OBVIOUS
    <3>2. p \in 1..((n + 1) \div 2) /\ (i = 2 * p - 1 \/ i = 2 * p)
        BY <3>1
    <3>3. next[p] \in S /\ next[p] = IF 2 * p <= n THEN hash_pair(level[2 * p - 1], level[2 * p])
                                                   ELSE level[2 * p - 1]
        BY <2>7, <2>9, <3>2
    <3>4. CASE 2 * p <= n
      <4>1. level[2 * p - 1] \in S /\ level[2 * p] \in S
          BY <3>3, <3>4 DEF Closed
      <4> QED
          BY <3>2, <4>1
    <3>5. CASE ~(2 * p <= n)
      <4>1. i = 2 * p - 1
          BY <3>2, <3>5
      <4> QED
          BY <3>3, <3>5, <4>1
    <3> QED
        BY <3>4, <3>5
  <2>11. In(l)
      BY <2>4, <2>5, <2>10
  <2> HIDE DEF In
  <2> QED
      BY <2>2, <2>11
<1>5. K = Nat
  <2> HIDE DEF In
  <2> QED
      BY <1>3, <1>4, NatSetInduction
<1>6. In(1)
  <2> HIDE DEF In
  <2>0. d - 1 \in Nat /\ d - 1 <= d - 1 /\ d - (d - 1) = 1
      BY <1>1
  <2>1. d - 1 \in K /\ d - 1 <= d - 1 /\ d - (d - 1) = 1
      BY <1>5, <2>0
  <2>2. In(d - (d - 1))
      BY <2>1
  <2> QED
      BY <2>1, <2>2
<1> QED
    BY <1>6

LEMMA SameRootSameLeaves ==
    ASSUME NEW m \in Nat, NEW e, Tuple(e, m), NEW s, NEW c, IsTree(s, c, e),
           NEW n \in Nat, NEW f, Tuple(f, n), NEW t, NEW d, IsTree(t, d, f),
           tree_root(s) = tree_root(t)
    PROVE  \A i \in 1..m : \E j \in 1..n :
              e[i].owner = f[j].owner /\ e[i].lp_balance = f[j].lp_balance
<1>1. Closed(Nodes(t, d))
    BY NodesClosed
<1>2. tree_root(t) \in Nodes(t, d)
  <2>1. d \in Nat \ {0} /\ Tuple(t, d) /\ Len(t[d]) = 1
      BY DEF IsTree, TreeUpTo
  <2>2. Len(t) = d
      BY <2>1, TupleIs, Zenon
  <2>3. d \in 1..d /\ 1 \in 1..1
      BY <2>1
  <2>4. t[d][1] \in Nodes(t, d)
      BY <2>1, <2>3 DEF Nodes
  <2> QED
      BY <2>2, <2>4 DEF tree_root
<1>3. tree_root(s) \in Nodes(t, d)
    BY <1>2
<1>4. \A i \in 1..Len(s[1]) : s[1][i] \in Nodes(t, d)
    BY <1>1, <1>3, LeavesBelow
<1>5. /\ Len(s[1]) = m
      /\ \A i \in 1..m : s[1][i] = compute_leaf(e[i].owner, e[i].lp_balance)
    BY LeavesAre
<1>6. /\ Len(t[1]) = n
      /\ \A j \in 1..n : t[1][j] = compute_leaf(f[j].owner, f[j].lp_balance)
    BY LeavesAre
<1>7. SUFFICES ASSUME NEW i \in 1..m
               PROVE  \E j \in 1..n : e[i].owner = f[j].owner /\ e[i].lp_balance = f[j].lp_balance
    OBVIOUS
<1>8. PICK x : x = s[1][i]
    OBVIOUS
<1>9. x \in Nodes(t, d) /\ x = compute_leaf(e[i].owner, e[i].lp_balance)
    BY <1>4, <1>5, <1>8
<1>10. IsLeaf(t, x)
    BY <1>9, LeafOrParent, LeafIsNoParent DEF IsParent
<1>11. PICK j \in 1..n : x = compute_leaf(f[j].owner, f[j].lp_balance)
    BY <1>6, <1>10 DEF IsLeaf
<1>12. compute_leaf(e[i].owner, e[i].lp_balance) = compute_leaf(f[j].owner, f[j].lp_balance)
    BY <1>9, <1>11
<1>13. \A o, b, p, q : compute_leaf(o, b) = compute_leaf(p, q) => o = p /\ b = q
    BY DEF compute_leaf
<1>14. e[i].owner = f[j].owner /\ e[i].lp_balance = f[j].lp_balance
    BY <1>12, <1>13
<1> QED
    BY <1>14

-----------------------------------------------------------------------------
(***************************************************************************)
(* Canonical entry sets.                                                   *)
(***************************************************************************)
Numbered(entries, n) == \A i \in 1..n : entries[i].owner \in Nat

LEMMA NonEmpty ==
    ASSUME NEW n \in Nat, NEW e, Tuple(e, n), validate_entries(e)
    PROVE  n # 0
<1>1. SUFFICES ASSUME n = 0 PROVE FALSE
    OBVIOUS
<1>2. e = [i \in 1..0 |-> e[i]]
    BY <1>1 DEF Tuple
<1>3. e = <<>>
    BY <1>2
<1> QED
    BY <1>3 DEF validate_entries

LEMMA Ascending ==
    ASSUME NEW n \in Nat, NEW e, Tuple(e, n), Numbered(e, n), validate_entries(e)
    PROVE  /\ n # 0
           /\ \A i, j \in 1..n : i < j => e[i].owner < e[j].owner
<1>1. Len(e) = n
    BY TupleIs, Zenon
<1>2. e # <<>> /\ \A i \in 1..(n - 1) : e[i].owner < e[i + 1].owner
    BY <1>1 DEF validate_entries
<1>3. n # 0
    BY NonEmpty
<1> DEFINE Above(j) == \A i \in 1..n : i < j => e[i].owner < e[j].owner
           K == {k \in Nat : k + 1 <= n => Above(k + 1)}
<1>4. 0 \in K
    OBVIOUS
<1>5. ASSUME NEW k \in K PROVE k + 1 \in K
  <2>1. SUFFICES ASSUME (k + 1) + 1 <= n PROVE Above((k + 1) + 1)
    <3> HIDE DEF Above
    <3> QED
        OBVIOUS
  <2>2. k + 1 \in 1..(n - 1) /\ k + 1 <= n /\ k + 1 \in 1..n /\ (k + 1) + 1 \in 1..n
      BY <2>1
  <2>3. Above(k + 1)
    <3> HIDE DEF Above
    <3> QED
        BY <2>2
  <2>4. PICK x \in Nat : x = e[k + 1].owner
      BY <2>2 DEF Numbered
  <2>5. PICK y \in Nat : y = e[(k + 1) + 1].owner
      BY <2>2 DEF Numbered
  <2>6. x < y
      BY <1>2, <2>2, <2>4, <2>5
  <2>7. ASSUME NEW i \in 1..n, i < (k + 1) + 1 PROVE e[i].owner < y
    <3>1. PICK z \in Nat : z = e[i].owner
        BY DEF Numbered
    <3>2. i = k + 1 \/ i < k + 1
        BY <2>7
    <3>3. z = x \/ z < x
        BY <2>3, <2>4, <3>1, <3>2
    <3>4. z < y
        BY <2>6, <3>3
    <3> QED
        BY <3>1, <3>4
  <2> QED
      BY <2>5, <2>7
<1>6. K = Nat
  <2> HIDE DEF Above
  <2> QED
      BY <1>4, <1>5, NatSetInduction
<1>7. ASSUME NEW i \in 1..n, NEW j \in 1..n, i < j PROVE e[i].owner < e[j].owner
  <2>1. j - 1 \in Nat /\ (j - 1) + 1 = j /\ j <= n
      OBVIOUS
  <2>2. Above(j)
    <3> HIDE DEF Above
    <3>1. j - 1 \in K
        BY <1>6, <2>1
    <3>2. Above((j - 1) + 1)
        BY <2>1, <3>1
    <3> QED
        BY <2>1, <3>2
  <2> QED
      BY <1>7, <2>2
<1> QED
    BY <1>3, <1>7

\* An owner has one entry.
LEMMA OwnersDistinct ==
    ASSUME NEW n \in Nat, NEW e, Tuple(e, n), Numbered(e, n), validate_entries(e),
           NEW i \in 1..n, NEW j \in 1..n, e[i].owner = e[j].owner
    PROVE  i = j
<1>1. PICK x \in Nat : x = e[i].owner /\ x = e[j].owner
    BY DEF Numbered
<1>2. ~(x < x) /\ (i < j \/ j < i \/ i = j)
    BY <1>1
<1>3. ~(i < j) /\ ~(j < i)
    BY <1>1, <1>2, Ascending
<1> QED
    BY <1>2, <1>3

Entry(e, i, f, j) == e[i].owner = f[j].owner /\ e[i].lp_balance = f[j].lp_balance

\* Two canonical sequences with the same entries agree from the start.
LEMMA AgreeSoFar ==
    ASSUME NEW m \in Nat, NEW e, Tuple(e, m), Numbered(e, m), validate_entries(e),
           NEW n \in Nat, NEW f, Tuple(f, n), Numbered(f, n), validate_entries(f),
           \A i \in 1..m : \E j \in 1..n : Entry(e, i, f, j),
           \A j \in 1..n : \E i \in 1..m : Entry(f, j, e, i)
    PROVE  m <= n /\ \A i \in 1..m : Entry(e, i, f, i)
<1> DEFINE K == {k \in Nat : k <= m => k <= n /\ \A i \in 1..k : Entry(e, i, f, i)}
<1>1. 0 \in K
    OBVIOUS
<1>2. ASSUME NEW k \in K PROVE k + 1 \in K
  <2>1. SUFFICES ASSUME k + 1 <= m
                 PROVE  k + 1 <= n /\ \A i \in 1..(k + 1) : Entry(e, i, f, i)
      OBVIOUS
  <2>2. k \in Nat /\ k <= n /\ \A i \in 1..k : Entry(e, i, f, i)
      BY <2>1
  <2>3. k + 1 \in 1..m /\ \A i \in 1..k : i \in 1..m /\ i \in 1..n
      BY <2>1, <2>2
  <2>4. PICK j \in 1..n : Entry(e, k + 1, f, j)
      BY <2>3
  <2>5. j >= k + 1
    <3>1. SUFFICES ASSUME j \in 1..k PROVE FALSE
        BY <2>2
    <3>2. e[j].owner = f[j].owner /\ e[k + 1].owner = f[j].owner
        BY <2>2, <2>4, <3>1 DEF Entry
    <3>3. e[j].owner = e[k + 1].owner
        BY <3>2
    <3>4. j = k + 1
        BY <2>3, <3>1, <3>3, OwnersDistinct
    <3> QED
        BY <2>2, <3>1, <3>4
  <2>6. k + 1 \in 1..n /\ k + 1 <= n
      BY <2>2, <2>5
  <2>7. PICK i \in 1..m : Entry(f, k + 1, e, i)
      BY <2>6
  <2>8. i >= k + 1
    <3>1. SUFFICES ASSUME i \in 1..k PROVE FALSE
        BY <2>2
    <3>2. e[i].owner = f[i].owner /\ f[k + 1].owner = e[i].owner
        BY <2>2, <2>7, <3>1 DEF Entry
    <3>3. f[i].owner = f[k + 1].owner
        BY <3>2
    <3>4. i = k + 1
        BY <2>3, <2>6, <3>1, <3>3, OwnersDistinct
    <3> QED
        BY <2>2, <3>1, <3>4
  <2>9. PICK x \in Nat : x = e[k + 1].owner /\ x = f[j].owner
      BY <2>3, <2>4 DEF Entry, Numbered
  <2>10. PICK y \in Nat : y = f[k + 1].owner /\ y = e[i].owner
      BY <2>6, <2>7 DEF Entry, Numbered
  <2>11. j = k + 1
    <3>1. k + 1 = i \/ k + 1 < i
        BY <2>2, <2>8
    <3>2. k + 1 < i => x < y
        BY <2>3, <2>9, <2>10, Ascending
    <3>3. k + 1 = i => x = y
        BY <2>9, <2>10
    <3>4. k + 1 < j => y < x
        BY <2>6, <2>9, <2>10, Ascending
    <3>5. ~(k + 1 < j)
        BY <3>1, <3>2, <3>3, <3>4
    <3> QED
        BY <2>2, <2>5, <3>5
  <2>12. Entry(e, k + 1, f, k + 1)
      BY <2>4, <2>11
  <2>13. \A l \in 1..(k + 1) : l = k + 1 \/ l \in 1..k
      BY <2>2
  <2> QED
      BY <2>2, <2>6, <2>12, <2>13
<1>3. K = Nat
    BY <1>1, <1>2, NatSetInduction
<1>4. m \in K
    BY <1>3
<1> QED
    BY <1>4

\* The root commits to the whole canonical entry set.
LEMMA RootCommits ==
    ASSUME NEW m \in Nat, NEW e, Tuple(e, m), validate_entries(e),
           NEW n \in Nat, NEW f, Tuple(f, n), validate_entries(f), Numbered(f, n),
           tree_root(from_entries(e)) = tree_root(from_entries(f))
    PROVE  m = n /\ \A i \in 1..n : Entry(e, i, f, i)
<1>0. m # 0 /\ n # 0
    BY NonEmpty
<1>1. PICK c : IsTree(from_entries(e), c, e)
    BY <1>0, TreeIs
<1>2. PICK d : IsTree(from_entries(f), d, f)
    BY <1>0, TreeIs
<1>3. \A i \in 1..m : \E j \in 1..n : Entry(e, i, f, j)
    BY <1>1, <1>2, SameRootSameLeaves DEF Entry
<1>4. \A j \in 1..n : \E i \in 1..m : Entry(f, j, e, i)
    BY <1>1, <1>2, SameRootSameLeaves DEF Entry
<1>5. Numbered(e, m)
    BY <1>3 DEF Numbered, Entry
<1>6. m <= n
    BY <1>3, <1>4, <1>5, AgreeSoFar
<1>7. n <= m /\ \A i \in 1..n : Entry(f, i, e, i)
    BY <1>3, <1>4, <1>5, AgreeSoFar
<1>8. m = n
    BY <1>6, <1>7
<1> QED
    BY <1>7, <1>8 DEF Entry

\* A proof opens the root for its own leaf and for no other holder's.
LEMMA OpensOwnLeafOnly ==
    ASSUME NEW n \in Nat, NEW e, Tuple(e, n), validate_entries(e), Numbered(e, n),
           NEW i \in 1..n, NEW j \in 1..n
    PROVE  verify_proof(tree_root(from_entries(e)),
                        compute_leaf(e[i].owner, e[i].lp_balance),
                        tree_proof(from_entries(e), j - 1))
           <=> i = j
<1>0. n # 0
    BY NonEmpty
<1>1. PICK t : t = from_entries(e)
    OBVIOUS
<1>2. PICK d : IsTree(t, d, e)
    BY <1>0, <1>1, TreeIs
<1>3. /\ Len(t[1]) = n
      /\ \A k \in 1..n : t[1][k] = compute_leaf(e[k].owner, e[k].lp_balance)
    BY <1>2, LeavesAre
<1>4. PICK p : p = tree_proof(t, j - 1)
    OBVIOUS
<1>5. j \in 1..Len(t[1])
    BY <1>3
<1>6. (\E m \in Nat : Tuple(p, m)) /\ fold_proof(t[1][j], p) = tree_root(t)
    BY <1>2, <1>4, <1>5, ProofOpens
<1>7. PICK m \in Nat : Tuple(p, m)
    BY <1>6
<1>8. i = j => fold_proof(t[1][i], p) = tree_root(t)
    BY <1>6
<1>9. ASSUME fold_proof(t[1][i], p) = tree_root(t) PROVE i = j
  <2>1. fold_proof(t[1][i], p) = fold_proof(t[1][j], p)
      BY <1>6, <1>9
  <2>2. t[1][i] = t[1][j]
      BY <1>7, <2>1, FoldInjective
  <2>3. compute_leaf(e[i].owner, e[i].lp_balance) = compute_leaf(e[j].owner, e[j].lp_balance)
      BY <1>3, <2>2
  <2>4. e[i].owner = e[j].owner
      BY <2>3 DEF compute_leaf
  <2> QED
      BY <2>4, OwnersDistinct
<1> QED
    BY <1>1, <1>3, <1>4, <1>8, <1>9 DEF verify_proof

-----------------------------------------------------------------------------
(***************************************************************************)
(* The artifact and its copies.  verify_integrity derives everything from  *)
(* the persisted claims again, so what it accepts under one root is one    *)
(* set of entries.                                                         *)
(***************************************************************************)
Claims(art) ==
    [i \in DOMAIN art.entries |->
        [owner |-> art.entries[i].owner, lp_balance |-> art.entries[i].lp_balance]]

WholeEntry(x) ==
    x = [owner |-> x.owner, lp_balance |-> x.lp_balance, leaf |-> x.leaf, proof |-> x.proof]

\* n entries, each with the fields of a SnapshotEntry.
Shaped(entries, n) == Tuple(entries, n) /\ \A i \in 1..n : WholeEntry(entries[i])

\* What verify_integrity establishes about n entries and the claims e in them.
Derives(art, n, e) ==
    /\ Tuple(e, n) /\ validate_entries(e)
    /\ tree_root(from_entries(e)) = art.merkle_root
    /\ \A i \in 1..n : /\ e[i].owner = art.entries[i].owner
                       /\ e[i].lp_balance = art.entries[i].lp_balance
                       /\ art.entries[i].leaf = from_entries(e)[1][i]
                       /\ art.entries[i].proof = tree_proof(from_entries(e), i - 1)

LEMMA IntegrityDerives ==
    ASSUME NEW art, NEW n \in Nat, Tuple(art.entries, n), verify_integrity(art),
           NEW e, e = Claims(art)
    PROVE  Derives(art, n, e)
<1>1. DOMAIN art.entries = 1..n
    BY DEF Tuple
<1>2. e = [i \in 1..n |->
              [owner |-> art.entries[i].owner, lp_balance |-> art.entries[i].lp_balance]]
    BY <1>1 DEF Claims
<1>3. Tuple(e, n) /\ DOMAIN e = 1..n
    BY <1>2 DEF Tuple
<1>4. \A i \in 1..n : e[i].owner = art.entries[i].owner
                      /\ e[i].lp_balance = art.entries[i].lp_balance
    BY <1>2
<1>5. /\ validate_entries(e)
      /\ tree_root(from_entries(e)) = art.merkle_root
      /\ \A i \in DOMAIN e : /\ art.entries[i].leaf = from_entries(e)[1][i]
                             /\ art.entries[i].proof = tree_proof(from_entries(e), i - 1)
    BY Zenon DEF verify_integrity, Claims
<1> QED
    BY <1>3, <1>4, <1>5 DEF Derives

LEMMA SameRootSameEntries ==
    ASSUME NEW art, NEW m \in Nat, Shaped(art.entries, m), verify_integrity(art),
           NEW brt, NEW n \in Nat, Shaped(brt.entries, n), verify_integrity(brt),
           Numbered(brt.entries, n), art.merkle_root = brt.merkle_root
    PROVE  art.entries = brt.entries
<1>1. PICK e : e = Claims(art)
    OBVIOUS
<1>2. PICK f : f = Claims(brt)
    OBVIOUS
<1>3. Tuple(art.entries, m) /\ Tuple(brt.entries, n)
    BY DEF Shaped
<1>4. /\ Tuple(e, m) /\ validate_entries(e)
      /\ tree_root(from_entries(e)) = art.merkle_root
      /\ \A i \in 1..m : /\ e[i].owner = art.entries[i].owner
                         /\ e[i].lp_balance = art.entries[i].lp_balance
                         /\ art.entries[i].leaf = from_entries(e)[1][i]
                         /\ art.entries[i].proof = tree_proof(from_entries(e), i - 1)
  <2>1. Derives(art, m, e)
      BY <1>1, <1>3, IntegrityDerives
  <2> QED
      BY <2>1 DEF Derives
<1>5. /\ Tuple(f, n) /\ validate_entries(f)
      /\ tree_root(from_entries(f)) = brt.merkle_root
      /\ \A i \in 1..n : /\ f[i].owner = brt.entries[i].owner
                         /\ f[i].lp_balance = brt.entries[i].lp_balance
                         /\ brt.entries[i].leaf = from_entries(f)[1][i]
                         /\ brt.entries[i].proof = tree_proof(from_entries(f), i - 1)
  <2>1. Derives(brt, n, f)
      BY <1>2, <1>3, IntegrityDerives
  <2> QED
      BY <2>1 DEF Derives
<1>6. Numbered(f, n)
    BY <1>5 DEF Numbered
<1>7. tree_root(from_entries(e)) = tree_root(from_entries(f))
    BY <1>4, <1>5
<1>8. m = n /\ \A i \in 1..n : Entry(e, i, f, i)
    BY <1>4, <1>5, <1>6, <1>7, RootCommits
<1>9. e = f
  <2>1. DOMAIN art.entries = 1..n /\ DOMAIN brt.entries = 1..n
      BY <1>3, <1>8 DEF Tuple
  <2>2. \A i \in 1..n : art.entries[i].owner = brt.entries[i].owner
                        /\ art.entries[i].lp_balance = brt.entries[i].lp_balance
      BY <1>4, <1>5, <1>8 DEF Entry
  <2> QED
      BY <1>1, <1>2, <2>1, <2>2 DEF Claims
<1>10. ASSUME NEW i \in 1..n PROVE art.entries[i] = brt.entries[i]
  <2>1. PICK x : x = art.entries[i]
      OBVIOUS
  <2>2. PICK y : y = brt.entries[i]
      OBVIOUS
  <2>3. x.owner = y.owner /\ x.lp_balance = y.lp_balance /\ x.leaf = y.leaf /\ x.proof = y.proof
      BY <1>4, <1>5, <1>8, <1>9, <2>1, <2>2
  <2>4. WholeEntry(x) /\ WholeEntry(y)
      BY <1>8, <2>1, <2>2 DEF Shaped
  <2>5. x = y
      BY <2>3, <2>4 DEF WholeEntry
  <2> QED
      BY <2>1, <2>2, <2>5
<1>11. art.entries = [i \in 1..n |-> art.entries[i]] /\ brt.entries = [i \in 1..n |-> brt.entries[i]]
    BY <1>3, <1>8 DEF Tuple
<1> QED
    BY <1>10, <1>11

LEMMA TailIs ==
    ASSUME NEW n \in Nat, n # 0, NEW s, Tuple(s, n)
    PROVE  Tuple(Tail(s), n - 1) /\ \A i \in 1..(n - 1) : Tail(s)[i] = s[i + 1]
<1>1. Len(s) = n
    BY TupleIs, Zenon
<1>2. s \in Seq({s[i] : i \in 1..n})
    BY TupleIs, Zenon
<1>3. PICK R : s \in Seq(R)
    BY <1>2
<1>4. Tail(s) \in Seq(R) /\ Len(Tail(s)) = n - 1 /\ \A i \in 1..(n - 1) : Tail(s)[i] = s[i + 1]
    BY <1>1, <1>3
<1>5. PICK t : t = Tail(s)
    OBVIOUS
<1>6. t \in Seq(R) /\ Len(t) = n - 1
    BY <1>4, <1>5
<1>7. t = [i \in 1..(n - 1) |-> t[i]]
    BY <1>6
<1> QED
    BY <1>4, <1>5, <1>7 DEF Tuple

\* Whatever the reader finds has entries of the right shape, unless it does not parse.
LEMMA ContentsShaped ==
    ASSUME NEW art, NEW R, art \in [format_version : R, snapshot_slot : R,
                                    lp_total_supply_at_snapshot : R, merkle_root : R,
                                    leaf_count : R, tree_depth : R, entries : R,
                                    reconciliation : R],
           NEW n \in Nat, n # 0, Shaped(art.entries, n),
           NEW content \in FileContents(art), content # None
    PROVE  \E m \in Nat : Shaped(content.entries, m)
<1>1. PICK es : es = art.entries
    OBVIOUS
<1>2. Tuple(es, n) /\ DOMAIN es = 1..n /\ \A i \in 1..n : WholeEntry(es[i])
    BY <1>1 DEF Shaped, Tuple
<1>3. ASSUME NEW i \in 1..n, NEW x, WholeEntry(x) PROVE Shaped([es EXCEPT ![i] = x], n)
  <2>1. \A j \in 1..n : [es EXCEPT ![i] = x][j] = IF j = i THEN x ELSE es[j]
      BY <1>2
  <2>2. [es EXCEPT ![i] = x] = [j \in 1..n |-> [es EXCEPT ![i] = x][j]]
      BY <1>2
  <2> QED
      BY <1>2, <1>3, <2>1, <2>2 DEF Shaped, Tuple
<1>4. ASSUME NEW x, WholeEntry(x), NEW v
      PROVE  /\ WholeEntry([x EXCEPT !.lp_balance = v])
             /\ WholeEntry([x EXCEPT !.leaf = v])
             /\ WholeEntry([x EXCEPT !.proof = v])
    BY <1>4 DEF WholeEntry
<1>5. {1, Len(es)} \subseteq 1..n
  <2>1. Len(es) = n
      BY <1>2, TupleIs, Zenon
  <2> QED
      BY <2>1
<1>6. \/ content.entries = es
      \/ content.entries = Tail(es)
      \/ \E i \in {1, Len(es)} : \E v : \/ content.entries = [es EXCEPT ![i] = [es[i] EXCEPT !.lp_balance = v]]
                                        \/ content.entries = [es EXCEPT ![i] = [es[i] EXCEPT !.leaf = v]]
                                        \/ content.entries = [es EXCEPT ![i] = [es[i] EXCEPT !.proof = v]]
  <2>1. \A v : /\ [art EXCEPT !.format_version = v].entries = es
               /\ [art EXCEPT !.merkle_root = v].entries = es
               /\ [art EXCEPT !.leaf_count = v].entries = es
               /\ [art EXCEPT !.tree_depth = v].entries = es
               /\ [art EXCEPT !.lp_total_supply_at_snapshot = v].entries = es
      BY <1>1
  <2>2. \A v : /\ [art EXCEPT !.reconciliation.entries_total = v].entries = es
               /\ [art EXCEPT !.reconciliation.enumerated_total = v].entries = es
      BY <1>1
  <2>3. [art EXCEPT !.entries = Tail(@)].entries = Tail(es)
      BY <1>1
  <2>4. \/ content \in {art,
                        [art EXCEPT !.format_version = 0],
                        [art EXCEPT !.merkle_root = art.entries[1].leaf],
                        [art EXCEPT !.leaf_count = @ + 1],
                        [art EXCEPT !.tree_depth = @ + 1],
                        [art EXCEPT !.entries = Tail(@)],
                        [art EXCEPT !.reconciliation.entries_total = @ + 1],
                        [art EXCEPT !.reconciliation.enumerated_total = @ + 1],
                        [art EXCEPT !.lp_total_supply_at_snapshot = @ + 1]}
        \/ \E i \in {1, Len(art.entries)} :
               content \in {[art EXCEPT !.entries[i].lp_balance = @ + 1],
                            [art EXCEPT !.entries[i].proof = <<art.entries[i].leaf>>],
                            [art EXCEPT !.entries[i].leaf = art.merkle_root]}
      BY Zenon DEF FileContents
  <2>5. CASE content \in {art,
                          [art EXCEPT !.format_version = 0],
                          [art EXCEPT !.merkle_root = art.entries[1].leaf],
                          [art EXCEPT !.leaf_count = @ + 1],
                          [art EXCEPT !.tree_depth = @ + 1],
                          [art EXCEPT !.entries = Tail(@)],
                          [art EXCEPT !.reconciliation.entries_total = @ + 1],
                          [art EXCEPT !.reconciliation.enumerated_total = @ + 1],
                          [art EXCEPT !.lp_total_supply_at_snapshot = @ + 1]}
    <3>1. content.entries = es \/ content.entries = Tail(es)
        BY <1>1, <2>1, <2>2, <2>3, <2>5, Zenon
    <3> QED
        BY <3>1, Zenon
  <2>6. ASSUME NEW i \in {1, Len(art.entries)},
               content \in {[art EXCEPT !.entries[i].lp_balance = @ + 1],
                            [art EXCEPT !.entries[i].proof = <<art.entries[i].leaf>>],
                            [art EXCEPT !.entries[i].leaf = art.merkle_root]}
        PROVE  \E v : \/ content.entries = [es EXCEPT ![i] = [es[i] EXCEPT !.lp_balance = v]]
                      \/ content.entries = [es EXCEPT ![i] = [es[i] EXCEPT !.leaf = v]]
                      \/ content.entries = [es EXCEPT ![i] = [es[i] EXCEPT !.proof = v]]
    <3>1. CASE content = [art EXCEPT !.entries[i].lp_balance = @ + 1]
      <4>1. PICK v : v = art.entries[i].lp_balance + 1
          OBVIOUS
      <4>2. content = [art EXCEPT !.entries[i].lp_balance = v]
          BY <3>1, <4>1, Zenon
      <4>3. [art EXCEPT !.entries[i].lp_balance = v].entries
                = [es EXCEPT ![i] = [es[i] EXCEPT !.lp_balance = v]]
          BY <1>1
      <4>4. content.entries = [es EXCEPT ![i] = [es[i] EXCEPT !.lp_balance = v]]
          BY <4>2, <4>3, Zenon
      <4> QED
          BY <4>4, Zenon
    <3>2. CASE content = [art EXCEPT !.entries[i].proof = <<art.entries[i].leaf>>]
      <4>1. PICK v : v = <<art.entries[i].leaf>>
          OBVIOUS
      <4>2. content = [art EXCEPT !.entries[i].proof = v]
          BY <3>2, <4>1, Zenon
      <4>3. [art EXCEPT !.entries[i].proof = v].entries
                = [es EXCEPT ![i] = [es[i] EXCEPT !.proof = v]]
          BY <1>1
      <4>4. content.entries = [es EXCEPT ![i] = [es[i] EXCEPT !.proof = v]]
          BY <4>2, <4>3, Zenon
      <4> QED
          BY <4>4, Zenon
    <3>3. CASE content = [art EXCEPT !.entries[i].leaf = art.merkle_root]
      <4>1. PICK v : v = art.merkle_root
          OBVIOUS
      <4>2. content = [art EXCEPT !.entries[i].leaf = v]
          BY <3>3, <4>1, Zenon
      <4>3. [art EXCEPT !.entries[i].leaf = v].entries
                = [es EXCEPT ![i] = [es[i] EXCEPT !.leaf = v]]
          BY <1>1
      <4>4. content.entries = [es EXCEPT ![i] = [es[i] EXCEPT !.leaf = v]]
          BY <4>2, <4>3, Zenon
      <4> QED
          BY <4>4, Zenon
    <3> QED
        BY <2>6, <3>1, <3>2, <3>3, Zenon
  <2> QED
      BY <1>1, <2>4, <2>5, <2>6, Zenon
<1>7. CASE content.entries = es
    BY <1>1, <1>7
<1>8. CASE content.entries = Tail(es)
  <2>1. n - 1 \in Nat /\ \A i \in 1..(n - 1) : i + 1 \in 1..n
      OBVIOUS
  <2>2. Tuple(Tail(es), n - 1) /\ \A i \in 1..(n - 1) : Tail(es)[i] = es[i + 1]
      BY <1>2, TailIs
  <2>3. Shaped(Tail(es), n - 1)
      BY <1>2, <2>1, <2>2 DEF Shaped
  <2> QED
      BY <1>8, <2>1, <2>3
<1>9. CASE \E i \in {1, Len(es)} : \E v :
              \/ content.entries = [es EXCEPT ![i] = [es[i] EXCEPT !.lp_balance = v]]
              \/ content.entries = [es EXCEPT ![i] = [es[i] EXCEPT !.leaf = v]]
              \/ content.entries = [es EXCEPT ![i] = [es[i] EXCEPT !.proof = v]]
  <2>1. PICK i \in 1..n : \E x : WholeEntry(x) /\ content.entries = [es EXCEPT ![i] = x]
      BY <1>2, <1>4, <1>5, <1>9
  <2> QED
      BY <1>3, <2>1
<1> QED
    BY <1>6, <1>7, <1>8, <1>9

\* An artifact as seal makes it.
LEMMA SealShaped ==
    ASSUME NEW snap \in LpSnapshots, NEW art, art = seal(snap)
    PROVE  /\ \E R : art \in [format_version : R, snapshot_slot : R,
                              lp_total_supply_at_snapshot : R, merkle_root : R,
                              leaf_count : R, tree_depth : R, entries : R,
                              reconciliation : R]
           /\ Shaped(art.entries, Len(snap.entries))
           /\ Numbered(art.entries, Len(snap.entries))
           /\ Len(snap.entries) \in Nat
<1>1. PICK claims \in Seq([owner : Nat, lp_balance : Nat]) : claims = snap.entries
    BY DEF LpSnapshots
<1>2. PICK n \in Nat : n = Len(claims)
    BY <1>1
<1>3. DOMAIN claims = 1..n /\ \A i \in 1..n : claims[i].owner \in Nat
  <2>1. DOMAIN claims = 1..n
      BY <1>2
  <2>2. PICK E : E = [owner : Nat, lp_balance : Nat]
      OBVIOUS
  <2>3. claims \in Seq(E)
      BY <2>2
  <2>4. \A i \in 1..n : claims[i] \in E
      BY <1>2, <2>3
  <2>5. \A c \in E : c.owner \in Nat
      BY <2>2
  <2> QED
      BY <2>1, <2>4, <2>5
<1>4. PICK tree : tree = from_entries(claims)
    OBVIOUS
<1> DEFINE es == [i \in 1..n |-> [owner |-> claims[i].owner, lp_balance |-> claims[i].lp_balance,
                                  leaf |-> tree[1][i], proof |-> tree_proof(tree, i - 1)]]
<1>5. PICK x : x = es
    OBVIOUS
<1>6. art = [format_version |-> ARTIFACT_FORMAT_VERSION,
             snapshot_slot |-> snap.snapshot_slot,
             lp_total_supply_at_snapshot |-> snap.lp_total_supply_at_snapshot,
             merkle_root |-> tree_root(tree),
             leaf_count |-> leaf_count(tree),
             tree_depth |-> tree_depth(tree),
             entries |-> x,
             reconciliation |-> snap.reconciliation]
    BY <1>1, <1>3, <1>4, <1>5 DEF seal
<1>7. Shaped(x, n) /\ Numbered(x, n)
  <2>1. x = [i \in 1..n |-> x[i]]
      BY <1>5
  <2>2. ASSUME NEW i \in 1..n PROVE WholeEntry(x[i]) /\ x[i].owner \in Nat
    <3>1. x[i] = [owner |-> claims[i].owner, lp_balance |-> claims[i].lp_balance,
                  leaf |-> tree[1][i], proof |-> tree_proof(tree, i - 1)]
        BY <1>5
    <3>2. PICK t : t = tree[1][i]
        OBVIOUS
    <3>3. PICK p : p = tree_proof(tree, i - 1)
        OBVIOUS
    <3>4. x[i] = [owner |-> claims[i].owner, lp_balance |-> claims[i].lp_balance,
                  leaf |-> t, proof |-> p]
        BY <3>1, <3>2, <3>3
    <3>5. WholeEntry(x[i])
        BY <3>4 DEF WholeEntry
    <3>6. x[i].owner = claims[i].owner
        BY <3>4
    <3> QED
        BY <1>3, <3>5, <3>6
  <2> QED
      BY <2>1, <2>2 DEF Shaped, Numbered, Tuple
<1>8. art.entries = x
    BY <1>6
<1>9. \E R : art \in [format_version : R, snapshot_slot : R, lp_total_supply_at_snapshot : R,
                       merkle_root : R, leaf_count : R, tree_depth : R, entries : R,
                       reconciliation : R]
  <2> DEFINE R == {ARTIFACT_FORMAT_VERSION, snap.snapshot_slot, snap.lp_total_supply_at_snapshot,
                   tree_root(tree), leaf_count(tree), tree_depth(tree), x, snap.reconciliation}
  <2>1. /\ ARTIFACT_FORMAT_VERSION \in R /\ snap.snapshot_slot \in R
        /\ snap.lp_total_supply_at_snapshot \in R /\ tree_root(tree) \in R
        /\ leaf_count(tree) \in R /\ tree_depth(tree) \in R /\ x \in R
        /\ snap.reconciliation \in R
      BY Zenon
  <2> HIDE DEF R
  <2>2. art \in [format_version : R, snapshot_slot : R, lp_total_supply_at_snapshot : R,
                 merkle_root : R, leaf_count : R, tree_depth : R, entries : R,
                 reconciliation : R]
      BY <1>6, <2>1
  <2> QED
      BY <2>2, Zenon
<1> QED
    BY <1>1, <1>2, <1>7, <1>8, <1>9

\* What is published, sealed and loaded belongs together.
ArtifactInv ==
    /\ phase = "published" => file = seal(snapshot) /\ verify_integrity(file)
    /\ registry # None => registry.lp_snapshot_merkle_root = file.merkle_root
    /\ copy # None =>
          /\ registry # None
          /\ copy.accepted => /\ copy.artifact \in FileContents(file)
                              /\ copy.artifact # None
                              /\ verify_integrity(copy.artifact)

LEMMA InitArtifact ==
    Init => ArtifactInv
BY DEF Init, ArtifactInv

LEMMA NextArtifact ==
    SnapshotterInv /\ ArtifactInv /\ [Next]_vars => ArtifactInv'
<1> SUFFICES ASSUME SnapshotterInv, ArtifactInv, [Next]_vars PROVE ArtifactInv'
    OBVIOUS
<1>1. registry # None => phase = "published"
    BY DEF SnapshotterInv, RegistryInv
<1>2. CASE UNCHANGED <<phase, snapshot, file, copy, registry>>
    BY <1>2 DEF ArtifactInv
<1>3. CASE phase # "published" /\ phase' # "published" /\ UNCHANGED <<copy, registry>>
    BY <1>1, <1>3 DEF ArtifactInv
<1>4. CASE LedgerMoves
  <2>1. PICK st \in LedgerState : LedgerStep(st)
      BY <1>4, LedgerMovesState DEF SnapshotterInv
  <2>2. UNCHANGED <<phase, snapshot, file, copy, registry>>
      BY <2>1 DEF LedgerStep
  <2> QED
      BY <1>2, <2>2
<1>5. CASE ReadSupply \/ ReadAccounts \/ ReadLocksAndBuild
  <2>1. phase # "published" /\ phase' # "published" /\ UNCHANGED <<copy, registry>>
    <3>1. CASE ReadSupply
        BY <3>1 DEF ReadSupply, Abort
    <3>2. CASE ReadAccounts
        BY <3>2 DEF ReadAccounts, Abort
    <3>3. CASE ReadLocksAndBuild
        BY <3>3 DEF ReadLocksAndBuild, Abort
    <3> QED
        BY <1>5, <3>1, <3>2, <3>3
  <2> QED
      BY <1>3, <2>1
<1>6. CASE PublishArtifact
  <2>1. phase = "built" /\ UNCHANGED <<snapshot, copy, registry>>
      BY <1>6 DEF PublishArtifact
  <2>2. registry' = None /\ copy' = None
      BY <1>1, <2>1 DEF ArtifactInv
  <2>3. phase' = "published" => file' = seal(snapshot) /\ verify_integrity(seal(snapshot))
      BY <1>6 DEF PublishArtifact, Abort
  <2> QED
      BY <2>1, <2>2, <2>3 DEF ArtifactInv
<1>7. CASE LoadArtifact
  <2>1. registry # None /\ UNCHANGED <<phase, snapshot, file, registry>>
      BY <1>7 DEF LoadArtifact
  <2>2. PICK content \in FileContents(file) :
            copy' = IF content # None /\ verify_integrity(content)
                      THEN [accepted |-> TRUE, artifact |-> content]
                      ELSE [accepted |-> FALSE, artifact |-> None]
      BY <1>7 DEF LoadArtifact
  <2>3. copy'.accepted => /\ copy'.artifact = content /\ content # None
                          /\ verify_integrity(content)
    <3>1. CASE content # None /\ verify_integrity(content)
        BY <2>2, <3>1
    <3>2. CASE ~(content # None /\ verify_integrity(content))
        BY <2>2, <3>2
    <3> QED
        BY <3>1, <3>2
  <2>4. FileContents(file') = FileContents(file)
      BY <2>1
  <2> QED
      BY <2>1, <2>3, <2>4 DEF ArtifactInv
<1>8. CASE SealRoot
  <2>1. /\ registry = None /\ registry'.lp_snapshot_merkle_root = file.merkle_root
        /\ UNCHANGED <<phase, snapshot, file, copy>>
      BY <1>8 DEF SealRoot
  <2>2. copy' = None
      BY <2>1 DEF ArtifactInv
  <2> QED
      BY <2>1, <2>2 DEF ArtifactInv
<1>9. CASE UNCHANGED vars
    BY <1>2, <1>9 DEF vars
<1> QED
    BY <1>4, <1>5, <1>6, <1>7, <1>8, <1>9 DEF Next

LEMMA AlwaysArtifact ==
    Spec => [](SnapshotterInv /\ ArtifactInv)
BY InitInv, NextInv, InitArtifact, NextArtifact, PTL DEF Spec

(***************************************************************************)
(* The builder's proofs satisfy the verifier, for any number of leaves: an *)
(* entry of a published artifact opens the published root in               *)
(* claim_lp_proceeds with its own proof, and with nobody else's.           *)
(***************************************************************************)
THEOREM EntriesAlwaysOpenTheRoot ==
    Spec => []EveryEntryOpensTheRoot
<1>1. SnapshotterInv /\ ArtifactInv => EveryEntryOpensTheRoot
  <2>1. SUFFICES ASSUME SnapshotterInv, ArtifactInv, file # None,
                        NEW i \in DOMAIN file.entries, NEW j \in DOMAIN file.entries
                 PROVE  verify_proof(file.merkle_root,
                            compute_leaf(file.entries[i].owner, file.entries[i].lp_balance),
                            file.entries[j].proof)
                        <=> i = j
      BY DEF EveryEntryOpensTheRoot
  <2>2. phase = "published" /\ snapshot \in LpSnapshots
      BY <2>1 DEF SnapshotterInv, PhaseInv, SnapshotInv
  <2>3. file = seal(snapshot) /\ verify_integrity(file)
      BY <2>1, <2>2 DEF ArtifactInv
  <2>4. PICK n \in Nat : Shaped(file.entries, n) /\ Numbered(file.entries, n)
      BY <2>2, <2>3, SealShaped
  <2>5. PICK e : e = Claims(file)
      OBVIOUS
  <2>6. Tuple(file.entries, n) /\ DOMAIN file.entries = 1..n
      BY <2>4 DEF Shaped, Tuple
  <2>7. Derives(file, n, e)
      BY <2>3, <2>5, <2>6, IntegrityDerives
  <2>8. /\ Tuple(e, n) /\ validate_entries(e) /\ Numbered(e, n)
        /\ i \in 1..n /\ j \in 1..n
        /\ tree_root(from_entries(e)) = file.merkle_root
        /\ file.entries[i].owner = e[i].owner /\ file.entries[i].lp_balance = e[i].lp_balance
        /\ file.entries[j].proof = tree_proof(from_entries(e), j - 1)
      BY <2>1, <2>4, <2>6, <2>7 DEF Derives, Numbered
  <2>9. verify_proof(tree_root(from_entries(e)), compute_leaf(e[i].owner, e[i].lp_balance),
                     tree_proof(from_entries(e), j - 1))
        <=> i = j
      BY <2>8, OpensOwnLeafOnly
  <2> QED
      BY <2>8, <2>9
<1> QED
    BY <1>1, AlwaysArtifact, PTL

(***************************************************************************)
(* A copy that verify_integrity accepts under the sealed root carries the  *)
(* published claims, however many there are: the root commits to the whole *)
(* canonical entry set, and leaves and proofs are derived from it again.   *)
(***************************************************************************)
THEOREM AcceptedCopyAlwaysAuthentic ==
    Spec => []AcceptedCopyIsAuthentic
<1>1. SnapshotterInv /\ ArtifactInv => AcceptedCopyIsAuthentic
  <2>1. SUFFICES ASSUME SnapshotterInv, ArtifactInv, copy # None, copy.accepted,
                        copy.artifact.merkle_root = registry.lp_snapshot_merkle_root
                 PROVE  copy.artifact.entries = file.entries
      BY DEF AcceptedCopyIsAuthentic
  <2>2. /\ registry # None /\ phase = "published" /\ snapshot \in LpSnapshots
        /\ file = seal(snapshot) /\ verify_integrity(file)
        /\ registry.lp_snapshot_merkle_root = file.merkle_root
      BY <2>1 DEF SnapshotterInv, RegistryInv, SnapshotInv, ArtifactInv
  <2>3. PICK content \in FileContents(file) : /\ content = copy.artifact /\ content # None
                                              /\ verify_integrity(content)
      BY <2>1 DEF ArtifactInv
  <2>4. content.merkle_root = file.merkle_root
      BY <2>1, <2>2, <2>3
  <2>5. PICK n \in Nat : Shaped(file.entries, n) /\ Numbered(file.entries, n)
      BY <2>2, SealShaped
  <2>6. n # 0
    <3>1. Tuple(file.entries, n)
        BY <2>5 DEF Shaped
    <3>2. PICK e : e = Claims(file)
        OBVIOUS
    <3>3. Tuple(e, n) /\ validate_entries(e)
        BY <2>2, <3>1, <3>2, IntegrityDerives DEF Derives
    <3> QED
        BY <3>3, NonEmpty
  <2>7. PICK m \in Nat : Shaped(content.entries, m)
      BY <2>2, <2>3, <2>5, <2>6, SealShaped, ContentsShaped
  <2>8. content.entries = file.entries
      BY <2>2, <2>3, <2>4, <2>5, <2>7, SameRootSameEntries
  <2> QED
      BY <2>3, <2>8
<1> QED
    BY <1>1, AlwaysArtifact, PTL
=============================================================================
