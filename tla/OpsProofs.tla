----------------------------- MODULE OpsProofs ------------------------------
(***************************************************************************)
(* Proofs about Ops, for any number of overlapping sweeps and any dedup    *)
(* window.                                                                 *)
(***************************************************************************)
EXTENDS Ops, TLAPS

Health == [status : ComponentStatus, age : 0 .. FRESHNESS_WINDOW + 1 \cup {None}]

\* Ages saturate where the code stops telling them apart.
LEMMA OlderSaturates ==
    ASSUME NEW oldest \in Nat, NEW age \in 0 .. oldest \cup {None}
    PROVE  /\ Older(age, oldest) \in 0 .. oldest \cup {None}
           /\ age \in 0 .. oldest => Older(age, oldest) \in 0 .. oldest
BY DEF Older

\* Waiting for the next answer, or none.
LEMMA SweepMoves ==
    ASSUME TypeOK, NEW s \in Sweeps, NEW at \in {"nothing", "slot", "accounts", "signatures"},
           sweep' = [sweep EXCEPT ![s] = at]
    PROVE  sweep' \in [Sweeps -> {"nothing", "slot", "accounts", "signatures"}]
BY DEF TypeOK

LEMMA HeartbeatType ==
    ASSUME TypeOK, NEW status \in ComponentStatus, heartbeat(status)
    PROVE  health' \in [Components -> Health]
<1>1. [status |-> status, age |-> 0] \in Health
    BY DEF Health, FRESHNESS_WINDOW
<1> QED
    BY <1>1 DEF TypeOK, heartbeat, Health

LEMMA RaiseType ==
    ASSUME TypeOK, NEW codes, raise(codes)
    PROVE  lastRaise' \in [Codes -> 0 .. DEDUP_WINDOW]
BY OpsAssumption DEF TypeOK, raise

LEMMA InitType == Init => TypeOK
<1> SUFFICES ASSUME Init PROVE TypeOK
    OBVIOUS
<1>1. [status |-> "ok", age |-> None] \in Health
    BY DEF Health, ComponentStatus
<1>2. DEDUP_WINDOW \in 0 .. DEDUP_WINDOW
    BY OpsAssumption
<1> QED
    BY <1>1, <1>2 DEF Init, TypeOK, Health

LEMMA NextType == TypeOK /\ [Next]_vars => TypeOK'
<1> SUFFICES ASSUME TypeOK, [Next]_vars PROVE TypeOK'
    OBVIOUS
<1>1. CASE Tick
  <2>1. sweep' \in [Sweeps -> {"nothing", "slot", "accounts", "signatures"}]
      BY <1>1, SweepMoves DEF Tick, StartSweep
  <2>2. health' \in [Components -> Health]
    <3>1. ASSUME NEW c \in Components
          PROVE  [health[c] EXCEPT !.age = Older(health[c].age, FRESHNESS_WINDOW + 1)]
                     \in Health
      <4>1. health[c] \in Health
          BY DEF TypeOK, Health
      <4>2. health[c].age \in 0 .. FRESHNESS_WINDOW + 1 \cup {None}
          BY <4>1 DEF Health
      <4>3. FRESHNESS_WINDOW + 1 \in Nat
          BY DEF FRESHNESS_WINDOW
      <4>4. Older(health[c].age, FRESHNESS_WINDOW + 1)
                \in 0 .. FRESHNESS_WINDOW + 1 \cup {None}
          BY <4>2, <4>3, OlderSaturates
      <4> QED
          BY <4>1, <4>4 DEF Health
    <3> QED
        BY <1>1, <3>1 DEF Tick
  <2>3. lastRaise' \in [Codes -> 0 .. DEDUP_WINDOW]
    <3>1. \A c \in Codes : Older(lastRaise[c], DEDUP_WINDOW) \in 0 .. DEDUP_WINDOW
        BY OpsAssumption, OlderSaturates DEF TypeOK
    <3> QED
        BY <1>1, <3>1 DEF Tick
  <2> QED
      BY <1>1, <2>1, <2>2, <2>3 DEF Tick, TypeOK, Health
<1>2. ASSUME NEW s \in Sweeps, SweepStep(s) PROVE TypeOK'
  <2>1. sweep' \in [Sweeps -> {"nothing", "slot", "accounts", "signatures"}]
      BY <1>2, SweepMoves DEF SweepStep, getSlot, accountsUnavailable,
         tryDecodeVaultAccountThrows, reconcileAccounts, getRecentSignatures
  <2>2. health' = health \/ \E status \in ComponentStatus : heartbeat(status)
      BY <1>2 DEF SweepStep, getSlot, accountsUnavailable, tryDecodeVaultAccountThrows,
                  reconcileAccounts, getRecentSignatures, ComponentStatus
  <2>3. health' \in [Components -> Health]
      BY <2>2, HeartbeatType DEF TypeOK, Health
  <2>4. lastRaise' = lastRaise \/ \E codes : raise(codes)
      BY <1>2 DEF SweepStep, getSlot, accountsUnavailable, tryDecodeVaultAccountThrows,
                  reconcileAccounts, getRecentSignatures
  <2>5. lastRaise' \in [Codes -> 0 .. DEDUP_WINDOW]
      BY <2>4, RaiseType DEF TypeOK
  <2>6. UNCHANGED <<fault, anomalies, failedTx>>
      BY <1>2 DEF SweepStep, getSlot, accountsUnavailable, tryDecodeVaultAccountThrows,
                  reconcileAccounts, getRecentSignatures
  <2> QED
      BY <2>1, <2>3, <2>5, <2>6 DEF TypeOK, Health
<1>3. CASE EndpointChanges
    BY <1>3 DEF EndpointChanges, TypeOK
<1>4. CASE ChainChanges
    BY <1>4 DEF ChainChanges, TypeOK
<1>5. CASE UNCHANGED vars
    BY <1>5 DEF vars, TypeOK
<1> QED
    BY <1>1, <1>2, <1>3, <1>4, <1>5 DEF Next

(***************************************************************************)
(* Whatever sweeps overlap and whatever the endpoint does, a component's   *)
(* status stays one overallStatus knows and every age stays within what    *)
(* the freshness and dedup windows tell apart: the finite ages the runs    *)
(* explore are all there are.                                              *)
(***************************************************************************)
THEOREM TypeCorrect == FairSpec => []TypeOK
    BY InitType, NextType, PTL DEF FairSpec
=============================================================================
