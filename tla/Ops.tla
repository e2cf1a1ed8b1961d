-------------------------------- MODULE Ops --------------------------------
(***************************************************************************)
(* The vault observer as `graveyield-ops vault-observer --loop` runs it    *)
(* (ops/src): sweeps that a timer starts whether or not the previous one   *)
(* has finished, one health registry and one alert manager between them.   *)
(*                                                                         *)
(* The process is single threaded: between two awaits a sweep runs alone,  *)
(* so the code from the answer of one RPC call to the next call is one     *)
(* action.  What the sweep reads is the chain and the RPC endpoint at the  *)
(* moment of the answer.                                                   *)
(*                                                                         *)
(* Time is counted in poll intervals and kept as ages: the age of the last *)
(* heartbeat and of the last raise of each code, up to the value from      *)
(* which the code no longer tells them apart.  Counters, alert texts and   *)
(* sinks (which never throw into the service) are left out.                *)
(***************************************************************************)
EXTENDS Naturals

CONSTANTS
    None,           \* no heartbeat yet
    Sweeps,         \* sweeps that may be in flight at once
    AnomalyCodes,   \* alert codes the chain's accounts may give reason for
    Faults,         \* what may be wrong at the RPC endpoint, one at a time
    DEDUP_WINDOW    \* alertDedupMs in poll intervals

(***************************************************************************)
(* "receipt-sum-mismatch" is raised for R1/R2 of a receipt,                *)
(* "claim-accounting-anomaly" for C1-C3 of a pool, see VaultReconcile.     *)
(***************************************************************************)
ASSUME OpsAssumption ==
    /\ AnomalyCodes \subseteq {"receipt-sum-mismatch", "claim-accounting-anomaly"}
    /\ Faults \subseteq {"slot", "accounts", "decode", "signatures"}
    /\ DEDUP_WINDOW \in Nat \ {0}

VARIABLES
    fault,          \* the endpoint's present fault, or "none"
    anomalies,      \* codes the accounts on chain presently give reason for
    failedTx,       \* some of the last failedTxSweepLimit signatures failed
    sweep,          \* [Sweeps -> the answer it awaits]
    health,         \* [Components -> [status, age]], the HealthRegistry
    lastRaise       \* [Codes -> age of the code's last raise; a code that was
                    \*  never raised is as old as one raised a window ago]

vars == <<fault, anomalies, failedTx, sweep, health, lastRaise>>

Components == {"indexer", "vault-observer", "merkle"}
Codes == AnomalyCodes \cup {"vault-accounts-unavailable", "vault-tx-failed"}
ComponentStatus == {"ok", "degraded", "down"}

\* Mutant: registered with the interval itself.
FreshnessOfOnePoll == 1

\* register(name, 3 * poll).
FRESHNESS_WINDOW == 3

\* One interval later, up to the oldest age the code tells apart.
Older(age, oldest) == IF age = None \/ age = oldest THEN age ELSE age + 1

TypeOK ==
    /\ fault \in Faults \cup {"none"}
    /\ anomalies \subseteq AnomalyCodes
    /\ failedTx \in BOOLEAN
    /\ sweep \in [Sweeps -> {"nothing", "slot", "accounts", "signatures"}]
    /\ health \in [Components ->
           [status : ComponentStatus, age : 0 .. FRESHNESS_WINDOW + 1 \cup {None}]]
    /\ lastRaise \in [Codes -> 0 .. DEDUP_WINDOW]

-----------------------------------------------------------------------------
(***************************************************************************)
(* health.ts.                                                              *)
(***************************************************************************)
heartbeat(status) ==
    health' = [health EXCEPT !["vault-observer"] = [status |-> status, age |-> 0]]

deriveReportedStatus(c) ==
    IF health[c].age = None THEN "never-reported"
    ELSE IF health[c].age > FRESHNESS_WINDOW THEN "stale"
    ELSE health[c].status

\* The worst reported status wins.
overallStatus ==
    LET reports == {deriveReportedStatus(c) : c \in Components}
    IN  IF "down" \in reports THEN "down"
        ELSE IF reports \subseteq {"ok"} THEN "ok"
        ELSE "degraded"

-----------------------------------------------------------------------------
(***************************************************************************)
(* alerts.ts.  The same code is raised once per anomalous account; within  *)
(* one action the first raise decides, the others fall into its window.    *)
(***************************************************************************)
Suppressed(code) == lastRaise[code] < DEDUP_WINDOW

\* Mutant: a suppressed raise leaves the code's time of last raise alone.
raiseRestartingNothing(codes) ==
    lastRaise' = [c \in Codes |->
                    IF c \in codes /\ ~Suppressed(c) THEN 0 ELSE lastRaise[c]]

\* Every raise restarts the code's window, a suppressed one too.
raise(codes) ==
    lastRaise' = [c \in Codes |-> IF c \in codes THEN 0 ELSE lastRaise[c]]

-----------------------------------------------------------------------------
(***************************************************************************)
(* vaultObserver.ts, runOnce.                                              *)
(***************************************************************************)
Init ==
    /\ fault = "none"
    /\ anomalies = {}
    /\ failedTx = FALSE
    /\ sweep = [s \in Sweeps |-> "nothing"]
    /\ health = [c \in Components |-> [status |-> "ok", age |-> None]]
    /\ lastRaise = [c \in Codes |-> DEDUP_WINDOW]

StartSweep(s) ==
    /\ sweep[s] = "nothing"
    /\ sweep' = [sweep EXCEPT ![s] = "slot"]

(***************************************************************************)
(* A poll interval passes and setInterval starts a sweep.  That a sweep is *)
(* idle then bounds how slow the endpoint may be, in poll intervals.       *)
(***************************************************************************)
Tick ==
    /\ \E s \in Sweeps : StartSweep(s)
    /\ health' = [c \in Components |->
           [health[c] EXCEPT !.age = Older(@, FRESHNESS_WINDOW + 1)]]
    /\ lastRaise' = [c \in Codes |-> Older(lastRaise[c], DEDUP_WINDOW)]
    /\ UNCHANGED <<fault, anomalies, failedTx>>

(***************************************************************************)
(* connectionChainView answers null for a slot it cannot get, it does not  *)
(* throw: a missing slot does not degrade the sweep, and what is left of   *)
(* the flag is decided by the signatures alone.                            *)
(***************************************************************************)
getSlot(s) ==
    /\ sweep[s] = "slot"
    /\ sweep' = [sweep EXCEPT ![s] = "accounts"]
    /\ UNCHANGED <<fault, anomalies, failedTx, health, lastRaise>>

\* Mutant: an endpoint that does not answer is taken for an empty program.
accountsUnavailableAsEmpty(s) ==
    /\ sweep[s] = "accounts"
    /\ fault = "accounts"
    /\ sweep' = [sweep EXCEPT ![s] = "signatures"]
    /\ UNCHANGED <<fault, anomalies, failedTx, health, lastRaise>>

\* Mutant: the sweep reports itself stale instead of down.
accountsUnavailableStale(s) ==
    /\ sweep[s] = "accounts"
    /\ fault = "accounts"
    /\ heartbeat("stale")
    /\ raise({"vault-accounts-unavailable"})
    /\ sweep' = [sweep EXCEPT ![s] = "nothing"]
    /\ UNCHANGED <<fault, anomalies, failedTx>>

\* The account sweep fails: heartbeat "down", critical alert, the sweep throws.
accountsUnavailable(s) ==
    /\ sweep[s] = "accounts"
    /\ fault = "accounts"
    /\ heartbeat("down")
    /\ raise({"vault-accounts-unavailable"})
    /\ sweep' = [sweep EXCEPT ![s] = "nothing"]
    /\ UNCHANGED <<fault, anomalies, failedTx>>

(***************************************************************************)
(* An account with a known discriminator that the SDK cannot decode: the   *)
(* decoder's exception is not caught, start() swallows it, and the sweep   *)
(* ends with neither heartbeat nor alert.                                  *)
(***************************************************************************)
tryDecodeVaultAccountThrows(s) ==
    /\ sweep[s] = "accounts"
    /\ fault = "decode"
    /\ sweep' = [sweep EXCEPT ![s] = "nothing"]
    /\ UNCHANGED <<fault, anomalies, failedTx, health, lastRaise>>

\* The accounts are decoded and checked, every anomaly raises its code.
reconcileAccounts(s) ==
    /\ sweep[s] = "accounts"
    /\ fault \notin {"accounts", "decode"}
    /\ raise(anomalies)
    /\ sweep' = [sweep EXCEPT ![s] = "signatures"]
    /\ UNCHANGED <<fault, anomalies, failedTx, health>>

\* The failed-transaction sweep is best effort; the heartbeat ends the sweep.
getRecentSignatures(s) ==
    /\ sweep[s] = "signatures"
    /\ raise(IF fault # "signatures" /\ failedTx THEN {"vault-tx-failed"} ELSE {})
    /\ heartbeat(IF fault = "signatures" THEN "degraded" ELSE "ok")
    /\ sweep' = [sweep EXCEPT ![s] = "nothing"]
    /\ UNCHANGED <<fault, anomalies, failedTx>>

SweepStep(s) ==
    \/ getSlot(s)
    \/ accountsUnavailable(s)
    \/ tryDecodeVaultAccountThrows(s)
    \/ reconcileAccounts(s)
    \/ getRecentSignatures(s)

-----------------------------------------------------------------------------
(***************************************************************************)
(* The endpoint breaks and recovers, accounts become anomalous and are     *)
(* repaired, failed transactions appear and scroll out of the page.        *)
(***************************************************************************)
EndpointChanges ==
    /\ \E f \in Faults \cup {"none"} : f # fault /\ fault' = f
    /\ UNCHANGED <<anomalies, failedTx, sweep, health, lastRaise>>

ChainChanges ==
    /\ \/ /\ \E A \in SUBSET AnomalyCodes : A # anomalies /\ anomalies' = A
          /\ UNCHANGED failedTx
       \/ /\ failedTx' = ~failedTx
          /\ UNCHANGED anomalies
    /\ UNCHANGED <<fault, sweep, health, lastRaise>>

Next ==
    \/ Tick
    \/ \E s \in Sweeps : SweepStep(s)
    \/ EndpointChanges
    \/ ChainChanges

(***************************************************************************)
(* The timer keeps firing and every RPC call is answered or rejected at    *)
(* some time; the endpoint and the chain owe nothing.                      *)
(***************************************************************************)
FairSpec ==
    /\ Init /\ [][Next]_vars
    /\ WF_vars(Tick)
    /\ \A s \in Sweeps : WF_vars(SweepStep(s))

-----------------------------------------------------------------------------
(***************************************************************************)
(* A blind observer is noticed, whatever sweeps overlap: if the account    *)
(* sweep fails for good the process reports "down" for good, although      *)
(* sweeps that read the accounts before may still finish with "ok"; and if *)
(* the accounts cannot be decoded, where runOnce reports nothing at all,   *)
(* the freshness window reports it as stale (or as never reported).        *)
(***************************************************************************)
BlindnessReported ==
    /\ <>[](fault = "accounts") => <>[](overallStatus = "down")
    /\ <>[](fault = "decode") =>
           <>[](deriveReportedStatus("vault-observer") \in {"stale", "never-reported"})

(***************************************************************************)
(* The alarm ends with its cause: once the endpoint works for good the     *)
(* observer reports "ok" for good; no sweep of the bad time, no flag and   *)
(* no age keeps it degraded, down or stale.                                *)
(***************************************************************************)
RecoveryReported ==
    <>[](fault = "none") => <>[](deriveReportedStatus("vault-observer") = "ok")

(***************************************************************************)
(* alerts.ts: an every-minute observer must not page an operator again and *)
(* again for the same stuck receipt.  While an anomaly stands and the      *)
(* endpoint works, its code is paged (raised unsuppressed) at most         *)
(* finitely often, although overlapping sweeps raise it at odd times.      *)
(***************************************************************************)
Pages(code) == lastRaise'[code] = 0 /\ ~Suppressed(code)

StuckAnomalyStopsPaging ==
    \A code \in AnomalyCodes :
        <>[](code \in anomalies /\ fault = "none")
            => <>[][~Pages(code)]_vars
=============================================================================
