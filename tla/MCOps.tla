------------------------------- MODULE MCOps --------------------------------
(***************************************************************************)
(* A small instance of Ops for TLC: two sweeps in flight, every anomaly    *)
(* code and every fault of the endpoint.                                   *)
(***************************************************************************)
EXTENDS Ops

CONSTANTS s1, s2

AllAnomalies == {"receipt-sum-mismatch", "claim-accounting-anomaly"}
AllFaults == {"slot", "accounts", "decode", "signatures"}
=============================================================================
