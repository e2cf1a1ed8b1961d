---------------------------- MODULE MCSnapshotter ----------------------------
(***************************************************************************)
(* Small instances of Snapshotter for TLC: three ordinary holders, two     *)
(* more who only have locked LP, the locker's custody account and a second *)
(* account of the same owner.                                              *)
(***************************************************************************)
EXTENDS Snapshotter

MCAccountOwner == [a1 |-> 1, a2 |-> 2, a3 |-> 3, custody |-> 6, spare |-> 6]

MCLockOwner == <<1, 5, 4>>

LedgerOf(b1, b2, b3, c, l1, l2, l3) ==
    [balance |-> [a1 |-> b1, a2 |-> b2, a3 |-> b3, custody |-> c, spare |-> 0],
     locked |-> <<l1, l2, l3>>]

Ask(sinks, overrides) ==
    [sink_exclusions |-> sinks, custody_owner_overrides |-> overrides]

\* Five leaves; an account that happens to hold the locked total; nothing locked yet; a
\* custody declared as a sink, and a sink that also has locked LP.
MCCases ==
    {[ledger |-> LedgerOf(0, 2, 1, 3, 1, 1, 1), request |-> Ask({}, {})],
     [ledger |-> LedgerOf(1, 2, 1, 2, None, 2, None), request |-> Ask({3}, {6})],
     [ledger |-> LedgerOf(2, 1, 0, 0, None, None, None), request |-> Ask({}, {})],
     [ledger |-> LedgerOf(1, 0, 1, 1, 1, None, None), request |-> Ask({1, 6}, {})]}
=============================================================================
