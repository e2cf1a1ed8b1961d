------------------------------ MODULE LpEscrow ------------------------------
(***************************************************************************)
(* What the vault promises the original LP holders of a pool, and nothing  *)
(* of how: once, a sum of money is put aside for a fixed roster of         *)
(* weighted beneficiaries; each of them may then draw its pro-rata share,  *)
(* once, as long as the money lasts; nobody else draws, and the promise    *)
(* is never changed or taken back.  There is no pause, no administrator    *)
(* and no expiry.                                                          *)
(***************************************************************************)
EXTENDS Naturals

CONSTANTS Pools, Holders, None

VARIABLES
    promise,   \* [Pools -> Promise or None]: sum, roster of <<holder, weight>>, whole
    left,      \* [Pools -> Nat]: what is left of the sum
    drawn      \* [Pools -> [Holders -> Nat or None]]: what each holder drew

vars == <<promise, left, drawn>>

Promise == [sum : Nat, roster : SUBSET (Holders \X Nat), whole : Nat \ {0}]

Init ==
    /\ promise = [p \in Pools |-> None]
    /\ left = [p \in Pools |-> 0]
    /\ drawn = [p \in Pools |-> [h \in Holders |-> None]]

PutAside(p) ==
    /\ promise[p] = None
    /\ promise'[p] \in Promise
    /\ promise' = [promise EXCEPT ![p] = promise'[p]]
    /\ left' = [left EXCEPT ![p] = promise'[p].sum]
    /\ drawn' = drawn

Draw(p, h) ==
    /\ promise[p] # None
    /\ drawn[p][h] = None
    /\ \E leaf \in promise[p].roster :
          LET share == (promise[p].sum * leaf[2]) \div promise[p].whole
          IN /\ leaf[1] = h
             /\ leaf[2] > 0
             /\ share <= left[p]
             /\ left' = [left EXCEPT ![p] = @ - share]
             /\ drawn' = [drawn EXCEPT ![p][h] = share]
    /\ promise' = promise

Next ==
    \E p \in Pools :
        \/ PutAside(p)
        \/ \E h \in Holders : Draw(p, h)

Spec == Init /\ [][Next]_vars
=============================================================================
