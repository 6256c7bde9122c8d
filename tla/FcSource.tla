------------------------------ MODULE FcSource ------------------------------
(***************************************************************************)
(* What the BMU promises the ledger: a source of freshness counters that   *)
(* only ever rise.  README.md of the repository states it as "g_chain_fc   *)
(* ... globally monotonic" and the chaincode relies on it, because         *)
(* requireNextBMUFCForKey refuses every counter that is not above the last *)
(* one it stored.  The counter may skip values; it never repeats one.      *)
(***************************************************************************)
EXTENDS Integers

VARIABLE last        \* the counter of the newest signed line; -1 before any

Init == last = -1

Emit == /\ last' \in Nat
        /\ last' > last

Spec == Init /\ [][Emit]_last
=============================================================================
