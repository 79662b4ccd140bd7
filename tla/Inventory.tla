----------------------------- MODULE Inventory -----------------------------
(***************************************************************************)
(* What checkout promises about the stock: it changes only when a call     *)
(* places its one order, only downwards, and never below zero.             *)
(***************************************************************************)
EXTENDS Integers

CONSTANTS Products, Requests, InitialStock

VARIABLES
    left,   \* units of each product that can still be sold
    sold    \* calls that placed their order

InventoryInit == left = InitialStock /\ sold = {}

Sell(r) ==
    /\ r \notin sold
    /\ sold' = sold \union {r}
    /\ left' \in [Products -> Nat]
    /\ \A p \in Products : left'[p] <= left[p]
    /\ \E p \in Products : left'[p] < left[p]

InventoryNext == \E r \in Requests : Sell(r)

InventorySpec == InventoryInit /\ [][InventoryNext]_<<left, sold>>
=============================================================================
