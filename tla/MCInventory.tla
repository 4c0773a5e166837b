---------------------------- MODULE MCInventory ----------------------------
(* Inventory for TLC: one slot or two, and one scanner or two.             *)
EXTENDS Inventory, TLC

CONSTANTS s1, s2, c1, c2

=============================================================================
