---------------------------- MODULE MCStockLedger ----------------------------
(* Two records, three orders of up to two units of each.                    *)
EXTENDS StockLedger, TLC

OnHand == [shirts |-> 3, caps |-> 2]
SmallDemands == [{"shirts", "caps"} -> 0..2]

Symmetry == Permutations(Orders)
==============================================================================
