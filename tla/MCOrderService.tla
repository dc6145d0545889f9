---------------------------- MODULE MCOrderService ----------------------------
(***************************************************************************)
(* Small shops for TLC.  ann and bob compete for the shirts; the cap has a *)
(* variant with a record of its own.                                       *)
(***************************************************************************)
EXTENDS OrderSerial, TLC

\* Every item of one customer is kept in a record of its own.
Owners == [shirt |-> "ann", cap |-> "ann", tee |-> "bob"]
Quantities == [shirt |-> 1, cap |-> 1, tee |-> 2]
Variants == [shirt |-> None, cap |-> "caps", tee |-> None]
Products == [shirt |-> "shirts", cap |-> "shirts", tee |-> "shirts"]
OnHand == [shirts |-> 3, caps |-> 1]
OnHandTight == [shirts |-> 2, caps |-> 1]

\* Nobody configured the inventory of the tees.
TeelessProducts == [shirt |-> "shirts", cap |-> "shirts", tee |-> None]

\* Callers that settle an order once, in as few steps as the code lets them.
Disciplined == {<<"pending", "confirmed">>, <<"pending", "cancelled">>,
                <<"confirmed", "cancelled">>, <<"confirmed", "delivered">>,
                <<"pending", "delivered">>, <<"delivered", "return_requested">>}

\* What the code accepts, among statuses with different effects.
Anything == Statuses \X {"confirmed", "delivered", "cancelled"}

\* These shops satisfy the conditions of OrderSerial on carts and callers.
ASSUME ApartAssumption == OneRecordPerLine
ASSUME OnceAssumption == Lifecycle = Disciplined => SettledOnceFrom({"pending", "confirmed"})

Symmetry == Permutations(Placing) \cup Permutations(Updating)
==============================================================================
