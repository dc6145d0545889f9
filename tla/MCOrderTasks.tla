----------------------------- MODULE MCOrderTasks -----------------------------
(* One order for one shirt: its tasks compete with the request.             *)
EXTENDS OrderTasks

Owners == [shirt |-> "ann"]
Quantities == [shirt |-> 1]
Variants == [shirt |-> None]
Products == [shirt |-> "shirts"]
OnHand == [shirts |-> 1]

Updates == {<<"pending", "confirmed">>}
==============================================================================
