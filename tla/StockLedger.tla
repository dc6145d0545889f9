----------------------------- MODULE StockLedger -----------------------------
(***************************************************************************)
(* What Inventory and OrderService promise together: the quantities of the *)
(* inventory records when every reservation, release and deduction runs    *)
(* alone on a freshly read record, and every order is settled once.        *)
(*                                                                         *)
(* Each action is a whole service call: Place applies Inventory.reserve to *)
(* every line of an order or to none, Cancel applies release_reservation,  *)
(* Deliver applies deduct.  OrderService implements this module when the   *)
(* requests in flight concern different orders and records and the callers *)
(* respect the order life cycle (OrderSerial); requests that meet on a     *)
(* record do not.                                                          *)
(***************************************************************************)
EXTENDS Integers, FiniteSets

CONSTANTS Orders,    \* identities of orders
          Stock,     \* inventory records
          Demands,   \* what an order may ask of each record, [Stock -> Nat]
          Initial    \* units on hand of each record at the start

ASSUME DemandsAssumption == Demands \subseteq [Stock -> Nat]
ASSUME InitialAssumption == Initial \in [Stock -> Nat]

VARIABLES onHand,    \* quantity_on_hand
          reserved,  \* quantity_reserved
          demand,    \* units of each record an order asked for
          state      \* where the order stands with respect to the stock

vars == <<onHand, reserved, demand, state>>

Clamp(n) == IF n < 0 THEN 0 ELSE n      \* max(0, n)

Available(s) == Clamp(onHand[s] - reserved[s])

Init == /\ onHand = Initial
        /\ reserved = [s \in Stock |-> 0]
        /\ demand = [o \in Orders |-> [s \in Stock |-> 0]]
        /\ state = [o \in Orders |-> "absent"]

\* Mutants: the sum has the wrong sign; the check ignores the reservations.
PlaceNegative(o, d) ==
    /\ state[o] = "absent"
    /\ \A s \in Stock : Available(s) >= d[s]
    /\ reserved' = [s \in Stock |-> reserved[s] - d[s]]
    /\ demand' = [demand EXCEPT ![o] = d]
    /\ state' = [state EXCEPT ![o] = "open"]
    /\ UNCHANGED onHand
PlaceOnHand(o, d) ==
    /\ state[o] = "absent"
    /\ \A s \in Stock : onHand[s] >= d[s]
    /\ reserved' = [s \in Stock |-> reserved[s] + d[s]]
    /\ demand' = [demand EXCEPT ![o] = d]
    /\ state' = [state EXCEPT ![o] = "open"]
    /\ UNCHANGED onHand

\* All lines are covered, or nothing happens.
Place(o, d) ==
    /\ state[o] = "absent"
    /\ \A s \in Stock : Available(s) >= d[s]
    /\ reserved' = [s \in Stock |-> reserved[s] + d[s]]
    /\ demand' = [demand EXCEPT ![o] = d]
    /\ state' = [state EXCEPT ![o] = "open"]
    /\ UNCHANGED onHand

Cancel(o) ==
    /\ state[o] = "open"
    /\ reserved' = [s \in Stock |-> Clamp(reserved[s] - demand[o][s])]
    /\ state' = [state EXCEPT ![o] = "cancelled"]
    /\ UNCHANGED <<onHand, demand>>

\* Mutants: the reservation is kept; an order can be delivered again.
DeliverKeepsReservation(o) ==
    /\ state[o] = "open"
    /\ onHand' = [s \in Stock |-> Clamp(onHand[s] - demand[o][s])]
    /\ state' = [state EXCEPT ![o] = "delivered"]
    /\ UNCHANGED <<reserved, demand>>
DeliverAgain(o) ==
    /\ state[o] \in {"open", "delivered"}
    /\ onHand' = [s \in Stock |-> Clamp(onHand[s] - demand[o][s])]
    /\ reserved' = [s \in Stock |-> Clamp(reserved[s] - demand[o][s])]
    /\ state' = [state EXCEPT ![o] = "delivered"]
    /\ UNCHANGED demand

Deliver(o) ==
    /\ state[o] = "open"
    /\ onHand' = [s \in Stock |-> Clamp(onHand[s] - demand[o][s])]
    /\ reserved' = [s \in Stock |-> Clamp(reserved[s] - demand[o][s])]
    /\ state' = [state EXCEPT ![o] = "delivered"]
    /\ UNCHANGED demand

\* No order waits for anything: the shop may stay as it is.
Settled == /\ \A o \in Orders : state[o] # "open"
           /\ UNCHANGED vars

Next == \/ \E o \in Orders : \/ \E d \in Demands : Place(o, d)
                             \/ Cancel(o)
                             \/ Deliver(o)
        \/ Settled

Spec == Init /\ [][Next]_vars

------------------------------------------------------------------------------
States == {"absent", "open", "delivered", "cancelled"}

\* Every quantity is a natural number and every order has a known standing.
TypeOK == /\ onHand \in [Stock -> Nat]
          /\ reserved \in [Stock -> Nat]
          /\ demand \in [Orders -> [Stock -> Nat]]
          /\ state \in [Orders -> States]

\* The units of record s that the orders in standing st asked for.
UnitsOf(o, s) == {o} \X (1..demand[o][s])
Units(st, s) == UNION {UnitsOf(o, s) : o \in {x \in Orders : state[x] = st}}

\* quantity_reserved of a record is exactly what the open orders asked of it:
\* no reservation is lost, duplicated or released for somebody else.
ReservedIsHeld == \A s \in Stock : reserved[s] = Cardinality(Units("open", s))

\* A unit leaves the shelf once, with the order that was delivered: what is on
\* hand and what was delivered always add up to the initial stock, so the
\* clamp of deduct never hides a missing unit.
StockConserved ==
    \A s \in Stock : onHand[s] + Cardinality(Units("delivered", s)) = Initial[s]

\* Every open order can be delivered from what is on hand, all of them together.
NoOversell == \A s \in Stock : Cardinality(Units("open", s)) <= onHand[s]

\* The inductive invariant behind the three: the counts are counts of finite sets.
LedgerInv == /\ TypeOK
             /\ \A s \in Stock : /\ IsFiniteSet(Units("open", s))
                                 /\ IsFiniteSet(Units("delivered", s))
             /\ ReservedIsHeld
             /\ StockConserved
             /\ NoOversell
==============================================================================
