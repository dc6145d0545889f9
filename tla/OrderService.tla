----------------------------- MODULE OrderService -----------------------------
(***************************************************************************)
(* apps/orders/services.py: place_order and update_order_status, as served *)
(* by concurrent gunicorn threads against PostgreSQL at READ COMMITTED.    *)
(*                                                                         *)
(* One action per SQL statement that another request can observe or be     *)
(* observed by.  A transaction reads committed rows, keeps what it read in *)
(* Python instances (inst, order), and writes rows that stay invisible and *)
(* locked (rows, sales, cleared) until Commit installs them or Rollback    *)
(* drops them.  Celery tasks are published at once, before the commit.     *)
(***************************************************************************)
EXTENDS Integers, Sequences, FiniteSets

CONSTANTS
    Placing,       \* requests that call place_order; such a request names its order
    Updating,      \* requests that call update_order_status
    Customers,
    Items,         \* cart item rows; an order's lines are the rows it was built from
    OwnerOf,       \* the customer in whose cart an item lies
    Quantity,      \* CartItem.quantity
    VariantStock,  \* inventory record of the item's variant, or None
    ProductStock,  \* inventory record of the item's product, or None
    Stock,         \* inventory records
    Initial,       \* quantity_on_hand of each record at the start
    Lifecycle,     \* the status changes callers ask for: the code checks none
    MaxInFlight,   \* bound: requests served at the same time
    None

Statuses == {"pending", "confirmed", "processing", "shipped", "delivered",
             "cancelled", "refunded", "return_requested"}

\* Statuses with a timestamp column, which are also those customers hear about.
Stamped == {"confirmed", "shipped", "delivered", "cancelled"}

\* The statuses callers ask for.
Asked == {l[2] : l \in Lifecycle}

Requests == Placing \cup Updating

ASSUME RequestsAssumption == Placing \cap Updating = {}
ASSUME ItemsAssumption ==
    /\ IsFiniteSet(Items)
    /\ OwnerOf \in [Items -> Customers]
    /\ Quantity \in [Items -> Nat \ {0}]
    /\ VariantStock \in [Items -> Stock \cup {None}]
    /\ ProductStock \in [Items -> Stock \cup {None}]
ASSUME StockAssumption == Initial \in [Stock -> Nat]
ASSUME LifecycleAssumption == Lifecycle \subseteq Statuses \X Statuses
ASSUME MaxInFlightAssumption == MaxInFlight \in Nat \ {0}

Row   == [onHand : Nat, reserved : Nat]
Order == [lines : SUBSET Items, status : Statuses, stamps : SUBSET Stamped]
Sale  == [by : Updating, order : Placing, item : Items, before : Nat, after : Nat]
Task  == [task : {"email", "placed"} \cup Stamped, order : Placing, by : Requests]

ASSUME NoneAssumption == None \notin Stock \cup Row \cup Order

NoRow == [onHand |-> 0, reserved |-> 0]

VARIABLES
    inv,      \* inventory: the committed rows
    cart,     \* cart_items: the committed rows
    shelf,    \* items nobody has put into a cart yet
    orders,   \* orders and order_items: the committed rows, None before
    moves,    \* stock_movements: the committed rows
    queue,    \* every Celery task ever published
    pc,       \* where a request is
    arg,      \* its arguments
    inst,     \* the Inventory instance loaded for each of its items
    order,    \* its Order instance (place_order: what its cart_items will become)
    todo,     \* items its stock loop has not reached, in iteration order
    rows,     \* inventory rows it has written, None where it has not
    sales,    \* stock movements it has written
    cleared   \* cart rows it has deleted

db     == <<inv, cart, shelf, orders, moves>>
memory == <<arg, inst, order, todo>>
writes == <<rows, sales, cleared>>
vars   == <<db, queue, pc, memory, writes>>

Ended == {"done", "failed"}
Open(r) == pc[r] \notin {"idle"} \cup Ended
InFlight == {r \in Requests : Open(r)}

\* An update that has locked its order.
Busy(u) == pc[u] \in {"lines", "save", "commit"}

Init ==
    /\ inv = [s \in Stock |-> [onHand |-> Initial[s], reserved |-> 0]]
    /\ cart = {}
    /\ shelf = Items
    /\ orders = [p \in Placing |-> None]
    /\ moves = {}
    /\ queue = {}
    /\ pc = [r \in Requests |-> "idle"]
    /\ arg = [r \in Requests |-> None]
    /\ inst = [r \in Requests |-> [i \in Items |-> NoRow]]
    /\ order = [r \in Requests |-> None]
    /\ todo = [r \in Requests |-> <<>>]
    /\ rows = [r \in Requests |-> [s \in Stock |-> None]]
    /\ sales = [r \in Requests |-> {}]
    /\ cleared = [r \in Requests |-> {}]

------------------------------------------------------------------------------
\* Mutant: the max(0, ...) is forgotten.
ClampForgotten(n) == n
Clamp(n) == IF n < 0 THEN 0 ELSE n        \* max(0, n)

Available(row) == Clamp(row.onHand - row.reserved)

\* The variant's own record if it has one, else the product's, else None.
InventoryOf(i) == IF VariantStock[i] # None THEN VariantStock[i] ELSE ProductStock[i]

CartOf(c) == {i \in cart : OwnerOf[i] = c}

\* An item's instance as select_related loads it: each item gets its own.
Loaded(I) == [i \in Items |-> IF i \in I /\ InventoryOf(i) # None
                              THEN inv[InventoryOf(i)] ELSE NoRow]

\* The queries have no ORDER BY: any iteration order.
Orderings(S) == {q \in [1..Cardinality(S) -> S] :
                    \A j, k \in 1..Cardinality(S) : q[j] = q[k] => j = k}

\* The row as the transaction of r sees it.
Visible(r, s) == IF rows[r][s] = None THEN inv[s] ELSE rows[r][s]

\* Mutant: the order is read without select_for_update.
WaitsForStockOnly(r) ==
    {q \in Requests \ {r} :
        \/ /\ pc[r] \in {"reserve", "lines"}
           /\ InventoryOf(Head(todo[r])) # None
           /\ rows[q][InventoryOf(Head(todo[r]))] # None
        \/ /\ pc[r] = "create"
           /\ cleared[q] \cap CartOf(arg[r].customer) # {}}

\* The requests whose locks the next statement of r has to wait for.
WaitsFor(r) ==
    {q \in Requests \ {r} :
        \/ /\ pc[r] \in {"reserve", "lines"}
           /\ InventoryOf(Head(todo[r])) # None
           /\ rows[q][InventoryOf(Head(todo[r]))] # None
        \/ /\ pc[r] = "create"
           /\ cleared[q] \cap CartOf(arg[r].customer) # {}
        \/ /\ pc[r] = "lock"
           /\ q \in Updating
           /\ Busy(q)
           /\ arg[q].order = arg[r].order}

\* Mutant: the connection goes back to the pool with its row locks.
CloseKeepsLocks(r, outcome) ==
    /\ pc' = [pc EXCEPT ![r] = outcome]
    /\ arg' = [arg EXCEPT ![r] = None]
    /\ inst' = [inst EXCEPT ![r] = [i \in Items |-> NoRow]]
    /\ order' = [order EXCEPT ![r] = None]
    /\ todo' = [todo EXCEPT ![r] = <<>>]
    /\ sales' = [sales EXCEPT ![r] = {}]
    /\ cleared' = [cleared EXCEPT ![r] = {}]
    /\ UNCHANGED rows

\* The transaction of r is over: its instances and locks are gone.
Close(r, outcome) ==
    /\ pc' = [pc EXCEPT ![r] = outcome]
    /\ arg' = [arg EXCEPT ![r] = None]
    /\ inst' = [inst EXCEPT ![r] = [i \in Items |-> NoRow]]
    /\ order' = [order EXCEPT ![r] = None]
    /\ todo' = [todo EXCEPT ![r] = <<>>]
    /\ rows' = [rows EXCEPT ![r] = [s \in Stock |-> None]]
    /\ sales' = [sales EXCEPT ![r] = {}]
    /\ cleared' = [cleared EXCEPT ![r] = {}]

\* Mutants: without transaction.atomic the statements already executed stay.
RollbackKeepsStock(r) == /\ Close(r, "failed")
                         /\ inv' = [s \in Stock |-> Visible(r, s)]
                         /\ UNCHANGED <<cart, shelf, orders, moves, queue>>
RollbackKeepsMoves(r) == /\ Close(r, "failed")
                         /\ moves' = moves \cup sales[r]
                         /\ UNCHANGED <<inv, cart, shelf, orders, queue>>

Rollback(r) == Close(r, "failed") /\ UNCHANGED <<db, queue>>

\* The next item of the stock loop is dealt with.
Advance(r, after) ==
    /\ todo' = [todo EXCEPT ![r] = Tail(@)]
    /\ pc' = [pc EXCEPT ![r] = IF Len(todo[r]) = 1 THEN after ELSE @]

------------------------------------------------------------------------------
(* The cart views are stubs: items reach the cart by some other program.    *)
AddToCart(i) ==
    /\ i \in shelf
    /\ Cardinality(InFlight) < MaxInFlight
    /\ cart' = cart \cup {i}
    /\ shelf' = shelf \ {i}
    /\ UNCHANGED <<inv, orders, moves, queue, pc, memory, writes>>

(* place_order: BEGIN, the cart query and the items query.                  *)
StartPlace(p, c) ==
    /\ pc[p] = "idle"
    /\ Cardinality(InFlight) < MaxInFlight
    /\ CartOf(c) # {}
    /\ pc' = [pc EXCEPT ![p] = "reserve"]
    /\ arg' = [arg EXCEPT ![p] = [customer |-> c]]
    /\ inst' = [inst EXCEPT ![p] = Loaded(CartOf(c))]
    /\ order' = [order EXCEPT ![p] = [lines |-> CartOf(c), status |-> "pending",
                                      stamps |-> {}]]
    /\ \E q \in Orderings(CartOf(c)) : todo' = [todo EXCEPT ![p] = q]
    /\ UNCHANGED <<db, queue, writes>>

\* No cart, or nothing in it.
EmptyCart(p, c) ==
    /\ pc[p] = "idle"
    /\ CartOf(c) = {}
    /\ Rollback(p)

\* Mutant: a full save also writes the on-hand quantity of the instance.
ReserveFullSave(p) ==
    /\ pc[p] = "reserve"
    /\ WaitsFor(p) = {}
    /\ LET i == Head(todo[p])
           s == InventoryOf(i)
       IN  /\ s # None
           /\ Available(inst[p][i]) >= Quantity[i]
           /\ rows' = [rows EXCEPT ![p][s] =
                  [inst[p][i] EXCEPT !.reserved = @ + Quantity[i]]]
    /\ Advance(p, "create")
    /\ UNCHANGED <<db, queue, arg, inst, order, sales, cleared>>

\* Inventory.reserve: the check and the sum on the instance, then the UPDATE of
\* quantity_reserved alone.
Reserve(p) ==
    /\ pc[p] = "reserve"
    /\ WaitsFor(p) = {}
    /\ LET i == Head(todo[p])
           s == InventoryOf(i)
       IN  /\ s # None
           /\ Available(inst[p][i]) >= Quantity[i]
           /\ rows' = [rows EXCEPT ![p][s] =
                  [Visible(p, s) EXCEPT !.reserved = inst[p][i].reserved + Quantity[i]]]
    /\ Advance(p, "create")
    /\ UNCHANGED <<db, queue, arg, inst, order, sales, cleared>>

\* No inventory configured, or not enough of it: the exception rolls back.
ReserveRefused(p) ==
    /\ pc[p] = "reserve"
    /\ LET i == Head(todo[p])
       IN  InventoryOf(i) = None \/ Available(inst[p][i]) < Quantity[i]
    /\ Rollback(p)

\* Mutant: the cart is not cleared.
CreateOrderKeepsCart(p) ==
    /\ pc[p] = "create"
    /\ pc' = [pc EXCEPT ![p] = "email"]
    /\ UNCHANGED <<db, queue, memory, writes>>

\* INSERT of the order and its items, DELETE of whatever the cart holds now.
CreateOrder(p) ==
    /\ pc[p] = "create"
    /\ WaitsFor(p) = {}
    /\ cleared' = [cleared EXCEPT ![p] = CartOf(arg[p].customer)]
    /\ pc' = [pc EXCEPT ![p] = "email"]
    /\ UNCHANGED <<db, queue, memory, rows, sales>>

\* Mutant: a broker error is swallowed.
PublishEmailMaybe(p) ==
    /\ pc[p] = "email"
    /\ queue' \in {queue, queue \cup {[task |-> "email", order |-> p, by |-> p]}}
    /\ pc' = [pc EXCEPT ![p] = "notify"]
    /\ UNCHANGED <<db, memory, writes>>

PublishEmail(p) ==
    /\ pc[p] = "email"
    /\ queue' = queue \cup {[task |-> "email", order |-> p, by |-> p]}
    /\ pc' = [pc EXCEPT ![p] = "notify"]
    /\ UNCHANGED <<db, memory, writes>>

PublishPlaced(p) ==
    /\ pc[p] = "notify"
    /\ queue' = queue \cup {[task |-> "placed", order |-> p, by |-> p]}
    /\ pc' = [pc EXCEPT ![p] = "commit"]
    /\ UNCHANGED <<db, memory, writes>>

------------------------------------------------------------------------------
(* update_order_status: the caller saw the order in some status, or made    *)
(* the order's identity up.                                                 *)
StartUpdate(u, o, st) ==
    /\ pc[u] = "idle"
    /\ Cardinality(InFlight) < MaxInFlight
    /\ orders[o] # None => <<orders[o].status, st>> \in Lifecycle
    /\ pc' = [pc EXCEPT ![u] = "lock"]
    /\ arg' = [arg EXCEPT ![u] = [order |-> o, status |-> st]]
    /\ UNCHANGED <<db, queue, inst, order, todo, writes>>

OrderMissing(u) ==
    /\ pc[u] = "lock"
    /\ orders[arg[u].order] = None
    /\ Rollback(u)

\* SELECT ... FOR UPDATE of the order, its new status and timestamp set on the
\* instance, and for the two statuses that touch the stock the query of its
\* items.  The order row is ours from here on, so nothing another transaction
\* does between the two queries can tell them apart.
Lock(u) ==
    /\ pc[u] = "lock"
    /\ WaitsFor(u) = {}
    /\ LET o  == orders[arg[u].order]
           st == arg[u].status
           I  == IF st \in {"delivered", "cancelled"} THEN o.lines ELSE {}
       IN  /\ o # None
           /\ order' = [order EXCEPT ![u] = [o EXCEPT !.status = st,
                                     !.stamps = @ \cup ({st} \cap Stamped)]]
           /\ inst' = [inst EXCEPT ![u] = Loaded(I)]
           /\ \E q \in Orderings(I) : todo' = [todo EXCEPT ![u] = q]
           /\ pc' = [pc EXCEPT ![u] = IF I = {} THEN "save" ELSE "lines"]
    /\ UNCHANGED <<db, queue, arg, writes>>

\* Inventory.release_reservation on the next item, which has a record: an order
\* with an item that has none is never placed, and records are not deleted here.
Release(u) ==
    /\ pc[u] = "lines"
    /\ arg[u].status = "cancelled"
    /\ WaitsFor(u) = {}
    /\ LET i == Head(todo[u])
           s == InventoryOf(i)
       IN  rows' = [rows EXCEPT ![u][s] = [Visible(u, s) EXCEPT
                       !.reserved = Clamp(inst[u][i].reserved - Quantity[i])]]
    /\ Advance(u, "save")
    /\ UNCHANGED <<db, queue, arg, inst, order, sales, cleared>>

\* Mutants: the quantity before is read after the deduction; the reservation
\* of what was delivered is kept.
DeductThenRead(u) ==
    /\ pc[u] = "lines"
    /\ arg[u].status = "delivered"
    /\ WaitsFor(u) = {}
    /\ LET i == Head(todo[u])
           s == InventoryOf(i)
           left == Clamp(inst[u][i].onHand - Quantity[i])
       IN  /\ rows' = [rows EXCEPT ![u][s] =
                  [onHand   |-> left,
                   reserved |-> Clamp(inst[u][i].reserved - Quantity[i])]]
           /\ sales' = [sales EXCEPT ![u] = @ \cup
                  {[by |-> u, order |-> arg[u].order, item |-> i,
                    before |-> left, after |-> left]}]
    /\ Advance(u, "save")
    /\ UNCHANGED <<db, queue, arg, inst, order, cleared>>

DeductOnHandOnly(u) ==
    /\ pc[u] = "lines"
    /\ arg[u].status = "delivered"
    /\ WaitsFor(u) = {}
    /\ LET i == Head(todo[u])
           s == InventoryOf(i)
           left == Clamp(inst[u][i].onHand - Quantity[i])
       IN  /\ rows' = [rows EXCEPT ![u][s] = [Visible(u, s) EXCEPT !.onHand = left]]
           /\ sales' = [sales EXCEPT ![u] = @ \cup
                  {[by |-> u, order |-> arg[u].order, item |-> i,
                    before |-> inst[u][i].onHand, after |-> left]}]
    /\ Advance(u, "save")
    /\ UNCHANGED <<db, queue, arg, inst, order, cleared>>

\* Inventory.deduct on the next item, both columns, and its SALE movement.
Deduct(u) ==
    /\ pc[u] = "lines"
    /\ arg[u].status = "delivered"
    /\ WaitsFor(u) = {}
    /\ LET i == Head(todo[u])
           s == InventoryOf(i)
           left == Clamp(inst[u][i].onHand - Quantity[i])
       IN  /\ rows' = [rows EXCEPT ![u][s] =
                  [onHand   |-> left,
                   reserved |-> Clamp(inst[u][i].reserved - Quantity[i])]]
           /\ sales' = [sales EXCEPT ![u] = @ \cup
                  {[by |-> u, order |-> arg[u].order, item |-> i,
                    before |-> inst[u][i].onHand, after |-> left]}]
    /\ Advance(u, "save")
    /\ UNCHANGED <<db, queue, arg, inst, order, cleared>>

\* The full save of the locked order row, then the customer's notification.
PublishStatus(u) ==
    /\ pc[u] = "save"
    /\ queue' = queue \cup {[task |-> st, order |-> arg[u].order, by |-> u] :
                                st \in {arg[u].status} \cap Stamped}
    /\ pc' = [pc EXCEPT ![u] = "commit"]
    /\ UNCHANGED <<db, memory, writes>>

------------------------------------------------------------------------------
OrderOf(r) == IF r \in Placing THEN r ELSE arg[r].order

\* transaction.atomic ends: the written rows become the committed ones.
Commit(r) ==
    /\ pc[r] = "commit"
    /\ inv' = [s \in Stock |-> Visible(r, s)]
    /\ orders' = [orders EXCEPT ![OrderOf(r)] = order[r]]
    /\ moves' = moves \cup sales[r]
    /\ cart' = cart \ cleared[r]
    /\ Close(r, "done")
    /\ UNCHANGED <<shelf, queue>>

\* The worker is killed, the database or the broker fails, or the random order
\* number is already taken.
Abort(r) == Open(r) /\ Rollback(r)

\* A set of transactions each of which waits for another of them: PostgreSQL
\* fails the statement of one.
Deadlocked(r) == \E D \in SUBSET InFlight :
    /\ r \in D
    /\ \A d \in D : /\ WaitsFor(d) \cap D # {}
                    /\ \E e \in D : d \in WaitsFor(e)

BreakDeadlock(r) == Deadlocked(r) /\ Rollback(r)

PlaceStep(p) == \/ Reserve(p) \/ ReserveRefused(p) \/ CreateOrder(p)
                \/ PublishEmail(p) \/ PublishPlaced(p)
UpdateStep(u) == \/ OrderMissing(u) \/ Lock(u) \/ Release(u) \/ Deduct(u)
                 \/ PublishStatus(u)

Start(r) == \/ /\ r \in Placing
               /\ \E c \in Customers : StartPlace(r, c) \/ EmptyCart(r, c)
            \/ /\ r \in Updating
               /\ \E o \in Placing, st \in Asked : StartUpdate(r, o, st)

\* What a request does on its own once it is being served.
Serve(r) == \/ r \in Placing /\ PlaceStep(r)
            \/ r \in Updating /\ UpdateStep(r)
            \/ Commit(r)

Finished == /\ \A r \in Requests : pc[r] \in Ended
            /\ UNCHANGED vars

Next == \/ \E i \in Items : AddToCart(i)
        \/ \E r \in Requests : Start(r) \/ Serve(r) \/ Abort(r) \/ BreakDeadlock(r)
        \/ Finished

Spec == Init /\ [][Next]_vars

\* A gunicorn thread that can go on goes on (a stuck one is killed after 120 s),
\* and PostgreSQL resolves the deadlocks it detects.
Fairness == \A r \in Requests : WF_vars(Serve(r)) /\ WF_vars(BreakDeadlock(r))

FairSpec == Spec /\ Fairness

------------------------------------------------------------------------------
\* Every column, instance and lock holds what its declaration allows.
TypeOK ==
    /\ inv \in [Stock -> Row]
    /\ cart \subseteq Items
    /\ shelf \subseteq Items
    /\ orders \in [Placing -> Order \cup {None}]
    /\ moves \subseteq Sale
    /\ queue \subseteq Task
    /\ pc \in [Requests -> {"idle", "reserve", "create", "email", "notify", "lock",
                            "lines", "save", "commit"} \cup Ended]
    /\ arg \in [Requests -> [customer : Customers] \cup [order : Placing, status : Statuses]
                            \cup {None}]
    /\ inst \in [Requests -> [Items -> Row]]
    /\ order \in [Requests -> Order \cup {None}]
    /\ todo \in [Requests -> Seq(Items)]
    /\ rows \in [Requests -> [Stock -> Row \cup {None}]]
    /\ sales \in [Requests -> SUBSET Sale]
    /\ cleared \in [Requests -> SUBSET Items]

\* The order still has its reservation: neither delivered nor cancelled.
Holding(o) == /\ orders[o] # None
              /\ orders[o].stamps \cap {"delivered", "cancelled"} = {}

\* The single units of record s in the lines of the orders that hold stock, and
\* the single units its movements took off the shelf.
LineUnits(i) == {i} \X (1..Quantity[i])
OrderUnits(o, s) ==
    {o} \X UNION {LineUnits(i) : i \in {j \in orders[o].lines : InventoryOf(j) = s}}
HeldUnits(s) == UNION {OrderUnits(o, s) : o \in {p \in Placing : Holding(p)}}
SoldUnits(s) == UNION {{m} \X (1..(m.before - m.after)) :
                          m \in {n \in moves : InventoryOf(n.item) = s}}

\* quantity_reserved is what the orders that are neither delivered nor
\* cancelled ask for: no reservation is lost, and none is given up twice.
ReservedIsHeld == \A s \in Stock : inv[s].reserved = Cardinality(HeldUnits(s))

\* All the open orders together can be delivered from what is on hand.
NoOversell == \A s \in Stock : Cardinality(HeldUnits(s)) <= inv[s].onHand

\* The stock movements account for every unit that left the shelf.
OnHandAudited ==
    \A s \in Stock : inv[s].onHand + Cardinality(SoldUnits(s)) = Initial[s]

\* A cart row is waiting to be bought, or is a line of exactly one order:
\* placing an order neither drops a row it did not buy nor buys one twice.
RowsConserved ==
    \A i \in Items :
        LET bought == {p \in Placing : orders[p] # None /\ i \in orders[p].lines}
        IN  IF i \in shelf \cup cart THEN bought = {} ELSE Cardinality(bought) = 1

\* An order is stamped delivered exactly when the audit log shows the sale of
\* its lines, and one delivery logs all of them: a failure in the middle of
\* _deduct_stock_on_delivery leaves neither a stamp nor a movement behind.
DeliveryLogged ==
    /\ \A o \in Placing : orders[o] # None =>
          \A i \in orders[o].lines :
              "delivered" \in orders[o].stamps
                  => \E m \in moves : m.order = o /\ m.item = i
    /\ \A m \in moves :
          /\ orders[m.order] # None
          /\ "delivered" \in orders[m.order].stamps
          /\ \A i \in orders[m.order].lines :
                \E n \in moves : n.by = m.by /\ n.order = m.order /\ n.item = i

\* The customer is told of everything that happened: a committed order has its
\* confirmation mail and notification published, a committed timestamp too.
CustomerTold ==
    \A o \in Placing : orders[o] # None =>
        \A t \in {"email", "placed"} \cup orders[o].stamps :
            \E q \in queue : q.task = t /\ q.order = o

\* A committed order keeps its lines and its timestamps for ever: concurrent
\* full saves of one order row never undo each other (select_for_update).
StampsKept == [][\A o \in Placing : orders[o] # None =>
                    /\ orders'[o] # None
                    /\ orders'[o].lines = orders[o].lines
                    /\ orders[o].stamps \subseteq orders'[o].stamps]_orders

\* quantity_on_hand changes only when the delivery of an order with a line of
\* that record commits: reservations and releases, computed from instances
\* that may be stale, write their own column alone.
OnHandOnlyByDelivery ==
    [][\A s \in Stock : inv'[s].onHand # inv[s].onHand =>
          \E u \in Updating :
              /\ pc[u] = "commit" /\ pc'[u] = "done"
              /\ arg[u].status = "delivered"
              /\ \E i \in order[u].lines : InventoryOf(i) = s]_inv

\* Every request that is being served ends, whatever it had to wait for.
EveryRequestEnds == \A r \in Requests : Open(r) ~> pc[r] \in Ended

------------------------------------------------------------------------------
(* What the transactions in flight know and own: the invariant that makes   *)
(* DeliveryLogged and the two action properties on orders and on-hand       *)
(* quantities inductive.                                                    *)

InTodo(r, i) == \E k \in 1..Len(todo[r]) : todo[r][k] = i

\* Where each kind of request can be, with what arguments.
RequestsTyped ==
    /\ \A p \in Placing :
          /\ pc[p] \in {"idle", "reserve", "create", "email", "notify", "commit"} \cup Ended
          /\ Open(p) => /\ arg[p] \in [customer : Customers]
                         /\ order[p] \in Order /\ order[p].stamps = {}
          /\ pc[p] # "done" => orders[p] = None
    /\ \A u \in Updating :
          /\ pc[u] \in {"idle", "lock", "lines", "save", "commit"} \cup Ended
          /\ Open(u) => arg[u] \in [order : Placing, status : Statuses]
          /\ Busy(u) => order[u] \in Order

\* The stock loop is over exactly when the request has left it, and visits
\* lines of the order only.
LoopsBounded ==
    \A r \in Requests :
        /\ pc[r] \in {"reserve", "lines"} <=> todo[r] # <<>>
        /\ \A i \in Items : InTodo(r, i) => i \in order[r].lines

\* No inventory row, and no order row, is locked twice.
LocksExclusive ==
    /\ \A q, r \in Requests : q # r =>
          \A s \in Stock : rows[q][s] = None \/ rows[r][s] = None
    /\ \A u, v \in Updating : u # v /\ Busy(u) /\ Busy(v) => arg[u].order # arg[v].order

\* A locked order is still what was read, but for the update itself.
CopiesFresh ==
    \A u \in Updating : Busy(u) =>
        /\ orders[arg[u].order] # None
        /\ order[u].lines = orders[arg[u].order].lines
        /\ order[u].stamps = orders[arg[u].order].stamps \cup ({arg[u].status} \cap Stamped)

\* Only a delivery rewrites the on-hand column, of the records of its order.
OnHandClean ==
    \A r \in Requests, s \in Stock :
        rows[r][s] # None /\ rows[r][s].onHand # inv[s].onHand =>
            /\ r \in Updating /\ Busy(r) /\ arg[r].status = "delivered"
            /\ \E i \in order[r].lines : InventoryOf(i) = s

\* A delivery has logged the sale of every line its loop has passed.
SalesCovered ==
    /\ \A r \in Requests : ~(r \in Updating /\ Busy(r)) => sales[r] = {}
    /\ \A u \in Updating : Busy(u) =>
          /\ \A m \in sales[u] : /\ m.by = u /\ m.order = arg[u].order
                                 /\ arg[u].status = "delivered"
          /\ arg[u].status = "delivered" =>
                \A i \in order[u].lines : InTodo(u, i) \/ \E m \in sales[u] : m.item = i

OrderInv == /\ TypeOK /\ RequestsTyped /\ LoopsBounded /\ LocksExclusive
            /\ CopiesFresh /\ OnHandClean /\ SalesCovered /\ DeliveryLogged

------------------------------------------------------------------------------
\* What the inventory looks like to a caller: the whole history of an order is
\* whether it holds stock, was delivered or was cancelled.
Standing(o) == IF orders[o] = None THEN "absent"
               ELSE IF "delivered" \in orders[o].stamps THEN "delivered"
               ELSE IF "cancelled" \in orders[o].stamps THEN "cancelled"
               ELSE "open"

DemandOf(I) ==
    [s \in Stock |-> Cardinality(UNION {LineUnits(i) : i \in
                                           {j \in I : InventoryOf(j) = s}})]

Ledger == INSTANCE StockLedger WITH
    Orders   <- Placing,
    Demands  <- {DemandOf(I) : I \in SUBSET Items},
    onHand   <- [s \in Stock |-> inv[s].onHand],
    reserved <- [s \in Stock |-> inv[s].reserved],
    demand   <- [o \in Placing |-> DemandOf(IF orders[o] = None THEN {}
                                            ELSE orders[o].lines)],
    state    <- [o \in Placing |-> Standing(o)]

\* Served one at a time, the requests do to the inventory what StockLedger says
\* a whole place_order, cancellation or delivery does.
ImplementsLedger == Ledger!Spec
==============================================================================
