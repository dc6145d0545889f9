----------------------------- MODULE OrderSerial ------------------------------
(***************************************************************************)
(* The conditions under which quantity_reserved and the stock movements of *)
(* OrderService stay exact, and the invariant that shows they do: requests *)
(* in flight are apart, a cart keeps one row per record, and an order is   *)
(* settled once.  The code enforces none of the three, and TLC finds       *)
(* ReservedIsHeld violated without any one.  Carts that stand still while  *)
(* they are bought are what RowsConserved needs.                           *)
(***************************************************************************)
EXTENDS OrderService

\* Two rows of one cart are never kept in the same record: place_order and the
\* stock methods load an instance per row, and the second save undoes the first.
OneRecordPerLine ==
    \A i, j \in Items : i # j /\ OwnerOf[i] = OwnerOf[j] /\ InventoryOf(i) # None
                            => InventoryOf(i) # InventoryOf(j)

\* The statuses on which update_order_status touches the stock.
Settling == {"delivered", "cancelled"}

\* Callers settle an order once: from the statuses L an order can still be
\* settled, and nothing leads back to them from outside.
SettledOnceFrom(L) ==
    /\ L \cap Settling = {}
    /\ \A l \in Lifecycle : l[2] \in L \cup Settling => l[1] \in L

SettledOnce == \E L \in SUBSET Statuses : SettledOnceFrom(L)

------------------------------------------------------------------------------
\* A request past its first query: it has instances, and may have written rows.
Working(r) == Open(r) /\ pc[r] # "lock"

\* The items its stock loop visits, and their records.
Visiting(r) == IF r \in Placing \/ arg[r].status \in Settling THEN order[r].lines ELSE {}
RecordsOf(r) == {InventoryOf(i) : i \in Visiting(r)} \ {None}

\* Requests in flight concern different orders and different records, as two
\* customers who buy different things do.
Apart == \A q, r \in Requests : q # r =>
            /\ Open(q) /\ Open(r) => OrderOf(q) # OrderOf(r)
            /\ Working(q) /\ Working(r) => RecordsOf(q) \cap RecordsOf(r) = {}

\* Nobody fills or empties a cart between the cart query and the commit.
CartsKept == \A p \in Placing : Open(p) => order[p].lines = CartOf(arg[p].customer)

\* The service whose requests never meet.
ApartSpec == Init /\ [][Next /\ (Apart /\ CartsKept)']_vars

\* At most one request is being served.
OneAtATime == \A q, r \in Requests : Open(q) /\ Open(r) => q = r

------------------------------------------------------------------------------
\* A place_order deletes the cart rows that become its lines, nobody else any.
ClearsLines ==
    /\ \A r \in Requests : ~(r \in Placing /\ Open(r)) => cleared[r] = {}
    /\ \A p \in Placing : Open(p) =>
          cleared[p] = IF pc[p] \in {"reserve", "create"} THEN {} ELSE order[p].lines

CartInv == ClearsLines /\ shelf \cap cart = {} /\ RowsConserved

------------------------------------------------------------------------------
\* What the loop makes of the record of a line: reserve, release or deduct on
\* the committed row.
Turned(r, i) ==
    LET row  == inv[InventoryOf(i)]
        left == Clamp(row.reserved - Quantity[i])
    IN  IF r \in Placing THEN [row EXCEPT !.reserved = @ + Quantity[i]]
        ELSE [onHand   |-> IF arg[r].status = "delivered"
                           THEN Clamp(row.onHand - Quantity[i]) ELSE row.onHand,
              reserved |-> left]

\* Its instances are the committed rows; it visits every line once, and it has
\* written the records of the lines behind it, no others.
LoopExact(r) == Working(r) =>
    /\ inst[r] = Loaded(Visiting(r))
    /\ \A j, k \in 1..Len(todo[r]) : todo[r][j] = todo[r][k] => j = k
    /\ \A i \in Items : InTodo(r, i) => i \in Visiting(r)
    /\ \A i \in Visiting(r) : ~InTodo(r, i) =>
          InventoryOf(i) # None /\ rows[r][InventoryOf(i)] = Turned(r, i)
    /\ \A s \in Stock : rows[r][s] # None =>
          \E i \in Visiting(r) : InventoryOf(i) = s /\ ~InTodo(r, i)

\* Its lines are of one customer, and every line it has reserved was available.
ReservedFrom(p) == Open(p) =>
    /\ \A i, j \in order[p].lines : OwnerOf[i] = OwnerOf[j]
    /\ \A i \in order[p].lines : ~InTodo(p, i) =>
          Quantity[i] <= Available(inv[InventoryOf(i)])

\* The change it makes is one its caller may ask for; each sale it has logged
\* is of a line behind it, counted from the committed quantity.
UpdateExact(u) == Open(u) =>
    /\ orders[arg[u].order] # None =>
          <<orders[arg[u].order].status, arg[u].status>> \in Lifecycle
    /\ Busy(u) => order[u].status = arg[u].status
    /\ \A m \in sales[u] :
          /\ m.item \in order[u].lines /\ ~InTodo(u, m.item)
          /\ m.before = inv[InventoryOf(m.item)].onHand
          /\ m.after = Clamp(m.before - Quantity[m.item])

\* A committed order is of one customer, each line has its record, and while
\* callers may still settle it, it holds its stock.
OrderWhole(o, L) == orders[o] # None =>
    /\ \A i, j \in orders[o].lines : OwnerOf[i] = OwnerOf[j]
    /\ \A i \in orders[o].lines : InventoryOf(i) # None
    /\ orders[o].status \in L => Holding(o)

ApartInv(L) ==
    /\ \A r \in Requests : LoopExact(r)
    /\ \A r \in Requests : ~Working(r) => \A s \in Stock : rows[r][s] = None
    /\ \A p \in Placing : ReservedFrom(p)
    /\ \A u \in Updating : UpdateExact(u)
    /\ \A o \in Placing : OrderWhole(o, L)

\* A movement is of a line of its order, of the whole quantity, and the only one
\* of that line: the clamp of deduct never hid a unit.
MovesExact ==
    /\ \A m \in moves : /\ m.item \in orders[m.order].lines
                        /\ m.before - m.after = Quantity[m.item]
    /\ \A m, n \in moves : m.order = n.order /\ m.item = n.item => m = n
==============================================================================
