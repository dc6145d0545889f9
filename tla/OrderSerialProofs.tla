--------------------------- MODULE OrderSerialProofs --------------------------
(***************************************************************************)
(* The order service while requests in flight are apart: it implements     *)
(* StockLedger, and what is proved of the ledger holds of its rows. Served *)
(* one at a time, requests are apart.                                      *)
(***************************************************************************)
EXTENDS OrderSerial, OrderServiceProofs

\* The steps of the service; a request that is refused, finds nothing, fails or
\* is killed rolls back.
LEMMA StepKinds ==
    ASSUME [Next]_vars
    PROVE  \/ \E i \in Items : AddToCart(i)
           \/ \E p \in Placing, c \in Customers : StartPlace(p, c)
           \/ \E u \in Updating, o \in Placing, st \in Asked : StartUpdate(u, o, st)
           \/ \E r \in Requests : pc[r] # "done" /\ Rollback(r)
           \/ \E p \in Placing : \/ Reserve(p) \/ CreateOrder(p)
                                 \/ PublishEmail(p) \/ PublishPlaced(p)
           \/ \E u \in Updating : Lock(u) \/ Release(u) \/ Deduct(u) \/ PublishStatus(u)
           \/ \E r \in Requests : Commit(r)
           \/ UNCHANGED vars
  <1>1. ASSUME NEW r \in Requests, Start(r)
        PROVE  \/ \E p \in Placing, c \in Customers : StartPlace(p, c)
               \/ \E u \in Updating, o \in Placing, st \in Asked : StartUpdate(u, o, st)
               \/ pc[r] # "done" /\ Rollback(r)
    BY <1>1 DEF Start, EmptyCart
  <1>2. ASSUME NEW p \in Placing, PlaceStep(p)
        PROVE  \/ Reserve(p) \/ CreateOrder(p) \/ PublishEmail(p) \/ PublishPlaced(p)
               \/ pc[p] # "done" /\ Rollback(p)
    BY <1>2 DEF PlaceStep, ReserveRefused
  <1>3. ASSUME NEW u \in Updating, UpdateStep(u)
        PROVE  \/ Lock(u) \/ Release(u) \/ Deduct(u) \/ PublishStatus(u)
               \/ pc[u] # "done" /\ Rollback(u)
    BY <1>3 DEF UpdateStep, OrderMissing
  <1>4. ASSUME NEW r \in Requests, Abort(r) \/ BreakDeadlock(r)
        PROVE  pc[r] # "done" /\ Rollback(r)
    BY <1>4 DEF Abort, BreakDeadlock, Deadlocked, InFlight, Open, Ended
  <1>5. Placing \subseteq Requests /\ Updating \subseteq Requests
    BY DEF Requests
  <1>6. ASSUME NEW r \in Requests, Serve(r)
        PROVE  \/ Commit(r)
               \/ r \in Placing /\ PlaceStep(r)
               \/ r \in Updating /\ UpdateStep(r)
    BY <1>6 DEF Serve
  <1>7. Next => \/ \E i \in Items : AddToCart(i)
                \/ \E r \in Requests : Start(r) \/ Serve(r) \/ Abort(r) \/ BreakDeadlock(r)
                \/ UNCHANGED vars
    BY DEF Next, Finished
  <1> QED BY <1>1, <1>2, <1>3, <1>4, <1>5, <1>6, <1>7

------------------------------------------------------------------------------
\* Nobody is served: nothing is cleared, nothing is bought.
LEMMA CartInit == Init => CartInv
  <1> SUFFICES ASSUME Init PROVE CartInv
    OBVIOUS
  <1> USE DEF Init
  <1>1. \A r \in Requests : ~Open(r) /\ cleared[r] = {}
    BY DEF Open
  <1>2. \A i \in Items : {p \in Placing : orders[p] # None /\ i \in orders[p].lines} = {}
    OBVIOUS
  <1>3. RowsConserved
    BY <1>2 DEF RowsConserved
  <1> QED BY <1>1, <1>3 DEF CartInv, ClearsLines, Requests

\* A step of r that commits nothing: only what r clears has to be shown.
LEMMA CartWithin ==
    ASSUME CartInv, NEW r \in Requests,
           UNCHANGED <<cart, shelf, orders>>,
           \A q \in Requests : q # r =>
               pc'[q] = pc[q] /\ order'[q] = order[q] /\ cleared'[q] = cleared[q],
           ~(r \in Placing /\ Open(r)') => cleared'[r] = {},
           r \in Placing /\ Open(r)' =>
               cleared'[r] = IF pc'[r] \in {"reserve", "create"} THEN {} ELSE order'[r].lines
    PROVE  CartInv'
  <1>1. \A q \in Requests : q # r => (Open(q)' <=> Open(q))
    BY DEF Open
  <1>2. ClearsLines'
    BY <1>1 DEF CartInv, ClearsLines, Requests
  <1>3. (shelf \cap cart = {})' /\ RowsConserved'
    BY DEF CartInv, RowsConserved
  <1> QED BY <1>2, <1>3 DEF CartInv

\* The steps within a transaction, and its end without effect.
LEMMA CartServe ==
    ASSUME TypeOK, CartInv, CartsKept, NEW r \in Requests,
           \/ pc[r] # "done" /\ Rollback(r)
           \/ r \in Placing /\ \/ Reserve(r) \/ CreateOrder(r)
                               \/ PublishEmail(r) \/ PublishPlaced(r)
           \/ r \in Updating /\ \/ Lock(r) \/ Release(r) \/ Deduct(r)
                                \/ PublishStatus(r)
    PROVE  CartInv'
  <1> USE DEF db, memory, writes
  <1>1. CASE Rollback(r)
    <2>1. /\ pc'[r] = "failed" /\ cleared'[r] = {}
          /\ \A q \in Requests : q # r =>
                 pc'[q] = pc[q] /\ order'[q] = order[q] /\ cleared'[q] = cleared[q]
          /\ UNCHANGED <<cart, shelf, orders>>
      BY <1>1 DEF Rollback, Close, TypeOK
    <2> QED BY <2>1, CartWithin DEF Open, Ended
  <1>2. CASE r \in Placing /\ \/ Reserve(r) \/ CreateOrder(r)
                              \/ PublishEmail(r) \/ PublishPlaced(r)
    <2>1. /\ UNCHANGED <<cart, shelf, orders, arg, order>>
          /\ \A q \in Requests : q # r => pc'[q] = pc[q] /\ cleared'[q] = cleared[q]
          /\ pc[r] \in {"reserve", "create", "email", "notify"}
      BY <1>2 DEF Reserve, CreateOrder, PublishEmail, PublishPlaced, Advance, TypeOK
    <2>2. Open(r)
      BY <2>1 DEF Open, Ended
    <2>3. /\ order[r].lines = CartOf(arg[r].customer)
          /\ cleared[r] = IF pc[r] \in {"reserve", "create"} THEN {} ELSE order[r].lines
      BY <1>2, <2>2 DEF CartInv, ClearsLines, CartsKept
    <2>4. /\ pc'[r] \in {"reserve", "create", "email", "notify", "commit"}
          /\ cleared'[r] = IF pc'[r] \in {"reserve", "create"} THEN {} ELSE order[r].lines
      <3>1. CASE Reserve(r)
        BY <2>3, <3>1 DEF Reserve, Advance, TypeOK
      <3>2. CASE CreateOrder(r)
        BY <2>3, <3>2 DEF CreateOrder, TypeOK
      <3>3. CASE PublishEmail(r) \/ PublishPlaced(r)
        BY <2>3, <3>3 DEF PublishEmail, PublishPlaced, TypeOK
      <3> QED BY <1>2, <3>1, <3>2, <3>3
    <2>5. Open(r)'
      BY <2>4 DEF Open, Ended
    <2> QED BY <1>2, <2>1, <2>4, <2>5, CartWithin
  <1>3. CASE r \in Updating /\ \/ Lock(r) \/ Release(r) \/ Deduct(r)
                               \/ PublishStatus(r)
    <2>1. /\ UNCHANGED <<cart, shelf, orders, cleared>>
          /\ \A q \in Requests : q # r => pc'[q] = pc[q] /\ order'[q] = order[q]
      BY <1>3 DEF Lock, Release, Deduct, PublishStatus, Advance, TypeOK
    <2>2. r \notin Placing /\ cleared[r] = {}
      BY <1>3, RequestsAssumption DEF CartInv, ClearsLines
    <2> QED BY <2>1, <2>2, CartWithin
  <1> QED BY <1>1, <1>2, <1>3

LEMMA CartStart ==
    ASSUME TypeOK, CartInv,
           \/ \E i \in Items : AddToCart(i)
           \/ \E p \in Placing, c \in Customers : StartPlace(p, c)
           \/ \E u \in Updating, o \in Placing, st \in Asked : StartUpdate(u, o, st)
    PROVE  CartInv'
  <1> USE DEF db, memory, writes
  <1>1. /\ Placing \cap Updating = {} /\ Placing \subseteq Requests /\ Updating \subseteq Requests
        /\ \A r \in Requests : pc[r] = "idle" => cleared[r] = {}
    BY RequestsAssumption DEF Requests, CartInv, ClearsLines, Open
  <1>2. ASSUME NEW i \in Items, AddToCart(i)
        PROVE  CartInv'
    <2>1. /\ cart' = cart \cup {i} /\ shelf' = shelf \ {i} /\ i \in shelf
          /\ UNCHANGED <<orders, pc, order, cleared>>
      BY <1>2 DEF AddToCart
    <2>2. shelf' \cap cart' = {} /\ shelf' \cup cart' = shelf \cup cart
      BY <2>1 DEF CartInv
    <2>3. RowsConserved'
      BY <2>1, <2>2 DEF CartInv, RowsConserved
    <2>4. ClearsLines'
      BY <2>1 DEF CartInv, ClearsLines, Open
    <2> QED BY <2>2, <2>3, <2>4 DEF CartInv
  <1>3. ASSUME NEW p \in Placing, NEW c \in Customers, StartPlace(p, c)
        PROVE  CartInv'
    <2>1. /\ pc'[p] = "reserve" /\ cleared'[p] = {}
          /\ \A q \in Requests : q # p =>
                 pc'[q] = pc[q] /\ order'[q] = order[q] /\ cleared'[q] = cleared[q]
          /\ UNCHANGED <<cart, shelf, orders>>
      BY <1>1, <1>3 DEF StartPlace, TypeOK
    <2> QED BY <1>1, <2>1, CartWithin
  <1>4. ASSUME NEW u \in Updating, NEW o \in Placing, NEW st \in Asked, StartUpdate(u, o, st)
        PROVE  CartInv'
    <2>1. /\ cleared'[u] = {} /\ u \notin Placing
          /\ \A q \in Requests : q # u =>
                 pc'[q] = pc[q] /\ order'[q] = order[q] /\ cleared'[q] = cleared[q]
          /\ UNCHANGED <<cart, shelf, orders>>
      BY <1>1, <1>4 DEF StartUpdate, TypeOK
    <2> QED BY <1>1, <2>1, CartWithin
  <1> QED BY <1>2, <1>3, <1>4

\* place_order turns the cart it deletes into the lines of its order; an update
\* keeps the lines.
LEMMA CartCommit ==
    ASSUME OrderInv, CartInv, CartsKept, NEW r \in Requests, Commit(r)
    PROVE  CartInv'
  <1> DEFINE Bought(i) == {p \in Placing : orders[p] # None /\ i \in orders[p].lines}
  <1>1. /\ TypeOK /\ pc[r] = "commit" /\ Open(r)
        /\ Placing \cap Updating = {} /\ Placing \subseteq Requests /\ Updating \subseteq Requests
    BY RequestsAssumption DEF OrderInv, Commit, Open, Ended, Requests
  <1>2. /\ pc'[r] = "done" /\ cleared'[r] = {}
        /\ \A q \in Requests : q # r =>
               pc'[q] = pc[q] /\ order'[q] = order[q] /\ cleared'[q] = cleared[q]
    BY <1>1 DEF Commit, Close, TypeOK
  <1>3. /\ orders' = [orders EXCEPT ![OrderOf(r)] = order[r]]
        /\ cart' = cart \ cleared[r] /\ shelf' = shelf
    BY DEF Commit
  <1>4. /\ ~Open(r)' /\ \A q \in Requests : q # r => (Open(q)' <=> Open(q))
    BY <1>2 DEF Open, Ended
  <1>5. ClearsLines'
    BY <1>1, <1>2, <1>4 DEF CartInv, ClearsLines
  <1>6. ASSUME NEW i \in Items
        PROVE  IF i \in shelf \cup cart THEN Bought(i) = {} ELSE Cardinality(Bought(i)) = 1
    BY <1>6 DEF CartInv, RowsConserved
  <1>7. ASSUME NEW i \in Items
        PROVE  IF i \in shelf' \cup cart' THEN Bought(i)' = {}
               ELSE Cardinality(Bought(i)') = 1
    <2>1. CASE r \in Placing
      <3>1. /\ OrderOf(r) = r /\ orders[r] = None /\ order[r] \in Order
            /\ order[r].lines = CartOf(arg[r].customer) /\ cleared[r] = order[r].lines
        BY <1>1, <2>1 DEF OrderOf, OrderInv, RequestsTyped, CartInv, ClearsLines, CartsKept
      <3>2. orders'[r] = order[r] /\ orders'[r] # None
        BY <1>1, <1>3, <2>1, <3>1, NoneAssumption DEF TypeOK
      <3>3. \A p \in Placing : p # r => orders'[p] = orders[p]
        BY <1>1, <1>3, <3>1 DEF TypeOK
      <3>4. CASE i \in cleared[r]
        <4>1. i \in cart /\ i \notin shelf
          BY <3>1, <3>4 DEF CartOf, CartInv
        <4>2. Bought(i) = {}
          BY <1>6, <4>1
        <4>3. Bought(i)' = {r}
          BY <2>1, <3>1, <3>2, <3>3, <3>4, <4>2
        <4>4. Cardinality({r}) = 1
          BY FS_Singleton
        <4> QED BY <1>3, <3>4, <4>1, <4>3, <4>4
      <3>5. CASE i \notin cleared[r]
        <4>1. Bought(i)' = Bought(i)
          BY <2>1, <3>1, <3>2, <3>3, <3>5
        <4> QED BY <1>3, <1>6, <3>5, <4>1
      <3> QED BY <3>4, <3>5
    <2>2. CASE r \in Updating
      <3>1. /\ OrderOf(r) = arg[r].order /\ Busy(r) /\ cleared[r] = {}
        BY <1>1, <2>2 DEF OrderOf, Busy, CartInv, ClearsLines
      <3>2. /\ order[r] \in Order /\ orders[OrderOf(r)] # None
            /\ order[r].lines = orders[OrderOf(r)].lines
        BY <2>2, <3>1 DEF OrderInv, RequestsTyped, CopiesFresh
      <3>3. \A p \in Placing : /\ orders'[p] # None <=> orders[p] # None
                               /\ orders[p] # None => orders'[p].lines = orders[p].lines
        BY <1>1, <1>3, <3>2, NoneAssumption DEF TypeOK
      <3>4. Bought(i)' = Bought(i)
        BY <3>3
      <3> QED BY <1>3, <1>6, <3>1, <3>4
    <2> QED BY <2>1, <2>2 DEF Requests
  <1>8. RowsConserved'
    BY <1>7 DEF RowsConserved
  <1>9. (shelf \cap cart = {})'
    BY <1>3 DEF CartInv
  <1> QED BY <1>5, <1>8, <1>9 DEF CartInv

LEMMA CartNext == OrderInv /\ CartInv /\ CartsKept /\ [Next]_vars => CartInv'
  <1> SUFFICES ASSUME OrderInv, CartInv, CartsKept, [Next]_vars PROVE CartInv'
    OBVIOUS
  <1>1. CASE UNCHANGED vars
    BY <1>1 DEF vars, db, memory, writes, CartInv, ClearsLines, RowsConserved, Open
  <1>2. TypeOK /\ Placing \subseteq Requests /\ Updating \subseteq Requests
    BY DEF OrderInv, Requests
  <1> QED BY <1>1, <1>2, StepKinds, CartStart, CartServe, CartCommit

\* While nobody touches a cart that is being bought, no cart row is lost or bought
\* twice, whatever else is in flight and wherever a request fails.
THEOREM ApartRowsConserved == Spec /\ []CartsKept => []RowsConserved
  <1>1. CartInv => RowsConserved
    BY DEF CartInv
  <1> QED BY <1>1, CartInit, CartNext, OrderInvariant, PTL DEF Spec

------------------------------------------------------------------------------
\* Each request for itself: a step that leaves alone what q knows and has written,
\* the records it visits and the order it changes leaves what is said of q true.
LEMMA OthersStay ==
    ASSUME OrderInv, NEW L, ApartInv(L), NEW q \in Requests,
           /\ pc'[q] = pc[q] /\ arg'[q] = arg[q] /\ inst'[q] = inst[q]
           /\ order'[q] = order[q] /\ todo'[q] = todo[q]
           /\ rows'[q] = rows[q] /\ sales'[q] = sales[q],
           Working(q) => \A i \in Visiting(q) : InventoryOf(i) # None =>
                             inv'[InventoryOf(i)] = inv[InventoryOf(i)],
           Open(q) => orders'[OrderOf(q)] = orders[OrderOf(q)]
    PROVE  /\ LoopExact(q)'
           /\ ~Working(q)' => \A s \in Stock : rows'[q][s] = None
           /\ q \in Placing => ReservedFrom(q)'
           /\ q \in Updating => UpdateExact(q)'
  <1>1. /\ (Open(q)' <=> Open(q)) /\ (Working(q)' <=> Working(q)) /\ (Busy(q)' <=> Busy(q))
        /\ \A i : InTodo(q, i)' <=> InTodo(q, i)
        /\ Visiting(q)' = Visiting(q)
    BY DEF Open, Working, Busy, InTodo, Visiting
  <1>2. LoopExact(q) /\ (~Working(q) => \A s \in Stock : rows[q][s] = None)
    BY DEF ApartInv
  <1>3. Working(q) => \A i \in Visiting(q) : InventoryOf(i) # None =>
                          Turned(q, i)' = Turned(q, i)
    BY DEF Turned
  <1>4. Working(q) => Loaded(Visiting(q))' = Loaded(Visiting(q))
    BY <1>1 DEF Loaded
  <1>5. LoopExact(q)'
    BY <1>1, <1>2, <1>3, <1>4 DEF LoopExact
  <1>6. ASSUME q \in Placing PROVE ReservedFrom(q)'
    <2> SUFFICES ASSUME Open(q) PROVE ReservedFrom(q)'
      BY <1>1 DEF ReservedFrom
    <2>1. Working(q) /\ Visiting(q) = order[q].lines
      BY <1>6 DEF OrderInv, RequestsTyped, Working, Visiting, Ended
    <2>2. ReservedFrom(q)
      BY <1>6 DEF ApartInv
    <2> QED BY <1>1, <1>2, <2>1, <2>2 DEF ReservedFrom, LoopExact, Available
  <1>7. ASSUME q \in Updating PROVE UpdateExact(q)'
    <2> SUFFICES ASSUME Open(q) PROVE UpdateExact(q)'
      BY <1>1 DEF UpdateExact
    <2>1. UpdateExact(q) /\ OrderOf(q) = arg[q].order
      BY <1>7, RequestsAssumption DEF ApartInv, OrderOf
    <2>2. ASSUME NEW m \in sales[q]
          PROVE  inv'[InventoryOf(m.item)] = inv[InventoryOf(m.item)]
      <3>1. Working(q) /\ Visiting(q) = order[q].lines
        BY <2>2 DEF OrderInv, SalesCovered, Busy, Working, Open, Ended, Visiting, Settling
      <3>2. m.item \in order[q].lines /\ ~InTodo(q, m.item)
        BY <2>1, <2>2 DEF UpdateExact
      <3> QED BY <1>2, <3>1, <3>2 DEF LoopExact
    <2> QED BY <1>1, <2>1, <2>2 DEF UpdateExact
  <1> QED BY <1>1, <1>2, <1>5, <1>6, <1>7

\* A step of r that commits nothing: only what is said of r has to be shown.
LEMMA ApartWithin ==
    ASSUME OrderInv, NEW L, ApartInv(L), NEW r \in Requests, UNCHANGED <<inv, orders>>,
           \A q \in Requests : q # r =>
               /\ pc'[q] = pc[q] /\ arg'[q] = arg[q] /\ inst'[q] = inst[q]
               /\ order'[q] = order[q] /\ todo'[q] = todo[q]
               /\ rows'[q] = rows[q] /\ sales'[q] = sales[q],
           LoopExact(r)', ~Working(r)' => \A s \in Stock : rows'[r][s] = None,
           r \in Placing => ReservedFrom(r)', r \in Updating => UpdateExact(r)'
    PROVE  ApartInv(L)'
  <1>1. \A q \in Requests : q # r =>
            /\ LoopExact(q)'
            /\ ~Working(q)' => \A s \in Stock : rows'[q][s] = None
            /\ q \in Placing => ReservedFrom(q)'
            /\ q \in Updating => UpdateExact(q)'
    BY OthersStay
  <1>2. \A o \in Placing : OrderWhole(o, L)'
    BY DEF ApartInv, OrderWhole, Holding
  <1> QED BY <1>1, <1>2 DEF ApartInv, Requests

\* The initial state satisfies the invariant: nothing is written or ordered.
LEMMA ApartInit ==
    ASSUME NEW L
    PROVE  Init => ApartInv(L)
  <1> SUFFICES ASSUME Init PROVE ApartInv(L)
    OBVIOUS
  <1> USE DEF Init
  <1>1. \A r \in Requests : ~Open(r) /\ \A s \in Stock : rows[r][s] = None
    BY DEF Open
  <1>2. \A o \in Placing : orders[o] = None
    OBVIOUS
  <1> QED BY <1>1, <1>2 DEF ApartInv, LoopExact, Working, ReservedFrom, UpdateExact,
          OrderWhole, Requests

\* A loop that is about to begin on freshly read records.
LEMMA LoopStarts ==
    ASSUME NEW r \in Requests, NEW I, I \subseteq Items, NEW q \in Orderings(I),
           todo'[r] = q, inst'[r] = Loaded(I), inv' = inv, Visiting(r)' = I,
           \A s \in Stock : rows'[r][s] = None
    PROVE  LoopExact(r)' /\ \A i \in I : InTodo(r, i)'
  <1>1. IsFiniteSet(I)
    BY ItemsAssumption, FS_Subset
  <1>2. /\ q \in Seq(I) /\ Len(q) = Cardinality(I)
        /\ \A i \in I : \E k \in 1..Len(q) : q[k] = i
    BY <1>1, OrderingVisits
  <1>3. \A j, k \in 1..Len(q) : q[j] = q[k] => j = k
    BY <1>2 DEF Orderings
  <1>4. \A k \in 1..Len(q) : q[k] \in I
    BY <1>2, ElementOfSeq
  <1>5. \A i : InTodo(r, i)' <=> i \in I
    BY <1>2, <1>4 DEF InTodo
  <1>6. Loaded(I)' = Loaded(I)
    BY DEF Loaded
  <1> QED BY <1>3, <1>5, <1>6 DEF LoopExact

\* A line a loop has passed is not before it again.
LEMMA LoopDistinct ==
    ASSUME TypeOK, NEW r \in Requests, todo[r] # <<>>, NEW after, Advance(r, after),
           \A j, k \in 1..Len(todo[r]) : todo[r][j] = todo[r][k] => j = k
    PROVE  /\ \A j, k \in 1..Len(todo'[r]) : todo'[r][j] = todo'[r][k] => j = k
           /\ \A i : i = Head(todo[r]) => ~InTodo(r, i)'
  <1> DEFINE q == todo[r]
  <1>1. q \in Seq(Items) /\ q # <<>>
    BY DEF TypeOK
  <1>2. /\ Tail(q) \in Seq(Items) /\ Len(Tail(q)) = Len(q) - 1
        /\ \A k \in 1..Len(Tail(q)) : Tail(q)[k] = q[k + 1]
    BY <1>1, HeadTailProperties
  <1>3. Len(q) \in Nat \ {0} /\ Head(q) = q[1]
    BY <1>1, EmptySeq
  <1>4. todo'[r] = Tail(q)
    BY DEF Advance, TypeOK
  <1> HIDE DEF q
  <1>5. ASSUME NEW k \in 1..Len(Tail(q))
        PROVE  k \in Nat /\ 1 \in 1..Len(q) /\ k + 1 \in 1..Len(q) /\ k + 1 # 1
    BY <1>2, <1>3
  <1>6. \A j, k \in 1..Len(Tail(q)) : Tail(q)[j] = Tail(q)[k] => j = k
    <2> SUFFICES ASSUME NEW j \in 1..Len(Tail(q)), NEW k \in 1..Len(Tail(q)),
                        Tail(q)[j] = Tail(q)[k]
                 PROVE  j = k
      OBVIOUS
    <2>1. q[j + 1] = q[k + 1]
      BY <1>2
    <2>2. j + 1 = k + 1
      BY <1>5, <2>1 DEF q
    <2> QED BY <1>5, <2>2
  <1>7. \A k \in 1..Len(Tail(q)) : Tail(q)[k] # Head(q)
    BY <1>2, <1>3, <1>5 DEF q
  <1> QED BY <1>4, <1>6, <1>7 DEF InTodo, q

\* No line of one cart or order shares its record with another.
LEMMA RecordsApart ==
    ASSUME OneRecordPerLine, NEW I, I \subseteq Items,
           \A i, j \in I : OwnerOf[i] = OwnerOf[j],
           NEW i \in I, NEW j \in I, InventoryOf(i) = InventoryOf(j), InventoryOf(i) # None
    PROVE  i = j
  BY DEF OneRecordPerLine

\* The next line of a loop: its record is as it was loaded, and not yet written.
LEMMA NextRecord ==
    ASSUME TypeOK, OneRecordPerLine, NEW r \in Requests, Working(r), LoopExact(r),
           todo[r] # <<>>, \A i, j \in Visiting(r) : OwnerOf[i] = OwnerOf[j],
           Visiting(r) \subseteq Items, InventoryOf(Head(todo[r])) # None
    PROVE  /\ Head(todo[r]) \in Visiting(r)
           /\ InventoryOf(Head(todo[r])) \in Stock
           /\ Visible(r, InventoryOf(Head(todo[r]))) = inv[InventoryOf(Head(todo[r]))]
           /\ inst[r][Head(todo[r])] = inv[InventoryOf(Head(todo[r]))]
  <1> DEFINE i == Head(todo[r])
             s == InventoryOf(i)
  <1>1. todo[r] \in Seq(Items)
    BY DEF TypeOK
  <1>2. i \in Items /\ InTodo(r, i)
    <2>1. Len(todo[r]) \in Nat \ {0} /\ Head(todo[r]) = todo[r][1] /\ Head(todo[r]) \in Items
      BY <1>1, EmptySeq, HeadTailProperties
    <2>2. 1 \in 1..Len(todo[r])
      BY <2>1
    <2> QED BY <2>1, <2>2 DEF InTodo
  <1> HIDE DEF i
  <1>3. i \in Visiting(r) /\ s \in Stock
    BY <1>2, InventoryOfType DEF LoopExact, i
  <1>4. rows[r][s] = None
    <2> SUFFICES ASSUME rows[r][s] # None
                 PROVE  FALSE
      OBVIOUS
    <2>1. PICK j \in Visiting(r) : InventoryOf(j) = s /\ ~InTodo(r, j)
      BY <1>3 DEF LoopExact
    <2>2. j = i
      BY <1>3, <2>1, RecordsApart DEF i
    <2> QED BY <1>2, <2>1, <2>2
  <1>5. inst[r][i] = inv[s]
    BY <1>2, <1>3 DEF LoopExact, Loaded, i
  <1> QED BY <1>3, <1>4, <1>5 DEF Visible, i

\* One turn of a loop that writes what the method makes of the committed record.
LEMMA TurnExact ==
    ASSUME TypeOK, OneRecordPerLine, NEW r \in Requests, Working(r), LoopExact(r),
           todo[r] # <<>>, \A i, j \in Visiting(r) : OwnerOf[i] = OwnerOf[j],
           Visiting(r) \subseteq Items, InventoryOf(Head(todo[r])) # None,
           NEW after, Advance(r, after),
           rows' = [rows EXCEPT ![r][InventoryOf(Head(todo[r]))] = Turned(r, Head(todo[r]))],
           UNCHANGED <<inv, arg, inst, order>>
    PROVE  LoopExact(r)'
  <1> DEFINE i == Head(todo[r])
             s == InventoryOf(i)
             row == Turned(r, i)
  <1>1. i \in Visiting(r) /\ s \in Stock /\ s # None
    BY NextRecord
  <1>2. /\ \A j, k \in 1..Len(todo'[r]) : todo'[r][j] = todo'[r][k] => j = k
        /\ \A j : j = i => ~InTodo(r, j)'
    BY LoopDistinct DEF LoopExact
  <1>3. \A j : InTodo(r, j) <=> j = i \/ InTodo(r, j)'
    BY LoopTurn
  <1>rows. rows' = [rows EXCEPT ![r][s] = row]
    OBVIOUS
  <1>turned. \A j : Turned(r, j)' = Turned(r, j)
    BY DEF Turned
  <1>same. Visiting(r)' = Visiting(r) /\ Loaded(Visiting(r))' = Loaded(Visiting(r))
    BY DEF Visiting, Loaded
  <1> HIDE DEF i, s, row
  <1>4. rows'[r][s] = row /\ \A t \in Stock : t # s => rows'[r][t] = rows[r][t]
    BY <1>1, <1>rows DEF TypeOK
  <1>5. ASSUME NEW j \in Visiting(r), ~InTodo(r, j)'
        PROVE  InventoryOf(j) # None /\ rows'[r][InventoryOf(j)] = Turned(r, j)
    <2>1. CASE j = i
      BY <1>1, <1>4, <2>1 DEF s, row
    <2>2. CASE j # i
      <3>1. /\ ~InTodo(r, j) /\ InventoryOf(j) # None
            /\ rows[r][InventoryOf(j)] = Turned(r, j)
        BY <1>3, <1>5, <2>2 DEF LoopExact
      <3>2. InventoryOf(j) # s
        BY <1>1, <2>2, <3>1, RecordsApart DEF s
      <3>3. InventoryOf(j) \in Stock
        BY <3>1, InventoryOfType
      <3> QED BY <1>4, <3>1, <3>2, <3>3
    <2> QED BY <2>1, <2>2
  <1>6. ASSUME NEW t \in Stock, rows'[r][t] # None
        PROVE  \E j \in Visiting(r) : InventoryOf(j) = t /\ ~InTodo(r, j)'
    <2>1. CASE t = s
      BY <1>1, <1>2, <2>1 DEF s
    <2>2. CASE t # s
      <3>1. PICK j \in Visiting(r) : InventoryOf(j) = t /\ ~InTodo(r, j)
        BY <1>4, <1>6, <2>2 DEF LoopExact
      <3> QED BY <1>3, <3>1
    <2> QED BY <2>1, <2>2
  <1>7. \A j \in Items : InTodo(r, j)' => j \in Visiting(r)
    BY <1>3 DEF LoopExact
  <1>8. inst'[r] = Loaded(Visiting(r))
    BY DEF LoopExact
  <1> QED BY <1>2, <1>5, <1>6, <1>7, <1>8, <1>turned, <1>same DEF LoopExact

\* The lines of the order a request works on are of one customer.
LEMMA OneOwner ==
    ASSUME OrderInv, NEW L, ApartInv(L), NEW r \in Requests, Working(r)
    PROVE  /\ Visiting(r) \subseteq Items
           /\ \A i, j \in Visiting(r) : OwnerOf[i] = OwnerOf[j]
           /\ r \in Updating => \A i \in Visiting(r) : InventoryOf(i) # None
  <1>1. CASE r \in Placing
    <2>1. Visiting(r) = order[r].lines /\ ReservedFrom(r) /\ Open(r)
      BY <1>1 DEF Visiting, ApartInv, Working
    <2>2. order[r] \in Order
      BY <1>1, <2>1 DEF OrderInv, RequestsTyped
    <2> QED BY <1>1, <2>1, <2>2, RequestsAssumption DEF ReservedFrom, Order
  <1>2. CASE r \in Updating
    <2>1. Busy(r) /\ r \notin Placing /\ Open(r)
      BY <1>2, RequestsAssumption DEF OrderInv, RequestsTyped, Working, Open, Busy, Ended
    <2>2. /\ arg[r].order \in Placing /\ orders[arg[r].order] # None
          /\ order[r].lines = orders[arg[r].order].lines
          /\ order[r] \in Order
      BY <1>2, <2>1 DEF OrderInv, RequestsTyped, CopiesFresh
    <2>3. OrderWhole(arg[r].order, L)
      BY <2>2 DEF ApartInv
    <2> QED BY <2>1, <2>2, <2>3 DEF Visiting, OrderWhole, Order
  <1> QED BY <1>1, <1>2 DEF Requests

------------------------------------------------------------------------------
\* A place_order begins: it has read its cart and the records, and written nothing.
LEMMA ApartStartPlace ==
    ASSUME OrderInv, NEW L, ApartInv(L),
           NEW p \in Placing, NEW c \in Customers, StartPlace(p, c)
    PROVE  ApartInv(L)'
  <1> DEFINE I == CartOf(c)
  <1>1. /\ TypeOK /\ p \in Requests /\ p \notin Updating
        /\ I \subseteq Items /\ \A i, j \in I : OwnerOf[i] = OwnerOf[j]
    BY RequestsAssumption DEF OrderInv, TypeOK, Requests, CartOf
  <1>2. PICK q \in Orderings(I) : todo' = [todo EXCEPT ![p] = q]
    BY DEF StartPlace
  <1>3. /\ pc[p] = "idle"
        /\ pc' = [pc EXCEPT ![p] = "reserve"]
        /\ arg' = [arg EXCEPT ![p] = [customer |-> c]]
        /\ order' = [order EXCEPT ![p] = [lines |-> I, status |-> "pending", stamps |-> {}]]
        /\ inst' = [inst EXCEPT ![p] = Loaded(I)]
        /\ UNCHANGED <<inv, orders, rows, sales>>
    BY DEF StartPlace, db, writes
  <1> HIDE DEF I
  <1>4. /\ pc'[p] = "reserve" /\ todo'[p] = q /\ inst'[p] = Loaded(I) /\ order'[p].lines = I
        /\ \A r \in Requests : r # p =>
               /\ pc'[r] = pc[r] /\ arg'[r] = arg[r] /\ inst'[r] = inst[r]
               /\ order'[r] = order[r] /\ todo'[r] = todo[r]
               /\ rows'[r] = rows[r] /\ sales'[r] = sales[r]
    BY <1>1, <1>2, <1>3 DEF TypeOK
  <1>5. \A s \in Stock : rows'[p][s] = None
    BY <1>1, <1>3 DEF ApartInv, Working, Open
  <1>6. Visiting(p)' = I
    BY <1>4 DEF Visiting
  <1>7. LoopExact(p)' /\ \A i \in I : InTodo(p, i)'
    BY <1>1, <1>3, <1>4, <1>5, <1>6, LoopStarts
  <1>8. ReservedFrom(p)'
    BY <1>1, <1>4, <1>7 DEF ReservedFrom
  <1> QED BY <1>1, <1>3, <1>4, <1>5, <1>7, <1>8, ApartWithin

\* An update begins with a change its caller may ask for.
LEMMA ApartStartUpdate ==
    ASSUME OrderInv, NEW L, ApartInv(L),
           NEW u \in Updating, NEW o \in Placing, NEW st \in Asked, StartUpdate(u, o, st)
    PROVE  ApartInv(L)'
  <1>1. TypeOK /\ u \in Requests /\ u \notin Placing
    BY RequestsAssumption DEF OrderInv, Requests
  <1>2. /\ pc[u] = "idle" /\ pc'[u] = "lock" /\ arg'[u] = [order |-> o, status |-> st]
        /\ \A r \in Requests : r # u =>
               /\ pc'[r] = pc[r] /\ arg'[r] = arg[r] /\ inst'[r] = inst[r]
               /\ order'[r] = order[r] /\ todo'[r] = todo[r]
               /\ rows'[r] = rows[r] /\ sales'[r] = sales[r]
        /\ UNCHANGED <<inv, orders, rows, sales>>
        /\ orders[o] # None => <<orders[o].status, st>> \in Lifecycle
    BY <1>1 DEF StartUpdate, db, writes, TypeOK
  <1>3. \A s \in Stock : rows'[u][s] = None
    BY <1>1, <1>2 DEF ApartInv, Working, Open
  <1>4. ~Working(u)' /\ ~Busy(u)' /\ sales'[u] = {}
    BY <1>1, <1>2 DEF Working, Busy, OrderInv, SalesCovered
  <1>5. UpdateExact(u)'
    BY <1>2, <1>4 DEF UpdateExact
  <1>6. LoopExact(u)'
    BY <1>4 DEF LoopExact
  <1> QED BY <1>1, <1>2, <1>3, <1>5, <1>6, ApartWithin

LEMMA ApartRollback ==
    ASSUME OrderInv, NEW L, ApartInv(L), NEW r \in Requests, Rollback(r)
    PROVE  ApartInv(L)'
  <1>1. /\ pc'[r] = "failed" /\ \A s \in Stock : rows'[r][s] = None
        /\ \A q \in Requests : q # r =>
               /\ pc'[q] = pc[q] /\ arg'[q] = arg[q] /\ inst'[q] = inst[q]
               /\ order'[q] = order[q] /\ todo'[q] = todo[q]
               /\ rows'[q] = rows[q] /\ sales'[q] = sales[q]
        /\ UNCHANGED <<inv, orders>>
    BY DEF Rollback, Close, OrderInv, TypeOK, db
  <1>2. ~Open(r)' /\ ~Working(r)'
    BY <1>1 DEF Open, Working, Ended
  <1>3. LoopExact(r)' /\ ReservedFrom(r)' /\ UpdateExact(r)'
    BY <1>2 DEF LoopExact, ReservedFrom, UpdateExact
  <1> QED BY <1>1, <1>3, ApartWithin

\* Steps that move a request on with all it knows and has written.
LEMMA ApartMoveOn ==
    ASSUME OrderInv, NEW L, ApartInv(L), NEW r \in Requests,
           \/ r \in Placing /\ (CreateOrder(r) \/ PublishEmail(r) \/ PublishPlaced(r))
           \/ r \in Updating /\ PublishStatus(r)
    PROVE  ApartInv(L)'
  <1>1. /\ UNCHANGED <<inv, orders, arg, inst, order, todo, rows, sales>>
        /\ pc[r] \in {"create", "email", "notify", "save"}
        /\ r \in Updating => pc[r] = "save" /\ pc'[r] = "commit"
        /\ pc'[r] \in {"email", "notify", "commit"}
        /\ \A q \in Requests : q # r => pc'[q] = pc[q]
    BY RequestsAssumption DEF CreateOrder, PublishEmail, PublishPlaced, PublishStatus, db,
       memory, writes, OrderInv, TypeOK
  <1>2. Open(r) /\ Working(r) /\ Working(r)' /\ (r \in Updating => Busy(r))
    BY <1>1 DEF Open, Working, Busy, Ended
  <1>3. LoopExact(r)'
    <2>1. LoopExact(r)
      BY DEF ApartInv
    <2>2. Visiting(r)' = Visiting(r) /\ \A i : Turned(r, i)' = Turned(r, i)
      BY <1>1 DEF Visiting, Turned
    <2>3. Loaded(Visiting(r))' = Loaded(Visiting(r))
      BY <1>1, <2>2 DEF Loaded
    <2>4. \A i : InTodo(r, i)' <=> InTodo(r, i)
      BY <1>1 DEF InTodo
    <2> QED BY <1>1, <1>2, <2>1, <2>2, <2>3, <2>4 DEF LoopExact
  <1>4. r \in Placing => ReservedFrom(r)'
    BY <1>1, <1>2 DEF ApartInv, ReservedFrom, InTodo
  <1>5. r \in Updating => UpdateExact(r)'
    BY <1>1, <1>2 DEF ApartInv, UpdateExact, InTodo
  <1> QED BY <1>1, <1>2, <1>3, <1>4, <1>5, ApartWithin

\* A reservation adds the line to the committed quantity, and what it adds was
\* available.
LEMMA ApartReserve ==
    ASSUME OrderInv, NEW L, ApartInv(L), OneRecordPerLine,
           NEW p \in Placing, Reserve(p)
    PROVE  ApartInv(L)'
  <1> DEFINE i == Head(todo[p])
             s == InventoryOf(i)
  <1>1. /\ TypeOK /\ p \in Requests /\ p \notin Updating /\ todo[p] # <<>>
        /\ pc[p] = "reserve" /\ Open(p) /\ Working(p)
    BY RequestsAssumption DEF OrderInv, LoopsBounded, Requests, Reserve, Open, Working, Ended
  <1>2. /\ s # None /\ Available(inst[p][i]) >= Quantity[i] /\ Advance(p, "create")
        /\ rows' = [rows EXCEPT ![p][s] =
               [Visible(p, s) EXCEPT !.reserved = inst[p][i].reserved + Quantity[i]]]
        /\ UNCHANGED <<inv, orders, arg, inst, order, sales>>
    BY DEF Reserve, db
  <1>3. LoopExact(p) /\ Visiting(p) = order[p].lines
    BY <1>1 DEF ApartInv, Visiting
  <1>4. Visiting(p) \subseteq Items /\ \A j, k \in Visiting(p) : OwnerOf[j] = OwnerOf[k]
    BY <1>1, OneOwner
  <1>5. /\ i \in Visiting(p) /\ s \in Stock
        /\ Visible(p, s) = inv[s] /\ inst[p][i] = inv[s]
    BY <1>1, <1>2, <1>3, <1>4, NextRecord
  <1>6. rows' = [rows EXCEPT ![p][s] = Turned(p, i)]
    BY <1>2, <1>5 DEF Turned
  <1>7. LoopExact(p)'
    BY <1>1, <1>2, <1>3, <1>4, <1>6, TurnExact
  <1>8. /\ \A j : InTodo(p, j) <=> j = i \/ InTodo(p, j)'
        /\ pc'[p] \in {"reserve", "create"}
        /\ \A q \in Requests : q # p => pc'[q] = pc[q] /\ todo'[q] = todo[q]
    BY <1>1, <1>2, LoopTurn DEF Advance, TypeOK
  <1>9. ReservedFrom(p)'
    <2>1. Quantity[i] <= Available(inv[s])
      <3>1. Quantity[i] \in Nat /\ Available(inv[s]) \in Int
        BY <1>1, <1>4, <1>5, ItemsAssumption DEF TypeOK, Row, Available, Clamp
      <3> QED BY <1>2, <1>5, <3>1
    <2>2. \A j \in order[p].lines : ~InTodo(p, j) => Quantity[j] <= Available(inv[InventoryOf(j)])
      BY <1>1 DEF ApartInv, ReservedFrom
    <2> HIDE DEF i
    <2>3. \A j \in order[p].lines : ~InTodo(p, j)' => Quantity[j] <= Available(inv[InventoryOf(j)])
      BY <1>8, <2>1, <2>2
    <2>4. order'[p] = order[p] /\ \A j, k \in order[p].lines : OwnerOf[j] = OwnerOf[k]
      BY <1>2, <1>3, <1>4
    <2> QED BY <1>2, <2>3, <2>4 DEF ReservedFrom, Available
  <1>10. \A q \in Requests : q # p => rows'[q] = rows[q]
    BY <1>1, <1>6 DEF TypeOK
  <1>11. Working(p)'
    BY <1>8 DEF Working, Open, Ended
  <1> QED BY <1>1, <1>2, <1>7, <1>8, <1>9, <1>10, <1>11, ApartWithin

\* An update that has locked its order begins its loop on freshly read records.
LEMMA ApartLock ==
    ASSUME OrderInv, NEW L, ApartInv(L), NEW u \in Updating, Lock(u)
    PROVE  ApartInv(L)'
  <1> DEFINE o == orders[arg[u].order]
             st == arg[u].status
             I == IF st \in {"delivered", "cancelled"} THEN o.lines ELSE {}
             copy == [o EXCEPT !.status = st, !.stamps = @ \cup ({st} \cap Stamped)]
  <1>1. /\ TypeOK /\ u \in Requests /\ u \notin Placing /\ pc[u] = "lock"
        /\ Open(u) /\ ~Working(u) /\ ~Busy(u) /\ o # None
    BY RequestsAssumption DEF OrderInv, Lock, Requests, Open, Working, Busy, Ended
  <1>2. arg[u].order \in Placing /\ o \in Order
    BY <1>1 DEF OrderInv, RequestsTyped, TypeOK
  <1>3. PICK q \in Orderings(I) : todo' = [todo EXCEPT ![u] = q]
    BY DEF Lock
  <1>4. /\ pc' = [pc EXCEPT ![u] = IF I = {} THEN "save" ELSE "lines"]
        /\ order' = [order EXCEPT ![u] = copy]
        /\ inst' = [inst EXCEPT ![u] = Loaded(I)]
        /\ UNCHANGED <<inv, orders, arg, rows, sales>>
    BY DEF Lock, db, writes
  <1>5. copy.lines = o.lines /\ copy.status = st /\ I \subseteq Items
    BY <1>2 DEF Order
  <1>6. I = IF st \in Settling THEN o.lines ELSE {}
    BY DEF Settling
  <1> HIDE DEF I, copy
  <1>7. /\ pc'[u] \in {"save", "lines"} /\ todo'[u] = q /\ inst'[u] = Loaded(I)
        /\ order'[u] = copy
        /\ \A r \in Requests : r # u => /\ pc'[r] = pc[r] /\ inst'[r] = inst[r]
                                        /\ order'[r] = order[r] /\ todo'[r] = todo[r]
    BY <1>1, <1>3, <1>4 DEF TypeOK
  <1>8. \A s \in Stock : rows'[u][s] = None
    BY <1>1, <1>4 DEF ApartInv
  <1>9. Visiting(u)' = I
    BY <1>1, <1>4, <1>5, <1>6, <1>7 DEF Visiting
  <1>10. LoopExact(u)'
    BY <1>1, <1>4, <1>5, <1>7, <1>8, <1>9, LoopStarts
  <1>11. UpdateExact(u)'
    <2>1. sales'[u] = {}
      BY <1>1, <1>4 DEF OrderInv, SalesCovered
    <2>2. UpdateExact(u)
      BY DEF ApartInv
    <2> QED BY <1>1, <1>4, <1>5, <1>7, <2>1, <2>2 DEF UpdateExact
  <1> QED BY <1>1, <1>4, <1>7, <1>8, <1>10, <1>11, ApartWithin

\* A release or a deduction takes the line from the committed quantities.
LEMMA ApartSettle ==
    ASSUME OrderInv, NEW L, ApartInv(L), OneRecordPerLine,
           NEW u \in Updating, Release(u) \/ Deduct(u)
    PROVE  ApartInv(L)'
  <1> DEFINE i == Head(todo[u])
             s == InventoryOf(i)
             left == Clamp(inst[u][i].onHand - Quantity[i])
             sale == [by |-> u, order |-> arg[u].order, item |-> i,
                      before |-> inst[u][i].onHand, after |-> left]
  <1>1. /\ TypeOK /\ u \in Requests /\ u \notin Placing /\ todo[u] # <<>>
        /\ pc[u] = "lines" /\ Open(u) /\ Working(u) /\ Busy(u)
        /\ arg[u].status \in Settling
    BY RequestsAssumption DEF OrderInv, LoopsBounded, Requests, Release, Deduct, Open,
       Working, Busy, Ended, Settling
  <1>2. /\ Advance(u, "save")
        /\ UNCHANGED <<inv, orders, arg, inst, order>>
    BY DEF Release, Deduct, db
  <1>3. LoopExact(u) /\ Visiting(u) = order[u].lines
    BY <1>1 DEF ApartInv, Visiting
  <1>4. /\ Visiting(u) \subseteq Items /\ \A j, k \in Visiting(u) : OwnerOf[j] = OwnerOf[k]
        /\ \A j \in Visiting(u) : InventoryOf(j) # None
    BY <1>1, OneOwner
  <1>5. i \in Items /\ InTodo(u, i)
    BY <1>1, <1>2, LoopTurn
  <1>6. s # None
    BY <1>1, <1>3, <1>4, <1>5 DEF LoopExact
  <1>7. /\ i \in Visiting(u) /\ s \in Stock
        /\ Visible(u, s) = inv[s] /\ inst[u][i] = inv[s]
    BY <1>1, <1>3, <1>4, <1>6, NextRecord
  <1>8. rows' = [rows EXCEPT ![u][s] = Turned(u, i)]
    <2>1. inv[s] \in Row
      BY <1>1, <1>7 DEF TypeOK
    <2>2. CASE Release(u)
      <3>1. rows' = [rows EXCEPT ![u][s] = [inv[s] EXCEPT
                        !.reserved = Clamp(inv[s].reserved - Quantity[i])]]
        BY <1>7, <2>2 DEF Release
      <3>2. arg[u].status # "delivered"
        BY <2>2 DEF Release
      <3> HIDE DEF i
      <3>3. [inv[s] EXCEPT !.reserved = Clamp(inv[s].reserved - Quantity[i])] = Turned(u, i)
        BY <1>1, <2>1, <3>2 DEF Turned, Row
      <3> QED BY <3>1, <3>3
    <2>3. CASE Deduct(u)
      BY <1>1, <1>7, <2>3 DEF Deduct, Turned
    <2> QED BY <2>2, <2>3
  <1>9. LoopExact(u)'
    BY <1>1, <1>2, <1>3, <1>4, <1>6, <1>8, TurnExact
  <1>10. /\ \A j : InTodo(u, j) <=> j = i \/ InTodo(u, j)'
         /\ pc'[u] \in {"lines", "save"}
         /\ \A q \in Requests : q # u => pc'[q] = pc[q]
    BY <1>1, <1>2, LoopTurn
  <1>11. \A j : j = i => ~InTodo(u, j)'
    BY <1>1, <1>2, <1>3, LoopDistinct DEF LoopExact
  <1>12. sales'[u] \subseteq sales[u] \cup {sale}
    BY <1>1 DEF Release, Deduct, TypeOK
  <1>13. UpdateExact(u)'
    <2>1. UpdateExact(u)
      BY DEF ApartInv
    <2>2. /\ sale.item = i /\ sale.before = inv[InventoryOf(sale.item)].onHand
          /\ sale.after = Clamp(sale.before - Quantity[sale.item])
      BY <1>7
    <2> HIDE DEF i, sale
    <2>3. ASSUME NEW m \in sales'[u]
          PROVE  /\ m.item \in order[u].lines /\ ~InTodo(u, m.item)'
                 /\ m.before = inv[InventoryOf(m.item)].onHand
                 /\ m.after = Clamp(m.before - Quantity[m.item])
      <3>1. CASE m \in sales[u]
        BY <1>1, <1>10, <2>1, <3>1 DEF UpdateExact
      <3>2. CASE m = sale
        BY <1>3, <1>7, <1>11, <2>2, <3>2
      <3> QED BY <1>12, <3>1, <3>2
    <2> QED BY <1>1, <1>2, <2>1, <2>3 DEF UpdateExact
  <1>14. \A q \in Requests : q # u => /\ pc'[q] = pc[q] /\ todo'[q] = todo[q]
                                      /\ rows'[q] = rows[q] /\ sales'[q] = sales[q]
    <2>1. \A q \in Requests : q # u => sales'[q] = sales[q]
      BY <1>1 DEF Release, Deduct, TypeOK
    <2> QED BY <1>1, <1>2, <1>8, <2>1 DEF Advance, TypeOK
  <1>15. Working(u)'
    BY <1>10 DEF Working, Open, Ended
  <1> QED BY <1>1, <1>2, <1>9, <1>13, <1>14, <1>15, ApartWithin

------------------------------------------------------------------------------
\* What a commit does to the inventory: the records of the visited lines become
\* what the method made of them, all others stay.
LEMMA CommitTurns ==
    ASSUME OrderInv, NEW L, ApartInv(L), NEW r \in Requests, Commit(r)
    PROVE  /\ \A i \in Visiting(r) : /\ InventoryOf(i) \in Stock
                                     /\ inv'[InventoryOf(i)] = Turned(r, i)
           /\ \A s \in Stock : (\A i \in Visiting(r) : InventoryOf(i) # s)
                                   => inv'[s] = inv[s]
  <1>1. TypeOK /\ pc[r] = "commit" /\ Working(r)
    BY DEF OrderInv, Commit, Open, Working, Ended
  <1>2. \A i : ~InTodo(r, i)
    BY <1>1, EmptySeq DEF OrderInv, LoopsBounded, InTodo
  <1>3. LoopExact(r) /\ Visiting(r) \subseteq Items
    BY <1>1, OneOwner DEF ApartInv
  <1>4. \A s \in Stock : inv'[s] = Visible(r, s)
    BY DEF Commit
  <1>5. ASSUME NEW i \in Visiting(r)
        PROVE  InventoryOf(i) \in Stock /\ inv'[InventoryOf(i)] = Turned(r, i)
    <2>1. InventoryOf(i) \in Stock /\ rows[r][InventoryOf(i)] = Turned(r, i)
      BY <1>1, <1>2, <1>3, <1>5, InventoryOfType DEF LoopExact
    <2>2. inv[InventoryOf(i)] \in Row /\ i \in Items
      BY <1>1, <1>3, <2>1, <1>5 DEF TypeOK
    <2>3. Turned(r, i) \in Row
      BY <2>2, ItemsAssumption DEF Turned, Row, Clamp
    <2>4. Turned(r, i) # None
      BY <2>3, NoneAssumption
    <2> QED BY <1>4, <2>1, <2>4 DEF Visible
  <1>6. ASSUME NEW s \in Stock, \A i \in Visiting(r) : InventoryOf(i) # s
        PROVE  inv'[s] = inv[s]
    BY <1>1, <1>3, <1>4, <1>6 DEF LoopExact, Visible
  <1> QED BY <1>5, <1>6

\* The records a commit changes are of lines it visits: no other request in flight
\* has read or written them, and none concerns the order it changes.
LEMMA CommitElsewhere ==
    ASSUME OrderInv, NEW L, ApartInv(L), Apart, NEW r \in Requests, Commit(r),
           NEW q \in Requests, q # r
    PROVE  /\ Working(q) => \A i \in Visiting(q) : InventoryOf(i) # None =>
                                inv'[InventoryOf(i)] = inv[InventoryOf(i)]
           /\ Open(q) => orders'[OrderOf(q)] = orders[OrderOf(q)]
  <1>1. /\ TypeOK /\ Open(r) /\ Working(r)
        /\ orders' = [orders EXCEPT ![OrderOf(r)] = order[r]]
        /\ Placing \subseteq Requests /\ Updating \subseteq Requests
    BY DEF OrderInv, Commit, Open, Working, Ended, Requests
  <1>2. ASSUME Working(q), NEW i \in Visiting(q), InventoryOf(i) # None
        PROVE  inv'[InventoryOf(i)] = inv[InventoryOf(i)]
    <2>1. i \in Items
      BY <1>2, OneOwner
    <2>2. InventoryOf(i) \in Stock /\ InventoryOf(i) \in RecordsOf(q)
      BY <1>2, <2>1, InventoryOfType DEF RecordsOf
    <2>3. InventoryOf(i) \notin RecordsOf(r)
      BY <1>1, <1>2, <2>2 DEF Apart
    <2>4. \A j \in Visiting(r) : InventoryOf(j) # InventoryOf(i)
      BY <1>2, <2>3 DEF RecordsOf
    <2> QED BY <2>2, <2>4, CommitTurns
  <1>3. ASSUME Open(q)
        PROVE  orders'[OrderOf(q)] = orders[OrderOf(q)]
    <2>1. OrderOf(q) # OrderOf(r)
      BY <1>1, <1>3 DEF Apart
    <2>2. OrderOf(q) \in Placing
      BY <1>3 DEF OrderOf, OrderInv, RequestsTyped, Requests
    <2> QED BY <1>1, <2>1, <2>2 DEF TypeOK
  <1> QED BY <1>2, <1>3

\* An order that is committed is whole: placed, it has a record for every line;
\* changed, it can still be settled only if it could before and was not.
LEMMA CommitWhole ==
    ASSUME OrderInv, NEW L, ApartInv(L), L = {} \/ SettledOnceFrom(L),
           NEW r \in Requests, Commit(r), NEW p \in Placing
    PROVE  OrderWhole(p, L)'
  <1> DEFINE o == OrderOf(r)
  <1>1. /\ TypeOK /\ pc[r] = "commit" /\ Open(r) /\ Working(r)
        /\ orders' = [orders EXCEPT ![o] = order[r]]
        /\ Placing \cap Updating = {} /\ Placing \subseteq Requests /\ Updating \subseteq Requests
    BY RequestsAssumption DEF OrderInv, Commit, Open, Working, Ended, Requests
  <1>2. \A i : ~InTodo(r, i)
    BY <1>1, EmptySeq DEF OrderInv, LoopsBounded, InTodo
  <1>3. ASSUME orders'[p] # None
        PROVE  /\ \A i, j \in orders'[p].lines : OwnerOf[i] = OwnerOf[j]
               /\ \A i \in orders'[p].lines : InventoryOf(i) # None
               /\ orders'[p].status \in L =>
                      orders'[p].stamps \cap {"delivered", "cancelled"} = {}
    <2>1. CASE p # o
      <3>1. orders'[p] = orders[p] /\ OrderWhole(p, L)
        BY <1>1, <2>1 DEF TypeOK, ApartInv
      <3> QED BY <1>3, <3>1 DEF OrderWhole, Holding
    <2>2. CASE p = o /\ r \in Placing
      <3>1. orders'[p] = order[r]
        BY <1>1, <2>2 DEF TypeOK
      <3>2. \A i, j \in order[r].lines : OwnerOf[i] = OwnerOf[j]
        BY <1>1, <2>2 DEF ApartInv, ReservedFrom
      <3>3. \A i \in order[r].lines : InventoryOf(i) # None
        BY <1>1, <1>2, <2>2 DEF ApartInv, LoopExact, Visiting
      <3>4. order[r].stamps = {}
        BY <1>1, <2>2 DEF OrderInv, RequestsTyped
      <3> QED BY <3>1, <3>2, <3>3, <3>4
    <2>3. CASE p = o /\ r \in Updating
      <3>1. /\ Busy(r) /\ p = arg[r].order /\ r \notin Placing
            /\ orders[p] # None
            /\ order[r].lines = orders[p].lines
            /\ order[r].stamps = orders[p].stamps \cup ({arg[r].status} \cap Stamped)
        BY <1>1, <2>3 DEF Busy, OrderOf, OrderInv, CopiesFresh
      <3>2. orders'[p] = order[r]
        BY <1>1, <2>3 DEF TypeOK
      <3>3. /\ <<orders[p].status, arg[r].status>> \in Lifecycle
            /\ order[r].status = arg[r].status
        BY <1>1, <2>3, <3>1 DEF ApartInv, UpdateExact
      <3>4. OrderWhole(p, L)
        BY DEF ApartInv
      <3>5. ASSUME order[r].status \in L
            PROVE  order[r].stamps \cap {"delivered", "cancelled"} = {}
        <4>1. orders[p].status \in L
          BY <3>3, <3>5 DEF SettledOnceFrom
        <4>2. orders[p].stamps \cap {"delivered", "cancelled"} = {}
          BY <3>1, <3>4, <4>1 DEF OrderWhole, Holding
        <4>3. arg[r].status \notin {"delivered", "cancelled"}
          BY <3>3, <3>5 DEF SettledOnceFrom, Settling
        <4> QED BY <3>1, <4>2, <4>3
      <3> QED BY <3>1, <3>2, <3>4, <3>5 DEF OrderWhole
    <2> QED BY <2>1, <2>2, <2>3 DEF Requests
  <1> QED BY <1>3 DEF OrderWhole, Holding

LEMMA ApartCommit ==
    ASSUME OrderInv, NEW L, ApartInv(L), Apart, L = {} \/ SettledOnceFrom(L),
           NEW r \in Requests, Commit(r)
    PROVE  ApartInv(L)'
  <1>1. /\ pc'[r] = "done" /\ \A s \in Stock : rows'[r][s] = None
        /\ \A q \in Requests : q # r =>
               /\ pc'[q] = pc[q] /\ arg'[q] = arg[q] /\ inst'[q] = inst[q]
               /\ order'[q] = order[q] /\ todo'[q] = todo[q]
               /\ rows'[q] = rows[q] /\ sales'[q] = sales[q]
    BY DEF OrderInv, Commit, Close, TypeOK
  <1>2. ~Open(r)' /\ ~Working(r)'
    BY <1>1 DEF Open, Working, Ended
  <1>3. LoopExact(r)' /\ ReservedFrom(r)' /\ UpdateExact(r)'
    BY <1>2 DEF LoopExact, ReservedFrom, UpdateExact
  <1>4. \A q \in Requests : q # r =>
            /\ LoopExact(q)'
            /\ ~Working(q)' => \A s \in Stock : rows'[q][s] = None
            /\ q \in Placing => ReservedFrom(q)'
            /\ q \in Updating => UpdateExact(q)'
    BY <1>1, CommitElsewhere, OthersStay
  <1>5. \A o \in Placing : OrderWhole(o, L)'
    BY CommitWhole
  <1> QED BY <1>1, <1>3, <1>4, <1>5 DEF ApartInv, Requests

LEMMA ApartNext ==
    ASSUME OneRecordPerLine, NEW L, L = {} \/ SettledOnceFrom(L)
    PROVE  OrderInv /\ ApartInv(L) /\ Apart /\ [Next]_vars => ApartInv(L)'
  <1> SUFFICES ASSUME OrderInv, ApartInv(L), Apart, [Next]_vars
               PROVE  ApartInv(L)'
    OBVIOUS
  <1>1. CASE UNCHANGED vars \/ \E i \in Items : AddToCart(i)
    <2>1. UNCHANGED <<inv, orders, pc, arg, inst, order, todo, rows, sales>>
      BY <1>1 DEF AddToCart, vars, db, memory, writes
    <2>2. \A q \in Requests : /\ LoopExact(q)'
                              /\ ~Working(q)' => \A s \in Stock : rows'[q][s] = None
                              /\ q \in Placing => ReservedFrom(q)'
                              /\ q \in Updating => UpdateExact(q)'
      BY <2>1, OthersStay
    <2>3. \A o \in Placing : OrderWhole(o, L)'
      BY <2>1 DEF ApartInv, OrderWhole, Holding
    <2> QED BY <2>2, <2>3 DEF ApartInv, Requests
  <1>2. Placing \subseteq Requests /\ Updating \subseteq Requests
    BY DEF Requests
  <1> QED BY <1>1, <1>2, StepKinds, ApartStartPlace, ApartStartUpdate, ApartRollback,
          ApartReserve, ApartMoveOn, ApartLock, ApartSettle, ApartCommit

\* The invariant of requests that are apart; for callers that ask for anything, with
\* no status in which an order is known to hold its stock.
LEMMA ApartInvariant ==
    ASSUME OneRecordPerLine, NEW CONSTANT L, L = {} \/ SettledOnceFrom(L)
    PROVE  Spec /\ []Apart => [](OrderInv /\ ApartInv(L))
  <1>1. Init => ApartInv(L)
    BY ApartInit
  <1>2. OrderInv /\ ApartInv(L) /\ Apart /\ [Next]_vars => ApartInv(L)'
    BY ApartNext
  <1> QED BY <1>1, <1>2, OrderInvariant, PTL DEF Spec

\* An update that touches the stock is of an order that holds some.
LEMMA SettlesHeld ==
    ASSUME NEW L, ApartInv(L), SettledOnceFrom(L), NEW u \in Updating, Open(u),
           arg[u].order \in Placing, orders[arg[u].order] # None,
           arg[u].status \in Settling
    PROVE  Holding(arg[u].order)
  <1>1. <<orders[arg[u].order].status, arg[u].status>> \in Lifecycle
    BY DEF ApartInv, UpdateExact
  <1>2. orders[arg[u].order].status \in L
    BY <1>1 DEF SettledOnceFrom
  <1> QED BY <1>2 DEF ApartInv, OrderWhole

------------------------------------------------------------------------------
\* The theorems of the abstract ledger, about the rows of this service.
Abstract == INSTANCE StockLedgerProofs WITH
    Orders   <- Placing,
    Demands  <- {DemandOf(I) : I \in SUBSET Items},
    onHand   <- [s \in Stock |-> inv[s].onHand],
    reserved <- [s \in Stock |-> inv[s].reserved],
    demand   <- [o \in Placing |-> DemandOf(IF orders[o] = None THEN {}
                                            ELSE orders[o].lines)],
    state    <- [o \in Placing |-> Standing(o)]

\* The assumptions of the ledger hold of the demands of cart rows.
LEMMA LineUnitsCount ==
    ASSUME NEW i \in Items
    PROVE  IsFiniteSet(LineUnits(i)) /\ Cardinality(LineUnits(i)) = Quantity[i]
  <1>1. Quantity[i] \in Nat
    BY ItemsAssumption
  <1>2. IsFiniteSet(1..Quantity[i]) /\ Cardinality(1..Quantity[i]) = Quantity[i]
    <2>1. /\ IsFiniteSet(1..Quantity[i])
          /\ Cardinality(1..Quantity[i])
                 = IF 1 > Quantity[i] THEN 0 ELSE Quantity[i] - 1 + 1
      BY <1>1, FS_Interval
    <2> QED BY <1>1, <2>1
  <1>3. IsFiniteSet({i}) /\ Cardinality({i}) = 1
    BY FS_Singleton
  <1>4. /\ IsFiniteSet({i} \X (1..Quantity[i]))
        /\ Cardinality({i} \X (1..Quantity[i])) = Cardinality({i}) * Cardinality(1..Quantity[i])
    BY <1>2, <1>3, FS_Product
  <1> QED BY <1>1, <1>2, <1>3, <1>4 DEF LineUnits

LEMMA DemandType ==
    /\ {DemandOf(I) : I \in SUBSET Items} \subseteq [Stock -> Nat]
    /\ DemandOf({}) = [s \in Stock |-> 0]
  <1>1. ASSUME NEW I \in SUBSET Items, NEW s \in Stock
        PROVE  Cardinality(UNION {LineUnits(i) : i \in {j \in I : InventoryOf(j) = s}}) \in Nat
    <2> DEFINE J == {j \in I : InventoryOf(j) = s}
               K == {LineUnits(i) : i \in J}
    <2>1. IsFiniteSet(J)
      <3>1. J \subseteq Items
        OBVIOUS
      <3> QED BY <3>1, ItemsAssumption, FS_Subset
    <2>2. IsFiniteSet(K)
      <3> DEFINE f == [i \in J |-> LineUnits(i)]
      <3>1. f \in [J -> K] /\ \A k \in K : \E i \in J : f[i] = k
        OBVIOUS
      <3>2. f \in Surjection(J, K)
        BY <3>1 DEF Surjection
      <3> QED BY <2>1, <3>2, FS_Surjection
    <2>3. \A k \in K : IsFiniteSet(k)
      BY LineUnitsCount
    <2>4. IsFiniteSet(UNION K)
      BY <2>2, <2>3, FS_UNION
    <2> QED BY <2>4, FS_CardinalityType
  <1>2. \A I \in SUBSET Items : DemandOf(I) \in [Stock -> Nat]
    BY <1>1 DEF DemandOf
  <1>3. ASSUME NEW s \in Stock
        PROVE  Cardinality(UNION {LineUnits(i) : i \in {j \in {} : InventoryOf(j) = s}}) = 0
    <2>1. UNION {LineUnits(i) : i \in {j \in {} : InventoryOf(j) = s}} = {}
      OBVIOUS
    <2> QED BY <2>1, FS_EmptySet
  <1>4. DemandOf({}) = [s \in Stock |-> 0]
    BY <1>3 DEF DemandOf
  <1> QED BY <1>2, <1>4

\* The demand of an order on a record is that of its only line there.
LEMMA DemandOne ==
    ASSUME OneRecordPerLine, NEW I, I \subseteq Items,
           \A i, j \in I : OwnerOf[i] = OwnerOf[j], NEW s \in Stock
    PROVE  /\ \A i \in I : InventoryOf(i) = s => DemandOf(I)[s] = Quantity[i]
           /\ (\A i \in I : InventoryOf(i) # s) => DemandOf(I)[s] = 0
  <1> DEFINE J == {j \in I : InventoryOf(j) = s}
  <1>1. DemandOf(I)[s] = Cardinality(UNION {LineUnits(i) : i \in J})
    BY DEF DemandOf
  <1>2. ASSUME NEW i \in I, InventoryOf(i) = s
        PROVE  DemandOf(I)[s] = Quantity[i]
    <2>1. J = {i}
      BY <1>2, RecordsApart, NoneAssumption
    <2>2. UNION {LineUnits(j) : j \in J} = LineUnits(i)
      BY <2>1
    <2> QED BY <1>1, <2>2, LineUnitsCount
  <1>3. ASSUME \A i \in I : InventoryOf(i) # s
        PROVE  DemandOf(I)[s] = 0
    <2>1. UNION {LineUnits(j) : j \in J} = {}
      BY <1>3
    <2>2. Cardinality({}) = 0
      BY FS_EmptySet
    <2> QED BY <1>1, <2>1, <2>2
  <1> QED BY <1>2, <1>3

------------------------------------------------------------------------------
\* The commit of a place_order is one Place of the ledger.
LEMMA CommitPlaces ==
    ASSUME OrderInv, NEW L, ApartInv(L), OneRecordPerLine,
           NEW p \in Placing, Commit(p)
    PROVE  /\ order[p].lines \in SUBSET Items
           /\ Standing(p) = "absent" /\ Standing(p)' = "open"
           /\ orders' = [orders EXCEPT ![p] = order[p]] /\ order[p] # None
           /\ \A s \in Stock :
                 LET d == DemandOf(order[p].lines)[s]
                 IN  /\ Available(inv[s]) >= d
                     /\ inv'[s].onHand = inv[s].onHand
                     /\ inv'[s].reserved = inv[s].reserved + d
  <1> DEFINE I == order[p].lines
             Placed(s) == /\ Available(inv[s]) >= DemandOf(I)[s]
                          /\ inv'[s].onHand = inv[s].onHand
                          /\ inv'[s].reserved = inv[s].reserved + DemandOf(I)[s]
  <1>1. /\ TypeOK /\ p \in Requests /\ pc[p] = "commit" /\ Open(p) /\ Working(p)
        /\ orders[p] = None
    BY DEF OrderInv, Commit, Open, Working, Ended, Requests, RequestsTyped
  <1>2. /\ order[p] \in Order /\ order[p].stamps = {} /\ order[p] # None
        /\ orders' = [orders EXCEPT ![p] = order[p]]
    BY <1>1, NoneAssumption DEF OrderInv, RequestsTyped, Commit, OrderOf
  <1>3. /\ Visiting(p) = I /\ I \subseteq Items
        /\ \A i, j \in I : OwnerOf[i] = OwnerOf[j]
    BY <1>1, OneOwner DEF Visiting
  <1>4. \A i : ~InTodo(p, i)
    BY <1>1, EmptySeq DEF OrderInv, LoopsBounded, InTodo
  <1>5. \A i \in I : Quantity[i] <= Available(inv[InventoryOf(i)])
    BY <1>1, <1>4 DEF ApartInv, ReservedFrom
  <1>6. Standing(p) = "absent" /\ Standing(p)' = "open"
    BY <1>1, <1>2 DEF Standing, TypeOK
  <1>7. ASSUME NEW s \in Stock
        PROVE  Placed(s)
    <2>1. inv[s] \in Row /\ Available(inv[s]) \in Nat
      BY <1>1 DEF TypeOK, Row, Available, Clamp
    <2>2. ASSUME NEW i \in I, InventoryOf(i) = s
          PROVE  Placed(s)
      <3>1. inv'[s] = Turned(p, i) /\ DemandOf(I)[s] = Quantity[i]
        BY <1>1, <1>3, <2>2, CommitTurns, DemandOne
      <3>2. Turned(p, i) = [inv[s] EXCEPT !.reserved = @ + Quantity[i]]
        BY <2>2 DEF Turned
      <3>3. Quantity[i] \in Nat /\ Quantity[i] <= Available(inv[s])
        BY <1>3, <1>5, <2>2, ItemsAssumption
      <3> QED BY <2>1, <3>1, <3>2, <3>3 DEF Row
    <2>3. ASSUME \A i \in I : InventoryOf(i) # s
          PROVE  Placed(s)
      <3>1. inv'[s] = inv[s] /\ DemandOf(I)[s] = 0
        BY <1>1, <1>3, <2>3, CommitTurns, DemandOne
      <3> QED BY <2>1, <3>1 DEF Row
    <2> QED BY <2>2, <2>3
  <1> QED BY <1>2, <1>3, <1>6, <1>7

\* The commit of a delivery or a cancellation is one Deliver or Cancel.
LEMMA CommitSettles ==
    ASSUME OrderInv, NEW L, ApartInv(L), OneRecordPerLine, SettledOnceFrom(L),
           NEW u \in Updating, Commit(u), arg[u].status \in Settling
    PROVE  LET o == arg[u].order
               I == orders[o].lines
           IN  /\ o \in Placing /\ orders[o] # None /\ Standing(o) = "open"
               /\ orders' = [orders EXCEPT ![o] = order[u]] /\ order[u] # None
               /\ order[u].lines = I
               /\ arg[u].status = "delivered" => "delivered" \in order[u].stamps
               /\ arg[u].status = "cancelled" => /\ "delivered" \notin order[u].stamps
                                                 /\ "cancelled" \in order[u].stamps
               /\ \A s \in Stock :
                     /\ inv'[s].onHand = IF arg[u].status = "delivered"
                                         THEN Clamp(inv[s].onHand - DemandOf(I)[s])
                                         ELSE inv[s].onHand
                     /\ inv'[s].reserved = Clamp(inv[s].reserved - DemandOf(I)[s])
  <1> DEFINE o == arg[u].order
             I == orders[o].lines
             Settled(s) == /\ inv'[s].onHand = IF arg[u].status = "delivered"
                                               THEN Clamp(inv[s].onHand - DemandOf(I)[s])
                                               ELSE inv[s].onHand
                           /\ inv'[s].reserved = Clamp(inv[s].reserved - DemandOf(I)[s])
  <1>1. /\ TypeOK /\ u \in Requests /\ u \notin Placing /\ pc[u] = "commit"
        /\ Open(u) /\ Working(u) /\ Busy(u)
    BY RequestsAssumption DEF OrderInv, Commit, Open, Working, Busy, Ended, Requests
  <1>2. /\ o \in Placing /\ orders[o] # None /\ order[u] \in Order /\ order[u] # None
        /\ order[u].lines = I
        /\ order[u].stamps = orders[o].stamps \cup ({arg[u].status} \cap Stamped)
        /\ orders' = [orders EXCEPT ![o] = order[u]]
    BY <1>1, NoneAssumption DEF OrderInv, RequestsTyped, CopiesFresh, Commit, OrderOf
  <1>3. Holding(o)
    BY <1>1, <1>2, SettlesHeld
  <1>4. /\ Standing(o) = "open"
        /\ arg[u].status = "delivered" => "delivered" \in order[u].stamps
        /\ arg[u].status = "cancelled" => /\ "delivered" \notin order[u].stamps
                                          /\ "cancelled" \in order[u].stamps
    BY <1>2, <1>3 DEF Holding, Standing, Stamped
  <1>5. /\ Visiting(u) = I /\ I \subseteq Items
        /\ \A i, j \in I : OwnerOf[i] = OwnerOf[j]
    BY <1>1, <1>2, OneOwner DEF Visiting
  <1>6. ASSUME NEW s \in Stock
        PROVE  Settled(s)
    <2>1. inv[s] \in Row
      BY <1>1 DEF TypeOK
    <2>2. ASSUME NEW i \in I, InventoryOf(i) = s
          PROVE  Settled(s)
      <3>1. inv'[s] = Turned(u, i) /\ DemandOf(I)[s] = Quantity[i]
        BY <1>1, <1>5, <2>2, CommitTurns, DemandOne
      <3> HIDE DEF I, o
      <3> QED BY <1>1, <2>2, <3>1 DEF Turned
    <2>3. ASSUME \A i \in I : InventoryOf(i) # s
          PROVE  Settled(s)
      <3>1. inv'[s] = inv[s] /\ DemandOf(I)[s] = 0
        BY <1>1, <1>5, <2>3, CommitTurns, DemandOne
      <3> HIDE DEF I, o
      <3> QED BY <2>1, <3>1 DEF Row, Clamp
    <2> QED BY <2>2, <2>3
  <1> QED BY <1>2, <1>4, <1>5, <1>6

\* Any other update leaves the inventory alone, and the order where it stands.
LEMMA CommitOther ==
    ASSUME OrderInv, NEW L, ApartInv(L),
           NEW u \in Updating, Commit(u), arg[u].status \notin Settling
    PROVE  /\ \A s \in Stock : inv'[s] = inv[s]
           /\ \A o \in Placing : /\ Standing(o)' = Standing(o)
                                 /\ orders'[o] # None <=> orders[o] # None
                                 /\ orders[o] # None => orders'[o].lines = orders[o].lines
  <1> DEFINE o == arg[u].order
  <1>1. /\ TypeOK /\ u \in Requests /\ u \notin Placing /\ pc[u] = "commit"
        /\ Open(u) /\ Working(u) /\ Busy(u)
    BY RequestsAssumption DEF OrderInv, Commit, Open, Working, Busy, Ended, Requests
  <1>2. /\ o \in Placing /\ orders[o] # None /\ order[u] \in Order /\ order[u] # None
        /\ order[u].lines = orders[o].lines
        /\ order[u].stamps = orders[o].stamps \cup ({arg[u].status} \cap Stamped)
        /\ orders' = [orders EXCEPT ![o] = order[u]]
    BY <1>1, NoneAssumption DEF OrderInv, RequestsTyped, CopiesFresh, Commit, OrderOf
  <1>3. Visiting(u) = {}
    BY <1>1 DEF Visiting
  <1>4. \A s \in Stock : inv'[s] = inv[s]
    BY <1>1, <1>3, CommitTurns
  <1>5. /\ orders'[o] = order[u]
        /\ \A p \in Placing : p # o => orders'[p] = orders[p]
    BY <1>1, <1>2 DEF TypeOK
  <1>6. /\ "delivered" \in order[u].stamps <=> "delivered" \in orders[o].stamps
        /\ "cancelled" \in order[u].stamps <=> "cancelled" \in orders[o].stamps
    BY <1>2 DEF Settling
  <1> QED BY <1>2, <1>4, <1>5, <1>6 DEF Standing

------------------------------------------------------------------------------
\* What the ledger sees of a step: the columns of each record, and of each order
\* its standing and what it asked for.
LEMMA LedgerStutter ==
    ASSUME \A s \in Stock : inv'[s] = inv[s],
           \A o \in Placing : /\ Standing(o)' = Standing(o)
                              /\ orders'[o] # None <=> orders[o] # None
                              /\ orders[o] # None => orders'[o].lines = orders[o].lines
    PROVE  UNCHANGED Ledger!vars
  BY DEF Ledger!vars

LEMMA LedgerPlaces ==
    ASSUME OrderInv, NEW L, ApartInv(L), OneRecordPerLine,
           NEW p \in Placing, Commit(p)
    PROVE  Ledger!Place(p, DemandOf(order[p].lines))
  <1> DEFINE d == DemandOf(order[p].lines)
             Asks(o) == DemandOf(IF orders[o] = None THEN {} ELSE orders[o].lines)
  <1>1. /\ Standing(p) = "absent" /\ Standing(p)' = "open"
        /\ orders' = [orders EXCEPT ![p] = order[p]] /\ order[p] # None
        /\ \A s \in Stock : /\ Available(inv[s]) >= d[s]
                            /\ inv'[s].onHand = inv[s].onHand
                            /\ inv'[s].reserved = inv[s].reserved + d[s]
    BY CommitPlaces
  <1>2. /\ orders'[p] = order[p]
        /\ \A o \in Placing : o # p => orders'[o] = orders[o]
    BY <1>1 DEF OrderInv, TypeOK
  <1>3. \A o \in Placing : o # p => Standing(o)' = Standing(o)
    BY <1>2 DEF Standing
  <1>4. \A s \in Stock : Ledger!Available(s) >= d[s]
    BY <1>1 DEF Ledger!Available, Ledger!Clamp, Available, Clamp
  <1>5. Asks(p)' = d /\ \A o \in Placing : o # p => Asks(o)' = Asks(o)
    BY <1>1, <1>2
  <1> HIDE DEF d, Asks
  <1>6. [o \in Placing |-> Asks(o)]' = [[o \in Placing |-> Asks(o)] EXCEPT ![p] = d]
    BY <1>5
  <1>7. [o \in Placing |-> Standing(o)]' = [[o \in Placing |-> Standing(o)] EXCEPT ![p] = "open"]
    BY <1>1, <1>3
  <1>8. [s \in Stock |-> inv[s].reserved]'
            = [s \in Stock |-> [t \in Stock |-> inv[t].reserved][s] + d[s]]
    BY <1>1
  <1>9. [s \in Stock |-> inv[s].onHand]' = [s \in Stock |-> inv[s].onHand]
    BY <1>1
  <1>10. [o \in Placing |-> Standing(o)][p] = "absent"
    BY <1>1
  <1> QED BY <1>4, <1>6, <1>7, <1>8, <1>9, <1>10, Zenon DEF Ledger!Place, d, Asks

LEMMA LedgerSettles ==
    ASSUME OrderInv, NEW L, ApartInv(L), OneRecordPerLine, SettledOnceFrom(L),
           NEW u \in Updating, Commit(u), arg[u].status \in Settling
    PROVE  \/ Ledger!Cancel(arg[u].order)
           \/ Ledger!Deliver(arg[u].order)
  <1> DEFINE o == arg[u].order
             d == DemandOf(orders[o].lines)
             Asks(p) == DemandOf(IF orders[p] = None THEN {} ELSE orders[p].lines)
             onHand   == [s \in Stock |-> inv[s].onHand]
             reserved == [s \in Stock |-> inv[s].reserved]
             demand   == [p \in Placing |-> Asks(p)]
             state    == [p \in Placing |-> Standing(p)]
  <1>1. /\ o \in Placing /\ orders[o] # None /\ Standing(o) = "open"
        /\ orders' = [orders EXCEPT ![o] = order[u]] /\ order[u] # None
        /\ order[u].lines = orders[o].lines
        /\ arg[u].status = "delivered" => "delivered" \in order[u].stamps
        /\ arg[u].status = "cancelled" => /\ "delivered" \notin order[u].stamps
                                          /\ "cancelled" \in order[u].stamps
        /\ \A s \in Stock :
              /\ inv'[s].onHand = IF arg[u].status = "delivered"
                                  THEN Clamp(inv[s].onHand - d[s]) ELSE inv[s].onHand
              /\ inv'[s].reserved = Clamp(inv[s].reserved - d[s])
    BY CommitSettles
  <1>2. /\ orders'[o] = order[u]
        /\ \A p \in Placing : p # o => orders'[p] = orders[p]
    BY <1>1 DEF OrderInv, TypeOK
  <1>3. \A p \in Placing : Asks(p)' = Asks(p) /\ (p # o => Standing(p)' = Standing(p))
    BY <1>1, <1>2 DEF Standing
  <1>4. state[o] = "open" /\ demand[o] = d /\ demand' = demand
    BY <1>1, <1>3
  <1>5. reserved' = [s \in Stock |-> Ledger!Clamp(reserved[s] - demand[o][s])]
    <2>1. \A s \in Stock : reserved'[s] = Ledger!Clamp(reserved[s] - demand[o][s])
      BY <1>1, <1>4 DEF Ledger!Clamp, Clamp
    <2> QED BY <2>1
  <1>6. CASE arg[u].status = "delivered"
    <2>1. "delivered" \in orders'[o].stamps /\ orders'[o] # None
      BY <1>1, <1>2, <1>6
    <2>2. \A p \in Placing : Standing(p)' = IF p = o THEN "delivered" ELSE Standing(p)
      BY <1>3, <2>1 DEF Standing
    <2>3. state' = [state EXCEPT ![o] = "delivered"]
      BY <2>2
    <2>4. onHand' = [s \in Stock |-> Ledger!Clamp(onHand[s] - demand[o][s])]
      <3>1. \A s \in Stock : onHand'[s] = Ledger!Clamp(onHand[s] - demand[o][s])
        BY <1>1, <1>4, <1>6 DEF Ledger!Clamp, Clamp
      <3> QED BY <3>1
    <2> QED BY <1>4, <1>5, <2>3, <2>4, Zenon DEF Ledger!Deliver
  <1>7. CASE arg[u].status # "delivered"
    <2>1. /\ "delivered" \notin orders'[o].stamps /\ "cancelled" \in orders'[o].stamps
          /\ orders'[o] # None
      BY <1>1, <1>2, <1>7 DEF Settling
    <2>2. \A p \in Placing : Standing(p)' = IF p = o THEN "cancelled" ELSE Standing(p)
      BY <1>3, <2>1 DEF Standing
    <2>3. state' = [state EXCEPT ![o] = "cancelled"]
      BY <2>2
    <2>4. onHand' = onHand
      BY <1>1, <1>7
    <2> QED BY <1>4, <1>5, <2>3, <2>4, Zenon DEF Ledger!Cancel
  <1> QED BY <1>6, <1>7

\* Every step of requests that are apart is a step of the ledger or leaves it alone.
LEMMA LedgerStep ==
    ASSUME OneRecordPerLine, NEW L, SettledOnceFrom(L)
    PROVE  OrderInv /\ ApartInv(L) /\ [Next]_vars => [Ledger!Next]_Ledger!vars
  <1> SUFFICES ASSUME OrderInv, ApartInv(L), [Next]_vars
               PROVE  [Ledger!Next]_Ledger!vars
    OBVIOUS
  <1>1. CASE inv' = inv /\ orders' = orders
    BY <1>1, LedgerStutter DEF Standing
  <1>2. ASSUME NEW p \in Placing, Commit(p)
        PROVE  Ledger!Next
    <2>1. order[p].lines \in SUBSET Items
      BY <1>2, CommitPlaces
    <2>2. DemandOf(order[p].lines) \in {DemandOf(I) : I \in SUBSET Items}
      BY <2>1
    <2>3. Ledger!Place(p, DemandOf(order[p].lines))
      BY <1>2, LedgerPlaces
    <2> QED BY <2>2, <2>3, Zenon DEF Ledger!Next, Ledger!Place
  <1>3. ASSUME NEW u \in Updating, Commit(u)
        PROVE  [Ledger!Next]_Ledger!vars
    <2>1. CASE arg[u].status \in Settling
      <3>1. arg[u].order \in Placing
        BY <1>3, <2>1, CommitSettles
      <3>2. Ledger!Cancel(arg[u].order) \/ Ledger!Deliver(arg[u].order)
        BY <1>3, <2>1, LedgerSettles
      <3> QED BY <3>1, <3>2, Zenon DEF Ledger!Next, Ledger!Cancel, Ledger!Deliver
    <2>2. CASE arg[u].status \notin Settling
      BY <1>3, <2>2, CommitOther, LedgerStutter
    <2> QED BY <2>1, <2>2
  <1> QED BY <1>1, <1>2, <1>3, OnlyCommits DEF Requests

LEMMA LedgerStart == Init => Ledger!Init
  <1> SUFFICES ASSUME Init PROVE Ledger!Init
    OBVIOUS
  <1>1. /\ \A s \in Stock : inv[s].onHand = Initial[s] /\ inv[s].reserved = 0
        /\ \A o \in Placing : orders[o] = None /\ Standing(o) = "absent"
    BY DEF Init, Standing
  <1>2. Initial = [s \in Stock |-> Initial[s]]
    BY StockAssumption
  <1> QED BY <1>1, <1>2, DemandType DEF Ledger!Init

\* While requests are apart, with a record of its own for every line of a cart and
\* callers that settle an order once, the requests do to the inventory what the
\* ledger says whole place_orders, cancellations and deliveries do.
THEOREM ApartImplementsLedger ==
    ASSUME OneRecordPerLine, SettledOnce
    PROVE  Spec /\ []Apart => ImplementsLedger
  <1>1. PICK L \in SUBSET Statuses : SettledOnceFrom(L)
    BY DEF SettledOnce
  <1>2. OrderInv /\ ApartInv(L) /\ [Next]_vars => [Ledger!Next]_Ledger!vars
    BY <1>1, LedgerStep
  <1>3. Spec /\ []Apart => [](OrderInv /\ ApartInv(L))
    BY <1>1, ApartInvariant
  <1> QED BY <1>2, <1>3, LedgerStart, PTL DEF Spec, ImplementsLedger, Ledger!Spec

------------------------------------------------------------------------------
\* What the ledger proves of its rows therefore holds of this service.
LEMMA ApartLedger ==
    ASSUME OneRecordPerLine, NEW CONSTANT L, L \in SUBSET Statuses,
           SettledOnceFrom(L)
    PROVE  Spec /\ []Apart => [](OrderInv /\ ApartInv(L) /\ Abstract!LedgerInv)
  <1>1. SettledOnce
    BY DEF SettledOnce
  <1>2. Spec /\ []Apart => Ledger!Spec
    BY <1>1, ApartImplementsLedger DEF ImplementsLedger
  <1>3. Ledger!Init => Abstract!Init
    BY DEF Ledger!Init, Abstract!Init
  <1>4. [Ledger!Next]_Ledger!vars => [Abstract!Next]_Abstract!vars
    BY Zenon DEF Ledger!Next, Abstract!Next, Ledger!vars, Abstract!vars,
       Ledger!Place, Abstract!Place, Ledger!Cancel, Abstract!Cancel,
       Ledger!Deliver, Abstract!Deliver, Ledger!Settled, Abstract!Settled,
       Ledger!Available, Abstract!Available, Ledger!Clamp, Abstract!Clamp
  <1>5. Abstract!Spec => []Abstract!LedgerInv
    BY DemandType, StockAssumption, Abstract!LedgerInvariant
  <1>6. Ledger!Spec => Abstract!Spec
    BY <1>3, <1>4, PTL DEF Ledger!Spec, Abstract!Spec
  <1>7. Spec /\ []Apart => [](OrderInv /\ ApartInv(L))
    BY ApartInvariant
  <1> QED BY <1>2, <1>5, <1>6, <1>7, PTL

\* The ledger counts as this module does.
LEMMA SameCounts ==
    \A S : /\ Abstract!IsFiniteSet(S) <=> IsFiniteSet(S)
           /\ Abstract!Cardinality(S) = Cardinality(S)
  <1>1. \A S : Abstract!IsFiniteSet(S) <=> IsFiniteSet(S)
    BY Zenon DEF Abstract!IsFiniteSet, IsFiniteSet
  <1>2. \A S : Abstract!Cardinality(S) = Cardinality(S)
    BY Zenon DEF Abstract!Cardinality, Cardinality
  <1> QED BY <1>1, <1>2

\* A unit of the ledger that an order holds is a unit of its only line on that
\* record: both count the same.
LEMMA HeldIsOpen ==
    ASSUME OrderInv, NEW L, ApartInv(L), Abstract!LedgerInv, OneRecordPerLine,
           NEW s \in Stock
    PROVE  Cardinality(HeldUnits(s)) = Cardinality(Abstract!Units("open", s))
  <1> DEFINE H == HeldUnits(s)
             U == Abstract!Units("open", s)
             f == [x \in H |-> <<x[1], x[2][2]>>]
  <1>lines. ASSUME NEW o \in Placing, Holding(o)
            PROVE  /\ orders[o].lines \subseteq Items
                   /\ \A i, j \in orders[o].lines : OwnerOf[i] = OwnerOf[j]
    BY <1>lines DEF OrderInv, TypeOK, Order, ApartInv, OrderWhole, Holding
  <1>1. \A x : x \in H <=>
            \E o \in Placing, i \in Items, k \in Nat :
                /\ Holding(o) /\ i \in orders[o].lines /\ InventoryOf(i) = s
                /\ k \in 1..Quantity[i] /\ x = <<o, <<i, k>>>>
    <2>1. \A x : x \in H <=> \E o \in Placing : Holding(o) /\ x \in OrderUnits(o, s)
      BY DEF HeldUnits
    <2>2. \A o \in Placing : \A x : x \in OrderUnits(o, s) <=>
              \E i \in orders[o].lines : /\ InventoryOf(i) = s
                                         /\ \E k \in 1..Quantity[i] : x = <<o, <<i, k>>>>
      BY DEF OrderUnits, LineUnits
    <2>3. \A i \in Items : 1..Quantity[i] \subseteq Nat
      BY ItemsAssumption
    <2> HIDE DEF H
    <2>4. ASSUME NEW x \in H
          PROVE  \E o \in Placing, i \in Items, k \in Nat :
                     /\ Holding(o) /\ i \in orders[o].lines /\ InventoryOf(i) = s
                     /\ k \in 1..Quantity[i] /\ x = <<o, <<i, k>>>>
      <3>1. PICK o \in Placing : Holding(o) /\ x \in OrderUnits(o, s)
        BY <2>1
      <3>2. PICK i \in orders[o].lines :
                InventoryOf(i) = s /\ \E k \in 1..Quantity[i] : x = <<o, <<i, k>>>>
        BY <2>2, <3>1
      <3>3. i \in Items
        BY <1>lines, <3>1
      <3> QED BY <2>3, <3>1, <3>2, <3>3
    <2>5. ASSUME NEW o \in Placing, NEW i \in Items, NEW k \in Nat,
                 Holding(o), i \in orders[o].lines, InventoryOf(i) = s, k \in 1..Quantity[i]
          PROVE  <<o, <<i, k>>>> \in H
      BY <2>1, <2>2, <2>5
    <2> QED BY <2>4, <2>5
  <1>2. \A x : x \in U <=>
            \E o \in Placing, k \in Nat :
                /\ Holding(o) /\ k \in 1..DemandOf(orders[o].lines)[s] /\ x = <<o, k>>
    <2>1. \A o \in Placing : Holding(o) <=> Standing(o) = "open"
      BY DEF Holding, Standing
    <2>2. \A x : x \in U <=>
              \E o \in Placing : Standing(o) = "open" /\ x \in Abstract!UnitsOf(o, s)
      BY DEF Abstract!Units
    <2>3. ASSUME NEW o \in Placing, Holding(o)
          PROVE  Abstract!UnitsOf(o, s) = {o} \X (1..DemandOf(orders[o].lines)[s])
      BY <2>3 DEF Abstract!UnitsOf, Holding
    <2>4. ASSUME NEW o \in Placing, Holding(o)
          PROVE  1..DemandOf(orders[o].lines)[s] \subseteq Nat
      <3>1. DemandOf(orders[o].lines) \in [Stock -> Nat]
        BY <1>lines, <2>4, DemandType
      <3> QED BY <3>1
    <2> HIDE DEF U
    <2> QED BY <2>1, <2>2, <2>3, <2>4
  <1>3. ASSUME NEW o \in Placing, Holding(o), NEW i \in orders[o].lines, InventoryOf(i) = s
        PROVE  DemandOf(orders[o].lines)[s] = Quantity[i]
    BY <1>3, <1>lines, DemandOne
  <1>4. ASSUME NEW o \in Placing, Holding(o), NEW k \in 1..DemandOf(orders[o].lines)[s]
        PROVE  \E i \in orders[o].lines : InventoryOf(i) = s
    <2>1. DemandOf(orders[o].lines)[s] # 0
      BY <1>4
    <2> QED BY <1>4, <1>lines, <2>1, DemandOne
  <1> HIDE DEF H, U
  <1>5. f \in [H -> U]
    <2> SUFFICES ASSUME NEW x \in H PROVE <<x[1], x[2][2]>> \in U
      OBVIOUS
    <2>1. PICK o \in Placing, i \in Items, k \in Nat :
              /\ Holding(o) /\ i \in orders[o].lines /\ InventoryOf(i) = s
              /\ k \in 1..Quantity[i] /\ x = <<o, <<i, k>>>>
      BY <1>1
    <2> QED BY <1>2, <1>3, <2>1
  <1>6. ASSUME NEW x \in H, NEW y \in H, f[x] = f[y]
        PROVE  x = y
    <2>1. PICK o \in Placing, i \in Items, k \in Nat :
              /\ Holding(o) /\ i \in orders[o].lines /\ InventoryOf(i) = s
              /\ k \in 1..Quantity[i] /\ x = <<o, <<i, k>>>>
      BY <1>1
    <2>2. PICK p \in Placing, j \in Items, n \in Nat :
              /\ Holding(p) /\ j \in orders[p].lines /\ InventoryOf(j) = s
              /\ n \in 1..Quantity[j] /\ y = <<p, <<j, n>>>>
      BY <1>1
    <2>3. o = p /\ k = n
      BY <1>6, <2>1, <2>2
    <2>4. i = j
      BY <1>lines, <2>1, <2>2, <2>3, RecordsApart, NoneAssumption
    <2> QED BY <2>1, <2>2, <2>3, <2>4
  <1>7. ASSUME NEW y \in U
        PROVE  \E x \in H : f[x] = y
    <2>1. PICK o \in Placing, k \in Nat :
              /\ Holding(o) /\ k \in 1..DemandOf(orders[o].lines)[s] /\ y = <<o, k>>
      BY <1>2
    <2>2. PICK i \in orders[o].lines : InventoryOf(i) = s
      BY <1>4, <2>1
    <2>3. k \in 1..Quantity[i] /\ i \in Items
      BY <1>3, <1>lines, <2>1, <2>2
    <2>4. <<o, <<i, k>>>> \in H
      BY <1>1, <2>1, <2>2, <2>3
    <2>5. f[<<o, <<i, k>>>>] = y
      BY <2>1, <2>4
    <2> QED BY <2>4, <2>5
  <1> HIDE DEF f
  <1>8. f \in Injection(H, U) /\ f \in Surjection(H, U)
    BY <1>5, <1>6, <1>7, Fun_IsInj, Fun_IsSurj
  <1>9. IsFiniteSet(U)
    BY SameCounts DEF Abstract!LedgerInv, U
  <1>10. Cardinality(H) = Cardinality(U)
    BY <1>8, <1>9, FS_Injection
  <1> QED BY <1>10 DEF H, U

\* While requests are apart, quantity_reserved is what the orders that are neither
\* delivered nor cancelled ask for.
THEOREM ApartReservedIsHeld ==
    ASSUME OneRecordPerLine, SettledOnce
    PROVE  Spec /\ []Apart => []ReservedIsHeld
  <1>1. PICK L \in SUBSET Statuses : SettledOnceFrom(L)
    BY DEF SettledOnce
  <1>2. OrderInv /\ ApartInv(L) /\ Abstract!LedgerInv => ReservedIsHeld
    BY HeldIsOpen, SameCounts DEF ReservedIsHeld, Abstract!LedgerInv, Abstract!ReservedIsHeld
  <1> QED BY <1>1, <1>2, ApartLedger, PTL

\* While requests are apart, all open orders together can be delivered from what is
\* on hand.
THEOREM ApartNoOversell ==
    ASSUME OneRecordPerLine, SettledOnce
    PROVE  Spec /\ []Apart => []NoOversell
  <1>1. PICK L \in SUBSET Statuses : SettledOnceFrom(L)
    BY DEF SettledOnce
  <1>2. OrderInv /\ ApartInv(L) /\ Abstract!LedgerInv => NoOversell
    BY HeldIsOpen, SameCounts DEF NoOversell, Abstract!LedgerInv, Abstract!NoOversell
  <1> QED BY <1>1, <1>2, ApartLedger, PTL

------------------------------------------------------------------------------
\* An order that holds stock can take its lines off the shelf: the clamps of
\* deduct and release are idle.
LEMMA ShelfCovers ==
    ASSUME OrderInv, NEW L, ApartInv(L), Abstract!LedgerInv, OneRecordPerLine,
           NEW o \in Placing, Holding(o), NEW i \in orders[o].lines
    PROVE  InventoryOf(i) \in Stock /\ Quantity[i] <= inv[InventoryOf(i)].onHand
  <1> DEFINE s == InventoryOf(i)
             d == DemandOf(orders[o].lines)[s]
  <1>1. /\ orders[o].lines \subseteq Items /\ s \in Stock
        /\ \A j, k \in orders[o].lines : OwnerOf[j] = OwnerOf[k]
    BY InventoryOfType DEF OrderInv, TypeOK, Order, ApartInv, OrderWhole, Holding
  <1>2. d = Quantity[i] /\ d \in Nat
    BY <1>1, DemandOne, ItemsAssumption
  <1> HIDE DEF s
  <1>3. {o} \X (1..d) \subseteq Abstract!Units("open", s)
    <2>1. Standing(o) = "open"
      BY DEF Holding, Standing
    <2>2. Abstract!UnitsOf(o, s) = {o} \X (1..d)
      BY <1>1 DEF Abstract!UnitsOf, Holding
    <2>3. Abstract!UnitsOf(o, s) \subseteq Abstract!Units("open", s)
      BY <2>1 DEF Abstract!Units
    <2> QED BY <2>2, <2>3
  <1>4. Cardinality({o} \X (1..d)) = d
    <2>1. IsFiniteSet(1..d) /\ Cardinality(1..d) = d
      <3>1. IsFiniteSet(1..d) /\ Cardinality(1..d) = IF 1 > d THEN 0 ELSE d - 1 + 1
        BY <1>2, FS_Interval
      <3> QED BY <1>2, <3>1
    <2>2. IsFiniteSet({o}) /\ Cardinality({o}) = 1
      BY FS_Singleton
    <2>3. Cardinality({o} \X (1..d)) = Cardinality({o}) * Cardinality(1..d)
      BY <2>1, <2>2, FS_Product
    <2> QED BY <1>2, <2>1, <2>2, <2>3
  <1>5. /\ IsFiniteSet(Abstract!Units("open", s))
        /\ Cardinality(Abstract!Units("open", s)) <= inv[s].onHand
    BY <1>1, SameCounts DEF Abstract!LedgerInv, Abstract!NoOversell
  <1>6. Cardinality({o} \X (1..d)) <= Cardinality(Abstract!Units("open", s))
    BY <1>3, <1>5, FS_Subset
  <1>7. Cardinality(Abstract!Units("open", s)) \in Nat /\ inv[s].onHand \in Nat
    BY <1>1, <1>5, FS_CardinalityType DEF OrderInv, TypeOK, Row
  <1> QED BY <1>1, <1>2, <1>4, <1>5, <1>6, <1>7 DEF s

\* Movements of committed orders stay; a commit adds those of an order that has
\* none yet, one per line.
LEMMA MovesCommit ==
    ASSUME OrderInv, NEW L, ApartInv(L), Abstract!LedgerInv, MovesExact,
           OneRecordPerLine, SettledOnceFrom(L), [Next]_vars,
           NEW r \in Requests, Commit(r)
    PROVE  MovesExact'
  <1>1. /\ TypeOK /\ moves' = moves \cup sales[r] /\ pc[r] = "commit" /\ Open(r)
        /\ Placing \cap Updating = {}
    BY RequestsAssumption DEF OrderInv, Commit, Open, Ended
  <1>2. \A m \in moves : m.order \in Placing /\ orders[m.order] # None
    BY <1>1 DEF OrderInv, DeliveryLogged, TypeOK, Sale
  <1>3. \A m \in moves : m.item \in orders'[m.order].lines
    BY <1>2, OrdersStay DEF MovesExact
  <1>4. CASE sales[r] = {}
    BY <1>1, <1>3, <1>4 DEF MovesExact
  <1>5. CASE sales[r] # {}
    <2> DEFINE o == arg[r].order
    <2>1. r \in Updating /\ Busy(r) /\ arg[r].status = "delivered"
      BY <1>5 DEF OrderInv, SalesCovered
    <2>2. /\ o \in Placing /\ orders[o] # None /\ order[r].lines = orders[o].lines
      BY <1>1, <2>1 DEF OrderInv, RequestsTyped, CopiesFresh
    <2>3. Holding(o)
      BY <1>1, <2>1, <2>2, SettlesHeld DEF Settling
    <2>4. \A m \in moves : m.order # o
      BY <2>3 DEF OrderInv, DeliveryLogged, Holding
    <2>5. ASSUME NEW m \in sales[r]
          PROVE  /\ m.by = r /\ m.order = o /\ m.item \in orders[o].lines
                 /\ m.before = inv[InventoryOf(m.item)].onHand
                 /\ m.after = m.before - Quantity[m.item]
                 /\ m.before - m.after = Quantity[m.item]
                 /\ m \in Sale
      <3>1. /\ m.by = r /\ m.order = o /\ m \in Sale
        BY <1>1, <2>1 DEF OrderInv, SalesCovered, TypeOK
      <3>2. /\ m.item \in orders[o].lines
            /\ m.before = inv[InventoryOf(m.item)].onHand
            /\ m.after = Clamp(m.before - Quantity[m.item])
        BY <1>1, <2>1, <2>2 DEF ApartInv, UpdateExact
      <3>3. Quantity[m.item] <= inv[InventoryOf(m.item)].onHand
        BY <2>2, <2>3, <3>2, ShelfCovers
      <3>4. m.before \in Nat /\ Quantity[m.item] \in Nat
        BY <3>1, ItemsAssumption DEF Sale
      <3>5. m.after = m.before - Quantity[m.item]
        BY <3>2, <3>3, <3>4 DEF Clamp
      <3>6. m.before - m.after = Quantity[m.item]
        BY <3>4, <3>5
      <3> QED BY <3>1, <3>2, <3>5, <3>6
    <2>6. ASSUME NEW m \in sales[r], NEW n \in sales[r], m.item = n.item
          PROVE  m = n
      BY <2>5, <2>6 DEF Sale
    <2>7. orders'[o].lines = orders[o].lines
      BY <2>2, OrdersStay
    <2> HIDE DEF o
    <2>8. \A m \in moves' : /\ m.item \in orders'[m.order].lines
                            /\ m.before - m.after = Quantity[m.item]
      BY <1>1, <1>3, <2>5, <2>7 DEF MovesExact
    <2>9. ASSUME NEW m \in moves', NEW n \in moves', m.order = n.order, m.item = n.item
          PROVE  m = n
      BY <1>1, <2>4, <2>5, <2>6, <2>9 DEF MovesExact
    <2> QED BY <2>8, <2>9 DEF MovesExact
  <1> QED BY <1>4, <1>5

\* Only a commit writes movements.
LEMMA MovesElsewhere ==
    ASSUME [Next]_vars
    PROVE  \/ UNCHANGED <<inv, moves, orders>>
           \/ \E r \in Requests : Commit(r)
  <1> USE DEF db
  <1>1. \A r \in Requests : Rollback(r) => UNCHANGED <<inv, moves, orders>>
    BY DEF Rollback
  <1>2. \A p \in Placing : (Reserve(p) \/ CreateOrder(p) \/ PublishEmail(p) \/ PublishPlaced(p))
            => UNCHANGED <<inv, moves, orders>>
    BY DEF Reserve, CreateOrder, PublishEmail, PublishPlaced
  <1>3. \A u \in Updating : (Lock(u) \/ Release(u) \/ Deduct(u) \/ PublishStatus(u))
            => UNCHANGED <<inv, moves, orders>>
    BY DEF Lock, Release, Deduct, PublishStatus
  <1>4. (\E i \in Items : AddToCart(i)) => UNCHANGED <<inv, moves, orders>>
    BY DEF AddToCart
  <1>5. (\E p \in Placing, c \in Customers : StartPlace(p, c))
            => UNCHANGED <<inv, moves, orders>>
    BY DEF StartPlace
  <1>6. (\E u \in Updating, o \in Placing, st \in Asked : StartUpdate(u, o, st))
            => UNCHANGED <<inv, moves, orders>>
    BY DEF StartUpdate
  <1>7. UNCHANGED vars => UNCHANGED <<inv, moves, orders>>
    BY DEF vars
  <1> QED BY <1>1, <1>2, <1>3, <1>4, <1>5, <1>6, <1>7, StepKinds

LEMMA ApartMoves ==
    ASSUME OneRecordPerLine, NEW CONSTANT L, L \in SUBSET Statuses,
           SettledOnceFrom(L)
    PROVE  Spec /\ []Apart => [](OrderInv /\ ApartInv(L) /\ Abstract!LedgerInv /\ MovesExact)
  <1>1. Init => MovesExact
    BY DEF Init, MovesExact
  <1>2. OrderInv /\ ApartInv(L) /\ Abstract!LedgerInv /\ MovesExact /\ [Next]_vars
            => MovesExact'
    <2> SUFFICES ASSUME OrderInv, ApartInv(L), Abstract!LedgerInv, MovesExact,
                        [Next]_vars
                 PROVE  MovesExact'
      OBVIOUS
    <2>1. CASE moves' = moves /\ orders' = orders
      BY <2>1 DEF MovesExact
    <2> QED BY <2>1, MovesElsewhere, MovesCommit
  <1> QED BY <1>1, <1>2, ApartLedger, PTL DEF Spec

\* While requests are apart, every line of a delivered order has left the shelf as one
\* movement of its whole quantity: the clamp of deduct never hides a unit.
THEOREM ApartMovesExact ==
    ASSUME OneRecordPerLine, SettledOnce
    PROVE  Spec /\ []Apart => []MovesExact
  <1>1. PICK L \in SUBSET Statuses : SettledOnceFrom(L)
    BY DEF SettledOnce
  <1> QED BY <1>1, ApartMoves, PTL

------------------------------------------------------------------------------
(* The shelf and the movements, for callers that ask for anything.          *)

\* Movements are of requests that are done; a request that is done stays so.
MovesDone == \A m \in moves : pc[m.by] = "done"

AuditInv ==
    /\ MovesDone
    /\ \A s \in Stock : /\ IsFiniteSet(SoldUnits(s))
                        /\ inv[s].onHand + Cardinality(SoldUnits(s)) = Initial[s]

LEMMA DoneStays ==
    ASSUME TypeOK, [Next]_vars, NEW r \in Requests, pc[r] = "done"
    PROVE  pc'[r] = "done"
  <1> USE DEF TypeOK
  <1>1. ASSUME NEW q \in Requests, pc[q] # "done", Rollback(q) \/ Commit(q)
        PROVE  pc'[r] = "done"
    BY <1>1 DEF Rollback, Commit, Close
  <1>2. ASSUME NEW p \in Placing,
               \/ Reserve(p) \/ CreateOrder(p) \/ PublishEmail(p) \/ PublishPlaced(p)
               \/ \E c \in Customers : StartPlace(p, c)
        PROVE  pc'[r] = "done"
    BY <1>2 DEF Reserve, CreateOrder, PublishEmail, PublishPlaced, StartPlace, Advance
  <1>3. ASSUME NEW u \in Updating,
               \/ Lock(u) \/ Release(u) \/ Deduct(u) \/ PublishStatus(u)
               \/ \E o \in Placing, st \in Asked : StartUpdate(u, o, st)
        PROVE  pc'[r] = "done"
    BY <1>3 DEF Lock, Release, Deduct, PublishStatus, StartUpdate, Advance
  <1>4. (\E i \in Items : AddToCart(i)) \/ UNCHANGED vars => pc' = pc
    BY DEF AddToCart, vars
  <1>5. \A q \in Requests : Commit(q) => pc[q] # "done"
    BY DEF Commit
  <1> QED BY <1>1, <1>2, <1>3, <1>4, <1>5, StepKinds

\* A commit takes from the record of a line what its movement says, and from the
\* other records nothing.
LEMMA AuditCommit ==
    ASSUME OrderInv, NEW L, ApartInv(L), OneRecordPerLine, AuditInv,
           NEW r \in Requests, Commit(r), NEW s \in Stock
    PROVE  /\ IsFiniteSet(SoldUnits(s))'
           /\ inv'[s].onHand + Cardinality(SoldUnits(s))' = Initial[s]
  <1> DEFINE sold  == SoldUnits(s)
             fresh == {m \in sales[r] : InventoryOf(m.item) = s}
  <1>1. /\ TypeOK /\ moves' = moves \cup sales[r] /\ pc[r] = "commit" /\ Open(r) /\ Working(r)
        /\ inv[s].onHand \in Nat /\ Initial[s] \in Nat /\ sales[r] \subseteq Sale
    BY StockAssumption DEF OrderInv, TypeOK, Row, Commit, Open, Working, Ended
  <1>2. /\ IsFiniteSet(sold) /\ Cardinality(sold) \in Nat
        /\ inv[s].onHand + Cardinality(sold) = Initial[s]
    BY FS_CardinalityType DEF AuditInv
  <1>3. \A i : ~InTodo(r, i)
    BY <1>1, EmptySeq DEF OrderInv, LoopsBounded, InTodo
  <1>4. CASE fresh = {}
    <2>1. SoldUnits(s)' = SoldUnits(s)
      BY <1>1, <1>4 DEF SoldUnits
    <2>2. inv'[s].onHand = inv[s].onHand
      <3> SUFFICES ASSUME inv'[s].onHand # inv[s].onHand PROVE FALSE
        OBVIOUS
      <3>1. rows[r][s] # None /\ rows[r][s].onHand # inv[s].onHand
        BY DEF Commit, Visible
      <3>2. PICK i \in order[r].lines :
                InventoryOf(i) = s /\ r \in Updating /\ Busy(r) /\ arg[r].status = "delivered"
        BY <3>1 DEF OrderInv, OnHandClean
      <3>3. i \in order[r].lines /\ \E m \in sales[r] : m.item = i
        BY <1>3, <3>2 DEF OrderInv, SalesCovered
      <3> QED BY <1>4, <3>2, <3>3
    <2> QED BY <1>2, <2>1, <2>2
  <1>5. CASE fresh # {}
    <2>1. PICK m \in sales[r] : InventoryOf(m.item) = s
      BY <1>5
    <2>2. r \in Updating /\ Busy(r) /\ arg[r].status = "delivered" /\ m \in Sale
      BY <1>1, <2>1 DEF OrderInv, SalesCovered
    <2>3. ASSUME NEW n \in sales[r]
          PROVE  /\ n.by = r /\ n.order = arg[r].order /\ n.item \in Visiting(r)
                 /\ n.before = inv[InventoryOf(n.item)].onHand
                 /\ n.after = Clamp(n.before - Quantity[n.item])
      <3>1. n.by = r /\ n.order = arg[r].order
        BY <2>2 DEF OrderInv, SalesCovered
      <3>2. /\ n.item \in order[r].lines
            /\ n.before = inv[InventoryOf(n.item)].onHand
            /\ n.after = Clamp(n.before - Quantity[n.item])
        BY <1>1, <2>2 DEF ApartInv, UpdateExact
      <3>3. Visiting(r) = order[r].lines
        BY <2>2 DEF Visiting, Settling
      <3> QED BY <3>1, <3>2, <3>3
    <2>4. ASSUME NEW n \in fresh
          PROVE  n = m
      <3>1. n.item = m.item
        BY <1>1, <2>1, <2>3, <2>4, OneOwner, RecordsApart, NoneAssumption
      <3>2. n.by = m.by /\ n.order = m.order /\ n.before = m.before /\ n.after = m.after
        BY <2>1, <2>3, <2>4, <3>1
      <3> QED BY <1>1, <2>4, <3>1, <3>2 DEF Sale
    <2>5. r \notin Placing
      BY <2>2, RequestsAssumption
    <2>6. inv'[s].onHand = m.after /\ m.before = inv[s].onHand
      <3>1. m.item \in Visiting(r) /\ m.before = inv[s].onHand
            /\ m.after = Clamp(inv[s].onHand - Quantity[m.item])
        BY <2>1, <2>3
      <3>2. inv'[s] = Turned(r, m.item)
        BY <2>1, <3>1, CommitTurns
      <3>3. Turned(r, m.item).onHand = Clamp(inv[s].onHand - Quantity[m.item])
        BY <2>1, <2>2, <2>5 DEF Turned
      <3> QED BY <3>1, <3>2, <3>3
    <2> DEFINE k == m.before - m.after
    <2>7. m.before \in Nat /\ m.after \in Nat /\ k \in Nat /\ m \notin moves
      <3>1. m.before \in Nat /\ m.after \in Nat /\ Quantity[m.item] \in Nat
        BY <2>2, ItemsAssumption DEF Sale
      <3>2. k \in Nat
        BY <2>1, <2>3, <3>1 DEF Clamp
      <3>3. m \notin moves
        BY <1>1, <2>1, <2>3 DEF AuditInv, MovesDone
      <3> QED BY <3>1, <3>2, <3>3
    <2>8. SoldUnits(s)' = sold \cup ({m} \X (1..k))
      <3>1. \A n : n \in moves' /\ InventoryOf(n.item) = s
                       <=> n = m \/ (n \in moves /\ InventoryOf(n.item) = s)
        BY <1>1, <2>1, <2>4
      <3> QED BY <3>1 DEF SoldUnits
    <2>9. sold \cap ({m} \X (1..k)) = {}
      BY <2>7 DEF SoldUnits
    <2>10. IsFiniteSet({m} \X (1..k)) /\ Cardinality({m} \X (1..k)) = k
      <3> HIDE DEF k
      <3>0. k \in Int
        BY <2>7
      <3>1. IsFiniteSet(1..k) /\ Cardinality(1..k) = IF 1 > k THEN 0 ELSE k - 1 + 1
        BY <3>0, FS_Interval
      <3>2. Cardinality(1..k) = k
        BY <2>7, <3>1
      <3>3. IsFiniteSet({m}) /\ Cardinality({m}) = 1
        BY FS_Singleton
      <3>4. /\ IsFiniteSet({m} \X (1..k))
            /\ Cardinality({m} \X (1..k)) = Cardinality({m}) * Cardinality(1..k)
        BY <3>1, <3>3, FS_Product
      <3> QED BY <2>7, <3>2, <3>3, <3>4
    <2> HIDE DEF k, sold
    <2>11. /\ IsFiniteSet(sold \cup ({m} \X (1..k)))
           /\ Cardinality(sold \cup ({m} \X (1..k))) = Cardinality(sold) + k
      <3>1. /\ IsFiniteSet(sold \cup ({m} \X (1..k)))
            /\ Cardinality(sold \cup ({m} \X (1..k))) =
                   Cardinality(sold) + Cardinality({m} \X (1..k))
                       - Cardinality(sold \cap ({m} \X (1..k)))
        BY <1>2, <2>10, FS_Union
      <3>2. Cardinality(sold \cap ({m} \X (1..k))) = 0
        BY <2>9, FS_EmptySet
      <3> QED BY <1>2, <2>7, <2>10, <3>1, <3>2
    <2>12. m.after + (Cardinality(sold) + k) = Initial[s]
      BY <1>2, <2>6, <2>7 DEF k
    <2> QED BY <2>6, <2>8, <2>11, <2>12
  <1> QED BY <1>4, <1>5

\* While requests are apart, the stock movements account for every unit that has left
\* the shelf, whatever the callers ask for.
THEOREM ApartOnHandAudited ==
    ASSUME OneRecordPerLine
    PROVE  Spec /\ []Apart => []OnHandAudited
  <1>0. PICK L \in SUBSET Statuses : L = {}
    OBVIOUS
  <1>1. Init => AuditInv
    <2> SUFFICES ASSUME Init PROVE AuditInv
      OBVIOUS
    <2>1. MovesDone
      BY DEF Init, MovesDone
    <2>2. ASSUME NEW s \in Stock
          PROVE  /\ IsFiniteSet(SoldUnits(s))
                 /\ inv[s].onHand + Cardinality(SoldUnits(s)) = Initial[s]
      <3>1. SoldUnits(s) = {}
        BY DEF Init, SoldUnits
      <3>2. inv[s].onHand = Initial[s] /\ Initial[s] \in Nat
        BY StockAssumption DEF Init
      <3> QED BY <3>1, <3>2, FS_EmptySet
    <2> QED BY <2>1, <2>2 DEF AuditInv
  <1>2. OrderInv /\ ApartInv(L) /\ AuditInv /\ [Next]_vars => AuditInv'
    <2> SUFFICES ASSUME OrderInv, ApartInv(L), AuditInv, [Next]_vars
                 PROVE  AuditInv'
      OBVIOUS
    <2>1. /\ TypeOK /\ Updating \subseteq Requests
          /\ \A m \in moves : m.by \in Requests /\ pc'[m.by] = "done"
      BY DoneStays DEF OrderInv, AuditInv, MovesDone, TypeOK, Sale, Requests
    <2>2. CASE UNCHANGED <<inv, moves, orders>>
      BY <2>1, <2>2 DEF AuditInv, MovesDone, SoldUnits
    <2>3. ASSUME NEW r \in Requests, Commit(r)
          PROVE  AuditInv'
      <3>1. /\ pc'[r] = "done" /\ moves' = moves \cup sales[r]
            /\ \A m \in sales[r] : m.by = r
        <4>1. pc'[r] = "done" /\ moves' = moves \cup sales[r]
          BY <2>1, <2>3 DEF Commit, Close, TypeOK
        <4>2. \A m \in sales[r] : m.by = r
          BY DEF OrderInv, SalesCovered
        <4> QED BY <4>1, <4>2
      <3>2. MovesDone'
        BY <2>1, <3>1 DEF MovesDone
      <3> QED BY <2>3, <3>2, AuditCommit DEF AuditInv
    <2> QED BY <2>2, <2>3, MovesElsewhere
  <1>3. AuditInv => OnHandAudited
    BY DEF AuditInv, OnHandAudited
  <1>4. Spec /\ []Apart => [](OrderInv /\ ApartInv(L))
    BY <1>0, ApartInvariant
  <1> QED BY <1>1, <1>2, <1>3, <1>4, PTL DEF Spec

------------------------------------------------------------------------------
(* Served one at a time, requests are apart, and carts stand still.         *)

\* The bound lets a request begin only when nobody else is being served.
LEMMA NobodyElse ==
    ASSUME MaxInFlight = 1, OneAtATime, Cardinality(InFlight) < MaxInFlight
    PROVE  \A r \in Requests : ~Open(r)
  <1> SUFFICES ASSUME NEW r \in Requests, Open(r)
               PROVE  FALSE
    OBVIOUS
  <1>1. InFlight = {r}
    BY DEF InFlight, OneAtATime
  <1>2. Cardinality({r}) = 1
    BY FS_Singleton
  <1> QED BY <1>1, <1>2

\* A step of the one request being served opens nobody; what it has read of the
\* cart stands until it commits.
LEMMA AloneServe ==
    ASSUME TypeOK, OneAtATime, CartsKept, NEW r \in Requests,
           \/ pc[r] # "done" /\ Rollback(r)
           \/ Commit(r)
           \/ r \in Placing /\ \/ Reserve(r) \/ CreateOrder(r)
                               \/ PublishEmail(r) \/ PublishPlaced(r)
           \/ r \in Updating /\ \/ Lock(r) \/ Release(r) \/ Deduct(r)
                                \/ PublishStatus(r)
    PROVE  OneAtATime' /\ CartsKept'
  <1> USE DEF db, memory, writes
  <1>1. /\ \A q \in Requests : q # r =>
               pc'[q] = pc[q] /\ arg'[q] = arg[q] /\ order'[q] = order[q]
        /\ Open(r)' => Open(r) /\ cart' = cart
        /\ r \in Placing /\ Open(r)' => arg'[r] = arg[r] /\ order'[r] = order[r]
        /\ cart' # cart => Open(r)
    <2>1. CASE Rollback(r)
      BY <2>1 DEF Rollback, Close, TypeOK, Open, Ended
    <2>2. CASE Commit(r)
      BY <2>2 DEF Commit, Close, TypeOK, Open, Ended
    <2>3. CASE r \in Placing /\ \/ Reserve(r) \/ CreateOrder(r)
                                \/ PublishEmail(r) \/ PublishPlaced(r)
      BY <2>3 DEF Reserve, CreateOrder, PublishEmail, PublishPlaced, Advance, TypeOK,
         Open, Ended
    <2>4. CASE r \in Updating /\ \/ Lock(r) \/ Release(r) \/ Deduct(r)
                                 \/ PublishStatus(r)
      BY <2>4, RequestsAssumption DEF Lock, Release, Deduct, PublishStatus, Advance, TypeOK,
         Open, Ended
    <2> QED BY <2>1, <2>2, <2>3, <2>4
  <1>2. \A q \in Requests : Open(q)' => Open(q)
    BY <1>1 DEF Open
  <1>3. OneAtATime'
    BY <1>2 DEF OneAtATime
  <1>4. ASSUME NEW p \in Placing, Open(p)'
        PROVE  order'[p].lines = CartOf(arg[p].customer)'
    <2>1. p \in Requests /\ Open(p) /\ order[p].lines = CartOf(arg[p].customer)
      BY <1>2, <1>4 DEF Requests, CartsKept
    <2>2. arg'[p] = arg[p] /\ order'[p] = order[p] /\ cart' = cart
      BY <1>1, <1>4, <2>1 DEF OneAtATime
    <2> QED BY <2>1, <2>2 DEF CartOf
  <1> QED BY <1>3, <1>4 DEF CartsKept

LEMMA AloneStart ==
    ASSUME TypeOK, OneAtATime, MaxInFlight = 1,
           \/ \E i \in Items : AddToCart(i)
           \/ \E p \in Placing, c \in Customers : StartPlace(p, c)
           \/ \E u \in Updating, o \in Placing, st \in Asked : StartUpdate(u, o, st)
    PROVE  OneAtATime' /\ CartsKept'
  <1> USE DEF db, memory, writes
  <1>1. /\ Placing \cap Updating = {} /\ Placing \subseteq Requests /\ Updating \subseteq Requests
        /\ \A r \in Requests : ~Open(r)
    BY NobodyElse, RequestsAssumption DEF AddToCart, StartPlace, StartUpdate, Requests
  <1>2. ASSUME NEW i \in Items, AddToCart(i)
        PROVE  OneAtATime' /\ CartsKept'
    BY <1>1, <1>2 DEF AddToCart, OneAtATime, CartsKept, Open
  <1>3. ASSUME NEW p \in Placing, NEW c \in Customers, StartPlace(p, c)
        PROVE  OneAtATime' /\ CartsKept'
    <2>1. /\ arg'[p].customer = c /\ order'[p].lines = CartOf(c) /\ cart' = cart
          /\ \A q \in Requests : q # p => pc'[q] = pc[q]
      BY <1>1, <1>3 DEF StartPlace, TypeOK
    <2>2. \A q \in Requests : Open(q)' => q = p
      BY <1>1, <2>1 DEF Open
    <2>3. CartOf(arg[p].customer)' = CartOf(c)
      BY <2>1 DEF CartOf
    <2> QED BY <1>1, <2>1, <2>2, <2>3 DEF OneAtATime, CartsKept
  <1>4. ASSUME NEW u \in Updating, NEW o \in Placing, NEW st \in Asked, StartUpdate(u, o, st)
        PROVE  OneAtATime' /\ CartsKept'
    <2>1. \A q \in Requests : Open(q)' => q = u
      BY <1>1, <1>4 DEF StartUpdate, TypeOK, Open
    <2> QED BY <1>1, <2>1 DEF OneAtATime, CartsKept
  <1> QED BY <1>2, <1>3, <1>4

LEMMA NobodyOpen ==
    Init => OneAtATime /\ CartsKept
  <1> SUFFICES ASSUME Init PROVE OneAtATime /\ CartsKept
    OBVIOUS
  <1>1. \A r \in Requests : ~Open(r)
    BY DEF Init, Open
  <1> QED BY <1>1 DEF OneAtATime, CartsKept, Requests

\* A service with room for one request keeps requests apart and carts untouched.
THEOREM SerialApart ==
    ASSUME MaxInFlight = 1
    PROVE  Spec => []Apart /\ []CartsKept
  <1>1. OrderInv /\ OneAtATime /\ CartsKept /\ [Next]_vars => OneAtATime' /\ CartsKept'
    <2> SUFFICES ASSUME OrderInv, OneAtATime, CartsKept, [Next]_vars
                 PROVE  OneAtATime' /\ CartsKept'
      OBVIOUS
    <2>1. CASE UNCHANGED vars
      BY <2>1 DEF vars, db, memory, OneAtATime, CartsKept, CartOf, Open
    <2>2. TypeOK /\ Placing \subseteq Requests /\ Updating \subseteq Requests
      BY DEF OrderInv, Requests
    <2> QED BY <2>1, <2>2, StepKinds, AloneStart, AloneServe
  <1>2. OneAtATime => Apart
    BY DEF OneAtATime, Apart, Working
  <1> QED BY <1>1, <1>2, NobodyOpen, OrderInvariant, PTL DEF Spec

\* Served one at a time, no cart row is lost or bought twice.
THEOREM SerialRowsConserved ==
    ASSUME MaxInFlight = 1
    PROVE  Spec => []RowsConserved
  BY SerialApart, ApartRowsConserved, PTL

\* Served one at a time, the stock movements account for every unit that has left
\* the shelf, whatever the callers ask for.
THEOREM SerialOnHandAudited ==
    ASSUME MaxInFlight = 1, OneRecordPerLine
    PROVE  Spec => []OnHandAudited
  BY SerialApart, ApartOnHandAudited, PTL

\* Served one at a time, for callers that settle an order once: the inventory does
\* what the ledger says, quantity_reserved is what the open orders ask for and can be
\* delivered, and no clamp hides a unit.
THEOREM SerialService ==
    ASSUME MaxInFlight = 1, OneRecordPerLine, SettledOnce
    PROVE  Spec => /\ ImplementsLedger
                   /\ [](ReservedIsHeld /\ NoOversell /\ MovesExact)
  <1>1. /\ Spec /\ []Apart => ImplementsLedger
        /\ Spec /\ []Apart => []ReservedIsHeld
        /\ Spec /\ []Apart => []NoOversell
        /\ Spec /\ []Apart => []MovesExact
    BY ApartImplementsLedger, ApartReservedIsHeld, ApartNoOversell, ApartMovesExact
  <1> QED BY <1>1, SerialApart, PTL

\* The specification TLC checks admits the behaviours in which requests are apart
\* and carts stand still, and no others.
THEOREM ApartSpecMeans == ApartSpec <=> Spec /\ []Apart /\ []CartsKept
  <1>1. Init => Apart /\ CartsKept
    BY NobodyOpen DEF OneAtATime, Apart, Working
  <1>2. [Next /\ (Apart /\ CartsKept)']_vars /\ Apart /\ CartsKept
            => [Next]_vars /\ Apart' /\ CartsKept'
    <2>1. UNCHANGED vars /\ Apart /\ CartsKept => Apart' /\ CartsKept'
      <3> SUFFICES ASSUME UNCHANGED vars, Apart, CartsKept PROVE Apart' /\ CartsKept'
        OBVIOUS
      <3>1. \A r \in Requests : /\ (Open(r)' <=> Open(r)) /\ (Working(r)' <=> Working(r))
                                /\ OrderOf(r)' = OrderOf(r) /\ RecordsOf(r)' = RecordsOf(r)
        BY DEF vars, memory, Working, Open, OrderOf, RecordsOf, Visiting
      <3>2. Apart'
        BY <3>1 DEF Apart
      <3>3. CartsKept'
        BY DEF vars, db, memory, CartsKept, CartOf, Open
      <3> QED BY <3>2, <3>3
    <2> QED BY <2>1
  <1>3. [Next]_vars /\ Apart' /\ CartsKept' => [Next /\ (Apart /\ CartsKept)']_vars
    OBVIOUS
  <1> QED BY <1>1, <1>2, <1>3, PTL DEF ApartSpec, Spec
==============================================================================
