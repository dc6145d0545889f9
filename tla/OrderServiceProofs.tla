-------------------------- MODULE OrderServiceProofs --------------------------
(***************************************************************************)
(* What the transactions of OrderService guarantee however many requests   *)
(* overlap, whatever the callers ask for and wherever one of them fails,   *)
(* and that all of it holds beside the worker of OrderTasks.               *)
(***************************************************************************)
EXTENDS OrderTasks, FiniteSetTheorems, FunctionTheorems,
        SequenceTheorems, TLAPS

\* The record of an item, if it has one.
LEMMA InventoryOfType == \A i \in Items : InventoryOf(i) \in Stock \cup {None}
  BY ItemsAssumption DEF InventoryOf

\* An update outside the domain changes nothing.
LEMMA ExceptOutside ==
    ASSUME NEW S, NEW f, f = [x \in S |-> f[x]], NEW s, s \notin S, NEW y
    PROVE  [f EXCEPT ![s] = y] = f
  OBVIOUS

LEMMA RowElsewhere ==
    ASSUME TypeOK, NEW r \in Requests, NEW s, s \notin Stock, NEW row
    PROVE  [rows EXCEPT ![r][s] = row] = rows
  <1>1. rows[r] = [x \in Stock |-> rows[r][x]]
    BY DEF TypeOK
  <1>2. [rows[r] EXCEPT ![s] = row] = rows[r]
    BY <1>1, ExceptOutside
  <1>3. [rows EXCEPT ![r] = rows[r]] = rows
    BY DEF TypeOK
  <1> QED BY <1>2, <1>3

\* The instances loaded for any items are rows.
LEMMA LoadedType ==
    ASSUME TypeOK, NEW I
    PROVE  Loaded(I) \in [Items -> Row]
  <1>1. NoRow \in Row
    BY DEF NoRow, Row
  <1>2. \A i \in Items : InventoryOf(i) # None => inv[InventoryOf(i)] \in Row
    BY InventoryOfType DEF TypeOK
  <1> QED BY <1>1, <1>2 DEF Loaded

\* An ordering of a finite set is a sequence that visits each element.
LEMMA OrderingVisits ==
    ASSUME NEW I, IsFiniteSet(I), NEW q \in Orderings(I)
    PROVE  /\ q \in Seq(I)
           /\ Len(q) = Cardinality(I)
           /\ \A i \in I : \E k \in 1..Len(q) : q[k] = i
           /\ q = <<>> <=> I = {}
  <1> DEFINE n == Cardinality(I)
  <1>1. n \in Nat
    BY FS_CardinalityType
  <1>2. q \in [1..n -> I] /\ \A j, k \in 1..n : q[j] = q[k] => j = k
    BY DEF Orderings
  <1>3. q \in Seq(I) /\ Len(q) = n
    BY <1>1, <1>2
  <1>4. IsFiniteSet(1..n) /\ Cardinality(1..n) = n
    <2>1. IsFiniteSet(1..n) /\ Cardinality(1..n) = IF 1 > n THEN 0 ELSE n - 1 + 1
      BY <1>1, FS_Interval
    <2> QED BY <1>1, <2>1
  <1>5. q \in Injection(1..n, I)
    BY <1>2, Fun_IsInj
  <1>6. q \in Surjection(1..n, I)
    BY <1>4, <1>5, FS_Injection
  <1>7. \A i \in I : \E k \in 1..n : q[k] = i
    BY <1>6 DEF Surjection
  <1>8. n = 0 <=> I = {}
    BY FS_EmptySet
  <1>9. q = <<>> <=> n = 0
    BY <1>3, EmptySeq
  <1> QED BY <1>3, <1>7, <1>8, <1>9

\* One turn of a stock loop.
LEMMA LoopTurn ==
    ASSUME TypeOK, NEW r \in Requests, todo[r] # <<>>, NEW after, Advance(r, after)
    PROVE  /\ Head(todo[r]) \in Items
           /\ todo' \in [Requests -> Seq(Items)]
           /\ \A q \in Requests : q # r => todo'[q] = todo[q] /\ pc'[q] = pc[q]
           /\ pc'[r] = IF todo'[r] = <<>> THEN after ELSE pc[r]
           /\ \A i : InTodo(r, i) <=> i = Head(todo[r]) \/ InTodo(r, i)'
  <1> DEFINE q == todo[r]
  <1>1. q \in Seq(Items) /\ q # <<>>
    BY DEF TypeOK
  <1>2. /\ Head(q) \in Items /\ Tail(q) \in Seq(Items) /\ Len(Tail(q)) = Len(q) - 1
        /\ \A k \in 1..Len(Tail(q)) : Tail(q)[k] = q[k + 1]
    BY <1>1, HeadTailProperties
  <1>3. Len(q) \in Nat \ {0} /\ Head(q) = q[1]
    BY <1>1, EmptySeq
  <1>4. Tail(q) = <<>> <=> Len(q) = 1
    <2>1. \A t \in Seq(Items) : Len(t) \in Nat /\ (t = <<>> <=> Len(t) = 0)
      BY EmptySeq, LenProperties
    <2>2. Tail(q) = <<>> <=> Len(Tail(q)) = 0
      BY <1>2, <2>1, Zenon
    <2> QED BY <1>2, <1>3, <2>2
  <1>5. todo' = [todo EXCEPT ![r] = Tail(q)] /\ todo'[r] = Tail(q)
    BY DEF Advance, TypeOK
  <1>6. pc'[r] = IF Len(q) = 1 THEN after ELSE pc[r]
    BY DEF Advance, TypeOK
  <1>7. \A i : InTodo(r, i) <=> i = Head(q) \/ \E k \in 1..Len(Tail(q)) : Tail(q)[k] = i
    <2>1. ASSUME NEW k \in 1..Len(q), k # 1
          PROVE  k - 1 \in 1..Len(Tail(q)) /\ Tail(q)[k - 1] = q[k]
      BY <2>1, <1>2, <1>3
    <2>2. ASSUME NEW k \in 1..Len(Tail(q))
          PROVE  k + 1 \in 1..Len(q) /\ Tail(q)[k] = q[k + 1]
      BY <2>2, <1>2, <1>3
    <2>3. 1 \in 1..Len(q)
      BY <1>3
    <2> QED BY <2>1, <2>2, <2>3, <1>3 DEF InTodo
  <1>8. \A p \in Requests : p # r => todo'[p] = todo[p] /\ pc'[p] = pc[p]
    BY DEF Advance, TypeOK
  <1>9. todo' \in [Requests -> Seq(Items)]
    BY <1>2, <1>5 DEF TypeOK
  <1>10. \A i : InTodo(r, i)' <=> \E k \in 1..Len(Tail(q)) : Tail(q)[k] = i
    BY <1>5 DEF InTodo
  <1> QED BY <1>2, <1>4, <1>5, <1>6, <1>7, <1>8, <1>9, <1>10

------------------------------------------------------------------------------
\* The initial state satisfies the invariant.
LEMMA OrderInit == Init => OrderInv
  <1> SUFFICES ASSUME Init PROVE OrderInv
    OBVIOUS
  <1> USE DEF Init
  <1>1. TypeOK
    <2>1. inv \in [Stock -> Row]
      BY StockAssumption DEF Row
    <2>2. <<>> \in Seq(Items)
      BY EmptySeq
    <2> QED BY <2>1, <2>2 DEF TypeOK, NoRow, Row
  <1>2. \A r \in Requests : \A i : ~InTodo(r, i)
    BY EmptySeq DEF InTodo
  <1>3. RequestsTyped
    BY DEF RequestsTyped, Open, Busy, Requests, Ended
  <1>4. LoopsBounded
    BY <1>2 DEF LoopsBounded
  <1>5. LocksExclusive
    BY DEF LocksExclusive, Busy, Requests
  <1>6. CopiesFresh /\ OnHandClean /\ SalesCovered
    BY DEF CopiesFresh, OnHandClean, SalesCovered, Busy, Requests
  <1>7. DeliveryLogged
    BY DEF DeliveryLogged
  <1> QED BY <1>1, <1>3, <1>4, <1>5, <1>6, <1>7 DEF OrderInv

\* A request that rolls back leaves the others and the committed rows alone.
LEMMA OrderRollback ==
    ASSUME OrderInv, NEW r \in Requests, pc[r] # "done", Rollback(r)
    PROVE  OrderInv'
  <1> USE DEF Rollback, Close, db
  <1>1. TypeOK /\ TypeOK'
    <2>1. <<>> \in Seq(Items) /\ NoRow \in Row
      BY EmptySeq DEF NoRow, Row
    <2>2. TypeOK
      BY DEF OrderInv
    <2> QED BY <2>1, <2>2 DEF TypeOK, Ended
  <1>2. /\ pc'[r] = "failed" /\ sales'[r] = {} /\ todo'[r] = <<>>
        /\ \A s \in Stock : rows'[r][s] = None
    BY <1>1 DEF TypeOK
  <1>3. \A q \in Requests : q # r =>
            /\ pc'[q] = pc[q] /\ arg'[q] = arg[q] /\ order'[q] = order[q]
            /\ todo'[q] = todo[q] /\ rows'[q] = rows[q] /\ sales'[q] = sales[q]
    BY <1>1 DEF TypeOK
  <1>4. orders' = orders /\ inv' = inv /\ moves' = moves
    OBVIOUS
  <1>5. RequestsTyped'
    BY <1>2, <1>3, <1>4 DEF OrderInv, RequestsTyped, Open, Busy, Requests, Ended
  <1>6. LoopsBounded'
    <2>1. \A q \in Requests : \A i : q # r => (InTodo(q, i)' <=> InTodo(q, i))
      BY <1>3 DEF InTodo
    <2>2. \A i : ~InTodo(r, i)'
      BY <1>2, EmptySeq DEF InTodo
    <2> QED BY <1>2, <1>3, <2>1, <2>2 DEF OrderInv, LoopsBounded
  <1>7. LocksExclusive'
    BY <1>2, <1>3 DEF OrderInv, LocksExclusive, Busy, Requests
  <1>8. CopiesFresh'
    BY <1>2, <1>3, <1>4 DEF OrderInv, CopiesFresh, Busy, Requests
  <1>9. OnHandClean'
    BY <1>2, <1>3, <1>4 DEF OrderInv, OnHandClean, Busy
  <1>10. SalesCovered'
    <2>1. \A q \in Requests : \A i : q # r => (InTodo(q, i)' <=> InTodo(q, i))
      BY <1>3 DEF InTodo
    <2> QED BY <1>2, <1>3, <2>1 DEF OrderInv, SalesCovered, Busy, Requests
  <1>11. DeliveryLogged'
    BY <1>4 DEF OrderInv, DeliveryLogged
  <1> QED BY <1>1, <1>5, <1>6, <1>7, <1>8, <1>9, <1>10, <1>11 DEF OrderInv

\* A cart row that nobody has read yet.
LEMMA OrderAddToCart ==
    ASSUME OrderInv, NEW i \in Items, AddToCart(i)
    PROVE  OrderInv'
  <1> USE DEF AddToCart, memory, writes
  <1>1. TypeOK'
    BY DEF OrderInv, TypeOK
  <1>2. /\ \A r \in Requests : \A j : InTodo(r, j)' <=> InTodo(r, j)
        /\ \A r \in Requests : Open(r)' <=> Open(r)
        /\ \A u \in Updating : Busy(u)' <=> Busy(u)
    BY DEF InTodo, Open, Busy
  <1>3. /\ inv' = inv /\ orders' = orders /\ moves' = moves /\ pc' = pc /\ arg' = arg
        /\ order' = order /\ todo' = todo /\ rows' = rows /\ sales' = sales
    OBVIOUS
  <1> HIDE DEF AddToCart, memory, writes
  <1>4. RequestsTyped'
    BY <1>2, <1>3 DEF OrderInv, RequestsTyped, Requests
  <1>5. LoopsBounded'
    BY <1>2, <1>3 DEF OrderInv, LoopsBounded
  <1>6. LocksExclusive'
    BY <1>2, <1>3 DEF OrderInv, LocksExclusive
  <1>7. CopiesFresh'
    BY <1>2, <1>3 DEF OrderInv, CopiesFresh
  <1>8. OnHandClean'
    BY <1>2, <1>3 DEF OrderInv, OnHandClean, Requests
  <1>9. SalesCovered'
    BY <1>2, <1>3 DEF OrderInv, SalesCovered, Requests
  <1>10. DeliveryLogged'
    BY <1>3 DEF OrderInv, DeliveryLogged
  <1> QED BY <1>1, <1>4, <1>5, <1>6, <1>7, <1>8, <1>9, <1>10 DEF OrderInv

\* The steps that move a request on outside its stock loop: what it has loaded
\* and written does not depend on where it is.
LEMMA OrderMoveOn ==
    ASSUME OrderInv, TypeOK', NEW r \in Requests, NEW c,
           \/ /\ r \in Placing
              /\ pc[r] \in {"create", "email", "notify"}
              /\ c \in {"email", "notify", "commit"}
           \/ r \in Updating /\ pc[r] = "save" /\ c = "commit",
           pc' = [pc EXCEPT ![r] = c],
           UNCHANGED <<inv, orders, moves, memory, rows, sales>>
    PROVE  OrderInv'
  <1> USE DEF memory
  <1>1. pc'[r] = c /\ \A q \in Requests : q # r => pc'[q] = pc[q]
    BY DEF OrderInv, TypeOK
  <1>2. Placing \cap Updating = {} /\ Placing \subseteq Requests /\ Updating \subseteq Requests
    BY RequestsAssumption DEF Requests
  <1>3. RequestsTyped'
    BY <1>1, <1>2 DEF OrderInv, RequestsTyped, Open, Busy, Ended
  <1>4. LoopsBounded'
    BY <1>1, <1>2 DEF OrderInv, LoopsBounded, InTodo
  <1>5. LocksExclusive' /\ CopiesFresh'
    BY <1>1, <1>2 DEF OrderInv, LocksExclusive, CopiesFresh, Busy
  <1>6. OnHandClean'
    BY <1>1, <1>2 DEF OrderInv, OnHandClean, Busy
  <1>7. SalesCovered' /\ DeliveryLogged'
    BY <1>1, <1>2 DEF OrderInv, SalesCovered, DeliveryLogged, InTodo, Busy
  <1> QED BY <1>3, <1>4, <1>5, <1>6, <1>7 DEF OrderInv

LEMMA OrderCreate ==
    ASSUME OrderInv, NEW p \in Placing, CreateOrder(p)
    PROVE  OrderInv'
  <1>1. TypeOK'
    BY DEF OrderInv, TypeOK, CreateOrder, CartOf, db, memory, Requests
  <1> QED BY <1>1, OrderMoveOn DEF CreateOrder, db, memory, Requests

LEMMA OrderPublish ==
    ASSUME OrderInv, NEW p \in Placing, PublishEmail(p) \/ PublishPlaced(p)
    PROVE  OrderInv'
  <1>1. /\ [task |-> "email", order |-> p, by |-> p] \in Task
        /\ [task |-> "placed", order |-> p, by |-> p] \in Task
    BY DEF Task, Requests
  <1>2. queue' \subseteq Task
    BY <1>1 DEF OrderInv, TypeOK, PublishEmail, PublishPlaced
  <1>3. TypeOK'
    BY <1>2 DEF OrderInv, TypeOK, PublishEmail, PublishPlaced, db, memory, writes, Requests
  <1> QED BY <1>3, OrderMoveOn
          DEF PublishEmail, PublishPlaced, db, memory, writes, Requests

LEMMA OrderPublishStatus ==
    ASSUME OrderInv, NEW u \in Updating, PublishStatus(u)
    PROVE  OrderInv'
  <1>1. arg[u] \in [order : Placing, status : Statuses]
    BY DEF OrderInv, RequestsTyped, PublishStatus, Open, Ended
  <1>2. queue' \subseteq Task
    <2>1. {[task |-> st, order |-> arg[u].order, by |-> u] :
              st \in {arg[u].status} \cap Stamped} \subseteq Task
      BY <1>1 DEF Task, Requests
    <2> QED BY <2>1 DEF PublishStatus, OrderInv, TypeOK
  <1>3. TypeOK'
    BY <1>2 DEF OrderInv, TypeOK, PublishStatus, db, memory, writes, Requests
  <1> QED BY <1>3, OrderMoveOn DEF PublishStatus, db, memory, writes, Requests

\* A request that begins: nothing is written, its items are still to be visited.
LEMMA OrderStartPlace ==
    ASSUME OrderInv, NEW p \in Placing, NEW c \in Customers, StartPlace(p, c)
    PROVE  OrderInv'
  <1> DEFINE I == CartOf(c)
             o == [lines |-> I, status |-> "pending", stamps |-> {}]
  <1>1. TypeOK /\ I \subseteq Items /\ I # {} /\ IsFiniteSet(I) /\ p \in Requests
    <2>1. TypeOK /\ I \subseteq Items /\ I # {} /\ p \in Requests
      BY DEF OrderInv, TypeOK, CartOf, StartPlace, Requests
    <2> QED BY <2>1, ItemsAssumption, FS_Subset
  <1>2. PICK q \in Orderings(I) : todo' = [todo EXCEPT ![p] = q]
    BY DEF StartPlace
  <1>3. /\ q \in Seq(Items) /\ q # <<>>
        /\ \A i \in Items : (\E k \in 1..Len(q) : q[k] = i) => i \in I
    <2>1. q \in Seq(I) /\ q # <<>>
      BY <1>1, OrderingVisits
    <2>2. \A k \in 1..Len(q) : q[k] \in I
      BY <2>1, ElementOfSeq
    <2> QED BY <1>1, <2>1, <2>2, SeqMonotonic
  <1>4. o \in Order
    BY <1>1 DEF Order, Statuses
  <1>5. /\ pc' = [pc EXCEPT ![p] = "reserve"]
        /\ arg' = [arg EXCEPT ![p] = [customer |-> c]]
        /\ order' = [order EXCEPT ![p] = o]
        /\ inst' = [inst EXCEPT ![p] = Loaded(I)]
        /\ UNCHANGED <<inv, cart, shelf, orders, moves, queue, rows, sales, cleared>>
    BY DEF StartPlace, db, writes
  <1>6. TypeOK'
    BY <1>1, <1>2, <1>3, <1>4, <1>5, LoadedType DEF TypeOK
  <1>7. /\ pc[p] = "idle" /\ pc'[p] = "reserve" /\ todo'[p] = q /\ order'[p] = o
        /\ arg'[p] = [customer |-> c]
    BY <1>1, <1>2, <1>5 DEF TypeOK, StartPlace
  <1>8. \A r \in Requests : r # p =>
            /\ pc'[r] = pc[r] /\ arg'[r] = arg[r] /\ order'[r] = order[r] /\ todo'[r] = todo[r]
    BY <1>1, <1>2, <1>5 DEF TypeOK
  <1>9. Placing \cap Updating = {} /\ Placing \subseteq Requests /\ Updating \subseteq Requests
    BY RequestsAssumption DEF Requests
  <1>10. RequestsTyped'
    BY <1>4, <1>5, <1>7, <1>8, <1>9 DEF OrderInv, RequestsTyped, Open, Busy, Ended
  <1>11. LoopsBounded'
    <2>1. \A r \in Requests : \A i : r # p => (InTodo(r, i)' <=> InTodo(r, i))
      BY <1>8 DEF InTodo
    <2>2. \A i \in Items : InTodo(p, i)' => i \in I
      BY <1>3, <1>7 DEF InTodo
    <2> QED BY <1>3, <1>7, <1>8, <2>1, <2>2 DEF OrderInv, LoopsBounded
  <1>12. LocksExclusive' /\ CopiesFresh'
    BY <1>5, <1>7, <1>8, <1>9 DEF OrderInv, LocksExclusive, CopiesFresh, Busy
  <1>13. OnHandClean'
    BY <1>5, <1>7, <1>8, <1>9 DEF OrderInv, OnHandClean, Busy
  <1>14. SalesCovered'
    BY <1>5, <1>7, <1>8, <1>9 DEF OrderInv, SalesCovered, InTodo, Busy
  <1>15. DeliveryLogged'
    BY <1>5 DEF OrderInv, DeliveryLogged
  <1> QED BY <1>6, <1>10, <1>11, <1>12, <1>13, <1>14, <1>15 DEF OrderInv

LEMMA OrderStartUpdate ==
    ASSUME OrderInv, NEW u \in Updating, NEW o \in Placing, NEW st \in Statuses,
           StartUpdate(u, o, st)
    PROVE  OrderInv'
  <1> USE DEF StartUpdate, db, writes
  <1>1. TypeOK' /\ u \in Requests
    BY DEF OrderInv, TypeOK, Requests
  <1>2. /\ pc[u] = "idle" /\ pc'[u] = "lock" /\ arg'[u] = [order |-> o, status |-> st]
        /\ \A r \in Requests : r # u => pc'[r] = pc[r] /\ arg'[r] = arg[r]
    BY <1>1 DEF OrderInv, TypeOK
  <1>3. Placing \cap Updating = {} /\ Placing \subseteq Requests /\ Updating \subseteq Requests
    BY RequestsAssumption DEF Requests
  <1>4. RequestsTyped'
    BY <1>2, <1>3 DEF OrderInv, RequestsTyped, Open, Busy, Ended
  <1>5. LoopsBounded'
    BY <1>2, <1>3 DEF OrderInv, LoopsBounded, InTodo
  <1>6. LocksExclusive' /\ CopiesFresh'
    BY <1>2, <1>3 DEF OrderInv, LocksExclusive, CopiesFresh, Busy
  <1>7. OnHandClean'
    BY <1>2, <1>3 DEF OrderInv, OnHandClean, Busy
  <1>8. SalesCovered' /\ DeliveryLogged'
    BY <1>2, <1>3 DEF OrderInv, SalesCovered, DeliveryLogged, InTodo, Busy
  <1> QED BY <1>1, <1>4, <1>5, <1>6, <1>7, <1>8 DEF OrderInv

------------------------------------------------------------------------------
\* The row the next statement of r writes is not locked by anybody else.
LEMMA RowFree ==
    ASSUME NEW r \in Requests, pc[r] \in {"reserve", "lines"}, WaitsFor(r) = {},
           InventoryOf(Head(todo[r])) # None
    PROVE  \A q \in Requests : q # r => rows[q][InventoryOf(Head(todo[r]))] = None
  BY DEF WaitsFor

\* A turn of a stock loop that writes the row of the item keeps what is said of
\* locks, copies and committed rows.
LEMMA OrderTurn ==
    ASSUME OrderInv, TypeOK', NEW r \in Requests,
           \/ r \in Placing /\ pc[r] = "reserve" /\ Advance(r, "create")
           \/ r \in Updating /\ pc[r] = "lines" /\ Advance(r, "save"),
           WaitsFor(r) = {},
           NEW row, rows' = [rows EXCEPT ![r][InventoryOf(Head(todo[r]))] = row],
           row.onHand # inv[InventoryOf(Head(todo[r]))].onHand
             => r \in Updating /\ arg[r].status = "delivered",
           UNCHANGED <<db, queue, arg, inst, order, cleared>>
    PROVE  RequestsTyped' /\ LoopsBounded' /\ LocksExclusive' /\ CopiesFresh'
           /\ OnHandClean' /\ DeliveryLogged'
  <1> DEFINE i == Head(todo[r])
             s == InventoryOf(i)
  <1> USE DEF db
  <1>1. TypeOK /\ todo[r] # <<>>
    BY DEF OrderInv, LoopsBounded
  <1>2. PICK after \in {"create", "save"} :
            /\ Advance(r, after)
            /\ r \in Placing => pc[r] = "reserve" /\ after = "create"
            /\ r \in Updating => pc[r] = "lines" /\ after = "save"
    BY RequestsAssumption
  <1>3. /\ i \in Items
        /\ \A q \in Requests : q # r => todo'[q] = todo[q] /\ pc'[q] = pc[q]
        /\ pc'[r] = IF todo'[r] = <<>> THEN after ELSE pc[r]
        /\ \A j : InTodo(r, j) <=> j = i \/ InTodo(r, j)'
    BY <1>1, <1>2, LoopTurn
  <1>4. Placing \cap Updating = {} /\ Placing \subseteq Requests /\ Updating \subseteq Requests
    BY RequestsAssumption DEF Requests
  <1>5. RequestsTyped'
    BY <1>2, <1>3, <1>4 DEF OrderInv, RequestsTyped, Open, Busy, Ended
  <1>6. LoopsBounded'
    <2>1. \A q \in Requests : \A j : q # r => (InTodo(q, j)' <=> InTodo(q, j))
      BY <1>3 DEF InTodo
    <2>2. pc[r] \in {"reserve", "lines"}
      OBVIOUS
    <2> QED BY <1>2, <1>3, <2>1, <2>2 DEF OrderInv, LoopsBounded
  <1>7. /\ \A q \in Requests : q # r => rows'[q] = rows[q]
        /\ \A t \in Stock : t # s => rows'[r][t] = rows[r][t]
        /\ s \in Stock => rows'[r][s] = row
    BY <1>1 DEF TypeOK
  <1>8. Busy(r)' <=> Busy(r)
    BY <1>2, <1>3, <1>4 DEF Busy, Requests
  <1>9. \A q \in Requests : Busy(q)' <=> Busy(q)
    BY <1>3, <1>8 DEF Busy
  <1>10. LocksExclusive'
    <2>1. s \in Stock => \A q \in Requests : q # r => rows[q][s] = None
      BY RowFree, NoneAssumption
    <2>2. \A q, p \in Requests : q # p =>
              \A t \in Stock : rows'[q][t] = None \/ rows'[p][t] = None
      BY <1>7, <2>1 DEF OrderInv, LocksExclusive
    <2> QED BY <1>4, <1>9, <2>2 DEF OrderInv, LocksExclusive
  <1>11. CopiesFresh'
    BY <1>4, <1>9 DEF OrderInv, CopiesFresh
  <1>12. OnHandClean'
    <2>1. ASSUME NEW q \in Requests, NEW t \in Stock, rows'[q][t] # None,
                 rows'[q][t].onHand # inv[t].onHand
          PROVE  /\ q \in Updating /\ Busy(q) /\ arg[q].status = "delivered"
                 /\ \E j \in order[q].lines : InventoryOf(j) = t
      <3>1. CASE q # r \/ t # s
        BY <2>1, <3>1, <1>7 DEF OrderInv, OnHandClean
      <3>2. CASE q = r /\ t = s
        <4>1. r \in Updating /\ arg[r].status = "delivered" /\ pc[r] = "lines"
          BY <2>1, <3>2, <1>2, <1>7
        <4>2. i \in order[r].lines
          BY <1>3 DEF OrderInv, LoopsBounded
        <4> QED BY <3>2, <4>1, <4>2 DEF Busy
      <3> QED BY <3>1, <3>2
    <2> QED BY <2>1, <1>9 DEF OnHandClean
  <1>13. DeliveryLogged'
    BY DEF OrderInv, DeliveryLogged
  <1> QED BY <1>5, <1>6, <1>10, <1>11, <1>12, <1>13

\* The row r sees has the committed on-hand quantity, unless r is a delivery.
LEMMA VisibleOnHand ==
    ASSUME OrderInv, NEW r \in Requests, NEW s \in Stock,
           r \in Updating => arg[r].status # "delivered"
    PROVE  Visible(r, s) \in Row /\ Visible(r, s).onHand = inv[s].onHand
  BY DEF OrderInv, TypeOK, OnHandClean, Visible

LEMMA OrderReserve ==
    ASSUME OrderInv, NEW p \in Placing, Reserve(p)
    PROVE  OrderInv'
  <1> DEFINE i == Head(todo[p])
             s == InventoryOf(i)
             row == [Visible(p, s) EXCEPT !.reserved = inst[p][i].reserved + Quantity[i]]
  <1> USE DEF Reserve, db
  <1>1. TypeOK /\ p \in Requests /\ p \notin Updating /\ todo[p] # <<>>
    BY RequestsAssumption DEF OrderInv, LoopsBounded, Requests
  <1>2. i \in Items /\ todo' \in [Requests -> Seq(Items)]
    BY <1>1, LoopTurn
  <1>3. s \in Stock
    BY <1>2, InventoryOfType
  <1>4. Visible(p, s) \in Row /\ Visible(p, s).onHand = inv[s].onHand
    BY <1>1, <1>3, VisibleOnHand
  <1>5. row \in Row /\ row.onHand = inv[s].onHand
    <2>1. inst[p][i].reserved + Quantity[i] \in Nat
      BY <1>1, <1>2, ItemsAssumption DEF Row, TypeOK
    <2> HIDE DEF i, s
    <2> QED BY <1>4, <2>1 DEF Row
  <1>6. rows' = [rows EXCEPT ![p][s] = row]
    OBVIOUS
  <1>7. TypeOK'
    BY <1>1, <1>2, <1>3, <1>5, <1>6 DEF TypeOK, Advance
  <1>8. RequestsTyped' /\ LoopsBounded' /\ LocksExclusive' /\ CopiesFresh'
        /\ OnHandClean' /\ DeliveryLogged'
    BY <1>1, <1>5, <1>6, <1>7, OrderTurn
  <1>9. SalesCovered'
    <2>1. \A q \in Requests : q # p => pc'[q] = pc[q] /\ todo'[q] = todo[q]
      BY <1>1, LoopTurn
    <2> QED BY <1>1, <2>1 DEF OrderInv, SalesCovered, InTodo, Busy, Requests
  <1> QED BY <1>7, <1>8, <1>9 DEF OrderInv

LEMMA OrderRelease ==
    ASSUME OrderInv, NEW u \in Updating, Release(u)
    PROVE  OrderInv'
  <1> DEFINE i == Head(todo[u])
             s == InventoryOf(i)
             row == [Visible(u, s) EXCEPT
                        !.reserved = Clamp(inst[u][i].reserved - Quantity[i])]
  <1> USE DEF Release, db
  <1>1. /\ TypeOK /\ u \in Requests /\ u \notin Placing /\ todo[u] # <<>>
        /\ arg[u].status = "cancelled"
    BY RequestsAssumption DEF OrderInv, LoopsBounded, Requests
  <1>2. i \in Items /\ todo' \in [Requests -> Seq(Items)]
    BY <1>1, LoopTurn
  <1>3. rows' = [rows EXCEPT ![u][s] = row]
    OBVIOUS
  <1>4. s \in Stock => row \in Row /\ row.onHand = inv[s].onHand
    <2>1. s \in Stock => Visible(u, s) \in Row /\ Visible(u, s).onHand = inv[s].onHand
      BY <1>1, VisibleOnHand
    <2>2. Clamp(inst[u][i].reserved - Quantity[i]) \in Nat
      BY <1>1, <1>2, ItemsAssumption DEF Row, TypeOK, Clamp
    <2> QED BY <2>1, <2>2 DEF Row
  <1>5. TypeOK'
    <2>1. rows' \in [Requests -> [Stock -> Row \cup {None}]]
      <3>1. CASE s \in Stock
        BY <1>1, <1>3, <1>4, <3>1 DEF TypeOK
      <3>2. CASE s \notin Stock
        <4> HIDE DEF s, row, Release
        <4>1. rows' = rows
          BY <1>1, <1>3, <3>2, RowElsewhere
        <4> QED BY <1>1, <4>1 DEF TypeOK
      <3> QED BY <3>1, <3>2
    <2>2. pc' = [pc EXCEPT ![u] = pc'[u]] /\ pc'[u] \in {"lines", "save"}
      BY <1>1 DEF TypeOK, Advance
    <2> QED BY <1>1, <1>2, <2>1, <2>2 DEF TypeOK
  <1>6. RequestsTyped' /\ LoopsBounded' /\ LocksExclusive' /\ CopiesFresh'
        /\ OnHandClean' /\ DeliveryLogged'
    <2>1. CASE s \in Stock
      BY <1>1, <1>3, <1>4, <1>5, <2>1, OrderTurn
    <2>2. CASE s \notin Stock
      <3>1. rows' = [rows EXCEPT ![u][s] = inv[s]]
        <4> HIDE DEF s, row, Release
        <4>1. rows' = rows
          BY <1>1, <1>3, <2>2, RowElsewhere
        <4> DEFINE committed == inv[s]
        <4> HIDE DEF committed
        <4>2. [rows EXCEPT ![u][s] = committed] = rows
          BY <1>1, <2>2, RowElsewhere
        <4> QED BY <4>1, <4>2 DEF committed
      <3> QED BY <1>1, <1>5, <3>1, OrderTurn
    <2> QED BY <2>1, <2>2
  <1>7. SalesCovered'
    <2>1. /\ \A q \in Requests : q # u => pc'[q] = pc[q] /\ todo'[q] = todo[q]
          /\ pc'[u] \in {"lines", "save"}
      BY <1>1, LoopTurn
    <2> QED BY <1>1, <2>1 DEF OrderInv, SalesCovered, InTodo, Busy, Requests
  <1> QED BY <1>5, <1>6, <1>7 DEF OrderInv

LEMMA OrderDeduct ==
    ASSUME OrderInv, NEW u \in Updating, Deduct(u)
    PROVE  OrderInv'
  <1> DEFINE i == Head(todo[u])
             s == InventoryOf(i)
             left == Clamp(inst[u][i].onHand - Quantity[i])
             row == [onHand |-> left,
                     reserved |-> Clamp(inst[u][i].reserved - Quantity[i])]
             sale == [by |-> u, order |-> arg[u].order, item |-> i,
                      before |-> inst[u][i].onHand, after |-> left]
  <1> USE DEF Deduct, db
  <1>1. /\ TypeOK /\ u \in Requests /\ u \notin Placing /\ todo[u] # <<>>
        /\ arg[u].status = "delivered" /\ pc[u] = "lines" /\ Busy(u)
    BY RequestsAssumption DEF OrderInv, LoopsBounded, Requests, Busy
  <1>2. i \in Items /\ todo' \in [Requests -> Seq(Items)]
    BY <1>1, LoopTurn
  <1>3. row \in Row /\ inst[u][i] \in Row /\ left \in Nat
    BY <1>1, <1>2, ItemsAssumption DEF Row, TypeOK, Clamp
  <1>4. sale \in Sale
    <2>1. arg[u].order \in Placing
      BY <1>1 DEF OrderInv, RequestsTyped, Open, Ended
    <2> QED BY <1>2, <1>3, <2>1 DEF Sale, Row
  <1>5. rows' = [rows EXCEPT ![u][s] = row] /\ sales' = [sales EXCEPT ![u] = @ \cup {sale}]
    OBVIOUS
  <1>same. /\ inv' = inv /\ cart' = cart /\ shelf' = shelf /\ orders' = orders
           /\ moves' = moves /\ queue' = queue /\ arg' = arg /\ inst' = inst
           /\ order' = order /\ cleared' = cleared
    OBVIOUS
  <1>6. TypeOK'
    <2>1. rows' \in [Requests -> [Stock -> Row \cup {None}]]
      <3>1. CASE s \in Stock
        <4> HIDE DEF s, row, Deduct
        <4> QED BY <1>1, <1>3, <1>5, <3>1 DEF TypeOK
      <3>2. CASE s \notin Stock
        <4> HIDE DEF s, row, Deduct
        <4>1. rows' = rows
          BY <1>1, <1>5, <3>2, RowElsewhere
        <4> QED BY <1>1, <4>1 DEF TypeOK
      <3> QED BY <3>1, <3>2
    <2>2. pc' = [pc EXCEPT ![u] = pc'[u]] /\ pc'[u] \in {"lines", "save"}
      BY <1>1 DEF TypeOK, Advance
    <2>3. sales' \in [Requests -> SUBSET Sale]
      BY <1>1, <1>4, <1>5 DEF TypeOK
    <2> HIDE DEF Deduct, db
    <2> QED BY <1>1, <1>2, <1>same, <2>1, <2>2, <2>3 DEF TypeOK
  <1>7. RequestsTyped' /\ LoopsBounded' /\ LocksExclusive' /\ CopiesFresh'
        /\ OnHandClean' /\ DeliveryLogged'
    BY <1>1, <1>5, <1>6, OrderTurn
  <1>8. SalesCovered'
    <2>1. /\ \A q \in Requests : q # u => pc'[q] = pc[q] /\ todo'[q] = todo[q]
          /\ pc'[u] \in {"lines", "save"}
          /\ \A j : InTodo(u, j) <=> j = i \/ InTodo(u, j)'
      BY <1>1, LoopTurn
    <2>2. /\ \A q \in Requests : q # u => sales'[q] = sales[q]
          /\ sales'[u] = sales[u] \cup {sale}
      BY <1>1, <1>5 DEF TypeOK
    <2>sale. sale.by = u /\ sale.order = arg[u].order /\ sale.item = i
      OBVIOUS
    <2> HIDE DEF Deduct, db, sale, row, i
    <2>3. \A q \in Requests : Busy(q)' <=> Busy(q)
      BY <1>1, <2>1 DEF Busy
    <2>4. \A r \in Requests : ~(r \in Updating /\ Busy(r)') => sales'[r] = {}
      BY <1>1, <2>2, <2>3 DEF OrderInv, SalesCovered
    <2>5. ASSUME NEW v \in Updating, Busy(v)
          PROVE  /\ \A m \in sales'[v] : /\ m.by = v /\ m.order = arg[v].order
                                         /\ arg[v].status = "delivered"
                 /\ arg[v].status = "delivered" =>
                       \A j \in order[v].lines :
                           InTodo(v, j)' \/ \E m \in sales'[v] : m.item = j
      <3>1. CASE v = u
        <4>1. \A m \in sales[u] : m.by = u /\ m.order = arg[u].order
          BY <1>1 DEF OrderInv, SalesCovered
        <4>3. \A j \in order[u].lines : InTodo(u, j) \/ \E m \in sales[u] : m.item = j
          BY <1>1 DEF OrderInv, SalesCovered
        <4>4. \A m \in sales'[u] : m.by = u /\ m.order = arg[u].order
          BY <4>1, <2>sale, <2>2
        <4>5. \A j \in order[u].lines : InTodo(u, j)' \/ \E m \in sales'[u] : m.item = j
          BY <2>sale, <4>3, <2>1, <2>2
        <4> QED BY <3>1, <1>1, <4>4, <4>5
      <3>2. CASE v # u
        <4>1. /\ v \in Requests /\ sales'[v] = sales[v] /\ \A j : InTodo(v, j)' <=> InTodo(v, j)
          BY <3>2, <2>1, <2>2 DEF InTodo, Requests
        <4> QED BY <2>5, <4>1 DEF OrderInv, SalesCovered
      <3> QED BY <3>1, <3>2
    <2> QED BY <1>same, <2>3, <2>4, <2>5 DEF SalesCovered, Requests
  <1> QED BY <1>6, <1>7, <1>8 DEF OrderInv

\* The order is locked and copied; nothing of it has been written yet.
LEMMA OrderLock ==
    ASSUME OrderInv, NEW u \in Updating, Lock(u)
    PROVE  OrderInv'
  <1> DEFINE o == orders[arg[u].order]
             st == arg[u].status
             I == IF st \in {"delivered", "cancelled"} THEN o.lines ELSE {}
             copy == [o EXCEPT !.status = st, !.stamps = @ \cup ({st} \cap Stamped)]
  <1>1. /\ TypeOK /\ u \in Requests /\ u \notin Placing /\ pc[u] = "lock"
        /\ arg[u] \in [order : Placing, status : Statuses] /\ o \in Order /\ o # None
    <2>1. TypeOK /\ u \in Requests /\ u \notin Placing /\ pc[u] = "lock" /\ o # None
      BY RequestsAssumption DEF OrderInv, Lock, Requests
    <2>2. arg[u] \in [order : Placing, status : Statuses]
      BY <2>1 DEF OrderInv, RequestsTyped, Open, Ended
    <2> QED BY <2>1, <2>2 DEF TypeOK
  <1>2. I \subseteq Items /\ IsFiniteSet(I)
    <2>1. I \subseteq Items
      BY <1>1 DEF Order
    <2> QED BY <2>1, ItemsAssumption, FS_Subset
  <1>3. PICK q \in Orderings(I) : todo' = [todo EXCEPT ![u] = q]
    BY DEF Lock
  <1>4. /\ q \in Seq(Items) /\ (q = <<>> <=> I = {})
        /\ \A i \in Items : (\E k \in 1..Len(q) : q[k] = i) <=> i \in I
    <2>1. q \in Seq(I) /\ (q = <<>> <=> I = {}) /\ \A i \in I : \E k \in 1..Len(q) : q[k] = i
      BY <1>2, OrderingVisits
    <2>2. \A k \in 1..Len(q) : q[k] \in I
      BY <2>1, ElementOfSeq
    <2> QED BY <1>2, <2>1, <2>2, SeqMonotonic
  <1>5. copy \in Order
    BY <1>1 DEF Order
  <1>6. /\ pc' = [pc EXCEPT ![u] = IF I = {} THEN "save" ELSE "lines"]
        /\ order' = [order EXCEPT ![u] = copy]
        /\ inst' = [inst EXCEPT ![u] = Loaded(I)]
        /\ UNCHANGED <<inv, cart, shelf, orders, moves, queue, arg, rows, sales, cleared>>
    BY DEF Lock, db, writes
  <1>7. TypeOK'
    BY <1>1, <1>3, <1>4, <1>5, <1>6, LoadedType DEF TypeOK
  <1>8. /\ pc'[u] = (IF I = {} THEN "save" ELSE "lines") /\ todo'[u] = q
        /\ order'[u] = copy
    BY <1>1, <1>3, <1>6 DEF TypeOK
  <1>9. \A r \in Requests : r # u => /\ pc'[r] = pc[r] /\ order'[r] = order[r]
                                     /\ todo'[r] = todo[r]
    BY <1>1, <1>3, <1>6 DEF TypeOK
  <1>10. Placing \cap Updating = {} /\ Placing \subseteq Requests /\ Updating \subseteq Requests
    BY RequestsAssumption DEF Requests
  <1>11. \A v \in Updating : v # u /\ Busy(v) => arg[v].order # arg[u].order
    <2>1. \A v \in Updating : v # u /\ Busy(v) => v \notin WaitsFor(u)
      BY DEF Lock
    <2> QED BY <1>1, <1>10, <2>1 DEF WaitsFor
  <1>12. \A r \in Requests : r # u => (Busy(r)' <=> Busy(r))
    BY <1>9 DEF Busy
  <1>13. RequestsTyped'
    <2>1. \A r \in Requests : r # u => (Open(r)' <=> Open(r))
      BY <1>9 DEF Open
    <2>2. pc'[u] \in {"lines", "save"} /\ order'[u] \in Order
      BY <1>5, <1>8
    <2>3. arg' = arg /\ orders' = orders
      BY <1>6
    <2> HIDE DEF I, o, st, copy
    <2>4. \A p \in Placing : p # u /\ p \in Requests
      BY <1>1, <1>10
    <2>5. \A p \in Placing :
             /\ pc'[p] \in {"idle", "reserve", "create", "email", "notify", "commit"} \cup Ended
             /\ Open(p)' => /\ arg'[p] \in [customer : Customers]
                            /\ order'[p] \in Order /\ order'[p].stamps = {}
             /\ pc'[p] # "done" => orders'[p] = None
      BY <1>9, <2>1, <2>3, <2>4 DEF OrderInv, RequestsTyped
    <2>6. \A v \in Updating :
             /\ pc'[v] \in {"idle", "lock", "lines", "save", "commit"} \cup Ended
             /\ Open(v)' => arg'[v] \in [order : Placing, status : Statuses]
             /\ Busy(v)' => order'[v] \in Order
      BY <1>1, <1>9, <1>10, <1>12, <2>1, <2>2, <2>3 DEF OrderInv, RequestsTyped
    <2> QED BY <2>5, <2>6 DEF RequestsTyped
  <1>14. copy.lines = o.lines /\ copy.stamps = o.stamps \cup ({st} \cap Stamped)
    BY <1>1 DEF Order
  <1>15. LoopsBounded'
    <2>1. \A r \in Requests : \A i : r # u => (InTodo(r, i)' <=> InTodo(r, i))
      BY <1>9 DEF InTodo
    <2>2. \A i \in Items : InTodo(u, i)' => i \in order'[u].lines
      BY <1>4, <1>8, <1>14 DEF InTodo
    <2>3. pc'[u] \in {"reserve", "lines"} <=> todo'[u] # <<>>
      BY <1>4, <1>8
    <2> HIDE DEF I, o, st, copy
    <2> QED BY <1>9, <2>1, <2>2, <2>3 DEF OrderInv, LoopsBounded
  <1>16. LocksExclusive'
    BY <1>6, <1>9, <1>10, <1>11, <1>12 DEF OrderInv, LocksExclusive
  <1>17. CopiesFresh'
    <2>1. ASSUME NEW v \in Updating, v # u, Busy(v)'
          PROVE  /\ Busy(v) /\ order'[v] = order[v] /\ arg'[v] = arg[v]
      BY <2>1, <1>6, <1>9, <1>10, <1>12
    <2>2. arg'[u] = arg[u] /\ orders' = orders
      BY <1>6
    <2>3. /\ orders'[arg'[u].order] # None
          /\ order'[u].lines = orders'[arg'[u].order].lines
          /\ order'[u].stamps
                = orders'[arg'[u].order].stamps \cup ({arg'[u].status} \cap Stamped)
      BY <1>1, <1>8, <1>14, <2>2
    <2> QED BY <2>1, <2>2, <2>3 DEF OrderInv, CopiesFresh
  <1>18. OnHandClean'
    BY <1>1, <1>6, <1>8, <1>9, <1>12 DEF OrderInv, OnHandClean, Busy
  <1>19. SalesCovered'
    <2>1. sales[u] = {}
      BY <1>1 DEF OrderInv, SalesCovered, Busy
    <2>2. st = "delivered" => \A i \in copy.lines : InTodo(u, i)'
      BY <1>2, <1>4, <1>8, <1>14 DEF InTodo
    <2>3. \A r \in Requests : \A i : r # u => (InTodo(r, i)' <=> InTodo(r, i))
      BY <1>9 DEF InTodo
    <2>4. \A r \in Requests : ~(r \in Updating /\ Busy(r)') => sales'[r] = {}
      BY <1>6, <1>12, <2>1 DEF OrderInv, SalesCovered
    <2>5. ASSUME NEW v \in Updating, Busy(v)'
          PROVE  /\ \A m \in sales[v] : /\ m.by = v /\ m.order = arg[v].order
                                        /\ arg[v].status = "delivered"
                 /\ arg[v].status = "delivered" =>
                       \A j \in order'[v].lines :
                           InTodo(v, j)' \/ \E m \in sales[v] : m.item = j
      <3>1. CASE v = u
        BY <3>1, <1>8, <2>1, <2>2
      <3>2. CASE v # u
        BY <2>5, <3>2, <1>9, <1>10, <1>12, <2>3 DEF OrderInv, SalesCovered
      <3> QED BY <3>1, <3>2
    <2> QED BY <1>6, <2>4, <2>5 DEF SalesCovered
  <1>20. DeliveryLogged'
    BY <1>6 DEF OrderInv, DeliveryLogged
  <1> QED BY <1>7, <1>13, <1>15, <1>16, <1>17, <1>18, <1>19, <1>20 DEF OrderInv

\* The written rows become the committed ones, for the others as if they had
\* always been: nobody else has a lock on what changes.
LEMMA OrderCommit ==
    ASSUME OrderInv, NEW r \in Requests, Commit(r)
    PROVE  OrderInv'
  <1> DEFINE o == OrderOf(r)
  <1> USE DEF Commit, Close
  <1>1. TypeOK /\ pc[r] = "commit" /\ Open(r) /\ (r \in Updating => Busy(r))
    BY DEF OrderInv, Open, Busy, Ended
  <1>2. Placing \cap Updating = {} /\ Placing \subseteq Requests /\ Updating \subseteq Requests
    BY RequestsAssumption DEF Requests
  <1>3. o \in Placing /\ order[r] \in Order
    <2>1. CASE r \in Placing
      BY <1>1, <2>1 DEF OrderInv, RequestsTyped, OrderOf
    <2>2. CASE r \in Updating
      BY <1>1, <1>2, <2>2 DEF OrderInv, RequestsTyped, OrderOf
    <2> QED BY <2>1, <2>2 DEF Requests
  <1>4. /\ inv' = [s \in Stock |-> Visible(r, s)]
        /\ orders' = [orders EXCEPT ![o] = order[r]]
        /\ moves' = moves \cup sales[r]
        /\ cart' = cart \ cleared[r] /\ shelf' = shelf /\ queue' = queue
    OBVIOUS
  <1>5. TypeOK'
    <2>1. <<>> \in Seq(Items) /\ NoRow \in Row
      BY EmptySeq DEF NoRow, Row
    <2>2. \A s \in Stock : Visible(r, s) \in Row
      BY <1>1 DEF TypeOK, Visible
    <2>3. inv' \in [Stock -> Row] /\ orders' \in [Placing -> Order \cup {None}]
          /\ moves' \subseteq Sale /\ cart' \subseteq Items
      BY <1>1, <1>3, <1>4, <2>2 DEF TypeOK
    <2> QED BY <1>1, <2>1, <2>3 DEF TypeOK, Ended
  <1>6. /\ pc'[r] = "done" /\ sales'[r] = {} /\ todo'[r] = <<>>
        /\ \A s \in Stock : rows'[r][s] = None
    BY <1>1 DEF TypeOK
  <1>7. \A q \in Requests : q # r =>
            /\ pc'[q] = pc[q] /\ arg'[q] = arg[q] /\ order'[q] = order[q]
            /\ todo'[q] = todo[q] /\ rows'[q] = rows[q] /\ sales'[q] = sales[q]
    BY <1>1 DEF TypeOK
  <1>8. /\ orders'[o] = order[r] /\ order[r] # None
        /\ \A p \in Placing : p # o => orders'[p] = orders[p]
    BY <1>1, <1>3, <1>4, NoneAssumption DEF TypeOK
  <1>9. \A q \in Requests : Busy(q)' => q # r /\ Busy(q)
    BY <1>6, <1>7 DEF Busy
  <1>10. \A v \in Updating : v # r /\ Busy(v) => arg[v].order # o
    <2>1. CASE r \in Placing
      <3>1. orders[o] = None
        BY <1>1, <1>2, <2>1 DEF OrderInv, RequestsTyped, OrderOf
      <3> QED BY <3>1 DEF OrderInv, CopiesFresh
    <2>2. CASE r \in Updating
      BY <1>1, <1>2, <2>2 DEF OrderInv, LocksExclusive, OrderOf
    <2> QED BY <2>1, <2>2 DEF Requests
  <1>11. RequestsTyped'
    <2>1. \A p \in Placing : p # r => p # o \/ orders[p] # None
      BY <1>1, <1>2 DEF OrderInv, CopiesFresh, OrderOf, Requests
    <2>2. \A p \in Placing : pc'[p] # "done" => orders'[p] = None
      BY <1>2, <1>6, <1>7, <1>8, <2>1 DEF OrderInv, RequestsTyped
    <2>3. \A p \in Placing :
              /\ pc'[p] \in {"idle", "reserve", "create", "email", "notify", "commit"}
                               \cup Ended
              /\ Open(p)' => /\ arg'[p] \in [customer : Customers]
                              /\ order'[p] \in Order /\ order'[p].stamps = {}
      BY <1>2, <1>6, <1>7 DEF OrderInv, RequestsTyped, Open, Ended
    <2>4. \A u \in Updating :
              /\ pc'[u] \in {"idle", "lock", "lines", "save", "commit"} \cup Ended
              /\ Open(u)' => arg'[u] \in [order : Placing, status : Statuses]
              /\ Busy(u)' => order'[u] \in Order
      BY <1>2, <1>6, <1>7, <1>9 DEF OrderInv, RequestsTyped, Open, Ended
    <2> QED BY <2>2, <2>3, <2>4 DEF RequestsTyped
  <1>12. \A q \in Requests : \A i : q # r => (InTodo(q, i)' <=> InTodo(q, i))
    BY <1>7 DEF InTodo
  <1>13. LoopsBounded'
    <2>1. \A i : ~InTodo(r, i)'
      BY <1>6, EmptySeq DEF InTodo
    <2> QED BY <1>6, <1>7, <1>12, <2>1 DEF OrderInv, LoopsBounded
  <1>14. LocksExclusive'
    BY <1>2, <1>6, <1>7, <1>9 DEF OrderInv, LocksExclusive
  <1>15. CopiesFresh'
    BY <1>2, <1>7, <1>8, <1>9, <1>10 DEF OrderInv, CopiesFresh, RequestsTyped, Open,
       Busy, Ended
  <1>16. OnHandClean'
    <2>1. ASSUME NEW q \in Requests, NEW s \in Stock, q # r, rows[q][s] # None
          PROVE  inv'[s] = inv[s]
      BY <2>1, <1>4 DEF OrderInv, LocksExclusive, Visible
    <2>2. \A q \in Requests : q # r => (Busy(q)' <=> Busy(q))
      BY <1>7 DEF Busy
    <2> QED BY <1>6, <1>7, <2>1, <2>2 DEF OrderInv, OnHandClean
  <1>17. SalesCovered'
    BY <1>2, <1>6, <1>7, <1>9, <1>12 DEF OrderInv, SalesCovered, Busy
  <1>18. DeliveryLogged'
    <2>1. CASE r \in Placing
      <3>1. orders[o] = None /\ o = r /\ sales[r] = {}
        BY <1>1, <1>2, <2>1 DEF OrderInv, RequestsTyped, SalesCovered, OrderOf
      <3>2. order[r].stamps = {}
        BY <1>1, <2>1 DEF OrderInv, RequestsTyped
      <3>3. moves' = moves
        BY <1>4, <3>1
      <3>4. \A m \in moves : m.order \in Placing /\ m.order # o
        BY <1>1, <3>1 DEF OrderInv, DeliveryLogged, TypeOK, Sale
      <3>5. \A m \in moves : orders'[m.order] = orders[m.order]
        BY <1>8, <3>4
      <3>6. ASSUME NEW p \in Placing, orders'[p] # None, NEW i \in orders'[p].lines,
                   "delivered" \in orders'[p].stamps
            PROVE  \E m \in moves : m.order = p /\ m.item = i
        <4>1. p # o
          BY <3>6, <1>8, <3>2
        <4> QED BY <3>6, <4>1, <1>8 DEF OrderInv, DeliveryLogged
      <3>7. ASSUME NEW m \in moves
            PROVE  /\ orders'[m.order] # None
                   /\ "delivered" \in orders'[m.order].stamps
                   /\ \A i \in orders'[m.order].lines :
                         \E n \in moves : n.by = m.by /\ n.order = m.order /\ n.item = i
        BY <3>5 DEF OrderInv, DeliveryLogged
      <3> QED BY <3>3, <3>6, <3>7 DEF DeliveryLogged
    <2>2. CASE r \in Updating
      <3>1. /\ o = arg[r].order /\ orders[o] # None
            /\ order[r].lines = orders[o].lines
            /\ order[r].stamps = orders[o].stamps \cup ({arg[r].status} \cap Stamped)
        BY <1>1, <1>2, <2>2 DEF OrderInv, CopiesFresh, OrderOf
      <3>2. \A i \in Items : ~InTodo(r, i)
        BY <1>1, EmptySeq DEF OrderInv, LoopsBounded, InTodo
      <3>3. order[r].lines \subseteq Items
        BY <1>3 DEF Order
      <3>4. /\ \A m \in sales[r] : /\ m.by = r /\ m.order = o
                                   /\ arg[r].status = "delivered"
            /\ arg[r].status = "delivered" =>
                  \A i \in order[r].lines : \E m \in sales[r] : m.item = i
        BY <1>1, <2>2, <3>1, <3>2, <3>3 DEF OrderInv, SalesCovered
      <3>5. \A p \in Placing : orders'[p] # None =>
               \A i \in orders'[p].lines :
                  "delivered" \in orders'[p].stamps
                      => \E m \in moves' : m.order = p /\ m.item = i
        <4>1. ASSUME NEW p \in Placing, p # o, orders'[p] # None,
                     NEW i \in orders'[p].lines, "delivered" \in orders'[p].stamps
              PROVE  \E m \in moves' : m.order = p /\ m.item = i
          BY <4>1, <1>4, <1>8 DEF OrderInv, DeliveryLogged
        <4>2. ASSUME NEW i \in order[r].lines, "delivered" \in order[r].stamps
              PROVE  \E m \in moves' : m.order = o /\ m.item = i
          <5>1. CASE arg[r].status = "delivered"
            BY <5>1, <1>4, <3>4
          <5>2. CASE arg[r].status # "delivered"
            <6>1. "delivered" \in orders[o].stamps /\ i \in orders[o].lines
              BY <4>2, <5>2, <3>1
            <6> QED BY <6>1, <1>3, <1>4, <3>1 DEF OrderInv, DeliveryLogged
          <5> QED BY <5>1, <5>2
        <4> QED BY <4>1, <4>2, <1>8
      <3>6. ASSUME NEW m \in moves'
            PROVE  /\ orders'[m.order] # None
                   /\ "delivered" \in orders'[m.order].stamps
                   /\ \A i \in orders'[m.order].lines :
                         \E n \in moves' : n.by = m.by /\ n.order = m.order /\ n.item = i
        <4>1. CASE m \in moves
          <5>1. /\ m.order \in Placing /\ orders[m.order] # None
                /\ "delivered" \in orders[m.order].stamps
                /\ \A i \in orders[m.order].lines :
                      \E n \in moves' : n.by = m.by /\ n.order = m.order /\ n.item = i
            BY <4>1, <1>1, <1>4 DEF OrderInv, DeliveryLogged, TypeOK, Sale
          <5>2. CASE m.order = o
            BY <5>1, <5>2, <1>8, <3>1
          <5>3. CASE m.order # o
            BY <5>1, <5>3, <1>8
          <5> QED BY <5>2, <5>3
        <4>2. CASE m \in sales[r]
          <5>1. m.by = r /\ m.order = o /\ arg[r].status = "delivered"
            BY <4>2, <3>4
          <5>2. "delivered" \in order[r].stamps
            BY <5>1, <3>1 DEF Stamped
          <5>3. \A i \in order[r].lines : \E n \in sales[r] : n.item = i
            BY <5>1, <3>4
          <5> QED BY <5>1, <5>2, <5>3, <1>4, <1>8, <3>4
        <4> QED BY <4>1, <4>2, <1>4
      <3> QED BY <3>5, <3>6 DEF DeliveryLogged
    <2> QED BY <2>1, <2>2 DEF Requests
  <1> QED BY <1>5, <1>11, <1>13, <1>14, <1>15, <1>16, <1>17, <1>18 DEF OrderInv

\* A step that changes nothing.
LEMMA OrderStutter ==
    ASSUME OrderInv, UNCHANGED vars
    PROVE  OrderInv'
  <1> USE DEF vars, db, memory, writes
  <1>1. TypeOK' /\ RequestsTyped' /\ LoopsBounded'
    BY DEF OrderInv, TypeOK, RequestsTyped, LoopsBounded, InTodo, Open, Busy
  <1>2. LocksExclusive' /\ CopiesFresh' /\ OnHandClean'
    BY DEF OrderInv, LocksExclusive, CopiesFresh, OnHandClean, Busy
  <1>3. SalesCovered' /\ DeliveryLogged'
    BY DEF OrderInv, SalesCovered, DeliveryLogged, InTodo, Busy
  <1> QED BY <1>1, <1>2, <1>3 DEF OrderInv

\* Every step keeps the invariant.
LEMMA OrderNext == OrderInv /\ [Next]_vars => OrderInv'
  <1> SUFFICES ASSUME OrderInv, [Next]_vars PROVE OrderInv'
    OBVIOUS
  <1>1. CASE \E i \in Items : AddToCart(i)
    BY <1>1, OrderAddToCart
  <1>2. ASSUME NEW r \in Requests, Start(r)
        PROVE  OrderInv'
    <2>1. CASE \E c \in Customers : r \in Placing /\ StartPlace(r, c)
      BY <2>1, OrderStartPlace
    <2>2. CASE \E c \in Customers : EmptyCart(r, c)
      BY <2>2, OrderRollback DEF EmptyCart
    <2>3. ASSUME r \in Updating, NEW o \in Placing, NEW st \in Asked, StartUpdate(r, o, st)
          PROVE  OrderInv'
      <3>1. st \in Statuses
        BY LifecycleAssumption DEF Asked
      <3> QED BY <2>3, <3>1, OrderStartUpdate
    <2> QED BY <1>2, <2>1, <2>2, <2>3 DEF Start
  <1>3. ASSUME NEW p \in Placing, PlaceStep(p)
        PROVE  OrderInv'
    <2>1. CASE Reserve(p)
      BY <2>1, OrderReserve
    <2>2. CASE ReserveRefused(p)
      BY <2>2, OrderRollback DEF ReserveRefused, Requests
    <2>3. CASE CreateOrder(p)
      BY <2>3, OrderCreate
    <2>4. CASE PublishEmail(p) \/ PublishPlaced(p)
      BY <2>4, OrderPublish
    <2> QED BY <1>3, <2>1, <2>2, <2>3, <2>4 DEF PlaceStep
  <1>4. ASSUME NEW u \in Updating, UpdateStep(u)
        PROVE  OrderInv'
    <2>1. CASE OrderMissing(u)
      BY <2>1, OrderRollback DEF OrderMissing, Requests
    <2>2. CASE Lock(u)
      BY <2>2, OrderLock
    <2>3. CASE Release(u)
      BY <2>3, OrderRelease
    <2>4. CASE Deduct(u)
      BY <2>4, OrderDeduct
    <2>5. CASE PublishStatus(u)
      BY <2>5, OrderPublishStatus
    <2> QED BY <1>4, <2>1, <2>2, <2>3, <2>4, <2>5 DEF UpdateStep
  <1>5. ASSUME NEW r \in Requests, Serve(r)
        PROVE  OrderInv'
    BY <1>3, <1>4, <1>5, OrderCommit DEF Serve
  <1>6. ASSUME NEW r \in Requests, Abort(r)
        PROVE  OrderInv'
    BY <1>6, OrderRollback DEF Abort, Open, Ended
  <1>7. ASSUME NEW r \in Requests, BreakDeadlock(r)
        PROVE  OrderInv'
    <2>1. pc[r] # "done"
      BY <1>7 DEF BreakDeadlock, Deadlocked, InFlight, Open, Ended
    <2> QED BY <1>7, <2>1, OrderRollback DEF BreakDeadlock
  <1>8. CASE UNCHANGED vars
    BY <1>8, OrderStutter
  <1> QED BY <1>1, <1>2, <1>5, <1>6, <1>7, <1>8 DEF Next, Finished

\* However many requests overlap, whatever the callers ask for: the invariant
\* of the transactions holds in every reachable state.
THEOREM OrderInvariant == Spec => []OrderInv
  BY OrderInit, OrderNext, PTL DEF Spec

\* Rows, instances, locks and published tasks keep their types; in particular
\* no quantity becomes negative, however stale the instance it is computed from.
THEOREM OrderTypeCorrect == Spec => []TypeOK
  <1>1. OrderInv => TypeOK
    BY DEF OrderInv
  <1> QED BY <1>1, OrderInvariant, PTL

\* An order is stamped delivered exactly when all its sales are in the log.
THEOREM OrderDeliveryLogged == Spec => []DeliveryLogged
  <1>1. OrderInv => DeliveryLogged
    BY DEF OrderInv
  <1> QED BY <1>1, OrderInvariant, PTL

------------------------------------------------------------------------------
\* Committed rows of orders and inventory change when a transaction commits.
LEMMA OnlyCommits ==
    ASSUME [Next]_vars
    PROVE  \/ inv' = inv /\ orders' = orders
           \/ \E r \in Requests : Commit(r)
  <1> USE DEF db
  <1>1. ASSUME NEW r \in Requests, Rollback(r)
        PROVE  inv' = inv /\ orders' = orders
    BY <1>1 DEF Rollback
  <1>2. ASSUME NEW r \in Requests, Start(r)
        PROVE  inv' = inv /\ orders' = orders
    BY <1>1, <1>2 DEF Start, StartPlace, EmptyCart, StartUpdate
  <1>3. ASSUME NEW p \in Placing, PlaceStep(p)
        PROVE  inv' = inv /\ orders' = orders
    BY <1>1, <1>3 DEF PlaceStep, Reserve, ReserveRefused, CreateOrder, PublishEmail,
       PublishPlaced, Requests
  <1>4. ASSUME NEW u \in Updating, UpdateStep(u)
        PROVE  inv' = inv /\ orders' = orders
    BY <1>1, <1>4 DEF UpdateStep, OrderMissing, Lock, Release, Deduct, PublishStatus,
       Requests
  <1> QED BY <1>1, <1>2, <1>3, <1>4 DEF Next, vars, Finished, AddToCart, Serve, Abort,
          BreakDeadlock

\* A step of the service keeps every committed order, its lines and its timestamps.
LEMMA OrdersStay ==
    ASSUME OrderInv, [Next]_vars, NEW o \in Placing, orders[o] # None
    PROVE  /\ orders'[o] # None
           /\ orders'[o].lines = orders[o].lines
           /\ orders[o].stamps \subseteq orders'[o].stamps
  <1>1. CASE orders' = orders
    BY <1>1
  <1>2. CASE orders' # orders
    <2>1. PICK r \in Requests : Commit(r)
      BY <1>2, OnlyCommits
    <2>2. /\ pc[r] = "commit" /\ Open(r) /\ (r \in Updating => Busy(r))
          /\ orders' = [orders EXCEPT ![OrderOf(r)] = order[r]]
      BY <2>1 DEF Commit, Open, Busy, Ended
    <2>3. CASE o # OrderOf(r)
      BY <2>2, <2>3 DEF OrderInv, TypeOK
    <2>4. CASE o = OrderOf(r)
      <3>1. r \in Updating /\ r \notin Placing
        BY <2>2, <2>4, RequestsAssumption DEF OrderInv, RequestsTyped, OrderOf, Requests
      <3>2. order[r] \in Order /\ o = arg[r].order
        BY <2>2, <2>4, <3>1 DEF OrderInv, RequestsTyped, OrderOf
      <3>3. /\ order[r].lines = orders[o].lines
            /\ orders[o].stamps \subseteq order[r].stamps
        BY <2>2, <3>1, <3>2 DEF OrderInv, CopiesFresh
      <3> QED BY <2>2, <2>4, <3>2, <3>3, NoneAssumption DEF OrderInv, TypeOK
    <2> QED BY <2>3, <2>4
  <1> QED BY <1>1, <1>2

\* Full saves of the same order never undo each other: lines and timestamps of a
\* committed order stay, for any number of concurrent updates.
THEOREM OrderStampsKept == Spec => StampsKept
  <1> DEFINE Kept == \A o \in Placing : orders[o] # None =>
                         /\ orders'[o] # None
                         /\ orders'[o].lines = orders[o].lines
                         /\ orders[o].stamps \subseteq orders'[o].stamps
  <1>1. OrderInv /\ [Next]_vars => [Kept]_orders
    BY OrdersStay
  <1> QED BY <1>1, OrderInvariant, PTL DEF Spec, StampsKept

\* The on-hand quantity of a record changes only with the commit of a delivery of
\* an order with a line of that record, for any number of stale reservations.
THEOREM OrderOnHandOnlyByDelivery == Spec => OnHandOnlyByDelivery
  <1> DEFINE Delivered ==
        \A s \in Stock : inv'[s].onHand # inv[s].onHand =>
            \E u \in Updating :
                /\ pc[u] = "commit" /\ pc'[u] = "done"
                /\ arg[u].status = "delivered"
                /\ \E i \in order[u].lines : InventoryOf(i) = s
  <1>1. OrderInv /\ [Next]_vars => [Delivered]_inv
    <2> SUFFICES ASSUME OrderInv, [Next]_vars, inv' # inv,
                        NEW s \in Stock, inv'[s].onHand # inv[s].onHand
                 PROVE  \E u \in Updating :
                            /\ pc[u] = "commit" /\ pc'[u] = "done"
                            /\ arg[u].status = "delivered"
                            /\ \E i \in order[u].lines : InventoryOf(i) = s
      OBVIOUS
    <2>1. PICK r \in Requests : Commit(r)
      BY OnlyCommits
    <2>2. pc[r] = "commit" /\ pc'[r] = "done" /\ inv'[s] = Visible(r, s)
      BY <2>1 DEF Commit, Close, OrderInv, TypeOK
    <2>3. rows[r][s] # None /\ rows[r][s].onHand # inv[s].onHand
      BY <2>2 DEF Visible
    <2> QED BY <2>2, <2>3 DEF OrderInv, OnHandClean
  <1> QED BY <1>1, OrderInvariant, PTL DEF Spec, OnHandOnlyByDelivery

------------------------------------------------------------------------------
\* Some task tells the customer t of order o.
Told(o, t) == \E q \in queue : q.task = t /\ q.order = o

\* A transaction has published, before it commits, what its commit makes true.
PublishedFirst ==
    /\ \A p \in Placing : /\ pc[p] \in {"notify", "commit"} => Told(p, "email")
                          /\ pc[p] = "commit" => Told(p, "placed")
    /\ \A u \in Updating : pc[u] = "commit" =>
          \A t \in {arg[u].status} \cap Stamped : Told(arg[u].order, t)

\* What every step leaves alone: published tasks stay published, and a request
\* that is past its publications has made them.
LEMMA PublishStep ==
    ASSUME OrderInv, PublishedFirst, [Next]_vars
    PROVE  queue \subseteq queue' /\ PublishedFirst'
  <1> USE DEF db, memory, writes
  <1>1. /\ TypeOK /\ Placing \subseteq Requests /\ Updating \subseteq Requests
        /\ Placing \cap Updating = {}
    BY RequestsAssumption DEF OrderInv, Requests
  \* A step that publishes nothing and brings nobody to a later publication.
  <1>2. ASSUME queue \subseteq queue',
               \A r \in Requests : pc'[r] \in {"notify", "commit"} =>
                   pc'[r] = pc[r] /\ arg'[r] = arg[r]
        PROVE  PublishedFirst'
    BY <1>1, <1>2 DEF PublishedFirst, Told
  \* A step of the request r that publishes what its next position asks for.
  <1>3. ASSUME NEW r \in Requests, queue \subseteq queue', arg' = arg,
               \A q \in Requests : q # r => pc'[q] = pc[q],
               r \in Placing => /\ pc'[r] \in {"notify", "commit"} => Told(r, "email")'
                                /\ pc'[r] = "commit" => Told(r, "placed")',
               r \in Updating => \A t \in {arg'[r].status} \cap Stamped :
                                   Told(arg[r].order, t)'
        PROVE  PublishedFirst'
    <2>1. \A o, t : Told(o, t) => Told(o, t)'
      BY <1>3 DEF Told
    <2>2. ASSUME NEW p \in Placing
          PROVE  /\ pc'[p] \in {"notify", "commit"} => Told(p, "email")'
                 /\ pc'[p] = "commit" => Told(p, "placed")'
      <3>1. CASE p = r
        BY <1>3, <2>2, <3>1
      <3>2. CASE p # r
        BY <1>1, <1>3, <2>1, <2>2, <3>2 DEF PublishedFirst
      <3> QED BY <3>1, <3>2
    <2>3. ASSUME NEW u \in Updating, pc'[u] = "commit", NEW t \in {arg'[u].status} \cap Stamped
          PROVE  \E q \in queue' : q.task = t /\ q.order = arg'[u].order
      <3>1. CASE u = r
        BY <1>3, <2>3, <3>1 DEF Told
      <3>2. CASE u # r
        BY <1>1, <1>3, <2>3, <3>2 DEF PublishedFirst, Told
      <3> QED BY <3>1, <3>2
    <2> QED BY <2>2, <2>3 DEF PublishedFirst, Told
  <1>4. ASSUME NEW r \in Requests, Rollback(r)
        PROVE  queue \subseteq queue' /\ PublishedFirst'
    <2>1. /\ queue' = queue /\ pc'[r] = "failed"
          /\ \A q \in Requests : q # r => pc'[q] = pc[q] /\ arg'[q] = arg[q]
      BY <1>1, <1>4 DEF Rollback, Close, TypeOK
    <2> QED BY <1>2, <2>1
  <1>5. CASE \E i \in Items : AddToCart(i)
    BY <1>2, <1>5 DEF AddToCart
  <1>6. ASSUME NEW r \in Requests, Start(r)
        PROVE  queue \subseteq queue' /\ PublishedFirst'
    <2>1. CASE \E c \in Customers : EmptyCart(r, c)
      BY <1>4, <2>1 DEF EmptyCart
    <2>2. CASE \E c \in Customers : StartPlace(r, c)
      <3>1. /\ queue' = queue /\ pc'[r] = "reserve"
            /\ \A q \in Requests : q # r => pc'[q] = pc[q] /\ arg'[q] = arg[q]
        BY <1>1, <2>2 DEF StartPlace, TypeOK
      <3> QED BY <1>2, <3>1
    <2>3. CASE \E o \in Placing, st \in Asked : StartUpdate(r, o, st)
      <3>1. /\ queue' = queue /\ pc'[r] = "lock"
            /\ \A q \in Requests : q # r => pc'[q] = pc[q] /\ arg'[q] = arg[q]
        BY <1>1, <2>3 DEF StartUpdate, TypeOK
      <3> QED BY <1>2, <3>1
    <2> QED BY <1>6, <2>1, <2>2, <2>3 DEF Start
  <1>7. ASSUME NEW p \in Placing, PlaceStep(p)
        PROVE  queue \subseteq queue' /\ PublishedFirst'
    <2>1. CASE Reserve(p) \/ CreateOrder(p)
      <3>1. /\ queue' = queue /\ arg' = arg
            /\ pc[p] \in {"reserve", "create"} /\ pc'[p] \in {"reserve", "create", "email"}
            /\ \A q \in Requests : q # p => pc'[q] = pc[q]
        BY <1>1, <2>1 DEF Reserve, CreateOrder, Advance, TypeOK
      <3> QED BY <1>1, <1>2, <3>1
    <2>2. CASE ReserveRefused(p)
      BY <1>1, <1>4, <2>2 DEF ReserveRefused
    <2>3. CASE PublishEmail(p)
      <3>1. /\ queue' = queue \cup {[task |-> "email", order |-> p, by |-> p]}
            /\ pc'[p] = "notify" /\ arg' = arg
            /\ \A q \in Requests : q # p => pc'[q] = pc[q]
        BY <1>1, <2>3 DEF PublishEmail, TypeOK
      <3>2. Told(p, "email")'
        <4> DEFINE news == [task |-> "email", order |-> p, by |-> p]
        <4>1. news \in queue' /\ news.task = "email" /\ news.order = p
          BY <3>1
        <4> QED BY <4>1 DEF Told
      <3> QED BY <1>1, <1>3, <3>1, <3>2
    <2>4. CASE PublishPlaced(p)
      <3>1. /\ queue' = queue \cup {[task |-> "placed", order |-> p, by |-> p]}
            /\ pc[p] = "notify" /\ pc'[p] = "commit" /\ arg' = arg
            /\ \A q \in Requests : q # p => pc'[q] = pc[q]
        BY <1>1, <2>4 DEF PublishPlaced, TypeOK
      <3>2. Told(p, "placed")'
        <4> DEFINE news == [task |-> "placed", order |-> p, by |-> p]
        <4>1. news \in queue' /\ news.task = "placed" /\ news.order = p
          BY <3>1
        <4> QED BY <4>1 DEF Told
      <3>3. Told(p, "email")
        BY <3>1 DEF PublishedFirst
      <3>4. Told(p, "email")'
        BY <3>1, <3>3 DEF Told
      <3> QED BY <1>1, <1>3, <3>1, <3>2, <3>4
    <2> QED BY <1>7, <2>1, <2>2, <2>3, <2>4 DEF PlaceStep
  <1>8. ASSUME NEW u \in Updating, UpdateStep(u)
        PROVE  queue \subseteq queue' /\ PublishedFirst'
    <2>1. CASE OrderMissing(u)
      BY <1>1, <1>4, <2>1 DEF OrderMissing
    <2>2. CASE Lock(u) \/ Release(u) \/ Deduct(u)
      <3>1. /\ queue' = queue /\ arg' = arg /\ pc'[u] \in {"lines", "save"}
            /\ \A q \in Requests : q # u => pc'[q] = pc[q]
        BY <1>1, <2>2 DEF Lock, Release, Deduct, Advance, TypeOK
      <3> QED BY <1>1, <1>2, <3>1
    <2>3. CASE PublishStatus(u)
      <3>1. /\ queue' = queue \cup {[task |-> st, order |-> arg[u].order, by |-> u] :
                                        st \in {arg[u].status} \cap Stamped}
            /\ pc'[u] = "commit" /\ arg' = arg
            /\ \A q \in Requests : q # u => pc'[q] = pc[q]
        BY <1>1, <2>3 DEF PublishStatus, TypeOK
      <3>2. ASSUME NEW t \in {arg[u].status} \cap Stamped
            PROVE  \E q \in queue' : q.task = t /\ q.order = arg[u].order
        <4> DEFINE news == [task |-> t, order |-> arg[u].order, by |-> u]
        <4>1. news \in queue' /\ news.task = t /\ news.order = arg[u].order
          BY <3>1
        <4> QED BY <4>1
      <3>3. \A t \in {arg'[u].status} \cap Stamped :
               \E q \in queue' : q.task = t /\ q.order = arg'[u].order
        BY <3>1, <3>2
      <3> QED BY <1>1, <1>3, <3>1, <3>3 DEF Told
    <2> QED BY <1>8, <2>1, <2>2, <2>3 DEF UpdateStep
  <1>9. ASSUME NEW r \in Requests, Commit(r)
        PROVE  queue \subseteq queue' /\ PublishedFirst'
    <2>1. /\ queue' = queue /\ pc'[r] = "done"
          /\ \A q \in Requests : q # r => pc'[q] = pc[q] /\ arg'[q] = arg[q]
      BY <1>1, <1>9 DEF Commit, Close, TypeOK
    <2> QED BY <1>2, <2>1
  <1>10. CASE UNCHANGED vars
    BY <1>2, <1>10 DEF vars
  <1> QED BY <1>4, <1>5, <1>6, <1>7, <1>8, <1>9, <1>10 DEF Next, Finished, Serve, Abort,
          BreakDeadlock

\* Committed news has been published: those of the order that is committed, and
\* those of all others from before.
LEMMA ToldStep ==
    ASSUME OrderInv, PublishedFirst, CustomerTold, [Next]_vars
    PROVE  CustomerTold'
  <1>1. \A o, t : Told(o, t) => Told(o, t)'
    BY PublishStep DEF Told
  <1>2. SUFFICES ASSUME NEW o \in Placing, orders'[o] # None,
                        NEW t \in {"email", "placed"} \cup orders'[o].stamps
                 PROVE  Told(o, t)'
    BY DEF CustomerTold, Told
  <1>3. CASE orders'[o] = orders[o]
    BY <1>1, <1>2, <1>3 DEF CustomerTold, Told
  <1>4. CASE orders'[o] # orders[o]
    <2>1. PICK r \in Requests : Commit(r)
      BY <1>4, OnlyCommits
    <2>2. /\ TypeOK /\ pc[r] = "commit" /\ Open(r) /\ o = OrderOf(r)
          /\ orders'[o] = order[r]
      BY <1>2, <1>4, <2>1 DEF Commit, OrderInv, TypeOK, Open, Ended
    <2>3. CASE r \in Placing
      <3>1. o = r /\ orders'[o].stamps = {}
        BY <2>2, <2>3 DEF OrderInv, RequestsTyped, OrderOf
      <3> QED BY <1>1, <1>2, <2>2, <2>3, <3>1 DEF PublishedFirst
    <2>4. CASE r \in Updating
      <3>1. /\ o = arg[r].order /\ orders[o] # None
            /\ orders'[o].stamps = orders[o].stamps \cup ({arg[r].status} \cap Stamped)
        BY <2>2, <2>4, RequestsAssumption DEF OrderInv, CopiesFresh, Busy, OrderOf
      <3>2. \A x \in {"email", "placed"} \cup orders[o].stamps : Told(o, x)
        BY <3>1 DEF CustomerTold, Told
      <3>3. \A x \in {arg[r].status} \cap Stamped : Told(o, x)
        BY <2>2, <2>4, <3>1 DEF PublishedFirst
      <3> QED BY <1>1, <1>2, <3>1, <3>2, <3>3
    <2> QED BY <2>3, <2>4 DEF Requests
  <1> QED BY <1>3, <1>4

\* However the requests interleave and wherever they fail, the customer of a
\* committed order is told that it was placed and of each of its timestamps.
THEOREM OrderCustomerTold == Spec => []CustomerTold
  <1>1. Init => PublishedFirst /\ CustomerTold
    BY DEF Init, PublishedFirst, CustomerTold, Requests
  <1>2. OrderInv /\ PublishedFirst /\ CustomerTold /\ [Next]_vars
            => PublishedFirst' /\ CustomerTold'
    BY PublishStep, ToldStep
  <1> QED BY <1>1, <1>2, OrderInvariant, PTL DEF Spec

------------------------------------------------------------------------------
\* The worker beside the service (OrderTasks): it leaves the service alone, and
\* mails committed orders only.

\* Every step of service and worker together is a step of the service or leaves
\* its state alone: what is proved of OrderService holds beside the worker.
LEMMA TasksStep == [TasksNext]_allVars => [Next]_vars
  BY DEF TasksNext, allVars, Post, Run, DropMail, Succeed, Fail, WorkerDies

\* The worker's part of the state is disturbed by no request, and the requests'
\* part by no task: the composition implements the service.
THEOREM TasksImplementOrders == TasksSpec => Spec
  <1>1. TasksInit => Init
    BY DEF TasksInit
  <1> QED BY <1>1, TasksStep, PTL DEF TasksSpec, Spec

\* Account mails are posted as such, effects are counted, and the confirmations
\* among them are of committed orders.
MailInv == /\ posted \subseteq Mail
           /\ effects \in [Job -> Nat]
           /\ MailOnlyForOrders

\* A task of the worker keeps MailInv: only a runnable task has an effect.
LEMMA MailRun ==
    ASSUME MailInv, NEW t \in Job, Run(t) \/ WorkerDies(t)
    PROVE  MailInv'
  <1>1. orders' = orders /\ posted' = posted
    BY DEF Run, DropMail, Succeed, Fail, WorkerDies, vars, db
  <1>2. CASE effects' = effects
    BY <1>1, <1>2 DEF MailInv, MailOnlyForOrders
  <1>3. CASE Succeed(t)
    BY <1>1, <1>3 DEF MailInv, MailOnlyForOrders, Succeed, Runnable
  <1>4. ASSUME NEW n \in {0, 1}, Fail(t, n)
        PROVE  MailInv'
    <2>1. /\ effects' = [effects EXCEPT ![t] = @ + n]
          /\ t.task = "email" => orders[t.order] # None
      BY <1>4 DEF Fail, Runnable
    <2> QED BY <1>1, <2>1 DEF MailInv, MailOnlyForOrders
  <1> QED BY <1>2, <1>3, <1>4 DEF Run, DropMail, WorkerDies

\* A step of the service keeps MailInv, because committed orders stay.
LEMMA MailServe ==
    ASSUME OrderInv, MailInv, [Next]_vars, effects' = effects, posted' \subseteq Mail
    PROVE  MailInv'
  <1> SUFFICES ASSUME NEW t \in Job, t.task = "email", effects[t] > 0
               PROVE  orders'[t.order] # None
    BY DEF MailInv, MailOnlyForOrders
  <1>1. t \in Task
    BY DEF Job, Mail
  <1>2. t.order \in Placing /\ orders[t.order] # None
    BY <1>1 DEF Task, MailInv, MailOnlyForOrders
  <1> QED BY <1>2, OrdersStay

LEMMA MailInvariant == TasksSpec => [](OrderInv /\ MailInv)
  <1>1. TasksInit => MailInv
    BY DEF TasksInit, MailInv, MailOnlyForOrders
  <1>2. OrderInv /\ MailInv /\ [TasksNext]_allVars => MailInv'
    <2> SUFFICES ASSUME OrderInv, MailInv, [TasksNext]_allVars
                 PROVE  MailInv'
      OBVIOUS
    <2>1. CASE UNCHANGED worker
      BY <2>1, TasksStep, MailServe DEF worker, MailInv
    <2>2. ASSUME NEW t \in Mail, Post(t)
          PROVE  MailInv'
      BY <2>2, TasksStep, MailServe DEF Post, MailInv
    <2>3. ASSUME NEW t \in Published, Run(t) \/ WorkerDies(t)
          PROVE  MailInv'
      BY <2>3, MailRun DEF Published, Job, MailInv, OrderInv, TypeOK
    <2> QED BY <2>1, <2>2, <2>3 DEF TasksNext, allVars
  <1> QED BY <1>1, <1>2, TasksImplementOrders, OrderInvariant, PTL DEF TasksSpec

\* Nobody gets a confirmation of an order that does not exist, whatever the race
\* between the worker and the transaction, the failures and the retries.
THEOREM TasksMailOnlyForOrders == TasksSpec => []MailOnlyForOrders
  <1>1. MailInv => MailOnlyForOrders
    BY DEF MailInv
  <1> QED BY <1>1, MailInvariant, PTL

\* A retry is counted together with the effect that may have preceded it, and a
\* task that is over has had its last effect.
EffectsInv ==
    /\ effects \in [Job -> Nat] /\ tries \in [Job -> 0..MaxRetries]
    /\ \A t \in Job : effects[t] <= IF outcome[t] = "waiting" THEN tries[t] ELSE MaxRetries + 1
    /\ outcome = [t \in Job |-> outcome[t]]

\* Only a waiting task runs, and each run has one effect at most.
LEMMA EffectsRun ==
    ASSUME EffectsInv, NEW t \in Job, Run(t) \/ WorkerDies(t)
    PROVE  EffectsInv'
  <1> USE RetriesAssumption DEF EffectsInv
  <1>1. effects[t] \in Nat /\ tries[t] \in Nat /\ tries[t] <= MaxRetries
    OBVIOUS
  <1>2. outcome[t] = "waiting" /\ effects[t] <= tries[t]
    BY DEF Run, DropMail, Succeed, Fail, WorkerDies, Runnable, Waiting
  \* What the step may do to the counters of t.
  <1>3. ASSUME NEW n \in {0, 1}, effects' = [effects EXCEPT ![t] = @ + n],
               \/ outcome' = outcome /\ tries[t] < MaxRetries
                                     /\ tries' = [tries EXCEPT ![t] = @ + 1]
               \/ /\ tries' = tries
                  /\ \E how : how # "waiting" /\ outcome' = [outcome EXCEPT ![t] = how]
        PROVE  EffectsInv'
    <2>1. effects[t] + n \in Nat /\ effects[t] + n <= tries[t] + 1
      BY <1>1, <1>2, <1>3
    <2>2. effects' \in [Job -> Nat]
      BY <1>3, <2>1
    <2>3. CASE outcome' = outcome /\ tries[t] < MaxRetries
                                  /\ tries' = [tries EXCEPT ![t] = @ + 1]
      BY <1>1, <1>2, <1>3, <2>1, <2>2, <2>3
    <2>4. CASE /\ tries' = tries
               /\ \E how : how # "waiting" /\ outcome' = [outcome EXCEPT ![t] = how]
      BY <1>1, <1>2, <1>3, <2>1, <2>2, <2>4
    <2> QED BY <1>3, <2>3, <2>4
  <1>4. CASE DropMail(t) \/ WorkerDies(t)
    <2>1. effects' = [effects EXCEPT ![t] = @ + 0] /\ tries' = tries
      BY <1>1, <1>4 DEF DropMail, WorkerDies
    <2>2. \E how : how # "waiting" /\ outcome' = [outcome EXCEPT ![t] = how]
      BY <1>4 DEF DropMail, WorkerDies, Settle
    <2> QED BY <1>3, <2>1, <2>2
  <1>5. CASE Succeed(t)
    BY <1>3, <1>5 DEF Succeed, Settle
  <1>6. ASSUME NEW n \in {0, 1}, Fail(t, n)
        PROVE  EffectsInv'
    BY <1>3, <1>6 DEF Fail, Settle
  <1> QED BY <1>4, <1>5, <1>6 DEF Run

\* No customer gets more copies of a mail or a notification than there are tries.
THEOREM TasksEffectsBounded == TasksSpec => []EffectsBounded
  <1>1. TasksInit => EffectsInv
    BY RetriesAssumption DEF TasksInit, EffectsInv
  <1>2. OrderInv /\ MailInv /\ EffectsInv /\ [TasksNext]_allVars => EffectsInv'
    <2> SUFFICES ASSUME OrderInv, MailInv, EffectsInv, [TasksNext]_allVars
                 PROVE  EffectsInv'
      OBVIOUS
    <2>1. CASE UNCHANGED <<outcome, tries, effects>>
      BY <2>1 DEF EffectsInv
    <2>2. ASSUME NEW t \in Published, Run(t) \/ WorkerDies(t)
          PROVE  EffectsInv'
      <3>1. t \in Job
        BY DEF Published, Job, MailInv, OrderInv, TypeOK
      <3> QED BY <2>2, <3>1, EffectsRun
    <2> QED BY <2>1, <2>2 DEF TasksNext, allVars, worker, Post
  <1>3. EffectsInv => EffectsBounded
    BY RetriesAssumption DEF EffectsInv, EffectsBounded
  <1> QED BY <1>1, <1>2, <1>3, MailInvariant, PTL DEF TasksSpec
==============================================================================
