-------------------------- MODULE StockLedgerProofs --------------------------
(***************************************************************************)
(* The ledger's invariants for any set of orders and records, any initial  *)
(* stock and any demands.  The quantities are counted as sets of units, so *)
(* that a step adds or removes the units of one order as a whole.          *)
(***************************************************************************)
EXTENDS StockLedger, FiniteSetTheorems, TLAPS

\* Counting a disjoint union and the removal of a subset.
LEMMA CountAdd ==
    ASSUME NEW S, NEW T, IsFiniteSet(S), IsFiniteSet(T), S \cap T = {}
    PROVE  /\ IsFiniteSet(S \cup T)
           /\ Cardinality(S \cup T) = Cardinality(S) + Cardinality(T)
  <1>1. Cardinality(S) \in Nat /\ Cardinality(T) \in Nat
    BY FS_CardinalityType
  <1> QED BY <1>1, FS_Union, FS_EmptySet

LEMMA CountRemove ==
    ASSUME NEW S, NEW T, IsFiniteSet(S), T \subseteq S
    PROVE  /\ IsFiniteSet(S \ T)
           /\ IsFiniteSet(T)
           /\ Cardinality(S \ T) = Cardinality(S) - Cardinality(T)
  <1>1. S \cap T = T
    OBVIOUS
  <1>2. IsFiniteSet(T)
    BY FS_Subset
  <1>3. IsFiniteSet(S \ T) /\ Cardinality(S \ T) = Cardinality(S) - Cardinality(S \cap T)
    BY FS_Difference, Zenon
  <1> QED BY <1>1, <1>2, <1>3

\* A column of n units.
LEMMA CountColumn ==
    ASSUME NEW o, NEW n \in Nat
    PROVE  /\ IsFiniteSet({o} \X (1..n))
           /\ Cardinality({o} \X (1..n)) = n
  <1>1. IsFiniteSet(1..n) /\ Cardinality(1..n) = n
    <2>1. IsFiniteSet(1..n) /\ Cardinality(1..n) = IF 1 > n THEN 0 ELSE n - 1 + 1
      BY FS_Interval
    <2> QED BY <2>1
  <1>2. IsFiniteSet({o}) /\ Cardinality({o}) = 1
    BY FS_Singleton
  <1>3. /\ IsFiniteSet({o} \X (1..n))
        /\ Cardinality({o} \X (1..n)) = Cardinality({o}) * Cardinality(1..n)
    BY <1>1, <1>2, FS_Product
  <1> QED BY <1>1, <1>2, <1>3

\* An order has as many units of a record as it asked for.
LEMMA UnitsOfCount ==
    ASSUME TypeOK, NEW o \in Orders, NEW s \in Stock
    PROVE  /\ IsFiniteSet(UnitsOf(o, s))
           /\ Cardinality(UnitsOf(o, s)) = demand[o][s]
  <1>1. demand[o][s] \in Nat
    BY DEF TypeOK
  <1> QED BY <1>1, CountColumn DEF UnitsOf

\* The units of an order in another standing are not counted.
LEMMA UnitsApart ==
    ASSUME NEW o \in Orders, NEW s, NEW st, state[o] # st
    PROVE  UnitsOf(o, s) \cap Units(st, s) = {}
  BY DEF UnitsOf, Units

\* The initial state satisfies the invariant.
LEMMA LedgerInit == Init => LedgerInv
  <1> SUFFICES ASSUME Init PROVE LedgerInv
    OBVIOUS
  <1> USE DEF Init
  <1>1. TypeOK
    BY InitialAssumption DEF TypeOK, States
  <1>2. \A s \in Stock : Units("open", s) = {} /\ Units("delivered", s) = {}
    BY DEF Units
  <1>3. IsFiniteSet({}) /\ Cardinality({}) = 0
    BY FS_EmptySet
  <1>4. \A s \in Stock : Initial[s] \in Nat
    BY InitialAssumption
  <1>5. ReservedIsHeld /\ StockConserved /\ NoOversell
    <2>1. \A s \in Stock : /\ Cardinality(Units("open", s)) = 0
                           /\ Cardinality(Units("delivered", s)) = 0
      BY <1>2, <1>3
    <2> QED BY <2>1, <1>4 DEF ReservedIsHeld, StockConserved, NoOversell
  <1> QED BY <1>1, <1>2, <1>3, <1>5 DEF LedgerInv

\* Placing an order adds its units to the open ones.
LEMMA LedgerPlace ==
    ASSUME LedgerInv, NEW o \in Orders, NEW d \in Demands, Place(o, d)
    PROVE  LedgerInv'
  <1>1. d \in [Stock -> Nat]
    BY DemandsAssumption
  <1>2. TypeOK /\ TypeOK'
    BY <1>1 DEF LedgerInv, TypeOK, Place, States
  <1>3. ASSUME NEW s \in Stock
        PROVE  /\ IsFiniteSet(Units("open", s)') /\ IsFiniteSet(Units("delivered", s)')
               /\ Cardinality(Units("open", s)') = Cardinality(Units("open", s)) + d[s]
               /\ Units("delivered", s)' = Units("delivered", s)
    <2>1. \A x \in Orders : x # o => UnitsOf(x, s)' = UnitsOf(x, s)
      BY <1>2 DEF TypeOK, Place, UnitsOf
    <2>2. demand'[o] = d /\ state'[o] = "open" /\ state[o] = "absent"
      BY <1>2 DEF TypeOK, Place
    <2>3. \A x \in Orders : x # o => state'[x] = state[x]
      BY <1>2 DEF TypeOK, Place
    <2>4. Units("open", s)' = Units("open", s) \cup UnitsOf(o, s)'
      BY <2>1, <2>2, <2>3 DEF Units
    <2>5. Units("delivered", s)' = Units("delivered", s)
      BY <2>1, <2>2, <2>3 DEF Units
    <2>6. IsFiniteSet(UnitsOf(o, s)') /\ Cardinality(UnitsOf(o, s)') = d[s]
      <3>1. UnitsOf(o, s)' = {o} \X (1..d[s])
        BY <2>2 DEF UnitsOf
      <3>2. d[s] \in Nat
        BY <1>1
      <3>3. IsFiniteSet({o} \X (1..d[s])) /\ Cardinality({o} \X (1..d[s])) = d[s]
        BY <3>2, CountColumn
      <3> QED BY <3>1, <3>3
    <2>7. UnitsOf(o, s)' \cap Units("open", s) = {}
      BY <2>2 DEF UnitsOf, Units
    <2> QED BY <2>4, <2>5, <2>6, <2>7, CountAdd DEF LedgerInv
  <1>4. \A s \in Stock : /\ Cardinality(Units("open", s)) \in Nat
                         /\ Cardinality(Units("delivered", s)) \in Nat
                         /\ d[s] \in Nat /\ onHand[s] \in Nat /\ reserved[s] \in Nat
    BY <1>1, <1>2, FS_CardinalityType DEF LedgerInv, TypeOK
  <1>5. \A s \in Stock : reserved'[s] = reserved[s] + d[s] /\ onHand'[s] = onHand[s]
    BY DEF Place
  <1>6. \A s \in Stock : onHand[s] - reserved[s] >= d[s]
    <2>1. \A s \in Stock : reserved[s] <= onHand[s]
      BY DEF LedgerInv, ReservedIsHeld, NoOversell
    <2> QED BY <2>1, <1>4 DEF Place, Available, Clamp
  <1>7. ReservedIsHeld'
    BY <1>3, <1>4, <1>5 DEF LedgerInv, ReservedIsHeld
  <1>8. StockConserved'
    BY <1>3, <1>5 DEF LedgerInv, StockConserved
  <1>9. NoOversell'
    BY <1>3, <1>4, <1>5, <1>6 DEF LedgerInv, ReservedIsHeld, NoOversell
  <1> QED BY <1>2, <1>3, <1>7, <1>8, <1>9 DEF LedgerInv

\* Settling an open order takes its units out of the open ones, and out of the
\* quantities without reaching the clamp.
LEMMA LedgerRelease ==
    ASSUME LedgerInv, NEW o \in Orders, state[o] = "open", demand' = demand,
           state'[o] # "open", \A x \in Orders : x # o => state'[x] = state[x],
           NEW s \in Stock
    PROVE  /\ IsFiniteSet(Units("open", s)')
           /\ Cardinality(Units("open", s)') = Cardinality(Units("open", s)) - demand[o][s]
           /\ demand[o][s] <= reserved[s]
           /\ demand[o][s] <= onHand[s]
  <1>1. \A x \in Orders : UnitsOf(x, s)' = UnitsOf(x, s)
    BY DEF UnitsOf
  <1>2. UnitsOf(o, s) \subseteq Units("open", s)
    BY DEF Units
  <1>3. Units("open", s)' = Units("open", s) \ UnitsOf(o, s)
    <2>1. \A x, y \in Orders : x # y => UnitsOf(x, s) \cap UnitsOf(y, s) = {}
      BY DEF UnitsOf
    <2> QED BY <1>1, <2>1 DEF Units
  <1>4. IsFiniteSet(Units("open", s))
    BY DEF LedgerInv
  <1>5. Cardinality(UnitsOf(o, s)) = demand[o][s]
    BY UnitsOfCount DEF LedgerInv
  <1>6. Cardinality(UnitsOf(o, s)) <= Cardinality(Units("open", s))
    BY <1>2, <1>4, FS_Subset
  <1>7. /\ Cardinality(Units("open", s)) \in Nat /\ demand[o][s] \in Nat
        /\ onHand[s] \in Nat /\ reserved[s] = Cardinality(Units("open", s))
        /\ Cardinality(Units("open", s)) <= onHand[s]
    BY <1>4, FS_CardinalityType DEF LedgerInv, TypeOK, ReservedIsHeld, NoOversell
  <1>8. /\ IsFiniteSet(Units("open", s) \ UnitsOf(o, s))
        /\ Cardinality(Units("open", s) \ UnitsOf(o, s))
              = Cardinality(Units("open", s)) - Cardinality(UnitsOf(o, s))
    BY <1>2, <1>4, CountRemove
  <1>9. /\ IsFiniteSet(Units("open", s)')
        /\ Cardinality(Units("open", s)') = Cardinality(Units("open", s)) - demand[o][s]
    BY <1>3, <1>5, <1>8
  <1> QED BY <1>5, <1>6, <1>7, <1>9

\* Cancelling an order gives its units back to the available ones.
LEMMA LedgerCancel ==
    ASSUME LedgerInv, NEW o \in Orders, Cancel(o)
    PROVE  LedgerInv'
  <1>1. TypeOK /\ TypeOK'
    BY DEF LedgerInv, TypeOK, Cancel, States, Clamp
  <1>2. /\ state[o] = "open" /\ demand' = demand /\ state'[o] = "cancelled"
        /\ \A x \in Orders : x # o => state'[x] = state[x]
    BY <1>1 DEF Cancel, TypeOK
  <1>3. ASSUME NEW s \in Stock
        PROVE  /\ IsFiniteSet(Units("open", s)')
               /\ Cardinality(Units("open", s)') = Cardinality(Units("open", s)) - demand[o][s]
               /\ demand[o][s] <= reserved[s]
    BY <1>2, LedgerRelease
  <1>4. \A s \in Stock : Units("delivered", s)' = Units("delivered", s)
    BY <1>2 DEF Units, UnitsOf
  <1>5. \A s \in Stock : /\ Cardinality(Units("open", s)) \in Nat
                         /\ demand[o][s] \in Nat /\ onHand[s] \in Nat /\ reserved[s] \in Nat
    BY <1>1, FS_CardinalityType DEF LedgerInv, TypeOK
  <1>6. \A s \in Stock : reserved'[s] = reserved[s] - demand[o][s] /\ onHand'[s] = onHand[s]
    BY <1>3, <1>5 DEF Cancel, Clamp
  <1>7. ReservedIsHeld'
    BY <1>3, <1>5, <1>6 DEF LedgerInv, ReservedIsHeld
  <1>8. StockConserved'
    BY <1>4, <1>6 DEF LedgerInv, StockConserved
  <1>9. NoOversell'
    BY <1>3, <1>5, <1>6 DEF LedgerInv, NoOversell
  <1> QED BY <1>1, <1>3, <1>4, <1>7, <1>8, <1>9 DEF LedgerInv

\* Delivering an order moves its units from the open to the delivered ones.
LEMMA LedgerDeliver ==
    ASSUME LedgerInv, NEW o \in Orders, Deliver(o)
    PROVE  LedgerInv'
  <1>1. TypeOK /\ TypeOK'
    BY DEF LedgerInv, TypeOK, Deliver, States, Clamp
  <1>2. /\ state[o] = "open" /\ demand' = demand /\ state'[o] = "delivered"
        /\ \A x \in Orders : x # o => state'[x] = state[x]
    BY <1>1 DEF Deliver, TypeOK
  <1>3. ASSUME NEW s \in Stock
        PROVE  /\ IsFiniteSet(Units("open", s)')
               /\ Cardinality(Units("open", s)') = Cardinality(Units("open", s)) - demand[o][s]
               /\ demand[o][s] <= reserved[s]
               /\ demand[o][s] <= onHand[s]
    BY <1>2, LedgerRelease
  <1>4. ASSUME NEW s \in Stock
        PROVE  /\ IsFiniteSet(Units("delivered", s)')
               /\ Cardinality(Units("delivered", s)')
                     = Cardinality(Units("delivered", s)) + demand[o][s]
    <2>1. Units("delivered", s)' = Units("delivered", s) \cup UnitsOf(o, s)
      BY <1>2 DEF Units, UnitsOf
    <2>2. UnitsOf(o, s) \cap Units("delivered", s) = {}
      BY <1>2, UnitsApart
    <2>3. IsFiniteSet(UnitsOf(o, s)) /\ Cardinality(UnitsOf(o, s)) = demand[o][s]
      BY <1>1, UnitsOfCount
    <2> QED BY <2>1, <2>2, <2>3, CountAdd DEF LedgerInv
  <1>5. \A s \in Stock : /\ Cardinality(Units("open", s)) \in Nat
                         /\ Cardinality(Units("delivered", s)) \in Nat
                         /\ demand[o][s] \in Nat /\ onHand[s] \in Nat /\ reserved[s] \in Nat
                         /\ Initial[s] \in Nat
    BY <1>1, FS_CardinalityType, InitialAssumption DEF LedgerInv, TypeOK
  <1>6. \A s \in Stock : /\ reserved'[s] = reserved[s] - demand[o][s]
                         /\ onHand'[s] = onHand[s] - demand[o][s]
    BY <1>3, <1>5 DEF Deliver, Clamp
  <1>7. ReservedIsHeld'
    BY <1>3, <1>5, <1>6 DEF LedgerInv, ReservedIsHeld
  <1>8. StockConserved'
    BY <1>4, <1>5, <1>6 DEF LedgerInv, StockConserved
  <1>9. NoOversell'
    BY <1>3, <1>5, <1>6 DEF LedgerInv, NoOversell
  <1> QED BY <1>1, <1>3, <1>4, <1>7, <1>8, <1>9 DEF LedgerInv

\* Every step keeps the invariant.
LEMMA LedgerNext == LedgerInv /\ [Next]_vars => LedgerInv'
  <1> SUFFICES ASSUME LedgerInv, [Next]_vars PROVE LedgerInv'
    OBVIOUS
  <1>1. CASE \E o \in Orders, d \in Demands : Place(o, d)
    BY <1>1, LedgerPlace
  <1>2. CASE \E o \in Orders : Cancel(o)
    BY <1>2, LedgerCancel
  <1>3. CASE \E o \in Orders : Deliver(o)
    BY <1>3, LedgerDeliver
  <1>4. CASE UNCHANGED vars
    <2>1. TypeOK'
      BY <1>4 DEF vars, LedgerInv, TypeOK
    <2>2. \A s \in Stock, st \in States : Units(st, s)' = Units(st, s)
      BY <1>4 DEF vars, Units, UnitsOf
    <2>3. onHand' = onHand /\ reserved' = reserved
      BY <1>4 DEF vars
    <2>4. \A s \in Stock : /\ Units("open", s)' = Units("open", s)
                           /\ Units("delivered", s)' = Units("delivered", s)
      BY <2>2 DEF States
    <2>5. ReservedIsHeld' /\ StockConserved' /\ NoOversell'
      BY <2>3, <2>4 DEF LedgerInv, ReservedIsHeld, StockConserved, NoOversell
    <2> QED BY <2>1, <2>4, <2>5 DEF LedgerInv
  <1> QED BY <1>1, <1>2, <1>3, <1>4 DEF Next, Settled

\* The inductive invariant holds in every reachable state of the ledger.
THEOREM LedgerInvariant == Spec => []LedgerInv
  BY LedgerInit, LedgerNext, PTL DEF Spec

\* The quantities never become negative, whatever is ordered and settled.
THEOREM LedgerTypeCorrect == Spec => []TypeOK
  <1>1. LedgerInv => TypeOK
    BY DEF LedgerInv
  <1> QED BY <1>1, LedgerInvariant, PTL

\* quantity_reserved is what the open orders ask for, in every reachable state.
THEOREM LedgerReservedIsHeld == Spec => []ReservedIsHeld
  <1>1. LedgerInv => ReservedIsHeld
    BY DEF LedgerInv
  <1> QED BY <1>1, LedgerInvariant, PTL

\* What is on hand and what was delivered add up to the initial stock.
THEOREM LedgerStockConserved == Spec => []StockConserved
  <1>1. LedgerInv => StockConserved
    BY DEF LedgerInv
  <1> QED BY <1>1, LedgerInvariant, PTL

\* The open orders together never exceed what is on hand.
THEOREM LedgerNoOversell == Spec => []NoOversell
  <1>1. LedgerInv => NoOversell
    BY DEF LedgerInv
  <1> QED BY <1>1, LedgerInvariant, PTL
==============================================================================
