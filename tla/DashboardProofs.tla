--------------------------- MODULE DashboardProofs ---------------------------
(***************************************************************************)
(* The summary adds up for any number of orders, viewers, days and months. *)
(***************************************************************************)
EXTENDS Dashboard, FiniteSetTheorems, TLAPS

Types == /\ day \in Nat \ {0} /\ born \in [Orders -> Nat]
         /\ cache \in [Roles -> SUBSET Figures]
         /\ pc \in [Viewers -> {"idle", "total", "today", "month", "spread", "set"}]
         /\ role \in [Viewers -> Roles]
         /\ today \in [Viewers -> Nat]
         /\ sums \in [Viewers -> Figures]

\* What a viewer has counted can only have grown since.
SumsSoFar(v) ==
    /\ pc[v] \in {"today", "month", "spread", "set"} => sums[v].total <= Cardinality(Placed)
    /\ pc[v] = "month" => sums[v].today <= Cardinality(OfDay(today[v]))
    /\ pc[v] \in {"spread", "set"} => /\ sums[v].today <= sums[v].month
                                      /\ sums[v].month <= Cardinality(Placed)
    /\ pc[v] = "set" => /\ sums[v].month <= sums[v].spread
                        /\ sums[v].total <= sums[v].spread

DashboardInv == Types /\ (\A v \in Viewers : SumsSoFar(v)) /\ SummaryAddsUp

------------------------------------------------------------------------------
\* The counts are numbers, and a part is no larger than the whole.
LEMMA CountType == ASSUME NEW S, S \subseteq Orders
                   PROVE  IsFiniteSet(S) /\ Cardinality(S) \in Nat
BY OrdersAssumption, FS_Subset, FS_CardinalityType

LEMMA CountMonotone == ASSUME NEW S, NEW T, S \subseteq T, T \subseteq Orders
                       PROVE  Cardinality(S) <= Cardinality(T)
<1>1. IsFiniteSet(T)
  BY CountType
<1> QED BY <1>1, FS_Subset

\* The queries nest: a day lies in its month, a month among all orders.
LEMMA QueriesNest == ASSUME born \in [Orders -> Nat], NEW d \in Nat
                     PROVE  /\ OfDay(d) \subseteq Since(d) /\ Since(d) \subseteq Placed
                            /\ Placed \subseteq Orders
BY DaysAssumption DEF OfDay, Since, Placed

LEMMA InitInv == Init => DashboardInv
BY DEF Init, DashboardInv, Types, SumsSoFar, SummaryAddsUp, NoSums, Figures

\* A viewer that asks one thing more leaves orders, cache and other viewers alone.
LEMMA AskKeeps ==
    ASSUME NEW v \in Viewers, NEW next \in {"today", "month", "spread", "set"},
           NEW answer \in Figures, DashboardInv, Ask(v, next, answer),
           next \in {"today", "month", "spread", "set"} => answer.total <= Cardinality(Placed),
           next = "month" => answer.today <= Cardinality(OfDay(today[v])),
           next \in {"spread", "set"} => /\ answer.today <= answer.month
                                         /\ answer.month <= Cardinality(Placed),
           next = "set" => answer.month <= answer.spread /\ answer.total <= answer.spread
    PROVE  DashboardInv'
<1> USE DEF DashboardInv, Ask, Goto
<1>1. Types'
  BY DEF Types
<1>2. ASSUME NEW x \in Viewers PROVE SumsSoFar(x)'
  <2>1. CASE x = v
    BY <2>1 DEF Types, SumsSoFar, Placed, OfDay
  <2>2. CASE x # v
    BY <2>2 DEF Types, SumsSoFar, Placed, OfDay
  <2> QED BY <2>1, <2>2
<1>3. SummaryAddsUp'
  BY DEF SummaryAddsUp
<1> QED BY <1>1, <1>2, <1>3

LEMMA CountKeeps == ASSUME NEW v \in Viewers, DashboardInv,
                           CountTotal(v) \/ CountToday(v) \/ CountMonth(v) \/ CountSpread(v)
                    PROVE  DashboardInv'
<1>1. /\ born \in [Orders -> Nat] /\ today[v] \in Nat /\ sums[v] \in Figures /\ SumsSoFar(v)
  BY DEF DashboardInv, Types
<1>2. /\ OfDay(today[v]) \subseteq Since(today[v]) /\ Since(today[v]) \subseteq Placed
      /\ Placed \subseteq Orders
  BY <1>1, QueriesNest
<1>3. /\ Cardinality(OfDay(today[v])) \in Nat /\ Cardinality(Since(today[v])) \in Nat
      /\ Cardinality(Placed) \in Nat
  BY <1>2, CountType
<1>4. /\ Cardinality(OfDay(today[v])) <= Cardinality(Since(today[v]))
      /\ Cardinality(Since(today[v])) <= Cardinality(Placed)
  BY <1>2, CountMonotone
<1>5. CASE CountTotal(v)
  <2> DEFINE a == [sums[v] EXCEPT !.total = Cardinality(Placed)]
  <2>1. a \in Figures /\ a.total = Cardinality(Placed) /\ Ask(v, "today", a)
    BY <1>1, <1>3, <1>5 DEF Figures, CountTotal
  <2> HIDE DEF a
  <2> QED BY <1>3, <2>1, AskKeeps
<1>6. CASE CountToday(v)
  <2> DEFINE a == [sums[v] EXCEPT !.today = Cardinality(OfDay(today[v]))]
  <2>1. /\ a \in Figures /\ a.total = sums[v].total /\ Ask(v, "month", a)
        /\ a.today = Cardinality(OfDay(today[v]))
        /\ sums[v].total <= Cardinality(Placed)
    BY <1>1, <1>3, <1>6 DEF Figures, CountToday, SumsSoFar
  <2> HIDE DEF a
  <2> QED BY <1>3, <2>1, AskKeeps
<1>7. CASE CountMonth(v)
  <2> DEFINE a == [sums[v] EXCEPT !.month = Cardinality(Since(today[v]))]
  <2>1. /\ a \in Figures /\ a.total = sums[v].total /\ a.today = sums[v].today
        /\ a.month = Cardinality(Since(today[v])) /\ Ask(v, "spread", a)
        /\ sums[v].total <= Cardinality(Placed)
        /\ sums[v].today <= Cardinality(OfDay(today[v]))
    BY <1>1, <1>3, <1>7 DEF Figures, CountMonth, SumsSoFar
  <2> HIDE DEF a
  <2>2. a.today <= a.month /\ a.month <= Cardinality(Placed)
    BY <1>3, <1>4, <2>1 DEF Figures
  <2> QED BY <2>1, <2>2, AskKeeps
<1>8. CASE CountSpread(v)
  <2> DEFINE a == [sums[v] EXCEPT !.spread = Cardinality(Placed)]
  <2>1. /\ a \in Figures /\ a.total = sums[v].total /\ a.today = sums[v].today
        /\ a.month = sums[v].month /\ a.spread = Cardinality(Placed) /\ Ask(v, "set", a)
        /\ sums[v].total <= Cardinality(Placed)
        /\ sums[v].today <= sums[v].month /\ sums[v].month <= Cardinality(Placed)
    BY <1>1, <1>3, <1>8 DEF Figures, CountSpread, SumsSoFar
  <2> HIDE DEF a
  <2> QED BY <2>1, AskKeeps
<1> QED BY <1>5, <1>6, <1>7, <1>8

LEMMA BeginKeeps == ASSUME NEW v \in Viewers, DashboardInv, Begin(v)
                    PROVE  DashboardInv'
<1> USE DEF DashboardInv, Begin, Goto
<1>1. Types'
  BY DEF Types
<1>2. ASSUME NEW x \in Viewers PROVE SumsSoFar(x)'
  BY DEF Types, SumsSoFar, Placed, OfDay
<1>3. SummaryAddsUp'
  BY DEF SummaryAddsUp
<1> QED BY <1>1, <1>2, <1>3

\* The answer of the last query completes the summary that is kept.
LEMMA EndKeeps == ASSUME NEW v \in Viewers, DashboardInv, Keep(v) \/ Abort(v)
                  PROVE  DashboardInv'
<1> USE DEF DashboardInv
<1>0. Leave(v) /\ role[v] \in Roles
  BY DEF Keep, Abort, Types
<1>1. Types'
  <2>1. cache' \in [Roles -> SUBSET Figures]
    BY DEF Keep, Abort, Types
  <2> QED BY <1>0, <2>1 DEF Types, Leave, Goto, NoSums, Figures
<1>2. ASSUME NEW x \in Viewers PROVE SumsSoFar(x)'
  BY <1>0 DEF Types, Leave, Goto, SumsSoFar, Placed, OfDay
<1>3. SummaryAddsUp'
  <2>1. CASE Abort(v)
    BY <2>1 DEF Abort, SummaryAddsUp
  <2>2. CASE Keep(v)
    <3>1. /\ cache' = [cache EXCEPT ![role[v]] = {sums[v]}]
          /\ sums[v].today <= sums[v].month /\ sums[v].month <= sums[v].spread
          /\ sums[v].total <= sums[v].spread
      BY <2>2 DEF Keep, SumsSoFar
    <3> QED BY <1>0, <3>1 DEF Types, SummaryAddsUp
  <2> QED BY <2>1, <2>2
<1> QED BY <1>1, <1>2, <1>3

\* Orders only come in.
LEMMA PlaceKeeps == ASSUME NEW o \in Orders, DashboardInv, Place(o)
                    PROVE  DashboardInv'
<1>1. /\ born[o] = 0 /\ born' \in [Orders -> Nat] /\ born \in [Orders -> Nat]
      /\ \A x \in Orders : born[x] > 0 => born'[x] = born[x]
      /\ UNCHANGED <<day, cache, pc, role, today, sums>>
  <2>1. day \in Nat /\ day # 0 /\ born \in [Orders -> Nat]
    BY DEF DashboardInv, Types
  <2>2. PICK d \in {day, day - 1} \ {0} : born' = [born EXCEPT ![o] = d]
    BY DEF Place
  <2>3. d \in Nat
    BY <2>1, <2>2
  <2>4. /\ born[o] = 0
        /\ UNCHANGED <<day, cache, pc, role, today, sums>>
    BY DEF Place
  <2> QED BY <2>1, <2>2, <2>3, <2>4
<1>2. Types'
  BY <1>1 DEF DashboardInv, Types
<1>3. ASSUME NEW v \in Viewers PROVE SumsSoFar(v)'
  <2> DEFINE d == today[v]
  <2>1. Placed \subseteq Placed' /\ Placed' \subseteq Orders
    BY <1>1 DEF Placed
  <2>2. OfDay(d) \subseteq OfDay(d)' /\ OfDay(d)' \subseteq Orders
    BY <1>1 DEF OfDay, Placed
  <2>3. /\ Cardinality(Placed) <= Cardinality(Placed')
        /\ Cardinality(OfDay(d)) <= Cardinality(OfDay(d)')
    BY <2>1, <2>2, CountMonotone
  <2>4. /\ Cardinality(Placed) \in Nat /\ Cardinality(Placed') \in Nat
        /\ Cardinality(OfDay(d)) \in Nat /\ Cardinality(OfDay(d)') \in Nat
    BY <2>1, <2>2, CountType
  <2>5. sums[v] \in Figures /\ SumsSoFar(v)
    BY DEF DashboardInv, Types
  <2> HIDE DEF d
  <2>6. /\ Cardinality(Placed)' = Cardinality(Placed')
        /\ Cardinality(OfDay(today[v]))' = Cardinality(OfDay(d)')
    BY <1>1 DEF d, OfDay, Placed
  <2>7. SumsSoFar(v) <=>
          /\ pc[v] \in {"today", "month", "spread", "set"} => sums[v].total <= Cardinality(Placed)
          /\ pc[v] = "month" => sums[v].today <= Cardinality(OfDay(d))
          /\ pc[v] \in {"spread", "set"} => /\ sums[v].today <= sums[v].month
                                            /\ sums[v].month <= Cardinality(Placed)
          /\ pc[v] = "set" => /\ sums[v].month <= sums[v].spread
                              /\ sums[v].total <= sums[v].spread
    BY DEF SumsSoFar, d
  <2> QED BY <1>1, <2>3, <2>4, <2>5, <2>6, <2>7 DEF SumsSoFar, Figures
<1>4. SummaryAddsUp'
  BY <1>1 DEF DashboardInv, SummaryAddsUp
<1> QED BY <1>2, <1>3, <1>4 DEF DashboardInv

\* The clock, the cache's timeout and stuttering.
LEMMA WorldKeeps == ASSUME DashboardInv,
                           NextDay \/ (\E k \in Roles : Expire(k)) \/ UNCHANGED vars
                    PROVE  DashboardInv'
<1> USE DEF DashboardInv, NextDay, Expire, vars
<1>1. Types'
  BY DEF Types
<1>2. ASSUME NEW x \in Viewers PROVE SumsSoFar(x)'
  BY DEF Types, SumsSoFar, Placed, OfDay
<1>3. SummaryAddsUp'
  BY DEF Types, SummaryAddsUp
<1> QED BY <1>1, <1>2, <1>3

LEMMA NextKeeps == DashboardInv /\ [Next]_vars => DashboardInv'
BY BeginKeeps, CountKeeps, EndKeeps, PlaceKeeps, WorldKeeps DEF Next, Summary

\* The inductive invariant of the summary.
THEOREM DashboardInvariant == Spec => []DashboardInv
BY InitInv, NextKeeps, PTL DEF Spec

\* DashboardSummaryView: what is cached adds up, whatever happened between its queries.
THEOREM DashboardSummaryAddsUp == Spec => []SummaryAddsUp
BY DashboardInvariant, PTL DEF DashboardInv
==============================================================================
