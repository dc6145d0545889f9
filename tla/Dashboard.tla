------------------------------ MODULE Dashboard ------------------------------
(***************************************************************************)
(* The summary of apps/dashboard/views.py: one query after the other, each *)
(* on the orders committed by then, put into the cache under the caller's  *)
(* role.  The day is asked once, at the beginning; it may end, and with it *)
(* the month, before the last query.                                       *)
(*                                                                         *)
(* The revenue figures follow the same pattern over the paid orders; no    *)
(* code of the repository marks an order as paid, so they stay empty.      *)
(***************************************************************************)
EXTENDS Naturals, FiniteSets

CONSTANTS
    Orders,      \* bound: the orders that may be placed
    Viewers,     \* threads that serve the summary
    Roles,       \* roles that may see it, each with a cache key of its own
    FirstDays,   \* days that begin a month
    MaxDay       \* bound: days that pass

ASSUME OrdersAssumption == IsFiniteSet(Orders)
ASSUME DaysAssumption == FirstDays \subseteq Nat

VARIABLES
    day,         \* timezone.now().date()
    born,        \* created_at of a committed order, 0 while there is none
    cache,       \* the summary under each key; the empty set is a miss
    pc, role,    \* where a viewer is, and its role
    today, sums  \* what it has asked so far

vars == <<day, born, cache, pc, role, today, sums>>

Figures == [total : Nat, today : Nat, month : Nat, spread : Nat]
NoSums  == [total |-> 0, today |-> 0, month |-> 0, spread |-> 0]

Init == /\ day = 1
        /\ born = [o \in Orders |-> 0]
        /\ cache = [k \in Roles |-> {}]
        /\ pc = [v \in Viewers |-> "idle"]
        /\ role \in [Viewers -> Roles]
        /\ today = [v \in Viewers |-> 0]
        /\ sums = [v \in Viewers |-> NoSums]

------------------------------------------------------------------------------
Placed   == {o \in Orders : born[o] > 0}
OfDay(d) == {o \in Placed : born[o] = d}

\* created_at__date__gte the first of the month that the day is in; no upper end.
Since(d) == {o \in Placed : \A f \in FirstDays : f <= d => f <= born[o]}

Goto(v, there) == pc' = [pc EXCEPT ![v] = there]
Ask(v, next, answer) == /\ sums' = [sums EXCEPT ![v] = answer]
                        /\ Goto(v, next)
                        /\ UNCHANGED <<day, born, cache, role, today>>

\* Nothing in the cache; today is taken.
Begin(v) == /\ pc[v] = "idle" /\ cache[role[v]] = {}
            /\ today' = [today EXCEPT ![v] = day]
            /\ Goto(v, "total")
            /\ UNCHANGED <<day, born, cache, role, sums>>

CountTotal(v) ==
    pc[v] = "total" /\ Ask(v, "today", [sums[v] EXCEPT !.total = Cardinality(Placed)])

CountToday(v) ==
    pc[v] = "today" /\ Ask(v, "month", [sums[v] EXCEPT !.today = Cardinality(OfDay(today[v]))])

\* Mutant: the beginning of the month is taken from the clock anew.
CountMonthNow(v) ==
    pc[v] = "month" /\ Ask(v, "spread", [sums[v] EXCEPT !.month = Cardinality(Since(day))])

CountMonth(v) ==
    pc[v] = "month" /\ Ask(v, "spread", [sums[v] EXCEPT !.month = Cardinality(Since(today[v]))])

\* The distribution over the statuses: every order has one.
CountSpread(v) ==
    pc[v] = "spread" /\ Ask(v, "set", [sums[v] EXCEPT !.spread = Cardinality(Placed)])

Leave(v) == /\ Goto(v, "idle")
            /\ today' = [today EXCEPT ![v] = 0]
            /\ sums' = [sums EXCEPT ![v] = NoSums]
            /\ UNCHANGED <<day, born, role>>

\* cache.set
Keep(v) == /\ pc[v] = "set"
           /\ cache' = [cache EXCEPT ![role[v]] = {sums[v]}]
           /\ Leave(v)

Abort(v) == /\ pc[v] # "idle"
            /\ Leave(v)
            /\ UNCHANGED cache

\* place_order commits, at the latest the day after it took created_at.
Place(o) == /\ born[o] = 0
            /\ \E d \in {day, day - 1} \ {0} : born' = [born EXCEPT ![o] = d]
            /\ UNCHANGED <<day, cache, pc, role, today, sums>>

NextDay == /\ day < MaxDay
           /\ day' = day + 1
           /\ UNCHANGED <<born, cache, pc, role, today, sums>>

Expire(k) == /\ cache[k] # {}
             /\ cache' = [cache EXCEPT ![k] = {}]
             /\ UNCHANGED <<day, born, pc, role, today, sums>>

Summary(v) == \/ Begin(v) \/ CountTotal(v) \/ CountToday(v) \/ CountMonth(v)
              \/ CountSpread(v) \/ Keep(v) \/ Abort(v)

Next == \/ \E v \in Viewers : Summary(v)
        \/ \E o \in Orders : Place(o)
        \/ \E k \in Roles : Expire(k)
        \/ NextDay

Spec == Init /\ [][Next]_vars

------------------------------------------------------------------------------
\* What a summary that is shown may be trusted for, although its figures are taken
\* one after the other while orders come in and days and months end: today is part
\* of the month, and month and total are part of the distribution.  (Today is not
\* part of the total: an order may come between these two queries.)
SummaryAddsUp == \A k \in Roles : \A s \in cache[k] : /\ s.today <= s.month
                                                      /\ s.month <= s.spread
                                                      /\ s.total <= s.spread
==============================================================================
