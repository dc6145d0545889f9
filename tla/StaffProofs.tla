----------------------------- MODULE StaffProofs -----------------------------
(***************************************************************************)
(* The rank rules for any number of users and of requests in parallel.     *)
(***************************************************************************)
EXTENDS Staff, TLAPS

\* A request that was admitted knows a role its actor once had; one that is about
\* to save has passed the rank rules, and its target is another user
\* unless it is about the profile.
HeldIsOld ==
    \A r \in Requests : pc[r] # "idle" =>
        /\ req[r].actor \in Users
        /\ Above(req[r].role) \/ first[req[r].actor] = req[r].role
Judged ==
    \A r \in Requests : pc[r] = "save" =>
        /\ req[r].target \in Users
        /\ req[r].ask.kind # "profile" => req[r].target # req[r].actor
        /\ req[r].ask.kind = "role" =>
               Rank[req[r].ask.value] < Rank[req[r].role] \/ req[r].role = "super_admin"

StaffInv == TypeOK /\ RanksFromAbove /\ HeldIsOld /\ Judged

\* ROLE_HIERARCHY has a place for every role, and none is above super_admin.
LEMMA RankType == \A x \in Roles : Rank[x] \in 0..5
BY RolesAssumption DEF Rank, UserRole

\* The order of the roles carries over to what is above them.
LEMMA AboveLower == ASSUME NEW x \in Roles, NEW y \in Roles, Rank[x] < Rank[y],
                           first \in [Users -> Roles], NEW v \in Users,
                           Above(y) \/ first[v] = y
                    PROVE  Above(x)
<1>1. CASE first[v] = y
  BY <1>1 DEF Above
<1>2. CASE Above(y)
  <2>1. PICK w \in Users : Rank[first[w]] > Rank[y] \/ first[w] = "super_admin"
    BY <1>2 DEF Above
  <2>2. CASE first[w] = "super_admin"
    BY <2>2 DEF Above
  <2>3. CASE Rank[first[w]] > Rank[y]
    <3>1. Rank[x] \in 0..5 /\ Rank[y] \in 0..5 /\ Rank[first[w]] \in 0..5
      BY RankType
    <3> QED BY <2>3, <3>1 DEF Above
  <2> QED BY <2>1, <2>2, <2>3
<1> QED BY <1>1, <1>2

\* A super admin had somebody of that role before it, so everything is below.
LEMMA AboveSuper == ASSUME NEW x, NEW v \in Users, first \in [Users -> Roles],
                           "super_admin" \in Roles,
                           Above("super_admin") \/ first[v] = "super_admin"
                    PROVE  Above(x)
<1>1. CASE first[v] = "super_admin"
  BY <1>1 DEF Above
<1>2. CASE Above("super_admin")
  <2>1. PICK w \in Users : Rank[first[w]] > Rank["super_admin"] \/ first[w] = "super_admin"
    BY <1>2 DEF Above
  <2>2. ~(Rank[first[w]] > Rank["super_admin"])
    <3>1. Rank[first[w]] \in 0..5
      BY RankType
    <3>2. Rank["super_admin"] = 5
      BY DEF Rank
    <3> QED BY <3>1, <3>2
  <2> QED BY <2>1, <2>2 DEF Above
<1> QED BY <1>1, <1>2

LEMMA InitInv == Init => StaffInv
<1> SUFFICES ASSUME Init PROVE StaffInv
  OBVIOUS
<1>1. Nothing \in Held
  BY RolesAssumption, StatusAssumption DEF Nothing, Held, Asks, NewRow, Row
<1>2. TypeOK
  BY <1>1, StatusAssumption DEF Init, TypeOK, NewRow, Row
<1>3. RanksFromAbove /\ HeldIsOld /\ Judged
  BY DEF Init, RanksFromAbove, NewRow, HeldIsOld, Judged
<1> QED BY <1>2, <1>3 DEF StaffInv

\* Admission copies the actor's role of the moment.
LEMMA AdmitKeeps == ASSUME NEW r \in Requests, NEW a \in Users, NEW ask \in Asks,
                           StaffInv, Admit(r, a, ask)
                    PROVE  StaffInv'
<1> DEFINE q == [req[r] EXCEPT !.actor = a, !.role = row[a].role, !.ask = ask]
<1>1. /\ row[a] \in Row /\ req[r] \in Held
      /\ req' = [req EXCEPT ![r] = q]
      /\ UNCHANGED <<row, saves, first>>
  BY DEF StaffInv, TypeOK, Admit
<1>2. q \in Held /\ q.actor = a /\ q.role = row[a].role
  BY <1>1 DEF Held, Row
<1> HIDE DEF q
<1>3. TypeOK'
  BY <1>1, <1>2 DEF StaffInv, TypeOK, Admit
<1>4. RanksFromAbove'
  BY <1>1 DEF StaffInv, RanksFromAbove, Above
<1>5. HeldIsOld'
  <2>1. Above(row[a].role) \/ first[a] = row[a].role
    BY DEF StaffInv, RanksFromAbove
  <2> QED BY <1>1, <1>2, <2>1 DEF StaffInv, TypeOK, HeldIsOld, Admit, Above
<1>6. Judged'
  BY <1>1 DEF StaffInv, TypeOK, Judged, Admit
<1> QED BY <1>3, <1>4, <1>5, <1>6 DEF StaffInv

\* The user itself is the target of a profile.
LEMMA ProfileKeeps == ASSUME NEW r \in Requests, NEW a \in Users,
                             StaffInv, AdmitProfile(r, a)
                      PROVE  StaffInv'
<1> DEFINE q == [req[r] EXCEPT !.actor = a, !.role = row[a].role, !.ask = Profile,
                               !.target = a, !.copy = row[a]]
<1>1. /\ row[a] \in Row /\ req[r] \in Held
      /\ req' = [req EXCEPT ![r] = q]
      /\ UNCHANGED <<row, saves, first>>
  BY DEF StaffInv, TypeOK, AdmitProfile
<1>2. /\ q \in Held /\ q.actor = a /\ q.role = row[a].role
      /\ q.target = a /\ q.ask = Profile
  BY <1>1 DEF Held, Row
<1> HIDE DEF q
<1>3. TypeOK'
  BY <1>1, <1>2 DEF StaffInv, TypeOK, AdmitProfile
<1>4. RanksFromAbove'
  BY <1>1 DEF StaffInv, RanksFromAbove, Above
<1>5. HeldIsOld'
  <2>1. Above(row[a].role) \/ first[a] = row[a].role
    BY DEF StaffInv, RanksFromAbove
  <2> QED BY <1>1, <1>2, <2>1 DEF StaffInv, TypeOK, HeldIsOld, AdmitProfile, Above
<1>6. Judged'
  BY <1>1, <1>2 DEF StaffInv, TypeOK, Judged, AdmitProfile, Profile
<1> QED BY <1>3, <1>4, <1>5, <1>6 DEF StaffInv

\* The target is read and the rules of the service are applied.
LEMMA LoadKeeps == ASSUME NEW r \in Requests, NEW t \in Users, StaffInv, Load(r, t)
                   PROVE  StaffInv'
<1> DEFINE q == [req[r] EXCEPT !.target = t, !.copy = row[t]]
<1>1. /\ row[t] \in Row /\ req[r] \in Held
      /\ req' = [req EXCEPT ![r] = q]
      /\ pc[r] = "admitted" /\ UNCHANGED <<row, saves, first>>
  BY DEF StaffInv, TypeOK, Load
<1>2. /\ q \in Held /\ q.actor = req[r].actor /\ q.role = req[r].role
      /\ q.ask = req[r].ask /\ q.target = t
  BY <1>1 DEF Held
<1> HIDE DEF q
<1>3. TypeOK'
  BY <1>1, <1>2 DEF StaffInv, TypeOK, Load
<1>4. RanksFromAbove'
  BY <1>1 DEF StaffInv, RanksFromAbove, Above
<1>5. HeldIsOld'
  BY <1>1, <1>2 DEF StaffInv, TypeOK, HeldIsOld, Load, Above
<1>6. Judged'
  BY <1>1, <1>2 DEF StaffInv, TypeOK, Judged, Load, MayChange
<1> QED BY <1>3, <1>4, <1>5, <1>6 DEF StaffInv

\* One column of the target is written, whatever became of the actor.
LEMMA SaveKeeps == ASSUME NEW r \in Requests, StaffInv, Save(r)
                   PROVE  StaffInv'
<1> DEFINE t == req[r].target
           ask == req[r].ask
           new == Assigned(row[t], ask)
<1>1. /\ t \in Users /\ row[t] \in Row /\ ask \in Asks \cup {Profile} /\ pc[r] = "save" /\ r \in Requests
      /\ row' = [row EXCEPT ![t] = new] /\ first' = first
      /\ first \in [Users -> Roles]
  BY DEF StaffInv, TypeOK, Judged, Held, Save, Written
<1>2. new \in Row
  <2>1. CASE ask.kind = "role"
    BY <1>1, <2>1 DEF Assigned, Row, Asks, Profile
  <2>2. CASE ask.kind = "status"
    BY <1>1, <2>2 DEF Assigned, Row, Asks, Profile
  <2>3. CASE ask.kind = "delete"
    BY <1>1, <2>3 DEF Assigned, Row
  <2>4. CASE ask.kind = "profile"
    BY <1>1, <2>4 DEF Assigned, Row
  <2> QED BY <1>1, <2>1, <2>2, <2>3, <2>4 DEF Asks, Profile
<1>3. new.role # row[t].role => Above(new.role)
  <2> SUFFICES ASSUME new.role # row[t].role PROVE Above(new.role)
    OBVIOUS
  <2>1. ask.kind = "role" /\ new.role = ask.value /\ ask.value \in Roles
    BY <1>1 DEF Assigned, Asks, Profile
  <2>2. /\ req[r].actor \in Users /\ req[r].role \in Roles
        /\ Above(req[r].role) \/ first[req[r].actor] = req[r].role
        /\ Rank[ask.value] < Rank[req[r].role] \/ req[r].role = "super_admin"
    BY <1>1, <2>1 DEF StaffInv, TypeOK, HeldIsOld, Judged, Held
  <2>3. CASE req[r].role = "super_admin"
    BY <1>1, <2>2, <2>3, AboveSuper
  <2>4. CASE Rank[ask.value] < Rank[req[r].role]
    BY <1>1, <2>1, <2>2, <2>4, AboveLower
  <2> QED BY <2>1, <2>2, <2>3, <2>4
<1> HIDE DEF new
<1>4. TypeOK'
  <2>1. Nothing \in Held
    BY RolesAssumption, StatusAssumption DEF Nothing, Held, Asks, NewRow, Row
  <2> QED BY <1>1, <1>2, <2>1 DEF StaffInv, TypeOK, Save, End
<1>5. RanksFromAbove'
  BY <1>1, <1>3 DEF StaffInv, TypeOK, RanksFromAbove, Above
<1>6. HeldIsOld' /\ Judged'
  BY <1>1 DEF StaffInv, TypeOK, HeldIsOld, Judged, Save, End, Above
<1> QED BY <1>4, <1>5, <1>6 DEF StaffInv

\* A request that ends without a write.
LEMMA AbortKeeps == ASSUME NEW r \in Requests, StaffInv, Abort(r)
                    PROVE  StaffInv'
<1>1. Nothing \in Held
  BY RolesAssumption, StatusAssumption DEF Nothing, Held, Asks, NewRow, Row
<1>2. TypeOK'
  BY <1>1 DEF StaffInv, TypeOK, Abort, End
<1>3. RanksFromAbove'
  BY DEF StaffInv, RanksFromAbove, Abort, Above
<1>4. HeldIsOld' /\ Judged'
  BY DEF StaffInv, TypeOK, HeldIsOld, Judged, Abort, End, Above
<1> QED BY <1>2, <1>3, <1>4 DEF StaffInv

LEMMA NextKeeps == StaffInv /\ [Next]_vars => StaffInv'
<1> SUFFICES ASSUME StaffInv, [Next]_vars PROVE StaffInv'
  OBVIOUS
<1>1. CASE UNCHANGED vars
  BY <1>1 DEF StaffInv, TypeOK, RanksFromAbove, HeldIsOld, Judged, Above, vars
<1>2. CASE Next
  BY <1>2, AdmitKeeps, ProfileKeeps, LoadKeeps, SaveKeeps, AbortKeeps DEF Next
<1> QED BY <1>1, <1>2

\* The inductive invariant of the staff module.
THEOREM StaffInvariant == Spec => []StaffInv
BY InitInv, NextKeeps, PTL DEF Spec

\* Rows and requests keep their types.
THEOREM StaffTypeCorrect == Spec => []TypeOK
BY StaffInvariant, PTL DEF StaffInv

\* update_role: no chain of role changes gives a role nobody began above.
THEOREM StaffRanksFromAbove == Spec => []RanksFromAbove
BY StaffInvariant, PTL DEF StaffInv

\* The services refuse changes of oneself: the last one in charge falls only to a
\* request whose actor is not in charge any more.
THEOREM StaffSomeoneStays == Spec => SomeoneStays
<1> DEFINE Fall == (\E u \in Users : InCharge(u)) /\ ~(\E u \in Users : InCharge(u))'
           Stays == Fall => \E r \in Requests : pc[r] = "save" /\ ~InCharge(req[r].actor)
<1>1. ASSUME StaffInv, [Next]_vars PROVE [Stays]_vars
  <2> SUFFICES ASSUME Next, Fall
               PROVE  \E r \in Requests : pc[r] = "save" /\ ~InCharge(req[r].actor)
    BY <1>1
  <2>1. row' # row
    BY DEF InCharge
  <2>2. PICK r \in Requests : Save(r)
    BY <2>1 DEF Next, Admit, AdmitProfile, Load, Abort
  <2>3. /\ pc[r] = "save" /\ req[r].actor \in Users /\ req[r].target \in Users
        /\ req[r].ask.kind # "profile" => req[r].target # req[r].actor
        /\ row' = [row EXCEPT ![req[r].target] = Assigned(@, req[r].ask)]
        /\ row \in [Users -> Row] /\ row[req[r].target] \in Row
    BY <1>1, <2>2 DEF Save, Written, StaffInv, TypeOK, HeldIsOld, Judged
  <2>5. req[r].ask.kind # "profile"
    <3> SUFFICES ASSUME req[r].ask.kind = "profile" PROVE FALSE
      OBVIOUS
    <3>1. Assigned(row[req[r].target], req[r].ask) = row[req[r].target]
      BY <2>3 DEF Assigned, Row
    <3> QED BY <2>1, <2>3, <3>1
  <2>4. row'[req[r].actor] = row[req[r].actor]
    BY <2>3, <2>5
  <2> QED BY <2>3, <2>4 DEF InCharge
<1> QED BY <1>1, StaffInvariant, PTL DEF Spec, SomeoneStays

\* UserRepository.update: a save writes the one column it names over the committed
\* row, so that no deactivation and no concurrent change is undone.
THEOREM StaffOneColumnAtATime == Spec => OneColumnAtATime
<1> DEFINE One == \A u \in Users : /\ row'[u].active => row[u].active
                                   /\ row'[u].role # row[u].role
                                        => row'[u].status = row[u].status
<1>1. ASSUME StaffInv, [Next]_vars PROVE [One]_vars
  <2> SUFFICES ASSUME Next, NEW u \in Users
               PROVE  /\ row'[u].active => row[u].active
                      /\ row'[u].role # row[u].role => row'[u].status = row[u].status
    BY <1>1
  <2>1. CASE row' = row
    BY <2>1
  <2>2. CASE \E r \in Requests : Save(r)
    <3>1. PICK r \in Requests : Save(r)
      BY <2>2
    <3>2. CASE u = req[r].target
      <4>1. row'[u] = Assigned(row[u], req[r].ask)
        BY <1>1, <3>1, <3>2 DEF Save, Written, StaffInv, TypeOK
      <4>2. row'[u].active = (req[r].ask.kind # "delete" /\ row[u].active)
        BY <4>1 DEF Assigned
      <4>3. row'[u].role # row[u].role => row'[u].status = row[u].status
        BY <4>1 DEF Assigned
      <4> QED BY <4>2, <4>3, Zenon
    <3>3. CASE u # req[r].target
      BY <1>1, <3>1, <3>3 DEF Save, StaffInv, TypeOK
    <3> QED BY <3>2, <3>3
  <2> QED BY <2>1, <2>2 DEF Next, Admit, AdmitProfile, Load, Abort
<1> QED BY <1>1, StaffInvariant, PTL DEF Spec, OneColumnAtATime
==============================================================================
