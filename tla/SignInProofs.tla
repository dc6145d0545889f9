----------------------------- MODULE SignInProofs -----------------------------
(***************************************************************************)
(* The account lock under every interleaving, for any number of workers,   *)
(* any threshold and any duration of the lock.                             *)
(***************************************************************************)
EXTENDS SignIn, TLAPS

\* What a worker holds was true once: its counter was reached by failures that
\* are on record, and a lock it has seen was set by one of them.
CopiesAreOld == \A w \in Workers : /\ copy[w].failed <= wrong
                                   /\ copy[w].until # Never => locks > 0

\* Whoever passed the lock check found no lock in force; the clock only advances.
CheckPassed == \A w \in Workers :
                   pc[w] \in {"fail", "grant"} => copy[w].until <= now

SignInInv == /\ TypeOK /\ CopiesAreOld /\ CheckPassed
             /\ LocksAreEarned /\ FailuresInARowLock

LEMMA InitInv == Init => SignInInv
<1> SUFFICES ASSUME Init PROVE SignInInv
  OBVIOUS
<1>1. TypeOK
  BY DEF Init, TypeOK, Columns, Copies, Clear, NoCopy, Never, Places
<1>2. CopiesAreOld /\ CheckPassed
  BY DEF Init, CopiesAreOld, CheckPassed, NoCopy, Never
<1>3. LocksAreEarned /\ FailuresInARowLock
  BY ThresholdAssumption DEF Init, LocksAreEarned, FailuresInARowLock, Clear, Never
<1> QED BY <1>1, <1>2, <1>3 DEF SignInInv

\* A worker that starts reads what the committed row says.
LEMMA ReadKeeps == ASSUME NEW w \in Workers, NEW next \in Places \ {"fail", "grant"},
                          SignInInv, Read(w, next)
                   PROVE  SignInInv'
<1> USE DEF SignInInv, Read, Step, history
<1>1. TypeOK'
  BY DEF TypeOK, Columns, Copies
<1>2. CopiesAreOld'
  BY DEF TypeOK, CopiesAreOld, LocksAreEarned, Columns
<1>3. CheckPassed'
  BY DEF TypeOK, CheckPassed
<1>4. LocksAreEarned' /\ FailuresInARowLock'
  BY DEF LocksAreEarned, FailuresInARowLock
<1> QED BY <1>1, <1>2, <1>3, <1>4

\* The end of a request that writes nothing.
LEMMA EndKeeps == ASSUME NEW w \in Workers, SignInInv, End(w),
                         UNCHANGED <<row, open, now, history>>
                  PROVE  SignInInv'
<1> USE DEF SignInInv, End, Step, history
<1>1. TypeOK'
  BY DEF TypeOK, Copies, NoCopy, Never, Places
<1>2. CopiesAreOld'
  BY DEF TypeOK, CopiesAreOld, NoCopy, Never
<1>3. CheckPassed'
  BY DEF TypeOK, CheckPassed, NoCopy, Never
<1>4. LocksAreEarned' /\ FailuresInARowLock'
  BY DEF LocksAreEarned, FailuresInARowLock
<1> QED BY <1>1, <1>2, <1>3, <1>4

\* After the password check, right or wrong: the lock check has been passed.
LEMMA PasswordKeeps == ASSUME NEW w \in Workers, SignInInv,
                              WrongPassword(w) \/ RightPassword(w)
                       PROVE  SignInInv'
<1> USE DEF SignInInv, WrongPassword, RightPassword, Step, history
<1>1. TypeOK'
  BY DEF TypeOK, Places
<1>2. CopiesAreOld'
  BY DEF CopiesAreOld
<1>3. CheckPassed'
  <2>1. copy[w].until <= now
    BY DEF TypeOK, IsLocked, Copies, Never
  <2> QED BY <2>1 DEF TypeOK, CheckPassed
<1>4. LocksAreEarned' /\ FailuresInARowLock'
  BY DEF LocksAreEarned, FailuresInARowLock
<1> QED BY <1>1, <1>2, <1>3, <1>4

\* record_failed_login: the counter of the copy, not of the row, decides.
LEMMA RecordFailedLoginKeeps ==
    ASSUME NEW w \in Workers, SignInInv, RecordFailedLogin(w)
    PROVE  SignInInv'
<1> USE ThresholdAssumption, LockTimeAssumption
<1> DEFINE c == copy[w]
<1>1. /\ c \in Copies /\ c.failed <= wrong /\ c.until <= now
      /\ c.until # Never => locks > 0
  BY DEF SignInInv, RecordFailedLogin, TypeOK, CopiesAreOld, CheckPassed
<1>2. /\ row' = Failed(c) /\ row'.failed = c.failed + 1
      /\ c.failed + 1 >= Threshold => row'.until = now + LockTime
      /\ c.failed + 1 < Threshold => row'.until = c.until
  BY <1>1 DEF RecordFailedLogin, Failed, Copies
<1>3. /\ wrong' = wrong + 1
      /\ c.failed + 1 >= Threshold => locks' = locks + 1
      /\ c.failed + 1 < Threshold => locks' = locks
  BY <1>1, <1>2 DEF RecordFailedLogin, IsLocked, SignInInv, TypeOK, Copies, Never
<1>4. TypeOK'
  <2>1. row' \in Columns
    BY <1>1 DEF RecordFailedLogin, Failed, Columns, Copies, SignInInv, TypeOK
  <2> QED BY <1>1, <1>3, <2>1
          DEF RecordFailedLogin, End, Step, SignInInv, TypeOK, Copies, NoCopy, Never, Places
<1>5. CopiesAreOld'
  BY <1>1, <1>3 DEF RecordFailedLogin, End, SignInInv, TypeOK, CopiesAreOld, Copies, NoCopy,
                    Never
<1>6. CheckPassed'
  BY DEF RecordFailedLogin, End, Step, SignInInv, TypeOK, CheckPassed, NoCopy, Never
<1>7. LocksAreEarned'
  BY <1>1, <1>2, <1>3 DEF SignInInv, TypeOK, LocksAreEarned, Copies, Never
<1>8. FailuresInARowLock'
  <2>1. CASE Stale(w)
    BY <1>1, <1>2, <2>1 DEF RecordFailedLogin, FailuresInARowLock, Copies
  <2>2. CASE ~Stale(w)
    <3>1. c.failed = row.failed /\ streak' = streak + 1
      BY <2>2 DEF RecordFailedLogin, Stale, Columnwise
    <3> QED BY <1>1, <1>2, <3>1 DEF SignInInv, TypeOK, FailuresInARowLock, Copies, Columns,
                                    Never
  <2> QED BY <2>1, <2>2
<1> QED BY <1>4, <1>5, <1>6, <1>7, <1>8 DEF SignInInv

\* record_login and unlock_account start again from nothing.
LEMMA RecordLoginKeeps == ASSUME NEW w \in Workers, SignInInv, RecordLogin(w)
                          PROVE  SignInInv'
<1> USE DEF SignInInv, RecordLogin, End, Step
<1>1. TypeOK'
  BY DEF TypeOK, Columns, Clear, Copies, NoCopy, Never, Places
<1>2. CopiesAreOld'
  BY DEF TypeOK, CopiesAreOld, NoCopy, Never
<1>3. CheckPassed'
  BY DEF TypeOK, CheckPassed, NoCopy, Never
<1>4. LocksAreEarned' /\ FailuresInARowLock'
  BY ThresholdAssumption DEF TypeOK, LocksAreEarned, FailuresInARowLock, Clear, Never
<1> QED BY <1>1, <1>2, <1>3, <1>4

\* The rest of the system, the clock and stuttering.
LEMMA WorldKeeps == ASSUME SignInInv, SetOpen \/ Tick \/ UNCHANGED vars
                    PROVE  SignInInv'
<1> USE DEF SignInInv, SetOpen, Tick, vars, history
<1>1. TypeOK'
  <2>1. open' \in BOOLEAN
    BY Zenon DEF TypeOK
  <2>2. now' \in Nat \ {0}
    BY DEF TypeOK
  <2>3. /\ row' = row /\ pc' = pc /\ copy' = copy
        /\ wrong' = wrong /\ locks' = locks /\ streak' = streak
    BY Zenon
  <2> QED BY <2>1, <2>2, <2>3 DEF TypeOK
<1>2. CheckPassed'
  BY DEF TypeOK, CheckPassed, Copies
<1>3. CopiesAreOld' /\ LocksAreEarned' /\ FailuresInARowLock'
  BY DEF CopiesAreOld, LocksAreEarned, FailuresInARowLock
<1> QED BY <1>1, <1>2, <1>3

LEMMA NextKeeps == SignInInv /\ [Next]_vars => SignInInv'
<1> SUFFICES ASSUME SignInInv, [Next]_vars PROVE SignInInv'
  OBVIOUS
<1>1. CASE SetOpen \/ Tick \/ UNCHANGED vars
  BY <1>1, WorldKeeps
<1>2. CASE \E w \in Workers : Login(w) \/ Read(w, "unlock") \/ Abort(w)
  <2> PICK w \in Workers : Login(w) \/ Read(w, "unlock") \/ Abort(w)
    BY <1>2
  <2>1. CASE Read(w, "check") \/ Read(w, "unlock")
    BY <2>1, ReadKeeps DEF Places
  <2>2. CASE RefuseLocked(w) \/ RefuseClosed(w) \/ Abort(w)
    BY <2>2, EndKeeps DEF RefuseLocked, RefuseClosed, Abort
  <2>3. CASE WrongPassword(w) \/ RightPassword(w)
    BY <2>3, PasswordKeeps
  <2>4. CASE RecordFailedLogin(w)
    BY <2>4, RecordFailedLoginKeeps
  <2>5. CASE RecordLogin(w)
    BY <2>5, RecordLoginKeeps
  <2> QED BY <2>1, <2>2, <2>3, <2>4, <2>5 DEF Login
<1> QED BY <1>1, <1>2 DEF Next

\* The inductive invariant of the account lock.
THEOREM SignInInvariant == Spec => []SignInInv
BY InitInv, NextKeeps, PTL DEF Spec

\* Row, clock, copies and counters keep their types.
THEOREM SignInTypeCorrect == Spec => []TypeOK
BY SignInInvariant, PTL DEF SignInInv

\* record_failed_login: no lock without Threshold recorded failures, and no
\* further lock without a further failure.
THEOREM SignInLocksAreEarned == Spec => []LocksAreEarned
BY SignInInvariant, PTL DEF SignInInv

\* Threshold failures in a row, recorded from current copies, set the lock.
THEOREM SignInFailuresInARowLock == Spec => []FailuresInARowLock
BY SignInInvariant, PTL DEF SignInInv

\* login: a lock in force yields only to a request that read the user before it
\* was set, or to a console session.
THEOREM SignInLockKept == Spec => LockKept
<1> DEFINE Kept == IsLocked(row) /\ row'.until # row.until
                     => \E w \in Workers : \/ pc[w] \in {"fail", "grant"} /\ Stale(w)
                                           \/ pc[w] = "unlock"
<1>1. ASSUME SignInInv, [Next]_vars PROVE [Kept]_vars
  <2> SUFFICES ASSUME Next, IsLocked(row), row'.until # row.until
               PROVE  \E w \in Workers : \/ pc[w] \in {"fail", "grant"} /\ Stale(w)
                                         \/ pc[w] = "unlock"
    BY <1>1
  <2>1. PICK w \in Workers : RecordFailedLogin(w) \/ RecordLogin(w)
    BY DEF Next, SetOpen, Tick, Login, Read, RefuseLocked, RefuseClosed, WrongPassword,
           RightPassword, Abort
  <2>2. CASE pc[w] \in {"fail", "grant"}
    <3>1. copy[w].until <= now /\ copy[w].until \in Nat
      BY <1>1, <2>2 DEF SignInInv, CheckPassed, TypeOK, Copies
    <3>2. row.until > now
      BY DEF IsLocked
    <3>3. copy[w].until # row.until
      BY <1>1, <3>1, <3>2 DEF SignInInv, TypeOK, Columns
    <3> QED BY <2>2, <3>3 DEF Stale, Columnwise
  <2>3. CASE pc[w] = "unlock"
    BY <2>3
  <2> QED BY <2>1, <2>2, <2>3 DEF RecordFailedLogin, RecordLogin
<1> QED BY <1>1, SignInInvariant, PTL DEF Spec, LockKept
==============================================================================
