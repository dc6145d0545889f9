-------------------------------- MODULE SignIn --------------------------------
(***************************************************************************)
(* AuthService.login of apps/authentication/services.py with the brute     *)
(* force lock of apps/users/models.py, for one account.                    *)
(*                                                                         *)
(* login runs in autocommit mode: it reads the user once, hashes the       *)
(* password, and saves the counter and the lock from that copy, two        *)
(* columns in one UPDATE.  Nothing is locked meanwhile, and a thread may    *)
(* be slow between any two of these steps.  unlock_account has no caller   *)
(* in the code and stands for a console session.                           *)
(***************************************************************************)
EXTENDS Naturals

CONSTANTS
    Workers,     \* the threads that serve requests
    Threshold,   \* wrong passwords until the account is locked: 5
    LockTime,    \* ticks that a lock lasts: 30 minutes
    MaxWrong,    \* bound: wrong passwords tried
    MaxTime      \* bound: ticks of the clock

ASSUME ThresholdAssumption == Threshold \in Nat \ {0}
ASSUME LockTimeAssumption == LockTime \in Nat \ {0}

VARIABLES
    row,      \* the committed columns failed_login_attempts and locked_until
    open,     \* is_email_verified, status = ACTIVE and is_active, all three
    now,      \* timezone.now()
    pc, copy, \* where a worker is, and its User instance
    wrong,    \* history: failed logins recorded
    locks,    \* history: how often a failed login has locked the account
    streak    \* history: failed logins recorded in a row, none of them from a
              \* copy that differed from the row

history == <<wrong, locks, streak>>
vars    == <<row, open, now, pc, copy, history>>

Never   == 0                                       \* locked_until is NULL
Columns == [failed : Nat, until : Nat]
Copies  == [failed : Nat, until : Nat, open : BOOLEAN]
Clear   == [failed |-> 0, until |-> Never]
NoCopy  == [failed |-> 0, until |-> Never, open |-> FALSE]

Init == /\ row = Clear
        /\ open \in BOOLEAN
        /\ now = 1
        /\ pc = [w \in Workers |-> "idle"]
        /\ copy = [w \in Workers |-> NoCopy]
        /\ wrong = 0 /\ locks = 0 /\ streak = 0

Step(w, there) == pc' = [pc EXCEPT ![w] = there]
End(w) == Step(w, "idle") /\ copy' = [copy EXCEPT ![w] = NoCopy]
Columnwise(c)  == [failed |-> c.failed, until |-> c.until]
Stale(w)       == Columnwise(copy[w]) # row

------------------------------------------------------------------------------
IsLocked(c) == c.until # Never /\ c.until > now

\* get_by_email, or the instance a console session works with.
Read(w, next) == /\ pc[w] = "idle"
                 /\ copy' = [copy EXCEPT ![w] = [failed |-> row.failed, until |-> row.until,
                                                 open |-> open]]
                 /\ Step(w, next)
                 /\ UNCHANGED <<row, open, now, history>>

\* A locked account is refused before the password is looked at.
RefuseLocked(w) == /\ pc[w] = "check" /\ IsLocked(copy[w])
                   /\ End(w)
                   /\ UNCHANGED <<row, open, now, history>>

\* check_password, which takes its time.
WrongPassword(w) == /\ pc[w] = "check" /\ ~IsLocked(copy[w])
                    /\ wrong < MaxWrong
                    /\ Step(w, "fail")
                    /\ UNCHANGED <<row, open, now, copy, history>>

\* Mutant: the lock holds up wrong passwords only.
RightPasswordAnyway(w) == /\ pc[w] = "check" /\ copy[w].open
                          /\ Step(w, "grant")
                          /\ UNCHANGED <<row, open, now, copy, history>>

\* The right password, and the account may be used.
RightPassword(w) == /\ pc[w] = "check" /\ ~IsLocked(copy[w])
                    /\ copy[w].open
                    /\ Step(w, "grant")
                    /\ UNCHANGED <<row, open, now, copy, history>>

\* Not verified, not active: refused, and the counter left alone.
RefuseClosed(w) == /\ pc[w] = "check" /\ ~IsLocked(copy[w])
                   /\ ~copy[w].open
                   /\ End(w)
                   /\ UNCHANGED <<row, open, now, history>>

\* Mutants: the lock one failure early; one failure late; the attempts that are
\* left are counted down.
LockEarly(c) == IF c.failed + 2 >= Threshold
                THEN [failed |-> c.failed + 1, until |-> now + LockTime]
                ELSE [failed |-> c.failed + 1, until |-> c.until]
LockLate(c)  == IF c.failed >= Threshold
                THEN [failed |-> c.failed + 1, until |-> now + LockTime]
                ELSE [failed |-> c.failed + 1, until |-> c.until]
CountDown(c) == [failed |-> c.failed - 1,
                 until |-> IF c.failed = 1 THEN now + LockTime ELSE c.until]

\* What record_failed_login makes of its instance: both columns are written.
Failed(c) == IF c.failed + 1 >= Threshold
             THEN [failed |-> c.failed + 1, until |-> now + LockTime]
             ELSE [failed |-> c.failed + 1, until |-> c.until]

RecordFailedLogin(w) ==
    /\ pc[w] = "fail"
    /\ row' = Failed(copy[w])
    /\ wrong' = wrong + 1
    /\ locks' = IF IsLocked(Failed(copy[w])) THEN locks + 1 ELSE locks
    /\ streak' = IF Stale(w) THEN 0 ELSE streak + 1
    /\ End(w)
    /\ UNCHANGED <<open, now>>

\* record_login, after which the tokens are issued; unlock_account.
RecordLogin(w) ==
    /\ pc[w] \in {"grant", "unlock"}
    /\ row' = Clear
    /\ streak' = 0
    /\ End(w)
    /\ UNCHANGED <<open, now, wrong, locks>>

\* The request dies: a killed thread, a lost connection.
Abort(w) == /\ pc[w] # "idle"
            /\ End(w)
            /\ UNCHANGED <<row, open, now, history>>

\* Verification, suspension and deactivation write other columns only.
SetOpen == /\ open' = ~open
           /\ UNCHANGED <<row, now, pc, copy, history>>

Tick == /\ now < MaxTime
        /\ now' = now + 1
        /\ UNCHANGED <<row, open, pc, copy, history>>

Login(w) == \/ Read(w, "check") \/ RefuseLocked(w)
            \/ WrongPassword(w) \/ RecordFailedLogin(w)
            \/ RightPassword(w) \/ RefuseClosed(w) \/ RecordLogin(w)

Next == \/ SetOpen \/ Tick
        \/ \E w \in Workers : Login(w) \/ Read(w, "unlock") \/ Abort(w)

Spec == Init /\ [][Next]_vars

------------------------------------------------------------------------------
Places == {"idle", "check", "fail", "grant", "unlock"}

TypeOK == /\ row \in Columns
          /\ open \in BOOLEAN
          /\ now \in Nat \ {0}
          /\ pc \in [Workers -> Places]
          /\ copy \in [Workers -> Copies]
          /\ wrong \in Nat /\ locks \in Nat /\ streak \in Nat

\* Nobody is locked out for nothing: the first lock takes Threshold recorded
\* failures and every further lock at least one more, although parallel failures
\* overwrite each other's counter (they are lost, never counted twice) and the
\* counter is not reset when a lock runs out, so that one failure locks again.
LocksAreEarned == /\ row.failed <= wrong
                  /\ locks > 0 => wrong >= Threshold + locks - 1
                  /\ row.until # Never => locks > 0

\* Brute force protection: Threshold wrong passwords in a row, none of which was
\* recorded from an outdated copy, have set the lock.
FailuresInARowLock == /\ streak <= row.failed
                      /\ streak >= Threshold => row.until # Never

\* A lock in force is changed by a request that had read the user before the lock
\* was set, and by a console session, and by nothing else: neither by a further
\* login, right or wrong, nor by a change of the account's state.
LockKept == [][IsLocked(row) /\ row'.until # row.until
                 => \E w \in Workers : \/ pc[w] \in {"fail", "grant"} /\ Stale(w)
                                       \/ pc[w] = "unlock"]_vars
==============================================================================
