-------------------------- MODULE AccountLinksProofs --------------------------
(***************************************************************************)
(* What the links of an account guarantee however many requests overlap    *)
(* and wherever one fails: AccountInv is inductive, for any requests,      *)
(* tokens and passwords.  A request owns the rows it has written, so its   *)
(* steps leave what the invariant says of the others alone; each lemma     *)
(* <Action>Keeps is then about one request.                                *)
(***************************************************************************)
EXTENDS AccountLinks, FiniteSetTheorems, TLAPS

\* Only the locals and writes of r change.
OnlyMine(r) == \A q \in Requests \ {r} :
    pc'[q] = pc[q] /\ arg'[q] = arg[q] /\ wuser'[q] = wuser[q] /\ wtok'[q] = wtok[q]

\* r has what it writes for itself.
Locking(r) ==
    /\ wuser'[r] \in {None, wuser[r]} \/ UserFree(r)
    /\ \A t \in Tokens : wtok'[r][t] \in {None, wtok[r][t]} \/ TokenFree(r, t)

\* Rows change only where no other transaction holds them, and stay.
Committing(r) ==
    /\ user' = user \/ (user' # None /\ UserFree(r))
    /\ \A t \in Tokens : \/ tokens'[t] = tokens[t]
                         \/ tokens'[t] # "absent" /\ TokenFree(r, t)

\* The other requests do not notice.
LEMMA OthersKeep ==
    ASSUME AccountInv, NEW r \in Requests, OnlyMine(r), Committing(r),
           NEW q \in Requests \ {r}
    PROVE  (WritesFit(q) /\ OnTrack(q))'
  <1> USE DEF AccountInv, OnlyMine, Committing
  <1>1. wuser[q] # None => user' = user
    BY DEF UserFree
  <1>2. \A t \in Tokens : wtok[q][t] # None => tokens'[t] = tokens[t]
    BY DEF TokenFree
  <1>3. \A t \in Tokens : tokens[t] # "absent" => tokens'[t] # "absent"
    OBVIOUS
  <1>4. user # None => user' # None
    OBVIOUS
  <1>6. WritesFit(q)'
    BY <1>1, <1>2, NoneAssumption DEF WritesFit
  <1>7. OnTrack(q)'
    <2>1. \A t \in TokensFor(q) : t \in Tokens
      BY DEF TokensFor, Tokens
    <2> QED BY <1>3, <1>4, <2>1 DEF OnTrack, Accepted, Consumed, Written, TokensFor
  <1> QED BY <1>6, <1>7

\* Nor do they lose a lock.
LEMMA LocksKeep ==
    ASSUME AccountInv, NEW r \in Requests, OnlyMine(r), Locking(r)
    PROVE  LocksExclusive'
  <1> USE DEF AccountInv, OnlyMine, Locking
  <1>1. ASSUME NEW q \in Requests \ {r}
        PROVE  /\ wuser'[q] = None \/ wuser'[r] = None
               /\ \A t \in Tokens : wtok'[q][t] = None \/ wtok'[r][t] = None
    BY <1>1 DEF LocksExclusive, UserFree, TokenFree
  <1>2. ASSUME NEW p \in Requests \ {r}, NEW q \in Requests \ {r}, p # q
        PROVE  /\ wuser'[q] = None \/ wuser'[p] = None
               /\ \A t \in Tokens : wtok'[q][t] = None \/ wtok'[p][t] = None
    BY <1>2 DEF LocksExclusive
  <1> QED BY <1>1, <1>2 DEF LocksExclusive

\* A step of one request that leaves the committed rows alone.
LEMMA LocalKeeps ==
    ASSUME AccountInv, NEW r \in Requests, OnlyMine(r), Locking(r),
           UNCHANGED <<user, tokens, spent>>, TypeOK', WritesFit(r)', OnTrack(r)'
    PROVE  AccountInv'
  <1>1. Committing(r)
    BY DEF Committing
  <1>2. \A q \in Requests \ {r} : (WritesFit(q) /\ OnTrack(q))'
    BY <1>1, OthersKeep
  <1>3. LocksExclusive'
    BY LocksKeep
  <1>4. (TokensHaveUser /\ SpentIsUsed /\ VerifiedByLink)'
    BY DEF AccountInv, TokensHaveUser, SpentIsUsed, VerifiedByLink
  <1> QED BY <1>2, <1>3, <1>4 DEF AccountInv

\* A request that ends.
LEMMA Ends ==
    ASSUME AccountInv, NEW r \in Requests, NEW outcome \in Ended, Close(r, outcome)
    PROVE  /\ OnlyMine(r) /\ Locking(r) /\ WritesFit(r)' /\ OnTrack(r)'
           /\ pc' \in [Requests -> {"idle", "insert", "mail", "consume", "password",
                    "activate", "welcome", "revoke", "revoking", "issue", "change",
                    "sweepVerify", "sweepReset", "commit"} \cup Ended]
           /\ arg' \in [Requests -> Args]
           /\ wuser' \in [Requests -> User \cup {None}]
           /\ wtok' \in [Requests -> [Tokens -> {"unused", "used", "deleted", None}]]
  <1> USE DEF AccountInv, TypeOK, Close, Step, NoWrites
  <1>0. NoArg \in Args
    BY DEF NoArg, Args
  <1>1. pc'[r] = outcome /\ wuser'[r] = None /\ wtok'[r] = [t \in Tokens |-> None]
    OBVIOUS
  <1>2. OnlyMine(r) /\ Locking(r)
    BY <1>1 DEF OnlyMine, Locking
  <1>4. WritesFit(r)'
    BY <1>1, NoneAssumption DEF WritesFit
  <1>5. OnTrack(r)'
    BY <1>1, NoneAssumption DEF OnTrack, Accepted, Consumed, Written, Ended
  <1>6. arg' \in [Requests -> Args]
    BY <1>0
  <1>7. wtok' \in [Requests -> [Tokens -> {"unused", "used", "deleted", None}]]
    OBVIOUS
  <1> QED BY <1>2, <1>4, <1>5, <1>6, <1>7
\* A request whose link was accepted has a user, and a token in its table.
LEMMA AcceptedHasUser ==
    ASSUME AccountInv, NEW r \in Requests, Accepted(r)
    PROVE  /\ arg[r].token \in Tokens /\ user \in User
           /\ tokens[arg[r].token] \in {"unused", "used", "deleted"}
  <1>1. arg[r].token \in TokensFor(r) /\ tokens[arg[r].token] # "absent"
    BY DEF AccountInv, OnTrack
  <1>2. arg[r].token \in Tokens
    BY <1>1 DEF TokensFor, Tokens
  <1> QED BY <1>1, <1>2 DEF AccountInv, TypeOK, TokensHaveUser

------------------------------------------------------------------------------
\* Every early return, refusal and failure.
LEMMA RollbackKeeps ==
    ASSUME AccountInv, NEW r \in Requests, Rollback(r)
    PROVE  AccountInv'
  <1>1. /\ "failed" \in Ended /\ Close(r, "failed")
        /\ UNCHANGED <<user, tokens, expired, mail, spent>>
    BY DEF Rollback, Ended
  <1>2. TypeOK'
    BY <1>1, Ends DEF TypeOK, AccountInv
  <1> QED BY <1>1, <1>2, Ends, LocalKeeps

------------------------------------------------------------------------------
(* The steps that write nothing another request can see.                    *)

LEMMA StartRegisterKeeps ==
    ASSUME AccountInv, NEW r \in Requests, NEW p \in Passwords, StartRegister(r, p)
    PROVE  AccountInv'
  <1> USE DEF AccountInv, StartRegister, Begins
  <1>1. /\ pc'[r] = "insert" /\ arg'[r].password = p
        /\ wuser'[r] = wuser[r] /\ wtok'[r] = wtok[r]
    BY DEF TypeOK, Step, memory, Args
  <1>2. OnlyMine(r)
    BY DEF TypeOK, Step, memory, OnlyMine
  <1>3. Locking(r)
    BY <1>1 DEF Locking
  <1>4. TypeOK'
    BY <1>1 DEF TypeOK, Args, Step, memory, Ended
  <1>5. WritesFit(r)'
    BY <1>1, NoneAssumption DEF WritesFit
  <1>6. OnTrack(r)'
    BY <1>1 DEF OnTrack, Accepted, Consumed, Written, Ended
  <1> QED BY <1>2, <1>3, <1>4, <1>5, <1>6, LocalKeeps DEF memory

LEMMA InsertUserKeeps ==
    ASSUME AccountInv, NEW r \in Requests, NEW t \in Tokens, InsertUser(r, t)
    PROVE  AccountInv'
  <1> USE DEF AccountInv, InsertUser, Fresh
  <1> DEFINE new == [verified |-> FALSE, status |-> "pending", password |-> arg[r].password]
  <1>1. /\ pc'[r] = "mail" /\ arg'[r].token = t /\ wuser'[r] = new
        /\ wtok'[r] = [wtok[r] EXCEPT ![t] = "unused"]
    BY DEF TypeOK, Step, memory, Args
  <1>2. OnlyMine(r)
    BY DEF TypeOK, Step, memory, OnlyMine
  <1>3. \A u \in Tokens : wtok'[r][u] = IF u = t THEN "unused" ELSE wtok[r][u]
    BY <1>1 DEF TypeOK
  <1>4. KindOf[r] = "register" /\ arg[r].password \in Passwords
    BY DEF OnTrack
  <1>5. new \in User /\ ~new.verified
    BY <1>4 DEF User, UserStatus
  <1>6. Locking(r)
    BY <1>1, <1>3 DEF Locking, TokenFree
  <1>7. TypeOK'
    <2>1. arg' \in [Requests -> Args]
      BY DEF TypeOK, Args
    <2>2. wuser' \in [Requests -> User \cup {None}]
      BY <1>5 DEF TypeOK
    <2>3. wtok' \in [Requests -> [Tokens -> {"unused", "used", "deleted", None}]]
      BY DEF TypeOK
    <2>4. pc' = [pc EXCEPT ![r] = "mail"]
      BY DEF Step
    <2> QED BY <2>1, <2>2, <2>3, <2>4 DEF TypeOK
  <1>8. WritesFit(r)'
    <2>1. \A u \in Tokens : wtok'[r][u] = "unused" => tokens[u] = "absent"
      BY <1>3 DEF WritesFit
    <2>2. \A u \in Tokens : wtok'[r][u] \in {"used", "deleted"} => tokens[u] \in {"unused", "used"}
      BY <1>3 DEF WritesFit
    <2> QED BY <1>1, <1>4, <1>5, <2>1, <2>2 DEF WritesFit
  <1>9. OnTrack(r)'
    <2>1. wuser'[r] # None
      BY <1>1, <1>5, UserAssumption
    <2> QED BY <1>1, <1>4, <2>1 DEF OnTrack, Accepted, Consumed, Written
  <1> QED BY <1>2, <1>6, <1>7, <1>8, <1>9, LocalKeeps

LEMMA StartVerifyKeeps ==
    ASSUME AccountInv, NEW r \in Requests, NEW t \in Tokens, StartVerify(r, t)
    PROVE  AccountInv'
  <1> USE DEF AccountInv, StartVerify, Begins, IsValid
  <1>1. /\ pc'[r] = "consume" /\ arg'[r].token = t
        /\ wuser'[r] = wuser[r] /\ wtok'[r] = wtok[r]
    BY DEF TypeOK, Step, memory, Args
  <1>2. OnlyMine(r)
    BY DEF TypeOK, Step, memory, OnlyMine
  <1>3. Locking(r)
    BY <1>1 DEF Locking
  <1>4. TypeOK'
    BY <1>1 DEF TypeOK, Args, Step, memory, Ended
  <1>5. WritesFit(r)'
    BY <1>1, NoneAssumption DEF WritesFit
  <1>6. OnTrack(r)'
    BY <1>1 DEF OnTrack, Accepted, Consumed, Written, Ended, TokensFor
  <1> QED BY <1>2, <1>3, <1>4, <1>5, <1>6, LocalKeeps DEF memory

LEMMA StartResetKeeps ==
    ASSUME AccountInv, NEW r \in Requests, NEW t \in Tokens, NEW p \in Passwords,
           StartReset(r, t, p)
    PROVE  AccountInv'
  <1> USE DEF AccountInv, StartReset, Begins, IsValid
  <1>1. /\ pc'[r] = "password" /\ arg'[r].token = t /\ arg'[r].password = p
        /\ wuser'[r] = wuser[r] /\ wtok'[r] = wtok[r]
    BY DEF TypeOK, Step, memory, Args
  <1>2. OnlyMine(r)
    BY DEF TypeOK, Step, memory, OnlyMine
  <1>3. Locking(r)
    BY <1>1 DEF Locking
  <1>4. TypeOK'
    <2>1. arg[r] \in Args
      BY DEF TypeOK
    <2>2. [arg[r] EXCEPT !.token = t] \in Args
      BY <2>1 DEF Args
    <2>3. [[arg[r] EXCEPT !.token = t] EXCEPT !.password = p] \in Args
      BY <2>2 DEF Args
    <2>4. arg' = [arg EXCEPT ![r] = [[arg[r] EXCEPT !.token = t] EXCEPT !.password = p]]
      BY <2>1 DEF TypeOK, Args
    <2>5. arg' \in [Requests -> Args]
      BY <2>3, <2>4 DEF TypeOK
    <2>6. pc' = [pc EXCEPT ![r] = "password"]
          /\ UNCHANGED <<user, tokens, expired, mail, spent, wuser, wtok>>
      BY DEF Step
    <2> QED BY <2>5, <2>6 DEF TypeOK
  <1>5. WritesFit(r)'
    BY <1>1, NoneAssumption DEF WritesFit
  <1>6. OnTrack(r)'
    BY <1>1 DEF OnTrack, Accepted, Consumed, Written, Ended, TokensFor
  <1> QED BY <1>2, <1>3, <1>4, <1>5, <1>6, LocalKeeps DEF memory

LEMMA SetPasswordKeeps ==
    ASSUME AccountInv, NEW r \in Requests, SetPassword(r)
    PROVE  AccountInv'
  <1> USE DEF AccountInv, SetPassword
  <1> DEFINE new == [user EXCEPT !.password = arg[r].password]
  <1>1. /\ pc'[r] = "consume" /\ arg'[r] = arg[r] /\ wtok'[r] = wtok[r] /\ wuser'[r] = new
    BY DEF TypeOK, Step
  <1>2. OnlyMine(r)
    BY DEF TypeOK, Step, OnlyMine
  <1>3. Locking(r)
    BY <1>1 DEF Locking
  <1>4. KindOf[r] = "reset" /\ arg[r].password \in Passwords
    BY DEF OnTrack
  <1>5. user \in User
    BY AcceptedHasUser DEF Accepted
  <1>6. new \in User /\ new.verified = user.verified
    BY <1>4, <1>5 DEF User, UserStatus
  <1>7. TypeOK'
    <2>1. wuser' \in [Requests -> User \cup {None}]
      BY <1>6 DEF TypeOK
    <2>2. pc' = [pc EXCEPT ![r] = "consume"]
      BY DEF Step
    <2> QED BY <2>1, <2>2 DEF TypeOK
  <1>8. user # None /\ new # None
    BY <1>5, <1>6, UserAssumption
  <1>9. WritesFit(r)'
    BY <1>1, <1>4, <1>6, <1>8 DEF WritesFit
  <1>10. OnTrack(r)'
    BY <1>1, <1>4, <1>8 DEF OnTrack, Accepted, Consumed, Written, TokensFor
  <1> QED BY <1>2, <1>3, <1>7, <1>9, <1>10, LocalKeeps

LEMMA ConsumeKeeps ==
    ASSUME AccountInv, NEW r \in Requests, Consume(r)
    PROVE  AccountInv'
  <1> USE DEF AccountInv, Consume
  <1> DEFINE c == arg[r].token
  <1>1. /\ arg'[r] = arg[r] /\ wuser'[r] = wuser[r]
        /\ pc'[r] = IF KindOf[r] = "verify" THEN "activate" ELSE "revoke"
    BY DEF TypeOK, Step
  <1>2. OnlyMine(r)
    BY DEF TypeOK, Step, OnlyMine
  <1>3. c \in Tokens /\ tokens[c] \in {"unused", "used"} /\ user # None
    BY AcceptedHasUser, UserAssumption DEF Accepted
  <1>4. \A t \in Tokens : wtok'[r][t] = IF t = c THEN "used" ELSE wtok[r][t]
    BY DEF TypeOK
  <1>5. KindOf[r] \in {"verify", "reset"}
    BY DEF OnTrack
  <1>6. Locking(r)
    BY <1>1, <1>4 DEF Locking
  <1>7. TypeOK'
    <2>1. wtok' \in [Requests -> [Tokens -> {"unused", "used", "deleted", None}]]
      BY DEF TypeOK
    <2>2. pc' = [pc EXCEPT ![r] = IF KindOf[r] = "verify" THEN "activate" ELSE "revoke"]
      BY DEF Step
    <2> QED BY <2>1, <2>2 DEF TypeOK
  <1>8. WritesFit(r)'
    BY <1>1, <1>3, <1>4 DEF WritesFit
  <1>9. OnTrack(r)'
    BY <1>1, <1>3, <1>4, <1>5 DEF OnTrack, Accepted, Consumed, Written, TokensFor
  <1> QED BY <1>2, <1>6, <1>7, <1>8, <1>9, LocalKeeps

LEMMA ActivateKeeps ==
    ASSUME AccountInv, NEW r \in Requests, Activate(r)
    PROVE  AccountInv'
  <1> USE DEF AccountInv, Activate
  <1> DEFINE new == [user EXCEPT !.verified = TRUE, !.status = "active"]
  <1>1. /\ pc'[r] = "welcome" /\ arg'[r] = arg[r] /\ wtok'[r] = wtok[r] /\ wuser'[r] = new
    BY DEF TypeOK, Step
  <1>2. OnlyMine(r)
    BY DEF TypeOK, Step, OnlyMine
  <1>3. Locking(r)
    BY <1>1 DEF Locking
  <1>4. KindOf[r] = "verify"
    BY DEF OnTrack
  <1>5. user \in User
    BY AcceptedHasUser DEF Accepted
  <1>6. new \in User /\ new.password = user.password
    BY <1>4, <1>5 DEF User, UserStatus
  <1>7. TypeOK'
    <2>1. wuser' \in [Requests -> User \cup {None}]
      BY <1>6 DEF TypeOK
    <2>2. pc' = [pc EXCEPT ![r] = "welcome"]
      BY DEF Step
    <2> QED BY <2>1, <2>2 DEF TypeOK
  <1>8. user # None /\ new # None
    BY <1>5, <1>6, UserAssumption
  <1>9. WritesFit(r)'
    BY <1>1, <1>4, <1>6, <1>8 DEF WritesFit
  <1>10. OnTrack(r)'
    BY <1>1, <1>4, <1>8 DEF OnTrack, Accepted, Consumed, Written, TokensFor
  <1> QED BY <1>2, <1>3, <1>7, <1>9, <1>10, LocalKeeps

LEMMA MailWelcomeKeeps ==
    ASSUME AccountInv, NEW r \in Requests, MailWelcome(r)
    PROVE  AccountInv'
  <1> USE DEF AccountInv, MailWelcome
  <1>1. /\ pc'[r] = "commit" /\ arg'[r] = arg[r]
        /\ wuser'[r] = wuser[r] /\ wtok'[r] = wtok[r]
    BY DEF TypeOK, Step, memory, Args
  <1>2. OnlyMine(r)
    BY DEF TypeOK, Step, memory, OnlyMine
  <1>3. Locking(r)
    BY <1>1 DEF Locking
  <1>4. TypeOK'
    <2>1. Welcome(r) \in Task
      BY DEF Welcome, Task
    <2>2. pc' = [pc EXCEPT ![r] = "commit"]
      BY DEF Step
    <2> QED BY <2>1, <2>2 DEF TypeOK, memory
  <1>5. WritesFit(r)'
    BY <1>1, NoneAssumption DEF WritesFit
  <1>6. OnTrack(r)'
    BY <1>1 DEF OnTrack, Accepted, Consumed, Written, Ended
  <1> QED BY <1>2, <1>3, <1>4, <1>5, <1>6, LocalKeeps DEF memory

LEMMA StartLinkKeeps ==
    ASSUME AccountInv, NEW r \in Requests, StartLink(r)
    PROVE  AccountInv'
  <1> USE DEF AccountInv, StartLink, Begins
  <1>1. /\ pc'[r] = "revoke" /\ arg'[r] = arg[r]
        /\ wuser'[r] = wuser[r] /\ wtok'[r] = wtok[r]
    BY DEF TypeOK, Step, memory, Args
  <1>2. OnlyMine(r)
    BY DEF TypeOK, Step, memory, OnlyMine
  <1>3. Locking(r)
    BY <1>1 DEF Locking
  <1>4. TypeOK'
    BY <1>1 DEF TypeOK, Args, Step, memory, Ended
  <1>5. WritesFit(r)'
    BY <1>1, NoneAssumption DEF WritesFit
  <1>6. OnTrack(r)'
    BY <1>1 DEF OnTrack, Accepted, Consumed, Written, Ended
  <1> QED BY <1>2, <1>3, <1>4, <1>5, <1>6, LocalKeeps DEF memory

LEMMA StartChangeKeeps ==
    ASSUME AccountInv, NEW r \in Requests, NEW p \in Passwords, StartChange(r, p)
    PROVE  AccountInv'
  <1> USE DEF AccountInv, StartChange, Begins
  <1>1. /\ pc'[r] = "change" /\ arg'[r].password = p
        /\ wuser'[r] = wuser[r] /\ wtok'[r] = wtok[r]
    BY DEF TypeOK, Step, memory, Args
  <1>2. OnlyMine(r)
    BY DEF TypeOK, Step, memory, OnlyMine
  <1>3. Locking(r)
    BY <1>1 DEF Locking
  <1>4. TypeOK'
    BY <1>1 DEF TypeOK, Args, Step, memory, Ended
  <1>5. WritesFit(r)'
    BY <1>1, NoneAssumption DEF WritesFit
  <1>6. OnTrack(r)'
    BY <1>1 DEF OnTrack, Accepted, Consumed, Written, Ended
  <1> QED BY <1>2, <1>3, <1>4, <1>5, <1>6, LocalKeeps DEF memory

LEMMA StartCleanupKeeps ==
    ASSUME AccountInv, NEW r \in Requests, StartCleanup(r)
    PROVE  AccountInv'
  <1> USE DEF AccountInv, StartCleanup, Begins
  <1>1. /\ pc'[r] = "sweepVerify"
        /\ wuser'[r] = wuser[r] /\ wtok'[r] = wtok[r]
    BY DEF TypeOK, Step, memory, Args
  <1>2. OnlyMine(r)
    BY DEF TypeOK, Step, memory, OnlyMine
  <1>3. Locking(r)
    BY <1>1 DEF Locking
  <1>4. TypeOK'
    BY <1>1 DEF TypeOK, Args, Step, memory, Ended
  <1>5. WritesFit(r)'
    BY <1>1, NoneAssumption DEF WritesFit
  <1>6. OnTrack(r)'
    BY <1>1, NoneAssumption DEF OnTrack, NoWrites, Accepted, Consumed, Written, Ended
  <1> QED BY <1>2, <1>3, <1>4, <1>5, <1>6, LocalKeeps DEF memory

LEMMA AddressTakenKeeps ==
    ASSUME AccountInv, NEW r \in Requests, AddressTaken(r)
    PROVE  AccountInv'
  BY RollbackKeeps DEF AddressTaken

LEMMA LinkRefusedKeeps ==
    ASSUME AccountInv, NEW r \in Requests, NEW t \in Tokens, LinkRefused(r, t)
    PROVE  AccountInv'
  BY RollbackKeeps DEF LinkRefused

LEMMA ConsumeDeletedKeeps ==
    ASSUME AccountInv, NEW r \in Requests, ConsumeDeleted(r)
    PROVE  AccountInv'
  BY RollbackKeeps DEF ConsumeDeleted

LEMMA NoLinkKeeps ==
    ASSUME AccountInv, NEW r \in Requests, NoLink(r)
    PROVE  AccountInv'
  BY RollbackKeeps DEF NoLink

LEMMA AbortKeeps ==
    ASSUME AccountInv, NEW r \in Requests, Abort(r)
    PROVE  AccountInv'
  BY RollbackKeeps DEF Abort

LEMMA MailLinkKeeps ==
    ASSUME AccountInv, NEW r \in Requests, MailLink(r)
    PROVE  AccountInv'
  <1> USE DEF AccountInv, MailLink
  <1>1. UNCHANGED <<user, tokens, expired, spent>>
    OBVIOUS
  <1>2. mail' \subseteq Task
    <2>1. Link(arg[r].token) \in Task
      BY DEF OnTrack, Link, Task
    <2> QED BY <2>1 DEF TypeOK
  <1>3. CASE KindOf[r] = "register"
    <2>1. pc' = [pc EXCEPT ![r] = "commit"] /\ UNCHANGED <<arg, wuser, wtok>>
      BY <1>3 DEF Step, memory
    <2>2. pc'[r] = "commit"
      BY <2>1 DEF TypeOK
    <2>3. OnlyMine(r) /\ Locking(r)
      BY <2>1 DEF TypeOK, OnlyMine, Locking
    <2>4. TypeOK'
      BY <1>1, <1>2, <2>1 DEF TypeOK
    <2>5. WritesFit(r)'
      BY <1>1, <2>1 DEF WritesFit
    <2>6. OnTrack(r)'
      BY <1>1, <1>3, <2>1, <2>2 DEF OnTrack, Accepted, Consumed, Written
    <2> QED BY <1>1, <2>3, <2>4, <2>5, <2>6, LocalKeeps
  <1>4. CASE KindOf[r] # "register"
    <2>1. "done" \in Ended /\ Close(r, "done")
      BY <1>4 DEF Ended
    <2>2. TypeOK'
      BY <1>1, <1>2, <2>1, Ends DEF TypeOK
    <2> QED BY <1>1, <2>1, <2>2, Ends, LocalKeeps
  <1> QED BY <1>3, <1>4

------------------------------------------------------------------------------
\* A step of one request that changes committed rows, where it may.
LEMMA CommittedKeeps ==
    ASSUME AccountInv, NEW r \in Requests, OnlyMine(r), Locking(r), Committing(r),
           TypeOK', WritesFit(r)', OnTrack(r)',
           (TokensHaveUser /\ SpentIsUsed /\ VerifiedByLink)'
    PROVE  AccountInv'
  <1>1. \A q \in Requests \ {r} : (WritesFit(q) /\ OnTrack(q))'
    BY OthersKeep
  <1>2. LocksExclusive'
    BY LocksKeep
  <1> QED BY <1>1, <1>2 DEF AccountInv

\* The user row is rewritten in place, with the same verification.
LEMMA RewriteKeeps ==
    ASSUME AccountInv, NEW r \in Requests, UserFree(r), user # None, Close(r, "done"),
           user' \in User, user'.verified = user.verified,
           UNCHANGED <<tokens, expired, mail, spent>>
    PROVE  AccountInv'
  <1> USE DEF AccountInv
  <1>1. "done" \in Ended /\ user' # None
    BY UserAssumption DEF Ended
  <1>2. Committing(r)
    BY <1>1 DEF Committing
  <1>3. TypeOK'
    BY <1>1, Ends DEF TypeOK
  <1>4. (TokensHaveUser /\ SpentIsUsed /\ VerifiedByLink)'
    BY <1>1 DEF TokensHaveUser, SpentIsUsed, VerifiedByLink
  <1> QED BY <1>1, <1>2, <1>3, <1>4, Ends, CommittedKeeps

LEMMA ChangePasswordKeeps ==
    ASSUME AccountInv, NEW r \in Requests, ChangePassword(r)
    PROVE  AccountInv'
  <1>1. arg[r].password \in Passwords /\ user # None /\ user \in User
    BY DEF AccountInv, OnTrack, ChangePassword, TypeOK
  <1>2. user' \in User /\ user'.verified = user.verified
    BY <1>1 DEF ChangePassword, User
  <1> QED BY <1>1, <1>2, RewriteKeeps DEF ChangePassword

LEMMA SetStatusKeeps ==
    ASSUME AccountInv, NEW r \in Requests, NEW st \in UserStatus, SetStatus(r, st)
    PROVE  AccountInv'
  <1>1. user # None /\ user \in User
    BY DEF AccountInv, SetStatus, TypeOK
  <1>2. user' \in User /\ user'.verified = user.verified
    BY <1>1 DEF SetStatus, User
  <1> QED BY <1>1, <1>2, RewriteKeeps DEF SetStatus

\* Tokens that nobody else holds are written; the requests stay where they are.
LEMMA TokensKeep ==
    ASSUME AccountInv, NEW r \in Requests, OnlyMine(r), Locking(r), Committing(r),
           user # None, UNCHANGED <<user, spent>>, TypeOK', WritesFit(r)', OnTrack(r)',
           \A t \in Tokens : tokens[t] \in {"used", "deleted"} => tokens'[t] \in {"used", "deleted"}
    PROVE  AccountInv'
  <1>1. (TokensHaveUser /\ VerifiedByLink)'
    BY DEF AccountInv, TokensHaveUser, VerifiedByLink
  <1>2. SpentIsUsed'
    BY DEF AccountInv, SpentIsUsed, TypeOK
  <1> QED BY <1>1, <1>2, CommittedKeeps

LEMMA IssueKeeps ==
    ASSUME AccountInv, NEW r \in Requests, NEW t \in Tokens, Issue(r, t)
    PROVE  AccountInv'
  <1> USE DEF AccountInv, Issue, Fresh
  <1>1. \A u \in Tokens : tokens'[u] = IF u = t THEN "unused" ELSE tokens[u]
    BY DEF TypeOK
  <1>2. pc'[r] = "mail" /\ arg'[r].token = t /\ UNCHANGED <<user, wuser, wtok, spent>>
    BY DEF TypeOK, Step, Args
  <1>3. OnlyMine(r)
    BY DEF TypeOK, Step, OnlyMine
  <1>4. Locking(r) /\ Committing(r)
    BY <1>1, <1>2 DEF Locking, Committing, TokenFree
  <1>5. TypeOK'
    <2>1. arg' \in [Requests -> Args]
      BY DEF TypeOK, Args
    <2>2. pc' = [pc EXCEPT ![r] = "mail"]
      BY DEF Step
    <2> QED BY <1>2, <2>1, <2>2 DEF TypeOK
  <1>6. WritesFit(r)'
    BY <1>1, <1>2, NoneAssumption DEF WritesFit
  <1>7. KindOf[r] # "register"
    BY DEF OnTrack
  <1>8. OnTrack(r)'
    BY <1>2, <1>7 DEF OnTrack, Accepted, Consumed, Written
  <1>9. user # None
    BY DEF OnTrack
  <1> QED BY <1>1, <1>2, <1>3, <1>4, <1>5, <1>6, <1>8, <1>9, TokensKeep

LEMMA RevokeBeginsKeeps ==
    ASSUME AccountInv, NEW r \in Requests, RevokeBegins(r)
    PROVE  AccountInv'
  <1> USE DEF AccountInv, RevokeBegins
  <1>1. /\ pc'[r] = "revoking" /\ arg'[r].token = arg[r].token
        /\ wuser'[r] = wuser[r] /\ wtok'[r] = wtok[r]
    BY DEF TypeOK, Step, Args
  <1>2. OnlyMine(r)
    BY DEF TypeOK, Step, OnlyMine
  <1>3. Locking(r)
    BY <1>1 DEF Locking
  <1>4. TypeOK'
    <2>1. Unused(r) \subseteq Tokens
      BY DEF Unused, TokensFor, Tokens
    <2>2. arg' \in [Requests -> Args]
      BY <2>1 DEF TypeOK, Args
    <2>3. pc' = [pc EXCEPT ![r] = "revoking"]
      BY DEF Step
    <2> QED BY <2>2, <2>3 DEF TypeOK
  <1>5. WritesFit(r)'
    BY <1>1, NoneAssumption DEF WritesFit
  <1>6. OnTrack(r)'
    BY <1>1 DEF OnTrack, Accepted, Consumed, Written, TokensFor
  <1> QED BY <1>2, <1>3, <1>4, <1>5, <1>6, LocalKeeps

LEMMA VisitsAreTokens ==
    ASSUME AccountInv, NEW r \in Requests
    PROVE  Visits(r) \subseteq arg[r].old /\ Visits(r) \subseteq Tokens
  BY DEF AccountInv, TypeOK, Args, Visits, Tokens

\* One more row of an UPDATE or DELETE: it is free, and written as the place says.
LEMMA VisitRowKeeps ==
    ASSUME AccountInv, NEW r \in Requests, NEW t \in Tokens, VisitRow(r, t)
    PROVE  AccountInv'
  <1> USE DEF AccountInv, VisitRow
  <1> DEFINE mark == IF pc[r] = "revoking" THEN "used" ELSE "deleted"
  <1>1. /\ pc[r] \in {"revoking", "sweepVerify", "sweepReset"}
        /\ UNCHANGED <<user, tokens, expired, mail, spent, pc, wuser>>
        /\ arg'[r].token = arg[r].token /\ arg'[r].password = arg[r].password
    BY DEF Visits, TypeOK, Args
  <1>2. OnlyMine(r)
    BY DEF TypeOK, OnlyMine
  <1>3. \A u \in Tokens : wtok'[r][u] = IF u = t /\ tokens[t] \in {"unused", "used"}
                                        THEN mark ELSE wtok[r][u]
    BY DEF TypeOK
  <1>4. Locking(r)
    BY <1>1, <1>3 DEF Locking
  <1>5. TypeOK'
    <2>1. arg' \in [Requests -> Args]
      BY DEF TypeOK, Args
    <2>2. wtok' \in [Requests -> [Tokens -> {"unused", "used", "deleted", None}]]
      BY DEF TypeOK
    <2> QED BY <1>1, <2>1, <2>2 DEF TypeOK
  <1>6. WritesFit(r)'
    BY <1>1, <1>3 DEF WritesFit
  <1>7. OnTrack(r)'
    <2>1. Accepted(r) => arg[r].token \in Tokens /\ mark = "used"
      BY <1>1, AcceptedHasUser DEF Accepted
    <2>2. Consumed(r) => wtok'[r][arg[r].token] = "used"
      BY <1>1, <1>3, <2>1 DEF OnTrack, Consumed
    <2>3. \A u \in Tokens : wtok'[r][u] = "deleted" <=>
              wtok'[r][u] # None /\ pc[r] \in {"sweepVerify", "sweepReset"}
      BY <1>1, <1>3, NoneAssumption DEF OnTrack
    <2> QED BY <1>1, <2>2, <2>3 DEF OnTrack, Accepted, Consumed, Written, TokensFor
  <1> QED BY <1>1, <1>2, <1>4, <1>5, <1>6, <1>7, LocalKeeps

\* What r has written becomes the committed rows.
LEMMA MergedWrites ==
    ASSUME AccountInv, NEW r \in Requests, tokens' = Merged(r)
    PROVE  /\ tokens' \in [Tokens -> {"absent", "unused", "used", "deleted"}]
           /\ \A t \in Tokens : tokens'[t] = IF wtok[r][t] = None THEN tokens[t] ELSE wtok[r][t]
           /\ \A t \in Tokens : wtok[r][t] = "unused" => tokens[t] = "absent"
           /\ \A t \in Tokens : wtok[r][t] \in {"used", "deleted"} =>
                 tokens[t] \in {"unused", "used"}
           /\ \A t \in Tokens : wtok[r][t] # None =>
                 wtok[r][t] \in {"unused", "used", "deleted"} /\ TokenFree(r, t)
  <1> USE DEF AccountInv, Merged
  <1>1. \A t \in Tokens : wtok[r][t] \in {"unused", "used", "deleted", None}
    BY DEF TypeOK
  <1>2. tokens' \in [Tokens -> {"absent", "unused", "used", "deleted"}]
    BY <1>1 DEF TypeOK
  <1>3. \A t \in Tokens : wtok[r][t] # None => TokenFree(r, t)
    BY DEF LocksExclusive, TokenFree
  <1>4. WritesFit(r)
    OBVIOUS
  <1> QED BY <1>1, <1>2, <1>3, <1>4 DEF WritesFit

\* A statement on many rows that is a transaction of its own commits.
LEMMA StatementCommits ==
    ASSUME AccountInv, NEW r \in Requests, tokens' = Merged(r), UNCHANGED <<user, spent>>,
           pc[r] \in {"sweepVerify", "sweepReset"} \/ user # None,
           OnlyMine(r), Locking(r), TypeOK', WritesFit(r)', OnTrack(r)'
    PROVE  AccountInv'
  <1>1. Committing(r)
    BY MergedWrites DEF Committing
  <1>2. \A t \in Tokens : tokens[t] \in {"used", "deleted"} => tokens'[t] \in {"used", "deleted"}
    BY MergedWrites
  <1>3. CASE user # None
    BY <1>1, <1>2, <1>3, TokensKeep
  <1>4. CASE user = None
    <2>1. \A t \in Tokens : tokens[t] = "absent"
      BY <1>4 DEF AccountInv, TokensHaveUser
    <2>2. \A t \in Tokens : wtok[r][t] # None => wtok[r][t] = "deleted"
      BY <1>4 DEF AccountInv, OnTrack
    <2>3. \A t \in Tokens : tokens'[t] = tokens[t]
      BY <2>1, <2>2, MergedWrites
    <2>4. tokens' = tokens
      BY <2>3, MergedWrites DEF AccountInv, TypeOK
    <2> QED BY <2>4, LocalKeeps
  <1> QED BY <1>3, <1>4

LEMMA SweepEndsKeeps ==
    ASSUME AccountInv, NEW r \in Requests, SweepEnds(r)
    PROVE  AccountInv'
  <1> USE DEF AccountInv, SweepEnds
  <1>1. /\ UNCHANGED <<user, expired, mail, spent>> /\ tokens' = Merged(r)
        /\ pc[r] \in {"sweepVerify", "sweepReset"}
    OBVIOUS
  <1>2. tokens' \in [Tokens -> {"absent", "unused", "used", "deleted"}]
    BY <1>1, MergedWrites
  <1>3. OnlyMine(r) /\ Locking(r) /\ TypeOK' /\ OnTrack(r)' /\ WritesFit(r)'
    <2>1. CASE pc[r] = "sweepVerify"
      <3>1. /\ pc' = [pc EXCEPT ![r] = "sweepReset"] /\ UNCHANGED <<arg, wuser>>
            /\ wtok' = [wtok EXCEPT ![r] = NoWrites]
        BY <2>1 DEF Step
      <3>2. pc'[r] = "sweepReset" /\ \A t \in Tokens : wtok'[r][t] = None
        BY <3>1 DEF TypeOK, NoWrites
      <3>3. OnlyMine(r) /\ Locking(r)
        BY <3>1, <3>2 DEF OnlyMine, Locking, TypeOK
      <3>4. TypeOK'
        <4>1. wtok' \in [Requests -> [Tokens -> {"unused", "used", "deleted", None}]]
          BY <3>1 DEF TypeOK, NoWrites
        <4> QED BY <1>1, <1>2, <3>1, <4>1 DEF TypeOK
      <3>5. OnTrack(r)'
        BY <2>1, <3>1, <3>2, NoneAssumption DEF OnTrack, Accepted, Consumed, Written
      <3>6. wuser[r] # None => WritesFit(r)'
        BY <1>1, <3>1, <3>2, NoneAssumption DEF WritesFit
      <3>7. wuser[r] = None => WritesFit(r)'
        BY <3>1, <3>2, NoneAssumption DEF WritesFit
      <3> QED BY <3>3, <3>4, <3>5, <3>6, <3>7
    <2>2. CASE pc[r] # "sweepVerify"
      <3>1. "done" \in Ended /\ Close(r, "done")
        BY <2>2 DEF Ended
      <3>2. TypeOK'
        BY <1>1, <1>2, <3>1, Ends DEF TypeOK
      <3> QED BY <3>1, <3>2, Ends
    <2> QED BY <2>1, <2>2
  <1> QED BY <1>1, <1>3, StatementCommits

LEMMA RevokeEndsKeeps ==
    ASSUME AccountInv, NEW r \in Requests, RevokeEnds(r)
    PROVE  AccountInv'
  <1> USE DEF AccountInv, RevokeEnds
  <1>1. pc[r] = "revoking" /\ user # None /\ UNCHANGED <<user, expired, mail, spent, arg, wuser>>
    BY DEF OnTrack
  <1>2. CASE KindOf[r] = "reset"
    <2>1. pc' = [pc EXCEPT ![r] = "commit"] /\ pc'[r] = "commit" /\ UNCHANGED <<tokens, wtok>>
      BY <1>2 DEF Step, TypeOK
    <2>2. OnlyMine(r) /\ Locking(r) /\ TypeOK'
      BY <1>1, <2>1 DEF OnlyMine, Locking, TypeOK
    <2>3. WritesFit(r)'
      BY <1>1, <2>1 DEF WritesFit
    <2>4. OnTrack(r)'
      BY <1>1, <1>2, <2>1 DEF OnTrack, Accepted, Consumed, Written, TokensFor
    <2> QED BY <1>1, <2>1, <2>2, <2>3, <2>4, LocalKeeps
  <1>3. CASE KindOf[r] # "reset"
    <2>1. /\ pc' = [pc EXCEPT ![r] = "issue"] /\ tokens' = Merged(r)
          /\ wtok' = [wtok EXCEPT ![r] = NoWrites]
      BY <1>3 DEF Step
    <2>2. pc'[r] = "issue" /\ \A t \in Tokens : wtok'[r][t] = None
      BY <2>1 DEF TypeOK, NoWrites
    <2>3. OnlyMine(r) /\ Locking(r)
      BY <1>1, <2>1, <2>2 DEF OnlyMine, Locking, TypeOK
    <2>4. TypeOK'
      <3>1. wtok' \in [Requests -> [Tokens -> {"unused", "used", "deleted", None}]]
        BY <2>1 DEF TypeOK, NoWrites
      <3> QED BY <1>1, <2>1, <3>1, MergedWrites DEF TypeOK
    <2>5. WritesFit(r)'
      BY <1>1, <2>2, NoneAssumption DEF WritesFit
    <2>6. OnTrack(r)'
      BY <1>1, <1>3, <2>2, NoneAssumption DEF OnTrack, Accepted, Consumed, Written
    <2> QED BY <1>1, <2>1, <2>3, <2>4, <2>5, <2>6, StatementCommits
  <1> QED BY <1>2, <1>3

\* What a transaction that commits has written.
LEMMA CommitWrites ==
    ASSUME AccountInv, NEW r \in Requests, Commit(r)
    PROVE  /\ user' = wuser[r] /\ user' \in User /\ UserFree(r)
           /\ tokens' \in [Tokens -> {"absent", "unused", "used", "deleted"}]
           /\ \A t \in Tokens : tokens'[t] = IF wtok[r][t] = None THEN tokens[t] ELSE wtok[r][t]
           /\ \A t \in Tokens : wtok[r][t] = "unused" => tokens[t] = "absent"
           /\ \A t \in Tokens : wtok[r][t] = "used" => tokens[t] \in {"unused", "used"}
           /\ \A t \in Tokens : wtok[r][t] # None =>
                 wtok[r][t] \in {"unused", "used"} /\ TokenFree(r, t)
           /\ KindOf[r] # "register" => /\ KindOf[r] \in {"verify", "reset"}
                                        /\ arg[r].token \in TokensFor(r)
                                        /\ arg[r].token \in Tokens
                                        /\ wtok[r][arg[r].token] = "used"
  <1> USE DEF AccountInv, Commit
  <1>1. user' = wuser[r] /\ wuser[r] # None
    BY DEF OnTrack, Written
  <1>2. wuser[r] \in User
    BY <1>1 DEF TypeOK
  <1>3. UserFree(r)
    BY <1>1 DEF LocksExclusive, UserFree
  <1>4. tokens' = Merged(r) /\ pc[r] = "commit"
    OBVIOUS
  <1>5. \A t \in Tokens : wtok[r][t] # "deleted"
    BY <1>4, NoneAssumption DEF OnTrack
  <1>6. KindOf[r] # "register" => /\ KindOf[r] \in {"verify", "reset"}
                                  /\ arg[r].token \in TokensFor(r)
                                  /\ wtok[r][arg[r].token] = "used"
    BY <1>4 DEF OnTrack, Accepted, Consumed
  <1>7. TokensFor(r) \subseteq Tokens
    BY DEF TokensFor, Tokens
  <1> QED BY <1>1, <1>2, <1>3, <1>4, <1>5, <1>6, <1>7, MergedWrites

LEMMA CommitKeeps ==
    ASSUME AccountInv, NEW r \in Requests, Commit(r)
    PROVE  AccountInv'
  <1>1. "done" \in Ended /\ Close(r, "done") /\ UNCHANGED <<expired, mail>>
    BY DEF Commit, Ended
  <1>2. OnlyMine(r) /\ Locking(r) /\ WritesFit(r)' /\ OnTrack(r)'
    BY <1>1, Ends
  <1>3. user' \in User /\ user' # None /\ user' = wuser[r] /\ UserFree(r)
    BY CommitWrites, UserAssumption
  <1>4. Committing(r)
    BY <1>3, CommitWrites DEF Committing
  <1>5. spent' = IF KindOf[r] = "register" THEN spent ELSE spent \cup {<<r, arg[r].token>>}
    BY DEF Commit
  <1>6. TypeOK'
    <2>1. spent' \subseteq Requests \X Tokens
      BY <1>5, CommitWrites DEF AccountInv, TypeOK
    <2>2. tokens' \in [Tokens -> {"absent", "unused", "used", "deleted"}]
      BY CommitWrites
    <2> QED BY <1>1, <1>3, <2>1, <2>2, Ends DEF AccountInv, TypeOK
  <1>7. TokensHaveUser'
    BY <1>3 DEF TokensHaveUser
  <1>8. SpentIsUsed'
    <2>1. ASSUME NEW t \in Tokens, tokens[t] \in {"used", "deleted"}
          PROVE  tokens'[t] \in {"used", "deleted"}
      BY <2>1, CommitWrites
    <2>2. \A s \in spent : s[2] \in Tokens /\ tokens[s[2]] \in {"used", "deleted"}
      BY DEF AccountInv, SpentIsUsed, TypeOK
    <2>3. KindOf[r] # "register" => tokens'[arg[r].token] = "used"
      BY CommitWrites, NoneAssumption
    <2> QED BY <1>5, <2>1, <2>2, <2>3 DEF SpentIsUsed
  <1>9. VerifiedByLink'
    <2>1. CASE KindOf[r] = "verify"
      <3>1. <<r, arg[r].token>> \in spent' /\ arg[r].token \in VerifyTokens
        BY <1>5, <2>1, CommitWrites DEF TokensFor
      <3> QED BY <2>1, <3>1 DEF VerifiedByLink
    <2>2. CASE KindOf[r] # "verify"
      <3>1. user'.verified => user # None /\ user.verified
        BY <1>3, <2>2 DEF AccountInv, WritesFit
      <3>2. spent \subseteq spent'
        BY <1>5
      <3> QED BY <3>1, <3>2 DEF AccountInv, VerifiedByLink
    <2> QED BY <2>1, <2>2
  <1> QED BY <1>2, <1>4, <1>6, <1>7, <1>8, <1>9, CommittedKeeps

------------------------------------------------------------------------------
LEMMA AccountInit == Init => AccountInv
  <1> SUFFICES ASSUME Init PROVE AccountInv
    OBVIOUS
  <1> USE DEF Init
  <1>1. TypeOK
    <2>1. NoArg \in Args /\ NoWrites \in [Tokens -> {"unused", "used", "deleted", None}]
      BY DEF NoArg, Args, NoWrites
    <2> QED BY <2>1 DEF TypeOK, Task
  <1>2. LocksExclusive
    BY DEF LocksExclusive, NoWrites
  <1>3. \A r \in Requests : WritesFit(r)
    BY NoneAssumption DEF WritesFit, NoWrites
  <1>4. \A r \in Requests : OnTrack(r)
    BY NoneAssumption DEF NoWrites, OnTrack, Accepted, Consumed, Written
  <1>5. TokensHaveUser /\ SpentIsUsed /\ VerifiedByLink
    BY DEF TokensHaveUser, SpentIsUsed, VerifiedByLink
  <1> QED BY <1>1, <1>2, <1>3, <1>4, <1>5 DEF AccountInv

\* Time and idleness change nothing the invariant speaks of.
LEMMA UnchangedKeeps ==
    ASSUME AccountInv, UNCHANGED <<user, tokens, mail, spent, pc, memory>>,
           expired' \subseteq Tokens
    PROVE  AccountInv'
  BY DEF AccountInv, memory, TypeOK, LocksExclusive, WritesFit, OnTrack, Accepted,
         Consumed, Written, TokensHaveUser, SpentIsUsed, VerifiedByLink

LEMMA AccountNext == AccountInv /\ [Next]_vars => AccountInv'
  <1> SUFFICES ASSUME AccountInv, [Next]_vars PROVE AccountInv'
    OBVIOUS
  <1>1. ASSUME NEW r \in Requests, Start(r) PROVE AccountInv'
    BY <1>1, StartRegisterKeeps, StartChangeKeeps, StartVerifyKeeps, StartResetKeeps,
       LinkRefusedKeeps, StartLinkKeeps, NoLinkKeeps, StartCleanupKeeps, SetStatusKeeps
       DEF Start
  <1>2. ASSUME NEW r \in Requests, Serve(r) PROVE AccountInv'
    BY <1>2, InsertUserKeeps, IssueKeeps, AddressTakenKeeps, MailLinkKeeps,
       SetPasswordKeeps, ConsumeKeeps, ConsumeDeletedKeeps, ActivateKeeps,
       MailWelcomeKeeps, CommitKeeps, RevokeBeginsKeeps, VisitRowKeeps, RevokeEndsKeeps,
       ChangePasswordKeeps, SweepEndsKeeps
       DEF Serve
  <1>3. ASSUME NEW r \in Requests, Abort(r) PROVE AccountInv'
    BY <1>3, AbortKeeps
  <1>4. ASSUME NEW t \in Tokens, Expire(t) PROVE AccountInv'
    <2>1. expired' \subseteq Tokens
      BY <1>4 DEF Expire, AccountInv, TypeOK
    <2> QED BY <1>4, <2>1, UnchangedKeeps DEF Expire
  <1>5. CASE UNCHANGED vars
    <2>1. expired' \subseteq Tokens
      BY <1>5 DEF vars, AccountInv, TypeOK
    <2> QED BY <1>5, <2>1, UnchangedKeeps DEF vars
  <1> QED BY <1>1, <1>2, <1>3, <1>4, <1>5 DEF Next, Quiet

\* The inductive invariant of the account, for any requests, tokens and passwords.
THEOREM AccountInvariant == Spec => []AccountInv
  BY AccountInit, AccountNext, PTL DEF Spec

\* Every row, argument and pending write keeps its type.
THEOREM AccountTypeCorrect == Spec => []TypeOK
  BY AccountInvariant, PTL DEF AccountInv

\* verify_email and reset_password commit with their token consumed.
THEOREM AccountSpentIsUsed == Spec => []SpentIsUsed
  BY AccountInvariant, PTL DEF AccountInv

\* Only a verification link carried through to its commit verifies an address.
THEOREM AccountVerifiedByLink == Spec => []VerifiedByLink
  BY AccountInvariant, PTL DEF AccountInv

\* The steps that leave the user row and the tokens alone.
LEMMA QuietSteps ==
    ASSUME AccountInv, [Next]_vars,
           ~\E r \in Requests : \/ Commit(r) \/ RevokeEnds(r) \/ ChangePassword(r)
                                \/ SweepEnds(r) \/ \E t \in Tokens : Issue(r, t)
                                \/ \E st \in UserStatus : SetStatus(r, st)
    PROVE  UNCHANGED <<user, tokens>>
  <1>1. ASSUME NEW r \in Requests, Start(r) PROVE UNCHANGED <<user, tokens>>
    BY <1>1 DEF Start, StartRegister, StartChange, StartVerify, StartReset, LinkRefused,
                StartLink, NoLink, StartCleanup, Rollback
  <1>2. ASSUME NEW r \in Requests, Serve(r) PROVE UNCHANGED <<user, tokens>>
    BY <1>2 DEF Serve, InsertUser, AddressTaken, MailLink, SetPassword, Consume,
                ConsumeDeleted, Activate, MailWelcome, RevokeBegins, VisitRow, Rollback
  <1>3. CASE UNCHANGED vars
    BY <1>3 DEF vars
  <1> QED BY <1>1, <1>2, <1>3 DEF Next, Abort, Rollback, Expire, Quiet, vars

\* unused, used, deleted: no step takes a token row back.
LEMMA StepsAge ==
    ASSUME AccountInv, [Next]_vars
    PROVE  \A t \in Tokens : Age(t) <= Age(t)'
  <1> USE DEF Age
  <1>1. ASSUME NEW r \in Requests, tokens' = Merged(r) PROVE \A t \in Tokens : Age(t) <= Age(t)'
    BY <1>1, MergedWrites, NoneAssumption
  <1>4. ASSUME NEW r \in Requests, NEW u \in Tokens, Issue(r, u)
        PROVE  \A t \in Tokens : Age(t) <= Age(t)'
    BY <1>4 DEF Issue, Fresh, AccountInv, TypeOK
  <1>5. CASE tokens' = tokens
    BY <1>5
  <1> QED BY <1>1, <1>4, <1>5, QuietSteps DEF Commit, RevokeEnds, SweepEnds, ChangePassword, SetStatus

\* No consume, revocation or cleanup brings a token back.
THEOREM AccountTokensOnlyAge == Spec => TokensOnlyAge
  <1>1. AccountInv /\ [Next]_vars => [\A t \in Tokens : Age(t) <= Age(t)']_tokens
    BY StepsAge
  <1> QED BY <1>1, AccountInvariant, PTL DEF Spec, TokensOnlyAge

LEMMA PasswordSteps ==
    ASSUME AccountInv, [Next]_vars, user # None, user'.password # user.password
    PROVE  \E r \in Requests : \/ pc[r] = "change" /\ pc'[r] = "done"
                               \/ /\ pc[r] = "commit" /\ KindOf[r] = "reset"
                                  /\ tokens'[arg[r].token] = "used"
  <1>1. ASSUME NEW r \in Requests, Commit(r)
        PROVE  /\ pc[r] = "commit" /\ KindOf[r] = "reset"
               /\ tokens'[arg[r].token] = "used"
    <2>1. WritesFit(r) /\ wuser[r] # None
      BY <1>1, CommitWrites, UserAssumption DEF AccountInv
    <2>2. KindOf[r] # "register" /\ KindOf[r] # "verify"
      BY <1>1, <2>1, CommitWrites DEF WritesFit
    <2> QED BY <1>1, <2>2, CommitWrites, NoneAssumption DEF Commit
  <1>2. ASSUME NEW r \in Requests, ChangePassword(r)
        PROVE  pc[r] = "change" /\ pc'[r] = "done"
    BY <1>2 DEF ChangePassword, Close, Step, AccountInv, TypeOK
  <1>3. ASSUME NEW r \in Requests, NEW st \in UserStatus, SetStatus(r, st) PROVE FALSE
    <2>1. user \in User
      BY DEF AccountInv, TypeOK
    <2> QED BY <1>3, <2>1 DEF SetStatus, User
  <1>4. ASSUME NEW r \in Requests, RevokeEnds(r) \/ SweepEnds(r) \/ \E t \in Tokens : Issue(r, t)
        PROVE  FALSE
    BY <1>4 DEF RevokeEnds, SweepEnds, Issue
  <1> QED BY <1>1, <1>2, <1>3, <1>4, QuietSteps

\* A password changes by its holder or with a consumed reset link only.
THEOREM AccountPasswordByHolder == Spec => PasswordByHolder
  <1>1. AccountInv /\ [Next]_vars =>
          [user # None /\ user'.password # user.password =>
              \E r \in Requests :
                  \/ pc[r] = "change" /\ pc'[r] = "done"
                  \/ /\ pc[r] = "commit" /\ KindOf[r] = "reset"
                     /\ tokens'[arg[r].token] = "used"]_user
    BY PasswordSteps
  <1> QED BY <1>1, AccountInvariant, PTL DEF Spec, PasswordByHolder
------------------------------------------------------------------------------
(* One request at a time (MaxInFlight = 1): what a request read at its      *)
(* start still stands at its end.                                           *)

\* While r is served nobody else is.
LEMMA NobodyElse ==
    ASSUME SerialInv, NEW r \in Requests, Open(r), NEW q \in Requests \ {r}
    PROVE  ~Open(q)
  BY DEF SerialInv, OneAtATime

\* A request begins when nobody is served; that nobody is follows from the count
\* because at most one is.
LEMMA BeginsAlone ==
    ASSUME MaxInFlight = 1, SerialInv, NEW r \in Requests, NEW kind, Begins(r, kind),
           NEW q \in Requests
    PROVE  ~Open(q)
  <1> DEFINE open == {p \in Requests : Open(p)}
  <1>1. SUFFICES ASSUME Open(q) PROVE FALSE
    OBVIOUS
  <1>2. open = {q}
    BY <1>1 DEF SerialInv, OneAtATime
  <1>3. Cardinality(open) = 1
    BY <1>2, FS_Singleton
  <1> QED BY <1>3 DEF Begins

\* Whoever takes a step is alone.
LEMMA Alone ==
    ASSUME MaxInFlight = 1, AccountInv, SerialInv, NEW r \in Requests,
           Start(r) \/ Serve(r) \/ Abort(r), NEW q \in Requests \ {r}
    PROVE  ~Open(q)
  <1>1. CASE Open(r)
    BY <1>1, NobodyElse
  <1>2. CASE ~Open(r) /\ Start(r)
    <2>1. PICK kind \in Kinds : Begins(r, kind)
      BY <1>2 DEF Start, StartRegister, StartChange, StartVerify, StartReset, LinkRefused,
                  StartLink, NoLink, StartCleanup, SetStatus, Kinds
    <2> QED BY <2>1, BeginsAlone
  <1>3. CASE ~Open(r) /\ (Serve(r) \/ Abort(r))
    BY <1>3 DEF Open, Ended, Serve, Abort, InsertUser, Issue, AddressTaken, MailLink,
                SetPassword, Consume, ConsumeDeleted, Activate, MailWelcome, Commit,
                RevokeBegins, VisitRow, Visits, RevokeEnds, ChangePassword, SweepEnds
  <1> QED BY <1>1, <1>2, <1>3

\* A step of the request that is alone: the others have nothing in their hands.
LEMMA SerialKeeps ==
    ASSUME SerialInv, NEW r \in Requests, OnlyMine(r),
           \A q \in Requests \ {r} : ~Open(q),
           StillStands(r)', (OneUnused /\ SingleUse /\ VerifiedNeedsNoLink)'
    PROVE  SerialInv'
  <1>1. ASSUME NEW q \in Requests \ {r}
        PROVE  ~Open(q)' /\ StillStands(q)'
    <2>1. pc'[q] = pc[q] /\ arg'[q] = arg[q] /\ wuser'[q] = wuser[q] /\ wtok'[q] = wtok[q]
      BY DEF OnlyMine
    <2>2. /\ pc[q] \in {"idle"} \cup Ended /\ wuser[q] = None
          /\ wtok[q] = [t \in Tokens |-> None]
      BY DEF SerialInv, StillStands, Open, Ended, NoWrites
    <2> QED BY <2>1, <2>2, NoneAssumption DEF StillStands, Open, Ended, Accepted, NoWrites
  <1>2. OneAtATime'
    BY <1>1 DEF OneAtATime
  <1>3. \A q \in Requests : StillStands(q)'
    BY <1>1
  <1> QED BY <1>2, <1>3 DEF SerialInv

\* A step that leaves the committed rows alone.
LEMMA SerialLocal ==
    ASSUME SerialInv, NEW r \in Requests, OnlyMine(r),
           \A q \in Requests \ {r} : ~Open(q),
           UNCHANGED <<user, tokens, spent>>, StillStands(r)'
    PROVE  SerialInv'
  <1>1. (OneUnused /\ SingleUse /\ VerifiedNeedsNoLink)'
    BY DEF SerialInv, OneUnused, SingleUse, VerifiedNeedsNoLink
  <1> QED BY <1>1, SerialKeeps

\* A request that ends has nothing in its hands.
LEMMA EndsStands ==
    ASSUME AccountInv, NEW r \in Requests, NEW outcome \in Ended, Close(r, outcome)
    PROVE  OnlyMine(r) /\ StillStands(r)'
  <1>1. pc'[r] = outcome /\ wuser'[r] = None /\ wtok'[r] = [t \in Tokens |-> None]
    BY DEF AccountInv, TypeOK, Close, Step, NoWrites
  <1> QED BY <1>1, Ends, NoneAssumption
          DEF StillStands, Open, Ended, Accepted, NoWrites

LEMMA SerialRollback ==
    ASSUME AccountInv, SerialInv, NEW r \in Requests, Rollback(r),
           \A q \in Requests \ {r} : ~Open(q)
    PROVE  SerialInv'
  <1>1. "failed" \in Ended /\ Close(r, "failed") /\ UNCHANGED <<user, tokens, spent>>
    BY DEF Rollback, Ended
  <1> QED BY <1>1, EndsStands, SerialLocal

\* A request that begins, or goes on, without a write.
LEMMA SerialStart ==
    ASSUME MaxInFlight = 1, AccountInv, SerialInv, NEW r \in Requests, Start(r)
    PROVE  SerialInv'
  <1>1. \A q \in Requests \ {r} : ~Open(q)
    BY Alone
  <1>2. CASE \E t \in Tokens : LinkRefused(r, t)
    BY <1>1, <1>2, SerialRollback DEF LinkRefused
  <1>3. CASE NoLink(r)
    BY <1>1, <1>3, SerialRollback DEF NoLink
  <1>4. ASSUME NEW st \in UserStatus, SetStatus(r, st)
        PROVE  SerialInv'
    <2>1. "done" \in Ended /\ Close(r, "done") /\ UNCHANGED <<tokens, spent>>
      BY <1>4 DEF SetStatus, Ended
    <2>2. user \in User /\ user' = [user EXCEPT !.status = st]
      BY <1>4 DEF SetStatus, AccountInv, TypeOK
    <2>3. user' # None => user # None /\ user'.verified = user.verified
      BY <1>4, <2>2 DEF User, SetStatus
    <2>4. (OneUnused /\ SingleUse /\ VerifiedNeedsNoLink)'
      BY <2>1, <2>3 DEF SerialInv, OneUnused, SingleUse, VerifiedNeedsNoLink
    <2> QED BY <1>1, <2>1, <2>4, EndsStands, SerialKeeps
  <1> DEFINE Other == \/ \E p \in Passwords : StartRegister(r, p) \/ StartChange(r, p)
                      \/ \E t \in Tokens : \/ StartVerify(r, t)
                                           \/ \E p \in Passwords : StartReset(r, t, p)
                      \/ StartLink(r) \/ StartCleanup(r)
  <1>5. CASE Other
    <2>1. /\ pc[r] = "idle" /\ UNCHANGED <<user, tokens, spent, wuser, wtok>>
          /\ OnlyMine(r)
      BY <1>5 DEF StartRegister, StartChange, StartVerify, StartReset, StartLink,
                  StartCleanup, Begins, Step, OnlyMine, memory, AccountInv, TypeOK
    <2>2. wuser'[r] = None /\ wtok'[r] = NoWrites
      BY <2>1 DEF SerialInv, StillStands, Open
    <2>3. ASSUME pc'[r] \in {"insert", "change", "sweepVerify"},
                 pc'[r] = "change" => user'.verified
          PROVE  StillStands(r)'
      BY <2>2, <2>3, NoneAssumption DEF StillStands, Open, Accepted, NoWrites
    <2>4. ASSUME NEW t \in Tokens, StartVerify(r, t) \/ \E p \in Passwords : StartReset(r, t, p)
          PROVE  StillStands(r)'
      <3>1. pc'[r] \in {"consume", "password"} /\ arg'[r].token = t /\ tokens'[t] = "unused"
        BY <2>4 DEF StartVerify, StartReset, Step, IsValid, AccountInv, TypeOK, Args
      <3> QED BY <2>2, <3>1, NoneAssumption DEF StillStands, Open, Accepted, NoWrites
    <2>5. ASSUME StartLink(r)
          PROVE  StillStands(r)'
      <3>1. /\ pc'[r] = "revoke" /\ KindOf[r] \in {"resend", "forgot"}
            /\ user'.verified <=> KindOf[r] = "forgot"
        BY <2>5 DEF StartLink, Begins, Step, AccountInv, TypeOK
      <3> QED BY <2>2, <3>1, NoneAssumption DEF StillStands, Open, Accepted, NoWrites
    <2>6. ASSUME \/ \E p \in Passwords : StartRegister(r, p) \/ StartChange(r, p)
                 \/ StartCleanup(r)
          PROVE  StillStands(r)'
      <3>1. /\ pc'[r] \in {"insert", "change", "sweepVerify"}
            /\ pc'[r] = "change" => user'.verified
        BY <2>6 DEF StartRegister, StartChange, StartCleanup, Step, AccountInv, TypeOK
      <3> QED BY <2>3, <3>1
    <2>7. StillStands(r)'
      BY <1>5, <2>4, <2>5, <2>6
    <2> QED BY <1>1, <2>1, <2>7, SerialLocal
  <1> QED BY <1>2, <1>3, <1>4, <1>5 DEF Start
\* The steps of a transaction before its commit, and the mails.
LEMMA SerialWrites ==
    ASSUME MaxInFlight = 1, AccountInv, SerialInv, NEW r \in Requests,
           \A q \in Requests \ {r} : ~Open(q),
           \/ \E t \in Tokens : InsertUser(r, t)
           \/ AddressTaken(r) \/ ConsumeDeleted(r) \/ MailLink(r) \/ SetPassword(r)
           \/ Consume(r) \/ Activate(r) \/ MailWelcome(r)
    PROVE  SerialInv'
  <1> USE DEF AccountInv
  <1>1. StillStands(r) /\ OnTrack(r) /\ TypeOK
    BY DEF SerialInv
  <1>2. ASSUME NEW t \in Tokens, InsertUser(r, t)
        PROVE  SerialInv'
    <2> DEFINE row == [verified |-> FALSE, status |-> "pending", password |-> arg[r].password]
    <2>1. /\ pc[r] = "insert" /\ KindOf[r] = "register" /\ wtok[r] = NoWrites
          /\ wuser' = [wuser EXCEPT ![r] = row]
          /\ wtok' = [wtok EXCEPT ![r][t] = "unused"]
          /\ arg' = [arg EXCEPT ![r].token = t] /\ t \in VerifyTokens
          /\ pc' = [pc EXCEPT ![r] = "mail"] /\ UNCHANGED <<user, tokens, spent>>
      BY <1>1, <1>2 DEF InsertUser, Step, StillStands, OnTrack
    <2>2. OnlyMine(r)
      BY <1>1, <2>1 DEF OnlyMine, TypeOK
    <2>3. /\ pc'[r] = "mail" /\ arg'[r].token = t
          /\ wuser'[r] = row /\ wtok'[r][t] = "unused"
          /\ \A u \in Tokens : wtok'[r][u] = "unused" => u = t
      BY <1>1, <2>1, NoneAssumption DEF TypeOK, Args, NoWrites
    <2>4. Rewritten(r)'
      <3>1. wuser'[r] = [verified |-> FALSE, status |-> "pending",
                         password |-> wuser'[r].password]
        BY <2>3
      <3> QED BY <2>1, <2>3, <3>1 DEF Rewritten
    <2>5. StillStands(r)'
      BY <2>1, <2>3, <2>4 DEF StillStands, Open, Ended, Accepted
    <2> QED BY <2>1, <2>2, <2>5, SerialLocal
  <1>3. CASE AddressTaken(r) \/ ConsumeDeleted(r)
    BY <1>3, SerialRollback DEF AddressTaken, ConsumeDeleted
  <1>4. CASE MailLink(r)
    <2>1. CASE KindOf[r] = "register"
      <3>1. /\ pc' = [pc EXCEPT ![r] = "commit"] /\ pc'[r] = "commit"
            /\ UNCHANGED <<user, tokens, spent, arg, wuser, wtok>>
        BY <1>1, <1>4, <2>1 DEF MailLink, Step, memory, TypeOK
      <3>2. OnlyMine(r)
        BY <1>1, <3>1 DEF OnlyMine, TypeOK
      <3>3. StillStands(r)'
        BY <1>1, <2>1, <3>1 DEF StillStands, Rewritten, Open, Ended, Accepted
      <3> QED BY <3>1, <3>2, <3>3, SerialLocal
    <2>2. CASE KindOf[r] # "register"
      <3>1. "done" \in Ended /\ Close(r, "done") /\ UNCHANGED <<user, tokens, spent>>
        BY <1>4, <2>2 DEF MailLink, Ended
      <3> QED BY <3>1, EndsStands, SerialLocal
    <2> QED BY <2>1, <2>2
  <1>5. CASE SetPassword(r)
    <2>1. /\ pc[r] = "password" /\ KindOf[r] = "reset"
          /\ wuser' = [wuser EXCEPT ![r] = [user EXCEPT !.password = arg[r].password]]
          /\ pc' = [pc EXCEPT ![r] = "consume"]
          /\ UNCHANGED <<user, tokens, spent, arg, wtok>>
      BY <1>1, <1>5 DEF SetPassword, Step, OnTrack
    <2>2. Accepted(r) /\ user \in User
      BY <2>1, AcceptedHasUser DEF Accepted
    <2>3. OnlyMine(r)
      BY <1>1, <2>1 DEF OnlyMine, TypeOK
    <2>4. pc'[r] = "consume" /\ wuser'[r] = [user EXCEPT !.password = arg[r].password]
      BY <1>1, <2>1, <2>2 DEF TypeOK, User
    <2>5. StillStands(r)'
      BY <1>1, <2>1, <2>2, <2>4 DEF StillStands, Rewritten, Open, Ended, Accepted
    <2> QED BY <2>1, <2>3, <2>5, SerialLocal
  <1>6. CASE Consume(r)
    <2>1. /\ pc[r] = "consume" /\ KindOf[r] \in {"verify", "reset"} /\ arg[r].token \in Tokens
          /\ wtok' = [wtok EXCEPT ![r][arg[r].token] = "used"]
          /\ pc' = [pc EXCEPT ![r] = IF KindOf[r] = "verify" THEN "activate" ELSE "revoke"]
          /\ UNCHANGED <<user, tokens, spent, arg, wuser>>
      BY <1>1, <1>6, AcceptedHasUser DEF Consume, Step, OnTrack, Accepted
    <2>2. OnlyMine(r)
      BY <1>1, <2>1 DEF OnlyMine, TypeOK
    <2>3. /\ pc'[r] \in {"activate", "revoke"}
          /\ \A t \in Tokens : wtok'[r][t] = "unused" => wtok[r][t] = "unused"
      BY <1>1, <2>1 DEF TypeOK
    <2>4. StillStands(r)'
      BY <1>1, <2>1, <2>3 DEF StillStands, Rewritten, Open, Ended, Accepted
    <2> QED BY <2>1, <2>2, <2>4, SerialLocal
  <1>7. CASE Activate(r)
    <2>1. /\ pc[r] = "activate" /\ KindOf[r] = "verify" /\ pc' = [pc EXCEPT ![r] = "welcome"]
          /\ wuser' = [wuser EXCEPT ![r] = [user EXCEPT !.verified = TRUE, !.status = "active"]]
          /\ UNCHANGED <<user, tokens, spent, arg, wtok>>
      BY <1>1, <1>7 DEF Activate, Step, OnTrack
    <2>2. /\ OnlyMine(r) /\ pc'[r] = "welcome"
          /\ wuser'[r] = [user EXCEPT !.verified = TRUE, !.status = "active"]
      BY <1>1, <2>1 DEF OnlyMine, TypeOK
    <2>3. StillStands(r)'
      BY <1>1, <2>1, <2>2 DEF StillStands, Rewritten, Open, Ended, Accepted
    <2> QED BY <2>1, <2>2, <2>3, SerialLocal
  <1>8. CASE MailWelcome(r)
    <2>1. /\ pc[r] = "welcome" /\ KindOf[r] = "verify" /\ pc' = [pc EXCEPT ![r] = "commit"]
          /\ UNCHANGED <<user, tokens, spent, arg, wuser, wtok>>
      BY <1>1, <1>8 DEF MailWelcome, Step, OnTrack, memory
    <2>2. OnlyMine(r) /\ pc'[r] = "commit"
      BY <1>1, <2>1 DEF OnlyMine, TypeOK
    <2>3. StillStands(r)'
      BY <1>1, <2>1, <2>2 DEF StillStands, Rewritten, Open, Ended, Accepted
    <2> QED BY <2>1, <2>2, <2>3, SerialLocal
  <1> QED BY <1>2, <1>3, <1>4, <1>5, <1>6, <1>7, <1>8
\* A committed link was unused until now, and no verification has gone through
\* before the one that commits.
LEMMA CommitIsFirst ==
    ASSUME AccountInv, SerialInv, NEW r \in Requests, Commit(r), KindOf[r] # "register"
    PROVE  /\ tokens[arg[r].token] = "unused"
           /\ \A s \in spent : s[2] # arg[r].token
           /\ KindOf[r] = "verify" => user # None /\ ~user.verified
  <1>1. pc[r] = "commit" /\ KindOf[r] \in {"verify", "reset"} /\ arg[r].token \in TokensFor(r)
    BY CommitWrites DEF Commit
  <1>2. Accepted(r) /\ tokens[arg[r].token] = "unused"
    BY <1>1 DEF Accepted, SerialInv, StillStands
  <1>3. \A s \in spent : s[2] # arg[r].token
    BY <1>2 DEF AccountInv, SpentIsUsed
  <1>4. user \in User
    BY <1>2, AcceptedHasUser
  <1>5. KindOf[r] = "verify" => user # None /\ ~user.verified
    BY <1>1, <1>2, <1>4, UserAssumption DEF SerialInv, VerifiedNeedsNoLink, TokensFor
  <1> QED BY <1>2, <1>3, <1>5

LEMMA SerialCommit ==
    ASSUME AccountInv, SerialInv, NEW r \in Requests, Commit(r),
           \A q \in Requests \ {r} : ~Open(q)
    PROVE  SerialInv'
  <1>1. "done" \in Ended /\ Close(r, "done")
    BY DEF Commit, Ended
  <1>2. StillStands(r) /\ WritesFit(r) /\ TokensHaveUser /\ user' = wuser[r] /\ user' # None
    BY CommitWrites, UserAssumption DEF AccountInv, SerialInv
  <1>3. spent' = IF KindOf[r] = "register" THEN spent ELSE spent \cup {<<r, arg[r].token>>}
    BY DEF Commit
  \* The first token of a new user; afterwards transactions only consume.
  <1>4. ASSUME NEW t \in Tokens, tokens'[t] = "unused"
        PROVE  /\ KindOf[r] = "register" => t = arg[r].token
               /\ KindOf[r] # "register" => tokens[t] = "unused" /\ t # arg[r].token
    <2>1. CASE KindOf[r] = "register"
      <3>1. user = None /\ tokens[t] = "absent"
        BY <1>2, <2>1 DEF WritesFit, TokensHaveUser
      <3>2. wtok[r][t] = "unused"
        BY <1>4, <3>1, CommitWrites
      <3> QED BY <1>2, <2>1, <3>2 DEF StillStands
    <2>2. CASE KindOf[r] # "register"
      BY <1>2, <1>4, <2>2, CommitWrites, NoneAssumption DEF StillStands
    <2> QED BY <2>1, <2>2
  <1>5. VerifyTokens \subseteq Tokens /\ ResetTokens \subseteq Tokens
    BY DEF Tokens
  <1>6. OneUnused'
    BY <1>4, <1>5 DEF SerialInv, OneUnused
  <1>7. SingleUse'
    <2>1. CASE KindOf[r] = "register"
      BY <1>3, <2>1 DEF SerialInv, SingleUse
    <2>2. CASE KindOf[r] # "register"
      BY <1>3, <2>2, CommitIsFirst DEF SerialInv, SingleUse
    <2> QED BY <2>1, <2>2
  <1>8. VerifiedNeedsNoLink'
    <2> SUFFICES ASSUME user'.verified, NEW t \in VerifyTokens, tokens'[t] = "unused"
                 PROVE  FALSE
      BY DEF VerifiedNeedsNoLink
    <2>1. KindOf[r] = "verify" \/ (user # None /\ user.verified)
      BY <1>2 DEF WritesFit
    <2>2. KindOf[r] # "register"
      BY <1>2, <2>1 DEF WritesFit
    <2>3. tokens[t] = "unused" /\ t # arg[r].token
      BY <1>4, <1>5, <2>2
    <2>4. CASE KindOf[r] = "verify"
      <3>1. arg[r].token \in VerifyTokens /\ tokens[arg[r].token] = "unused"
        BY <2>4, CommitWrites, CommitIsFirst DEF TokensFor
      <3> QED BY <2>3, <3>1 DEF SerialInv, OneUnused
    <2>5. CASE user # None /\ user.verified
      BY <2>3, <2>5 DEF SerialInv, VerifiedNeedsNoLink
    <2> QED BY <2>1, <2>4, <2>5
  <1> QED BY <1>1, <1>6, <1>7, <1>8, EndsStands, SerialKeeps

\* A statement on many rows, before its end: what it has still to reach and what it
\* has marked are all the unused rows of the table.
LEMMA SerialVisits ==
    ASSUME AccountInv, SerialInv, NEW r \in Requests,
           RevokeBegins(r) \/ \E t \in Tokens : VisitRow(r, t),
           \A q \in Requests \ {r} : ~Open(q)
    PROVE  SerialInv'
  <1> USE DEF AccountInv
  <1>1. /\ StillStands(r) /\ OnTrack(r) /\ WritesFit(r) /\ TypeOK
        /\ TokensFor(r) \subseteq Tokens
    BY DEF SerialInv, TokensFor, Tokens
  <1>2. CASE RevokeBegins(r)
    <2>1. /\ pc[r] = "revoke" /\ UNCHANGED <<user, tokens, spent, wuser, wtok>>
          /\ arg' = [arg EXCEPT ![r].old = Unused(r)] /\ pc' = [pc EXCEPT ![r] = "revoking"]
      BY <1>2 DEF RevokeBegins, Step
    <2>2. /\ OnlyMine(r) /\ pc'[r] = "revoking" /\ arg'[r].token = arg[r].token
          /\ arg'[r].old = Unused(r)
      BY <1>1, <2>1 DEF OnlyMine, TypeOK, Args
    <2>3. \A t \in TokensFor(r) : tokens[t] = "unused" => t \in Unused(r) \/ wtok[r][t] = "used"
      BY <1>1, <2>1, NoneAssumption DEF Unused, OnTrack, WritesFit, TypeOK
    <2>4. StillStands(r)'
      BY <1>1, <2>1, <2>2, <2>3
         DEF StillStands, Rewritten, Open, Ended, Accepted, TokensFor, OnTrack
    <2> QED BY <2>1, <2>2, <2>4, SerialLocal
  <1>3. ASSUME NEW t \in Tokens, VisitRow(r, t)
        PROVE  SerialInv'
    <2>1. /\ pc[r] \in {"revoking", "sweepVerify", "sweepReset"}
          /\ UNCHANGED <<user, tokens, spent, pc, wuser>>
          /\ arg' = [arg EXCEPT ![r].old = @ \ {t}]
      BY <1>3 DEF VisitRow, Visits
    <2>2. \A u \in Tokens : wtok'[r][u] =
              IF u = t /\ tokens[t] \in {"unused", "used"}
              THEN IF pc[r] = "revoking" THEN "used" ELSE "deleted"
              ELSE wtok[r][u]
      BY <1>1, <1>3 DEF VisitRow, TypeOK
    <2>3. /\ OnlyMine(r) /\ arg'[r].token = arg[r].token
          /\ arg'[r].old = arg[r].old \ {t}
      BY <1>1, <1>3, <2>1 DEF VisitRow, OnlyMine, TypeOK, Args
    <2>4. \A u \in Tokens : wtok'[r][u] = "unused" => wtok[r][u] = "unused"
      BY <2>2
    <2>5. pc[r] = "revoking" => \A u \in TokensFor(r) :
              tokens[u] = "unused" => u \in arg'[r].old \/ wtok'[r][u] = "used"
      BY <1>1, <2>2, <2>3 DEF StillStands
    <2>6. wuser[r] # None => Rewritten(r)'
      <3>1. wuser[r] # None /\ KindOf[r] = "register" => pc[r] \notin {"revoking", "sweepVerify", "sweepReset"}
        BY <1>1 DEF OnTrack
      <3> QED BY <1>1, <2>1, <2>3, <3>1 DEF StillStands, Rewritten
    <2>7. StillStands(r)'
      BY <1>1, <2>1, <2>3, <2>4, <2>5, <2>6
         DEF StillStands, Open, Ended, Accepted, TokensFor, OnTrack
    <2> QED BY <2>1, <2>3, <2>7, SerialLocal
  <1> QED BY <1>2, <1>3

\* Rows that a statement of its own has marked or deleted: none becomes unused.
LEMMA SerialMerge ==
    ASSUME AccountInv, SerialInv, NEW r \in Requests, tokens' = Merged(r),
           UNCHANGED <<user, spent>>, KindOf[r] # "register"
    PROVE  /\ \A t \in Tokens : tokens'[t] = "unused" => tokens[t] = "unused" /\ wtok[r][t] = None
           /\ (OneUnused /\ SingleUse /\ VerifiedNeedsNoLink)'
  <1>1. \A t \in Tokens : tokens'[t] = "unused" => tokens[t] = "unused" /\ wtok[r][t] = None
    BY MergedWrites DEF SerialInv, StillStands
  <1>2. VerifyTokens \subseteq Tokens /\ ResetTokens \subseteq Tokens
    BY DEF Tokens
  <1> QED BY <1>1, <1>2 DEF SerialInv, OneUnused, SingleUse, VerifiedNeedsNoLink

\* A new link: the old ones of the table first, then the new one.
LEMMA SerialRevoke ==
    ASSUME AccountInv, SerialInv, NEW r \in Requests, RevokeEnds(r),
           \A q \in Requests \ {r} : ~Open(q)
    PROVE  SerialInv'
  <1> USE DEF AccountInv
  <1>1. /\ StillStands(r) /\ OnTrack(r) /\ TypeOK /\ pc[r] = "revoking" /\ arg[r].old = {}
        /\ UNCHANGED <<user, spent, arg, wuser>>
    BY DEF SerialInv, RevokeEnds, Visits
  <1>2. CASE KindOf[r] = "reset"
    <2>1. pc' = [pc EXCEPT ![r] = "commit"] /\ UNCHANGED <<tokens, wtok>>
      BY <1>2 DEF RevokeEnds, Step
    <2>2. OnlyMine(r) /\ pc'[r] = "commit"
      BY <1>1, <2>1 DEF OnlyMine, TypeOK
    <2>3. StillStands(r)'
      BY <1>1, <1>2, <2>1, <2>2 DEF StillStands, Rewritten, Open, Ended, Accepted
    <2> QED BY <1>1, <2>1, <2>2, <2>3, SerialLocal
  <1>3. CASE KindOf[r] # "reset"
    <2>1. /\ KindOf[r] \in {"resend", "forgot"} /\ tokens' = Merged(r)
          /\ pc' = [pc EXCEPT ![r] = "issue"] /\ wtok' = [wtok EXCEPT ![r] = NoWrites]
      BY <1>1, <1>3 DEF RevokeEnds, Step, OnTrack
    <2>2. OnlyMine(r) /\ pc'[r] = "issue" /\ wtok'[r] = NoWrites /\ wuser[r] = None
      BY <1>1, <2>1 DEF OnlyMine, TypeOK, StillStands
    <2>3. \A t \in TokensFor(r) : tokens'[t] # "unused"
      <3>1. TokensFor(r) \subseteq Tokens
        BY DEF TokensFor, Tokens
      <3>2. \A t \in TokensFor(r) : tokens[t] = "unused" => wtok[r][t] = "used"
        BY <1>1 DEF StillStands
      <3> QED BY <1>1, <2>1, <3>1, <3>2, SerialMerge, NoneAssumption
    <2>4. StillStands(r)'
      <3>1. \A t \in Tokens : wtok'[r][t] = None
        BY <2>2 DEF NoWrites
      <3> QED BY <1>1, <2>1, <2>2, <2>3, <3>1, NoneAssumption
              DEF StillStands, Open, Ended, Accepted, TokensFor
    <2> QED BY <1>1, <2>1, <2>2, <2>4, SerialMerge, SerialKeeps
  <1> QED BY <1>2, <1>3

LEMMA SerialIssue ==
    ASSUME AccountInv, SerialInv, NEW r \in Requests, NEW t \in Tokens, Issue(r, t),
           \A q \in Requests \ {r} : ~Open(q)
    PROVE  SerialInv'
  <1> USE DEF AccountInv
  <1>1. /\ StillStands(r) /\ OnTrack(r) /\ TypeOK /\ pc[r] = "issue" /\ t \in TokensFor(r)
        /\ arg' = [arg EXCEPT ![r].token = t] /\ pc' = [pc EXCEPT ![r] = "mail"]
        /\ UNCHANGED <<user, spent, wuser, wtok>>
    BY DEF SerialInv, Issue, Step
  <1>2. \A u \in Tokens : tokens'[u] = IF u = t THEN "unused" ELSE tokens[u]
    BY <1>1 DEF Issue, TypeOK
  <1>3. OnlyMine(r) /\ pc'[r] = "mail"
    BY <1>1 DEF OnlyMine, TypeOK
  <1>4. KindOf[r] \in {"resend", "forgot"} /\ wuser[r] = None /\ wtok[r] = NoWrites
    BY <1>1 DEF OnTrack, StillStands
  <1>5. StillStands(r)'
    BY <1>1, <1>3, <1>4, NoneAssumption DEF StillStands, Open, Ended, Accepted, NoWrites
  <1>6. VerifyTokens \subseteq Tokens /\ ResetTokens \subseteq Tokens
    BY DEF Tokens
  <1>7. \A u \in TokensFor(r) : tokens[u] # "unused"
    BY <1>1 DEF StillStands
  <1>8. OneUnused'
    <2> SUFFICES ASSUME NEW table \in {VerifyTokens, ResetTokens}, NEW u \in table,
                        NEW v \in table, tokens'[u] = "unused", tokens'[v] = "unused"
                 PROVE  u = v
      BY DEF OneUnused
    <2>1. CASE table = TokensFor(r)
      BY <1>2, <1>6, <1>7, <2>1
    <2>2. CASE table # TokensFor(r)
      <3>1. t \notin table
        BY <1>1, <2>2, TokensAssumption DEF TokensFor
      <3> QED BY <1>2, <1>6, <3>1 DEF SerialInv, OneUnused
    <2> QED BY <2>1, <2>2
  <1>9. VerifiedNeedsNoLink'
    <2>1. CASE KindOf[r] = "resend"
      BY <1>1, <2>1 DEF StillStands, VerifiedNeedsNoLink
    <2>2. CASE KindOf[r] = "forgot"
      <3>1. t \notin VerifyTokens
        BY <1>1, <2>2, TokensAssumption DEF TokensFor
      <3> QED BY <1>1, <1>2, <1>6, <3>1 DEF SerialInv, VerifiedNeedsNoLink
    <2> QED BY <1>4, <2>1, <2>2
  <1>10. SingleUse'
    BY <1>1 DEF SerialInv, SingleUse
  <1> QED BY <1>3, <1>5, <1>8, <1>9, <1>10, SerialKeeps

LEMMA SerialSweep ==
    ASSUME AccountInv, SerialInv, NEW r \in Requests, SweepEnds(r) \/ ChangePassword(r),
           \A q \in Requests \ {r} : ~Open(q)
    PROVE  SerialInv'
  <1> USE DEF AccountInv
  <1>2. CASE SweepEnds(r)
    <2>1. /\ pc[r] \in {"sweepVerify", "sweepReset"} /\ KindOf[r] = "cleanup"
          /\ tokens' = Merged(r) /\ UNCHANGED <<user, spent>>
      BY <1>2 DEF SweepEnds, OnTrack
    <2>2. (OneUnused /\ SingleUse /\ VerifiedNeedsNoLink)'
      BY <2>1, SerialMerge
    <2>3. CASE pc[r] = "sweepVerify"
      <3>1. /\ pc' = [pc EXCEPT ![r] = "sweepReset"] /\ pc'[r] = "sweepReset"
            /\ wtok' = [wtok EXCEPT ![r] = NoWrites] /\ wtok'[r] = NoWrites
            /\ UNCHANGED <<arg, wuser>> /\ StillStands(r)
        BY <1>2, <2>3 DEF SweepEnds, Step, TypeOK, SerialInv
      <3>2. OnlyMine(r)
        BY <3>1 DEF OnlyMine, TypeOK
      <3>3. wuser[r] # None => Rewritten(r)'
        BY <2>1, <3>1 DEF StillStands, Rewritten
      <3>4. \A t \in Tokens : wtok'[r][t] = None
        BY <3>1 DEF NoWrites
      <3>5. StillStands(r)'
        BY <2>1, <3>1, <3>3, <3>4, NoneAssumption
           DEF StillStands, Open, Ended, Accepted
      <3> QED BY <2>2, <3>2, <3>5, SerialKeeps
    <2>4. CASE pc[r] # "sweepVerify"
      <3>1. "done" \in Ended /\ Close(r, "done")
        BY <1>2, <2>4 DEF SweepEnds, Ended
      <3> QED BY <2>2, <3>1, EndsStands, SerialKeeps
    <2> QED BY <2>3, <2>4
  <1>3. CASE ChangePassword(r)
    <2>1. /\ "done" \in Ended /\ Close(r, "done") /\ UNCHANGED <<tokens, spent>>
          /\ user # None /\ user' = [user EXCEPT !.password = arg[r].password]
      BY <1>3 DEF ChangePassword, Ended, OnTrack
    <2>2. user'.verified = user.verified
      BY <2>1 DEF TypeOK, User
    <2>3. (OneUnused /\ SingleUse /\ VerifiedNeedsNoLink)'
      BY <2>1, <2>2 DEF SerialInv, OneUnused, SingleUse, VerifiedNeedsNoLink
    <2> QED BY <2>1, <2>3, EndsStands, SerialKeeps
  <1> QED BY <1>2, <1>3
------------------------------------------------------------------------------
LEMMA SerialInit == Init => SerialInv
  <1> SUFFICES ASSUME Init PROVE SerialInv
    OBVIOUS
  <1> USE DEF Init
  <1>1. OneAtATime
    BY DEF OneAtATime, Open
  <1>2. \A r \in Requests : StillStands(r)
    BY NoneAssumption DEF StillStands, Accepted, NoWrites
  <1>3. OneUnused /\ SingleUse /\ VerifiedNeedsNoLink
    BY DEF OneUnused, Tokens, SingleUse, VerifiedNeedsNoLink
  <1> QED BY <1>1, <1>2, <1>3 DEF SerialInv

LEMMA SerialNext ==
    ASSUME MaxInFlight = 1
    PROVE  AccountInv /\ SerialInv /\ [Next]_vars => SerialInv'
  <1> SUFFICES ASSUME AccountInv, SerialInv, [Next]_vars PROVE SerialInv'
    OBVIOUS
  <1>1. ASSUME NEW r \in Requests, Start(r) PROVE SerialInv'
    BY <1>1, SerialStart
  <1>2. ASSUME NEW r \in Requests, Serve(r) \/ Abort(r) PROVE SerialInv'
    <2>1. \A q \in Requests \ {r} : ~Open(q)
      BY <1>2, Alone
    <2> QED BY <1>2, <2>1, SerialWrites, SerialCommit, SerialVisits, SerialRevoke,
               SerialIssue, SerialSweep, SerialRollback DEF Serve, Abort
  <1>3. CASE UNCHANGED <<user, tokens, spent, pc, memory>>
    BY <1>3 DEF memory, SerialInv, OneAtATime, Open, StillStands, Rewritten, Accepted, OneUnused,
                SingleUse, VerifiedNeedsNoLink, TokensFor
  <1> QED BY <1>1, <1>2, <1>3 DEF Next, Expire, Quiet, vars

\* What one request at a time finds is what it leaves: the inductive invariant of
\* the properties that overlapping requests break.
THEOREM AccountSerial ==
    ASSUME MaxInFlight = 1
    PROVE  Spec => []SerialInv
  <1> QED BY SerialInit, SerialNext, AccountInvariant, PTL DEF Spec

\* Served one at a time, no link verifies or resets twice.
THEOREM AccountSingleUse ==
    ASSUME MaxInFlight = 1
    PROVE  Spec => []SingleUse
  <1>1. SerialInv => SingleUse
    BY DEF SerialInv
  <1> QED BY <1>1, AccountSerial, PTL

\* Served one at a time, a new link revokes all older ones of its purpose.
THEOREM AccountOneLiveLink ==
    ASSUME MaxInFlight = 1
    PROVE  Spec => []OneLiveLink
  <1>1. SerialInv => OneLiveLink
    <2> SUFFICES ASSUME SerialInv, NEW table \in {VerifyTokens, ResetTokens}
                 PROVE  Cardinality({t \in table : IsValid(t)}) <= 1
      BY DEF OneLiveLink
    <2> DEFINE live == {t \in table : IsValid(t)}
    <2>1. \A s, t \in live : s = t
      BY DEF SerialInv, OneUnused, IsValid
    <2>2. CASE live = {}
      BY <2>2, FS_EmptySet
    <2>3. CASE live # {}
      <3>1. PICK t \in live : live = {t}
        BY <2>1, <2>3
      <3>2. Cardinality({t}) = 1
        BY FS_Singleton
      <3> QED BY <3>1, <3>2
    <2> QED BY <2>2, <2>3
  <1> QED BY <1>1, AccountSerial, PTL

\* Served one at a time, a verified address has no working verification link.
THEOREM AccountVerifiedNeedsNoLink ==
    ASSUME MaxInFlight = 1
    PROVE  Spec => []VerifiedNeedsNoLink
  <1>1. SerialInv => VerifiedNeedsNoLink
    BY DEF SerialInv
  <1> QED BY <1>1, AccountSerial, PTL

\* The status of a verified account: a commit leaves it alone, an administrator
\* sets it.
LEMMA StatusSteps ==
    ASSUME AccountInv, SerialInv, [Next]_vars, user # None, user.verified,
           user'.status # user.status
    PROVE  \E r \in Requests : KindOf[r] = "status" /\ pc[r] = "idle" /\ pc'[r] = "done"
  <1>1. ASSUME NEW r \in Requests, Commit(r) PROVE FALSE
    <2>1. WritesFit(r) /\ StillStands(r) /\ user' = wuser[r] /\ wuser[r] # None
      BY <1>1, CommitWrites, UserAssumption DEF AccountInv, SerialInv
    <2>2. KindOf[r] # "register"
      BY <2>1 DEF WritesFit
    <2>3. KindOf[r] # "verify"
      BY <1>1, <2>2, CommitIsFirst
    <2>4. KindOf[r] = "reset"
      BY <1>1, <2>2, <2>3, CommitWrites
    <2>5. user' = [user EXCEPT !.password = wuser[r].password]
      BY <2>1, <2>4 DEF StillStands, Rewritten
    <2> QED BY <2>5 DEF AccountInv, TypeOK, User
  <1>2. ASSUME NEW r \in Requests, ChangePassword(r) PROVE FALSE
    BY <1>2 DEF ChangePassword, AccountInv, TypeOK, User
  <1>3. ASSUME NEW r \in Requests, NEW st \in UserStatus, SetStatus(r, st)
        PROVE  KindOf[r] = "status" /\ pc[r] = "idle" /\ pc'[r] = "done"
    BY <1>3 DEF SetStatus, Begins, Close, Step, AccountInv, TypeOK
  <1>4. ASSUME NEW r \in Requests, RevokeEnds(r) \/ SweepEnds(r) \/ \E t \in Tokens : Issue(r, t)
        PROVE  FALSE
    BY <1>4 DEF RevokeEnds, SweepEnds, Issue
  <1> QED BY <1>1, <1>2, <1>3, <1>4, QuietSteps

\* Served one at a time, no link lifts the suspension of a verified account.
THEOREM AccountStatusByAdministrator ==
    ASSUME MaxInFlight = 1
    PROVE  Spec => StatusByAdministrator
  <1>1. AccountInv /\ SerialInv /\ [Next]_vars =>
          [user # None /\ user.verified /\ user'.status # user.status =>
              \E r \in Requests :
                  KindOf[r] = "status" /\ pc[r] = "idle" /\ pc'[r] = "done"]_user
    BY StatusSteps
  <1> QED BY <1>1, AccountSerial, AccountInvariant, PTL DEF Spec, StatusByAdministrator
------------------------------------------------------------------------------
(* Where requests hold which rows, however they interleave, and which of    *)
(* them can wait for each other in a circle.                                *)

LEMMA LocksEnd ==
    ASSUME AccountInv, NEW r \in Requests, NEW outcome \in Ended, Close(r, outcome)
    PROVE  OnlyMine(r) /\ LocksInOrder(r)'
  <1>1. wuser'[r] = None /\ wtok'[r] = [t \in Tokens |-> None]
    BY DEF AccountInv, TypeOK, Close, NoWrites
  <1> QED BY <1>1, Ends DEF LocksInOrder, Close, Step, Ended, AccountInv, TypeOK

\* A statement that locks nothing, at a place where nothing is locked or at which
\* the transaction holds the user row already.
LEMMA LocksCarried ==
    ASSUME AccountInv, NEW r \in Requests, LocksInOrder(r), OnlyMine(r),
           wuser'[r] = wuser[r], wtok'[r] = wtok[r],
           \/ pc[r] \in {"idle", "issue"} /\ pc'[r] # "revoking"
           \/ pc[r] \in {"mail", "welcome"} /\ pc'[r] = "commit"
    PROVE  OnlyMine(r) /\ LocksInOrder(r)'
  BY DEF LocksInOrder, SweepsTable

LEMMA LocksStart ==
    ASSUME AccountInv, NEW r \in Requests, LocksInOrder(r), Start(r)
    PROVE  OnlyMine(r) /\ LocksInOrder(r)'
  <1>1. ASSUME NEW st \in UserStatus, SetStatus(r, st)
        PROVE  OnlyMine(r) /\ LocksInOrder(r)'
    BY <1>1, LocksEnd DEF SetStatus, Ended
  <1>2. ASSUME NoLink(r) \/ \E t \in Tokens : LinkRefused(r, t)
        PROVE  OnlyMine(r) /\ LocksInOrder(r)'
    BY <1>2, LocksEnd DEF NoLink, LinkRefused, Rollback, Ended
  <1>3. ASSUME \/ \E p \in Passwords : StartRegister(r, p) \/ StartChange(r, p)
               \/ \E t \in Tokens : \/ StartVerify(r, t)
                                    \/ \E p \in Passwords : StartReset(r, t, p)
               \/ StartLink(r) \/ StartCleanup(r)
        PROVE  OnlyMine(r) /\ LocksInOrder(r)'
    <2>1. pc[r] = "idle" /\ pc'[r] # "revoking" /\ OnlyMine(r) /\ UNCHANGED <<wuser, wtok>>
      BY <1>3 DEF StartRegister, StartChange, StartVerify, StartReset, StartLink,
                  StartCleanup, Begins, Step, OnlyMine, memory, AccountInv, TypeOK
    <2> QED BY <2>1, LocksCarried
  <1> QED BY <1>1, <1>2, <1>3 DEF Start

LEMMA LocksServe ==
    ASSUME AccountInv, NEW r \in Requests, LocksInOrder(r), Serve(r) \/ Abort(r)
    PROVE  OnlyMine(r) /\ LocksInOrder(r)'
  <1> USE DEF AccountInv
  <1>1. OnTrack(r) /\ TypeOK
    OBVIOUS
  <1>2. ASSUME \/ AddressTaken(r) \/ ConsumeDeleted(r) \/ Abort(r) \/ Commit(r)
               \/ ChangePassword(r)
        PROVE  OnlyMine(r) /\ LocksInOrder(r)'
    BY <1>2, LocksEnd DEF AddressTaken, ConsumeDeleted, Abort, Rollback, Commit,
                          ChangePassword, Ended
  <1>3. ASSUME NEW t \in Tokens, InsertUser(r, t)
        PROVE  OnlyMine(r) /\ LocksInOrder(r)'
    <2> DEFINE row == [verified |-> FALSE, status |-> "pending", password |-> arg[r].password]
    <2>1. /\ pc[r] = "insert" /\ KindOf[r] = "register" /\ arg[r].password \in Passwords
          /\ wuser' = [wuser EXCEPT ![r] = row]
          /\ wtok' = [wtok EXCEPT ![r][t] = "unused"]
          /\ arg' = [arg EXCEPT ![r].token = t] /\ pc' = [pc EXCEPT ![r] = "mail"]
      BY <1>1, <1>3 DEF InsertUser, Step, OnTrack
    <2>2. row # None
      <3>1. row \in User
        BY <2>1 DEF User, UserStatus
      <3> QED BY <3>1, UserAssumption
    <2>3. OnlyMine(r) /\ pc'[r] = "mail" /\ wuser'[r] = row
      BY <1>1, <2>1 DEF OnlyMine, TypeOK
    <2> QED BY <2>1, <2>2, <2>3 DEF LocksInOrder, SweepsTable
  <1>4. ASSUME MailLink(r)
        PROVE  OnlyMine(r) /\ LocksInOrder(r)'
    <2>1. CASE KindOf[r] = "register"
      <3>1. /\ pc[r] = "mail" /\ pc' = [pc EXCEPT ![r] = "commit"] /\ pc'[r] = "commit"
            /\ UNCHANGED <<arg, wuser, wtok>>
        BY <1>1, <1>4, <2>1 DEF MailLink, Step, memory, TypeOK
      <3>2. OnlyMine(r)
        BY <1>1, <3>1 DEF OnlyMine, TypeOK
      <3> QED BY <3>1, <3>2, LocksCarried
    <2>2. CASE KindOf[r] # "register"
      BY <1>4, <2>2, LocksEnd DEF MailLink, Ended
    <2> QED BY <2>1, <2>2
  <1>5. ASSUME MailWelcome(r) \/ (\E t \in Tokens : Issue(r, t))
        PROVE  OnlyMine(r) /\ LocksInOrder(r)'
    <2>1. /\ \/ pc[r] = "issue" /\ pc'[r] = "mail"
             \/ pc[r] = "welcome" /\ pc'[r] = "commit"
          /\ OnlyMine(r) /\ UNCHANGED <<wuser, wtok>>
      BY <1>1, <1>5 DEF MailWelcome, Issue, Step, memory, OnlyMine, TypeOK
    <2> QED BY <2>1, LocksCarried
  <1>6. ASSUME SetPassword(r) \/ Activate(r)
        PROVE  OnlyMine(r) /\ LocksInOrder(r)'
    <2>1. /\ \/ pc[r] = "password" /\ KindOf[r] = "reset"
             \/ pc[r] = "activate" /\ KindOf[r] = "verify"
          /\ arg[r].token \in Tokens /\ user \in User
      BY <1>1, <1>6, AcceptedHasUser DEF SetPassword, Activate, OnTrack, Accepted
    <2>2. PICK row \in User : wuser' = [wuser EXCEPT ![r] = row]
      <3>1. CASE SetPassword(r)
        <4>1. arg[r].password \in Passwords
          BY <1>1, <3>1 DEF OnTrack, SetPassword
        <4>2. [user EXCEPT !.password = arg[r].password] \in User
          BY <2>1, <4>1 DEF User
        <4> QED BY <3>1, <4>2 DEF SetPassword
      <3>2. CASE Activate(r)
        <4>1. [user EXCEPT !.verified = TRUE, !.status = "active"] \in User
          BY <2>1 DEF User, UserStatus
        <4> QED BY <3>2, <4>1 DEF Activate
      <3> QED BY <1>6, <3>1, <3>2
    <2>3. /\ pc[r] = "password" => pc' = [pc EXCEPT ![r] = "consume"]
          /\ pc[r] = "activate" => pc' = [pc EXCEPT ![r] = "welcome"]
          /\ UNCHANGED <<arg, wtok>>
      BY <1>6 DEF SetPassword, Activate, Step
    <2>4. /\ pc[r] = "password" => pc'[r] = "consume"
          /\ pc[r] = "activate" => pc'[r] = "welcome"
          /\ wuser'[r] # None /\ OnlyMine(r)
      BY <1>1, <2>1, <2>2, <2>3, UserAssumption DEF OnlyMine, TypeOK
    <2> QED BY <2>1, <2>3, <2>4 DEF LocksInOrder, SweepsTable
  <1>7. ASSUME Consume(r)
        PROVE  OnlyMine(r) /\ LocksInOrder(r)'
    <2>1. /\ pc[r] = "consume" /\ KindOf[r] \in {"verify", "reset"}
          /\ arg[r].token \in TokensFor(r) /\ arg[r].token \in Tokens
          /\ KindOf[r] = "reset" => wuser[r] # None
      BY <1>1, <1>7, AcceptedHasUser DEF Consume, OnTrack, Accepted, Written
    <2>2. /\ wtok' = [wtok EXCEPT ![r][arg[r].token] = "used"]
          /\ pc' = [pc EXCEPT ![r] = IF KindOf[r] = "verify" THEN "activate" ELSE "revoke"]
          /\ UNCHANGED <<arg, wuser>>
      BY <1>7 DEF Consume, Step
    <2>3. /\ pc'[r] = IF KindOf[r] = "verify" THEN "activate" ELSE "revoke"
          /\ OnlyMine(r)
          /\ \A t \in Tokens : t # arg[r].token => wtok'[r][t] = wtok[r][t]
      BY <1>1, <2>2 DEF OnlyMine, TypeOK
    <2> QED BY <2>1, <2>2, <2>3 DEF LocksInOrder, SweepsTable, TokensFor
  <1>8. ASSUME RevokeBegins(r)
        PROVE  OnlyMine(r) /\ LocksInOrder(r)'
    <2>1. /\ pc[r] = "revoke" /\ pc' = [pc EXCEPT ![r] = "revoking"]
          /\ arg' = [arg EXCEPT ![r].old = Unused(r)] /\ UNCHANGED <<wuser, wtok>>
      BY <1>8 DEF RevokeBegins, Step
    <2>2. /\ OnlyMine(r) /\ pc'[r] = "revoking" /\ arg'[r].old = Unused(r)
      BY <1>1, <2>1 DEF OnlyMine, TypeOK, Args
    <2>3. Unused(r) \subseteq TokensFor(r)
      BY DEF Unused
    <2> QED BY <2>1, <2>2, <2>3 DEF LocksInOrder, SweepsTable, Visits, TokensFor
  <1>9. ASSUME NEW t \in Tokens, VisitRow(r, t)
        PROVE  OnlyMine(r) /\ LocksInOrder(r)'
    <2>1. /\ pc[r] \in {"revoking", "sweepVerify", "sweepReset"} /\ t \in Visits(r)
          /\ UNCHANGED <<pc, wuser>> /\ arg' = [arg EXCEPT ![r].old = @ \ {t}]
      BY <1>9 DEF VisitRow, Visits
    <2>2. /\ OnlyMine(r) /\ arg'[r].old = arg[r].old \ {t}
          /\ \A u \in Tokens : u # t => wtok'[r][u] = wtok[r][u]
      BY <1>1, <1>9 DEF VisitRow, OnlyMine, TypeOK, Args
    <2>3. \E table \in {VerifyTokens, ResetTokens} : SweepsTable(r, table) /\ t \in table
      BY <2>1 DEF LocksInOrder, SweepsTable, Visits, TokensFor
    <2>4. pc[r] = "revoking" => Visits(r)' \subseteq Visits(r)
      BY <2>1, <2>2 DEF Visits
    <2> QED BY <2>1, <2>2, <2>3, <2>4 DEF LocksInOrder, SweepsTable, TokensFor
  <1>10. ASSUME RevokeEnds(r)
         PROVE  OnlyMine(r) /\ LocksInOrder(r)'
    <2>1. CASE KindOf[r] = "reset"
      <3>1. /\ pc[r] = "revoking" /\ wuser[r] # None
            /\ pc' = [pc EXCEPT ![r] = "commit"] /\ UNCHANGED <<arg, wuser, wtok>>
        BY <1>1, <1>10, <2>1 DEF RevokeEnds, Step, OnTrack, Written
      <3>2. OnlyMine(r) /\ pc'[r] = "commit"
        BY <1>1, <3>1 DEF OnlyMine, TypeOK
      <3> QED BY <2>1, <3>1, <3>2, TokensAssumption DEF LocksInOrder, SweepsTable, TokensFor
    <2>2. CASE KindOf[r] # "reset"
      <3>1. /\ pc[r] = "revoking" /\ pc' = [pc EXCEPT ![r] = "issue"]
            /\ wtok' = [wtok EXCEPT ![r] = NoWrites] /\ UNCHANGED <<arg, wuser>>
        BY <1>10, <2>2 DEF RevokeEnds, Step
      <3>2. OnlyMine(r) /\ pc'[r] = "issue" /\ \A t \in Tokens : wtok'[r][t] = None
        BY <1>1, <3>1 DEF OnlyMine, TypeOK, NoWrites
      <3> QED BY <2>2, <3>1, <3>2 DEF LocksInOrder
    <2> QED BY <2>1, <2>2
  <1>11. ASSUME SweepEnds(r)
         PROVE  OnlyMine(r) /\ LocksInOrder(r)'
    <2>1. CASE pc[r] = "sweepVerify"
      <3>1. /\ pc' = [pc EXCEPT ![r] = "sweepReset"]
            /\ wtok' = [wtok EXCEPT ![r] = NoWrites] /\ UNCHANGED <<arg, wuser>>
        BY <1>11, <2>1 DEF SweepEnds, Step
      <3>2. OnlyMine(r) /\ pc'[r] = "sweepReset" /\ \A t \in Tokens : wtok'[r][t] = None
        BY <1>1, <3>1 DEF OnlyMine, TypeOK, NoWrites
      <3> QED BY <2>1, <3>1, <3>2 DEF LocksInOrder
    <2>2. CASE pc[r] # "sweepVerify"
      BY <1>11, <2>2, LocksEnd DEF SweepEnds, Ended
    <2> QED BY <2>1, <2>2
  <1> QED BY <1>2, <1>3, <1>4, <1>5, <1>6, <1>7, <1>8, <1>9, <1>10, <1>11 DEF Serve

LEMMA LocksNext ==
    ASSUME AccountInv, \A r \in Requests : LocksInOrder(r), [Next]_vars
    PROVE  (\A r \in Requests : LocksInOrder(r))'
  <1>1. ASSUME NEW r \in Requests, Start(r) \/ Serve(r) \/ Abort(r)
        PROVE  (\A q \in Requests : LocksInOrder(q))'
    <2>1. OnlyMine(r) /\ LocksInOrder(r)'
      BY <1>1, LocksStart, LocksServe
    <2>2. ASSUME NEW q \in Requests \ {r} PROVE LocksInOrder(q)'
      <3>1. pc'[q] = pc[q] /\ arg'[q] = arg[q] /\ wuser'[q] = wuser[q] /\ wtok'[q] = wtok[q]
        BY <2>1 DEF OnlyMine
      <3> QED BY <3>1 DEF LocksInOrder, SweepsTable, Visits, TokensFor
    <2> QED BY <2>1, <2>2
  <1>2. CASE UNCHANGED <<pc, memory>>
    BY <1>2 DEF memory, LocksInOrder, SweepsTable, Visits, TokensFor
  <1> QED BY <1>1, <1>2 DEF Next, Expire, Quiet, vars

\* A token row that somebody wants belongs to the table its statement works on.
LEMMA WantedInTable ==
    ASSUME AccountInv, NEW r \in Requests, LocksInOrder(r), NEW t \in WantedTokens(r)
    PROVE  /\ pc[r] = "consume" => KindOf[r] \in {"verify", "reset"} /\ t \in TokensFor(r)
           /\ pc[r] # "consume" => \E table \in {VerifyTokens, ResetTokens} :
                                      SweepsTable(r, table) /\ t \in table
           /\ t \in Tokens
  <1>1. OnTrack(r)
    BY DEF AccountInv
  <1>2. pc[r] = "consume" => KindOf[r] \in {"verify", "reset"} /\ t \in TokensFor(r)
    BY <1>1 DEF OnTrack, Accepted, WantedTokens
  <1>3. pc[r] # "consume" => \E table \in {VerifyTokens, ResetTokens} :
                                SweepsTable(r, table) /\ t \in table
    BY DEF WantedTokens, Visits, LocksInOrder, SweepsTable, TokensFor
  <1> QED BY <1>2, <1>3 DEF TokensFor, Tokens

\* Who holds a row and waits: the user row reset_password; a token row verify_email,
\* for the user row, and the statements that work through the table.
LEMMA WaitingHolders ==
    ASSUME AccountInv, NEW q \in Requests, LocksInOrder(q),
           WantsUser(q) \/ WantedTokens(q) # {}
    PROVE  /\ wuser[q] # None => /\ KindOf[q] = "reset"
                                  /\ (pc[q] = "consume" \/ SweepsTable(q, ResetTokens))
           /\ \A t \in ResetTokens : wtok[q][t] # None => SweepsTable(q, ResetTokens)
           /\ \A t \in VerifyTokens : wtok[q][t] # None =>
                 pc[q] = "activate" \/ SweepsTable(q, VerifyTokens)
  <1>1. pc[q] \in {"insert", "password", "activate", "change", "consume", "revoking",
                   "sweepVerify", "sweepReset"}
    BY DEF WantsUser, WantedTokens, Visits
  <1>2. wuser[q] # None => /\ KindOf[q] = "reset"
                           /\ (pc[q] = "consume" \/ SweepsTable(q, ResetTokens))
    BY <1>1 DEF LocksInOrder, SweepsTable, TokensFor
  <1>3. ASSUME NEW t \in Tokens, wtok[q][t] # None
        PROVE  \/ pc[q] = "activate" /\ t \in VerifyTokens
               \/ wuser[q] # None /\ t \in ResetTokens
               \/ \E table \in {VerifyTokens, ResetTokens} : SweepsTable(q, table) /\ t \in table
    BY <1>2, <1>3 DEF LocksInOrder
  <1>4. pc[q] = "consume" => \A t \in Tokens : wtok[q][t] = None
    BY DEF LocksInOrder, SweepsTable
  <1> QED BY <1>2, <1>3, <1>4, TokensAssumption DEF Tokens, SweepsTable

\* Somebody who is waited for has not ended.
LEMMA HoldersAreOpen ==
    ASSUME AccountInv, NEW r \in Requests, NEW q \in Requests, LocksInOrder(r),
           LocksInOrder(q), WaitsFor(r, q)
    PROVE  Open(q)
  <1>1. wuser[q] # None \/ \E t \in Tokens : wtok[q][t] # None
    BY WantedInTable DEF WaitsFor
  <1>2. pc[q] \in {"mail", "welcome", "commit", "consume", "revoke", "revoking",
                   "activate", "sweepVerify", "sweepReset"}
    BY <1>1 DEF LocksInOrder, SweepsTable
  <1> QED BY <1>2 DEF Open, Ended

\* Suppose a circle without two statements on one table that wait for each other. Who
\* works through the reset tokens waits for somebody else that does, so nobody in
\* the circle does; then none holds the user row and waits, none waits for the user
\* row, and none is left who holds a token.
LEMMA NoCircle ==
    ASSUME AccountInv, \A r \in Requests : LocksInOrder(r)
    PROVE  CirclesAreSweeps
  <1> SUFFICES ASSUME NEW D \in SUBSET Requests, D # {}, Stuck(D),
                      \A r, q \in D : \A table \in {VerifyTokens, ResetTokens} :
                          ~(WaitsFor(r, q) /\ SweepsTable(r, table) /\ SweepsTable(q, table))
               PROVE  FALSE
    BY DEF CirclesAreSweeps
  <1>0. \A r \in D : \E q \in D : WaitsFor(r, q)
    BY HoldersAreOpen DEF Stuck
  <1>1. ASSUME NEW q \in D
        PROVE  /\ wuser[q] # None => /\ KindOf[q] = "reset"
                                     /\ (pc[q] = "consume" \/ SweepsTable(q, ResetTokens))
               /\ \A t \in ResetTokens : wtok[q][t] # None => SweepsTable(q, ResetTokens)
               /\ \A t \in VerifyTokens : wtok[q][t] # None =>
                     pc[q] = "activate" \/ SweepsTable(q, VerifyTokens)
    <2>1. WantsUser(q) \/ WantedTokens(q) # {}
      <3>1. PICK p \in D : WaitsFor(q, p)
        BY <1>0
      <3> QED BY <3>1 DEF WaitsFor
    <2> QED BY <2>1, WaitingHolders
  <1>2. ASSUME NEW r \in D
        PROVE  ~SweepsTable(r, ResetTokens)
    <2> SUFFICES ASSUME SweepsTable(r, ResetTokens) PROVE FALSE
      OBVIOUS
    <2>1. PICK q \in D : WaitsFor(r, q)
      BY <1>0
    <2>2. ~WantsUser(r) /\ pc[r] # "consume"
      BY DEF SweepsTable, WantsUser
    <2>3. PICK t \in WantedTokens(r) : wtok[q][t] # None
      BY <2>1, <2>2 DEF WaitsFor
    <2>4. t \in ResetTokens
      BY <2>2, WantedInTable DEF SweepsTable
    <2> QED BY <1>1, <2>1, <2>3, <2>4
  <1>3. ASSUME NEW r \in D, pc[r] = "consume", KindOf[r] = "reset"
        PROVE  FALSE
    <2>1. PICK q \in D : WaitsFor(r, q)
      BY <1>0
    <2>2. PICK t \in WantedTokens(r) : wtok[q][t] # None
      BY <1>3, <2>1 DEF WaitsFor, WantsUser
    <2>3. t \in ResetTokens
      BY <1>3, WantedInTable DEF TokensFor
    <2> QED BY <1>1, <1>2, <2>2, <2>3
  <1>4. ASSUME NEW r \in D, WantsUser(r)
        PROVE  FALSE
    <2>1. PICK q \in D : WaitsFor(r, q)
      BY <1>0
    <2>2. WantedTokens(r) = {}
      BY <1>4 DEF WantsUser, WantedTokens, Visits
    <2>3. wuser[q] # None
      BY <2>1, <2>2 DEF WaitsFor
    <2> QED BY <1>1, <1>2, <1>3, <2>3
  <1>5. ASSUME NEW r \in D, NEW q \in D, NEW t \in VerifyTokens, wtok[q][t] # None
        PROVE  SweepsTable(q, VerifyTokens)
    BY <1>1, <1>4, <1>5 DEF WantsUser
  <1>6. ASSUME NEW r \in D
        PROVE  ~SweepsTable(r, VerifyTokens)
    <2> SUFFICES ASSUME SweepsTable(r, VerifyTokens) PROVE FALSE
      OBVIOUS
    <2>1. PICK q \in D : WaitsFor(r, q)
      BY <1>0
    <2>2. ~WantsUser(r) /\ pc[r] # "consume"
      BY DEF SweepsTable, WantsUser
    <2>3. PICK t \in WantedTokens(r) : wtok[q][t] # None
      BY <2>1, <2>2 DEF WaitsFor
    <2>4. t \in VerifyTokens
      BY <2>2, WantedInTable DEF SweepsTable
    <2> QED BY <1>5, <2>1, <2>3, <2>4
  <1>7. PICK r \in D : TRUE
    OBVIOUS
  <1>8. PICK q \in D : WaitsFor(r, q)
    BY <1>0
  <1>9. PICK t \in WantedTokens(r) : wtok[q][t] # None
    BY <1>4, <1>8 DEF WaitsFor
  <1>10. pc[r] = "consume" /\ KindOf[r] = "verify" /\ t \in VerifyTokens
    BY <1>2, <1>3, <1>6, WantedInTable DEF TokensFor
  <1> QED BY <1>5, <1>6, <1>9, <1>10

LEMMA AccountLocksInOrder == Spec => [](\A r \in Requests : LocksInOrder(r))
  <1>1. Init => \A r \in Requests : LocksInOrder(r)
    BY DEF Init, LocksInOrder, NoWrites
  <1>2. AccountInv /\ (\A r \in Requests : LocksInOrder(r)) /\ [Next]_vars
            => (\A r \in Requests : LocksInOrder(r))'
    BY LocksNext
  <1> QED BY <1>1, <1>2, AccountInvariant, PTL DEF Spec

\* verify_email locks a token, then the user, reset_password the user, then tokens;
\* no requests wait in a circle unless two statements that lock many rows do.
THEOREM AccountCirclesAreSweeps == Spec => []CirclesAreSweeps
  <1>1. AccountInv /\ (\A r \in Requests : LocksInOrder(r)) => CirclesAreSweeps
    BY NoCircle
  <1> QED BY <1>1, AccountInvariant, AccountLocksInOrder, PTL
------------------------------------------------------------------------------
(* Served one at a time, the services do to the account what OneTimeLinks   *)
(* says of them.                                                            *)

\* What a committed verification or reset does to the links: the one that was
\* followed dies, and none of its kind was alive besides.
LEMMA FollowedDies ==
    ASSUME AccountInv, SerialInv, NEW r \in Requests, Commit(r), KindOf[r] # "register",
           LocksInOrder(r)
    PROVE  /\ arg[r].token \in Live
           /\ Live' = Live \ {arg[r].token} /\ Dead' = Dead \cup {arg[r].token}
  <1> DEFINE a == arg[r].token
  <1>1. /\ a \in TokensFor(r) /\ a \in Tokens /\ wtok[r][a] = "used" /\ tokens[a] = "unused"
        /\ KindOf[r] \in {"verify", "reset"} /\ wuser[r] # None
    BY CommitWrites, CommitIsFirst, UserAssumption
  <1>2. ASSUME NEW t \in Tokens, wtok[r][t] # None
        PROVE  wtok[r][t] = "used" /\ (tokens[t] = "unused" => t = a)
    <2>1. wtok[r][t] = "used" /\ t \in TokensFor(r)
      BY <1>1, <1>2, CommitWrites
         DEF SerialInv, StillStands, LocksInOrder, SweepsTable, Commit, TokensFor
    <2>2. TokensFor(r) \in {VerifyTokens, ResetTokens}
      BY DEF TokensFor
    <2> QED BY <1>1, <2>1, <2>2 DEF SerialInv, OneUnused
  <1>3. ASSUME NEW t \in Tokens
        PROVE  /\ tokens'[t] = "unused" <=> tokens[t] = "unused" /\ t # a
               /\ tokens'[t] \in {"used", "deleted"} <=> tokens[t] \in {"used", "deleted"} \/ t = a
    <2>1. CASE wtok[r][t] = None
      BY <1>1, <2>1, CommitWrites, NoneAssumption
    <2>2. CASE wtok[r][t] # None
      <3>1. tokens'[t] = "used" /\ tokens[t] \in {"unused", "used"}
        BY <1>2, <2>2, CommitWrites
      <3> QED BY <1>1, <1>2, <2>2, <3>1
    <2> QED BY <2>1, <2>2
  <1> QED BY <1>1, <1>3 DEF Live, Dead

LEMMA CommitIsAtomic ==
    ASSUME AccountInv, SerialInv, NEW r \in Requests, Commit(r), LocksInOrder(r)
    PROVE  Promise!Next
  <1> DEFINE a == arg[r].token
  <1>1. /\ Rewritten(r) /\ user' = wuser[r] /\ wuser[r] \in User /\ wuser[r].password \in Passwords
        /\ KindOf[r] \in {"register", "verify", "reset"} /\ StillStands(r)
    BY CommitWrites, UserAssumption DEF SerialInv, StillStands, User
  <1>2. CASE KindOf[r] = "register"
    <2>1. user = None /\ \A t \in Tokens : tokens[t] = "absent"
      BY <1>1, <1>2, UserAssumption DEF AccountInv, WritesFit, TokensHaveUser
    <2>2. a \in VerifyTokens /\ a \in Tokens
      BY <1>1, <1>2 DEF Rewritten, Tokens
    <2>3. \A t \in Tokens : tokens'[t] = IF t = a THEN "unused" ELSE "absent"
      <3> SUFFICES ASSUME NEW t \in Tokens
                   PROVE  tokens'[t] = IF t = a THEN "unused" ELSE "absent"
        OBVIOUS
      <3>1. wtok[r][t] \in {"unused", "used", "deleted", None} /\ wtok[r][t] # "used"
        BY <2>1, CommitWrites
      <3>2. wtok[r][t] = "unused" <=> t = a
        BY <1>1, <1>2 DEF StillStands, Rewritten
      <3> QED BY <2>1, <3>1, <3>2, CommitWrites, NoneAssumption
    <2>4. /\ a \in VerifyTokens \ (Live \cup Dead)
          /\ Live' = Live \cup {a} /\ Dead' = Dead
      BY <2>1, <2>2, <2>3 DEF Live, Dead
    <2>5. user' = [verified |-> FALSE, status |-> "pending", password |-> wuser[r].password]
      BY <1>1, <1>2 DEF Rewritten
    <2>6. Promise!Register(a, wuser[r].password)
      BY <2>1, <2>4, <2>5 DEF Promise!Register
    <2>7. \E p \in Passwords : \E t \in VerifyTokens : Promise!Register(t, p)
      BY <1>1, <2>2, <2>6
    <2> QED BY <2>7 DEF Promise!Next
  <1>3. CASE KindOf[r] # "register"
    <2>1. a \in TokensFor(r) /\ a \in Live /\ Promise!Dies({a})
      BY <1>3, CommitWrites, FollowedDies DEF Promise!Dies
    <2>2. CASE KindOf[r] = "verify"
      <3>1. a \in Live \cap VerifyTokens /\ ~user.verified
        BY <1>3, <2>1, <2>2, CommitIsFirst DEF TokensFor
      <3>2. user' = [user EXCEPT !.verified = TRUE, !.status = "active"]
        BY <1>1, <2>2 DEF Rewritten
      <3>3. Promise!Verify(a)
        BY <2>1, <3>1, <3>2 DEF Promise!Verify
      <3> QED BY <3>1, <3>3 DEF Promise!Next
    <2>3. CASE KindOf[r] = "reset"
      <3>1. a \in Live \cap ResetTokens
        BY <2>1, <2>3 DEF TokensFor
      <3>2. user' = [user EXCEPT !.password = wuser[r].password]
        BY <1>1, <2>3 DEF Rewritten
      <3>3. Promise!Reset(a, wuser[r].password)
        BY <2>1, <3>1, <3>2 DEF Promise!Reset
      <3> QED BY <1>1, <3>1, <3>3 DEF Promise!Next
    <2> QED BY <1>1, <1>3, <2>2, <2>3
  <1> QED BY <1>2, <1>3

\* A new link is two statements: the old ones of its kind die, the new one is sent.
LEMMA NewLinkIsTwoSteps ==
    ASSUME AccountInv, SerialInv, NEW r \in Requests,
           RevokeEnds(r) \/ \E t \in Tokens : Issue(r, t), LocksInOrder(r)
    PROVE  Promise!Next \/ UNCHANGED <<user, Live, Dead>>
  <1>1. /\ TokensFor(r) \in {VerifyTokens, ResetTokens} /\ TokensFor(r) \subseteq Tokens
        /\ StillStands(r) /\ OnTrack(r)
    BY DEF TokensFor, Tokens, AccountInv, SerialInv
  <1>2. ASSUME RevokeEnds(r), KindOf[r] # "reset"
        PROVE  Promise!Revoke(TokensFor(r))
    <2>1. /\ pc[r] = "revoking" /\ arg[r].old = {} /\ KindOf[r] \in {"resend", "forgot"}
          /\ tokens' = Merged(r) /\ user' = user /\ wuser[r] = None
      BY <1>1, <1>2 DEF RevokeEnds, Visits, OnTrack, StillStands
    <2>2. \A t \in TokensFor(r) : tokens[t] = "unused" => wtok[r][t] = "used"
      BY <1>1, <2>1 DEF StillStands
    <2>3. \A t \in Tokens : wtok[r][t] # None => t \in TokensFor(r) /\ wtok[r][t] = "used"
      <3>1. \A t \in Tokens : wtok[r][t] # None => t \in TokensFor(r)
        BY <2>1 DEF LocksInOrder, SweepsTable
      <3>2. \A t \in Tokens : wtok[r][t] \notin {"unused", "deleted"}
        BY <1>1, <2>1, NoneAssumption DEF StillStands, OnTrack
      <3> QED BY <2>1, <3>1, <3>2, MergedWrites
    <2>4. \A t \in Tokens : /\ tokens'[t] = "unused" <=> tokens[t] = "unused" /\ t \notin TokensFor(r)
                            /\ tokens'[t] \in {"used", "deleted"} <=>
                                   \/ tokens[t] \in {"used", "deleted"}
                                   \/ tokens[t] = "unused" /\ t \in TokensFor(r)
      BY <2>1, <2>2, <2>3, MergedWrites, NoneAssumption
    <2>5. /\ Live' = Live \ (Live \cap TokensFor(r))
          /\ Dead' = Dead \cup (Live \cap TokensFor(r))
      BY <2>4 DEF Live, Dead
    <2> QED BY <2>1, <2>5 DEF Promise!Revoke, Promise!Dies
  <1>3. ASSUME RevokeEnds(r), KindOf[r] = "reset"
        PROVE  UNCHANGED <<user, Live, Dead>>
    BY <1>3 DEF RevokeEnds, Live, Dead
  <1>4. ASSUME NEW t \in Tokens, Issue(r, t)
        PROVE  t \in TokensFor(r) /\ Promise!Send(TokensFor(r), t)
    <2>1. /\ t \in TokensFor(r) /\ tokens[t] = "absent" /\ user' = user /\ user # None
          /\ \A u \in Tokens : tokens'[u] = IF u = t THEN "unused" ELSE tokens[u]
          /\ KindOf[r] \in {"resend", "forgot"} /\ (user.verified <=> KindOf[r] = "forgot")
          /\ \A u \in TokensFor(r) : tokens[u] # "unused"
      BY <1>1, <1>4 DEF Issue, Fresh, OnTrack, StillStands, AccountInv, TypeOK
    <2>2. KindOf[r] = "forgot" <=> TokensFor(r) = ResetTokens
      BY <2>1, TokensAssumption DEF TokensFor
    <2>3. /\ Live' = Live \cup {t} /\ Dead' = Dead /\ t \notin Live \cup Dead
          /\ Live \cap TokensFor(r) = {}
      BY <1>4, <2>1 DEF Live, Dead
    <2> QED BY <2>1, <2>2, <2>3 DEF Promise!Send
  <1> QED BY <1>1, <1>2, <1>3, <1>4 DEF Promise!Next

\* One DELETE of the cleanup takes the link of a kind, if it has expired, or none.
LEMMA SweepRevokes ==
    ASSUME AccountInv, SerialInv, NEW r \in Requests, SweepEnds(r), LocksInOrder(r)
    PROVE  Promise!Next \/ UNCHANGED <<user, Live, Dead>>
  <1> DEFINE table == IF pc[r] = "sweepVerify" THEN VerifyTokens ELSE ResetTokens
             gone  == {t \in Tokens : wtok[r][t] # None}
  <1>1. /\ tokens' = Merged(r) /\ user' = user /\ pc[r] \in {"sweepVerify", "sweepReset"}
        /\ OnTrack(r)
    BY DEF SweepEnds, AccountInv
  <1>2. table \in {VerifyTokens, ResetTokens} /\ table \subseteq Tokens
    BY DEF Tokens
  <1>3. \A t \in gone : t \in table /\ wtok[r][t] = "deleted"
    BY <1>1 DEF LocksInOrder, SweepsTable, OnTrack
  <1>6. Live' = Live \ (Live \cap gone) /\ Dead' = Dead \cup (Live \cap gone)
    <2>1. \A t \in Tokens : /\ tokens'[t] = IF t \in gone THEN "deleted" ELSE tokens[t]
                            /\ t \in gone => tokens[t] \in {"unused", "used"}
      BY <1>1, <1>3, MergedWrites
    <2> HIDE DEF gone
    <2> QED BY <2>1 DEF Live, Dead
  <1>4. CASE Live \cap gone = {}
    BY <1>1, <1>4, <1>6
  <1>5. CASE Live \cap gone # {}
    <2>1. \A s, t \in Live \cap table : s = t
      BY <1>2 DEF SerialInv, OneUnused, Live
    <2>2. Live \cap gone = Live \cap table
      BY <1>3, <1>5, <2>1
    <2>3. Live' = Live \ (Live \cap table) /\ Dead' = Dead \cup (Live \cap table)
      BY <1>6, <2>2
    <2>4. Promise!Revoke(table)
      BY <1>1, <2>3 DEF Promise!Revoke, Promise!Dies
    <2> QED BY <1>2, <2>4 DEF Promise!Next
  <1> QED BY <1>4, <1>5

LEMMA StepsAreAtomic ==
    ASSUME AccountInv, SerialInv, [Next]_vars, \A r \in Requests : LocksInOrder(r)
    PROVE  Promise!Next \/ UNCHANGED <<user, Live, Dead>>
  <1>1. ASSUME NEW r \in Requests, Commit(r) PROVE Promise!Next
    BY <1>1, CommitIsAtomic
  <1>2. ASSUME NEW r \in Requests, ChangePassword(r)
        PROVE  Promise!Next
    <2>1. /\ pc[r] = "change" /\ user # None /\ UNCHANGED tokens
          /\ user' = [user EXCEPT !.password = arg[r].password]
      BY <1>2 DEF ChangePassword, AccountInv, OnTrack
    <2>2. user.verified /\ arg[r].password \in Passwords
      BY <2>1 DEF SerialInv, StillStands, AccountInv, OnTrack
    <2>3. Promise!Change(arg[r].password)
      BY <2>1, <2>2 DEF Promise!Change, Live, Dead
    <2> QED BY <2>2, <2>3 DEF Promise!Next
  <1>3. ASSUME NEW r \in Requests, NEW st \in UserStatus, SetStatus(r, st)
        PROVE  Promise!Next
    <2>1. Promise!SetStatus(st)
      BY <1>3 DEF SetStatus, Promise!SetStatus, Live, Dead
    <2> QED BY <2>1 DEF Promise!Next
  <1>4. CASE UNCHANGED <<user, tokens>>
    BY <1>4 DEF Live, Dead
  <1> QED BY <1>1, <1>2, <1>3, <1>4, NewLinkIsTwoSteps, SweepRevokes, QuietSteps

\* Served one at a time, every request does to the account and its links what one
\* service of OneTimeLinks does, at one of its statements, and nothing before or
\* after it; whoever issues a link first revokes, then sends.
THEOREM AccountImplementsLinks ==
    ASSUME MaxInFlight = 1
    PROVE  Spec => ImplementsLinks
  <1>1. Init => Promise!Init
    BY DEF Init, Promise!Init, Live, Dead
  <1>2. /\ AccountInv /\ SerialInv /\ (\A r \in Requests : LocksInOrder(r)) /\ [Next]_vars
        => [Promise!Next]_(Promise!vars)
    BY StepsAreAtomic DEF Promise!vars
  <1> QED BY <1>1, <1>2, AccountInvariant, AccountSerial, AccountLocksInOrder, PTL
          DEF Spec, ImplementsLinks, Promise!Spec
==============================================================================
