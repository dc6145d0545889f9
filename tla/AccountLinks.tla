----------------------------- MODULE AccountLinks -----------------------------
(***************************************************************************)
(* apps/authentication/services.py around one e-mail address: register,    *)
(* verify_email, resend_verification_email, forgot_password,               *)
(* reset_password and change_password, beside an administrator's           *)
(* update_status and the periodic cleanup_expired_tokens_task.             *)
(*                                                                         *)
(* register, verify_email and reset_password are transactions: what they   *)
(* write (wuser, wtok) is locked and invisible until Commit.  The others   *)
(* run in autocommit mode, each statement on its own.  An UPDATE or DELETE *)
(* of many token rows locks them one by one, in no particular order, and   *)
(* holds what it has while it waits for the next; who is in a deadlock is  *)
(* aborted (Abort).  login is in SignIn; oauth_authenticate has no caller. *)
(***************************************************************************)
EXTENDS Naturals, FiniteSets

CONSTANTS
    Requests,
    KindOf,        \* what each request calls
    VerifyTokens,  \* values of EmailVerificationToken.token
    ResetTokens,   \* values of PasswordResetToken.token
    Passwords,
    MaxInFlight,   \* bound: requests served at the same time
    None

Kinds == {"register", "verify", "resend", "forgot", "reset", "change", "status",
          "cleanup"}
Tokens == VerifyTokens \cup ResetTokens

ASSUME KindAssumption == KindOf \in [Requests -> Kinds]
ASSUME TokensAssumption == VerifyTokens \cap ResetTokens = {}
ASSUME NoneAssumption == None \notin Tokens \cup {"unused", "used", "deleted"}

UserStatus == {"active", "inactive", "suspended", "pending"}
User == [verified : BOOLEAN, status : UserStatus, password : Passwords]
ASSUME UserAssumption == None \notin User \cup Passwords

VARIABLES
    user,     \* the committed row of the address, None before
    tokens,   \* the committed token rows: "absent", "unused", "used" or "deleted"
    expired,  \* token values whose expires_at has passed
    mail,     \* every mail task published
    spent,    \* history: the verifications and resets that committed, with their token
    pc,
    arg,      \* arguments and locals of a request
    wuser,    \* the user row as its transaction wrote it, None before
    wtok      \* the token rows it has locked, as its transaction or statement leaves
              \* them, None where it has locked nothing

memory == <<arg, wuser, wtok>>
vars   == <<user, tokens, expired, mail, spent, pc, memory>>

NoArg  == [token |-> None, password |-> None, old |-> {}]
Args   == [token : Tokens \cup {None}, password : Passwords \cup {None}, old : SUBSET Tokens]
NoWrites == [t \in Tokens |-> None]
Task   == [task : {"link"}, token : Tokens] \cup [task : {"welcome"}, by : Requests]
Link(t)    == [task |-> "link", token |-> t]
Welcome(r) == [task |-> "welcome", by |-> r]

Ended == {"done", "failed"}
Open(r) == pc[r] \notin {"idle"} \cup Ended
Step(r, there) == pc' = [pc EXCEPT ![r] = there]

Init ==
    /\ user = None
    /\ tokens = [t \in Tokens |-> "absent"]
    /\ expired = {}
    /\ mail = {}
    /\ spent = {}
    /\ pc = [r \in Requests |-> "idle"]
    /\ arg = [r \in Requests |-> NoArg]
    /\ wuser = [r \in Requests |-> None]
    /\ wtok = [r \in Requests |-> NoWrites]

------------------------------------------------------------------------------
\* No other transaction holds the row.
UserFree(r) == \A q \in Requests \ {r} : wuser[q] = None
TokenFree(r, t) == \A q \in Requests \ {r} : wtok[q][t] = None

\* A value secrets.token_urlsafe has never returned before.
Fresh(t) == /\ tokens[t] = "absent" /\ Link(t) \notin mail
            /\ \A q \in Requests : wtok[q][t] = None

IsValid(t) == tokens[t] = "unused" /\ t \notin expired

\* The table r works on, and its rows that r sees as unused.
TokensFor(r) == IF KindOf[r] \in {"register", "verify", "resend"} THEN VerifyTokens
                ELSE ResetTokens
Unused(r) == {t \in TokensFor(r) : tokens[t] = "unused" /\ wtok[r][t] = None}

\* The token rows when the writes of r are committed.
Merged(r) == [t \in Tokens |-> IF wtok[r][t] = None THEN tokens[t] ELSE wtok[r][t]]

\* Mutant: the locks of a transaction outlive it.
CloseKeepsLocks(r, outcome) ==
    /\ Step(r, outcome)
    /\ arg' = [arg EXCEPT ![r] = NoArg]
    /\ UNCHANGED <<wuser, wtok>>

\* The request is over: its locals and locks are gone.
Close(r, outcome) ==
    /\ Step(r, outcome)
    /\ arg' = [arg EXCEPT ![r] = NoArg]
    /\ wuser' = [wuser EXCEPT ![r] = None]
    /\ wtok' = [wtok EXCEPT ![r] = NoWrites]

\* Mutant: the user row is written outside of the transaction.
RollbackKeepsUser(r) == /\ Close(r, "failed")
                        /\ user' = IF wuser[r] = None THEN user ELSE wuser[r]
                        /\ UNCHANGED <<tokens, expired, mail, spent>>

Rollback(r) == Close(r, "failed") /\ UNCHANGED <<user, tokens, expired, mail, spent>>

\* Time passes for a token.
Expire(t) == /\ tokens[t] \in {"unused", "used"}
             /\ t \notin expired
             /\ expired' = expired \cup {t}
             /\ UNCHANGED <<user, tokens, mail, spent, pc, memory>>

Begins(r, kind) == /\ pc[r] = "idle"
                   /\ KindOf[r] = kind
                   /\ Cardinality({q \in Requests : Open(q)}) < MaxInFlight

------------------------------------------------------------------------------
(* register: validate_email looks for the address, the INSERT of the user   *)
(* meets the unique constraint, the token and its mail follow.              *)
StartRegister(r, p) ==
    /\ Begins(r, "register")
    /\ user = None
    /\ Step(r, "insert")
    /\ arg' = [arg EXCEPT ![r].password = p]
    /\ UNCHANGED <<user, tokens, expired, mail, spent, wuser, wtok>>

InsertUser(r, t) ==
    /\ pc[r] = "insert"
    /\ UserFree(r)
    /\ user = None
    /\ t \in VerifyTokens /\ Fresh(t)
    /\ wuser' = [wuser EXCEPT ![r] = [verified |-> FALSE, status |-> "pending",
                                      password |-> arg[r].password]]
    /\ wtok' = [wtok EXCEPT ![r][t] = "unused"]
    /\ arg' = [arg EXCEPT ![r].token = t]
    /\ Step(r, "mail")
    /\ UNCHANGED <<user, tokens, expired, mail, spent>>

\* The constraint is violated: somebody else registered first.
AddressTaken(r) ==
    /\ pc[r] = "insert"
    /\ UserFree(r)
    /\ user # None
    /\ Rollback(r)

\* .delay of the link, for register, resend and forgot; only the first has a
\* transaction to commit.
MailLink(r) ==
    /\ pc[r] = "mail"
    /\ mail' = mail \cup {Link(arg[r].token)}
    /\ IF KindOf[r] = "register"
       THEN Step(r, "commit") /\ UNCHANGED memory
       ELSE Close(r, "done")
    /\ UNCHANGED <<user, tokens, expired, spent>>

------------------------------------------------------------------------------
(* verify_email and reset_password: the token is read and judged once, at   *)
(* the start; nothing is locked yet.                                        *)
StartVerify(r, t) ==
    /\ Begins(r, "verify")
    /\ t \in VerifyTokens /\ Link(t) \in mail /\ IsValid(t)
    /\ Step(r, "consume")
    /\ arg' = [arg EXCEPT ![r].token = t]
    /\ UNCHANGED <<user, tokens, expired, mail, spent, wuser, wtok>>

\* Mutant: the new password is dropped on the way.
StartResetNoPassword(r, t, p) ==
    /\ Begins(r, "reset")
    /\ t \in ResetTokens /\ Link(t) \in mail /\ IsValid(t)
    /\ Step(r, "password")
    /\ arg' = [arg EXCEPT ![r].token = t]
    /\ UNCHANGED <<user, tokens, expired, mail, spent, wuser, wtok>>

StartReset(r, t, p) ==
    /\ Begins(r, "reset")
    /\ t \in ResetTokens /\ Link(t) \in mail /\ IsValid(t)
    /\ Step(r, "password")
    /\ arg' = [arg EXCEPT ![r].token = t, ![r].password = p]
    /\ UNCHANGED <<user, tokens, expired, mail, spent, wuser, wtok>>

\* Unknown, used or expired.
LinkRefused(r, t) ==
    /\ \/ Begins(r, "verify") /\ t \in VerifyTokens
       \/ Begins(r, "reset") /\ t \in ResetTokens
    /\ Link(t) \in mail /\ ~IsValid(t)
    /\ Rollback(r)

\* Mutant: the password is saved outside of the transaction.
SetPasswordAtOnce(r) ==
    /\ pc[r] = "password"
    /\ UserFree(r)
    /\ user' = [user EXCEPT !.password = arg[r].password]
    /\ wuser' = [wuser EXCEPT ![r] = user']
    /\ Step(r, "consume")
    /\ UNCHANGED <<tokens, expired, mail, spent, arg, wtok>>

SetPassword(r) ==
    /\ pc[r] = "password"
    /\ UserFree(r)
    /\ wuser' = [wuser EXCEPT ![r] = [user EXCEPT !.password = arg[r].password]]
    /\ Step(r, "consume")
    /\ UNCHANGED <<user, tokens, expired, mail, spent, arg, wtok>>

\* Mutant: consume forgets to save.
ConsumeUnsaved(r) ==
    /\ pc[r] = "consume"
    /\ tokens[arg[r].token] # "deleted"
    /\ Step(r, IF KindOf[r] = "verify" THEN "activate" ELSE "revoke")
    /\ UNCHANGED <<user, tokens, expired, mail, spent, arg, wuser, wtok>>

\* Mutant: a full save, which inserts the row again when it is gone.
ConsumeFullSave(r) ==
    /\ pc[r] = "consume"
    /\ TokenFree(r, arg[r].token)
    /\ wtok' = [wtok EXCEPT ![r][arg[r].token] = "used"]
    /\ Step(r, IF KindOf[r] = "verify" THEN "activate" ELSE "revoke")
    /\ UNCHANGED <<user, tokens, expired, mail, spent, arg, wuser>>

\* consume: an UPDATE of is_used by primary key, whatever the row holds by now.
Consume(r) ==
    /\ pc[r] = "consume"
    /\ TokenFree(r, arg[r].token)
    /\ tokens[arg[r].token] # "deleted"
    /\ wtok' = [wtok EXCEPT ![r][arg[r].token] = "used"]
    /\ Step(r, IF KindOf[r] = "verify" THEN "activate" ELSE "revoke")
    /\ UNCHANGED <<user, tokens, expired, mail, spent, arg, wuser>>

\* save(update_fields=...) on a deleted row raises.
ConsumeDeleted(r) ==
    /\ pc[r] = "consume"
    /\ tokens[arg[r].token] = "deleted"
    /\ Rollback(r)

Activate(r) ==
    /\ pc[r] = "activate"
    /\ UserFree(r)
    /\ wuser' = [wuser EXCEPT ![r] = [user EXCEPT !.verified = TRUE, !.status = "active"]]
    /\ Step(r, "welcome")
    /\ UNCHANGED <<user, tokens, expired, mail, spent, arg, wtok>>

MailWelcome(r) ==
    /\ pc[r] = "welcome"
    /\ mail' = mail \cup {Welcome(r)}
    /\ Step(r, "commit")
    /\ UNCHANGED <<user, tokens, expired, spent, memory>>

\* Mutant: consume is outside of the transaction, and lost.
CommitUserOnly(r) ==
    /\ pc[r] = "commit"
    /\ user' = wuser[r]
    /\ tokens' = [t \in Tokens |-> IF wtok[r][t] # "unused" THEN tokens[t] ELSE "unused"]
    /\ spent' = IF KindOf[r] = "register" THEN spent ELSE spent \cup {<<r, arg[r].token>>}
    /\ Close(r, "done")
    /\ UNCHANGED <<expired, mail>>

\* transaction.atomic ends.
Commit(r) ==
    /\ pc[r] = "commit"
    /\ user' = wuser[r]
    /\ tokens' = Merged(r)
    /\ spent' = IF KindOf[r] = "register" THEN spent ELSE spent \cup {<<r, arg[r].token>>}
    /\ Close(r, "done")
    /\ UNCHANGED <<expired, mail>>

------------------------------------------------------------------------------
(* resend_verification_email and forgot_password: the user is read, the old *)
(* tokens are marked used, a new one is inserted and mailed.                *)
\* Mutant: whether the address is verified is not looked at.
StartLinkAlways(r) ==
    /\ Begins(r, "resend") \/ Begins(r, "forgot")
    /\ user # None
    /\ Step(r, "revoke")
    /\ UNCHANGED <<user, tokens, expired, mail, spent, memory>>

StartLink(r) ==
    /\ Begins(r, "resend") \/ Begins(r, "forgot")
    /\ user # None
    /\ user.verified <=> KindOf[r] = "forgot"
    /\ Step(r, "revoke")
    /\ UNCHANGED <<user, tokens, expired, mail, spent, memory>>

\* Nobody registered, verified already, or not verified yet.
NoLink(r) ==
    /\ Begins(r, "resend") \/ Begins(r, "forgot")
    /\ user # None => ~(user.verified <=> KindOf[r] = "forgot")
    /\ Rollback(r)

\* Mutant: a new link leaves the old ones alone.
RevokeNothing(r) ==
    /\ pc[r] = "revoke"
    /\ Step(r, "revoking")
    /\ UNCHANGED <<user, tokens, expired, mail, spent, memory>>

\* UPDATE ... SET is_used WHERE NOT is_used: the rows its snapshot shows unused.
RevokeBegins(r) ==
    /\ pc[r] = "revoke"
    /\ arg' = [arg EXCEPT ![r].old = Unused(r)]
    /\ Step(r, "revoking")
    /\ UNCHANGED <<user, tokens, expired, mail, spent, wuser, wtok>>

\* The rows that the UPDATE or DELETE in progress has still to reach.
Visits(r) == CASE pc[r] = "revoking" -> arg[r].old
               [] pc[r] = "sweepVerify" -> VerifyTokens \cap arg[r].old
               [] pc[r] = "sweepReset" -> ResetTokens \cap arg[r].old
               [] OTHER -> {}

\* The statement locks one more row, once nobody else holds it, and writes it unless
\* it is gone. A row that was used meanwhile fails the UPDATE's condition and is
\* locked all the same; "used" is then what it was.
VisitRow(r, t) ==
    /\ t \in Visits(r)
    /\ TokenFree(r, t)
    /\ wtok' = IF tokens[t] \in {"unused", "used"}
               THEN [wtok EXCEPT ![r][t] = IF pc[r] = "revoking" THEN "used" ELSE "deleted"]
               ELSE wtok
    /\ arg' = [arg EXCEPT ![r].old = @ \ {t}]
    /\ UNCHANGED <<user, tokens, expired, mail, spent, pc, wuser>>

\* The UPDATE is the last statement of reset_password's transaction, which keeps the
\* locks, and a transaction of its own before a new link.
RevokeEnds(r) ==
    /\ pc[r] = "revoking"
    /\ Visits(r) = {}
    /\ IF KindOf[r] = "reset"
       THEN Step(r, "commit") /\ UNCHANGED <<tokens, wtok>>
       ELSE /\ tokens' = Merged(r)
            /\ wtok' = [wtok EXCEPT ![r] = NoWrites]
            /\ Step(r, "issue")
    /\ UNCHANGED <<user, expired, mail, spent, arg, wuser>>

Issue(r, t) ==
    /\ pc[r] = "issue"
    /\ t \in TokensFor(r) /\ Fresh(t)
    /\ tokens' = [tokens EXCEPT ![t] = "unused"]
    /\ arg' = [arg EXCEPT ![r].token = t]
    /\ Step(r, "mail")
    /\ UNCHANGED <<user, expired, mail, spent, wuser, wtok>>

------------------------------------------------------------------------------
(* change_password: the user the JWT names, whom login found verified, is   *)
(* loaded with the request and the old password checked against it; the     *)
(* UPDATE writes one column.  A wrong old password changes nothing.         *)
StartChange(r, p) ==
    /\ Begins(r, "change")
    /\ user # None /\ user.verified
    /\ Step(r, "change")
    /\ arg' = [arg EXCEPT ![r].password = p]
    /\ UNCHANGED <<user, tokens, expired, mail, spent, wuser, wtok>>

ChangePassword(r) ==
    /\ pc[r] = "change"
    /\ UserFree(r)
    /\ user' = [user EXCEPT !.password = arg[r].password]
    /\ Close(r, "done")
    /\ UNCHANGED <<tokens, expired, mail, spent>>

\* UserService.update_status: one column, written blindly.
SetStatus(r, st) ==
    /\ Begins(r, "status")
    /\ user # None
    /\ UserFree(r)
    /\ user' = [user EXCEPT !.status = st]
    /\ Close(r, "done")
    /\ UNCHANGED <<tokens, expired, mail, spent>>

\* cleanup_expired_tokens_task: the cutoff, then one DELETE per table.
StartCleanup(r) ==
    /\ Begins(r, "cleanup")
    /\ arg' = [arg EXCEPT ![r].old = expired]
    /\ Step(r, "sweepVerify")
    /\ UNCHANGED <<user, tokens, expired, mail, spent, wuser, wtok>>

\* A DELETE has reached its last row, and is committed.
SweepEnds(r) ==
    /\ pc[r] \in {"sweepVerify", "sweepReset"}
    /\ Visits(r) = {}
    /\ tokens' = Merged(r)
    /\ IF pc[r] = "sweepVerify"
       THEN /\ Step(r, "sweepReset")
            /\ wtok' = [wtok EXCEPT ![r] = NoWrites]
            /\ UNCHANGED <<arg, wuser>>
       ELSE Close(r, "done")
    /\ UNCHANGED <<user, expired, mail, spent>>

------------------------------------------------------------------------------
\* The worker is killed, the database or the broker fails, or the database ends a
\* deadlock by aborting r.
Abort(r) == Open(r) /\ Rollback(r)

Start(r) == \/ \E p \in Passwords : StartRegister(r, p) \/ StartChange(r, p)
            \/ \E t \in Tokens : \/ StartVerify(r, t)
                                 \/ \E p \in Passwords : StartReset(r, t, p)
                                 \/ LinkRefused(r, t)
            \/ StartLink(r) \/ NoLink(r) \/ StartCleanup(r)
            \/ \E st \in UserStatus : SetStatus(r, st)

Serve(r) == \/ \E t \in Tokens : InsertUser(r, t) \/ Issue(r, t) \/ VisitRow(r, t)
            \/ AddressTaken(r) \/ MailLink(r) \/ SetPassword(r) \/ Consume(r)
            \/ ConsumeDeleted(r) \/ Activate(r) \/ MailWelcome(r) \/ Commit(r)
            \/ RevokeBegins(r) \/ RevokeEnds(r) \/ ChangePassword(r) \/ SweepEnds(r)

\* Nothing is being served: the requests left over may never come.
Quiet == (\A r \in Requests : ~Open(r)) /\ UNCHANGED vars

Next == \/ \E r \in Requests : Start(r) \/ Serve(r) \/ Abort(r)
        \/ \E t \in Tokens : Expire(t)
        \/ Quiet

Spec == Init /\ [][Next]_vars

------------------------------------------------------------------------------
\* Rows, arguments and writes hold what their declarations allow.
TypeOK ==
    /\ user \in User \cup {None}
    /\ tokens \in [Tokens -> {"absent", "unused", "used", "deleted"}]
    /\ expired \subseteq Tokens
    /\ mail \subseteq Task
    /\ spent \subseteq Requests \X Tokens
    /\ pc \in [Requests -> {"idle", "insert", "mail", "consume", "password", "activate",
                            "welcome", "revoke", "revoking", "issue", "change",
                            "sweepVerify", "sweepReset", "commit"} \cup Ended]
    /\ arg \in [Requests -> Args]
    /\ wuser \in [Requests -> User \cup {None}]
    /\ wtok \in [Requests -> [Tokens -> {"unused", "used", "deleted", None}]]

\* A link that worked never works again: the committed verification or reset and
\* the consumption of its token are one transaction, whatever else goes on.
SpentIsUsed == \A s \in spent : tokens[s[2]] \in {"used", "deleted"}

\* Nobody's address counts as verified unless a verification link was followed
\* to the end: a failure after Activate leaves nothing behind.
VerifiedByLink ==
    user # None /\ user.verified =>
        \E s \in spent : KindOf[s[1]] = "verify" /\ s[2] \in VerifyTokens

\* A one-time link has one effect at most (serially; two requests that read the
\* same token before either consumes it both go through).
SingleUse == \A s, z \in spent : s[2] = z[2] => s = z

\* Of all the links sent for one purpose at most one works, because issuing a
\* link revokes the older ones (serially).
OneLiveLink ==
    \A table \in {VerifyTokens, ResetTokens} :
        Cardinality({t \in table : IsValid(t)}) <= 1

\* Once the address is verified no verification link works any more (serially):
\* resend_verification_email refuses, and the link that verified is consumed.
VerifiedNeedsNoLink ==
    user # None /\ user.verified => \A t \in VerifyTokens : tokens[t] # "unused"

\* An account that was verified is suspended, and let in again, by administrators
\* only (serially): no link lifts a suspension, although verify_email sets the status
\* to active whatever it was.
StatusByAdministrator ==
    [][user # None /\ user.verified /\ user'.status # user.status =>
          \E r \in Requests : KindOf[r] = "status" /\ pc[r] = "idle" /\ pc'[r] = "done"]_user

\* A token row only ages: unused, used, deleted. Neither a consume nor a
\* revocation brings back a row that the cleanup deleted meanwhile.
Age(t) == CASE tokens[t] = "absent" -> 0 [] tokens[t] = "unused" -> 1
            [] tokens[t] = "used" -> 2 [] OTHER -> 3
TokensOnlyAge == [][\A t \in Tokens : Age(t) <= Age(t)']_tokens

\* The password of an account changes only through change_password or together
\* with the consumption of the link that allowed it.
PasswordByHolder ==
    [][user # None /\ user'.password # user.password =>
          \E r \in Requests :
              \/ pc[r] = "change" /\ pc'[r] = "done"
              \/ /\ pc[r] = "commit" /\ KindOf[r] = "reset"
                 /\ tokens'[arg[r].token] = "used"]_user

\* The rows the statement r is about to make, or is making, locks besides those r holds.
WantsUser(r) == pc[r] \in {"insert", "password", "activate", "change"}
WantedTokens(r) == IF pc[r] = "consume" THEN {arg[r].token} ELSE Visits(r)
WaitsFor(r, q) == /\ r # q
                  /\ \/ WantsUser(r) /\ wuser[q] # None
                     \/ \E t \in WantedTokens(r) : wtok[q][t] # None

\* No one of them can go on unless one of the others does, or one that is over.
Stuck(D) == \A r \in D : \E q \in Requests : WaitsFor(r, q) /\ (Open(q) => q \in D)

\* Requests wait for each other in a circle only if two of them are in the middle of
\* an UPDATE or DELETE of many rows of one table: verify_email, which locks a token
\* and then the user, and reset_password, which locks the user and then tokens, are
\* in opposite orders, and this alone never ends in a deadlock. Nor does anybody wait
\* for a request that is over.
SweepsTable(r, table) == \/ pc[r] = "revoking" /\ TokensFor(r) = table
                         \/ pc[r] = "sweepVerify" /\ table = VerifyTokens
                         \/ pc[r] = "sweepReset" /\ table = ResetTokens
CirclesAreSweeps ==
    \A D \in SUBSET {r \in Requests : Open(r)} :
        D # {} /\ Stuck(D) =>
            \E r, q \in D, table \in {VerifyTokens, ResetTokens} :
                WaitsFor(r, q) /\ SweepsTable(r, table) /\ SweepsTable(q, table)

------------------------------------------------------------------------------
(* What the transactions in flight own and have seen: the invariant that    *)
(* makes SpentIsUsed, VerifiedByLink and the action properties inductive.   *)

\* No row is written by two transactions.
LocksExclusive ==
    \A q, r \in Requests : q # r =>
        /\ wuser[q] = None \/ wuser[r] = None
        /\ \A t \in Tokens : wtok[q][t] = None \/ wtok[r][t] = None

\* What a transaction wrote still follows from the rows it will replace.
WritesFit(r) ==
    /\ \A t \in Tokens : /\ wtok[r][t] = "unused" => tokens[t] = "absent"
                         /\ wtok[r][t] \in {"used", "deleted"} =>
                                tokens[t] \in {"unused", "used"}
    /\ wuser[r] # None =>
          /\ KindOf[r] = "register" <=> user = None
          /\ KindOf[r] = "verify" => wuser[r].password = user.password
          /\ wuser[r].verified => KindOf[r] = "verify" \/ (user # None /\ user.verified)

\* A link was accepted; its token is consumed; the user row is written.
Accepted(r) == \/ pc[r] \in {"password", "consume", "activate", "welcome"}
               \/ /\ pc[r] \in {"revoke", "revoking", "commit"}
                  /\ KindOf[r] \in {"verify", "reset"}
Consumed(r) == Accepted(r) /\ pc[r] \notin {"password", "consume"}
Written(r) == \/ pc[r] \in {"welcome", "commit"}
              \/ pc[r] \in {"consume", "revoke", "revoking"} /\ KindOf[r] = "reset"
              \/ pc[r] = "mail" /\ KindOf[r] = "register"

\* Where a request of each kind can be, and what it has done by then.
OnTrack(r) ==
    /\ pc[r] \in {"insert", "password", "change"} => arg[r].password \in Passwords
    /\ pc[r] = "insert" => KindOf[r] = "register"
    /\ pc[r] = "password" => KindOf[r] = "reset"
    /\ pc[r] = "consume" => KindOf[r] \in {"verify", "reset"}
    /\ pc[r] \in {"activate", "welcome"} => KindOf[r] = "verify"
    /\ pc[r] = "commit" => KindOf[r] \in {"register", "verify", "reset"}
    /\ pc[r] \in {"revoke", "revoking"} => KindOf[r] \in {"resend", "forgot", "reset"}
    /\ pc[r] = "issue" => KindOf[r] \in {"resend", "forgot"}
    /\ pc[r] \in {"sweepVerify", "sweepReset"} => KindOf[r] = "cleanup"
    /\ pc[r] = "mail" => arg[r].token \in Tokens
    /\ pc[r] \in {"change", "revoke", "revoking", "issue"} => user # None
    /\ pc[r] = "idle" => wtok[r] = NoWrites
    /\ \A t \in Tokens :
          wtok[r][t] = "deleted" <=> wtok[r][t] # None /\ pc[r] \in {"sweepVerify", "sweepReset"}
    /\ Accepted(r) => arg[r].token \in TokensFor(r) /\ tokens[arg[r].token] # "absent"
    /\ Consumed(r) => wtok[r][arg[r].token] = "used"
    /\ Written(r) => wuser[r] # None

\* Tokens refer to a user.
TokensHaveUser == user = None => \A t \in Tokens : tokens[t] = "absent"

AccountInv == /\ TypeOK /\ LocksExclusive
              /\ \A r \in Requests : WritesFit(r) /\ OnTrack(r)
              /\ TokensHaveUser /\ SpentIsUsed /\ VerifiedByLink

------------------------------------------------------------------------------
(* Served one request at a time (MaxInFlight = 1), a request finds at its   *)
(* end what it read at its start: the invariant that makes the serial       *)
(* properties inductive.                                                    *)
OneAtATime == \A q, r \in Requests : Open(q) /\ Open(r) => q = r

\* The user row r will commit, from the committed one: with its first link, verified,
\* or with a new password.
Rewritten(r) ==
    /\ KindOf[r] = "register" =>
          /\ arg[r].token \in VerifyTokens /\ wtok[r][arg[r].token] = "unused"
          /\ wuser[r] = [verified |-> FALSE, status |-> "pending",
                         password |-> wuser[r].password]
    /\ KindOf[r] = "verify" =>
          wuser[r] = [user EXCEPT !.verified = TRUE, !.status = "active"]
    /\ KindOf[r] = "reset" => wuser[r] = [user EXCEPT !.password = wuser[r].password]

\* What r has read, and what it has written from it, still holds: its token is
\* unused, the older links are revoked, the address is verified or not as its kind
\* asks, the user row it has written differs from the committed one as it should.
StillStands(r) ==
    /\ ~Open(r) \/ pc[r] = "insert" \/ KindOf[r] \in {"resend", "forgot"} =>
           wuser[r] = None /\ (pc[r] # "revoking" => wtok[r] = NoWrites)
    /\ Accepted(r) => tokens[arg[r].token] = "unused"
    /\ \A t \in Tokens : wtok[r][t] = "unused" => KindOf[r] = "register" /\ t = arg[r].token
    /\ pc[r] = "issue" => \A t \in TokensFor(r) : tokens[t] # "unused"
    /\ pc[r] = "revoking" => \A t \in TokensFor(r) :
           tokens[t] = "unused" => t \in arg[r].old \/ wtok[r][t] = "used"
    /\ pc[r] \in {"revoke", "revoking", "issue"} /\ KindOf[r] # "reset" =>
           (user.verified <=> KindOf[r] = "forgot")
    /\ pc[r] = "change" => user.verified
    /\ wuser[r] # None => Rewritten(r)

\* Expired or not, one row of each table is unused at most.
OneUnused == \A table \in {VerifyTokens, ResetTokens} : \A s, t \in table :
                 tokens[s] = "unused" /\ tokens[t] = "unused" => s = t

SerialInv == /\ OneAtATime /\ \A r \in Requests : StillStands(r)
             /\ OneUnused /\ SingleUse /\ VerifiedNeedsNoLink

\* The account as callers see it: a token row is a link that works, or worked.
Live == {t \in Tokens : tokens[t] = "unused"}
Dead == {t \in Tokens : tokens[t] \in {"used", "deleted"}}
Promise == INSTANCE OneTimeLinks WITH
    account <- user, live <- Live, dead <- Dead, Status <- UserStatus

\* Served one at a time, each service is one step of OneTimeLinks at its commit, or
\* two for a new link (revoke, issue), wherever it fails.
ImplementsLinks == Promise!Spec

------------------------------------------------------------------------------
(* The invariant behind CirclesAreSweeps: where a request holds which rows. *)
(* Besides the statements on many rows, only verify_email holds tokens      *)
(* without the user row, between consume and the UPDATE of the user.        *)
LocksInOrder(r) ==
    /\ wuser[r] # None => \/ pc[r] \in {"mail", "welcome", "commit"}
                          \/ pc[r] \in {"consume", "revoke", "revoking"} /\ KindOf[r] = "reset"
    /\ \A t \in Tokens : wtok[r][t] # None =>
          \/ KindOf[r] = "verify" /\ t \in VerifyTokens /\ pc[r] = "activate"
          \/ /\ wuser[r] # None /\ pc[r] # "consume"
             /\ KindOf[r] = "reset" => t \in ResetTokens
             /\ KindOf[r] = "verify" => t \in VerifyTokens
          \/ \E table \in {VerifyTokens, ResetTokens} : SweepsTable(r, table) /\ t \in table
    /\ pc[r] = "revoking" => Visits(r) \subseteq TokensFor(r)
==============================================================================
