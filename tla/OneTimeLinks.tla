----------------------------- MODULE OneTimeLinks ------------------------------
(***************************************************************************)
(* What the services of AuthService around one address promise together:   *)
(* an account and its one-time links, when every service runs alone.  A    *)
(* link works until it is followed, replaced or swept away, and one of     *)
(* each kind at most.  AccountLinks implements this module when requests   *)
(* are served one at a time; overlapping requests do not.                  *)
(***************************************************************************)
CONSTANTS VerifyTokens,   \* links that verify the address
          ResetTokens,    \* links that set a new password
          Passwords,
          Status,         \* values of status
          None

VARIABLES account,        \* the account, None before it is registered
          live,           \* the links that work
          dead            \* the links that were sent and work no more

vars == <<account, live, dead>>

Init == account = None /\ live = {} /\ dead = {}

Dies(T) == live' = live \ T /\ dead' = dead \cup T

\* An account comes with the link that verifies it.
Register(t, p) ==
    /\ account = None
    /\ t \in VerifyTokens \ (live \cup dead)
    /\ account' = [verified |-> FALSE, status |-> "pending", password |-> p]
    /\ live' = live \cup {t}
    /\ UNCHANGED dead

\* A link of a kind no other works of: to verify the address as long as it is not
\* verified, to reset the password from then on.
Send(table, t) ==
    /\ account # None
    /\ account.verified <=> table = ResetTokens
    /\ live \cap table = {}
    /\ t \in table \ (live \cup dead)
    /\ live' = live \cup {t}
    /\ UNCHANGED <<account, dead>>

\* The link is replaced, or swept away once it has expired.
Revoke(table) == Dies(live \cap table) /\ UNCHANGED account

Verify(t) ==
    /\ t \in live \cap VerifyTokens
    /\ ~account.verified
    /\ account' = [account EXCEPT !.verified = TRUE, !.status = "active"]
    /\ Dies({t})

Reset(t, p) ==
    /\ t \in live \cap ResetTokens
    /\ account' = [account EXCEPT !.password = p]
    /\ Dies({t})

\* By its holder, who has to be signed in, and by an administrator.
Change(p) ==
    /\ account # None /\ account.verified
    /\ account' = [account EXCEPT !.password = p]
    /\ UNCHANGED <<live, dead>>

SetStatus(st) ==
    /\ account # None
    /\ account' = [account EXCEPT !.status = st]
    /\ UNCHANGED <<live, dead>>

Next == \/ \E p \in Passwords : \/ \E t \in VerifyTokens : Register(t, p)
                                \/ \E t \in ResetTokens : Reset(t, p)
                                \/ Change(p)
        \/ \E table \in {VerifyTokens, ResetTokens} :
              Revoke(table) \/ \E t \in table : Send(table, t)
        \/ \E t \in VerifyTokens : Verify(t)
        \/ \E st \in Status : SetStatus(st)

Spec == Init /\ [][Next]_vars
==============================================================================
