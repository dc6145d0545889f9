---------------------------- MODULE MCAccountLinks ----------------------------
(* Workloads for one address.                                               *)
EXTENDS AccountLinks, TLC

CONSTANTS r1, r2, r3, r4, r5, r6, r7, r8, r9, r10

\* Every link twice, an administrator and the cleanup.
Serially == r1 :> "register" @@ r2 :> "verify" @@ r3 :> "resend" @@ r4 :> "forgot"
         @@ r5 :> "forgot" @@ r6 :> "reset" @@ r7 :> "reset" @@ r8 :> "status"
         @@ r9 :> "verify" @@ r10 :> "cleanup"

\* Two registrations, two reset links, the holder and the cleanup at once.
Together == r1 :> "register" @@ r2 :> "register" @@ r3 :> "verify" @@ r4 :> "forgot"
         @@ r5 :> "forgot" @@ r6 :> "reset" @@ r7 :> "change" @@ r8 :> "cleanup"

\* Token values, passwords and requests of one kind are interchangeable.
Alike == Permutations(VerifyTokens) \cup Permutations(ResetTokens)
             \cup Permutations(Passwords) \cup Permutations({r4, r5})
AlikeTogether == Alike \cup Permutations({r1, r2})
AlikeSerially == Alike \cup Permutations({r6, r7}) \cup Permutations({r2, r9})
==============================================================================
