---------------------------- MODULE SessionStore ----------------------------
(***************************************************************************)
(* What the auth domain promises about sessions, without tokens, Redis or  *)
(* the steps of a request: a session begins once, for one user, is renewed *)
(* by a session of the same user that takes its place, and once it is over *)
(* it never comes back.                                                    *)
(***************************************************************************)
CONSTANTS Users, Pairs, NoUser

VARIABLES
    session,  \* of each token pair: has it begun, may it be renewed
    owner     \* whose it is

Init == session = [g \in Pairs |-> "none"] /\ owner = [g \in Pairs |-> NoUser]

Begin(g, u) == /\ session[g] = "none"
               /\ session' = [session EXCEPT ![g] = "live"]
               /\ owner' = [owner EXCEPT ![g] = u]

(* The renewed session may have ended while the request was under way.     *)
Renew(g, h) == /\ session[g] # "none" /\ session[h] = "none"
               /\ session' = [session EXCEPT ![g] = "over", ![h] = "live"]
               /\ owner' = [owner EXCEPT ![h] = owner[g]]

(* By a logout, an administrator, a later login, or for their age.         *)
End(gs) == /\ \A g \in gs : session[g] = "live"
           /\ session' = [g \in Pairs |-> IF g \in gs THEN "over" ELSE session[g]]
           /\ UNCHANGED owner

Next == \/ \E g \in Pairs, u \in Users : Begin(g, u)
        \/ \E g, h \in Pairs : Renew(g, h)
        \/ \E gs \in SUBSET Pairs : End(gs)

Spec == Init /\ [][Next]_<<session, owner>>
=============================================================================
