----------------------------- MODULE RbacCache -----------------------------
(***************************************************************************)
(* The menu trees the identity domain caches in Redis for one app,         *)
(* menu_tree:<user>:<app>: filled by readers (cache-aside, 300 s) and      *)
(* evicted by writes.  A write commits first and evicts afterwards, so     *)
(* every request is a coroutine and each database and Redis call a step of *)
(* its own.                                                                *)
(*                                                                         *)
(* The other cache, auth:perms:<user>, is no variable: no key of it is     *)
(* ever written.  cache_user_permissions, which would, joins the two link  *)
(* tables without a condition and without a foreign key between them,      *)
(* which SQLAlchemy refuses, after its callers have committed; the steps   *)
(* that delete such keys find none.                                        *)
(***************************************************************************)
EXTENDS Integers, FiniteSets

CONSTANTS
    Users, Roles, Perms,
    Super,      \* the role with code "super_admin" (no member of Roles: none)
    NoUser,
    Procs,      \* concurrent requests
    Kinds,      \* bound: the kinds of write the instance makes
    MaxWrites   \* bound: how many of them

AllKinds == {"assign", "revoke", "bind", "sync_roles", "toggle", "delete"}
ASSUME KindAssumption == Kinds \subseteq AllKinds /\ MaxWrites \in Nat
ASSUME UserAssumption == NoUser \notin Users

VARIABLES
    member,     \* auth_user_roles_link
    grant,      \* auth_role_permissions_link
    perms,      \* status of each row of auth_permissions
    tree,       \* menu_tree:<user>:<app>
    pc, req,
    writes,     \* bound: writes made so far
    missed      \* ghost: users whose outdated tree no request is going to evict

tables == <<member, grant, perms>>
vars   == <<member, grant, perms, tree, pc, req, writes, missed>>

NoTree == [cached |-> FALSE, nodes |-> {}]
(* old is a ghost: a write has committed since the request read the tables. *)
NoReq  == [user |-> NoUser, super |-> FALSE, users |-> {}, got |-> {}, old |-> FALSE]

(* What the tables say now. *)
Active      == {q \in Perms : perms[q] = "active"}
RolesOf(u)  == {r \in Roles : <<u, r>> \in member}
CodesOf(u)  == {q \in Active : \E r \in RolesOf(u) : <<r, q>> \in grant}
TreeOf(u, super) == IF super THEN Active ELSE CodesOf(u)
IsSuper(u)  == Super \in RolesOf(u)

(* The cached tree, if any, is the one the tables give.                    *)
Current(u) == tree[u].cached => tree[u].nodes = TreeOf(u, IsSuper(u))

(* The users clear_app_cache_for_users finds: they have a role that is     *)
(* bound to some stored node, active or not.                               *)
BoundToNothing(u) == (RolesOf(u) \X Perms) \intersect grant = {}
HoldersOfActive == {u \in Users : CodesOf(u) # {}}
Holders == {u \in Users : \E r \in RolesOf(u), q \in Perms : <<r, q>> \in grant}

(* Every table content; the caches start cold. *)
Init == /\ member \in SUBSET (Users \X Roles)
        /\ grant \in SUBSET (Roles \X Perms)
        /\ perms \in [Perms -> {"active", "inactive"}]
        /\ tree = [u \in Users |-> NoTree]
        /\ pc = [p \in Procs |-> "idle"]
        /\ req = [p \in Procs |-> NoReq]
        /\ writes = 0
        /\ missed = {}

Step(p, l, r) == /\ pc' = [pc EXCEPT ![p] = l]
                 /\ req' = [req EXCEPT ![p] = r]
End(p) == Step(p, "idle", NoReq)

-----------------------------------------------------------------------------
(* get_user_menu_tree.  A hit is returned; a miss reads the role codes,    *)
(* then the permissions, then fills the cache.                             *)
TreeMiss(p, u) ==
    /\ pc[p] = "idle"
    /\ ~tree[u].cached
    /\ Step(p, "tree_roles", [NoReq EXCEPT !.user = u])
    /\ UNCHANGED <<tables, tree, writes, missed>>

TreeRoles(p) ==
    /\ pc[p] = "tree_roles"
    /\ Step(p, "tree_perms", [req[p] EXCEPT !.super = IsSuper(req[p].user)])
    /\ UNCHANGED <<tables, tree, writes, missed>>

TreePerms(p) ==
    /\ pc[p] = "tree_perms"
    /\ Step(p, "tree_fill", [req[p] EXCEPT !.got = TreeOf(req[p].user, req[p].super)])
    /\ UNCHANGED <<tables, tree, writes, missed>>

TreeFill(p) ==
    LET u     == req[p].user
        stale == req[p].got # TreeOf(u, IsSuper(u))
    IN  /\ pc[p] = "tree_fill"
        /\ tree' = [tree EXCEPT ![u] = [cached |-> TRUE, nodes |-> req[p].got]]
        /\ missed' = IF req[p].old /\ stale THEN missed \union {u} ELSE missed \ {u}
        /\ End(p)
        /\ UNCHANGED <<tables, writes>>

(* The entry's 300 seconds are over. *)
NeverExpires(u) == FALSE
Expires(u)      == tree[u].cached
TreeExpire(u)   == /\ Expires(u)
                   /\ tree' = [tree EXCEPT ![u] = NoTree]
                   /\ missed' = missed \ {u}
                   /\ UNCHANGED <<tables, pc, req, writes>>

-----------------------------------------------------------------------------
(* Writes.  Each starts with the committed change, which makes what other  *)
(* requests have read and not yet stored out of date.                      *)
Holding == {"tree_perms", "tree_fill"}
Write(p, kind, next) ==
    /\ pc[p] = "idle"
    /\ kind \in Kinds
    /\ writes < MaxWrites
    /\ writes' = writes + 1
    /\ pc' = [pc EXCEPT ![p] = next]
    /\ req' = [o \in Procs |-> [req[o] EXCEPT !.old = @ \/ pc[o] \in Holding]]
    /\ UNCHANGED tree

(* A write that evicts no menu tree: the users whose tree it outdates.     *)
Misses(users) == missed' = missed \union {u \in users : ~Current(u)'}

(* assign_role_to_user (a role the user has is skipped) and                *)
(* revoke_role_from_user commit and go on to cache_user_permissions.       *)
AssignRole(p, u, r) ==
    /\ <<u, r>> \notin member
    /\ member' = member \union {<<u, r>>}
    /\ UNCHANGED <<grant, perms>>
    /\ Write(p, "assign", "codes_read")
    /\ Misses({u})

RevokeRole(p, u, r) ==
    /\ member' = member \ {<<u, r>>}
    /\ UNCHANGED <<grant, perms>>
    /\ Write(p, "revoke", "codes_read")
    /\ Misses({u})

(* cache_user_permissions: its select raises, the request ends in an error *)
(* and the pipeline below it is never reached.                             *)
CodesRead(p) ==
    /\ pc[p] = "codes_read"
    /\ End(p)
    /\ UNCHANGED <<tables, tree, writes, missed>>

(* assign_role_permissions replaces the bindings of a role, then deletes   *)
(* auth:perms of the users that have it, and no menu tree.                 *)
Stored        == {q \in Perms : perms[q] # "gone"}
Rebound(r, S) == {b \in grant : b[1] # r} \union {<<r, q>> : q \in S}
BindRole(p, r, S) ==
    /\ S \subseteq Stored
    /\ grant' = Rebound(r, S)
    /\ UNCHANGED <<member, perms>>
    /\ Write(p, "bind", "codes_evict")
    /\ Misses({u \in Users : r \in RolesOf(u)})

CodesEvict(p) ==
    /\ pc[p] = "codes_evict"
    /\ End(p)
    /\ UNCHANGED <<tables, tree, writes, missed>>

(* sync_roles replaces bindings; update_menu and sync_permissions switch a *)
(* node on or off; delete_menu removes a row, and the database removes its *)
(* bindings with it.  All of them end in clear_app_cache_for_users.        *)
SyncRole(p, r, S) ==
    /\ S \subseteq Stored
    /\ grant' = Rebound(r, S)
    /\ Write(p, "sync_roles", "app_users")
    /\ UNCHANGED <<member, perms, missed>>

ToggleMenu(p, q) ==
    /\ q \in Stored
    /\ perms' = [perms EXCEPT ![q] = IF @ = "active" THEN "inactive" ELSE "active"]
    /\ Write(p, "toggle", "app_users")
    /\ UNCHANGED <<member, grant, missed>>

UnboundNothing(q) == grant
Unbound(q)        == {b \in grant : b[2] # q}
DeleteMenu(p, q) ==
    /\ q \in Stored
    /\ perms' = [perms EXCEPT ![q] = "gone"]
    /\ grant' = Unbound(q)
    /\ Write(p, "delete", "app_users")
    /\ UNCHANGED <<member, missed>>

(* The users to evict are looked up after the commit; one no binding leads *)
(* to (any more) is not found.                                             *)
AppUsers(p) ==
    /\ pc[p] = "app_users"
    /\ Step(p, "app_evict", [req[p] EXCEPT !.users = Holders])
    /\ missed' = missed \union {u \in Users : BoundToNothing(u) /\ ~Current(u)}
    /\ UNCHANGED <<tables, tree, writes>>

AppEvict(p) ==
    /\ pc[p] = "app_evict"
    /\ tree' = [u \in Users |-> IF u \in req[p].users THEN NoTree ELSE tree[u]]
    /\ missed' = missed \ req[p].users
    /\ End(p)
    /\ UNCHANGED <<tables, writes>>

-----------------------------------------------------------------------------
(* An exception or a crash after the commit: nothing is evicted.           *)
(* Owed: the users whose trees the request had still to evict.             *)
Owed(p) == CASE pc[p] = "app_users" -> Users
             [] pc[p] = "app_evict" -> req[p].users
             [] OTHER               -> {}
Fail(p) == /\ pc[p] # "idle"
           /\ missed' = missed \union {u \in Owed(p) : ~Current(u)}
           /\ End(p)
           /\ UNCHANGED <<tables, tree, writes>>

Arrive(p) ==
    \/ \E u \in Users : TreeMiss(p, u)
    \/ \E u \in Users, r \in Roles : AssignRole(p, u, r) \/ RevokeRole(p, u, r)
    \/ \E r \in Roles, S \in SUBSET Perms : BindRole(p, r, S) \/ SyncRole(p, r, S)
    \/ \E q \in Perms : ToggleMenu(p, q) \/ DeleteMenu(p, q)
Resume(p) ==
    \/ TreeRoles(p) \/ TreePerms(p) \/ TreeFill(p)
    \/ CodesRead(p) \/ CodesEvict(p) \/ AppUsers(p) \/ AppEvict(p)

Next == \/ \E u \in Users : TreeExpire(u)
        \/ \E p \in Procs : Arrive(p) \/ Resume(p) \/ Fail(p)
Spec == Init /\ [][Next]_vars

(* A started coroutine is resumed, and Redis drops an expired entry.       *)
FairSpec == /\ Spec
            /\ \A p \in Procs : WF_vars(Resume(p))
            /\ \A u \in Users : WF_vars(TreeExpire(u))

-----------------------------------------------------------------------------
(* The tables, caches and requests have their types, and no binding names  *)
(* a role or a permission that is not stored.                              *)
Trees == [cached : BOOLEAN, nodes : SUBSET Perms]
Req   == [user : Users \union {NoUser}, super : BOOLEAN, users : SUBSET Users,
          got : SUBSET Perms, old : BOOLEAN]
TypeOK == /\ member \in SUBSET (Users \X Roles)
          /\ grant \in SUBSET (Roles \X Stored)
          /\ perms \in [Perms -> {"active", "inactive", "gone"}]
          /\ tree \in [Users -> Trees]
          /\ pc \in [Procs -> {"idle", "tree_roles", "tree_perms", "tree_fill", "codes_read",
                               "codes_evict", "app_users", "app_evict"}]
          /\ req \in [Procs -> Req]
          /\ writes \in 0..MaxWrites
          /\ missed \in SUBSET Users

Quiet == \A p \in Procs : pc[p] = "idle"

(* Between requests a cached menu tree is the one the tables give, unless  *)
(* what made it differ is one of four: a fill that had read the tables     *)
(* before a write committed, a request that failed between its commit and  *)
(* its eviction, a change of the user's roles or their bindings by the     *)
(* endpoints that evict no menu tree, or an app write that found no        *)
(* binding leading to the user (a super admin needs none).                 *)
TreeFresh == Quiet => \A u \in Users \ missed : Current(u)

(* Whatever writes overlapped with whatever fills, and whichever of them   *)
(* failed before evicting or evicts nothing: once the tables change no     *)
(* more, a stale menu tree disappears for good.                            *)
TreeEventuallyFresh ==
    <>[](\A u \in Users : Current(u))
=============================================================================
