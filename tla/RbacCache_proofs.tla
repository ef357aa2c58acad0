-------------------------- MODULE RbacCache_proofs --------------------------
(***************************************************************************)
(* Proofs about RbacCache, for any users, roles, nodes, kinds of write and *)
(* number of requests at a time: its types, and what a cached menu tree    *)
(* may still say between requests.                                         *)
(***************************************************************************)
EXTENDS RbacCache, TLAPS

(* What a request has read and no write has outdated is what the tables    *)
(* say.                                                                    *)
Reading == {"tree_roles", "tree_perms", "tree_fill"}
UpToDate(p) ==
    /\ pc[p] \in Holding /\ ~req[p].old => req[p].super = IsSuper(req[p].user)
    /\ pc[p] = "tree_fill" /\ ~req[p].old => req[p].got = TreeOf(req[p].user, req[p].super)
    /\ pc[p] \in Reading => req[p].user \in Users

(* A tree that says something else is going to be evicted.                 *)
TreeKept(u) == Current(u) \/ \E p \in Procs : u \in Owed(p)

IInv == /\ TypeOK
        /\ \A p \in Procs : UpToDate(p)
        /\ \A u \in Users \ missed : TreeKept(u)

-----------------------------------------------------------------------------
Labels == {"idle", "tree_roles", "tree_perms", "tree_fill", "codes_read", "codes_evict",
           "app_users", "app_evict"}

LEMMA NoReqType == NoReq \in Req
BY DEF NoReq, Req

(* What the tables say of a user is a set of nodes.                        *)
LEMMA TablesType ==
    ASSUME NEW u
    PROVE  /\ \A s \in BOOLEAN : TreeOf(u, s) \subseteq Perms
           /\ IsSuper(u) \in BOOLEAN
BY DEF CodesOf, Active, TreeOf, IsSuper

LEMMA StepFacts ==
    ASSUME TypeOK, NEW p \in Procs, NEW l \in Labels, NEW r \in Req, Step(p, l, r)
    PROVE  /\ pc'[p] = l /\ req'[p] = r
           /\ \A q \in Procs \ {p} : pc'[q] = pc[q] /\ req'[q] = req[q]
           /\ pc' \in [Procs -> Labels] /\ req' \in [Procs -> Req]
BY DEF TypeOK, Labels, Step

-----------------------------------------------------------------------------
(* A request goes on while the tables stay: the users whose tree is not    *)
(* the tables' afterwards are missed, still owed, or were kept by another  *)
(* request.                                                                *)
LEMMA CacheStep ==
    ASSUME IInv, NEW p \in Procs, NEW l \in Labels, NEW r \in Req, Step(p, l, r),
           UNCHANGED <<tables, writes>>, UpToDate(p)',
           tree' \in [Users -> Trees], missed' \in SUBSET Users,
           \A u \in Users \ missed' :
              \/ u \in Owed(p)'
              \/ tree'[u].cached => tree'[u].nodes = TreeOf(u, IsSuper(u))
              \/ tree'[u] = tree[u] /\ u \notin Owed(p) /\ u \notin missed
    PROVE  IInv'
<1>1. /\ \A q \in Procs \ {p} : pc'[q] = pc[q] /\ req'[q] = req[q]
      /\ pc' \in [Procs -> Labels] /\ req' \in [Procs -> Req]
  BY StepFacts DEF IInv
<1>2. TypeOK'
  BY <1>1 DEF IInv, TypeOK, Labels, Stored, tables
<1>3. ASSUME NEW q \in Procs \ {p}
      PROVE  UpToDate(q)' /\ Owed(q)' = Owed(q)
  <2>1. UpToDate(q)
    BY DEF IInv
  <2>2. UpToDate(q)'
    BY <1>1, <2>1 DEF UpToDate, CodesOf, TreeOf, IsSuper, Active, RolesOf, tables
  <2> QED BY <1>1, <2>2 DEF Owed
<1>4. ASSUME NEW u \in Users, u \notin missed' PROVE TreeKept(u)'
  <2>1. TreeOf(u, IsSuper(u))' = TreeOf(u, IsSuper(u))
    BY DEF TreeOf, IsSuper, CodesOf, RolesOf, Active, tables
  <2>2. CASE tree'[u] = tree[u] /\ u \notin Owed(p) /\ u \notin missed
    <3>1. Current(u) \/ \E q \in Procs \ {p} : u \in Owed(q)
      BY <2>2 DEF IInv, TreeKept
    <3> QED BY <1>3, <2>1, <2>2, <3>1 DEF TreeKept, Current
  <2>3. CASE u \in Owed(p)' \/ (tree'[u].cached => tree'[u].nodes = TreeOf(u, IsSuper(u)))
    BY <2>1, <2>3 DEF TreeKept, Current
  <2> QED BY <1>4, <2>2, <2>3
<1> QED BY <1>2, <1>3, <1>4 DEF IInv

(* The special case of a request that owes nothing and writes no cache.    *)
LEMMA LocalStep ==
    ASSUME IInv, NEW p \in Procs, NEW l \in Labels, NEW r \in Req, Step(p, l, r),
           UNCHANGED <<tables, tree, writes, missed>>, Owed(p) = {}, UpToDate(p)'
    PROVE  IInv'
<1>1. tree' \in [Users -> Trees] /\ missed' \in SUBSET Users
  BY DEF IInv, TypeOK
<1>2. \A u \in Users \ missed' : tree'[u] = tree[u] /\ u \notin Owed(p) /\ u \notin missed
  OBVIOUS
<1> QED BY <1>1, <1>2, CacheStep

LEMMA Ended ==
    ASSUME TypeOK, NEW p \in Procs, End(p)
    PROVE  /\ "idle" \in Labels /\ NoReq \in Req /\ Step(p, "idle", NoReq)
           /\ UpToDate(p)' /\ Owed(p)' = {}
<1>1. "idle" \in Labels /\ NoReq \in Req /\ Step(p, "idle", NoReq)
  BY NoReqType DEF Labels, End
<1>2. pc'[p] = "idle"
  BY <1>1, StepFacts
<1> QED BY <1>1, <1>2 DEF UpToDate, Reading, Holding, Owed

(* The steps of a reader before it fills the cache, and the steps of role  *)
(* endpoints after their commit.                                           *)
LEMMA LookupInv ==
    ASSUME IInv, NEW p \in Procs,
           \/ \E u \in Users : TreeMiss(p, u)
           \/ TreeRoles(p) \/ TreePerms(p) \/ CodesRead(p) \/ CodesEvict(p)
    PROVE  IInv'
<1>1. /\ req[p] \in Req /\ UpToDate(p) /\ TypeOK /\ UNCHANGED <<tables, tree, writes, missed>>
      /\ Owed(p) = {}
  BY DEF IInv, TypeOK, TreeMiss, TreeRoles, TreePerms, CodesRead, CodesEvict, Owed
<1>2. ASSUME NEW u \in Users, TreeMiss(p, u) PROVE IInv'
  <2>1. PICK r : r = [NoReq EXCEPT !.user = u]
    OBVIOUS
  <2>2. r \in Req /\ r.user = u /\ "tree_roles" \in Labels /\ Step(p, "tree_roles", r)
    BY <1>2, <2>1, NoReqType DEF TreeMiss, Req, Labels
  <2>3. pc'[p] = "tree_roles" /\ req'[p] = r
    BY <1>1, <2>2, StepFacts
  <2>4. UpToDate(p)'
    BY <2>2, <2>3 DEF UpToDate, Holding
  <2> QED BY <1>1, <2>2, <2>4, LocalStep
<1>3. CASE TreeRoles(p)
  <2>1. PICK r : r = [req[p] EXCEPT !.super = IsSuper(req[p].user)]
    OBVIOUS
  <2>2. /\ r \in Req /\ r.user = req[p].user /\ r.super = IsSuper(r.user)
        /\ "tree_perms" \in Labels /\ Step(p, "tree_perms", r)
    BY <1>1, <1>3, <2>1, TablesType DEF TreeRoles, Req, Labels
  <2>3. pc[p] = "tree_roles" /\ pc'[p] = "tree_perms" /\ req'[p] = r
    BY <1>1, <1>3, <2>2, StepFacts DEF TreeRoles
  <2>4. UpToDate(p)'
    BY <1>1, <2>2, <2>3 DEF UpToDate, Reading, IsSuper, RolesOf, tables
  <2> QED BY <1>1, <2>2, <2>4, LocalStep
<1>4. CASE TreePerms(p)
  <2>1. PICK r : r = [req[p] EXCEPT !.got = TreeOf(req[p].user, req[p].super)]
    OBVIOUS
  <2>2. /\ r \in Req /\ r.user = req[p].user /\ r.super = req[p].super /\ r.old = req[p].old
        /\ r.got = TreeOf(r.user, r.super)
        /\ "tree_fill" \in Labels /\ Step(p, "tree_fill", r)
    BY <1>1, <1>4, <2>1, TablesType DEF TreePerms, Req, Labels
  <2>3. pc[p] = "tree_perms" /\ pc'[p] = "tree_fill" /\ req'[p] = r
    BY <1>1, <1>4, <2>2, StepFacts DEF TreePerms
  <2>4. UpToDate(p)'
    BY <1>1, <2>2, <2>3
       DEF UpToDate, Reading, Holding, IsSuper, TreeOf, CodesOf, Active, RolesOf, tables
  <2> QED BY <1>1, <2>2, <2>4, LocalStep
<1>5. CASE CodesRead(p) \/ CodesEvict(p)
  <2>1. End(p)
    BY <1>5 DEF CodesRead, CodesEvict
  <2> QED BY <1>1, <2>1, Ended, LocalStep
<1> QED BY <1>2, <1>3, <1>4, <1>5

LEMMA TreeFillInv == ASSUME IInv, NEW p \in Procs, TreeFill(p) PROVE IInv'
<1> DEFINE w == req[p].user
<1>1. /\ req[p] \in Req /\ UpToDate(p) /\ pc[p] = "tree_fill" /\ End(p) /\ TypeOK
      /\ w \in Users /\ UNCHANGED <<tables, writes>>
      /\ tree' = [tree EXCEPT ![w] = [cached |-> TRUE, nodes |-> req[p].got]]
      /\ missed' = IF req[p].old /\ req[p].got # TreeOf(w, IsSuper(w))
                   THEN missed \union {w} ELSE missed \ {w}
  BY DEF IInv, TypeOK, TreeFill, UpToDate, Reading
<1>2. tree' \in [Users -> Trees] /\ missed' \in SUBSET Users
  BY <1>1 DEF TypeOK, Trees, Req
<1>3. Owed(p) = {}
  BY <1>1 DEF Owed
<1>4. ASSUME NEW u \in Users, u \notin missed'
      PROVE  \/ tree'[u].cached => tree'[u].nodes = TreeOf(u, IsSuper(u))
             \/ tree'[u] = tree[u] /\ u \notin missed
  <2>1. CASE u = w
    <3>1. ~req[p].old \/ req[p].got = TreeOf(w, IsSuper(w))
      BY <1>1, <1>4, <2>1
    <3>2. req[p].got = TreeOf(w, IsSuper(w))
      BY <1>1, <3>1 DEF UpToDate, Holding
    <3>3. tree'[u].nodes = req[p].got
      BY <1>1, <2>1 DEF TypeOK
    <3> QED BY <2>1, <3>2, <3>3
  <2>2. CASE u # w
    <3>1. tree'[u] = tree[u]
      BY <1>1, <2>2 DEF TypeOK
    <3>2. u \notin missed
      BY <1>1, <1>4, <2>2
    <3> QED BY <3>1, <3>2
  <2> QED BY <2>1, <2>2
<1> QED BY <1>1, <1>2, <1>3, <1>4, Ended, CacheStep

LEMMA AppEvictInv == ASSUME IInv, NEW p \in Procs, AppEvict(p) PROVE IInv'
<1> DEFINE S == req[p].users
<1>1. /\ req[p] \in Req /\ End(p) /\ TypeOK /\ UNCHANGED <<tables, writes>> /\ Owed(p) = S
      /\ tree' = [u \in Users |-> IF u \in S THEN NoTree ELSE tree[u]]
      /\ missed' = missed \ S
  BY DEF IInv, TypeOK, AppEvict, Owed
<1>2. tree' \in [Users -> Trees] /\ missed' \in SUBSET Users
  BY <1>1 DEF TypeOK, Trees, NoTree
<1>3. ASSUME NEW u \in Users, u \notin missed'
      PROVE  \/ ~tree'[u].cached
             \/ tree'[u] = tree[u] /\ u \notin Owed(p) /\ u \notin missed
  BY <1>1, <1>3 DEF NoTree
<1> QED BY <1>1, <1>2, <1>3, Ended, CacheStep

LEMMA FailInv == ASSUME IInv, NEW p \in Procs, Fail(p) PROVE IInv'
<1>1. /\ req[p] \in Req /\ End(p) /\ TypeOK /\ UNCHANGED <<tables, tree, writes>>
      /\ missed' = missed \union {u \in Owed(p) : ~Current(u)}
  BY DEF IInv, TypeOK, Fail
<1>2. Owed(p) \subseteq Users
  BY <1>1 DEF Owed, Req
<1>3. tree' \in [Users -> Trees] /\ missed' \in SUBSET Users
  BY <1>1, <1>2 DEF TypeOK
<1>4. ASSUME NEW u \in Users, u \notin missed'
      PROVE  \/ tree'[u].cached => tree'[u].nodes = TreeOf(u, IsSuper(u))
             \/ tree'[u] = tree[u] /\ u \notin Owed(p) /\ u \notin missed
  BY <1>1, <1>4 DEF Current
<1> QED BY <1>1, <1>3, <1>4, Ended, CacheStep

(* A user is found through a binding or bound to nothing.                  *)
LEMMA FoundOrNot == ASSUME NEW u \in Users PROVE u \in Holders <=> ~BoundToNothing(u)
<1>1. u \in Holders <=> \E r \in RolesOf(u), q \in Perms : <<r, q>> \in grant
  BY DEF Holders
<1>2. ASSUME NEW r \in RolesOf(u), NEW q \in Perms, <<r, q>> \in grant
      PROVE  ~BoundToNothing(u)
  <2>1. <<r, q>> \in (RolesOf(u) \X Perms) \intersect grant
    BY <1>2
  <2> QED BY <2>1 DEF BoundToNothing
<1>3. ASSUME NEW b \in (RolesOf(u) \X Perms) \intersect grant
      PROVE  \E r \in RolesOf(u), q \in Perms : <<r, q>> \in grant
  BY b = <<b[1], b[2]>>
<1> QED BY <1>1, <1>2, <1>3 DEF BoundToNothing

LEMMA AppUsersInv == ASSUME IInv, NEW p \in Procs, AppUsers(p) PROVE IInv'
<1>1. PICK r : r = [req[p] EXCEPT !.users = Holders]
  OBVIOUS
<1>2. /\ req[p] \in Req /\ TypeOK /\ pc[p] = "app_users" /\ UNCHANGED <<tables, tree, writes>>
      /\ missed' = missed \union {u \in Users : BoundToNothing(u) /\ ~Current(u)}
  BY DEF IInv, TypeOK, AppUsers
<1>3. r \in Req /\ r.users = Holders /\ "app_evict" \in Labels /\ Step(p, "app_evict", r)
  BY <1>1, <1>2 DEF AppUsers, Req, Labels, Holders
<1>4. pc'[p] = "app_evict" /\ req'[p] = r
  BY <1>2, <1>3, StepFacts
<1>5. UpToDate(p)' /\ Owed(p)' = Holders
  BY <1>3, <1>4 DEF UpToDate, Reading, Holding, Owed
<1>6. tree' \in [Users -> Trees] /\ missed' \in SUBSET Users
  BY <1>2 DEF TypeOK
<1>7. ASSUME NEW u \in Users, u \notin missed'
      PROVE  u \in Holders \/ (tree'[u].cached => tree'[u].nodes = TreeOf(u, IsSuper(u)))
  BY <1>2, <1>7, FoundOrNot DEF Current
<1> QED BY <1>2, <1>3, <1>5, <1>6, <1>7, CacheStep

LEMMA TreeExpireInv == ASSUME IInv, NEW w \in Users, TreeExpire(w) PROVE IInv'
<1>1. /\ tree' = [tree EXCEPT ![w] = NoTree] /\ missed' = missed \ {w}
      /\ UNCHANGED <<tables, pc, req, writes>>
  BY DEF TreeExpire
<1>2. TypeOK'
  <2>1. NoTree \in Trees
    BY DEF NoTree, Trees
  <2> QED BY <1>1, <2>1 DEF IInv, TypeOK, Stored, Req, Trees, tables
<1>3. ASSUME NEW q \in Procs
      PROVE  UpToDate(q)' /\ Owed(q)' = Owed(q)
  <2>1. UpToDate(q)
    BY DEF IInv
  <2> QED BY <1>1, <2>1 DEF UpToDate, Owed, CodesOf, TreeOf, IsSuper, Active, RolesOf, tables
<1>4. ASSUME NEW u \in Users \ missed' PROVE TreeKept(u)'
  <2>1. TreeOf(u, IsSuper(u))' = TreeOf(u, IsSuper(u))
    BY <1>1 DEF TreeOf, IsSuper, CodesOf, RolesOf, Active, tables
  <2>2. CASE u = w
    BY <1>1, <2>2 DEF IInv, TypeOK, TreeKept, Current, NoTree
  <2>3. CASE u # w
    <3>1. tree'[u] = tree[u] /\ TreeKept(u)
      BY <1>1, <2>3 DEF IInv, TypeOK
    <3> QED BY <1>3, <2>1, <3>1 DEF TreeKept, Current
  <2> QED BY <2>2, <2>3
<1> QED BY <1>2, <1>3, <1>4 DEF IInv

-----------------------------------------------------------------------------
(* A write that can change the trees of the users in U: it owes them the   *)
(* eviction, or counts those whose tree it outdates as missed.             *)
LEMMA WriteStep ==
    ASSUME IInv, NEW p \in Procs, NEW kind, NEW l \in Labels \ Reading,
           Write(p, kind, l),
           NEW U \in SUBSET Users,
           member' \in SUBSET (Users \X Roles), grant' \in SUBSET (Roles \X Stored'),
           perms' \in [Perms -> {"active", "inactive", "gone"}],
           missed' \in SUBSET Users, missed \subseteq missed',
           \A u \in Users \ U : TreeOf(u, IsSuper(u))' = TreeOf(u, IsSuper(u)),
           pc'[p] = l => \A u \in U : u \in Owed(p)' \/ Current(u)' \/ u \in missed'
    PROVE  IInv'
<1>1. /\ pc[p] = "idle" /\ UNCHANGED tree /\ TypeOK
      /\ pc' = [pc EXCEPT ![p] = l]
      /\ req' = [o \in Procs |-> [req[o] EXCEPT !.old = @ \/ pc[o] \in Holding]]
  BY DEF IInv, Write
<1>2. /\ pc' \in [Procs -> Labels] /\ req' \in [Procs -> Req] /\ pc'[p] = l
  <2>1. ASSUME NEW o \in Procs
        PROVE  [req[o] EXCEPT !.old = @ \/ pc[o] \in Holding] \in Req
    <3>1. req[o] \in Req /\ (req[o].old \/ pc[o] \in Holding) \in BOOLEAN
      BY <1>1 DEF TypeOK, Req
    <3> QED BY <3>1 DEF Req
  <2> QED BY <1>1, <2>1 DEF TypeOK, Labels
<1>3. writes' \in 0..MaxWrites
  BY <1>1, KindAssumption DEF Write, TypeOK
<1>4. TypeOK'
  BY <1>1, <1>2, <1>3 DEF TypeOK, Labels
<1>5. ASSUME NEW q \in Procs \ {p}
      PROVE  /\ pc'[q] = pc[q] /\ req'[q].user = req[q].user /\ req'[q].users = req[q].users
             /\ pc[q] \in Holding => req'[q].old
  <2>1. req[q] \in Req /\ req'[q] = [req[q] EXCEPT !.old = @ \/ pc[q] \in Holding]
    BY <1>1 DEF TypeOK
  <2>2. pc'[q] = pc[q]
    BY <1>1 DEF TypeOK
  <2> QED BY <2>1, <2>2 DEF Req
<1>6. ASSUME NEW q \in Procs PROVE UpToDate(q)'
  <2>1. CASE q = p
    BY <1>2, <2>1 DEF UpToDate, Reading, Holding
  <2>2. CASE q # p
    <3>1. UpToDate(q)
      BY DEF IInv
    <3> QED BY <1>5, <2>2, <3>1 DEF UpToDate, Reading, Holding
  <2> QED BY <2>1, <2>2
<1>7. ASSUME NEW q \in Procs, NEW u \in Owed(q) PROVE u \in Owed(q)'
  <2>1. q # p
    BY <1>1 DEF Owed
  <2> QED BY <1>5, <2>1 DEF Owed
<1>8. ASSUME NEW u \in Users, u \notin missed' PROVE TreeKept(u)'
  <2>1. CASE u \in U
    BY <1>2, <1>8, <2>1 DEF TreeKept
  <2>2. CASE u \notin U
    <3>1. TreeKept(u)
      BY <1>8 DEF IInv
    <3> QED BY <1>1, <1>7, <2>2, <3>1 DEF TreeKept, Current
  <2> QED BY <2>1, <2>2
<1> QED BY <1>4, <1>6, <1>8 DEF IInv

(* Changes of a user's roles.                                              *)
LEMMA MemberInv ==
    ASSUME IInv, NEW p \in Procs, NEW u \in Users, NEW r \in Roles,
           AssignRole(p, u, r) \/ RevokeRole(p, u, r)
    PROVE  IInv'
<1> DEFINE U == {u}
<1>1. PICK kind : Write(p, kind, "codes_read")
  BY DEF AssignRole, RevokeRole
<1>2. /\ TypeOK /\ UNCHANGED <<grant, perms>> /\ missed' = missed \union {v \in U : ~Current(v)'}
      /\ member' \in SUBSET (Users \X Roles)
      /\ \A v \in Users \ U, s \in Roles : <<v, s>> \in member' <=> <<v, s>> \in member
  BY DEF IInv, TypeOK, AssignRole, RevokeRole, Misses
<1>3. ASSUME NEW v \in Users \ U
      PROVE  TreeOf(v, IsSuper(v))' = TreeOf(v, IsSuper(v))
  <2>1. RolesOf(v)' = RolesOf(v)
    BY <1>2 DEF RolesOf
  <2> QED BY <1>2, <2>1 DEF CodesOf, TreeOf, IsSuper, Active
<1>4. /\ grant' \in SUBSET (Roles \X Stored') /\ perms' \in [Perms -> {"active", "inactive", "gone"}]
      /\ missed' \in SUBSET Users /\ missed \subseteq missed'
  BY <1>2 DEF TypeOK, Stored
<1>5. "codes_read" \in Labels \ Reading /\ U \in SUBSET Users
  BY DEF Labels, Reading
<1>6. \A v \in U : Current(v)' \/ v \in missed'
  BY <1>2
<1> HIDE DEF U
<1> QED BY <1>1, <1>2, <1>3, <1>4, <1>5, <1>6, WriteStep

(* An administrator replaces the bindings of a role.                       *)
LEMMA BindInv ==
    ASSUME IInv, NEW p \in Procs, NEW r \in Roles, NEW S \in SUBSET Perms, BindRole(p, r, S)
    PROVE  IInv'
<1> DEFINE U == {u \in Users : r \in RolesOf(u)}
<1>1. PICK kind : Write(p, kind, "codes_evict")
  BY DEF BindRole
<1>2. /\ TypeOK /\ UNCHANGED <<member, perms>> /\ missed' = missed \union {u \in U : ~Current(u)'}
      /\ grant' = Rebound(r, S) /\ S \subseteq Stored
  BY DEF IInv, BindRole, Misses
<1>3. \A s \in Roles \ {r}, q \in Perms : <<s, q>> \in grant' <=> <<s, q>> \in grant
  BY <1>2 DEF Rebound
<1>4. ASSUME NEW u \in Users \ U
      PROVE  TreeOf(u, IsSuper(u))' = TreeOf(u, IsSuper(u))
  <2>1. RolesOf(u)' = RolesOf(u) /\ Active' = Active /\ r \notin RolesOf(u)
    BY <1>2 DEF RolesOf, Active
  <2>2. RolesOf(u) \subseteq Roles \ {r} /\ Active \subseteq Perms
    BY <2>1 DEF RolesOf, Active
  <2>3. CodesOf(u)' = CodesOf(u)
    BY <1>3, <2>1, <2>2 DEF CodesOf
  <2> QED BY <2>1, <2>3 DEF TreeOf, IsSuper
<1>5. /\ grant' \in SUBSET (Roles \X Stored') /\ perms' \in [Perms -> {"active", "inactive", "gone"}]
      /\ missed' \in SUBSET Users /\ missed \subseteq missed' /\ member' \in SUBSET (Users \X Roles)
  BY <1>2 DEF TypeOK, Stored, Rebound
<1>6. "codes_evict" \in Labels \ Reading /\ U \in SUBSET Users
  BY DEF Labels, Reading
<1>7. \A u \in U : Current(u)' \/ u \in missed'
  BY <1>2
<1> HIDE DEF U
<1> QED BY <1>1, <1>2, <1>4, <1>5, <1>6, <1>7, WriteStep

(* The writes that end in clear_app_cache_for_users.                       *)
LEMMA AppWriteInv ==
    ASSUME IInv, NEW p \in Procs,
           \/ \E r \in Roles, S \in SUBSET Perms : SyncRole(p, r, S)
           \/ \E q \in Perms : ToggleMenu(p, q) \/ DeleteMenu(p, q)
    PROVE  IInv'
<1>1. PICK kind : Write(p, kind, "app_users")
  BY DEF SyncRole, ToggleMenu, DeleteMenu
<1>2. TypeOK /\ UNCHANGED <<member, missed>>
  BY DEF IInv, SyncRole, ToggleMenu, DeleteMenu
<1>3. perms' \in [Perms -> {"active", "inactive", "gone"}] /\ grant' \in SUBSET (Roles \X Stored')
  <2>1. ASSUME NEW r \in Roles, NEW S \in SUBSET Perms, SyncRole(p, r, S)
        PROVE  perms' \in [Perms -> {"active", "inactive", "gone"}] /\ grant' \in SUBSET (Roles \X Stored')
    BY <1>2, <2>1 DEF SyncRole, Rebound, Stored, TypeOK
  <2>2. ASSUME NEW q \in Perms, ToggleMenu(p, q)
        PROVE  perms' \in [Perms -> {"active", "inactive", "gone"}] /\ grant' \in SUBSET (Roles \X Stored')
    <3>1. Stored' = Stored /\ perms' \in [Perms -> {"active", "inactive", "gone"}]
      BY <1>2, <2>2 DEF ToggleMenu, Stored, TypeOK
    <3> QED BY <1>2, <2>2, <3>1 DEF ToggleMenu, TypeOK
  <2>3. ASSUME NEW q \in Perms, DeleteMenu(p, q)
        PROVE  perms' \in [Perms -> {"active", "inactive", "gone"}] /\ grant' \in SUBSET (Roles \X Stored')
    <3>1. Stored' = Stored \ {q} /\ perms' \in [Perms -> {"active", "inactive", "gone"}]
      BY <1>2, <2>3 DEF DeleteMenu, Stored, TypeOK
    <3> QED BY <1>2, <2>3, <3>1 DEF DeleteMenu, Unbound, TypeOK
  <2> QED BY <2>1, <2>2, <2>3
<1>4. pc'[p] = "app_users" => Owed(p)' = Users
  BY DEF Owed
<1>5. "app_users" \in Labels \ Reading /\ Users \in SUBSET Users
  BY DEF Labels, Reading
<1>6. member' \in SUBSET (Users \X Roles) /\ missed' \in SUBSET Users /\ missed \subseteq missed'
  BY <1>2 DEF TypeOK
<1> QED BY <1>1, <1>3, <1>4, <1>5, <1>6, WriteStep

-----------------------------------------------------------------------------
LEMMA Inductive == IInv /\ [Next]_vars => IInv'
<1> SUFFICES ASSUME IInv, [Next]_vars PROVE IInv'
  OBVIOUS
<1>1. CASE UNCHANGED vars
  <2>1. TypeOK'
    BY <1>1 DEF vars, IInv, TypeOK, Stored, Req, Trees
  <2>2. ASSUME NEW p \in Procs
        PROVE  UpToDate(p)' /\ Owed(p)' = Owed(p)
    <3>1. UpToDate(p)
      BY DEF IInv
    <3> QED BY <1>1, <3>1 DEF vars, UpToDate, Owed, CodesOf, TreeOf, IsSuper, Active, RolesOf
  <2>3. ASSUME NEW u \in Users PROVE TreeKept(u) => TreeKept(u)'
    <3>1. Current(u)' <=> Current(u)
      BY <1>1 DEF vars, Current, CodesOf, TreeOf, IsSuper, Active, RolesOf
    <3> QED BY <2>2, <3>1 DEF TreeKept
  <2> QED BY <1>1, <2>1, <2>2, <2>3 DEF vars, IInv
<1>2. ASSUME NEW u \in Users, TreeExpire(u) PROVE IInv'
  BY <1>2, TreeExpireInv
<1>3. ASSUME NEW p \in Procs, Arrive(p) PROVE IInv'
  BY <1>3, LookupInv, MemberInv, BindInv, AppWriteInv DEF Arrive
<1>4. ASSUME NEW p \in Procs, Resume(p) PROVE IInv'
  BY <1>4, LookupInv, TreeFillInv, AppEvictInv, AppUsersInv DEF Resume
<1>5. ASSUME NEW p \in Procs, Fail(p) PROVE IInv'
  BY <1>5, FailInv
<1> QED BY <1>1, <1>2, <1>3, <1>4, <1>5 DEF Next

LEMMA Initially == Init => IInv
<1> SUFFICES ASSUME Init PROVE IInv
  OBVIOUS
<1>1. Stored = Perms
  BY DEF Init, Stored
<1>2. TypeOK
  BY <1>1, NoReqType, KindAssumption DEF Init, TypeOK, NoTree, Trees
<1>3. \A p \in Procs : UpToDate(p)
  BY DEF Init, UpToDate, Reading, Holding
<1>4. \A u \in Users : TreeKept(u)
  BY DEF Init, TreeKept, Current, NoTree
<1> QED BY <1>2, <1>3, <1>4 DEF IInv

(* The tables, caches and requests keep their types, and no binding names  *)
(* a deleted node, for any number of writes and requests.                  *)
THEOREM TypeCorrect == Spec => []TypeOK
<1>1. IInv => TypeOK
  BY DEF IInv
<1> QED BY <1>1, Initially, Inductive, PTL DEF Spec

(* Whatever writes, fills and evictions overlap: between requests a cached *)
(* menu tree is the current one of every user whom no write has missed.    *)
THEOREM TreesAreFresh == Spec => []TreeFresh
<1>1. IInv => TreeFresh
  BY DEF IInv, TreeFresh, TreeKept, Quiet, Owed
<1> QED BY <1>1, Initially, Inductive, PTL DEF Spec
=============================================================================
