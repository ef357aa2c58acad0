------------------------------- MODULE RoleSync -------------------------------
(***************************************************************************)
(* Roles of one app, their permission bindings and the users who hold      *)
(* them: the role report of a subsystem (sync_roles) and the               *)
(* administrator's operations on the same tables.  Every operation is one  *)
(* READ COMMITTED transaction; an action is one of its statements.  What a *)
(* transaction has written is private to its job until Commit, and other   *)
(* transactions wait for it where PostgreSQL makes them wait: at row locks *)
(* and at unique and foreign keys.                                         *)
(*                                                                         *)
(* role_name is written together with synced_at and read by no decision;   *)
(* it is left out.  Caches are the subject of RbacCache.                   *)
(***************************************************************************)
CONSTANTS Ids,      \* role ids; bound: rows stored or remembered at one time
          Codes, NoCode, Perms, Users, Procs, NoProc, NoId,
          Foreign,  \* codes that roles of other apps have: role_code is unique
                    \* over all apps
          Known,    \* the active permission nodes of the app
          Reports,  \* bound: the reports that subsystems send, some of Manifests
          Rebinds,  \* bound: what administrators bind, some of Items
          Edits,    \* bound: the administrator's operations that take place
          Given     \* bound: the codes administrators give, some of Codes

ASSUME IdAssumption   == NoId \notin Ids /\ NoCode \notin Codes
ASSUME ProcAssumption == NoProc \notin Procs
ASSUME PermAssumption == Foreign \subseteq Codes /\ Known \subseteq Perms

(* permission_codes is a list: twice says that it names a node twice.      *)
Items     == [perms : SUBSET Perms, twice : BOOLEAN]
Manifests == UNION {[S -> Items] : S \in SUBSET Codes}
ASSUME ReportAssumption == Reports \subseteq Manifests /\ Rebinds \subseteq Items /\ Given \subseteq Codes

VARIABLES
    code,    \* auth_roles.role_code by id, NoCode where there is no row
    synced,  \* ids whose synced_at is not NULL
    link,    \* auth_role_permissions_link
    held,    \* auth_user_roles_link
    lock,    \* who has updated or deleted the row of a role, uncommitted
    pc, job, \* the requests in progress and their locals
    asked,   \* history: what the last committed replacement of a role bound
    raced    \* history: roles whose last replacement overlapped another one

tables == <<code, synced, link, held>>
ghosts == <<asked, raced>>
vars == <<code, synced, link, held, lock, pc, job, asked, raced>>

Labels == {"idle", "insert", "compare", "lock", "see", "unbind", "bind", "check",
           "drop", "grant", "commit"}
Kinds  == {"none", "sync", "assign", "delete", "grant"}
NoJob  == [kind |-> "none", items |-> [c \in {} |-> {}], snap |-> [i \in Ids |-> NoCode],
           id |-> NoId, want |-> {}, twice |-> FALSE, changed |-> FALSE, todo |-> {},
           seen |-> {}, unbound |-> {}, bound |-> {}, rows |-> [i \in Ids |-> NoCode],
           drop |-> {}, who |-> {}, grant |-> {},
           looked |-> {}, dirty |-> {}, late |-> {}, moved |-> {}]
Job == [kind : Kinds, items : Manifests, snap : [Ids -> Codes \union {NoCode}],
        id : Ids \union {NoId}, want : SUBSET Perms, twice : BOOLEAN, changed : BOOLEAN,
        todo : SUBSET Ids, seen : SUBSET Perms, unbound : SUBSET (Ids \X Perms),
        bound : SUBSET (Ids \X Perms), rows : [Ids -> Codes \union {NoCode}],
        drop : SUBSET Ids, who : SUBSET Users, grant : SUBSET (Users \X Ids),
        looked : SUBSET Ids, dirty : SUBSET Ids, late : SUBSET (Users \X Ids),
        moved : SUBSET Ids]

Stored      == {i \in Ids : code[i] # NoCode}
BoundTo(i)  == {p \in Perms : <<i, p>> \in link}
InUseNever(i) == FALSE
InUse(i)    == \E u \in Users : <<u, i>> \in held
Bindings(i, perms) == {i} \X perms
OfNoRole(S) == {}
OfRoles(S)  == S \X Perms
HeldOf(S)   == Users \X S

(* The three sets of the report's diff. *)
SeenRole(j, i) == j.snap[i] # NoCode
NewCodes(j)    == {c \in DOMAIN j.items : \A i \in Ids : j.snap[i] # c}
CommonRoles(j) == {i \in Ids : SeenRole(j, i) /\ j.snap[i] \in DOMAIN j.items}
NeverPruned(j) == {}
PrunedRoles(j) == {i \in Ids : SeenRole(j, i) /\ j.snap[i] \notin DOMAIN j.items}
(* perm_code_to_id drops what is not an active node of the app. *)
Target(item)   == item.perms \intersect Known

-----------------------------------------------------------------------------
Init == /\ code = [i \in Ids |-> NoCode]
        /\ synced = {} /\ link = {} /\ held = {}
        /\ lock = [i \in Ids |-> NoProc]
        /\ pc = [s \in Procs |-> "idle"]
        /\ job = [s \in Procs |-> NoJob]
        /\ asked = [i \in Ids |-> {}]
        /\ raced = {}

-----------------------------------------------------------------------------
(* Where PostgreSQL makes the next statement of s wait for t: for its row  *)
(* lock, for a key it has inserted or deleted, or for a reference it has   *)
(* inserted to a row that s wants to delete.                               *)
TouchesRole(j, i) == \/ \E p \in Perms : <<i, p>> \in j.bound \union j.unbound
                     \/ \E u \in Users : <<u, i>> \in j.grant
Pending(j)        == {j.rows[i] : i \in Ids} \union {code[i] : i \in j.drop}
ToDrop(j)         == IF j.kind = "sync" THEN PrunedRoles(j) ELSE {j.id}
Doomed(j)         == IF j.kind \in {"sync", "delete"} THEN ToDrop(j) ELSE {}
Kept(j)           == IF j.kind = "sync" THEN CommonRoles(j) ELSE {}
Blocks(t, s) ==
    LET j == job[s]
        o == job[t]
    IN  CASE pc[s] = "insert" -> NewCodes(j) \intersect Pending(o) # {}
          [] pc[s] = "lock"   -> lock[j.id] = t
          [] pc[s] = "unbind" -> j.id \in o.drop \/ Bindings(j.id, j.seen) \intersect o.unbound # {}
          [] pc[s] = "bind"   -> \/ j.id \in o.drop
                                 \/ Bindings(j.id, j.want) \intersect (o.bound \union o.unbound) # {}
          [] pc[s] = "drop"   -> \E i \in ToDrop(j) : lock[i] = t \/ TouchesRole(o, i)
          [] pc[s] = "grant"  -> j.id \in o.drop \/ (j.who \X {j.id}) \intersect o.grant # {}
          [] OTHER            -> FALSE
Blockers(s) == {t \in Procs \ {s} : Blocks(t, s)}

Goto(s, l, j) == pc' = [pc EXCEPT ![s] = l] /\ job' = [job EXCEPT ![s] = j]
Released(s)   == [i \in Ids |-> IF lock[i] = s THEN NoProc ELSE lock[i]]
Locked(s, S)  == [i \in Ids |-> IF i \in S THEN s ELSE lock[i]]

(* rollback and raise *)
Abort(s) == /\ Goto(s, "idle", NoJob)
            /\ lock' = Released(s)
            /\ UNCHANGED <<tables, ghosts>>

(* An id the sequence has not given out yet.                               *)
Fresh == {i \in Ids : /\ code[i] = NoCode
                      /\ \A s \in Procs : /\ job[s].snap[i] = NoCode
                                          /\ job[s].rows[i] = NoCode
                                          /\ job[s].id # i}

(* sync_roles: the roles of the app, which the whole diff is made of.      *)
SyncRead(s, items) ==
    /\ pc[s] = "idle"
    /\ Goto(s, "insert", [NoJob EXCEPT !.kind = "sync", !.items = items, !.snap = code])
    /\ UNCHANGED <<tables, lock, ghosts>>

(* Phase one: the new roles and their bindings.  role_code is unique over  *)
(* all apps, and permission_codes is inserted as it was reported.          *)
Refused(j) == \/ NewCodes(j) \intersect (Foreign \union {code[i] : i \in Ids}) # {}
              \/ \E c \in NewCodes(j) : j.items[c].twice /\ Target(j.items[c]) # {}
AfterInsert(j) == [j EXCEPT !.todo = CommonRoles(j)]
SyncInsert(s) ==
    LET j == job[s] IN
    /\ pc[s] = "insert" /\ Blockers(s) = {}
    /\ \/ Refused(j) /\ Abort(s)
       \/ /\ ~Refused(j)
          /\ \E idOf \in [NewCodes(j) -> Fresh] :
               /\ \A c, d \in NewCodes(j) : idOf[c] = idOf[d] => c = d
               /\ Goto(s, "compare",
                       [AfterInsert(j) EXCEPT
                          !.rows = [i \in Ids |-> IF \E c \in NewCodes(j) : idOf[c] = i
                                                  THEN CHOOSE c \in NewCodes(j) : idOf[c] = i
                                                  ELSE NoCode],
                          !.bound = UNION {Bindings(idOf[c], Target(j.items[c])) : c \in NewCodes(j)}])
          /\ UNCHANGED <<tables, lock, ghosts>>

(* Phase two, role by role in any order: read its bindings and compare.    *)
MissesOnly(i, want) == ~(want \subseteq BoundTo(i))
Differs(i, want)    == BoundTo(i) # want
SyncCompare(s) ==
    LET j == job[s] IN
    /\ pc[s] = "compare"
    /\ \/ \E i \in j.todo :
             LET want == Target(j.items[j.snap[i]]) IN
             Goto(s, "lock", [j EXCEPT !.todo = @ \ {i}, !.id = i, !.want = want,
                                       !.changed = Differs(i, want), !.looked = @ \union {i}])
       \/ /\ j.todo = {}
          /\ Goto(s, "check", [j EXCEPT !.todo = PrunedRoles(j), !.id = NoId])
    /\ UNCHANGED <<tables, lock, ghosts>>

(* The UPDATE of synced_at, sent before the next statement; it must find   *)
(* the row.                                                                *)
SyncLock(s) ==
    LET j == job[s] IN
    /\ pc[s] = "lock" /\ Blockers(s) = {}
    /\ \/ code[j.id] = NoCode /\ Abort(s)
       \/ /\ code[j.id] # NoCode
          /\ lock' = Locked(s, {j.id})
          /\ Goto(s, IF j.changed THEN "see" ELSE "compare", [j EXCEPT !.changed = FALSE])
          /\ UNCHANGED <<tables, ghosts>>

(* Full replacement: DELETE works on the rows of its snapshot that are     *)
(* still there when it gets them, then INSERT adds the new rows.           *)
See(s) ==
    /\ pc[s] = "see"
    /\ Goto(s, "unbind", [job[s] EXCEPT !.seen = BoundTo(job[s].id), !.looked = @ \union {job[s].id}])
    /\ UNCHANGED <<tables, lock, ghosts>>
Unbind(s) ==
    LET j == job[s] IN
    /\ pc[s] = "unbind" /\ Blockers(s) = {}
    /\ Goto(s, "bind", [j EXCEPT !.unbound = @ \union (Bindings(j.id, j.seen) \intersect link),
                                 !.seen = {}])
    /\ UNCHANGED <<tables, lock, ghosts>>
Bind(s) ==
    LET j == job[s]
        new == Bindings(j.id, j.want)
        refused == /\ j.want # {}
                   /\ j.twice \/ code[j.id] = NoCode \/ new \intersect (link \ j.unbound) # {}
    IN
    /\ pc[s] = "bind" /\ Blockers(s) = {}
    /\ \/ refused /\ Abort(s)
       \/ /\ ~refused
          /\ Goto(s, IF j.kind = "sync" THEN "compare" ELSE "commit",
                  [j EXCEPT !.bound = @ \union new,
                            !.want = IF j.kind = "sync" THEN {} ELSE @])
          /\ UNCHANGED <<tables, lock, ghosts>>

(* Phase three: one query per role that is not reported any more, and one  *)
(* DELETE of them all.                                                     *)
SyncCheck(s) ==
    LET j == job[s] IN
    /\ pc[s] = "check"
    /\ \/ \E i \in j.todo : \/ InUse(i) /\ Abort(s)
                            \/ /\ ~InUse(i)
                               /\ Goto(s, "check", [j EXCEPT !.todo = @ \ {i}])
                               /\ UNCHANGED <<tables, lock, ghosts>>
       \/ /\ j.todo = {}
          /\ Goto(s, IF PrunedRoles(j) = {} THEN "commit" ELSE "drop", j)
          /\ UNCHANGED <<tables, lock, ghosts>>

(* DELETE FROM auth_roles, by a report or by delete_role.                  *)
Drop(s) ==
    LET j == job[s]
        rows == ToDrop(j) \intersect Stored
    IN
    /\ pc[s] = "drop" /\ Blockers(s) = {}
    /\ lock' = Locked(s, rows)
    /\ Goto(s, "commit", [j EXCEPT !.drop = rows])
    /\ UNCHANGED <<tables, ghosts>>

-----------------------------------------------------------------------------
(* assign_role_permissions: refused for a role that a subsystem reports.   *)
BindableAny(i) == i \in Stored
Bindable(i)    == i \in Stored \ synced
AssignRead(s, i, item) ==
    /\ pc[s] = "idle"
    /\ Bindable(i)
    /\ Goto(s, "see", [NoJob EXCEPT !.kind = "assign", !.id = i, !.want = item.perms,
                                    !.twice = item.twice, !.looked = {i}])
    /\ UNCHANGED <<tables, lock, ghosts>>

(* delete_role *)
DeleteCheck(s, i) ==
    /\ pc[s] = "idle"
    /\ i \in Stored /\ ~InUse(i)
    /\ Goto(s, "drop", [NoJob EXCEPT !.kind = "delete", !.id = i])
    /\ UNCHANGED <<tables, lock, ghosts>>

(* assign_role_to_user: the role exists, the user does not hold it yet.    *)
GrantRead(s, u, i) ==
    /\ pc[s] = "idle"
    /\ i \in Stored /\ <<u, i>> \notin held
    /\ Goto(s, "grant", [NoJob EXCEPT !.kind = "grant", !.id = i, !.who = {u}])
    /\ UNCHANGED <<tables, lock, ghosts>>
GrantInsert(s) ==
    LET j == job[s]
        new == j.who \X {j.id}
        refused == code[j.id] = NoCode \/ new \intersect held # {}
    IN
    /\ pc[s] = "grant" /\ Blockers(s) = {}
    /\ \/ refused /\ Abort(s)
       \/ /\ ~refused
          /\ Goto(s, "commit", [j EXCEPT !.grant = new])
          /\ UNCHANGED <<tables, lock, ghosts>>

(* COMMIT.  The rows of a deleted role's links go with it (ON DELETE       *)
(* CASCADE), those that were committed since the users were counted too.   *)
Reported(j)  == IF j.kind = "sync" THEN CommonRoles(j) \union {i \in Ids : j.rows[i] # NoCode} ELSE {}
Replaced(j)  == Reported(j) \union (IF j.kind = "assign" THEN {j.id} \intersect Stored ELSE {})
WantedBy(j, i) == IF j.kind = "assign" THEN j.want
                  ELSE Target(j.items[IF j.rows[i] # NoCode THEN j.rows[i] ELSE j.snap[i]])
Commit(s) ==
    LET j == job[s] IN
    /\ pc[s] = "commit"
    /\ code' = [i \in Ids |-> IF i \in j.drop THEN NoCode
                              ELSE IF j.rows[i] # NoCode THEN j.rows[i] ELSE code[i]]
    /\ synced' = (synced \union Reported(j)) \ j.drop
    /\ link' = ((link \ j.unbound) \union j.bound) \ OfRoles(j.drop)
    /\ held' = (held \union j.grant) \ HeldOf(j.drop)
    /\ lock' = Released(s)
    /\ pc' = [pc EXCEPT ![s] = "idle"]
    /\ job' = [t \in Procs |->
                 IF t = s THEN NoJob
                 ELSE [job[t] EXCEPT !.dirty = @ \union (Replaced(j) \intersect job[t].looked),
                                     !.late  = @ \union {a \in j.grant : a[2] \in Doomed(job[t])}]]
    /\ asked' = [i \in Ids |-> IF i \in j.drop THEN {}
                               ELSE IF i \in Replaced(j) THEN WantedBy(j, i) ELSE asked[i]]
    /\ raced' = ((raced \ Replaced(j)) \union (j.dirty \intersect Replaced(j))) \ j.drop

(* create_role and update_role: one row, one statement; a code that is     *)
(* taken meanwhile is refused by the unique index.                         *)
Untaken(c) == c \notin Foreign /\ \A i \in Ids : code[i] # c
CreateRole(i, c) ==
    /\ i \in Fresh /\ Untaken(c)
    /\ \A t \in Procs : c \notin Pending(job[t])
    /\ code' = [code EXCEPT ![i] = c]
    /\ UNCHANGED <<synced, link, held, lock, pc, job, ghosts>>
UpdateRole(i, c) ==
    /\ i \in Stored /\ Untaken(c)
    /\ lock[i] = NoProc
    /\ \A t \in Procs : c \notin Pending(job[t]) /\ ~TouchesRole(job[t], i)
    /\ code' = [code EXCEPT ![i] = c]
    /\ job' = [t \in Procs |-> [job[t] EXCEPT !.moved = @ \union ({i} \intersect Kept(job[t]))]]
    /\ UNCHANGED <<synced, link, held, lock, pc, ghosts>>

(* revoke_role_from_user *)
Revoke(u, i) ==
    /\ <<u, i>> \in held
    /\ \A t \in Procs : i \notin job[t].drop
    /\ held' = held \ {<<u, i>>}
    /\ UNCHANGED <<code, synced, link, lock, pc, job, ghosts>>

(* PostgreSQL aborts one transaction of a cycle of waits; any request may  *)
(* fail, or the process stop, between two statements.                      *)
DeadlockAbort(s) == (\E t \in Blockers(s) : s \in Blockers(t)) /\ Abort(s)
Fail(s) == pc[s] # "idle" /\ Abort(s)

-----------------------------------------------------------------------------
SyncStep(s) == \/ SyncCompare(s) \/ SyncCheck(s) \/ See(s) \/ Commit(s) \/ DeadlockAbort(s)
WaitStep(s) == SyncInsert(s) \/ SyncLock(s) \/ Unbind(s) \/ Bind(s) \/ Drop(s) \/ GrantInsert(s)
Start(s) ==
    \/ \E items \in Reports : SyncRead(s, items)
    \/ \E i \in Ids :
         \/ "assign" \in Edits /\ \E item \in Rebinds : AssignRead(s, i, item)
         \/ "delete" \in Edits /\ DeleteCheck(s, i)
         \/ "grant" \in Edits /\ \E u \in Users : GrantRead(s, u, i)
Admin ==
    \E i \in Ids :
         \/ "create" \in Edits /\ \E c \in Given : CreateRole(i, c)
         \/ "update" \in Edits /\ \E c \in Given : UpdateRole(i, c)
         \/ "revoke" \in Edits /\ \E u \in Users : Revoke(u, i)

Next == Admin \/ \E s \in Procs : Start(s) \/ SyncStep(s) \/ WaitStep(s) \/ Fail(s)

Spec == Init /\ [][Next]_vars

-----------------------------------------------------------------------------
(* Tables, locks and jobs have their types; every binding and every        *)
(* assignment names a stored role.                                         *)
TypeOK == /\ code \in [Ids -> Codes \union {NoCode}]
          /\ synced \subseteq Stored
          /\ link \subseteq Stored \X Perms
          /\ held \subseteq Users \X Stored
          /\ lock \in [Ids -> Procs \union {NoProc}]
          /\ pc \in [Procs -> Labels]
          /\ job \in [Procs -> Job]
          /\ asked \in [Ids -> SUBSET Perms]
          /\ raced \subseteq Stored

(* The bindings of a role are the ones its last replacement asked for,     *)
(* whether a report or an administrator made it, unless another            *)
(* replacement of the same role was committed while that one was on its    *)
(* way (sync_roles compares before it locks the role, and                  *)
(* assign_role_permissions locks nothing).                                 *)
BindingsAsAsked == \A i \in Stored \ raced : BoundTo(i) = asked[i]

(* An assignment of a role to a user ends by a revocation.  delete_role    *)
(* and the prune of a report take away only those that were made after     *)
(* they had counted the role's users.                                      *)
NoAssignmentLost ==
    [][\A s \in Procs : Commit(s) =>
         \A a \in held \ held' : a \in job[s].late]_vars

(* A role with synced_at is bound by its subsystem only: an administrator  *)
(* replaces its bindings only if its first report overlapped the request.  *)
SubsystemOwnsBindings ==
    [][\A s \in Procs : Commit(s) /\ job[s].kind = "assign" =>
         job[s].id \notin synced \/ job[s].id \in job[s].dirty]_vars

(* A report that commits leaves the app with the reported roles, and       *)
(* without every other role it had when the report was read; a role that   *)
(* was renamed in between keeps its new code.                              *)
RolesAsReported ==
    [][\A s \in Procs :
         LET j == job[s] IN
         Commit(s) /\ j.kind = "sync" =>
           /\ \A c \in DOMAIN j.items :
                \E i \in synced' : code'[i] = c \/ (i \in j.moved /\ j.snap[i] = c)
           /\ \A i \in Ids : j.snap[i] # NoCode /\ j.snap[i] \notin DOMAIN j.items
                             => code'[i] = NoCode]_vars
=============================================================================
