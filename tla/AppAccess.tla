------------------------------ MODULE AppAccess ------------------------------
(***************************************************************************)
(* Which users may use which applications: the table auth_user_apps with   *)
(* its administrator operations, the check made by login, /roles and       *)
(* /permissions, and the two tables it depends on by ON DELETE CASCADE.    *)
(* The key of auth_user_apps begins with a serial id, so a pair of user    *)
(* and application may have several rows.                                  *)
(***************************************************************************)
EXTENDS Integers, FiniteSets

CONSTANTS
    Users, Apps, Procs,
    Expiries,  \* bound: the dates administrators set
    MaxTime,   \* bound: the clock stops here
    MaxRows,   \* bound: rows of auth_user_apps ever inserted
    MaxApps    \* bound: rows of auth_apps ever inserted

Never == -1  \* expired_at NULL
Keep  == -2  \* a field the request body leaves out (a null is_active, which the
             \* column refuses, is not modelled)

ASSUME AccessBounds == /\ Expiries \subseteq Nat
                       /\ MaxTime \in Nat /\ MaxRows \in Nat /\ MaxApps \in Nat

VARIABLES
    now,
    users,   \* ids of the users stored
    apps,    \* id of the row of each app_code, 0 if there is none
    appIds,  \* how many ids auth_apps has given out
    grants,  \* auth_user_apps: its rows
    rowIds,  \* how many ids it has given out
    asked,   \* ghost: what the last administrator's request for a pair asked
    raced,   \* ghost: pairs whose last write was made on an outdated read
    pc, req

store == <<users, apps, appIds, grants, rowIds>>
vars  == <<now, store, asked, raced, pc, req>>

Pairs    == Users \X Apps
Values   == [active : {0, 1}, exp : Expiries \union {Never}]
Changes  == [active : {0, 1, Keep}, exp : Expiries \union {Never, Keep}]
NoAccess == [active |-> 0, exp |-> Keep]
Row(i, k, v) == [id |-> i, pair |-> k, val |-> v]
Rows(k)  == {g \in grants : g.pair = k}

(* A request: its pair (or its application), the values it was sent, the   *)
(* row or application it read; missed, a ghost: another request wrote what *)
(* this one has read, or is about to write, since it began.                *)
NoReq == [op |-> "none", pair |-> <<>>, app |-> "none", val |-> NoAccess, read |-> {}, missed |-> FALSE]
Ended == {"idle", "done", "admitted", "refused", "failed"}

Step(p, l, r) == pc' = [pc EXCEPT ![p] = l] /\ req' = [req EXCEPT ![p] = r]
Goto(p, l)    == /\ Step(p, l, IF l \in Ended THEN NoReq ELSE req[p])
                 /\ UNCHANGED <<store, asked, raced>>
Begin(p, l, op, k, a, v) ==
    /\ pc[p] \in Ended
    /\ Step(p, l, IF l \in Ended THEN NoReq
                  ELSE [NoReq EXCEPT !.op = op, !.pair = k, !.app = a, !.val = v])
    /\ UNCHANGED <<now, store, asked, raced>>

(* Bounds: a request that inserts starts when there is an id left for it.  *)
Open(op) == Cardinality({p \in Procs : req[p].op = op})

(* Step for a request that writes to these pairs and applications.         *)
CommitStep(p, l, r, pairs, codes) ==
    /\ pc' = [pc EXCEPT ![p] = l]
    /\ req' = [q \in Procs |->
                CASE q = p -> r
                  [] q # p /\ (req[q].pair \in pairs \/ req[q].app \in codes)
                           -> [req[q] EXCEPT !.missed = TRUE]
                  [] OTHER -> req[q]]
(* ... the administrator's request for these pairs: no access.             *)
Withdraw(pairs) == /\ asked' = [k \in Pairs |-> IF k \in pairs THEN NoAccess ELSE asked[k]]
                   /\ raced' = raced \ pairs

-----------------------------------------------------------------------------
Init == /\ now = 0 /\ users = Users
        /\ apps = [a \in Apps |-> 0] /\ appIds = 0
        /\ grants = {} /\ rowIds = 0
        /\ asked = [k \in Pairs |-> NoAccess] /\ raced = {}
        /\ pc = [p \in Procs |-> "idle"]
        /\ req = [p \in Procs |-> NoReq]

(* grant_user_app_access: is there such an application?                    *)
AnyApp(a)    == TRUE
AppStored(a) == apps[a] # 0
GrantBegin(p, k, v) ==
    /\ rowIds + Open("grant") < MaxRows
    /\ Begin(p, IF AppStored(k[2]) THEN "look" ELSE "refused", "grant", k, "none", v)
UpdateBegin(p, k, v) == Begin(p, "look", "update", k, "none", v)

(* ... scalar_one_or_none on the rows of the pair, in grant and in update  *)
Look(p) ==
    /\ pc[p] = "look"
    /\ LET found == Rows(req[p].pair) IN
         \/ Cardinality(found) > 1 /\ Goto(p, "failed")
         \/ found = {} /\ req[p].op = "update" /\ Goto(p, "refused")
         \/ /\ Cardinality(found) = 1 \/ (found = {} /\ req[p].op = "grant")
            /\ Step(p, "write", [req[p] EXCEPT !.read = found])
            /\ UNCHANGED <<store, asked, raced>>
    /\ UNCHANGED now

(* ... and the write.  The ORM updates the columns that differ from what   *)
(* the request has read, and fails if the row is gone by then; if none     *)
(* differs it sends nothing.                                               *)
Assign(old, new) == [active |-> IF new.active = Keep THEN old.active ELSE new.active,
                     exp    |-> IF new.exp = Keep THEN old.exp ELSE new.exp]
Merge(stored, read, new) == [active |-> IF new.active = read.active THEN stored.active ELSE new.active,
                             exp    |-> IF new.exp = read.exp THEN stored.exp ELSE new.exp]
Settle(p, k) == /\ asked' = [asked EXCEPT ![k] = Assign(@, req[p].val)]
                /\ raced' = IF req[p].missed THEN raced \union {k}
                            ELSE IF req[p].op = "grant" THEN raced \ {k} ELSE raced
WriteRow(p) ==
    /\ pc[p] = "write"
    /\ \E read \in req[p].read :
         LET k   == req[p].pair
             new == Assign(read.val, req[p].val)
             row == {g \in grants : g.id = read.id}
         IN \/ row = {} /\ new # read.val /\ Goto(p, "failed")
            \/ /\ row # {} \/ new = read.val
               /\ grants' = (grants \ row) \union {Row(g.id, k, Merge(g.val, read.val, new)) : g \in row}
               /\ CommitStep(p, "refresh", req[p], {k}, {}) /\ Settle(p, k)
               /\ UNCHANGED <<users, apps, appIds, rowIds>>
    /\ UNCHANGED now

(* Both columns are foreign keys: a user or application that is not there  *)
(* is the database's error; grant has not looked for the user.             *)
InsertRow(p) ==
    /\ pc[p] = "write" /\ req[p].read = {}
    /\ LET k   == req[p].pair
           row == Row(rowIds + 1, k, req[p].val)
       IN \/ (k[1] \notin users \/ apps[k[2]] = 0) /\ Goto(p, "failed")
          \/ /\ k[1] \in users /\ apps[k[2]] # 0
             /\ rowIds' = rowIds + 1
             /\ grants' = grants \union {row}
             /\ CommitStep(p, "refresh", [req[p] EXCEPT !.read = {row}], {k}, {}) /\ Settle(p, k)
             /\ UNCHANGED <<users, apps, appIds>>
    /\ UNCHANGED now

(* The row is read again after the commit, by its key.                     *)
Refresh(p) ==
    /\ pc[p] = "refresh"
    /\ Goto(p, IF \E g \in grants, h \in req[p].read : g.id = h.id THEN "done" ELSE "failed")
    /\ UNCHANGED now

(* revoke_user_app_access: one DELETE for all rows of the pair.            *)
DeleteNewest(k) == {g \in Rows(k) : \A h \in Rows(k) : h.id <= g.id}
DeletePair(k)   == Rows(k)
Revoke(p, k) ==
    /\ pc[p] \in Ended
    /\ grants' = grants \ DeletePair(k)
    /\ Withdraw({k})
    /\ CommitStep(p, "done", NoReq, {k}, {})
    /\ UNCHANGED <<now, users, apps, appIds, rowIds>>

(* check_user_app_access, on the way to a login or to the user's rights.   *)
AdmitsInactive(v) == v.exp = Never \/ v.exp >= now
Admits(v)         == v.active = 1 /\ (v.exp = Never \/ v.exp >= now)
Check(p, k) ==
    /\ pc[p] \in Ended
    /\ k[1] \in users
    /\ \/ Cardinality(Rows(k)) > 1 /\ Goto(p, "failed")
       \/ /\ Cardinality(Rows(k)) <= 1
          /\ Goto(p, IF \E g \in Rows(k) : Admits(g.val) THEN "admitted" ELSE "refused")
    /\ UNCHANGED now

-----------------------------------------------------------------------------
(* create_app looks for the code, then inserts under its unique index.     *)
CreateBegin(p, a) ==
    /\ appIds + Open("create") < MaxApps
    /\ Begin(p, IF AppStored(a) THEN "refused" ELSE "create", "create", <<>>, a, NoAccess)
CreateApp(p) ==
    /\ pc[p] = "create"
    /\ LET a == req[p].app IN
         \/ apps[a] # 0 /\ Goto(p, "failed")
         \/ /\ apps[a] = 0
            /\ appIds' = appIds + 1
            /\ apps' = [apps EXCEPT ![a] = appIds']
            /\ CommitStep(p, "done", NoReq, {}, {a})
            /\ UNCHANGED <<users, grants, rowIds, asked, raced>>
    /\ UNCHANGED now

(* delete_app reads the application, then deletes that row (one that has   *)
(* no roles: their foreign key would refuse), and with it its grants.      *)
DropBegin(p, a) ==
    /\ pc[p] \in Ended
    /\ Step(p, IF AppStored(a) THEN "drop" ELSE "refused",
            IF AppStored(a) THEN [NoReq EXCEPT !.op = "drop", !.app = a, !.read = {apps[a]}] ELSE NoReq)
    /\ UNCHANGED <<now, store, asked, raced>>
DropApp(p) ==
    /\ pc[p] = "drop"
    /\ LET a    == req[p].app
           keys == {k \in Pairs : k[2] = a}
       IN \/ req[p].read # {apps[a]} /\ Goto(p, "done")
          \/ /\ req[p].read = {apps[a]}
             /\ apps' = [apps EXCEPT ![a] = 0]
             /\ grants' = {g \in grants : g.pair \notin keys}
             /\ Withdraw(keys)
             /\ CommitStep(p, "done", NoReq, keys, {a})
             /\ UNCHANGED <<users, appIds, rowIds>>
    /\ UNCHANGED now

(* admin_delete_user, of which only the cascade matters here.              *)
DeleteUser(p, u) ==
    /\ pc[p] \in Ended /\ u \in users
    /\ LET keys == {k \in Pairs : k[1] = u} IN
         /\ users' = users \ {u}
         /\ grants' = {g \in grants : g.pair \notin keys}
         /\ Withdraw(keys)
         /\ CommitStep(p, "done", NoReq, keys, {})
    /\ UNCHANGED <<now, apps, appIds, rowIds>>

Tick == now < MaxTime /\ now' = now + 1 /\ UNCHANGED <<store, asked, raced, pc, req>>

Next == \/ Tick
        \/ \E p \in Procs :
             \/ Look(p) \/ WriteRow(p) \/ InsertRow(p) \/ Refresh(p) \/ CreateApp(p) \/ DropApp(p)
             \/ \E k \in Pairs : Revoke(p, k) \/ Check(p, k)
             \/ \E k \in Pairs, v \in Values : GrantBegin(p, k, v)
             \/ \E k \in Pairs, v \in Changes : UpdateBegin(p, k, v)
             \/ \E a \in Apps : CreateBegin(p, a) \/ DropBegin(p, a)
             \/ \E u \in Users : DeleteUser(p, u)

Spec == Init /\ [][Next]_vars

-----------------------------------------------------------------------------
(* A pair that was last written on an up-to-date read has one row, exactly *)
(* as the last request asked, or none if access was withdrawn.  The rows   *)
(* two overlapping first grants insert are all gone after a revocation or  *)
(* the deletion of the user or the application.                            *)
GrantsAsAsked ==
    \A k \in Pairs \ raced :
        {g.val : g \in Rows(k)} = {asked[k]} \ {NoAccess} /\ Cardinality(Rows(k)) <= 1

(* The check admits a user for exactly as long as the last request about   *)
(* the pair allows, and never ends in a server error, unless that request  *)
(* wrote on an outdated read.                                              *)
Allowed(v) == v.active = 1 /\ v.exp # Keep /\ (v.exp = Never \/ v.exp >= now)
AccessAsAsked ==
    [][\A p \in Procs, k \in Pairs :
         Check(p, k) /\ k \notin raced
           => pc'[p] = IF Allowed(asked[k]) THEN "admitted" ELSE "refused"]_vars

(* An administrator's request ends in a server error only if another one   *)
(* wrote what it had read or was about to write, if the pair has rows from *)
(* such an overlap, or if the user does not exist.                         *)
FailsForCause ==
    [][\A p \in Procs :
         pc[p] \notin Ended /\ pc'[p] = "failed"
           => \/ req[p].missed \/ req[p].pair \in raced
              \/ req[p].op = "grant" /\ req[p].pair[1] \notin users]_vars
=============================================================================
