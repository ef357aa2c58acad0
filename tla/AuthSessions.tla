---------------------------- MODULE AuthSessions ----------------------------
(***************************************************************************)
(* Token pairs, Redis session records and user rows of the auth domain:    *)
(* login, refresh-token rotation, the get_current_user checks, logout,     *)
(* password change and the administrator operations that end sessions.     *)
(*                                                                         *)
(* An access token (AT) and a refresh token (RT) are always minted         *)
(* together, and the Redis record of the RT names the AT of its own pair,  *)
(* so one identity g \in Pairs stands for both JWTs and both jti.          *)
(* Each request is a coroutine: one action per stretch between two awaits. *)
(***************************************************************************)
EXTENDS Integers, FiniteSets

CONSTANTS
    Users,        \* user ids the database can assign
    Pairs,        \* token pairs that can be minted
    Procs,        \* concurrent requests
    NoUser, NoPair, NoProc,
    AccessLife,   \* lifetime of an AT and of a blacklist entry
    RefreshLife,  \* lifetime of an RT and of its "valid" record
    UsedLife,     \* lifetime of a "used" record (15 seconds in the code)
    MaxTime,      \* bound: the clock stops here
    MaxStamp      \* bound: password changes per user

ASSUME LifeAssumption ==
    /\ AccessLife \in Nat \ {0}
    /\ RefreshLife \in Nat \ {0}
    /\ UsedLife \in Nat \ {0}
ASSUME BoundAssumption == MaxTime \in Nat /\ MaxStamp \in Nat
ASSUME SentinelAssumption == NoUser \notin Users /\ NoPair \notin Pairs /\ NoProc \notin Procs

VARIABLES
    now,      \* wall clock shared by JWT checks and Redis TTLs
    users,    \* table auth.users
    lock,     \* row lock an open transaction holds on users[u]
    tok,      \* claims of the two JWTs of each pair, and its descent (ghost): the
              \* login it goes back to, the pair it replaced, the logins ended by then
    rtKey,    \* Redis auth:rt:<user>:<jti>
    black,    \* Redis auth:at:blacklist:<jti>: its expiry time, 0 if never set
    retired,  \* ghost: pairs replaced by a rotation, or ended by a later login
    ended,    \* ghost: login lineages a completed revocation has ended
    raced,    \* ghost: users with a write made while another request of theirs was open
    pc,       \* where each request is suspended
    req       \* its local variables

rowVars   == <<users, lock>>
redisVars == <<rtKey, black>>
ghostVars == <<retired, ended, raced>>
vars == <<now, users, lock, tok, rtKey, black, retired, ended, raced, pc, req>>

AuthOps  == {"me", "logout", "password"}
AdminOps == {"reset", "setactive", "delete", "force"}
Ops      == AuthOps \union AdminOps \union {"none", "login", "refresh"}
Labels   == {"idle", "login_keys", "collect", "issue", "rotate",
             "auth_black", "auth_keys", "auth_scan", "auth_user", "served",
             "write", "flush", "commit", "revoke_keys", "revoke_delete"}

Row    == [status : {"none", "live", "gone"}, active : BOOLEAN, version : Nat, stamp : Nat]
Token  == [user : Users \union {NoUser}, ver : Nat, stamp : Nat, root : Pairs \union {NoPair},
           parent : Pairs \union {NoPair}, after : SUBSET (Pairs \union {NoPair}),
           atExp : Nat, rtExp : Nat]
Record == [status : {"absent", "valid", "used"}, exp : Nat]
Req    == [op : Ops, user : Users \union {NoUser}, pair : Pairs \union {NoPair},
           ver : Nat, stamp : Nat, was : BOOLEAN, to : BOOLEAN,
           keys : SUBSET Pairs, todo : SUBSET Pairs, hits : SUBSET Pairs,
           retired : BOOLEAN, ended : BOOLEAN]

NoToken == [user |-> NoUser, ver |-> 0, stamp |-> 0, root |-> NoPair, parent |-> NoPair,
            after |-> {}, atExp |-> 0, rtExp |-> 0]
NoKey   == [status |-> "absent", exp |-> 0]
NoReq   == [op |-> "none", user |-> NoUser, pair |-> NoPair, ver |-> 0, stamp |-> 0,
            was |-> FALSE, to |-> FALSE, keys |-> {}, todo |-> {}, hits |-> {},
            retired |-> FALSE, ended |-> FALSE]

-----------------------------------------------------------------------------
(* What Redis answers at this instant: an expired key is gone. *)
Minted(g)      == tok[g].user # NoUser
RtStatus(g)    == IF rtKey[g].exp > now THEN rtKey[g].status ELSE "absent"
Blacklisted(g) == black[g] > now
(* KEYS auth:rt:<u>:* *)
KeysOf(u)      == {g \in Pairs : tok[g].user = u /\ RtStatus(g) # "absent"}
Lineages(u)    == {tok[g].root : g \in {h \in Pairs : tok[h].user = u}}

(* Bounds: a request that mints or changes a password only starts when the *)
(* instance has a pair, or a password, left for it.                        *)
Busy(ops)   == {p \in Procs : req[p].op \in ops}
CanMint     == Cardinality(Busy({"login", "refresh"})) < Cardinality({g \in Pairs : ~Minted(g)})
CanStamp(u) == users[u].stamp + Cardinality(Busy({"password", "reset"})) < MaxStamp

Start(p, l, r) == /\ pc[p] = "idle"
                  /\ pc' = [pc EXCEPT ![p] = l]
                  /\ req' = [req EXCEPT ![p] = r]
Step(p, l, r)  == /\ pc' = [pc EXCEPT ![p] = l]
                  /\ req' = [req EXCEPT ![p] = r]
Goto(p, l)     == pc' = [pc EXCEPT ![p] = l] /\ UNCHANGED req
End(p)         == Step(p, "idle", NoReq)
Revoking(u)    == [NoReq EXCEPT !.op = "force", !.user = u]

(* A request is open while a write it has yet to make depends on a row or  *)
(* a Redis answer it has already read.                                     *)
Open(q, u) == /\ req[q].user = u
              /\ \/ pc[q] \in {"login_keys", "collect", "issue", "rotate", "write", "commit",
                               "revoke_delete"}
                 \/ pc[q] = "served" /\ req[q].op = "password"
Race(p)    == raced' = raced \union {u \in {req[p].user} : \E q \in Procs \ {p} : Open(q, u)}

(* create_access_token and generate_refresh_token_pair for a fresh pair g. *)
Mint(g, u, ver, stamp, root, parent, after) ==
    tok' = [tok EXCEPT ![g] = [user |-> u, ver |-> ver, stamp |-> stamp, root |-> root,
                               parent |-> parent, after |-> after,
                               atExp |-> now + AccessLife, rtExp |-> now + RefreshLife]]

(* setex auth:rt:..., and DEL of a set of keys. *)
RtRecordAlwaysValid(status, life) == [status |-> "valid", exp |-> now + life]
RtRecord(status, life) == [status |-> status, exp |-> now + life]
RtWithoutNothing(keys) == rtKey
RtWithout(keys)        == [g \in Pairs |-> IF g \in keys THEN NoKey ELSE rtKey[g]]
(* setex auth:at:blacklist:<jti> for each jti of a set. *)
BlackWithUsedLife(jtis) == [g \in Pairs |-> IF g \in jtis THEN now + UsedLife ELSE black[g]]
BlackWith(jtis) == [g \in Pairs |-> IF g \in jtis THEN now + AccessLife ELSE black[g]]

-----------------------------------------------------------------------------
Init ==
    /\ now = 0
    /\ users = [u \in Users |-> [status |-> "none", active |-> FALSE, version |-> 0, stamp |-> 0]]
    /\ lock = [u \in Users |-> NoProc]
    /\ tok = [g \in Pairs |-> NoToken]
    /\ rtKey = [g \in Pairs |-> NoKey]
    /\ black = [g \in Pairs |-> 0]
    /\ retired = {} /\ ended = {} /\ raced = {}
    /\ pc = [p \in Procs |-> "idle"]
    /\ req = [p \in Procs |-> NoReq]

(* register and admin_create_user: a new id, version 1. *)
CreateUser(u, a) ==
    /\ users[u].status = "none"
    /\ users' = [users EXCEPT ![u] = [status |-> "live", active |-> a, version |-> 1, stamp |-> 0]]
    /\ UNCHANGED <<now, lock, tok, redisVars, ghostVars, pc, req>>

-----------------------------------------------------------------------------
(* Login.  is_active is not consulted; the app-access check only refuses.  *)
LoginRead(p, u) ==
    /\ users[u].status = "live"
    /\ CanMint
    /\ Start(p, "login_keys", [NoReq EXCEPT !.op = "login", !.user = u,
                               !.ver = users[u].version, !.stamp = users[u].stamp])
    /\ UNCHANGED <<now, rowVars, tok, redisVars, ghostVars>>

LoginKeys(p) ==
    /\ pc[p] = "login_keys"
    /\ LET keys == KeysOf(req[p].user) IN
         Step(p, IF keys = {} THEN "issue" ELSE "collect",
              [req[p] EXCEPT !.keys = keys, !.todo = keys])
    /\ UNCHANGED <<now, rowVars, tok, redisVars, ghostVars>>

(* One GET of the loop: a "valid:<at_jti>" answer queues a blacklist write. *)
LoginCollect(p) ==
    /\ pc[p] = "collect"
    /\ \E k \in req[p].todo :
         Step(p, "collect",
              [req[p] EXCEPT !.todo = @ \ {k},
                             !.hits = IF RtStatus(k) = "valid" THEN @ \union {k} ELSE @])
    /\ UNCHANGED <<now, rowVars, tok, redisVars, ghostVars>>

(* The pipeline: blacklist what the loop found, delete the listed keys. *)
LoginRevoke(p) ==
    /\ pc[p] = "collect"
    /\ req[p].todo = {}
    /\ black' = BlackWith(req[p].hits)
    /\ rtKey' = RtWithout(req[p].keys)
    /\ retired' = retired \union {g \in req[p].keys : RtStatus(g) = "valid"}
    /\ ended' = ended \union {tok[g].root : g \in req[p].keys}
    /\ Race(p)
    /\ Step(p, "issue", [req[p] EXCEPT !.keys = {}, !.hits = {}])
    /\ UNCHANGED <<now, rowVars, tok>>

LoginIssue(p) ==
    /\ pc[p] = "issue"
    /\ \E g \in Pairs :
         /\ ~Minted(g)
         /\ Mint(g, req[p].user, req[p].ver, req[p].stamp, g, NoPair, ended)
         /\ rtKey' = [rtKey EXCEPT ![g] = RtRecord("valid", RefreshLife)]
    /\ Race(p)
    /\ End(p)
    /\ UNCHANGED <<now, rowVars, black, retired, ended>>

-----------------------------------------------------------------------------
(* Refresh.  A record that reads "used" raises TokenRefreshConflictError   *)
(* and changes nothing, so it is no action.                                *)
RefreshReplay(p, g) ==
    /\ Minted(g) /\ now < tok[g].rtExp
    /\ RtStatus(g) = "absent"
    /\ Start(p, "revoke_keys", Revoking(tok[g].user))
    /\ UNCHANGED <<now, rowVars, tok, redisVars, ghostVars>>

RefreshAccept(p, g) ==
    /\ Minted(g) /\ now < tok[g].rtExp
    /\ RtStatus(g) = "valid"
    /\ CanMint
    /\ Start(p, "rotate", [NoReq EXCEPT !.op = "refresh", !.user = tok[g].user, !.pair = g])
    /\ UNCHANGED <<now, rowVars, tok, redisVars, ghostVars>>

(* The RT carries no "ver" claim, so payload.get("ver", 1) is 1. *)
RefreshedVersion == 1

(* One MULTI/EXEC pipeline. *)
RefreshRotate(p) ==
    /\ pc[p] = "rotate"
    /\ LET old == req[p].pair IN
         \E g \in Pairs :
           /\ ~Minted(g)
           /\ Mint(g, req[p].user, RefreshedVersion, tok[old].stamp, tok[old].root, old,
                   tok[old].after)
           /\ rtKey' = [rtKey EXCEPT ![old] = RtRecord("used", UsedLife),
                                     ![g] = RtRecord("valid", RefreshLife)]
           /\ black' = BlackWith({old})
           /\ retired' = retired \union {old}
    /\ Race(p)
    /\ End(p)
    /\ UNCHANGED <<now, rowVars, ended>>

-----------------------------------------------------------------------------
(* get_current_user in front of GET /me, logout and change_password. *)
AuthArrive(p, g, op) ==
    /\ Minted(g) /\ now < tok[g].atExp
    /\ op = "password" => CanStamp(tok[g].user)
    /\ Start(p, "auth_black", [NoReq EXCEPT !.op = op, !.user = tok[g].user, !.pair = g,
                               !.retired = (g \in retired),
                               !.ended = (tok[g].root \in ended)])
    /\ UNCHANGED <<now, rowVars, tok, redisVars, ghostVars>>

AuthBlacklist(p) ==
    /\ pc[p] = "auth_black"
    /\ IF Blacklisted(req[p].pair) THEN End(p) ELSE Goto(p, "auth_keys")
    /\ UNCHANGED <<now, rowVars, tok, redisVars, ghostVars>>

AuthKeys(p) ==
    /\ pc[p] = "auth_keys"
    /\ LET keys == KeysOf(req[p].user) IN
         IF keys = {} THEN End(p) ELSE Step(p, "auth_scan", [req[p] EXCEPT !.todo = keys])
    /\ UNCHANGED <<now, rowVars, tok, redisVars, ghostVars>>

AuthScan(p) ==
    /\ pc[p] = "auth_scan"
    /\ \E k \in req[p].todo :
         \/ /\ RtStatus(k) = "valid"
            /\ Step(p, "auth_user", [req[p] EXCEPT !.todo = {}])
         \/ /\ RtStatus(k) # "valid"
            /\ IF req[p].todo = {k}
               THEN End(p)
               ELSE Step(p, "auth_scan", [req[p] EXCEPT !.todo = @ \ {k}])
    /\ UNCHANGED <<now, rowVars, tok, redisVars, ghostVars>>

(* The row read here is the one change_password later increments: the      *)
(* request's session keeps the instance in its identity map.               *)
AuthUser(p) ==
    /\ pc[p] = "auth_user"
    /\ LET row == users[req[p].user] IN
         IF row.status = "live" /\ row.active /\ row.version = tok[req[p].pair].ver
         THEN Step(p, "served", [req[p] EXCEPT !.ver = row.version])
         ELSE End(p)
    /\ UNCHANGED <<now, rowVars, tok, redisVars, ghostVars>>

Serve(p) ==
    /\ pc[p] = "served"
    /\ \/ req[p].op = "me" /\ End(p)
       \/ req[p].op = "logout" /\ Step(p, "revoke_keys", Revoking(req[p].user))
       \/ req[p].op = "password" /\ Goto(p, "write")
    /\ UNCHANGED <<now, rowVars, tok, redisVars, ghostVars>>

-----------------------------------------------------------------------------
(* Administrator requests: the row is read, except by revoke_user_sessions. *)
AdminEntryNoRevoke(op) ==
    CASE op = "reset" -> "write" [] op = "setactive" -> "flush" [] op = "delete" -> "commit"
      [] OTHER -> "revoke_keys"
AdminEntry(op) ==
    CASE op = "reset" -> "write" [] op = "setactive" -> "flush" [] OTHER -> "revoke_keys"

AdminArrive(p, u, op, a) ==
    /\ op # "force" => users[u].status = "live"
    /\ op = "reset" => CanStamp(u)
    /\ op # "setactive" => ~a
    /\ Start(p, AdminEntry(op),
             [NoReq EXCEPT !.op = op, !.user = u, !.to = a,
                           !.ver = IF op = "reset" THEN users[u].version ELSE 0,
                           !.was = op = "setactive" /\ users[u].active])
    /\ UNCHANGED <<now, rowVars, tok, redisVars, ghostVars>>

(* Flush and commit of hashed_password and of the version read plus one.   *)
(* An UPDATE that finds no row raises.                                     *)
SameVersion(v) == v
NextVersion(v) == v + 1
PasswordWrite(p) ==
    LET u == req[p].user IN
    /\ pc[p] = "write"
    /\ lock[u] = NoProc
    /\ IF users[u].status = "live"
       THEN /\ users' = [users EXCEPT ![u].version = NextVersion(req[p].ver), ![u].stamp = @ + 1]
            /\ Race(p)
            /\ Step(p, "revoke_keys", Revoking(u))
       ELSE End(p) /\ UNCHANGED <<users, raced>>
    /\ UNCHANGED <<now, lock, tok, redisVars, retired, ended>>

(* admin_update_user flushes first: the UPDATE, sent only when the value   *)
(* differs from the one read, keeps the row locked during the revocation.  *)
Changes(r) == r.was # r.to
SetActiveFlush(p) ==
    LET u == req[p].user
        next == IF req[p].to THEN "commit" ELSE "revoke_keys" IN
    /\ pc[p] = "flush"
    /\ IF Changes(req[p])
       THEN /\ lock[u] = NoProc
            /\ IF users[u].status = "live"
               THEN lock' = [lock EXCEPT ![u] = p] /\ Goto(p, next)
               ELSE End(p) /\ UNCHANGED lock
       ELSE Goto(p, next) /\ UNCHANGED lock
    /\ UNCHANGED <<now, users, tok, redisVars, ghostVars>>

StillLocked(u) == UNCHANGED lock
Unlock(u) == lock' = [lock EXCEPT ![u] = NoProc]
SetActiveCommit(p) ==
    LET u == req[p].user IN
    /\ pc[p] = "commit" /\ req[p].op = "setactive"
    /\ IF Changes(req[p])
       THEN /\ users' = [users EXCEPT ![u].active = req[p].to]
            /\ Unlock(u)
       ELSE UNCHANGED rowVars
    /\ End(p)
    /\ UNCHANGED <<now, tok, redisVars, ghostVars>>

DeleteCommit(p) ==
    LET u == req[p].user IN
    /\ pc[p] = "commit" /\ req[p].op = "delete"
    /\ lock[u] = NoProc
    /\ users' = [users EXCEPT ![u].status = "gone"]
    /\ Race(p)
    /\ End(p)
    /\ UNCHANGED <<now, lock, tok, redisVars, retired, ended>>

-----------------------------------------------------------------------------
(* revoke_all_user_tokens: KEYS, then DEL of those keys.  No AT is         *)
(* blacklisted.  Two callers still have a commit to do afterwards.         *)
AfterRevoke(p) == IF req[p].op \in {"setactive", "delete"} THEN Goto(p, "commit") ELSE End(p)

RevokeKeys(p) ==
    /\ pc[p] = "revoke_keys"
    /\ LET keys == KeysOf(req[p].user) IN
         IF keys = {}
         THEN AfterRevoke(p) /\ Race(p) /\ ended' = ended \union Lineages(req[p].user)
         ELSE Step(p, "revoke_delete", [req[p] EXCEPT !.keys = keys]) /\ UNCHANGED <<ended, raced>>
    /\ UNCHANGED <<now, rowVars, tok, redisVars, retired>>

RevokeDelete(p) ==
    /\ pc[p] = "revoke_delete"
    /\ rtKey' = RtWithout(req[p].keys)
    /\ ended' = ended \union Lineages(req[p].user)
    /\ Race(p)
    /\ AfterRevoke(p)
    /\ UNCHANGED <<now, rowVars, tok, black, retired>>

-----------------------------------------------------------------------------
(* An exception or a crash: the request stops, its transaction rolls back. *)
Fail(p) ==
    /\ pc[p] # "idle"
    /\ lock' = [u \in Users |-> IF lock[u] = p THEN NoProc ELSE lock[u]]
    /\ End(p)
    /\ UNCHANGED <<now, users, tok, redisVars, ghostVars>>

Tick == now < MaxTime /\ now' = now + 1
        /\ UNCHANGED <<rowVars, tok, redisVars, ghostVars, pc, req>>

(* Steps that wait for a row lock, and those that do not. *)
LockStep(p) == PasswordWrite(p) \/ SetActiveFlush(p) \/ DeleteCommit(p)
FreeStep(p) ==
    \/ LoginKeys(p) \/ LoginCollect(p) \/ LoginRevoke(p) \/ LoginIssue(p)
    \/ RefreshRotate(p)
    \/ AuthBlacklist(p) \/ AuthKeys(p) \/ AuthScan(p) \/ AuthUser(p) \/ Serve(p)
    \/ SetActiveCommit(p) \/ RevokeKeys(p) \/ RevokeDelete(p)
Arrive(p) ==
    \/ \E u \in Users : LoginRead(p, u)
    \/ \E g \in Pairs : RefreshReplay(p, g) \/ RefreshAccept(p, g)
    \/ \E g \in Pairs, op \in AuthOps : AuthArrive(p, g, op)
    \/ \E u \in Users, op \in AdminOps, a \in BOOLEAN : AdminArrive(p, u, op, a)

Next ==
    \/ Tick
    \/ \E u \in Users, a \in BOOLEAN : CreateUser(u, a)
    \/ \E p \in Procs : Arrive(p) \/ FreeStep(p) \/ LockStep(p) \/ Fail(p)

Spec == Init /\ [][Next]_vars

(* A started coroutine is resumed; PostgreSQL queues row-lock waiters, so  *)
(* a waiter whose lock keeps becoming free gets it.                        *)
FairSpec == Spec /\ \A p \in Procs : WF_vars(FreeStep(p)) /\ SF_vars(LockStep(p))

-----------------------------------------------------------------------------
(* Every variable has its type: in particular no expiry time or version    *)
(* that the arithmetic on now and user.version produces leaves Nat.        *)
TypeOK ==
    /\ now \in Nat
    /\ users \in [Users -> Row]
    /\ lock \in [Users -> Procs \union {NoProc}]
    /\ tok \in [Pairs -> Token]
    /\ rtKey \in [Pairs -> Record]
    /\ black \in [Pairs -> Nat]
    /\ retired \in SUBSET Pairs /\ ended \in SUBSET (Pairs \union {NoPair})
    /\ raced \in SUBSET (Users \union {NoUser})
    /\ pc \in [Procs -> Labels]
    /\ req \in [Procs -> Req]

(* The session records, however requests interleave and crash and records  *)
(* expire, behave like the session store: a refresh ends its session and   *)
(* begins the next in one step, and no request brings a session back.      *)
Session == [g \in Pairs |-> IF ~Minted(g) THEN "none"
                            ELSE IF RtStatus(g) = "valid" THEN "live" ELSE "over"]
Owner   == [g \in Pairs |-> tok[g].user]
Store   == INSTANCE SessionStore WITH session <- Session, owner <- Owner
KeepsSessions == Store!Spec

(* An access token that was already replaced by a refresh, or ended by a   *)
(* newer login, when a request arrived with it never gets past             *)
(* get_current_user while its JWT is still unexpired.                      *)
RetiredNeverServed ==
    \A p \in Procs :
        pc[p] = "served" /\ req[p].retired => now >= tok[req[p].pair].atExp

(* The refresh token of a replaced pair is never again exchangeable:       *)
(* whatever the interleaving of rotations, logins and revocations, its     *)
(* Redis record does not read "valid" again.                               *)
RetiredRefreshDead == \A g \in retired : RtStatus(g) # "valid"

(* What follows is promised to users none of whose requests wrote while    *)
(* another was open: the service takes no lock across its Redis calls.     *)
Calm(g) == Minted(g) /\ tok[g].user \notin raced

(* A user has at most one live session: login ends the others first, and   *)
(* a rotation replaces the session it came from.                           *)
SingleSession ==
    \A g, h \in Pairs :
        /\ Calm(g) /\ Calm(h) /\ tok[g].user = tok[h].user
        /\ RtStatus(g) = "valid" /\ RtStatus(h) = "valid"
        => g = h

(* A refresh token is exchanged for one successor only.                    *)
OneSuccessor ==
    \A g, h \in Pairs :
        Calm(g) /\ Calm(h) /\ tok[g].parent = tok[h].parent /\ tok[g].parent # NoPair => g = h

(* Once a forced logout, password change, reset, ban or delete has removed *)
(* the sessions of a user, nothing descending from one of those logins has *)
(* a live session again: the user has to log in.                           *)
EndedLineageStaysEnded ==
    \A g \in Pairs : Calm(g) /\ tok[g].root \in ended => RtStatus(g) # "valid"

(* A deleted user leaves no live session behind.                           *)
GoneUserHasNoSession ==
    \A g \in Pairs :
        Calm(g) /\ users[tok[g].user].status = "gone" => RtStatus(g) # "valid"

(* Every password change raises the version of the row.                    *)
PasswordRaisesVersion ==
    [][\A u \in Users : users'[u].stamp # users[u].stamp
                           => users'[u].version > users[u].version \/ u \in raced']_vars

(* No token that goes back to an earlier password carries the version the  *)
(* user's row has now, so it is refused even where a crash between the     *)
(* commit and the revocation left its session alive.                       *)
OldPasswordTokensDead ==
    \A g \in Pairs :
        Calm(g) /\ tok[g].stamp < users[tok[g].user].stamp
        => tok[g].ver # users[tok[g].user].version

(* Every request that was accepted ends, also the ones that wait for a row *)
(* lock an administrator's transaction holds across its Redis calls.       *)
EveryRequestEnds == \A p \in Procs : pc[p] # "idle" ~> pc[p] = "idle"

(* A forced logout blacklists no access token, so one of a login that has  *)
(* been ended may still get past get_current_user; but that takes a live   *)
(* session, and the only sessions left alive go back to a login made after *)
(* that one was ended (or a write of the user overlapped another request). *)
EndedServedOnlyAfterNewLogin ==
    \A p \in Procs :
        pc[p] = "served" /\ req[p].ended /\ req[p].user \notin raced
        => \E h \in Pairs : /\ tok[h].user = req[p].user
                             /\ tok[req[p].pair].root \in tok[h].after

(* A statement of the repository the code does not keep.                   *)

(* The access token of a live session that goes back to the current        *)
(* password carries the version get_current_user will compare it with.     *)
LiveSessionUsable ==
    \A g \in Pairs :
        /\ Minted(g) /\ RtStatus(g) = "valid"
        /\ tok[g].stamp = users[tok[g].user].stamp
        => tok[g].ver = users[tok[g].user].version
=============================================================================
