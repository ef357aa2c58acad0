------------------------ MODULE AuthSessions_proofs ------------------------
(***************************************************************************)
(* Proofs about AuthSessions, for every value of its constants: type       *)
(* correctness; that replaced tokens are never served or exchanged; that   *)
(* the records implement the session store; and what holds of the users    *)
(* none of whose requests wrote while another was open.                    *)
(***************************************************************************)
EXTENDS AuthSessions, TLAPS

(* Where a request is once the blacklist let it pass, and where it holds   *)
(* the pair of tokens it came with.                                        *)
PastBlacklist == {"auth_keys", "auth_scan", "auth_user", "served"}
Holding       == PastBlacklist \union {"auth_black", "rotate"}

(* A request in progress works for a user of the table, and one that holds *)
(* a pair of tokens holds a pair minted for that user.                     *)
LocalsOK(p) ==
    /\ pc[p] # "idle" => req[p].user \in Users
    /\ pc[p] \in Holding => req[p].pair \in Pairs /\ tok[req[p].pair].user = req[p].user

-----------------------------------------------------------------------------
(* Type correctness *)

(* The initial values are of their types. *)
LEMMA InitType == Init => TypeOK
BY LifeAssumption DEF Init, TypeOK, Row, Token, Record, Req, NoToken, NoKey, NoReq, Ops, AuthOps, AdminOps, Labels

(* A request that moves to label l with locals r keeps pc and req typed. *)
LEMMA StepType ==
    ASSUME TypeOK, NEW p \in Procs, NEW l \in Labels, NEW r \in Req, Step(p, l, r)
    PROVE  pc' \in [Procs -> Labels] /\ req' \in [Procs -> Req]
BY DEF TypeOK, Step

(* NoReq is a value of Req. *)
LEMMA NoReqType == NoReq \in Req
BY DEF NoReq, Req, Ops, AuthOps, AdminOps

(* Ending a request keeps pc and req typed. *)
LEMMA EndType ==
    ASSUME TypeOK, NEW p \in Procs, End(p)
    PROVE  pc' \in [Procs -> Labels] /\ req' \in [Procs -> Req]
BY NoReqType, StepType DEF End, Labels

(* Moving on with unchanged locals keeps pc and req typed. *)
LEMMA GotoType ==
    ASSUME TypeOK, NEW p \in Procs, NEW l \in Labels, Goto(p, l)
    PROVE  pc' \in [Procs -> Labels] /\ req' \in [Procs -> Req]
BY DEF TypeOK, Goto

(* The locals of a revocation are of type Req. *)
LEMMA RevokingType == ASSUME NEW u \in Users \union {NoUser} PROVE Revoking(u) \in Req
BY DEF Revoking, NoReq, Req, Ops, AuthOps, AdminOps

(* The locals of a request are of type Req. *)
LEMMA ReqFields ==
    ASSUME TypeOK, NEW p \in Procs
    PROVE  /\ req[p] \in Req
           /\ req[p].user \in Users \union {NoUser} /\ req[p].pair \in Pairs \union {NoPair}
           /\ req[p].ver \in Nat /\ req[p].stamp \in Nat
           /\ req[p].keys \in SUBSET Pairs /\ req[p].todo \in SUBSET Pairs
           /\ req[p].hits \in SUBSET Pairs
BY DEF TypeOK, Req

(* A read-only step of the authentication dependency keeps TypeOK. *)
LEMMA TypeUnchanged ==
    ASSUME TypeOK, UNCHANGED <<now, rowVars, tok, redisVars, ghostVars>>,
           pc' \in [Procs -> Labels], req' \in [Procs -> Req]
    PROVE  TypeOK'
BY DEF TypeOK, rowVars, redisVars, ghostVars

(* Minting writes a typed pair of tokens. *)
LEMMA MintType ==
    ASSUME TypeOK, NEW g \in Pairs, NEW u \in Users \union {NoUser}, NEW ver \in Nat,
           NEW stamp \in Nat, NEW root \in Pairs \union {NoPair},
           NEW parent \in Pairs \union {NoPair},
           NEW after \in SUBSET (Pairs \union {NoPair}), Mint(g, u, ver, stamp, root, parent, after)
    PROVE  tok' \in [Pairs -> Token]
BY LifeAssumption DEF TypeOK, Mint, Token

(* Marking a row deleted leaves a table of rows.                           *)
LEMMA GoneRow ==
    ASSUME NEW f \in [Users -> Row], NEW u
    PROVE  [f EXCEPT ![u].status = "gone"] \in [Users -> Row]
<1>1. CASE u \in Users
  <2>1. [f[u] EXCEPT !.status = "gone"] \in Row
    BY <1>1 DEF Row
  <2> QED
    BY <2>1
<1>2. CASE u \notin Users
  BY <1>2
<1> QED
  BY <1>1, <1>2

(* A write records at most the user it is about. *)
LEMMA RaceType ==
    ASSUME TypeOK, NEW p \in Procs, Race(p) \/ UNCHANGED raced
    PROVE  raced' \in SUBSET (Users \union {NoUser})
BY ReqFields DEF Race, TypeOK

(* Clearing the key lists of a request keeps its locals typed. *)
LEMMA LocalsCleared ==
    ASSUME TypeOK, NEW p \in Procs
    PROVE  [req[p] EXCEPT !.keys = {}, !.hits = {}] \in Req
BY DEF TypeOK, Req

(* Every login step preserves TypeOK. *)
LEMMA LoginType ==
    ASSUME TypeOK, NEW p \in Procs,
           \/ \E u \in Users : LoginRead(p, u)
           \/ LoginKeys(p) \/ LoginCollect(p) \/ LoginRevoke(p) \/ LoginIssue(p)
    PROVE  TypeOK'
<1> USE ReqFields
<1>1. CASE \E u \in Users : LoginRead(p, u)
  <2>1. PICK u \in Users : LoginRead(p, u)
    BY <1>1
  <2>2. users[u] \in Row
    BY DEF TypeOK
  <2> DEFINE r == [NoReq EXCEPT !.op = "login", !.user = u,
                                !.ver = users[u].version, !.stamp = users[u].stamp]
  <2>3. r \in Req
    BY <2>2 DEF NoReq, Req, Row, Ops, AuthOps, AdminOps
  <2>4. Step(p, "login_keys", r)
    BY <2>1 DEF LoginRead, Start, Step
  <2>5. "login_keys" \in Labels
    BY DEF Labels
  <2> HIDE DEF r
  <2> QED
    BY <2>1, <2>3, <2>4, <2>5, StepType, TypeUnchanged DEF LoginRead
<1>2. CASE LoginKeys(p)
  <2> DEFINE keys == KeysOf(req[p].user)
             r == [req[p] EXCEPT !.keys = keys, !.todo = keys]
             l == IF keys = {} THEN "issue" ELSE "collect"
  <2>1. r \in Req
    BY DEF KeysOf, Req
  <2>2. l \in Labels
    BY DEF Labels
  <2>3. Step(p, l, r)
    BY <1>2 DEF LoginKeys
  <2> HIDE DEF r, l
  <2> QED
    BY <1>2, <2>1, <2>2, <2>3, StepType, TypeUnchanged DEF LoginKeys
<1>3. CASE LoginCollect(p)
  <2>1. PICK k \in req[p].todo :
          Step(p, "collect",
               [req[p] EXCEPT !.todo = @ \ {k},
                              !.hits = IF RtStatus(k) = "valid" THEN @ \union {k} ELSE @])
    BY <1>3 DEF LoginCollect
  <2> DEFINE r == [req[p] EXCEPT !.todo = @ \ {k},
                                 !.hits = IF RtStatus(k) = "valid" THEN @ \union {k} ELSE @]
  <2>2. r \in Req
    BY DEF Req
  <2>3. Step(p, "collect", r) /\ "collect" \in Labels
    BY <2>1 DEF Labels
  <2> HIDE DEF r
  <2> QED
    BY <1>3, <2>2, <2>3, StepType, TypeUnchanged DEF LoginCollect
<1>4. CASE LoginRevoke(p)
  <2>1. black' \in [Pairs -> Nat]
    BY <1>4, LifeAssumption DEF LoginRevoke, BlackWith, TypeOK
  <2>2. rtKey' \in [Pairs -> Record]
    BY <1>4 DEF LoginRevoke, RtWithout, NoKey, TypeOK, Record
  <2>3. retired' \in SUBSET Pairs /\ ended' \in SUBSET (Pairs \union {NoPair})
    BY <1>4 DEF LoginRevoke, TypeOK, Token
  <2>4. pc' \in [Procs -> Labels] /\ req' \in [Procs -> Req]
    BY <1>4, StepType, LocalsCleared DEF LoginRevoke, Labels
  <2> QED
    BY <1>4, <2>1, <2>2, <2>3, <2>4, RaceType DEF LoginRevoke, TypeOK, rowVars
<1>5. CASE LoginIssue(p)
  <2>1. PICK g \in Pairs :
          /\ Mint(g, req[p].user, req[p].ver, req[p].stamp, g, NoPair, ended)
          /\ rtKey' = [rtKey EXCEPT ![g] = RtRecord("valid", RefreshLife)]
    BY <1>5 DEF LoginIssue
  <2>2. tok' \in [Pairs -> Token]
    <3>1. ended \in SUBSET (Pairs \union {NoPair})
      BY DEF TypeOK
    <3> QED
      BY <2>1, <3>1, MintType
  <2>3. rtKey' \in [Pairs -> Record]
    BY <2>1, LifeAssumption DEF RtRecord, TypeOK, Record
  <2>4. pc' \in [Procs -> Labels] /\ req' \in [Procs -> Req]
    BY <1>5, EndType DEF LoginIssue
  <2> QED
    BY <1>5, <2>2, <2>3, <2>4, RaceType DEF LoginIssue, TypeOK, rowVars
<1> QED
  BY <1>1, <1>2, <1>3, <1>4, <1>5

(* Every refresh step preserves TypeOK. *)
LEMMA RefreshType ==
    ASSUME TypeOK, NEW p \in Procs, LocalsOK(p),
           \/ \E g \in Pairs : RefreshReplay(p, g) \/ RefreshAccept(p, g)
           \/ RefreshRotate(p)
    PROVE  TypeOK'
<1>1. CASE \E g \in Pairs : RefreshReplay(p, g)
  <2>1. PICK g \in Pairs : RefreshReplay(p, g)
    BY <1>1
  <2>2. tok[g].user \in Users \union {NoUser}
    BY DEF TypeOK, Token
  <2>3. Step(p, "revoke_keys", Revoking(tok[g].user)) /\ "revoke_keys" \in Labels
    BY <2>1 DEF RefreshReplay, Start, Step, Labels
  <2> QED
    BY <2>1, <2>2, <2>3, RevokingType, StepType, TypeUnchanged DEF RefreshReplay
<1>2. CASE \E g \in Pairs : RefreshAccept(p, g)
  <2>1. PICK g \in Pairs : RefreshAccept(p, g)
    BY <1>2
  <2>2. tok[g].user \in Users \union {NoUser}
    BY DEF TypeOK, Token
  <2> DEFINE r == [NoReq EXCEPT !.op = "refresh", !.user = tok[g].user, !.pair = g]
  <2>3. r \in Req
    BY <2>2 DEF NoReq, Req, Ops, AuthOps, AdminOps
  <2>4. Step(p, "rotate", r) /\ "rotate" \in Labels
    BY <2>1 DEF RefreshAccept, Start, Step, Labels
  <2> HIDE DEF r
  <2> QED
    BY <2>1, <2>3, <2>4, StepType, TypeUnchanged DEF RefreshAccept
<1>3. CASE RefreshRotate(p)
  <2> DEFINE old == req[p].pair
  <2>1. PICK g \in Pairs :
          /\ Mint(g, req[p].user, RefreshedVersion, tok[old].stamp, tok[old].root, old,
             tok[old].after)
          /\ rtKey' = [rtKey EXCEPT ![old] = RtRecord("used", UsedLife),
                                    ![g] = RtRecord("valid", RefreshLife)]
          /\ black' = BlackWith({old})
          /\ retired' = retired \union {old}
    BY <1>3 DEF RefreshRotate
  <2>2. old \in Pairs
    BY <1>3 DEF LocalsOK, RefreshRotate, Holding
  <2>3. /\ tok[old].stamp \in Nat /\ tok[old].root \in Pairs \union {NoPair}
        /\ tok[old].after \in SUBSET (Pairs \union {NoPair})
    BY <2>2 DEF TypeOK, Token
  <2>4. tok' \in [Pairs -> Token]
    <3>1. PICK s \in Nat, r \in Pairs \union {NoPair}, e \in SUBSET (Pairs \union {NoPair}) :
            s = tok[old].stamp /\ r = tok[old].root /\ e = tok[old].after
      BY <2>3
    <3>2. PICK u \in Users \union {NoUser} : u = req[p].user
      BY ReqFields
    <3>3. Mint(g, u, 1, s, r, old, e)
      BY <2>1, <3>1, <3>2 DEF RefreshedVersion
    <3> HIDE DEF old
    <3> QED
      BY <2>2, <3>3, MintType
  <2>5. rtKey' \in [Pairs -> Record]
    BY <2>1, <2>2, LifeAssumption DEF RtRecord, TypeOK, Record
  <2>6. black' \in [Pairs -> Nat]
    BY <2>1, LifeAssumption DEF BlackWith, TypeOK
  <2>7. pc' \in [Procs -> Labels] /\ req' \in [Procs -> Req]
    BY <1>3, EndType DEF RefreshRotate
  <2> QED
    BY <1>3, <2>1, <2>2, <2>4, <2>5, <2>6, <2>7, RaceType DEF RefreshRotate, TypeOK, rowVars
<1> QED
  BY <1>1, <1>2, <1>3

(* Every step of an authenticated request preserves TypeOK. *)
LEMMA AuthType ==
    ASSUME TypeOK, NEW p \in Procs, LocalsOK(p),
           \/ \E g \in Pairs, op \in AuthOps : AuthArrive(p, g, op)
           \/ AuthBlacklist(p) \/ AuthKeys(p) \/ AuthScan(p) \/ AuthUser(p) \/ Serve(p)
    PROVE  TypeOK'
<1> USE ReqFields
<1>0. /\ "auth_black" \in Labels /\ "auth_keys" \in Labels /\ "auth_scan" \in Labels
      /\ "auth_user" \in Labels /\ "served" \in Labels /\ "write" \in Labels
      /\ "revoke_keys" \in Labels
  BY DEF Labels
<1>1. CASE \E g \in Pairs, op \in AuthOps : AuthArrive(p, g, op)
  <2>1. PICK g \in Pairs, op \in AuthOps : AuthArrive(p, g, op)
    BY <1>1
  <2>2. tok[g].user \in Users \union {NoUser}
    BY DEF TypeOK, Token
  <2> DEFINE old == g \in retired
             out == tok[g].root \in ended
             r == [NoReq EXCEPT !.op = op, !.user = tok[g].user, !.pair = g,
                                !.retired = old, !.ended = out]
  <2>b. old \in BOOLEAN /\ out \in BOOLEAN
    OBVIOUS
  <2> HIDE DEF old, out
  <2>3. r \in Req
    BY <2>2, <2>b DEF NoReq, Req, Ops
  <2>4. Step(p, "auth_black", r)
    BY <2>1 DEF AuthArrive, Start, Step, old, out
  <2> HIDE DEF r
  <2> QED
    BY <1>0, <2>1, <2>3, <2>4, StepType, TypeUnchanged DEF AuthArrive
<1>2. CASE AuthBlacklist(p)
  <2>1. End(p) \/ Goto(p, "auth_keys")
    BY <1>2 DEF AuthBlacklist
  <2> QED
    BY <1>0, <1>2, <2>1, EndType, GotoType, TypeUnchanged DEF AuthBlacklist
<1>3. CASE AuthKeys(p)
  <2> DEFINE r == [req[p] EXCEPT !.todo = KeysOf(req[p].user)]
  <2>1. r \in Req
    BY DEF Req, KeysOf
  <2>2. End(p) \/ Step(p, "auth_scan", r)
    BY <1>3 DEF AuthKeys
  <2> HIDE DEF r
  <2> QED
    BY <1>0, <1>3, <2>1, <2>2, StepType, EndType, TypeUnchanged DEF AuthKeys
<1>4. CASE AuthScan(p)
  <2>1. PICK k \in req[p].todo :
          \/ Step(p, "auth_user", [req[p] EXCEPT !.todo = {}])
          \/ End(p)
          \/ Step(p, "auth_scan", [req[p] EXCEPT !.todo = @ \ {k}])
    BY <1>4 DEF AuthScan
  <2>2. /\ [req[p] EXCEPT !.todo = {}] \in Req
        /\ [req[p] EXCEPT !.todo = @ \ {k}] \in Req
    BY DEF Req
  <2> QED
    BY <1>0, <1>4, <2>1, <2>2, StepType, EndType, TypeUnchanged DEF AuthScan
<1>5. CASE AuthUser(p)
  <2> DEFINE r == [req[p] EXCEPT !.ver = users[req[p].user].version]
  <2>1. req[p].user \in Users
    BY <1>5 DEF LocalsOK, AuthUser
  <2>2. r \in Req
    BY <2>1 DEF TypeOK, Row, Req
  <2>3. End(p) \/ Step(p, "served", r)
    BY <1>5 DEF AuthUser
  <2> HIDE DEF r
  <2> QED
    BY <1>0, <1>5, <2>2, <2>3, StepType, EndType, TypeUnchanged DEF AuthUser
<1>6. CASE Serve(p)
  <2>1. End(p) \/ Step(p, "revoke_keys", Revoking(req[p].user)) \/ Goto(p, "write")
    BY <1>6 DEF Serve
  <2> QED
    BY <1>0, <1>6, <2>1, RevokingType, StepType, EndType, GotoType, TypeUnchanged DEF Serve
<1> QED
  BY <1>1, <1>2, <1>3, <1>4, <1>5, <1>6

(* Every step of an administrator's request, and every step that writes a  *)
(* user row, preserves TypeOK.                                             *)
LEMMA AdminType ==
    ASSUME TypeOK, NEW p \in Procs, LocalsOK(p),
           \/ \E u \in Users, op \in AdminOps, a \in BOOLEAN : AdminArrive(p, u, op, a)
           \/ LockStep(p) \/ SetActiveCommit(p)
    PROVE  TypeOK'
<1> USE ReqFields
<1> DEFINE me == req[p].user
<1>0. "write" \in Labels /\ "flush" \in Labels /\ "commit" \in Labels /\ "revoke_keys" \in Labels
  BY DEF Labels
<1>1. CASE \E u \in Users, op \in AdminOps, a \in BOOLEAN : AdminArrive(p, u, op, a)
  <2>1. PICK u \in Users, op \in AdminOps, a \in BOOLEAN : AdminArrive(p, u, op, a)
    BY <1>1
  <2>2. users[u].version \in Nat
    BY DEF TypeOK, Row
  <2> DEFINE v == IF op = "reset" THEN users[u].version ELSE 0
             w == op = "setactive" /\ users[u].active
             r == [NoReq EXCEPT !.op = op, !.user = u, !.to = a, !.ver = v, !.was = w]
  <2>3. v \in Nat /\ w \in BOOLEAN
    BY <2>2 DEF TypeOK, Row
  <2> HIDE DEF v, w
  <2>4. r \in Req
    BY <2>3 DEF NoReq, Req, Ops
  <2>5. AdminEntry(op) \in Labels
    BY <1>0 DEF AdminEntry
  <2>6. Step(p, AdminEntry(op), r)
    BY <2>1 DEF AdminArrive, Start, Step, v, w
  <2> HIDE DEF r
  <2> QED
    BY <2>1, <2>4, <2>5, <2>6, StepType, TypeUnchanged DEF AdminArrive
<1>2. CASE PasswordWrite(p)
  <2>1. me \in Users
    BY <1>2 DEF LocalsOK, PasswordWrite
  <2>2. users' \in [Users -> Row]
    BY <1>2, <2>1 DEF PasswordWrite, NextVersion, TypeOK, Row
  <2>3. End(p) \/ Step(p, "revoke_keys", Revoking(me))
    BY <1>2 DEF PasswordWrite
  <2>4. pc' \in [Procs -> Labels] /\ req' \in [Procs -> Req]
    BY <1>0, <2>3, RevokingType, StepType, EndType
  <2>5. raced' \in SUBSET (Users \union {NoUser})
    <3>1. Race(p) \/ raced' = raced
      BY <1>2 DEF PasswordWrite
    <3> QED
      BY <3>1, RaceType DEF TypeOK
  <2> QED
    BY <1>2, <2>2, <2>4, <2>5 DEF PasswordWrite, TypeOK, redisVars
<1>3. CASE SetActiveFlush(p)
  <2>1. End(p) \/ Goto(p, "commit") \/ Goto(p, "revoke_keys")
    BY <1>3 DEF SetActiveFlush
  <2>2. lock' \in [Users -> Procs \union {NoProc}]
    BY <1>3 DEF SetActiveFlush, TypeOK
  <2>3. pc' \in [Procs -> Labels] /\ req' \in [Procs -> Req]
    BY <1>0, <2>1, GotoType, EndType
  <2> QED
    BY <1>3, <2>2, <2>3 DEF SetActiveFlush, TypeOK, redisVars, ghostVars
<1>4. CASE DeleteCommit(p)
  <2>0. users' = [users EXCEPT ![me].status = "gone"] /\ Race(p) /\ End(p)
    BY <1>4 DEF DeleteCommit
  <2>1. users' \in [Users -> Row]
    <3>1. users \in [Users -> Row]
      BY DEF TypeOK
    <3> QED
      BY <2>0, <3>1, GoneRow
  <2> QED
    BY <1>4, <2>0, <2>1, EndType, RaceType DEF DeleteCommit, TypeOK, redisVars
<1>5. CASE SetActiveCommit(p)
  <2>1. req[p].to \in BOOLEAN
    BY DEF TypeOK, Req
  <2>2. users' \in [Users -> Row]
    <3>1. users' = [users EXCEPT ![me].active = req[p].to] \/ users' = users
      BY <1>5 DEF SetActiveCommit, rowVars
    <3>2. me \in Users
      BY <1>5 DEF LocalsOK, SetActiveCommit
    <3> QED
      BY <2>1, <3>1, <3>2 DEF TypeOK, Row
  <2>3. lock' \in [Users -> Procs \union {NoProc}]
    BY <1>5 DEF SetActiveCommit, Unlock, rowVars, TypeOK
  <2> QED
    BY <1>5, <2>2, <2>3, EndType DEF SetActiveCommit, TypeOK, redisVars, ghostVars
<1> QED
  BY <1>1, <1>2, <1>3, <1>4, <1>5 DEF LockStep

(* Both steps of a revocation preserve TypeOK. *)
LEMMA RevokeType ==
    ASSUME TypeOK, NEW p \in Procs, RevokeKeys(p) \/ RevokeDelete(p)
    PROVE  TypeOK'
<1> USE ReqFields
<1> DEFINE r == [req[p] EXCEPT !.keys = KeysOf(req[p].user)]
<1>1. ended' \in SUBSET (Pairs \union {NoPair})
  BY DEF RevokeKeys, RevokeDelete, Lineages, TypeOK, Token
<1>2. r \in Req /\ "revoke_delete" \in Labels /\ "commit" \in Labels
  BY DEF Req, KeysOf, Labels
<1>3. Goto(p, "commit") \/ End(p) \/ Step(p, "revoke_delete", r)
  BY DEF RevokeKeys, RevokeDelete, AfterRevoke
<1> HIDE DEF r
<1>4. pc' \in [Procs -> Labels] /\ req' \in [Procs -> Req]
  BY <1>2, <1>3, StepType, EndType, GotoType
<1>5. rtKey' \in [Pairs -> Record]
  BY DEF RevokeKeys, RevokeDelete, RtWithout, NoKey, redisVars, TypeOK, Record
<1> QED
  BY <1>1, <1>4, <1>5, RaceType DEF RevokeKeys, RevokeDelete, TypeOK, rowVars, redisVars

-----------------------------------------------------------------------------
(* The inductive strengthening of TypeOK *)

TypeInv == TypeOK /\ \A p \in Procs : LocalsOK(p)

RequestStep(p) == Arrive(p) \/ FreeStep(p) \/ LockStep(p) \/ Fail(p)

(* A step of request p leaves the locals of the others alone. *)
LEMMA OthersUntouched ==
    ASSUME NEW p \in Procs, NEW q \in Procs \ {p}, TypeOK, RequestStep(p)
    PROVE  pc'[q] = pc[q] /\ req'[q] = req[q]
BY DEF TypeOK, RequestStep, Arrive, FreeStep, LockStep, Fail, Start, Step, Goto, End, AfterRevoke,
       LoginRead, LoginKeys, LoginCollect, LoginRevoke, LoginIssue,
       RefreshReplay, RefreshAccept, RefreshRotate,
       AuthArrive, AuthBlacklist, AuthKeys, AuthScan, AuthUser, Serve,
       AdminArrive, PasswordWrite, SetActiveFlush, SetActiveCommit, DeleteCommit,
       RevokeKeys, RevokeDelete

(* Only the two minting steps touch the claims, and they take a fresh pair. *)
LEMMA TokensKept ==
    ASSUME NEW p \in Procs, RequestStep(p), ~LoginIssue(p), ~RefreshRotate(p)
    PROVE  UNCHANGED tok
BY DEF RequestStep, Arrive, FreeStep, LockStep, Fail,
       LoginRead, LoginKeys, LoginCollect, LoginRevoke, RefreshReplay, RefreshAccept,
       AuthArrive, AuthBlacklist, AuthKeys, AuthScan, AuthUser, Serve,
       AdminArrive, PasswordWrite, SetActiveFlush, SetActiveCommit, DeleteCommit,
       RevokeKeys, RevokeDelete

(* Claims of a minted pair never change. *)
LEMMA TokensStable ==
    ASSUME TypeOK, NEW p \in Procs, RequestStep(p), NEW g \in Pairs, Minted(g)
    PROVE  tok'[g] = tok[g]
<1>1. CASE LoginIssue(p)
  <2>1. PICK h \in Pairs : ~Minted(h) /\ Mint(h, req[p].user, req[p].ver, req[p].stamp, h, NoPair, ended)
    BY <1>1 DEF LoginIssue
  <2>2. h # g
    BY <2>1
  <2> QED
    BY <2>1, <2>2 DEF Mint, TypeOK
<1>2. CASE RefreshRotate(p)
  <2> DEFINE old == req[p].pair
  <2>1. PICK h \in Pairs :
          ~Minted(h) /\ Mint(h, req[p].user, RefreshedVersion, tok[old].stamp, tok[old].root, old,
             tok[old].after)
    BY <1>2 DEF RefreshRotate
  <2>2. h # g
    BY <2>1
  <2> QED
    BY <2>1, <2>2 DEF Mint, TypeOK
<1> QED
  BY <1>1, <1>2, TokensKept

(* A request that ends has no locals left to constrain. *)
LEMMA LocalsAtEnd ==
    ASSUME TypeOK, NEW p \in Procs, End(p)
    PROVE  LocalsOK(p)' /\ pc'[p] = "idle"
BY DEF TypeOK, End, Step, LocalsOK, Holding, PastBlacklist

(* A request that moves on keeps its user, and its pair where it holds one. *)
LEMMA LocalsAtMove ==
    ASSUME TypeOK, NEW p \in Procs, LocalsOK(p), RequestStep(p), pc[p] # "idle",
           NEW l, NEW r, Step(p, l, r), r.user = req[p].user,
           l \in Holding => pc[p] \in Holding /\ r.pair = req[p].pair
    PROVE  LocalsOK(p)'
<1>1. pc'[p] = l /\ req'[p] = r
  BY DEF Step, TypeOK
<1>2. req[p].user \in Users
  BY DEF LocalsOK
<1>3. ASSUME pc'[p] \in Holding
      PROVE  req'[p].pair \in Pairs /\ tok'[req'[p].pair].user = req'[p].user
  <2>1. req[p].pair \in Pairs /\ tok[req[p].pair].user = req[p].user
    BY <1>1, <1>3 DEF LocalsOK
  <2>2. Minted(req[p].pair)
    BY <1>2, <2>1, SentinelAssumption DEF Minted
  <2> QED
    BY <1>1, <1>3, <2>1, <2>2, TokensStable
<1> QED
  BY <1>1, <1>2, <1>3 DEF LocalsOK

(* The same for a step that leaves the locals alone. *)
LEMMA LocalsAtGoto ==
    ASSUME TypeOK, NEW p \in Procs, LocalsOK(p), RequestStep(p), pc[p] # "idle",
           NEW l, Goto(p, l), l \in Holding => pc[p] \in Holding
    PROVE  LocalsOK(p)'
<1>1. Step(p, l, req[p])
  BY DEF Goto, Step, TypeOK
<1> QED
  BY <1>1, LocalsAtMove

(* A request that starts holds a user of the table and, if any, a minted pair. *)
LEMMA LocalsAtStart ==
    ASSUME TypeOK, NEW p \in Procs, Arrive(p)
    PROVE  LocalsOK(p)'
<1> USE DEF Start, TypeOK, LocalsOK, Holding, PastBlacklist
<1>1. ASSUME NEW u \in Users, LoginRead(p, u)
      PROVE  LocalsOK(p)'
  BY <1>1 DEF LoginRead, NoReq
<1>2. ASSUME NEW g \in Pairs, RefreshReplay(p, g)
      PROVE  LocalsOK(p)'
  <2>1. tok[g].user \in Users
    BY <1>2 DEF RefreshReplay, Minted, Token
  <2> QED
    BY <1>2, <2>1 DEF RefreshReplay, Revoking, NoReq
<1>3. ASSUME NEW g \in Pairs, RefreshAccept(p, g)
      PROVE  LocalsOK(p)'
  <2>1. tok[g].user \in Users
    BY <1>3 DEF RefreshAccept, Minted, Token
  <2> QED
    BY <1>3, <2>1 DEF RefreshAccept, NoReq
<1>4. ASSUME NEW g \in Pairs, NEW op \in AuthOps, AuthArrive(p, g, op)
      PROVE  LocalsOK(p)'
  <2>1. tok[g].user \in Users
    BY <1>4 DEF AuthArrive, Minted, Token
  <2> QED
    BY <1>4, <2>1 DEF AuthArrive, NoReq
<1>5. ASSUME NEW u \in Users, NEW op \in AdminOps, NEW a \in BOOLEAN, AdminArrive(p, u, op, a)
      PROVE  LocalsOK(p)'
  <2>1. AdminEntry(op) \notin Holding
    BY DEF AdminEntry
  <2> QED
    BY <1>5, <2>1 DEF AdminArrive, NoReq
<1> QED
  BY <1>1, <1>2, <1>3, <1>4, <1>5 DEF Arrive

(* Whatever step a request takes, its own locals stay constrained. *)
LEMMA OwnLocals ==
    ASSUME TypeInv, NEW p \in Procs, RequestStep(p)
    PROVE  LocalsOK(p)'
<1> DEFINE me == req[p].user
<1> USE DEF Holding, PastBlacklist
<1>0. TypeOK /\ LocalsOK(p)
  BY DEF TypeInv
<1> HIDE DEF TypeInv
<1>1. CASE Arrive(p)
  BY <1>0, <1>1, LocalsAtStart
<1>2. CASE LoginKeys(p)
  <2> DEFINE r == [req[p] EXCEPT !.keys = KeysOf(me), !.todo = KeysOf(me)]
  <2>1. r.user = me
    BY <1>0 DEF TypeOK, Req
  <2>2. Step(p, "issue", r) \/ Step(p, "collect", r)
    BY <1>2 DEF LoginKeys
  <2> HIDE DEF r
  <2> QED
    BY <1>0, <1>2, <2>1, <2>2, LocalsAtMove DEF LoginKeys
<1>3. CASE LoginCollect(p)
  <2>1. PICK k \in req[p].todo :
          Step(p, "collect",
               [req[p] EXCEPT !.todo = @ \ {k},
                              !.hits = IF RtStatus(k) = "valid" THEN @ \union {k} ELSE @])
    BY <1>3 DEF LoginCollect
  <2> DEFINE r == [req[p] EXCEPT !.todo = @ \ {k},
                                 !.hits = IF RtStatus(k) = "valid" THEN @ \union {k} ELSE @]
  <2>2. r.user = me
    BY <1>0 DEF TypeOK, Req
  <2>3. Step(p, "collect", r)
    BY <2>1
  <2> HIDE DEF r
  <2> QED
    BY <1>0, <1>3, <2>2, <2>3, LocalsAtMove DEF LoginCollect
<1>4. CASE LoginRevoke(p)
  <2> DEFINE r == [req[p] EXCEPT !.keys = {}, !.hits = {}]
  <2>1. r.user = me
    BY <1>0 DEF TypeOK, Req
  <2>2. Step(p, "issue", r)
    BY <1>4 DEF LoginRevoke
  <2> HIDE DEF r
  <2> QED
    BY <1>0, <1>4, <2>1, <2>2, LocalsAtMove DEF LoginRevoke
<1>5. CASE LoginIssue(p) \/ RefreshRotate(p) \/ SetActiveCommit(p) \/ DeleteCommit(p) \/ Fail(p)
  BY <1>0, <1>5, LocalsAtEnd DEF LoginIssue, RefreshRotate, SetActiveCommit, DeleteCommit, Fail
<1>6. CASE AuthBlacklist(p)
  BY <1>0, <1>6, LocalsAtEnd, LocalsAtGoto DEF AuthBlacklist
<1>7. CASE AuthKeys(p)
  <2> DEFINE r == [req[p] EXCEPT !.todo = KeysOf(me)]
  <2>1. r.user = me /\ r.pair = req[p].pair
    BY <1>0 DEF TypeOK, Req
  <2>2. End(p) \/ Step(p, "auth_scan", r)
    BY <1>7 DEF AuthKeys
  <2> HIDE DEF r
  <2> QED
    BY <1>0, <1>7, <2>1, <2>2, LocalsAtEnd, LocalsAtMove DEF AuthKeys
<1>8. CASE AuthScan(p)
  <2>1. PICK k \in req[p].todo :
          \/ Step(p, "auth_user", [req[p] EXCEPT !.todo = {}])
          \/ End(p)
          \/ Step(p, "auth_scan", [req[p] EXCEPT !.todo = @ \ {k}])
    BY <1>8 DEF AuthScan
  <2> DEFINE r1 == [req[p] EXCEPT !.todo = {}]
             r2 == [req[p] EXCEPT !.todo = @ \ {k}]
  <2>2. r1.user = me /\ r1.pair = req[p].pair /\ r2.user = me /\ r2.pair = req[p].pair
    BY <1>0 DEF TypeOK, Req
  <2>3. End(p) \/ Step(p, "auth_user", r1) \/ Step(p, "auth_scan", r2)
    BY <2>1
  <2> HIDE DEF r1, r2
  <2> QED
    BY <1>0, <1>8, <2>2, <2>3, LocalsAtEnd, LocalsAtMove DEF AuthScan
<1>9. CASE AuthUser(p)
  <2> DEFINE r == [req[p] EXCEPT !.ver = users[me].version]
  <2>1. r.user = me /\ r.pair = req[p].pair
    BY <1>0 DEF TypeOK, Req
  <2>2. End(p) \/ Step(p, "served", r)
    BY <1>9 DEF AuthUser
  <2> HIDE DEF r
  <2> QED
    BY <1>0, <1>9, <2>1, <2>2, LocalsAtEnd, LocalsAtMove DEF AuthUser
<1>10. CASE Serve(p) \/ PasswordWrite(p)
  <2>1. Revoking(me).user = me
    BY DEF Revoking, NoReq
  <2>2. End(p) \/ Step(p, "revoke_keys", Revoking(me)) \/ Goto(p, "write")
    BY <1>10 DEF Serve, PasswordWrite
  <2>3. pc[p] # "idle"
    BY <1>10 DEF Serve, PasswordWrite
  <2> QED
    BY <1>0, <2>1, <2>2, <2>3, LocalsAtEnd, LocalsAtMove, LocalsAtGoto
<1>11. CASE SetActiveFlush(p)
  BY <1>0, <1>11, LocalsAtEnd, LocalsAtGoto DEF SetActiveFlush
<1>12. CASE RevokeKeys(p) \/ RevokeDelete(p)
  <2> DEFINE r == [req[p] EXCEPT !.keys = KeysOf(me)]
  <2>1. r.user = me
    BY <1>0 DEF TypeOK, Req
  <2>2. End(p) \/ Goto(p, "commit") \/ Step(p, "revoke_delete", r)
    BY <1>12 DEF RevokeKeys, RevokeDelete, AfterRevoke
  <2>3. pc[p] # "idle"
    BY <1>12 DEF RevokeKeys, RevokeDelete
  <2> HIDE DEF r
  <2> QED
    BY <1>0, <2>1, <2>2, <2>3, LocalsAtEnd, LocalsAtMove, LocalsAtGoto
<1> QED
  BY <1>1, <1>2, <1>3, <1>4, <1>5, <1>6, <1>7, <1>8, <1>9, <1>10, <1>11, <1>12
     DEF RequestStep, FreeStep, LockStep

(* A step of one request preserves the whole of TypeInv. *)
LEMMA RequestKeepsType ==
    ASSUME TypeInv, NEW p \in Procs, RequestStep(p)
    PROVE  TypeInv'
<1>1. TypeOK /\ LocalsOK(p)
  BY DEF TypeInv
<1>2. TypeOK'
  <2>1. CASE Fail(p)
    <3>1. lock' \in [Users -> Procs \union {NoProc}]
      BY <1>1, <2>1 DEF Fail, TypeOK
    <3> QED
      BY <1>1, <2>1, <3>1, EndType DEF Fail, TypeOK, redisVars, ghostVars
  <2> QED
    BY <1>1, <2>1, LoginType, RefreshType, AuthType, AdminType, RevokeType
       DEF RequestStep, Arrive, FreeStep, LockStep
<1>3. ASSUME NEW q \in Procs \ {p}
      PROVE  LocalsOK(q)'
  <2>1. LocalsOK(q) /\ pc'[q] = pc[q] /\ req'[q] = req[q]
    BY <1>1, OthersUntouched DEF TypeInv
  <2>2. ASSUME pc[q] \in Holding
        PROVE  tok'[req[q].pair] = tok[req[q].pair]
    <3>1. req[q].pair \in Pairs /\ tok[req[q].pair].user \in Users
      BY <2>1, <2>2 DEF LocalsOK, Holding, PastBlacklist
    <3> QED
      BY <1>1, <3>1, SentinelAssumption, TokensStable DEF Minted
  <2> QED
    BY <2>1, <2>2 DEF LocalsOK
<1> QED
  BY <1>2, <1>3, OwnLocals DEF TypeInv

(* TypeInv holds initially and every step preserves it. *)
LEMMA TypeInvInit == Init => TypeInv
BY InitType DEF Init, TypeInv, LocalsOK, Holding, PastBlacklist

LEMMA TypeInvNext == TypeInv /\ [Next]_vars => TypeInv'
<1> SUFFICES ASSUME TypeInv, [Next]_vars PROVE TypeInv'
  OBVIOUS
<1>1. ASSUME NEW p \in Procs, RequestStep(p)
      PROVE  TypeInv'
  BY <1>1, RequestKeepsType
<1>2. CASE Tick
  BY <1>2 DEF Tick, TypeInv, TypeOK, LocalsOK, rowVars, redisVars, ghostVars
<1>3. ASSUME NEW u \in Users, NEW a \in BOOLEAN, CreateUser(u, a)
      PROVE  TypeInv'
  <2>1. users' \in [Users -> Row]
    BY <1>3 DEF CreateUser, TypeInv, TypeOK, Row
  <2> QED
    BY <1>3, <2>1 DEF CreateUser, TypeInv, TypeOK, LocalsOK, redisVars, ghostVars
<1>4. CASE UNCHANGED vars
  BY <1>4 DEF vars, TypeInv, TypeOK, LocalsOK
<1> QED
  BY <1>1, <1>2, <1>3, <1>4 DEF Next, RequestStep

(* Every reachable state of every instance is well typed.                  *)
THEOREM TypeCorrect == Spec => []TypeOK
<1>1. Spec => []TypeInv
  BY TypeInvInit, TypeInvNext, PTL DEF Spec
<1>2. TypeInv => TypeOK
  BY DEF TypeInv
<1> QED
  BY <1>1, <1>2, PTL

-----------------------------------------------------------------------------
(* Replaced pairs                                                          *)
(*                                                                         *)
(* A blacklist entry is written with a full AT lifetime at or after the    *)
(* minting of the AT it names, so it outlives that AT; the keys a login    *)
(* lists are minted pairs, and those its loop did not find valid never     *)
(* become valid again.                                                     *)

ExpiryInv  == \A g \in Pairs : Minted(g) => tok[g].atExp <= now + AccessLife
RetiredInv == \A g \in retired : /\ Minted(g)
                                 /\ black[g] >= tok[g].atExp
                                 /\ RtStatus(g) # "valid"
CollectInv(p) ==
    pc[p] = "collect" =>
        \A k \in req[p].keys :
            Minted(k) /\ (k \in req[p].todo \/ k \in req[p].hits \/ RtStatus(k) # "valid")
AuthInv(p) ==
    /\ pc[p] = "auth_black" /\ req[p].retired => req[p].pair \in retired
    /\ pc[p] \in PastBlacklist /\ req[p].retired => now >= tok[req[p].pair].atExp
RetireInv == ExpiryInv /\ RetiredInv /\ \A p \in Procs : CollectInv(p) /\ AuthInv(p)

(* A blacklist entry written now covers every minted AT. *)
LEMMA BlackCovers ==
    ASSUME TypeOK, ExpiryInv, NEW jtis \in SUBSET Pairs, black' = BlackWith(jtis),
           NEW g \in Pairs, Minted(g), g \in jtis \/ black[g] >= tok[g].atExp
    PROVE  black'[g] >= tok[g].atExp
BY LifeAssumption DEF BlackWith, ExpiryInv, TypeOK

(* Time passes and requests act, but a minted pair whose record does not   *)
(* read "valid" never reads "valid" again.                                 *)
LEMMA ValidNeverReturns ==
    ASSUME TypeInv, NEW p \in Procs, RequestStep(p),
           NEW g \in Pairs, Minted(g), RtStatus(g) # "valid"
    PROVE  RtStatus(g)' # "valid"
<1>0. TypeOK /\ LocalsOK(p)
  BY DEF TypeInv
<1> HIDE DEF TypeInv
<1>1. CASE LoginIssue(p)
  <2>1. PICK h \in Pairs : ~Minted(h) /\ rtKey' = [rtKey EXCEPT ![h] = RtRecord("valid", RefreshLife)]
    BY <1>1 DEF LoginIssue
  <2>2. rtKey'[g] = rtKey[g] /\ now' = now
    BY <1>0, <1>1, <2>1 DEF LoginIssue, TypeOK
  <2> QED
    BY <2>2 DEF RtStatus
<1>2. CASE RefreshRotate(p)
  <2> DEFINE old == req[p].pair
  <2>1. PICK h \in Pairs :
          ~Minted(h) /\ rtKey' = [rtKey EXCEPT ![old] = RtRecord("used", UsedLife),
                                              ![h] = RtRecord("valid", RefreshLife)]
    BY <1>2 DEF RefreshRotate
  <2>2. g # h /\ old \in Pairs
    BY <1>0, <1>2, <2>1 DEF RefreshRotate, LocalsOK, Holding
  <2>3. (rtKey'[g] = rtKey[g] \/ rtKey'[g].status = "used") /\ now' = now
    BY <1>0, <1>2, <2>1, <2>2 DEF RefreshRotate, TypeOK, RtRecord
  <2> QED
    BY <2>3 DEF RtStatus
<1>3. CASE LoginRevoke(p) \/ RevokeDelete(p)
  <2>1. (rtKey'[g] = rtKey[g] \/ rtKey'[g].status = "absent") /\ now' = now
    BY <1>3 DEF LoginRevoke, RevokeDelete, RtWithout, NoKey
  <2> QED
    BY <2>1 DEF RtStatus
<1>4. CASE ~(LoginIssue(p) \/ RefreshRotate(p) \/ LoginRevoke(p) \/ RevokeDelete(p))
  <2>1. UNCHANGED <<now, rtKey>>
    BY <1>4 DEF RequestStep, Arrive, FreeStep, LockStep, Fail, redisVars,
       LoginRead, LoginKeys, LoginCollect, RefreshReplay, RefreshAccept,
       AuthArrive, AuthBlacklist, AuthKeys, AuthScan, AuthUser, Serve,
       AdminArrive, PasswordWrite, SetActiveFlush, SetActiveCommit, DeleteCommit, RevokeKeys
  <2> QED
    BY <2>1 DEF RtStatus
<1> QED
  BY <1>1, <1>2, <1>3, <1>4

(* Minting keeps every AT within one lifetime of the clock. *)
LEMMA ExpiryKept ==
    ASSUME TypeOK, ExpiryInv, NEW p \in Procs, RequestStep(p)
    PROVE  ExpiryInv'
<1>1. now' = now
  BY DEF RequestStep, Arrive, FreeStep, LockStep, Fail,
       LoginRead, LoginKeys, LoginCollect, LoginRevoke, LoginIssue,
       RefreshReplay, RefreshAccept, RefreshRotate,
       AuthArrive, AuthBlacklist, AuthKeys, AuthScan, AuthUser, Serve,
       AdminArrive, PasswordWrite, SetActiveFlush, SetActiveCommit, DeleteCommit,
       RevokeKeys, RevokeDelete
<1>2. ASSUME NEW g \in Pairs, NEW h \in Pairs, NEW u, NEW v, NEW s, NEW r, NEW q, NEW e,
             Mint(h, u, v, s, r, q, e), Minted(g)'
      PROVE  tok'[g].atExp <= now + AccessLife
  BY <1>2, LifeAssumption DEF Mint, Minted, TypeOK, Token, ExpiryInv
<1>3. CASE LoginIssue(p)
  <2>1. PICK h \in Pairs : Mint(h, req[p].user, req[p].ver, req[p].stamp, h, NoPair, ended)
    BY <1>3 DEF LoginIssue
  <2> QED
    BY <1>1, <1>2, <2>1 DEF ExpiryInv
<1>4. CASE RefreshRotate(p)
  <2> DEFINE old == req[p].pair
  <2>1. PICK h \in Pairs :
          Mint(h, req[p].user, RefreshedVersion, tok[old].stamp, tok[old].root, old,
             tok[old].after)
    BY <1>4 DEF RefreshRotate
  <2> QED
    BY <1>1, <1>2, <2>1 DEF ExpiryInv
<1> QED
  BY <1>1, <1>3, <1>4, TokensKept DEF ExpiryInv, Minted

(* What the steps that write neither black nor retired leave alone. *)
LEMMA RetiredUntouched ==
    ASSUME NEW p \in Procs, RequestStep(p), ~LoginRevoke(p), ~RefreshRotate(p)
    PROVE  UNCHANGED <<black, retired>>
BY DEF RequestStep, Arrive, FreeStep, LockStep, Fail, redisVars, ghostVars,
       LoginRead, LoginKeys, LoginCollect, LoginIssue, RefreshReplay, RefreshAccept,
       AuthArrive, AuthBlacklist, AuthKeys, AuthScan, AuthUser, Serve,
       AdminArrive, PasswordWrite, SetActiveFlush, SetActiveCommit, DeleteCommit,
       RevokeKeys, RevokeDelete

(* A replaced pair is blacklisted for as long as its AT could be accepted. *)
LEMMA RetiredKept ==
    ASSUME TypeInv, RetireInv, NEW p \in Procs, RequestStep(p)
    PROVE  RetiredInv'
<1>0. TypeOK /\ LocalsOK(p) /\ ExpiryInv /\ RetiredInv /\ CollectInv(p)
  BY DEF TypeInv, RetireInv
<1>1. SUFFICES ASSUME NEW g \in retired'
               PROVE  Minted(g)' /\ black'[g] >= tok'[g].atExp /\ RtStatus(g)' # "valid"
  BY DEF RetiredInv
<1>2. ASSUME g \in Pairs, Minted(g), black'[g] >= tok[g].atExp, RtStatus(g)' # "valid"
      PROVE  Minted(g)' /\ black'[g] >= tok'[g].atExp /\ RtStatus(g)' # "valid"
  <2>1. tok'[g] = tok[g]
    BY <1>0, <1>2, TokensStable
  <2> QED
    BY <1>2, <2>1 DEF Minted
<1>3. ASSUME g \in retired
      PROVE  g \in Pairs /\ Minted(g) /\ black[g] >= tok[g].atExp /\ RtStatus(g)' # "valid"
  BY <1>0, <1>3, ValidNeverReturns DEF RetiredInv, TypeOK
<1>4. CASE LoginRevoke(p)
  <2>1. /\ black' = BlackWith(req[p].hits) /\ req[p].hits \in SUBSET Pairs
        /\ req[p].keys \in SUBSET Pairs
    BY <1>0, <1>4, ReqFields DEF LoginRevoke
  <2>2. CASE g \in retired
    BY <1>0, <1>2, <1>3, <2>1, <2>2, BlackCovers
  <2>3. CASE g \notin retired
    <3>1. g \in req[p].keys /\ RtStatus(g) = "valid"
      BY <1>1, <1>4, <2>3 DEF LoginRevoke
    <3>2. g \in Pairs /\ Minted(g) /\ g \in req[p].hits
      BY <1>0, <1>4, <2>1, <3>1 DEF CollectInv, LoginRevoke
    <3>3. black'[g] >= tok[g].atExp
      BY <1>0, <2>1, <3>2, BlackCovers
    <3>4. rtKey'[g] = NoKey
      BY <1>4, <3>1, <3>2 DEF LoginRevoke, RtWithout
    <3>5. RtStatus(g)' # "valid"
      BY <3>4 DEF RtStatus, NoKey
    <3> QED
      BY <1>2, <3>2, <3>3, <3>5
  <2> QED
    BY <2>2, <2>3
<1>5. CASE RefreshRotate(p)
  <2> DEFINE old == req[p].pair
  <2>1. old \in Pairs /\ tok[old].user = req[p].user /\ req[p].user \in Users
    BY <1>0, <1>5 DEF RefreshRotate, LocalsOK, Holding
  <2>2. Minted(old)
    BY <2>1, SentinelAssumption DEF Minted
  <2>3. black' = BlackWith({old}) /\ retired' = retired \union {old}
    BY <1>5 DEF RefreshRotate
  <2>4. CASE g \in retired
    BY <1>0, <1>2, <1>3, <2>1, <2>3, <2>4, BlackCovers
  <2>5. CASE g = old
    <3>1. black'[g] >= tok[g].atExp
      BY <1>0, <2>1, <2>2, <2>3, <2>5, BlackCovers
    <3>2. PICK h \in Pairs :
            ~Minted(h) /\ rtKey' = [rtKey EXCEPT ![old] = RtRecord("used", UsedLife),
                                                ![h] = RtRecord("valid", RefreshLife)]
      BY <1>5 DEF RefreshRotate
    <3>3. rtKey'[old].status = "used"
      BY <1>0, <2>1, <2>2, <3>2 DEF TypeOK, RtRecord
    <3>4. RtStatus(g)' # "valid"
      BY <2>5, <3>3 DEF RtStatus
    <3> QED
      BY <1>2, <2>1, <2>2, <2>5, <3>1, <3>4
  <2> QED
    BY <1>1, <2>3, <2>4, <2>5
<1>6. CASE ~LoginRevoke(p) /\ ~RefreshRotate(p)
  BY <1>1, <1>2, <1>3, <1>6, RetiredUntouched
<1> QED
  BY <1>4, <1>5, <1>6

(* What a login's loop has passed over stays without a live session. *)
LEMMA CollectKept ==
    ASSUME TypeInv, RetireInv, NEW p \in Procs, RequestStep(p), NEW q \in Procs
    PROVE  CollectInv(q)'
<1>0. TypeOK /\ CollectInv(q)
  BY DEF TypeInv, RetireInv
<1>1. ASSUME NEW k \in Pairs, Minted(k)
      PROVE  Minted(k)' /\ (RtStatus(k) # "valid" => RtStatus(k)' # "valid")
  BY <1>0, <1>1, TokensStable, ValidNeverReturns DEF Minted
<1>2. req[q].keys \in SUBSET Pairs
  BY <1>0, ReqFields
<1>3. CASE q # p
  <2>1. pc'[q] = pc[q] /\ req'[q] = req[q]
    BY <1>0, <1>3, OthersUntouched
  <2> QED
    BY <1>0, <1>1, <1>2, <2>1 DEF CollectInv
<1>4. CASE q = p /\ LoginKeys(p)
  <2> DEFINE keys == KeysOf(req[p].user)
             r == [req[p] EXCEPT !.keys = keys, !.todo = keys]
             l == IF keys = {} THEN "issue" ELSE "collect"
  <2>1. req'[p] = r /\ r.keys = keys /\ r.todo = keys
    BY <1>0, <1>4 DEF LoginKeys, Step, TypeOK, Req
  <2>2. ASSUME NEW k \in keys
        PROVE  k \in Pairs /\ Minted(k)
    <3>1. req[p].user \in Users
      BY <1>4 DEF TypeInv, LocalsOK, LoginKeys
    <3> QED
      BY <2>2, <3>1, SentinelAssumption DEF KeysOf, Minted
  <2> QED
    BY <1>1, <1>4, <2>1, <2>2 DEF CollectInv
<1>5. CASE q = p /\ LoginCollect(p)
  <2>1. PICK k \in req[p].todo :
          Step(p, "collect",
               [req[p] EXCEPT !.todo = @ \ {k},
                              !.hits = IF RtStatus(k) = "valid" THEN @ \union {k} ELSE @])
    BY <1>5 DEF LoginCollect
  <2>2. /\ req'[p].keys = req[p].keys /\ req'[p].todo = req[p].todo \ {k}
        /\ req'[p].hits = IF RtStatus(k) = "valid" THEN req[p].hits \union {k} ELSE req[p].hits
    BY <1>0, <2>1 DEF Step, TypeOK, Req
  <2>3. pc[p] = "collect"
    BY <1>5 DEF LoginCollect
  <2> QED
    BY <1>0, <1>1, <1>2, <1>5, <2>2, <2>3 DEF CollectInv
<1>6. CASE q = p /\ ~LoginKeys(p) /\ ~LoginCollect(p)
  <2>1. pc'[p] # "collect"
    BY <1>0, <1>6 DEF TypeOK, RequestStep, Arrive, FreeStep, LockStep, Fail, Start, Step, Goto, End,
       AfterRevoke, AdminEntry,
       LoginRead, LoginRevoke, LoginIssue, RefreshReplay, RefreshAccept, RefreshRotate,
       AuthArrive, AuthBlacklist, AuthKeys, AuthScan, AuthUser, Serve,
       AdminArrive, PasswordWrite, SetActiveFlush, SetActiveCommit, DeleteCommit,
       RevokeKeys, RevokeDelete
  <2> QED
    BY <1>6, <2>1 DEF CollectInv
<1> QED
  BY <1>3, <1>4, <1>5, <1>6

(* retired only grows, and time stands still during a step. *)
LEMMA RetiredGrows ==
    ASSUME NEW p \in Procs, RequestStep(p)
    PROVE  retired \subseteq retired' /\ now' = now
BY DEF RequestStep, Arrive, FreeStep, LockStep, Fail, ghostVars,
       LoginRead, LoginKeys, LoginCollect, LoginRevoke, LoginIssue,
       RefreshReplay, RefreshAccept, RefreshRotate,
       AuthArrive, AuthBlacklist, AuthKeys, AuthScan, AuthUser, Serve,
       AdminArrive, PasswordWrite, SetActiveFlush, SetActiveCommit, DeleteCommit,
       RevokeKeys, RevokeDelete

(* A request that brought a replaced pair either still has to pass the     *)
(* blacklist, or its AT has expired on the way.                            *)
LEMMA AuthKept ==
    ASSUME TypeInv, RetireInv, NEW p \in Procs, RequestStep(p), NEW q \in Procs
    PROVE  AuthInv(q)'
<1>0. TypeOK /\ LocalsOK(q) /\ AuthInv(q) /\ RetiredInv
  BY DEF TypeInv, RetireInv
<1> USE DEF PastBlacklist
<1>1. ASSUME pc[q] \in Holding
      PROVE  tok'[req[q].pair] = tok[req[q].pair]
  <2>1. req[q].pair \in Pairs /\ Minted(req[q].pair)
    BY <1>0, <1>1, SentinelAssumption DEF LocalsOK, Minted, Holding
  <2> QED
    BY <1>0, <2>1, TokensStable
<1>2. CASE q # p
  <2>1. pc'[q] = pc[q] /\ req'[q] = req[q]
    BY <1>0, <1>2, OthersUntouched
  <2> QED
    BY <1>0, <1>1, <2>1, RetiredGrows DEF AuthInv, Holding
<1>3. CASE q = p /\ \E g \in Pairs, op \in AuthOps : AuthArrive(p, g, op)
  <2>1. PICK g \in Pairs, op \in AuthOps : AuthArrive(p, g, op)
    BY <1>3
  <2>2. pc'[p] = "auth_black" /\ req'[p].pair = g /\ req'[p].retired = (g \in retired)
    BY <1>0, <2>1 DEF AuthArrive, Start, TypeOK, NoReq
  <2> QED
    BY <1>3, <2>1, <2>2, RetiredGrows DEF AuthInv
<1>4. CASE q = p /\ AuthBlacklist(p)
  <2>1. CASE Blacklisted(req[p].pair)
    BY <1>0, <1>4, <2>1 DEF AuthBlacklist, AuthInv, End, Step, TypeOK
  <2>2. CASE ~Blacklisted(req[p].pair)
    <3>1. /\ pc[p] = "auth_black" /\ pc'[p] = "auth_keys" /\ req'[p] = req[p]
          /\ tok' = tok /\ now' = now
      BY <1>0, <1>4, <2>2 DEF AuthBlacklist, Goto, TypeOK
    <3>2. req[p].pair \in Pairs
      BY <1>0, <1>4, <3>1 DEF LocalsOK, Holding
    <3>3. black[req[p].pair] <= now /\ tok[req[p].pair].atExp \in Nat
      BY <1>0, <2>2, <3>2 DEF Blacklisted, TypeOK, Token
    <3>4. req[p].retired => now >= tok[req[p].pair].atExp
      BY <1>0, <1>4, <3>1, <3>2, <3>3 DEF AuthInv, RetiredInv, TypeOK
    <3> QED
      BY <1>4, <3>1, <3>4 DEF AuthInv
  <2> QED
    BY <2>1, <2>2
<1>5. CASE q = p /\ (AuthKeys(p) \/ AuthScan(p) \/ AuthUser(p))
  <2>1. CASE End(p)
    BY <1>0, <1>5, <2>1 DEF AuthInv, End, Step, TypeOK
  <2>2. CASE ~End(p)
    <3>1. pc[p] \in PastBlacklist /\ pc'[p] \in PastBlacklist /\ tok' = tok /\ now' = now
      BY <1>0, <1>5, <2>2 DEF AuthKeys, AuthScan, AuthUser, Step, TypeOK
    <3>2. req'[p].pair = req[p].pair /\ req'[p].retired = req[p].retired
      BY <1>0, <1>5, <2>2 DEF AuthKeys, AuthScan, AuthUser, Step, TypeOK, Req
    <3> QED
      BY <1>0, <1>5, <3>1, <3>2 DEF AuthInv
  <2> QED
    BY <2>1, <2>2
<1>6. CASE /\ q = p /\ ~(\E g \in Pairs, op \in AuthOps : AuthArrive(p, g, op))
           /\ ~AuthBlacklist(p) /\ ~AuthKeys(p) /\ ~AuthScan(p) /\ ~AuthUser(p)
  <2>1. pc'[p] \notin PastBlacklist \union {"auth_black"}
    BY <1>0, <1>6 DEF TypeOK, RequestStep, Arrive, FreeStep, LockStep, Fail, Start, Step, Goto, End,
       AfterRevoke, AdminEntry,
       LoginRead, LoginKeys, LoginCollect, LoginRevoke, LoginIssue,
       RefreshReplay, RefreshAccept, RefreshRotate, Serve,
       AdminArrive, PasswordWrite, SetActiveFlush, SetActiveCommit, DeleteCommit,
       RevokeKeys, RevokeDelete
  <2> QED
    BY <1>6, <2>1 DEF AuthInv
<1> QED
  BY <1>2, <1>3, <1>4, <1>5, <1>6

(* RetireInv is inductive relative to TypeInv. *)
LEMMA RetireInit == Init => RetireInv
BY DEF Init, RetireInv, ExpiryInv, RetiredInv, CollectInv, AuthInv, PastBlacklist, Minted, NoToken

LEMMA RetireNext == TypeInv /\ RetireInv /\ [Next]_vars => RetireInv'
<1> SUFFICES ASSUME TypeInv, RetireInv, [Next]_vars PROVE RetireInv'
  OBVIOUS
<1>0. TypeOK
  BY DEF TypeInv
<1>1. ASSUME NEW p \in Procs, RequestStep(p)
      PROVE  RetireInv'
  <2>1. ExpiryInv'
    BY <1>0, <1>1, ExpiryKept DEF RetireInv
  <2>2. RetiredInv'
    BY <1>1, RetiredKept
  <2>3. \A q \in Procs : CollectInv(q)' /\ AuthInv(q)'
    BY <1>1, CollectKept, AuthKept
  <2> QED
    BY <2>1, <2>2, <2>3 DEF RetireInv
<1>2. CASE Tick
  <2>1. /\ now' = now + 1 /\ now \in Nat
        /\ UNCHANGED <<tok, rtKey, black, retired, pc, req>>
    BY <1>0, <1>2 DEF Tick, TypeOK, redisVars, ghostVars
  <2>2. ASSUME NEW g \in Pairs
        PROVE  /\ tok[g].atExp \in Nat
               /\ (RtStatus(g) # "valid" => RtStatus(g)' # "valid")
    BY <1>0, <2>1 DEF RtStatus, TypeOK, Token, Record
  <2>3. ExpiryInv'
    BY <2>1, <2>2, LifeAssumption DEF RetireInv, ExpiryInv, Minted
  <2>4. RetiredInv'
    BY <1>0, <2>1, <2>2 DEF RetireInv, RetiredInv, Minted, TypeOK
  <2>5. ASSUME NEW q \in Procs
        PROVE  CollectInv(q)'
    BY <1>0, <2>1, <2>2, ReqFields DEF RetireInv, CollectInv, Minted
  <2>6. ASSUME NEW q \in Procs
        PROVE  AuthInv(q)'
    <3>1. pc[q] \in PastBlacklist => req[q].pair \in Pairs
      BY DEF TypeInv, LocalsOK, Holding
    <3> QED
      BY <2>1, <2>2, <3>1 DEF RetireInv, AuthInv
  <2> QED
    BY <2>3, <2>4, <2>5, <2>6 DEF RetireInv
<1>3. CASE \/ \E u \in Users, a \in BOOLEAN : CreateUser(u, a)
           \/ UNCHANGED vars
  <2>1. UNCHANGED <<now, tok, rtKey, black, retired, pc, req>>
    BY <1>3 DEF CreateUser, vars, redisVars, ghostVars
  <2> QED
    BY <2>1 DEF RetireInv, ExpiryInv, RetiredInv, CollectInv, AuthInv, Minted, RtStatus
<1> QED
  BY <1>1, <1>2, <1>3 DEF Next, RequestStep

(* The invariant behind both theorems below. *)
LEMMA RetireCorrect == Spec => [](TypeInv /\ RetireInv)
BY TypeInvInit, TypeInvNext, RetireInit, RetireNext, PTL DEF Spec

(* An access token that a refresh or a newer login had replaced when the   *)
(* request arrived is not served while it is unexpired: for any number of  *)
(* users, pairs and concurrent requests and any positive lifetimes.        *)
THEOREM RetiredAccessRefused == Spec => []RetiredNeverServed
<1>1. RetireInv => RetiredNeverServed
  BY DEF RetireInv, AuthInv, PastBlacklist, RetiredNeverServed
<1> QED
  BY <1>1, RetireCorrect, PTL

(* The refresh token of a replaced pair is dead for good.                  *)
THEOREM RetiredRefreshRefused == Spec => []RetiredRefreshDead
<1>1. RetireInv => RetiredRefreshDead
  BY DEF RetireInv, RetiredInv, RetiredRefreshDead
<1> QED
  BY <1>1, RetireCorrect, PTL

-----------------------------------------------------------------------------
(* The session store                                                       *)
(*                                                                         *)
(* Under Session, minting is Begin or Renew, and every other write to the  *)
(* records, like the passing of time, only ends sessions.                  *)

(* A step that changes no token and makes no record read "valid" again     *)
(* ends some sessions, or none.                                            *)
LEMMA OnlyEnds ==
    ASSUME UNCHANGED tok,
           \A g \in Pairs : Minted(g) /\ RtStatus(g) # "valid" => RtStatus(g)' # "valid"
    PROVE  Store!End({g \in Pairs : Session[g] = "live" /\ Session'[g] = "over"})
<1> DEFINE gs == {g \in Pairs : Session[g] = "live" /\ Session'[g] = "over"}
<1>1. ASSUME NEW g \in Pairs
      PROVE  Session'[g] = IF g \in gs THEN "over" ELSE Session[g]
  <2>1. Minted(g)' = Minted(g)
    BY DEF Minted
  <2> QED
    BY <2>1 DEF Session, Minted, RtStatus
<1>2. Session' = [g \in Pairs |-> IF g \in gs THEN "over" ELSE Session[g]]
  BY <1>1 DEF Session, Minted, RtStatus
<1> QED
  BY <1>2 DEF Store!End, Owner

(* The pair a login mints begins a session.                                *)
LEMMA LoginBegins ==
    ASSUME TypeInv, NEW p \in Procs, LoginIssue(p)
    PROVE  \E g \in Pairs, u \in Users : Store!Begin(g, u)
<1>0. /\ TypeOK /\ req[p].user \in Users /\ req[p].user # NoUser
      /\ now' = now /\ now \in Nat
  BY SentinelAssumption DEF TypeInv, LocalsOK, LoginIssue, TypeOK
<1> HIDE DEF TypeInv
<1>1. PICK h \in Pairs :
        /\ ~Minted(h)
        /\ Mint(h, req[p].user, req[p].ver, req[p].stamp, h, NoPair, ended)
        /\ rtKey' = [rtKey EXCEPT ![h] = RtRecord("valid", RefreshLife)]
  BY DEF LoginIssue
<1>2. /\ tok'[h].user = req[p].user
      /\ rtKey'[h] = [status |-> "valid", exp |-> now + RefreshLife]
      /\ \A g \in Pairs \ {h} : tok'[g] = tok[g] /\ rtKey'[g] = rtKey[g]
  BY <1>0, <1>1 DEF Mint, TypeOK, RtRecord
<1>3. Session[h] = "none" /\ Session'[h] = "live"
  BY <1>0, <1>1, <1>2, LifeAssumption DEF Session, Minted, RtStatus
<1>4. ASSUME NEW g \in Pairs \ {h} PROVE Session'[g] = Session[g]
  BY <1>0, <1>2 DEF Session, Minted, RtStatus
<1>5. Session' = [Session EXCEPT ![h] = "live"]
  BY <1>3, <1>4 DEF Session, Minted, RtStatus
<1>6. Owner' = [Owner EXCEPT ![h] = req[p].user]
  BY <1>2 DEF Owner
<1> QED
  BY <1>0, <1>3, <1>5, <1>6 DEF Store!Begin, Owner

(* The pair a refresh mints renews the session it came with.               *)
LEMMA RefreshRenews ==
    ASSUME TypeInv, NEW p \in Procs, RefreshRotate(p)
    PROVE  \E g, h \in Pairs : Store!Renew(g, h)
<1> DEFINE old == req[p].pair
<1>0. /\ TypeOK /\ old \in Pairs /\ tok[old].user = req[p].user
      /\ req[p].user \in Users /\ req[p].user # NoUser
      /\ now' = now /\ now \in Nat
  BY SentinelAssumption DEF TypeInv, LocalsOK, Holding, RefreshRotate, TypeOK
<1> HIDE DEF TypeInv
<1>1. PICK h \in Pairs :
        /\ ~Minted(h)
        /\ Mint(h, req[p].user, RefreshedVersion, tok[old].stamp, tok[old].root, old,
             tok[old].after)
        /\ rtKey' = [rtKey EXCEPT ![old] = RtRecord("used", UsedLife),
                                  ![h] = RtRecord("valid", RefreshLife)]
  BY DEF RefreshRotate
<1>2. h # old
  BY <1>0, <1>1 DEF Minted
<1>3. /\ tok'[h].user = req[p].user
      /\ rtKey'[h] = [status |-> "valid", exp |-> now + RefreshLife]
      /\ rtKey'[old].status = "used"
      /\ \A g \in Pairs \ {h} : tok'[g] = tok[g]
      /\ \A g \in Pairs \ {h, old} : rtKey'[g] = rtKey[g]
  BY <1>0, <1>1, <1>2 DEF Mint, TypeOK, RtRecord
<1>4. Session[h] = "none" /\ Session'[h] = "live"
  BY <1>0, <1>1, <1>3, LifeAssumption DEF Session, Minted, RtStatus
<1>5. Session[old] # "none" /\ Session'[old] = "over"
  BY <1>0, <1>2, <1>3 DEF Session, Minted, RtStatus
<1>6. ASSUME NEW g \in Pairs \ {h, old} PROVE Session'[g] = Session[g]
  BY <1>0, <1>3 DEF Session, Minted, RtStatus
<1>7. Session' = [Session EXCEPT ![old] = "over", ![h] = "live"]
  BY <1>2, <1>4, <1>5, <1>6 DEF Session, Minted, RtStatus
<1>8. Owner' = [Owner EXCEPT ![h] = Owner[old]]
  BY <1>0, <1>3 DEF Owner
<1> QED
  BY <1>0, <1>4, <1>5, <1>7, <1>8 DEF Store!Renew, Owner

(* Every step of the requests, the clock and the users is a step of the    *)
(* session store or leaves it as it is.                                    *)
LEMMA StoreStep == TypeInv /\ [Next]_vars => [Store!Next]_<<Session, Owner>>
<1> SUFFICES ASSUME TypeInv, [Next]_vars PROVE Store!Next \/ UNCHANGED <<Session, Owner>>
  OBVIOUS
<1>0. TypeOK
  BY DEF TypeInv
<1> HIDE DEF TypeInv
<1>1. ASSUME NEW p \in Procs, LoginIssue(p) PROVE Store!Next
  BY <1>1, LoginBegins DEF Store!Next
<1>2. ASSUME NEW p \in Procs, RefreshRotate(p) PROVE Store!Next
  BY <1>2, RefreshRenews DEF Store!Next
<1>3. ASSUME NEW p \in Procs, RequestStep(p), ~LoginIssue(p), ~RefreshRotate(p)
      PROVE  Store!Next
  <2>1. UNCHANGED tok
    BY <1>3, TokensKept
  <2>2. \A g \in Pairs : Minted(g) /\ RtStatus(g) # "valid" => RtStatus(g)' # "valid"
    BY <1>3, ValidNeverReturns
  <2> QED
    BY <2>1, <2>2, OnlyEnds DEF Store!Next
<1>4. CASE Tick
  <2>1. now' = now + 1 /\ now \in Nat /\ UNCHANGED <<tok, rtKey>>
    BY <1>0, <1>4 DEF Tick, TypeOK, redisVars
  <2>2. \A g \in Pairs : RtStatus(g) # "valid" => RtStatus(g)' # "valid"
    BY <1>0, <2>1 DEF RtStatus, TypeOK, Record
  <2> QED
    BY <2>1, <2>2, OnlyEnds DEF Store!Next
<1>5. CASE (\E u \in Users, a \in BOOLEAN : CreateUser(u, a)) \/ UNCHANGED vars
  <2>1. UNCHANGED <<now, tok, rtKey>>
    BY <1>5 DEF CreateUser, vars, redisVars
  <2> QED
    BY <2>1 DEF Session, Owner, Minted, RtStatus
<1> QED
  BY <1>1, <1>2, <1>3, <1>4, <1>5 DEF Next, RequestStep

(* The records of any number of users, pairs and overlapping, crashing     *)
(* requests implement the session store: sessions begin once, are renewed  *)
(* in one step, and never come back.                                       *)
THEOREM ImplementsSessionStore == Spec => KeepsSessions
<1>1. Init => Store!Init
  BY DEF Init, Store!Init, Owner, Session, Minted, NoToken, RtStatus
<1>2. TypeInv /\ [Next]_vars => [Store!Next]_<<Session, Owner>>
  BY StoreStep
<1>3. Spec => []TypeInv
  BY TypeInvInit, TypeInvNext, PTL DEF Spec
<1> QED
  BY <1>1, <1>2, <1>3, PTL DEF Spec, KeepsSessions, Store!Spec, Owner

-----------------------------------------------------------------------------
(* Calm users                                                              *)
(*                                                                         *)
(* A write of a request puts its user into raced when another request of   *)
(* that user is open, so what an open request of any other user has read   *)
(* still holds when it comes to write.  CalmInv says so, label by label,   *)
(* and the properties of these users follow from it.                       *)

(* The live sessions of a user. *)
LiveOf(u) == {g \in Pairs : tok[g].user = u /\ RtStatus(g) = "valid"}

(* A pair, the login it goes back to and the pair it replaced are of one   *)
(* user, and a replaced pair has no live session.                          *)
FamilyInv ==
    \A g \in Pairs : Minted(g) =>
        /\ tok[g].root \in Pairs /\ tok[tok[g].root].user = tok[g].user
        /\ \A h \in Pairs : tok[g].parent = h => tok[h].user = tok[g].user /\ RtStatus(h) # "valid"
EndedInv == \A r \in ended : r \in Pairs /\ Minted(r)

(* What a request's locals say whatever the others do. *)
LocalInv(q) ==
    /\ pc[q] = "flush" => req[q].op = "setactive"
    /\ pc[q] # "idle" /\ req[q].op = "delete" => users[req[q].user].status # "none"
    /\ pc[q] \in {"collect", "revoke_delete"} => \A k \in req[q].keys : tok[k].user = req[q].user
    /\ pc[q] = "auth_scan" => \A k \in req[q].todo : tok[k].user = req[q].user
    /\ pc[q] \in PastBlacklist \union {"auth_black"} /\ req[q].ended
         => tok[req[q].pair].root \in ended

(* The logins of a user that have been ended. *)
EndedOf(u) == {r \in Pairs : r \in ended /\ tok[r].user = u}

(* What holds of a user none of whose requests wrote while another was open. *)
OneLive(u)  == \A g, h \in LiveOf(u) : g = h
LiveOK(u)   == \A g \in LiveOf(u) : /\ tok[g].root \notin ended
                                     /\ EndedOf(u) \subseteq tok[g].after
                                     /\ users[u].status = "live"
RowOK(u)    == IF users[u].status = "none" THEN users[u].stamp = 0
               ELSE users[u].version = users[u].stamp + 1
ClaimsOK(u) == \A g \in Pairs : tok[g].user = u => tok[g].ver <= tok[g].stamp + 1
OneChild(u) ==
    \A g, h \in Pairs :
        /\ tok[g].user = u /\ tok[h].user = u
        /\ tok[g].parent = tok[h].parent /\ tok[g].parent # NoPair
        => g = h
UserInv(u) == u \notin raced => OneLive(u) /\ LiveOK(u) /\ RowOK(u) /\ ClaimsOK(u) /\ OneChild(u)

(* What an open request of such a user has read still holds: the row; the  *)
(* keys, none of the live sessions missing; that there is no live session; *)
(* the pair to be replaced.                                                *)
LoggingIn == {"login_keys", "collect", "issue"}
HoldsRow(q) == \/ pc[q] \in LoggingIn \union {"write"}
               \/ pc[q] = "served" /\ req[q].op = "password"
RowRead(q, u) ==
    /\ HoldsRow(q) => users[u].status = "live" /\ req[q].ver = users[u].version
    /\ pc[q] \in LoggingIn => req[q].stamp = users[u].stamp
KeysRead(q, u) == pc[q] \in {"collect", "revoke_delete"} => LiveOf(u) \subseteq req[q].keys
NoneLeft(q, u) == pc[q] = "issue" \/ (pc[q] = "commit" /\ req[q].op = "delete") => LiveOf(u) = {}
PairHeld(q, u) ==
    pc[q] = "rotate" =>
        /\ users[u].status = "live"
        /\ LiveOf(u) \subseteq {req[q].pair}
        /\ tok[req[q].pair].root \notin ended
        /\ EndedOf(u) \subseteq tok[req[q].pair].after
        /\ \A h \in Pairs : tok[h].user = u => tok[h].parent # req[q].pair
Fresh(q, u) == RowRead(q, u) /\ KeysRead(q, u) /\ NoneLeft(q, u) /\ PairHeld(q, u)
OpenInv(q)  == \A u \in Users : u \notin raced /\ Open(q, u) => Fresh(q, u)

(* The session that let a token of an ended login pass goes back to a      *)
(* login made after that one was ended.                                    *)
NewLogin(q) ==
    /\ pc[q] \in {"auth_user", "served"} /\ req[q].ended /\ req[q].user \notin raced
    => \E h \in Pairs : tok[h].user = req[q].user /\ tok[req[q].pair].root \in tok[h].after

CalmInv == /\ FamilyInv /\ EndedInv
           /\ \A u \in Users : UserInv(u)
           /\ \A q \in Procs : LocalInv(q) /\ OpenInv(q) /\ NewLogin(q)

-----------------------------------------------------------------------------
(* The steps that write what other requests of the user may have read. *)
Writing(p) ==
    \/ LoginRevoke(p) \/ LoginIssue(p) \/ RefreshRotate(p) \/ DeleteCommit(p) \/ RevokeDelete(p)
    \/ PasswordWrite(p) /\ users[req[p].user].status = "live"
    \/ RevokeKeys(p) /\ KeysOf(req[p].user) = {}

(* The part of a row the calm invariants speak of is unchanged. *)
SameRow(v) == /\ users'[v].status = users[v].status
              /\ users'[v].version = users[v].version
              /\ users'[v].stamp = users[v].stamp

(* A step leaves alone what is known of user v. *)
Undisturbed(v) ==
    /\ v \in raced => v \in raced'
    /\ SameRow(v)
    /\ \A g \in Pairs : tok'[g].user = v =>
          tok'[g] = tok[g] /\ (RtStatus(g)' = "valid" => RtStatus(g) = "valid")
    /\ \A r \in ended' : tok'[r].user = v => r \in ended

(* Every other step of a request changes locals and locks only, and who is active. *)
LEMMA QuietStep ==
    ASSUME TypeInv, NEW p \in Procs, RequestStep(p), ~Writing(p)
    PROVE  UNCHANGED <<now, tok, rtKey, retired, ended, raced>> /\ \A v \in Users : SameRow(v)
<1>0. TypeOK /\ LocalsOK(p)
  BY DEF TypeInv
<1>1. CASE SetActiveCommit(p)
  <2>1. users' = users \/ users' = [users EXCEPT ![req[p].user].active = req[p].to]
    BY <1>1 DEF SetActiveCommit, rowVars
  <2>2. \A v \in Users : SameRow(v)
    BY <1>0, <2>1 DEF SameRow, TypeOK, Row
  <2> QED
    BY <1>1, <2>2 DEF SetActiveCommit, redisVars, ghostVars
<1>2. CASE PasswordWrite(p)
  <2>1. UNCHANGED <<users, now, tok, rtKey, retired, ended, raced>>
    BY <1>2 DEF Writing, PasswordWrite, redisVars
  <2> QED
    BY <2>1 DEF SameRow
<1>3. CASE RevokeKeys(p)
  <2>1. UNCHANGED <<users, now, tok, rtKey, retired, ended, raced>>
    BY <1>3 DEF Writing, RevokeKeys, redisVars, rowVars
  <2> QED
    BY <2>1 DEF SameRow
<1>4. CASE ~SetActiveCommit(p) /\ ~PasswordWrite(p) /\ ~RevokeKeys(p)
  <2>1. UNCHANGED <<users, now, tok, rtKey, retired, ended, raced>>
    BY <1>4 DEF Writing, RequestStep, Arrive, FreeStep, LockStep, Fail, redisVars, rowVars, ghostVars,
       LoginRead, LoginKeys, LoginCollect, RefreshReplay, RefreshAccept,
       AuthArrive, AuthBlacklist, AuthKeys, AuthScan, AuthUser, Serve,
       AdminArrive, SetActiveFlush
  <2> QED
    BY <2>1 DEF SameRow
<1> QED
  BY <1>1, <1>2, <1>3, <1>4

(* A write is made known to the other requests of its user. *)
LEMMA WriteRaces ==
    ASSUME NEW p \in Procs, Writing(p)
    PROVE  Race(p)
BY DEF Writing, LoginRevoke, LoginIssue, RefreshRotate, DeleteCommit, RevokeDelete, PasswordWrite,
       RevokeKeys

LEMMA RacedGrows ==
    ASSUME TypeInv, NEW p \in Procs, RequestStep(p)
    PROVE  raced \subseteq raced'
BY QuietStep, WriteRaces DEF Race

(* A write about a user that remains calm finds no other request of that   *)
(* user open.                                                              *)
LEMMA NoneOpen ==
    ASSUME NEW p \in Procs, Writing(p), req[p].user \notin raced', NEW q \in Procs \ {p}
    PROVE  ~Open(q, req[p].user)
BY WriteRaces DEF Race

-----------------------------------------------------------------------------
(* Where nothing is disturbed, what was known of a user is still known.    *)
LEMMA LiveKept ==
    ASSUME NEW v, Undisturbed(v)
    PROVE  LiveOf(v)' \subseteq LiveOf(v)
BY DEF LiveOf, Undisturbed

LEMMA RootKept ==
    ASSUME NEW v \in Users, Undisturbed(v), FamilyInv', NEW g \in Pairs, tok'[g].user = v,
           tok[g].root \notin ended
    PROVE  tok'[g].root \notin ended'
BY SentinelAssumption DEF Undisturbed, FamilyInv, Minted

LEMMA EndedOfKept ==
    ASSUME NEW v, Undisturbed(v)
    PROVE  EndedOf(v)' \subseteq EndedOf(v)
BY DEF EndedOf, Undisturbed

LEMMA UserKept ==
    ASSUME NEW v \in Users, Undisturbed(v), FamilyInv', UserInv(v)
    PROVE  UserInv(v)'
<1> SUFFICES ASSUME v \notin raced'
             PROVE  OneLive(v)' /\ LiveOK(v)' /\ RowOK(v)' /\ ClaimsOK(v)' /\ OneChild(v)'
  BY DEF UserInv
<1>1. OneLive(v) /\ LiveOK(v) /\ RowOK(v) /\ ClaimsOK(v) /\ OneChild(v)
  BY DEF UserInv, Undisturbed
<1>2. \A g \in LiveOf(v)' : g \in LiveOf(v) /\ g \in Pairs /\ tok'[g].user = v
  BY LiveKept DEF LiveOf
<1>3. OneLive(v)'
  BY <1>1, <1>2 DEF OneLive
<1>4. LiveOK(v)'
  BY <1>1, <1>2, RootKept, EndedOfKept DEF LiveOK, Undisturbed, SameRow
<1>5. RowOK(v)'
  BY <1>1 DEF RowOK, Undisturbed, SameRow
<1>6. ClaimsOK(v)'
  BY <1>1 DEF ClaimsOK, Undisturbed
<1>7. OneChild(v)'
  BY <1>1 DEF OneChild, Undisturbed
<1> QED
  BY <1>3, <1>4, <1>5, <1>6, <1>7

(* And so is what an open request of that user has read, if it did not move. *)
LEMMA OpenKept ==
    ASSUME TypeInv, TypeInv', NEW q \in Procs, pc'[q] = pc[q], req'[q] = req[q], OpenInv(q), FamilyInv',
           NEW v \in Users, v \notin raced', Open(q, v)', Undisturbed(v)
    PROVE  Fresh(q, v)'
<1>1. Fresh(q, v) /\ req[q].user = v
  BY DEF OpenInv, Open, Undisturbed
<1>2. RowRead(q, v)'
  BY <1>1 DEF Fresh, RowRead, HoldsRow, Undisturbed, SameRow
<1>3. KeysRead(q, v)' /\ NoneLeft(q, v)'
  BY <1>1, LiveKept DEF Fresh, KeysRead, NoneLeft
<1>4. PairHeld(q, v)'
  <2> SUFFICES ASSUME pc[q] = "rotate" PROVE PairHeld(q, v)'
    BY DEF PairHeld
  <2>1. req[q].pair \in Pairs /\ tok'[req[q].pair].user = v
    BY <1>1 DEF TypeInv, LocalsOK, Holding
  <2>2. PairHeld(q, v)
    BY <1>1 DEF Fresh
  <2>3. tok'[req[q].pair].root \notin ended'
    BY <2>1, <2>2, RootKept DEF PairHeld
  <2>4. LiveOf(v)' \subseteq {req[q].pair} /\ EndedOf(v)' \subseteq tok'[req[q].pair].after
    BY <2>1, <2>2, LiveKept, EndedOfKept DEF PairHeld, Undisturbed
  <2> QED
    BY <2>2, <2>3, <2>4 DEF PairHeld, Undisturbed, SameRow
<1> QED
  BY <1>2, <1>3, <1>4 DEF Fresh

-----------------------------------------------------------------------------
(* Families, ended logins, and the users a step is not about.              *)

(* What the two minting steps write, in terms of the fresh pair. *)
LEMMA IssueEffect ==
    ASSUME TypeInv, NEW p \in Procs, LoginIssue(p)
    PROVE  \E g \in Pairs :
             /\ ~Minted(g)
             /\ tok'[g].user = req[p].user /\ tok'[g].ver = req[p].ver /\ tok'[g].stamp = req[p].stamp
             /\ tok'[g].root = g /\ tok'[g].parent = NoPair /\ tok'[g].after = ended
             /\ \A h \in Pairs \ {g} : tok'[h] = tok[h] /\ rtKey'[h] = rtKey[h]
             /\ now' = now
<1>1. PICK g \in Pairs :
        /\ ~Minted(g)
        /\ Mint(g, req[p].user, req[p].ver, req[p].stamp, g, NoPair, ended)
        /\ rtKey' = [rtKey EXCEPT ![g] = RtRecord("valid", RefreshLife)]
  BY DEF LoginIssue
<1> QED
  BY <1>1 DEF Mint, TypeInv, TypeOK, LoginIssue

LEMMA RotateEffect ==
    ASSUME TypeInv, NEW p \in Procs, RefreshRotate(p)
    PROVE  /\ req[p].pair \in Pairs /\ Minted(req[p].pair) /\ tok[req[p].pair].user = req[p].user
           /\ \E g \in Pairs :
                /\ ~Minted(g) /\ g # req[p].pair
                /\ tok'[g].user = req[p].user /\ tok'[g].ver = RefreshedVersion
                /\ tok'[g].stamp = tok[req[p].pair].stamp
                /\ tok'[g].root = tok[req[p].pair].root /\ tok'[g].parent = req[p].pair
                /\ tok'[g].after = tok[req[p].pair].after
                /\ rtKey'[req[p].pair].status = "used"
                /\ \A h \in Pairs \ {g} : tok'[h] = tok[h]
                /\ \A h \in Pairs \ {g, req[p].pair} : rtKey'[h] = rtKey[h]
                /\ now' = now
<1> DEFINE old == req[p].pair
<1>0. old \in Pairs /\ Minted(old) /\ tok[old].user = req[p].user
  BY SentinelAssumption DEF TypeInv, LocalsOK, Holding, RefreshRotate, Minted
<1>1. PICK g \in Pairs :
        /\ ~Minted(g)
        /\ Mint(g, req[p].user, RefreshedVersion, tok[old].stamp, tok[old].root, old,
             tok[old].after)
        /\ rtKey' = [rtKey EXCEPT ![old] = RtRecord("used", UsedLife),
                                  ![g] = RtRecord("valid", RefreshLife)]
  BY DEF RefreshRotate
<1>2. g # old /\ now' = now
  BY <1>0, <1>1 DEF RefreshRotate
<1>3. /\ tok'[g].user = req[p].user /\ tok'[g].ver = RefreshedVersion
      /\ tok'[g].stamp = tok[old].stamp /\ tok'[g].root = tok[old].root /\ tok'[g].parent = old
      /\ tok'[g].after = tok[old].after
      /\ \A h \in Pairs \ {g} : tok'[h] = tok[h]
  BY <1>1 DEF Mint, TypeInv, TypeOK
<1>4. rtKey'[old].status = "used" /\ \A h \in Pairs \ {g, old} : rtKey'[h] = rtKey[h]
  BY <1>0, <1>1, <1>2 DEF TypeInv, TypeOK, RtRecord
<1> QED
  BY <1>0, <1>1, <1>2, <1>3, <1>4

(* A pair minted by a step continues the family it is minted into. *)
LEMMA FamilyKept ==
    ASSUME TypeInv, FamilyInv, NEW p \in Procs, RequestStep(p)
    PROVE  FamilyInv'
<1>0. TypeOK
  BY DEF TypeInv
<1> SUFFICES ASSUME NEW g \in Pairs, tok'[g].user # NoUser
             PROVE  /\ tok'[g].root \in Pairs /\ tok'[tok'[g].root].user = tok'[g].user
                    /\ \A h \in Pairs : tok'[g].parent = h =>
                          tok'[h].user = tok'[g].user /\ RtStatus(h)' # "valid"
  BY DEF FamilyInv, Minted
<1>1. CASE Minted(g)
  <2>1. tok'[g] = tok[g]
    BY <1>0, <1>1, TokensStable
  <2>2. /\ tok[g].root \in Pairs /\ tok[tok[g].root].user = tok[g].user
        /\ \A h \in Pairs : tok[g].parent = h => tok[h].user = tok[g].user /\ RtStatus(h) # "valid"
    BY <1>1 DEF FamilyInv
  <2>3. tok'[tok[g].root] = tok[tok[g].root]
    BY <1>0, <1>1, <2>2, TokensStable DEF Minted
  <2>4. ASSUME NEW h \in Pairs, tok[g].parent = h
        PROVE  tok'[h] = tok[h] /\ RtStatus(h)' # "valid"
    <3>1. Minted(h) /\ RtStatus(h) # "valid"
      BY <1>1, <2>2, <2>4 DEF Minted
    <3> QED
      BY <1>0, <3>1, TokensStable, ValidNeverReturns
  <2> QED
    BY <2>1, <2>2, <2>3, <2>4
<1>2. CASE ~Minted(g) /\ LoginIssue(p)
  <2>1. tok'[g].root = g /\ tok'[g].parent = NoPair
    BY <1>2, IssueEffect DEF Minted
  <2> QED
    BY <2>1, SentinelAssumption
<1>3. CASE ~Minted(g) /\ RefreshRotate(p)
  <2>1. PICK old \in Pairs : old = req[p].pair
    BY <1>3, RotateEffect
  <2>2. /\ Minted(old) /\ tok[old].user = req[p].user
        /\ tok'[g].user = req[p].user /\ tok'[g].root = tok[old].root /\ tok'[g].parent = old
        /\ rtKey'[old].status = "used"
    BY <1>3, <2>1, RotateEffect DEF Minted
  <2>3. tok'[old] = tok[old]
    BY <1>0, <2>2, TokensStable
  <2>4. tok[old].root \in Pairs /\ tok[tok[old].root].user = tok[old].user
    BY <2>2 DEF FamilyInv
  <2>5. tok'[tok[old].root] = tok[tok[old].root]
    BY <1>0, <2>2, <2>4, TokensStable DEF Minted
  <2>6. RtStatus(old)' # "valid"
    BY <2>2 DEF RtStatus
  <2> QED
    BY <2>2, <2>3, <2>4, <2>5, <2>6
<1>4. CASE ~Minted(g) /\ ~LoginIssue(p) /\ ~RefreshRotate(p)
  BY <1>4, TokensKept DEF Minted
<1> QED
  BY <1>1, <1>2, <1>3, <1>4

(* A revocation ends logins of its own user only. *)
LEMMA EndedOfUser ==
    ASSUME TypeInv, FamilyInv, NEW p \in Procs, LocalInv(p), RequestStep(p), NEW r \in ended', r \notin ended
    PROVE  r \in Pairs /\ Minted(r) /\ tok[r].user = req[p].user /\ UNCHANGED tok
<1>0. (req[p].user \in Users /\ req[p].user # NoUser) \/ ~Writing(p)
  BY SentinelAssumption DEF TypeInv, LocalsOK, Writing, LoginRevoke, LoginIssue, RefreshRotate,
     DeleteCommit, RevokeDelete, PasswordWrite, RevokeKeys
<1>1. CASE LoginRevoke(p)
  <2>1. PICK k \in req[p].keys : r = tok[k].root
    BY <1>1 DEF LoginRevoke
  <2>2. k \in Pairs /\ tok[k].user = req[p].user
    BY <1>1, <2>1, ReqFields DEF LocalInv, LoginRevoke, TypeInv
  <2> QED
    BY <1>0, <1>1, <2>1, <2>2 DEF Writing, FamilyInv, Minted, LoginRevoke
<1>2. CASE RevokeKeys(p) \/ RevokeDelete(p)
  <2>1. Writing(p) /\ r \in Lineages(req[p].user) /\ UNCHANGED tok
    BY <1>2 DEF RevokeKeys, RevokeDelete, Writing
  <2>2. PICK g \in Pairs : tok[g].user = req[p].user /\ r = tok[g].root
    BY <2>1 DEF Lineages
  <2> QED
    BY <1>0, <2>1, <2>2 DEF FamilyInv, Minted
<1>3. CASE ~LoginRevoke(p) /\ ~RevokeKeys(p) /\ ~RevokeDelete(p)
  <2>1. ended' = ended
    BY <1>3, QuietStep DEF Writing, LoginIssue, RefreshRotate, DeleteCommit, PasswordWrite
  <2> QED
    BY <2>1
<1> QED
  BY <1>1, <1>2, <1>3

LEMMA EndedKept ==
    ASSUME TypeInv, FamilyInv, EndedInv, NEW p \in Procs, LocalInv(p), RequestStep(p)
    PROVE  EndedInv'
<1> SUFFICES ASSUME NEW r \in ended' PROVE r \in Pairs /\ Minted(r)'
  BY DEF EndedInv
<1>1. CASE r \in ended
  <2>1. r \in Pairs /\ Minted(r)
    BY <1>1 DEF EndedInv
  <2> QED
    BY <2>1, TokensStable DEF Minted, TypeInv
<1>2. CASE r \notin ended
  BY <1>2, EndedOfUser DEF Minted
<1> QED
  BY <1>1, <1>2

(* ended only grows. *)
LEMMA EndedGrows ==
    ASSUME TypeInv, NEW p \in Procs, RequestStep(p)
    PROVE  ended \subseteq ended'
BY QuietStep DEF Writing, LoginRevoke, LoginIssue, RefreshRotate, DeleteCommit, RevokeDelete,
   PasswordWrite, RevokeKeys

(* Only rows of the request's user are written. *)
LEMMA OtherRows ==
    ASSUME TypeInv, NEW p \in Procs, RequestStep(p), NEW v \in Users, v # req[p].user \/ ~Writing(p)
    PROVE  SameRow(v)
<1>1. CASE Writing(p) /\ ~PasswordWrite(p) /\ ~DeleteCommit(p)
  <2>1. users' = users
    BY <1>1 DEF Writing, LoginRevoke, LoginIssue, RefreshRotate, RevokeDelete, RevokeKeys, rowVars
  <2> QED
    BY <2>1 DEF SameRow
<1>2. CASE PasswordWrite(p) /\ v # req[p].user
  BY <1>2 DEF PasswordWrite, SameRow, TypeInv, TypeOK
<1>3. CASE DeleteCommit(p) /\ v # req[p].user
  BY <1>3 DEF DeleteCommit, SameRow, TypeInv, TypeOK
<1> QED
  BY <1>1, <1>2, <1>3, QuietStep

(* A step disturbs nothing that is known of any user but its own, and a    *)
(* step that does not write disturbs nothing at all.                       *)
LEMMA OthersUndisturbed ==
    ASSUME TypeInv, FamilyInv, NEW p \in Procs, LocalInv(p), RequestStep(p),
           NEW v \in Users, v # req[p].user \/ ~Writing(p)
    PROVE  Undisturbed(v)
<1>0. TypeOK /\ v # NoUser
  BY SentinelAssumption DEF TypeInv
<1>1. ASSUME NEW g \in Pairs, tok'[g].user = v
      PROVE  tok'[g] = tok[g]
  <2>1. CASE LoginIssue(p)
    BY <1>1, <2>1, IssueEffect DEF Writing
  <2>2. CASE RefreshRotate(p)
    BY <1>1, <2>2, RotateEffect DEF Writing
  <2> QED
    BY <2>1, <2>2, TokensKept
<1>2. ASSUME NEW g \in Pairs, tok'[g].user = v, RtStatus(g) # "valid"
      PROVE  RtStatus(g)' # "valid"
  BY <1>0, <1>1, <1>2, ValidNeverReturns DEF Minted
<1>3. ASSUME NEW r \in ended', tok'[r].user = v
      PROVE  r \in ended
  <2> SUFFICES ASSUME r \notin ended PROVE FALSE
    OBVIOUS
  <2>1. tok[r].user = req[p].user /\ UNCHANGED tok
    BY EndedOfUser
  <2>2. Writing(p)
    BY QuietStep
  <2> QED
    BY <1>3, <2>1, <2>2
<1> QED
  BY <1>1, <1>2, <1>3, OtherRows, RacedGrows DEF Undisturbed

-----------------------------------------------------------------------------
(* The writes, as seen by the user they are about.                         *)

(* What a write of an open request may rely on. *)
LEMMA OwnFresh ==
    ASSUME CalmInv, TypeInv, NEW p \in Procs, RequestStep(p), NEW u \in Users, u = req[p].user,
           u \notin raced', Open(p, u)
    PROVE  /\ RowRead(p, u) /\ KeysRead(p, u) /\ NoneLeft(p, u) /\ PairHeld(p, u)
BY RacedGrows DEF CalmInv, OpenInv, Fresh

(* What is known of a user that remains calm. *)
LEMMA WasCalm ==
    ASSUME CalmInv, TypeInv, NEW p \in Procs, RequestStep(p), NEW u \in Users, u \notin raced'
    PROVE  OneLive(u) /\ LiveOK(u) /\ RowOK(u) /\ ClaimsOK(u) /\ OneChild(u)
BY RacedGrows DEF CalmInv, UserInv

(* Without a live session, sessions do not matter. *)
LEMMA NoLive ==
    ASSUME NEW u, LiveOf(u) = {}
    PROVE  OneLive(u) /\ LiveOK(u)
BY DEF OneLive, LiveOK

(* The sessions of a user end when every listed key is deleted. *)
LEMMA Deleted ==
    ASSUME NEW u, NEW keys \in SUBSET Pairs, LiveOf(u) \subseteq keys,
           rtKey' = RtWithout(keys), UNCHANGED <<tok, now>>
    PROVE  LiveOf(u)' = {}
<1> SUFFICES ASSUME NEW g \in Pairs, tok'[g].user = u, RtStatus(g)' = "valid" PROVE FALSE
  BY DEF LiveOf
<1>1. CASE g \in keys
  BY <1>1 DEF RtWithout, NoKey, RtStatus
<1>2. CASE g \notin keys
  <2>1. rtKey'[g] = rtKey[g]
    BY <1>2 DEF RtWithout
  <2> QED
    BY <1>2, <2>1 DEF LiveOf, RtStatus
<1> QED
  BY <1>1, <1>2

(* A write that mints nothing and leaves the row as it is. *)
LEMMA SessionsEnded ==
    ASSUME NEW u \in Users, UNCHANGED <<tok, users>>, LiveOf(u)' = {}, RowOK(u), ClaimsOK(u), OneChild(u)
    PROVE  UserInv(u)'
<1>1. OneLive(u)' /\ LiveOK(u)'
  BY DEF OneLive, LiveOK
<1>2. RowOK(u)' /\ ClaimsOK(u)' /\ OneChild(u)'
  BY DEF RowOK, ClaimsOK, OneChild
<1> QED
  BY <1>1, <1>2 DEF UserInv

(* A login leaves no session of its user alive, then begins the only one. *)
LEMMA LoginRevokeCalm ==
    ASSUME CalmInv, TypeInv, NEW p \in Procs, LoginRevoke(p), NEW u \in Users, u = req[p].user,
           u \notin raced'
    PROVE  UserInv(u)' /\ Fresh(p, u)'
<1>0. RequestStep(p) /\ pc[p] = "collect" /\ Open(p, u)
  BY DEF RequestStep, FreeStep, LoginRevoke, Open
<1>1. RowRead(p, u) /\ LiveOf(u) \subseteq req[p].keys
  BY <1>0, OwnFresh DEF KeysRead
<1>2. LiveOf(u)' = {}
  BY <1>1, Deleted, ReqFields DEF LoginRevoke, TypeInv
<1>3. UNCHANGED <<tok, users>>
  BY DEF LoginRevoke, rowVars
<1>4. UserInv(u)'
  BY <1>0, <1>2, <1>3, WasCalm, SessionsEnded
<1>5. pc'[p] = "issue" /\ req'[p].ver = req[p].ver /\ req'[p].stamp = req[p].stamp
  BY ReqFields DEF LoginRevoke, Step, TypeInv, TypeOK, Req
<1>6. RowRead(p, u)'
  BY <1>0, <1>1, <1>3, <1>5 DEF RowRead, HoldsRow, LoggingIn
<1>7. KeysRead(p, u)' /\ NoneLeft(p, u)' /\ PairHeld(p, u)'
  BY <1>2, <1>5 DEF KeysRead, NoneLeft, PairHeld
<1> QED
  BY <1>4, <1>6, <1>7 DEF Fresh

LEMMA LoginIssueCalm ==
    ASSUME CalmInv, TypeInv, NEW p \in Procs, LoginIssue(p), NEW u \in Users, u = req[p].user,
           u \notin raced'
    PROVE  UserInv(u)'
<1>0. RequestStep(p) /\ pc[p] = "issue" /\ Open(p, u) /\ UNCHANGED <<users, ended>>
  BY DEF RequestStep, FreeStep, LoginIssue, Open, rowVars
<1>1. /\ users[u].status = "live" /\ req[p].ver = users[u].version /\ req[p].stamp = users[u].stamp
      /\ LiveOf(u) = {}
  BY <1>0, OwnFresh DEF RowRead, HoldsRow, LoggingIn, NoneLeft
<1>2. PICK g \in Pairs :
        /\ ~Minted(g)
        /\ tok'[g].user = req[p].user /\ tok'[g].ver = req[p].ver /\ tok'[g].stamp = req[p].stamp
        /\ tok'[g].root = g /\ tok'[g].parent = NoPair /\ tok'[g].after = ended
        /\ \A h \in Pairs \ {g} : tok'[h] = tok[h] /\ rtKey'[h] = rtKey[h]
        /\ now' = now
  BY IssueEffect
<1>3. RowOK(u) /\ ClaimsOK(u) /\ OneChild(u)
  BY <1>0, WasCalm
<1>4. LiveOf(u)' \subseteq {g}
  BY <1>1, <1>2 DEF LiveOf, RtStatus
<1>5. g \notin ended
  BY <1>2 DEF CalmInv, EndedInv
<1>6. OneLive(u)' /\ LiveOK(u)'
  BY <1>0, <1>1, <1>2, <1>4, <1>5 DEF OneLive, LiveOK, EndedOf
<1>7. RowOK(u)'
  BY <1>0, <1>3 DEF RowOK
<1>8. ClaimsOK(u)'
  <2>1. tok'[g].ver = tok'[g].stamp + 1
    BY <1>1, <1>2, <1>3 DEF RowOK
  <2>2. tok'[g].stamp \in Nat
    BY <1>2, ReqFields DEF TypeInv
  <2> QED
    BY <1>2, <1>3, <2>1, <2>2 DEF ClaimsOK
<1>9. OneChild(u)'
  BY <1>2, <1>3 DEF OneChild
<1> QED
  BY <1>6, <1>7, <1>8, <1>9 DEF UserInv

(* A refresh replaces the only session of its user, in the same login. *)
LEMMA RotateCalm ==
    ASSUME CalmInv, TypeInv, NEW p \in Procs, RefreshRotate(p), NEW u \in Users, u = req[p].user,
           u \notin raced'
    PROVE  UserInv(u)'
<1> DEFINE old == req[p].pair
<1>0. RequestStep(p) /\ pc[p] = "rotate" /\ Open(p, u) /\ UNCHANGED <<users, ended>>
  BY DEF RequestStep, FreeStep, RefreshRotate, Open, rowVars
<1>1. /\ users[u].status = "live" /\ LiveOf(u) \subseteq {old} /\ tok[old].root \notin ended
      /\ EndedOf(u) \subseteq tok[old].after
      /\ \A h \in Pairs : tok[h].user = u => tok[h].parent # old
  BY <1>0, OwnFresh DEF PairHeld
<1>2. old \in Pairs /\ tok[old].user = u
  BY RotateEffect
<1>3. PICK g \in Pairs :
        /\ ~Minted(g) /\ g # old
        /\ tok'[g].user = u /\ tok'[g].ver = RefreshedVersion /\ tok'[g].stamp = tok[old].stamp
        /\ tok'[g].root = tok[old].root /\ tok'[g].parent = old /\ tok'[g].after = tok[old].after
        /\ rtKey'[old].status = "used"
        /\ \A h \in Pairs \ {g} : tok'[h] = tok[h]
        /\ \A h \in Pairs \ {g, old} : rtKey'[h] = rtKey[h]
        /\ now' = now
  BY RotateEffect
<1>4. RowOK(u) /\ ClaimsOK(u) /\ OneChild(u)
  BY <1>0, WasCalm
<1>5. LiveOf(u)' \subseteq {g}
  <2> SUFFICES ASSUME NEW h \in Pairs, tok'[h].user = u, RtStatus(h)' = "valid", h # g PROVE FALSE
    BY DEF LiveOf
  <2>1. CASE h = old
    BY <1>3, <2>1 DEF RtStatus
  <2>2. CASE h # old
    <3>1. h \in LiveOf(u)
      BY <1>3, <2>2 DEF LiveOf, RtStatus
    <3> QED
      BY <1>1, <2>2, <3>1
  <2> QED
    BY <2>1, <2>2
<1>a. EndedOf(u)' \subseteq EndedOf(u)
  BY <1>0, <1>3 DEF EndedOf, CalmInv, EndedInv
<1>6. OneLive(u)' /\ LiveOK(u)'
  BY <1>0, <1>1, <1>3, <1>5, <1>a DEF OneLive, LiveOK
<1>7. RowOK(u)'
  BY <1>0, <1>4 DEF RowOK
<1>8. ClaimsOK(u)'
  <2>1. tok[old].stamp \in Nat
    BY <1>2 DEF TypeInv, TypeOK, Token
  <2>2. tok'[g].ver <= tok'[g].stamp + 1
    BY <1>3, <2>1 DEF RefreshedVersion
  <2> QED
    BY <1>3, <1>4, <2>2 DEF ClaimsOK
<1>9. OneChild(u)'
  BY <1>1, <1>3, <1>4 DEF OneChild
<1> QED
  BY <1>6, <1>7, <1>8, <1>9 DEF UserInv

(* A password change raises the version it read, which is the row's. *)
LEMMA PasswordVersion ==
    ASSUME CalmInv, TypeInv, NEW p \in Procs, PasswordWrite(p), NEW u \in Users, u = req[p].user,
           u \notin raced', users[u].status = "live"
    PROVE  /\ users'[u].version = users[u].version + 1 /\ users'[u].stamp = users[u].stamp + 1
           /\ users'[u].status = "live" /\ UNCHANGED <<now, tok, rtKey, ended>>
<1>1. RequestStep(p) /\ pc[p] = "write" /\ Open(p, u)
  BY DEF RequestStep, LockStep, PasswordWrite, Open
<1>2. req[p].ver = users[u].version
  BY <1>1, OwnFresh DEF RowRead, HoldsRow
<1>3. /\ users' = [users EXCEPT ![u].version = req[p].ver + 1, ![u].stamp = @ + 1]
      /\ UNCHANGED <<now, tok, rtKey, ended>>
  BY DEF PasswordWrite, NextVersion, redisVars
<1> QED
  BY <1>2, <1>3 DEF TypeInv, TypeOK, Row

LEMMA PasswordCalm ==
    ASSUME CalmInv, TypeInv, NEW p \in Procs, PasswordWrite(p), NEW u \in Users, u = req[p].user,
           u \notin raced', users[u].status = "live"
    PROVE  UserInv(u)'
<1>1. /\ users'[u].version = users[u].version + 1 /\ users'[u].stamp = users[u].stamp + 1
      /\ users'[u].status = "live" /\ UNCHANGED <<now, tok, rtKey, ended>>
  BY PasswordVersion
<1>2. OneLive(u) /\ LiveOK(u) /\ RowOK(u) /\ ClaimsOK(u) /\ OneChild(u)
  BY WasCalm DEF RequestStep, LockStep
<1>3. LiveOf(u)' = LiveOf(u)
  BY <1>1 DEF LiveOf, RtStatus
<1>4. OneLive(u)' /\ LiveOK(u)' /\ ClaimsOK(u)' /\ OneChild(u)'
  BY <1>1, <1>2, <1>3 DEF OneLive, LiveOK, ClaimsOK, OneChild, EndedOf
<1>5. RowOK(u)'
  BY <1>1, <1>2 DEF RowOK
<1> QED
  BY <1>4, <1>5 DEF UserInv

(* A deletion commits after its revocation left no session. *)
LEMMA DeleteCalm ==
    ASSUME CalmInv, TypeInv, NEW p \in Procs, DeleteCommit(p), NEW u \in Users, u = req[p].user,
           u \notin raced'
    PROVE  UserInv(u)'
<1>0. RequestStep(p) /\ pc[p] = "commit" /\ req[p].op = "delete" /\ Open(p, u)
  BY DEF RequestStep, LockStep, DeleteCommit, Open
<1>1. LiveOf(u) = {} /\ users[u].status # "none"
  BY <1>0, OwnFresh DEF NoneLeft, CalmInv, LocalInv
<1>2. RowOK(u) /\ ClaimsOK(u) /\ OneChild(u)
  BY <1>0, WasCalm
<1>3. /\ UNCHANGED <<now, tok, rtKey, ended>>
      /\ users' = [users EXCEPT ![u].status = "gone"]
  BY DEF DeleteCommit, redisVars
<1>4. users'[u].status = "gone" /\ users'[u].version = users[u].version /\ users'[u].stamp = users[u].stamp
  BY <1>3 DEF TypeInv, TypeOK, Row
<1>5. LiveOf(u)' = {}
  BY <1>1, <1>3 DEF LiveOf, RtStatus
<1>6. OneLive(u)' /\ LiveOK(u)'
  BY <1>5 DEF OneLive, LiveOK
<1>7. RowOK(u)' /\ ClaimsOK(u)' /\ OneChild(u)'
  BY <1>1, <1>2, <1>3, <1>4 DEF RowOK, ClaimsOK, OneChild
<1> QED
  BY <1>6, <1>7 DEF UserInv

(* A revocation leaves no session of its user alive. *)
LEMMA RevokeCalm ==
    ASSUME CalmInv, TypeInv, NEW p \in Procs,
           RevokeDelete(p) \/ (RevokeKeys(p) /\ KeysOf(req[p].user) = {}),
           NEW u \in Users, u = req[p].user, u \notin raced'
    PROVE  UserInv(u)' /\ Fresh(p, u)'
<1>0. RequestStep(p) /\ UNCHANGED <<now, tok, users>>
  BY DEF RequestStep, FreeStep, RevokeDelete, RevokeKeys, rowVars
<1>1. LiveOf(u)' = {}
  <2>1. CASE RevokeDelete(p)
    <3>1. Open(p, u) /\ pc[p] = "revoke_delete"
      BY <2>1 DEF RevokeDelete, Open
    <3>2. LiveOf(u) \subseteq req[p].keys
      BY <1>0, <3>1, OwnFresh DEF KeysRead
    <3> QED
      BY <1>0, <2>1, <3>2, Deleted, ReqFields DEF RevokeDelete, TypeInv
  <2>2. CASE RevokeKeys(p) /\ KeysOf(req[p].user) = {}
    BY <1>0, <2>2 DEF RevokeKeys, KeysOf, LiveOf, RtStatus, redisVars
  <2> QED
    BY <2>1, <2>2
<1>2. UserInv(u)'
  BY <1>0, <1>1, WasCalm, SessionsEnded
<1>3. pc'[p] \in {"commit", "idle"}
  BY DEF RevokeDelete, RevokeKeys, AfterRevoke, Goto, End, Step, TypeInv, TypeOK
<1>4. RowRead(p, u)' /\ KeysRead(p, u)' /\ PairHeld(p, u)' /\ NoneLeft(p, u)'
  BY <1>1, <1>3 DEF RowRead, HoldsRow, LoggingIn, KeysRead, PairHeld, NoneLeft
<1> QED
  BY <1>2, <1>4 DEF Fresh

(* A request that ends, or moves to where nothing it read matters, has     *)
(* nothing to hold.                                                        *)
LEMMA NothingRead ==
    ASSUME NEW q, NEW u,
           pc'[q] \notin LoggingIn \union {"rotate", "write", "served", "commit", "revoke_delete"}
    PROVE  Fresh(q, u)'
BY DEF Fresh, RowRead, HoldsRow, KeysRead, NoneLeft, PairHeld, LoggingIn

(* Where a step of request p takes it. *)
LEMMA WriteEnds ==
    ASSUME TypeInv, NEW p \in Procs, NEW u,
           LoginIssue(p) \/ RefreshRotate(p) \/ PasswordWrite(p) \/ DeleteCommit(p)
    PROVE  Fresh(p, u)'
<1>1. pc'[p] \in {"idle", "revoke_keys"}
  BY DEF LoginIssue, RefreshRotate, PasswordWrite, DeleteCommit, End, Step, TypeInv, TypeOK
<1> QED
  BY <1>1, NothingRead DEF LoggingIn

(* Every write keeps its own user calm, or puts it into raced. *)
LEMMA WriteCalm ==
    ASSUME CalmInv, TypeInv, NEW p \in Procs, Writing(p), NEW u \in Users, u = req[p].user,
           u \notin raced'
    PROVE  UserInv(u)' /\ Fresh(p, u)'
BY LoginRevokeCalm, LoginIssueCalm, RotateCalm, PasswordCalm, DeleteCalm, RevokeCalm, WriteEnds
   DEF Writing

-----------------------------------------------------------------------------
(* What the steps that only read find.                                     *)

(* In a quiet step the sessions, the claims and the rows stay. *)
LEMMA QuietLive ==
    ASSUME TypeInv, NEW p \in Procs, RequestStep(p), ~Writing(p), NEW u
    PROVE  LiveOf(u)' = LiveOf(u)
<1>1. UNCHANGED <<now, tok, rtKey>>
  BY QuietStep
<1> QED
  BY <1>1 DEF LiveOf, RtStatus

(* Login reads the row, then the keys, then deletes what it listed. *)
LEMMA LoginReads ==
    ASSUME CalmInv, TypeInv, NEW p \in Procs, RequestStep(p), ~Writing(p), NEW u \in Users,
           u \notin raced', Open(p, u)',
           (\E v \in Users : LoginRead(p, v)) \/ LoginKeys(p) \/ LoginCollect(p)
    PROVE  Fresh(p, u)'
<1>0. SameRow(u) /\ LiveOf(u)' = LiveOf(u) /\ req'[p].user = u /\ u \notin raced /\ TypeOK
  BY QuietStep, QuietLive DEF Open, TypeInv
<1> USE DEF RowRead, HoldsRow, LoggingIn, KeysRead, NoneLeft, PairHeld, Fresh, SameRow
<1>1. CASE \E v \in Users : LoginRead(p, v)
  <2>1. PICK v \in Users : LoginRead(p, v)
    BY <1>1
  <2>2. /\ pc'[p] = "login_keys" /\ req'[p].user = v /\ req'[p].ver = users[v].version
        /\ req'[p].stamp = users[v].stamp /\ users[v].status = "live"
    BY <1>0, <2>1 DEF LoginRead, Start, NoReq, TypeOK
  <2> QED
    BY <1>0, <2>2
<1>2. CASE LoginKeys(p)
  <2> DEFINE r == [req[p] EXCEPT !.keys = KeysOf(req[p].user), !.todo = KeysOf(req[p].user)]
             l == IF KeysOf(req[p].user) = {} THEN "issue" ELSE "collect"
  <2>1. /\ r.keys = KeysOf(req[p].user) /\ r.user = req[p].user /\ r.ver = req[p].ver
        /\ r.stamp = req[p].stamp
    BY <1>0 DEF TypeOK, Req
  <2>2. pc'[p] = l /\ req'[p] = r
    BY <1>0, <1>2 DEF LoginKeys, Step, TypeOK
  <2> HIDE DEF r
  <2>3. pc[p] = "login_keys" /\ req[p].user = u /\ Open(p, u)
    BY <1>0, <1>2, <2>1, <2>2 DEF LoginKeys, Open
  <2>4. users[u].status = "live" /\ req[p].ver = users[u].version /\ req[p].stamp = users[u].stamp
    BY <2>3, OwnFresh
  <2>5. LiveOf(u) \subseteq KeysOf(u)
    BY DEF LiveOf, KeysOf
  <2> QED
    BY <1>0, <2>1, <2>2, <2>3, <2>4, <2>5
<1>3. CASE LoginCollect(p)
  <2>1. PICK k \in req[p].todo :
          Step(p, "collect",
               [req[p] EXCEPT !.todo = @ \ {k},
                              !.hits = IF RtStatus(k) = "valid" THEN @ \union {k} ELSE @])
    BY <1>3 DEF LoginCollect
  <2>2. /\ pc'[p] = "collect" /\ req'[p].keys = req[p].keys /\ req'[p].user = req[p].user
        /\ req'[p].ver = req[p].ver /\ req'[p].stamp = req[p].stamp
    BY <1>0, <2>1 DEF Step, TypeOK, Req
  <2>3. pc[p] = "collect" /\ req[p].user = u /\ Open(p, u)
    BY <1>0, <1>3, <2>2 DEF LoginCollect, Open
  <2> QED
    BY <1>0, <2>2, <2>3, OwnFresh
<1> QED
  BY <1>1, <1>2, <1>3

(* A refresh begins with the only session of its user. *)
LEMMA RefreshReads ==
    ASSUME CalmInv, TypeInv, NEW p \in Procs, RequestStep(p), ~Writing(p), NEW u \in Users,
           u \notin raced', Open(p, u)', NEW g \in Pairs, RefreshAccept(p, g)
    PROVE  Fresh(p, u)'
<1>0. SameRow(u) /\ LiveOf(u)' = LiveOf(u) /\ UNCHANGED <<tok, ended>>
  BY QuietStep, QuietLive
<1>1. pc'[p] = "rotate" /\ req'[p].pair = g /\ req'[p].user = tok[g].user
  BY DEF RefreshAccept, Start, NoReq, TypeInv, TypeOK
<1>2. tok[g].user = u /\ g \in LiveOf(u)
  BY <1>1 DEF Open, RefreshAccept, LiveOf
<1>3. /\ LiveOf(u) \subseteq {g} /\ users[u].status = "live" /\ tok[g].root \notin ended
      /\ EndedOf(u) \subseteq tok[g].after /\ EndedOf(u)' = EndedOf(u)
  BY <1>0, <1>2, WasCalm DEF OneLive, LiveOK, EndedOf
<1>4. \A h \in Pairs : tok[h].user = u => tok[h].parent # g
  BY <1>2, SentinelAssumption DEF CalmInv, FamilyInv, Minted, LiveOf
<1> QED
  BY <1>0, <1>1, <1>3, <1>4
     DEF Fresh, RowRead, HoldsRow, LoggingIn, KeysRead, NoneLeft, PairHeld, SameRow

(* get_current_user reads the row that a password change will write, and   *)
(* an administrator's reset reads it first.                                *)
LEMMA PasswordReads ==
    ASSUME CalmInv, TypeInv, NEW p \in Procs, RequestStep(p), ~Writing(p), NEW u \in Users,
           u \notin raced', Open(p, u)',
           \/ AuthUser(p) \/ Serve(p)
           \/ \E v \in Users, op \in AdminOps, a \in BOOLEAN : AdminArrive(p, v, op, a)
    PROVE  Fresh(p, u)'
<1>0. SameRow(u) /\ LiveOf(u)' = LiveOf(u) /\ req'[p].user = u /\ TypeOK /\ LocalsOK(p)
  BY QuietStep, QuietLive DEF Open, TypeInv
<1> USE DEF RowRead, HoldsRow, LoggingIn, KeysRead, NoneLeft, PairHeld, Fresh, SameRow
<1>1. CASE AuthUser(p)
  <2>1. pc'[p] \in {"served", "idle"}
    BY <1>0, <1>1 DEF AuthUser, End, Step, TypeOK
  <2>2. CASE pc'[p] = "served"
    <3>1. /\ users[req[p].user].status = "live"
          /\ Step(p, "served", [req[p] EXCEPT !.ver = users[req[p].user].version])
      BY <1>0, <1>1, <2>2 DEF AuthUser, End, Step, TypeOK
    <3>2. req'[p].ver = users[req[p].user].version /\ req'[p].user = req[p].user
      BY <1>0, <3>1 DEF Step, TypeOK, Req
    <3> QED
      BY <1>0, <2>2, <3>1, <3>2
  <2> QED
    BY <2>1, <2>2
<1>2. CASE Serve(p)
  <2>1. pc'[p] \in {"write", "idle", "revoke_keys"}
    BY <1>0, <1>2 DEF Serve, End, Goto, Step, TypeOK
  <2>2. CASE pc'[p] = "write"
    <3>1. pc[p] = "served" /\ req[p].op = "password" /\ req' = req
      BY <1>0, <1>2, <2>2 DEF Serve, End, Goto, Step, TypeOK
    <3>2. Open(p, u)
      BY <1>0, <3>1 DEF Open
    <3> QED
      BY <1>0, <2>2, <3>1, <3>2, OwnFresh
  <2> QED
    BY <2>1, <2>2
<1>3. CASE \E v \in Users, op \in AdminOps, a \in BOOLEAN : AdminArrive(p, v, op, a)
  <2>1. PICK v \in Users, op \in AdminOps, a \in BOOLEAN : AdminArrive(p, v, op, a)
    BY <1>3
  <2> DEFINE ver == IF op = "reset" THEN users[v].version ELSE 0
             was == op = "setactive" /\ users[v].active
             r   == [NoReq EXCEPT !.op = op, !.user = v, !.to = a, !.ver = ver, !.was = was]
  <2>a. req' = [req EXCEPT ![p] = r] /\ pc' = [pc EXCEPT ![p] = AdminEntry(op)]
    BY <2>1 DEF AdminArrive, Start
  <2>b. r.user = v /\ r.ver = ver
    BY DEF NoReq
  <2> HIDE DEF r
  <2>2. /\ pc'[p] = AdminEntry(op) /\ req'[p].user = v
        /\ req'[p].ver = IF op = "reset" THEN users[v].version ELSE 0
    BY <1>0, <2>a, <2>b DEF TypeOK
  <2>3. CASE op = "reset"
    <3>1. pc'[p] = "write" /\ users[v].status = "live"
      BY <2>1, <2>2, <2>3 DEF AdminArrive, AdminEntry
    <3> QED
      BY <1>0, <2>2, <2>3, <3>1
  <2>4. CASE op # "reset"
    <3>1. pc'[p] \in {"flush", "revoke_keys"}
      BY <2>2, <2>4 DEF AdminEntry
    <3> QED
      BY <3>1
  <2> QED
    BY <2>3, <2>4
<1> QED
  BY <1>1, <1>2, <1>3

(* A revocation lists every live session before it deletes, and a switch   *)
(* of is_active deletes no user.                                           *)
LEMMA RevokeReads ==
    ASSUME CalmInv, TypeInv, NEW p \in Procs, RequestStep(p), ~Writing(p), NEW u \in Users,
           u \notin raced', Open(p, u)', RevokeKeys(p) \/ SetActiveFlush(p)
    PROVE  Fresh(p, u)'
<1>0. SameRow(u) /\ LiveOf(u)' = LiveOf(u) /\ req'[p].user = u /\ TypeOK
  BY QuietStep, QuietLive DEF Open, TypeInv
<1> USE DEF RowRead, HoldsRow, LoggingIn, KeysRead, NoneLeft, PairHeld, Fresh
<1>1. CASE RevokeKeys(p)
  <2>1. Step(p, "revoke_delete", [req[p] EXCEPT !.keys = KeysOf(req[p].user)])
    BY <1>1 DEF RevokeKeys, Writing
  <2>2. /\ pc'[p] = "revoke_delete" /\ req'[p].keys = KeysOf(req[p].user)
        /\ req'[p].user = req[p].user
    BY <1>0, <2>1 DEF Step, TypeOK, Req
  <2>3. LiveOf(u) \subseteq KeysOf(u)
    BY DEF LiveOf, KeysOf
  <2> QED
    BY <1>0, <2>2, <2>3
<1>2. CASE SetActiveFlush(p)
  <2>1. pc[p] = "flush" /\ req[p].op = "setactive"
    BY <1>2 DEF SetActiveFlush, CalmInv, LocalInv
  <2>2. pc'[p] = "idle" \/ (pc'[p] \in {"commit", "revoke_keys"} /\ req' = req)
    BY <1>0, <1>2 DEF SetActiveFlush, Goto, End, Step, TypeOK
  <2> QED
    BY <2>1, <2>2
<1> QED
  BY <1>1, <1>2

(* Every step that does not write leaves its own request with a fresh view. *)
LEMMA ReadCalm ==
    ASSUME CalmInv, TypeInv, NEW p \in Procs, RequestStep(p), ~Writing(p), NEW u \in Users,
           u \notin raced', Open(p, u)'
    PROVE  Fresh(p, u)'
<1>1. CASE \/ AuthBlacklist(p) \/ AuthKeys(p) \/ AuthScan(p) \/ SetActiveCommit(p) \/ Fail(p)
           \/ PasswordWrite(p)
           \/ \E g \in Pairs, op \in AuthOps : AuthArrive(p, g, op)
           \/ \E g \in Pairs : RefreshReplay(p, g)
  <2>1. pc'[p] \in {"idle", "auth_black", "auth_keys", "auth_scan", "auth_user", "revoke_keys"}
    BY <1>1 DEF AuthBlacklist, AuthKeys, AuthScan, SetActiveCommit, Fail, PasswordWrite, AuthArrive,
       RefreshReplay, Start, Step, Goto, End, TypeInv, TypeOK
  <2> QED
    BY <2>1, NothingRead DEF LoggingIn
<1> QED
  BY <1>1, LoginReads, RefreshReads, PasswordReads, RevokeReads
     DEF RequestStep, Arrive, FreeStep, LockStep, Writing

-----------------------------------------------------------------------------
(* What the locals of a request say by themselves.                         *)

(* A row that exists never becomes one that does not. *)
LEMMA StatusKept ==
    ASSUME TypeInv, NEW p \in Procs, RequestStep(p), NEW v \in Users, users[v].status # "none"
    PROVE  users'[v].status # "none"
<1>1. CASE SameRow(v)
  BY <1>1 DEF SameRow
<1>2. CASE v = req[p].user /\ PasswordWrite(p)
  BY <1>2 DEF PasswordWrite, TypeInv, TypeOK, Row
<1>3. CASE v = req[p].user /\ DeleteCommit(p)
  BY <1>3 DEF DeleteCommit, TypeInv, TypeOK, Row
<1>4. CASE ~PasswordWrite(p) /\ ~DeleteCommit(p) /\ Writing(p)
  <2>1. users' = users
    BY <1>4 DEF Writing, LoginRevoke, LoginIssue, RefreshRotate, RevokeDelete, RevokeKeys, rowVars
  <2> QED
    BY <2>1
<1> QED
  BY <1>1, <1>2, <1>3, <1>4, OtherRows

(* The pair a request holds is minted, and its claims stay. *)
LEMMA HeldStays ==
    ASSUME TypeInv, NEW p \in Procs, RequestStep(p), NEW q \in Procs, pc[q] \in Holding
    PROVE  req[q].pair \in Pairs /\ Minted(req[q].pair) /\ tok'[req[q].pair] = tok[req[q].pair]
<1>1. req[q].pair \in Pairs /\ Minted(req[q].pair)
  BY SentinelAssumption DEF TypeInv, LocalsOK, Holding, PastBlacklist, Minted
<1> QED
  BY <1>1, TokensStable DEF TypeInv

(* A step of one request leaves what the locals of the others say true. *)
LEMMA LocalOthers ==
    ASSUME TypeInv, NEW p \in Procs, RequestStep(p), NEW q \in Procs \ {p}, LocalInv(q)
    PROVE  LocalInv(q)'
<1>0. pc'[q] = pc[q] /\ req'[q] = req[q] /\ TypeOK /\ LocalsOK(q)
  BY OthersUntouched DEF TypeInv
<1>1. ASSUME NEW k \in Pairs, tok[k].user = req[q].user, pc[q] # "idle"
      PROVE  tok'[k].user = req[q].user
  BY <1>0, <1>1, TokensStable, SentinelAssumption DEF LocalsOK, Minted
<1>2. req[q].keys \subseteq Pairs /\ req[q].todo \subseteq Pairs
  BY <1>0, ReqFields
<1>3. pc[q] # "idle" /\ req[q].op = "delete" => users'[req[q].user].status # "none"
  BY <1>0, StatusKept DEF LocalInv, LocalsOK
<1>4. pc[q] \in PastBlacklist \union {"auth_black"} /\ req[q].ended
        => tok'[req[q].pair].root \in ended'
  BY <1>0, HeldStays, EndedGrows DEF LocalInv, Holding
<1> QED
  BY <1>0, <1>1, <1>2, <1>3, <1>4 DEF LocalInv, PastBlacklist

(* So does a write of the request itself ... *)
LEMMA LocalWrite ==
    ASSUME TypeInv, NEW p \in Procs, RequestStep(p), Writing(p), LocalInv(p)
    PROVE  LocalInv(p)'
<1>0. TypeOK /\ LocalsOK(p) /\ pc[p] # "idle"
  BY DEF TypeInv, Writing, LoginRevoke, LoginIssue, RefreshRotate, DeleteCommit, RevokeDelete,
     PasswordWrite, RevokeKeys
<1>1. pc'[p] \in {"issue", "idle", "revoke_keys", "commit"}
  BY <1>0 DEF TypeOK, Writing, LoginRevoke, LoginIssue, RefreshRotate, DeleteCommit, RevokeDelete,
     PasswordWrite, RevokeKeys, AfterRevoke, End, Goto, Step
<1>2. (req'[p].user = req[p].user /\ req'[p].op = req[p].op) \/ req'[p].op # "delete"
  <2>1. CASE LoginRevoke(p)
    BY <1>0, <2>1 DEF LoginRevoke, Step, TypeOK, Req
  <2>2. CASE ~LoginRevoke(p)
    <3>1. End(p) \/ req' = req \/ req' = [req EXCEPT ![p] = Revoking(req[p].user)]
      BY <2>2 DEF Writing, LoginIssue, RefreshRotate, DeleteCommit, RevokeDelete,
         PasswordWrite, RevokeKeys, AfterRevoke, End, Goto, Step
    <3>2. NoReq.op = "none" /\ Revoking(req[p].user).op = "force"
      BY DEF NoReq, Revoking
    <3> QED
      BY <1>0, <3>1, <3>2 DEF End, Step, TypeOK
  <2> QED
    BY <2>1, <2>2
<1>3. pc'[p] # "idle" /\ req'[p].op = "delete" => users'[req'[p].user].status # "none"
  BY <1>0, <1>2, StatusKept DEF LocalInv, LocalsOK
<1> QED
  BY <1>1, <1>3 DEF LocalInv, PastBlacklist

(* ... and a step that only reads. *)
LEMMA LocalRead ==
    ASSUME TypeInv, NEW p \in Procs, RequestStep(p), ~Writing(p), LocalInv(p)
    PROVE  LocalInv(p)'
<1>0. /\ TypeOK /\ LocalsOK(p) /\ UNCHANGED <<tok, ended>>
      /\ \A v \in Users : users'[v].status = users[v].status
  BY QuietStep DEF TypeInv, SameRow
<1> USE DEF LocalInv, PastBlacklist
<1>1. CASE \/ \E u \in Users : LoginRead(p, u)
           \/ \E g \in Pairs : RefreshReplay(p, g) \/ RefreshAccept(p, g)
  <2>1. ASSUME NEW u \in Users, LoginRead(p, u)
        PROVE  pc'[p] = "login_keys" /\ req'[p].op = "login"
    BY <1>0, <2>1 DEF LoginRead, Start, NoReq, TypeOK
  <2>2. ASSUME NEW g \in Pairs, RefreshReplay(p, g)
        PROVE  pc'[p] = "revoke_keys" /\ req'[p].op = "force"
    BY <1>0, <2>2 DEF RefreshReplay, Start, Revoking, NoReq, TypeOK
  <2>3. ASSUME NEW g \in Pairs, RefreshAccept(p, g)
        PROVE  pc'[p] = "rotate" /\ req'[p].op = "refresh"
    BY <1>0, <2>3 DEF RefreshAccept, Start, NoReq, TypeOK
  <2> QED
    BY <1>1, <2>1, <2>2, <2>3
<1>2. CASE \E g \in Pairs, op \in AuthOps : AuthArrive(p, g, op)
  <2>1. PICK g \in Pairs, op \in AuthOps : AuthArrive(p, g, op)
    BY <1>2
  <2>2. /\ pc'[p] = "auth_black" /\ req'[p].pair = g /\ req'[p].ended = (tok[g].root \in ended)
        /\ req'[p].op \in AuthOps
    BY <1>0, <2>1 DEF AuthArrive, Start, TypeOK, NoReq
  <2> QED
    BY <1>0, <2>2 DEF AuthOps
<1>3. CASE \E u \in Users, op \in AdminOps, a \in BOOLEAN : AdminArrive(p, u, op, a)
  <2>1. PICK u \in Users, op \in AdminOps, a \in BOOLEAN : AdminArrive(p, u, op, a)
    BY <1>3
  <2>2. pc'[p] = AdminEntry(op) /\ req'[p].user = u /\ req'[p].op = op
    BY <1>0, <2>1 DEF AdminArrive, Start, NoReq, TypeOK
  <2>3. AdminEntry(op) \in {"write", "flush", "revoke_keys"} /\ (AdminEntry(op) = "flush" => op = "setactive")
    BY DEF AdminEntry
  <2>4. op = "delete" => users[u].status # "none"
    BY <2>1 DEF AdminArrive
  <2> QED
    BY <1>0, <2>2, <2>3, <2>4
<1>4. CASE End(p)
  BY <1>0, <1>4 DEF End, Step, TypeOK
<1>5. CASE LoginKeys(p) \/ LoginCollect(p)
  <2>1. /\ req'[p].op = req[p].op /\ req'[p].user = req[p].user
        /\ pc'[p] \in {"issue", "collect"} /\ pc[p] # "idle"
    <3>1. CASE LoginKeys(p)
      BY <1>0, <3>1 DEF LoginKeys, Step, TypeOK, Req
    <3>2. CASE LoginCollect(p)
      BY <1>0, <3>2 DEF LoginCollect, Step, TypeOK, Req
    <3> QED
      BY <1>5, <3>1, <3>2
  <2>2. \A k \in req'[p].keys : tok[k].user = req[p].user
    <3>1. CASE LoginKeys(p)
      <4>1. req'[p].keys = KeysOf(req[p].user)
        BY <1>0, <3>1 DEF LoginKeys, Step, TypeOK, Req
      <4> QED
        BY <4>1 DEF KeysOf
    <3>2. CASE LoginCollect(p)
      BY <1>0, <3>2 DEF LoginCollect, Step, TypeOK, Req
    <3> QED
      BY <1>5, <3>1, <3>2
  <2> QED
    BY <1>0, <2>1, <2>2 DEF LocalsOK
<1>6. CASE (AuthBlacklist(p) \/ AuthKeys(p) \/ AuthScan(p) \/ AuthUser(p)) /\ ~End(p)
  <2>1. /\ req'[p].op = req[p].op /\ req'[p].user = req[p].user /\ req'[p].pair = req[p].pair
        /\ req'[p].ended = req[p].ended
        /\ pc'[p] \in PastBlacklist /\ pc[p] \in PastBlacklist \union {"auth_black"}
    BY <1>0, <1>6 DEF AuthBlacklist, AuthKeys, AuthScan, AuthUser, Goto, Step, TypeOK, Req
  <2>2. pc'[p] = "auth_scan" => \A k \in req'[p].todo : tok[k].user = req[p].user
    BY <1>0, <1>6 DEF AuthBlacklist, AuthKeys, AuthScan, AuthUser, Goto, Step, TypeOK, Req, KeysOf
  <2> QED
    BY <1>0, <2>1, <2>2 DEF LocalsOK
<1>7. CASE (Serve(p) \/ PasswordWrite(p)) /\ ~End(p)
  <2>1. Step(p, "revoke_keys", Revoking(req[p].user)) \/ Goto(p, "write")
    BY <1>7 DEF Serve, PasswordWrite
  <2>2. Revoking(req[p].user).op = "force" /\ pc[p] # "idle"
    BY <1>7 DEF Revoking, NoReq, Serve, PasswordWrite
  <2>3. /\ pc'[p] \in {"revoke_keys", "write"}
        /\ req'[p] = req[p] \/ req'[p].op # "delete"
    BY <1>0, <2>1, <2>2 DEF Step, Goto, TypeOK
  <2> QED
    BY <1>0, <2>2, <2>3 DEF LocalsOK
<1>8. CASE SetActiveFlush(p) /\ ~End(p)
  <2>1. pc'[p] \in {"revoke_keys", "commit"} /\ req' = req /\ pc[p] # "idle"
    BY <1>0, <1>8 DEF SetActiveFlush, Goto, TypeOK
  <2> QED
    BY <1>0, <2>1 DEF LocalsOK
<1>9. CASE RevokeKeys(p)
  <2>1. Step(p, "revoke_delete", [req[p] EXCEPT !.keys = KeysOf(req[p].user)]) /\ pc[p] # "idle"
    BY <1>9 DEF RevokeKeys, Writing
  <2>2. /\ pc'[p] = "revoke_delete" /\ req'[p].keys = KeysOf(req[p].user)
        /\ req'[p].user = req[p].user /\ req'[p].op = req[p].op
    BY <1>0, <2>1 DEF Step, TypeOK, Req
  <2> QED
    BY <1>0, <2>1, <2>2 DEF KeysOf, LocalsOK
<1>10. CASE SetActiveCommit(p) \/ Fail(p)
  BY <1>4, <1>10 DEF SetActiveCommit, Fail
<1> QED
  BY <1>1, <1>2, <1>3, <1>4, <1>5, <1>6, <1>7, <1>8, <1>9, <1>10
     DEF RequestStep, Arrive, FreeStep, LockStep, Writing

(* Only a live session lets a request past the session check, and a live   *)
(* session of a calm user goes back to a login made after the ended ones.  *)
LEMMA NewLoginKept ==
    ASSUME CalmInv, TypeInv, NEW p \in Procs, RequestStep(p), NEW q \in Procs
    PROVE  NewLogin(q)'
<1>0. TypeOK /\ LocalsOK(q) /\ raced \subseteq raced'
  BY RacedGrows DEF TypeInv
<1>1. ASSUME pc[q] \in Holding, NEW h \in Pairs, tok[h].user = req[q].user,
             tok[req[q].pair].root \in tok[h].after
      PROVE  tok'[h].user = req[q].user /\ tok'[req[q].pair].root \in tok'[h].after
  <2>1. Minted(h)
    BY <1>0, <1>1, SentinelAssumption DEF LocalsOK, Holding, PastBlacklist, Minted
  <2> QED
    BY <1>0, <1>1, <2>1, HeldStays, TokensStable
<1>2. CASE q # p
  <2>1. pc'[q] = pc[q] /\ req'[q] = req[q] /\ NewLogin(q)
    BY <1>0, <1>2, OthersUntouched DEF CalmInv
  <2> QED
    BY <1>0, <1>1, <2>1 DEF NewLogin, Holding, PastBlacklist
<1>3. CASE q = p /\ AuthUser(p) /\ ~End(p)
  <2>1. /\ pc[p] = "auth_user" /\ req'[p].user = req[p].user /\ req'[p].pair = req[p].pair
        /\ req'[p].ended = req[p].ended
    BY <1>0, <1>3 DEF AuthUser, Step, TypeOK, Req
  <2>2. NewLogin(p)
    BY DEF CalmInv
  <2> QED
    BY <1>0, <1>1, <1>3, <2>1, <2>2 DEF NewLogin, Holding, PastBlacklist
<1>4. CASE q = p /\ AuthScan(p) /\ pc'[p] = "auth_user"
  <2>1. PICK k \in req[p].todo : RtStatus(k) = "valid" /\ Step(p, "auth_user", [req[p] EXCEPT !.todo = {}])
    BY <1>0, <1>4 DEF AuthScan, End, Step, TypeOK
  <2>2. /\ pc[p] = "auth_scan" /\ req'[p].user = req[p].user /\ req'[p].pair = req[p].pair
        /\ req'[p].ended = req[p].ended /\ k \in Pairs
    BY <1>0, <1>4, <2>1, ReqFields DEF AuthScan, Step, TypeOK, Req
  <2>3. k \in LiveOf(req[p].user) /\ tok[k].user = req[p].user
    BY <2>1, <2>2 DEF CalmInv, LocalInv, LiveOf
  <2>4. ASSUME req[p].user \notin raced, req[p].ended
        PROVE  tok[req[p].pair].root \in tok[k].after
    <3>1. tok[req[p].pair].root \in ended
      BY <2>2, <2>4 DEF CalmInv, LocalInv, PastBlacklist
    <3>2. req[p].user \in Users
      BY <1>0, <1>4, <2>2 DEF LocalsOK
    <3>3. EndedOf(req[p].user) \subseteq tok[k].after
      BY <2>3, <2>4, <3>2 DEF CalmInv, UserInv, LiveOK
    <3>4. /\ req[p].pair \in Pairs /\ tok[req[p].pair].user = req[p].user
          /\ Minted(req[p].pair)
      BY <1>0, <1>4, <2>2, SentinelAssumption DEF LocalsOK, Holding, PastBlacklist, Minted
    <3>5. tok[req[p].pair].root \in EndedOf(req[p].user)
      BY <3>1, <3>4 DEF EndedOf, CalmInv, FamilyInv
    <3> QED
      BY <3>3, <3>5
  <2> QED
    BY <1>0, <1>1, <1>4, <2>2, <2>3, <2>4 DEF NewLogin, Holding, PastBlacklist
<1>5. CASE q = p /\ pc'[p] \notin {"auth_user", "served"}
  BY <1>5 DEF NewLogin
<1>6. (AuthUser(p) /\ ~End(p)) \/ AuthScan(p) \/ pc'[p] \notin {"auth_user", "served"}
  <2>1. CASE Arrive(p)
    BY <1>0, <2>1 DEF TypeOK, Arrive, Start, AdminEntry, LoginRead, RefreshReplay, RefreshAccept,
       AuthArrive, AdminArrive
  <2>2. CASE LockStep(p) \/ Fail(p)
    BY <1>0, <2>2 DEF TypeOK, LockStep, Fail, Step, Goto, End, PasswordWrite, SetActiveFlush,
       DeleteCommit
  <2>3. CASE \/ LoginKeys(p) \/ LoginCollect(p) \/ LoginRevoke(p) \/ LoginIssue(p)
             \/ RefreshRotate(p) \/ SetActiveCommit(p) \/ RevokeKeys(p) \/ RevokeDelete(p)
    BY <1>0, <2>3 DEF TypeOK, Step, Goto, End, AfterRevoke, LoginKeys, LoginCollect, LoginRevoke,
       LoginIssue, RefreshRotate, SetActiveCommit, RevokeKeys, RevokeDelete
  <2>4. CASE AuthBlacklist(p) \/ AuthKeys(p) \/ AuthUser(p) \/ Serve(p)
    BY <1>0, <2>4 DEF TypeOK, Step, Goto, End, AuthBlacklist, AuthKeys, AuthUser, Serve
  <2> QED
    BY <2>1, <2>2, <2>3, <2>4 DEF RequestStep, FreeStep
<1>7. AuthScan(p) => pc'[p] # "served"
  BY <1>0 DEF AuthScan, End, Step, TypeOK
<1> QED
  BY <1>2, <1>3, <1>4, <1>5, <1>6, <1>7

-----------------------------------------------------------------------------
(* The calm invariant is inductive relative to TypeInv.                    *)
LEMMA CalmInit == Init => CalmInv
<1> SUFFICES ASSUME Init PROVE CalmInv
  OBVIOUS
<1>1. FamilyInv /\ EndedInv
  BY DEF Init, FamilyInv, EndedInv, Minted, NoToken
<1>2. ASSUME NEW u \in Users PROVE UserInv(u)
  <2>1. LiveOf(u) = {}
    BY DEF Init, LiveOf, RtStatus, NoKey
  <2> QED
    BY <2>1, NoLive DEF Init, UserInv, RowOK, ClaimsOK, OneChild, NoToken
<1>3. ASSUME NEW q \in Procs PROVE LocalInv(q) /\ OpenInv(q) /\ NewLogin(q)
  BY DEF Init, LocalInv, OpenInv, Open, NewLogin, PastBlacklist
<1> QED
  BY <1>1, <1>2, <1>3 DEF CalmInv

LEMMA CalmRequest ==
    ASSUME TypeInv, TypeInv', CalmInv, NEW p \in Procs, RequestStep(p)
    PROVE  CalmInv'
<1>0. FamilyInv /\ EndedInv /\ LocalInv(p)
  BY DEF CalmInv
<1>1. FamilyInv' /\ EndedInv'
  BY <1>0, FamilyKept, EndedKept
<1>2. ASSUME NEW u \in Users PROVE UserInv(u)'
  <2>1. CASE Undisturbed(u)
    BY <1>1, <2>1, UserKept DEF CalmInv
  <2>2. CASE ~Undisturbed(u) /\ u \notin raced'
    <3>1. Writing(p) /\ u = req[p].user
      BY <1>0, <2>2, OthersUndisturbed
    <3> QED
      BY <2>2, <3>1, WriteCalm
  <2> QED
    BY <2>1, <2>2 DEF UserInv
<1>3. ASSUME NEW q \in Procs PROVE OpenInv(q)'
  <2> SUFFICES ASSUME NEW u \in Users, u \notin raced', Open(q, u)' PROVE Fresh(q, u)'
    BY DEF OpenInv
  <2>1. CASE q = p /\ Writing(p)
    <3>1. u = req[p].user \/ pc'[p] \in {"idle", "revoke_keys"}
      <4>1. CASE LoginRevoke(p)
        BY <2>1, <4>1 DEF Open, TypeInv, TypeOK, Req, LoginRevoke, Step
      <4>2. CASE RevokeDelete(p) \/ (RevokeKeys(p) /\ KeysOf(req[p].user) = {})
        BY <2>1, <4>2 DEF Open, TypeInv, TypeOK, RevokeDelete, RevokeKeys, AfterRevoke, End, Goto, Step
      <4>3. CASE LoginIssue(p) \/ RefreshRotate(p) \/ DeleteCommit(p) \/ PasswordWrite(p)
        BY <4>3 DEF TypeInv, TypeOK, LoginIssue, RefreshRotate, DeleteCommit, PasswordWrite, End, Step
      <4> QED
        BY <2>1, <4>1, <4>2, <4>3 DEF Writing
    <3> QED
      BY <2>1, <3>1, WriteCalm, NothingRead DEF LoggingIn
  <2>2. CASE q = p /\ ~Writing(p)
    BY <2>2, ReadCalm
  <2>3. CASE q # p
    <3>1. pc'[q] = pc[q] /\ req'[q] = req[q] /\ Open(q, u) /\ OpenInv(q)
      BY <2>3, OthersUntouched DEF TypeInv, Open, CalmInv
    <3>2. u # req[p].user \/ ~Writing(p)
      BY <2>3, <3>1, NoneOpen
    <3>3. Undisturbed(u)
      BY <1>0, <3>2, OthersUndisturbed
    <3> QED
      BY <1>1, <3>1, <3>3, OpenKept
  <2> QED
    BY <2>1, <2>2, <2>3
<1>4. ASSUME NEW q \in Procs PROVE LocalInv(q)' /\ NewLogin(q)'
  BY LocalOthers, LocalWrite, LocalRead, NewLoginKept DEF CalmInv
<1> QED
  BY <1>1, <1>2, <1>3, <1>4 DEF CalmInv

(* Time ends sessions and brings none back; a new user has none. *)
LEMMA CalmTick ==
    ASSUME TypeInv, TypeInv', CalmInv, Tick
    PROVE  CalmInv'
<1>0. /\ TypeOK /\ now' = now + 1 /\ now \in Nat
      /\ UNCHANGED <<users, tok, rtKey, ended, raced, pc, req>>
  BY DEF TypeInv, TypeOK, Tick, rowVars, redisVars, ghostVars
<1>1. ASSUME NEW g \in Pairs, RtStatus(g)' = "valid" PROVE RtStatus(g) = "valid"
  BY <1>0, <1>1 DEF RtStatus, TypeOK, Record
<1>2. FamilyInv' /\ EndedInv'
  BY <1>0, <1>1 DEF CalmInv, FamilyInv, EndedInv, Minted
<1>3. ASSUME NEW u \in Users PROVE Undisturbed(u)
  BY <1>0, <1>1 DEF Undisturbed, SameRow
<1>4. ASSUME NEW u \in Users PROVE UserInv(u)'
  BY <1>2, <1>3, UserKept DEF CalmInv
<1>5. ASSUME NEW q \in Procs PROVE OpenInv(q)'
  BY <1>0, <1>2, <1>3, OpenKept DEF CalmInv, OpenInv
<1>6. ASSUME NEW q \in Procs PROVE LocalInv(q)' /\ NewLogin(q)'
  BY <1>0 DEF CalmInv, LocalInv, NewLogin
<1> QED
  BY <1>2, <1>4, <1>5, <1>6 DEF CalmInv

LEMMA CalmCreate ==
    ASSUME TypeInv, TypeInv', CalmInv, NEW u \in Users, NEW a \in BOOLEAN, CreateUser(u, a)
    PROVE  CalmInv'
<1>0. /\ users[u].status = "none"
      /\ users' = [users EXCEPT ![u] = [status |-> "live", active |-> a, version |-> 1, stamp |-> 0]]
      /\ UNCHANGED <<now, tok, rtKey, ended, raced, pc, req>> /\ TypeOK
  BY DEF CreateUser, redisVars, ghostVars, TypeInv
<1>1. FamilyInv' /\ EndedInv'
  BY <1>0 DEF CalmInv, FamilyInv, EndedInv, Minted, RtStatus
<1>2. \A v \in Users \ {u} : users'[v] = users[v]
  BY <1>0 DEF TypeOK
<1>3. users'[u].status = "live" /\ users'[u].version = 1 /\ users'[u].stamp = 0
  BY <1>0 DEF TypeOK
<1>4. ASSUME NEW v \in Users \ {u} PROVE Undisturbed(v)
  BY <1>0, <1>2 DEF Undisturbed, SameRow, RtStatus
<1>5. ASSUME NEW v \in Users PROVE UserInv(v)'
  <2>1. CASE v = u
    <3>1. LiveOf(u)' = LiveOf(u)
      BY <1>0 DEF LiveOf, RtStatus
    <3>2. u \notin raced => OneLive(u)' /\ LiveOK(u)' /\ ClaimsOK(u)' /\ OneChild(u)'
      BY <1>0, <1>3, <3>1 DEF CalmInv, UserInv, OneLive, LiveOK, ClaimsOK, OneChild, EndedOf
    <3>3. RowOK(u)'
      BY <1>3 DEF RowOK
    <3> QED
      BY <1>0, <2>1, <3>2, <3>3 DEF UserInv
  <2>2. CASE v # u
    BY <1>1, <1>4, <2>2, UserKept DEF CalmInv
  <2> QED
    BY <2>1, <2>2
<1>6. ASSUME NEW q \in Procs PROVE OpenInv(q)'
  <2> SUFFICES ASSUME NEW v \in Users, v \notin raced', Open(q, v)' PROVE Fresh(q, v)'
    BY DEF OpenInv
  <2>1. Open(q, v) /\ v \notin raced /\ Fresh(q, v)
    BY <1>0 DEF Open, CalmInv, OpenInv
  <2>2. CASE v = u
    <3>1. ~HoldsRow(q) /\ pc[q] \notin LoggingIn /\ pc[q] # "rotate"
      BY <1>0, <2>1, <2>2 DEF Fresh, RowRead, HoldsRow, PairHeld
    <3>2. LiveOf(u)' = LiveOf(u)
      BY <1>0 DEF LiveOf, RtStatus
    <3> QED
      BY <1>0, <2>1, <2>2, <3>1, <3>2
         DEF Fresh, RowRead, HoldsRow, KeysRead, NoneLeft, PairHeld
  <2>3. CASE v # u
    BY <1>0, <1>1, <1>4, <2>1, <2>3, OpenKept DEF CalmInv
  <2> QED
    BY <2>2, <2>3
<1>7. ASSUME NEW q \in Procs PROVE LocalInv(q)' /\ NewLogin(q)'
  <2>1. pc[q] # "idle" /\ req[q].op = "delete" => users'[req[q].user].status # "none"
    BY <1>2, <1>3 DEF CalmInv, LocalInv, TypeInv, LocalsOK
  <2> QED
    BY <1>0, <2>1 DEF CalmInv, LocalInv, NewLogin
<1> QED
  BY <1>1, <1>5, <1>6, <1>7 DEF CalmInv

LEMMA CalmNext == TypeInv /\ TypeInv' /\ CalmInv /\ [Next]_vars => CalmInv'
<1> SUFFICES ASSUME TypeInv, TypeInv', CalmInv, [Next]_vars PROVE CalmInv'
  OBVIOUS
<1>1. CASE UNCHANGED vars
  BY <1>1 DEF vars, CalmInv, FamilyInv, EndedInv, UserInv, OneLive, LiveOK, RowOK, ClaimsOK, OneChild,
     LiveOf, EndedOf, RtStatus, Minted, LocalInv, OpenInv, Open, Fresh, RowRead, HoldsRow, KeysRead, NoneLeft,
     PairHeld, NewLogin
<1> QED
  BY <1>1, CalmRequest, CalmTick, CalmCreate DEF Next, RequestStep

LEMMA CalmCorrect == Spec => [](TypeInv /\ CalmInv)
BY TypeInvInit, TypeInvNext, CalmInit, CalmNext, PTL DEF Spec

(* At most one live session per user, as long as no request of the user    *)
(* wrote while another was open: login ends the others and a refresh       *)
(* replaces its own, for any number of users, pairs and requests.          *)
THEOREM OneSessionPerUser == Spec => []SingleSession
<1>1. TypeInv /\ CalmInv => SingleSession
  BY SentinelAssumption
     DEF TypeInv, TypeOK, Token, CalmInv, UserInv, OneLive, LiveOf, SingleSession, Calm, Minted
<1> QED
  BY <1>1, CalmCorrect, PTL

(* A refresh token is exchanged once.                                      *)
THEOREM ExchangedOnce == Spec => []OneSuccessor
<1>1. TypeInv /\ CalmInv => OneSuccessor
  <2> SUFFICES ASSUME TypeInv, CalmInv, NEW g \in Pairs, NEW h \in Pairs, Calm(g), Calm(h),
                      tok[g].parent = tok[h].parent, tok[g].parent # NoPair
               PROVE  g = h
    BY DEF OneSuccessor
  <2>1. tok[g].user \in Users /\ tok[g].parent \in Pairs
    BY DEF TypeInv, TypeOK, Token, Calm, Minted
  <2>2. tok[h].user = tok[g].user
    BY <2>1 DEF CalmInv, FamilyInv, Calm
  <2> QED
    BY <2>1, <2>2 DEF CalmInv, UserInv, OneChild, Calm
<1> QED
  BY <1>1, CalmCorrect, PTL

(* No login a revocation ended has a live session again.                   *)
THEOREM EndedLoginsStayEnded == Spec => []EndedLineageStaysEnded
<1>1. TypeInv /\ CalmInv => EndedLineageStaysEnded
  BY DEF TypeInv, TypeOK, Token, CalmInv, UserInv, LiveOK, LiveOf, EndedLineageStaysEnded, Calm, Minted
<1> QED
  BY <1>1, CalmCorrect, PTL

(* A deleted user has no live session.                                     *)
THEOREM GoneUsersAreOut == Spec => []GoneUserHasNoSession
<1>1. TypeInv /\ CalmInv => GoneUserHasNoSession
  BY DEF TypeInv, TypeOK, Token, CalmInv, UserInv, LiveOK, LiveOf, GoneUserHasNoSession, Calm, Minted
<1> QED
  BY <1>1, CalmCorrect, PTL

(* No token of an earlier password carries the version of the row.         *)
THEOREM OldPasswordsRefused == Spec => []OldPasswordTokensDead
<1>1. TypeInv /\ CalmInv => OldPasswordTokensDead
  <2> SUFFICES ASSUME TypeInv, CalmInv, NEW g \in Pairs, Calm(g),
                      tok[g].stamp < users[tok[g].user].stamp
               PROVE  tok[g].ver # users[tok[g].user].version
    BY DEF OldPasswordTokensDead
  <2>1. PICK u \in Users : u = tok[g].user
    BY DEF TypeInv, TypeOK, Token, Calm, Minted
  <2>2. RowOK(u) /\ tok[g].ver <= tok[g].stamp + 1
    BY <2>1 DEF CalmInv, UserInv, ClaimsOK, Calm
  <2>3. /\ tok[g].stamp \in Nat /\ tok[g].ver \in Nat
        /\ users[u].stamp \in Nat /\ users[u].version \in Nat
    BY DEF TypeInv, TypeOK, Token, Row
  <2> QED
    BY <2>1, <2>2, <2>3 DEF RowOK
<1> QED
  BY <1>1, CalmCorrect, PTL

(* A token of an ended login is served only once the user has logged in    *)
(* after that login was ended.                                             *)
THEOREM EndedServedAfterNewLogin == Spec => []EndedServedOnlyAfterNewLogin
<1>1. CalmInv => EndedServedOnlyAfterNewLogin
  BY DEF CalmInv, NewLogin, EndedServedOnlyAfterNewLogin
<1> QED
  BY <1>1, CalmCorrect, PTL

(* Every password change raises the version, unless it overlapped another  *)
(* request that had already read the row.                                  *)
THEOREM PasswordChangesRaiseVersion == Spec => PasswordRaisesVersion
<1>1. TypeInv /\ CalmInv /\ [Next]_vars =>
        [\A u \in Users : users'[u].stamp # users[u].stamp
                             => users'[u].version > users[u].version \/ u \in raced']_vars
  <2> SUFFICES ASSUME TypeInv, CalmInv, Next, NEW u \in Users,
                      users'[u].stamp # users[u].stamp, u \notin raced'
               PROVE  users'[u].version > users[u].version
    BY DEF vars
  <2>1. CASE Tick
    BY <2>1 DEF Tick, rowVars
  <2>2. CASE \E v \in Users, a \in BOOLEAN : CreateUser(v, a)
    <3>1. PICK v \in Users, a \in BOOLEAN : CreateUser(v, a)
      BY <2>2
    <3>2. v \notin raced /\ v = u
      BY <3>1 DEF CreateUser, ghostVars, TypeInv, TypeOK
    <3>3. users[u].stamp = 0 /\ users'[u].stamp = 0
      BY <3>1, <3>2 DEF CreateUser, CalmInv, UserInv, RowOK, TypeInv, TypeOK
    <3> QED
      BY <3>3
  <2>3. ASSUME NEW p \in Procs, RequestStep(p) PROVE users'[u].version > users[u].version
    <3>1. Writing(p) /\ u = req[p].user
      BY <2>3, OtherRows DEF SameRow
    <3>2. ~DeleteCommit(p)
      BY <3>1 DEF DeleteCommit, TypeInv, TypeOK, Row
    <3>3. PasswordWrite(p) /\ users[u].status = "live"
      BY <3>1, <3>2 DEF Writing, LoginRevoke, LoginIssue, RefreshRotate, RevokeDelete, RevokeKeys, rowVars
    <3>4. users'[u].version = users[u].version + 1
      BY <3>1, <3>3, PasswordVersion
    <3>5. users[u].version \in Nat
      BY DEF TypeInv, TypeOK, Row
    <3> QED
      BY <3>4, <3>5
  <2> QED
    BY <2>1, <2>2, <2>3 DEF Next, RequestStep
<1> QED
  BY <1>1, CalmCorrect, PTL DEF Spec, PasswordRaisesVersion
=============================================================================
