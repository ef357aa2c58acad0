------------------------ MODULE ServiceEntry_proofs ------------------------
(***************************************************************************)
(* Proofs about ServiceEntry, for any windows, clocks, calls and requests: *)
(* its types, what verify_app_secret promises about signed calls, and the  *)
(* way of a request: where it is handled, and why it is refused.           *)
(***************************************************************************)
EXTENDS ServiceEntry, TLAPS

(* What each request knows: it carries a call that was signed; one that    *)
(* verify_app_secret has let past its time window saw times in order; a    *)
(* secret that was not the app's when the call arrived is not the app's    *)
(* now; and one that arrived after an acceptance saw the nonce expired.    *)
Checking == {"nonce", "app", "mark"}
InOrder(p) ==
    /\ req[p].call # NoCall => call[req[p].call].made
    /\ pc[p] \in Checking => /\ req[p].call \in Calls
                            /\ req[p].arrived <= call[req[p].call].ts + Window
    /\ pc[p] \in {"app", "mark"} => req[p].arrived <= req[p].looked
    /\ pc[p] = "flight" /\ Demands(req[p].url) = "signature" => req[p].call \in Calls
    /\ pc[p] = "gateway" /\ Demands(req[p].url) = "signature" => req[p].call \in Calls
KnowsSecret(p) ==
    /\ pc[p] \in {"nonce", "app"} /\ req[p].old => call[req[p].call].ver # secret
    /\ pc[p] = "mark" => ~req[p].old /\ req[p].app = Caller
SawExpired(p) ==
    /\ pc[p] \in {"app", "mark"}
    /\ req[p].app = Caller
    /\ taken[req[p].call] # Never
    /\ taken[req[p].call] < req[p].arrived
    => taken[req[p].call] + Window <= req[p].looked
Local(p) == InOrder(p) /\ KnowsSecret(p) /\ SawExpired(p)

(* Redis keeps the nonce of an accepted call for the window at least.      *)
Remembered == \A c \in Calls : taken[c] # Never => nonce[<<Caller, c>>] >= taken[c] + Window
Signed     == \A c \in Calls : call[c].made => call[c].ver \in 1..issued

IInv == TypeOK /\ Remembered /\ Signed /\ \A p \in Procs : Local(p)

-----------------------------------------------------------------------------
(* The app a path names is one of the table's.                             *)
LEMMA AppCodeType == ASSUME NEW url PROVE AppCode(url) \in Apps \union {NoApp}
<1>1. DOMAIN Routes = 1..4
  BY DEF Routes
<1>2. CASE Matches(url) # {}
  <2> DEFINE first(i) == i \in Matches(url) /\ \A j \in Matches(url) : i <= j
  <2>1. Matches(url) \subseteq 1..4
    BY <1>1 DEF Matches
  <2>2. \E i \in Matches(url) : \A j \in Matches(url) : i <= j
    <3>1. CASE 1 \in Matches(url) BY <2>1, <3>1
    <3>2. CASE 1 \notin Matches(url) /\ 2 \in Matches(url) BY <2>1, <3>2
    <3>3. CASE {1, 2} \intersect Matches(url) = {} /\ 3 \in Matches(url) BY <2>1, <3>3
    <3>4. CASE {1, 2, 3} \intersect Matches(url) = {}
      <4>1. 4 \in Matches(url) BY <1>2, <2>1, <3>4
      <4> QED BY <2>1, <3>4, <4>1
    <3> QED BY <3>1, <3>2, <3>3, <3>4
  <2>3. (CHOOSE i \in Matches(url) : \A j \in Matches(url) : i <= j) \in 1..4
    BY <2>1, <2>2
  <2> QED BY <1>1, <1>2, <2>3 DEF AppCode, Apps
<1> QED BY <1>2 DEF AppCode

LEMMA AppReadType ==
    ASSUME NEW url, NEW own \in Owns PROVE AppRead(url, own) \in Codes \union {NoApp}
BY AppCodeType DEF AppRead, Codes, Owns

LEMMA ResolveType ==
    ASSUME NEW r \in Req PROVE Resolve(r.app, r.query) \in Codes \union {NoApp}
BY DEF Req, Resolve, Codes, Queries

LEMMA NoReqType == ASSUME now \in Nat PROVE NoReq \in Req
BY DEF NoReq, Req, Stamps, Owns, Queries

(* What remains of a refused request: its path, app, call and times.       *)
LEMMA RemainsType ==
    ASSUME now \in Nat, NEW r \in Req
    PROVE  /\ Remains(r) \in Req
           /\ Remains(r).url = r.url /\ Remains(r).app = r.app /\ Remains(r).call = r.call
           /\ Remains(r).direct = r.direct /\ Remains(r).at = r.at
           /\ Remains(r).arrived = r.arrived
<1>1. NoApp \in Owns /\ NoApp \in Queries /\ NoStamp \in Stamps /\ 0 \in 0..now
  BY DEF Owns, Queries, Stamps
<1> QED BY <1>1 DEF Req, Remains

LEMMA StampedType ==
    ASSUME now \in Nat, skew \in Int, NEW r \in Req
    PROVE  [r EXCEPT !.stamp = GatewayNow, !.at = now] \in Req
<1>1. GatewayNow \in Stamps /\ now \in 0..now
  BY DEF GatewayNow, Stamps
<1> QED BY <1>1 DEF Req

LEMMA TypeInit == Init => TypeOK
<1> SUFFICES ASSUME Init PROVE TypeOK
  OBVIOUS
<1>1. now = 0 /\ now \in 0..MaxTime /\ now \in Nat
  BY ClockAssumption DEF Init
<1>2. req \in [Procs -> Req]
  BY <1>1, NoReqType DEF Init
<1>3. issued \in 1..MaxVersion /\ secret \in 0..issued
  BY BoundAssumption DEF Init
<1>4. call \in [Calls -> [made : BOOLEAN, ts : Int, ver : 0..issued]]
  BY DEF Init, Unsigned
<1>5. nonce \in [Keys -> 0..now + Window]
  BY <1>1, WindowAssumption DEF Init
<1>6. taken \in [Calls -> {Never} \union 0..now]
  BY DEF Init
<1>7. pc \in [Procs -> Labels]
  BY DEF Init, Labels
<1> QED BY <1>1, <1>2, <1>3, <1>4, <1>5, <1>6, <1>7 DEF Init, TypeOK

(* A step of one request within the types.                                 *)
LEMMA StepType ==
    ASSUME TypeOK, now' = now, NEW p \in Procs, NEW l \in Labels, NEW r \in Req, Step(p, l, r)
    PROVE  pc' \in [Procs -> Labels] /\ req' \in [Procs -> Req]'
<1>1. Req' = Req
  BY DEF Req, Stamps
<1> QED BY <1>1 DEF TypeOK, Step

LEMMA GotoType ==
    ASSUME TypeOK, now' = now, NEW p \in Procs, NEW l \in Labels, Goto(p, l)
    PROVE  pc' \in [Procs -> Labels] /\ req' \in [Procs -> Req]'
<1>1. Req' = Req
  BY DEF Req, Stamps
<1> QED BY <1>1 DEF TypeOK, Goto

LEMMA HandleType ==
    ASSUME TypeOK, now' = now, NEW p \in Procs, Handle(p)
    PROVE  pc' \in [Procs -> Labels] /\ req' \in [Procs -> Req]'
<1>1. now \in Nat /\ req[p] \in Req
  BY DEF TypeOK
<1>2. [NoReq EXCEPT !.url = req[p].url, !.app = req[p].app, !.own = req[p].own,
                        !.direct = req[p].direct] \in Req
  BY <1>1, NoReqType DEF Req, NoReq
<1>3. "handled" \in Labels
  BY DEF Labels
<1> QED BY <1>2, <1>3, StepType DEF Handle

(* All but pc and req is as before.                                        *)
Elsewhere == UNCHANGED <<clocks, apps, redis, call, taken>>
LEMMA TypeKept ==
    ASSUME TypeOK, Elsewhere, pc' \in [Procs -> Labels], req' \in [Procs -> Req]'
    PROVE  TypeOK'
BY DEF TypeOK, Elsewhere, clocks, apps, redis

LEMMA DeliverType == ASSUME TypeOK, NEW p \in Procs, Deliver(p) PROVE TypeOK'
<1> DEFINE r == req[p]
           in == [r EXCEPT !.stamp = NoStamp, !.query = NoApp, !.at = 0, !.arrived = now]
           old == call[r.call].ver # secret
<1>1. /\ now' = now /\ now \in Nat /\ r \in Req
      /\ {"bearer", "nonce", "refused"} \subseteq Labels
  BY DEF TypeOK, Deliver, clocks, Labels
<1>2. in \in Req
  <2>1. NoStamp \in Stamps /\ NoApp \in Queries /\ 0 \in 0..now /\ now \in 0..now
    BY <1>1 DEF Stamps, Queries
  <2> QED BY <1>1, <2>1 DEF Req
<1>3. [in EXCEPT !.old = old] \in Req
  BY <1>2 DEF Req
<1>4. Resolve(r.app, r.query) \in Codes \union {NoApp}
  BY <1>1, ResolveType
<1>5. [in EXCEPT !.app = Resolve(r.app, r.query), !.arrived = 0] \in Req
  BY <1>1, <1>2, <1>4 DEF Req
<1>6. [Remains(r) EXCEPT !.app = Resolve(r.app, r.query), !.arrived = now] \in Req
  <2>1. Remains(r) \in Req
    BY <1>1, RemainsType
  <2>2. now \in 0..now
    BY <1>1
  <2>3. ASSUME NEW s \in Req, NEW app \in Codes \union {NoApp}
        PROVE  [s EXCEPT !.app = app, !.arrived = now] \in Req
    BY <2>2 DEF Req
  <2> QED BY <1>4, <2>1, <2>3
<1>7. \/ Handle(p)
      \/ Step(p, "bearer", [in EXCEPT !.app = Resolve(r.app, r.query), !.arrived = 0])
      \/ Step(p, "nonce", [in EXCEPT !.old = old])
      \/ Step(p, "refused", [Remains(r) EXCEPT !.app = Resolve(r.app, r.query), !.arrived = now])
  BY DEF Deliver
<1>8. pc' \in [Procs -> Labels] /\ req' \in [Procs -> Req]'
  BY <1>1, <1>3, <1>5, <1>6, <1>7, HandleType, StepType
<1>9. Elsewhere
  BY DEF Deliver, Elsewhere
<1> QED BY <1>8, <1>9, TypeKept

LEMMA SendType ==
    ASSUME TypeOK, NEW p \in Procs, NEW url \in Urls, NEW c \in Calls \union {NoCall},
           \/ \E own \in Owns, query \in Queries : Send(p, url, c, own, query)
           \/ Direct(p, url, c)
    PROVE  TypeOK'
<1>0. Elsewhere
  BY DEF Send, Direct, Elsewhere
<1>1. /\ now' = now /\ now \in Nat /\ skew \in Int
      /\ {"flight", "gateway"} \subseteq Labels
  BY <1>0, ClockAssumption DEF TypeOK, clocks, Labels, Elsewhere
<1>2. CASE Direct(p, url, c)
  <2>1. [NoReq EXCEPT !.url = url, !.app = Caller, !.call = c, !.direct = TRUE] \in Req
    BY <1>1, NoReqType DEF NoReq, Req, Codes
  <2> QED BY <1>0, <1>1, <1>2, <2>1, StepType, TypeKept DEF Direct
<1>3. ASSUME NEW own \in Owns, NEW query \in Queries, Send(p, url, c, own, query)
      PROVE  TypeOK'
  <2> DEFINE r == [NoReq EXCEPT !.url = url, !.app = AppRead(url, own), !.own = own,
                               !.query = query, !.call = c]
  <2>1. r \in Req
    BY <1>1, NoReqType, AppReadType DEF NoReq, Req
  <2>2. [r EXCEPT !.stamp = GatewayNow, !.at = now] \in Req
    BY <1>1, <2>1, StampedType
  <2>3. \/ Step(p, "flight", [r EXCEPT !.stamp = GatewayNow, !.at = now])
        \/ Step(p, "gateway", r)
    BY <1>3 DEF Send, Forward
  <2> QED BY <1>0, <1>1, <2>1, <2>2, <2>3, StepType, TypeKept
<1> QED BY <1>2, <1>3

(* The steps that only move one request on.                                *)
LEMMA MoveType ==
    ASSUME TypeOK, NEW p \in Procs,
           GatewayBlacklist(p) \/ BearerBlacklist(p) \/ NonceCheck(p) \/ SignatureCheck(p) \/ End(p)
    PROVE  TypeOK'
<1>1. /\ now' = now /\ now \in Nat /\ skew \in Int /\ req[p] \in Req /\ Elsewhere
      /\ {"refused", "flight", "app", "mark", "idle"} \subseteq Labels
  BY ClockAssumption DEF TypeOK, GatewayBlacklist, BearerBlacklist, NonceCheck, SignatureCheck,
     End, clocks, Labels, Elsewhere
<1>2. [req[p] EXCEPT !.stamp = GatewayNow, !.at = now] \in Req
  BY <1>1, StampedType
<1>3. [req[p] EXCEPT !.looked = now] \in Req
  BY <1>1 DEF Req
<1>4. \/ Goto(p, "mark") \/ Refuse(p) \/ Handle(p)
      \/ Step(p, "flight", [req[p] EXCEPT !.stamp = GatewayNow, !.at = now])
      \/ Step(p, "app", [req[p] EXCEPT !.looked = now])
      \/ Step(p, "idle", NoReq)
  BY DEF GatewayBlacklist, BearerBlacklist, NonceCheck, SignatureCheck, End, Forward
<1>5. pc' \in [Procs -> Labels] /\ req' \in [Procs -> Req]'
  BY <1>1, <1>2, <1>3, <1>4, NoReqType, RemainsType, GotoType, HandleType, StepType DEF Refuse
<1> QED BY <1>1, <1>5, TypeKept

LEMMA TypeStep == TypeOK /\ [Next]_vars => TypeOK'
<1> SUFFICES ASSUME TypeOK, [Next]_vars PROVE TypeOK'
  OBVIOUS
<1>0. /\ now \in Nat /\ now <= MaxTime /\ Window \in Nat /\ issued \in Nat /\ secret \in Nat
  BY ClockAssumption, WindowAssumption DEF TypeOK
<1>1. CASE Tick
  <2>1. now' \in 0..MaxTime /\ now' = now + 1
    BY <1>0, <1>1, ClockAssumption DEF Tick
  <2>2. 0..now \subseteq 0..now' /\ 0..now + Window \subseteq 0..now' + Window
    BY <1>0, <2>1
  <2>3. Req \subseteq Req'
    BY <2>2 DEF Req, Stamps
  <2>4. req' \in [Procs -> Req]'
    BY <1>1, <2>3 DEF Tick, TypeOK
  <2>5. nonce' \in [Keys -> 0..now' + Window] /\ taken' \in [Calls -> {Never} \union 0..now']
    BY <1>1, <2>2 DEF Tick, TypeOK, redis
  <2> QED BY <1>1, <2>1, <2>4, <2>5 DEF Tick, TypeOK, apps, redis
<1>2. CASE Revoke
  <2>1. Req' = Req
    BY <1>2 DEF Revoke, clocks, Req, Stamps
  <2> QED BY <1>2, <2>1 DEF Revoke, TypeOK, clocks, apps
<1>3. CASE ResetSecret \/ CreateApp
  <2>1. Req' = Req
    BY <1>3 DEF ResetSecret, CreateApp, NewSecret, clocks, Req, Stamps
  <2>2. issued' \in 1..MaxVersion /\ secret' \in 0..issued' /\ 0..issued \subseteq 0..issued'
    BY <1>0, <1>3, BoundAssumption DEF ResetSecret, CreateApp, NewSecret, TypeOK
  <2>3. call' \in [Calls -> [made : BOOLEAN, ts : Int, ver : 0..issued']]
    BY <1>3, <2>2 DEF ResetSecret, CreateApp, NewSecret, TypeOK
  <2> QED BY <1>3, <2>1, <2>2, <2>3 DEF ResetSecret, CreateApp, NewSecret, TypeOK, clocks, redis
<1>4. CASE DeleteApp
  <2>1. Req' = Req
    BY <1>4 DEF DeleteApp, clocks, Req, Stamps
  <2> QED BY <1>0, <1>4, <2>1 DEF DeleteApp, TypeOK, clocks, redis
<1>5. ASSUME NEW c \in Calls, Sign(c)
      PROVE  TypeOK'
  <2>1. Req' = Req
    BY <1>5 DEF Sign, clocks, Req, Stamps
  <2>2. \A s \in Skews, v \in 1..issued :
          [made |-> TRUE, ts |-> now + s, ver |-> v] \in [made : BOOLEAN, ts : Int, ver : 0..issued]
    BY <1>0, ClockAssumption
  <2>3. PICK s \in Skews, v \in 1..issued :
          call' = [call EXCEPT ![c] = [made |-> TRUE, ts |-> now + s, ver |-> v]]
    BY <1>5 DEF Sign
  <2>4. call' \in [Calls -> [made : BOOLEAN, ts : Int, ver : 0..issued]]
    BY <2>2, <2>3 DEF TypeOK
  <2> QED BY <1>5, <2>1, <2>4 DEF Sign, TypeOK, clocks, apps, redis
<1>6. ASSUME NEW p \in Procs, NEW url \in Urls, NEW c \in Calls \union {NoCall},
             \/ \E own \in Owns, query \in Queries : Send(p, url, c, own, query)
             \/ Direct(p, url, c)
      PROVE  TypeOK'
  BY <1>6, SendType
<1>7. ASSUME NEW p \in Procs, Deliver(p)
      PROVE  TypeOK'
  BY <1>7, DeliverType
<1>8. ASSUME NEW p \in Procs,
             GatewayBlacklist(p) \/ BearerBlacklist(p) \/ NonceCheck(p) \/ SignatureCheck(p) \/ End(p)
      PROVE  TypeOK'
  BY <1>8, MoveType
<1>9. ASSUME NEW p \in Procs, NonceMark(p)
      PROVE  TypeOK'
  <2>1. now' = now
    BY <1>9 DEF NonceMark, clocks
  <2>2. pc' \in [Procs -> Labels] /\ req' \in [Procs -> Req]'
    BY <1>9, <2>1, HandleType DEF NonceMark
  <2>3. nonce' \in [Keys -> 0..now + Window]
    <3>1. now + Window \in 0..now + Window
      BY <1>0
    <3> QED BY <1>9, <3>1 DEF NonceMark, Marked, TypeOK
  <2>4. taken' \in [Calls -> {Never} \union 0..now]
    <3>1. now \in 0..now
      BY <1>0
    <3> QED BY <1>9, <3>1 DEF NonceMark, TypeOK
  <2> QED BY <1>9, <2>1, <2>2, <2>3, <2>4 DEF NonceMark, TypeOK, clocks, apps
<1>10. CASE UNCHANGED vars
  <2>1. Req' = Req
    BY <1>10 DEF vars, Req, Stamps
  <2> QED BY <1>10, <2>1 DEF vars, TypeOK
<1> QED BY <1>1, <1>2, <1>3, <1>4, <1>5, <1>6, <1>7, <1>8, <1>9, <1>10 DEF Next

(* Every reachable state has its types.                                    *)
THEOREM TypeCorrect == Spec => []TypeOK
BY TypeInit, TypeStep, PTL DEF Spec
-----------------------------------------------------------------------------
(* A step of one request that stores nothing disturbs only that request.   *)
LEMMA OthersKept ==
    ASSUME IInv, TypeOK', Elsewhere, NEW p \in Procs, Local(p)',
           \A q \in Procs \ {p} : pc'[q] = pc[q] /\ req'[q] = req[q]
    PROVE  IInv'
<1>1. /\ call' = call /\ secret' = secret /\ taken' = taken /\ nonce' = nonce /\ issued' = issued
  BY DEF Elsewhere, apps, redis
<1>2. ASSUME NEW q \in Procs \ {p}
      PROVE  Local(q)'
  BY <1>1 DEF IInv, Local, InOrder, KnowsSecret, SawExpired
<1>3. Remembered' /\ Signed'
  BY <1>1 DEF IInv, Remembered, Signed
<1> QED BY <1>2, <1>3 DEF IInv

(* Where a step leads, and that it leads no other request anywhere.        *)
LEMMA StepTo ==
    ASSUME TypeOK, NEW p \in Procs, NEW l, NEW r, Step(p, l, r)
    PROVE  /\ pc'[p] = l /\ req'[p] = r
           /\ \A q \in Procs \ {p} : pc'[q] = pc[q] /\ req'[q] = req[q]
BY DEF TypeOK, Step

(* A request that is not being checked has nothing to know.                *)
LEMMA Unchecked ==
    ASSUME NEW p \in Procs, pc'[p] \in {"idle", "bearer", "handled", "refused"},
           req'[p].call # NoCall => call'[req'[p].call].made
    PROVE  Local(p)'
BY DEF Local, InOrder, KnowsSecret, SawExpired, Checking

LEMMA SendInv ==
    ASSUME IInv, NEW p \in Procs, NEW url \in Urls, NEW c \in Calls \union {NoCall},
           \/ \E own \in Owns, query \in Queries : Send(p, url, c, own, query)
           \/ Direct(p, url, c)
    PROVE  IInv'
<1>1. TypeOK' /\ Elsewhere
  BY SendType DEF IInv, Send, Direct, Elsewhere
<1>2. /\ pc'[p] \in {"flight", "gateway"}
      /\ req'[p].call = c /\ req'[p].url = url
      /\ \A q \in Procs \ {p} : pc'[q] = pc[q] /\ req'[q] = req[q]
  <2>1. CASE Direct(p, url, c)
    <3> DEFINE r == [NoReq EXCEPT !.url = url, !.app = Caller, !.call = c, !.direct = TRUE]
    <3>1. r.call = c /\ r.url = url
      BY DEF NoReq
    <3>2. Step(p, "flight", r)
      BY <2>1 DEF Direct
    <3> HIDE DEF r
    <3> QED BY <3>1, <3>2, StepTo DEF IInv
  <2>2. ASSUME NEW own \in Owns, NEW query \in Queries, Send(p, url, c, own, query)
        PROVE  /\ pc'[p] \in {"flight", "gateway"}
               /\ req'[p].call = c /\ req'[p].url = url
               /\ \A q \in Procs \ {p} : pc'[q] = pc[q] /\ req'[q] = req[q]
    <3> DEFINE r == [NoReq EXCEPT !.url = url, !.app = AppRead(url, own), !.own = own,
                               !.query = query, !.call = c]
    <3>1. r.call = c /\ r.url = url
      BY DEF NoReq
    <3> DEFINE stamped == [r EXCEPT !.stamp = GatewayNow, !.at = now]
    <3>2. stamped.call = c /\ stamped.url = url
      BY DEF NoReq
    <3>3. Step(p, "flight", stamped) \/ Step(p, "gateway", r)
      BY <2>2 DEF Send, Forward
    <3> HIDE DEF r, stamped
    <3> QED BY <3>1, <3>2, <3>3, StepTo DEF IInv
  <2> QED BY <2>1, <2>2
<1>3. c # NoCall => c \in Calls /\ call'[c].made
  BY <1>1 DEF Send, Direct, Suits, Elsewhere
<1>4. Demands(url) = "signature" => c \in Calls
  BY DEF Send, Direct, Suits
<1>5. Local(p)'
  BY <1>2, <1>3, <1>4 DEF Local, InOrder, KnowsSecret, SawExpired, Checking
<1> QED BY <1>1, <1>2, <1>5, OthersKept

LEMMA DeliverInv == ASSUME IInv, NEW p \in Procs, Deliver(p) PROVE IInv'
<1>1. TypeOK' /\ Elsewhere
  BY DeliverType DEF IInv, Deliver, Elsewhere
<1>2. \A q \in Procs \ {p} : pc'[q] = pc[q] /\ req'[q] = req[q]
  BY DEF IInv, TypeOK, Deliver, Handle, Step
<1>3. CASE pc'[p] # "nonce"
  <2>1. /\ pc'[p] \in {"bearer", "handled", "refused"}
        /\ req'[p].call \in {NoCall, req[p].call}
    <3> DEFINE r == [Remains(req[p]) EXCEPT !.app = Resolve(req[p].app, req[p].query), !.arrived = now]
               in == [[req[p] EXCEPT !.stamp = NoStamp, !.query = NoApp, !.at = 0, !.arrived = now]
                       EXCEPT !.app = Resolve(req[p].app, req[p].query), !.arrived = 0]
    <3>1. Handle(p) \/ Step(p, "bearer", in) \/ Step(p, "refused", r)
      BY <1>3, StepTo DEF IInv, Deliver
    <3> DEFINE h == [NoReq EXCEPT !.url = req[p].url, !.app = req[p].app, !.own = req[p].own,
                        !.direct = req[p].direct]
    <3>2. r.call = req[p].call /\ in.call = req[p].call /\ h.call = NoCall
      BY DEF IInv, TypeOK, Req, NoReq, Remains
    <3>3. Step(p, "handled", h) \/ Step(p, "bearer", in) \/ Step(p, "refused", r)
      BY <3>1 DEF Handle
    <3> HIDE DEF r, in, h
    <3> QED BY <3>2, <3>3, StepTo DEF IInv
  <2>2. req'[p].call # NoCall => call'[req'[p].call].made
    BY <1>1, <2>1 DEF IInv, Local, InOrder, Elsewhere
  <2> QED BY <1>1, <1>2, <2>1, <2>2, Unchecked, OthersKept
<1>4. CASE pc'[p] = "nonce"
  <2> DEFINE r == req[p]
             c == r.call
  <2>1. /\ pc[p] = "flight" /\ Demands(r.url) = "signature"
        /\ InWindow(now, call[c].ts, Window)
        /\ Step(p, "nonce", [[r EXCEPT !.stamp = NoStamp, !.query = NoApp, !.at = 0, !.arrived = now]
                               EXCEPT !.old = call[c].ver # secret])
    BY <1>4 DEF IInv, TypeOK, Deliver, Handle, Step
  <2>2. c \in Calls /\ now \in Int /\ call[c].ts \in Int
    BY <2>1 DEF IInv, TypeOK, Local, InOrder
  <2>3. now <= call[c].ts + Window
    BY <2>1, <2>2, WindowAssumption DEF InWindow, Distance
  <2>4. req'[p].call = c /\ req'[p].arrived = now /\ req'[p].old = (call[c].ver # secret)
    BY <2>1 DEF IInv, TypeOK, Req, Step
  <2>5. call' = call /\ secret' = secret
    BY <1>1 DEF Elsewhere, apps
  <2>6. call[c].made
    BY <2>2, NoneAssumption DEF IInv, Local, InOrder
  <2>7. Local(p)'
    BY <1>4, <2>2, <2>3, <2>4, <2>5, <2>6 DEF Local, InOrder, KnowsSecret, SawExpired
  <2> QED BY <1>1, <1>2, <2>7, OthersKept
<1> QED BY <1>3, <1>4

(* A refusal, a bearer that passes, and a request that ends or dies.       *)
LEMMA LeaveInv ==
    ASSUME IInv, NEW p \in Procs, TypeOK', Elsewhere,
           Refuse(p) \/ Handle(p) \/ Step(p, "idle", NoReq)
    PROVE  IInv'
<1>1. /\ \A q \in Procs \ {p} : pc'[q] = pc[q] /\ req'[q] = req[q]
      /\ pc'[p] \in {"idle", "handled", "refused"}
      /\ req'[p].call \in {NoCall, req[p].call}
  <2>1. CASE Refuse(p)
    <3>1. Remains(req[p]).call = req[p].call
      BY RemainsType DEF IInv, TypeOK
    <3> QED BY <2>1, <3>1, StepTo DEF IInv, Refuse
  <2>2. CASE Handle(p) \/ Step(p, "idle", NoReq)
    <3> DEFINE h == [NoReq EXCEPT !.url = req[p].url, !.app = req[p].app, !.own = req[p].own,
                        !.direct = req[p].direct]
    <3>1. h.call = NoCall /\ NoReq.call = NoCall
      BY DEF NoReq
    <3>2. Step(p, "handled", h) \/ Step(p, "idle", NoReq)
      BY <2>2 DEF Handle
    <3> HIDE DEF h
    <3> QED BY <3>1, <3>2, StepTo DEF IInv
  <2> QED BY <2>1, <2>2
<1>2. req'[p].call # NoCall => call'[req'[p].call].made
  BY <1>1 DEF IInv, Local, InOrder, Elsewhere
<1> QED BY <1>1, <1>2, Unchecked, OthersKept

LEMMA GatewayInv == ASSUME IInv, NEW p \in Procs, GatewayBlacklist(p) PROVE IInv'
<1>1. TypeOK' /\ Elsewhere
  BY MoveType DEF IInv, GatewayBlacklist, Elsewhere
<1>2. CASE Refuse(p)
  BY <1>1, <1>2, LeaveInv
<1>3. CASE Forward(p, req[p])
  <2>1. /\ pc[p] = "gateway" /\ pc'[p] = "flight"
        /\ req'[p].call = req[p].call /\ req'[p].url = req[p].url
        /\ \A q \in Procs \ {p} : pc'[q] = pc[q] /\ req'[q] = req[q]
    BY <1>3 DEF IInv, TypeOK, Req, GatewayBlacklist, Forward, Step
  <2>2. call' = call
    BY <1>1 DEF Elsewhere
  <2>3. Local(p)'
    BY <2>1, <2>2 DEF IInv, Local, InOrder, KnowsSecret, SawExpired, Checking
  <2> QED BY <1>1, <2>1, <2>3, OthersKept
<1> QED BY <1>2, <1>3 DEF GatewayBlacklist

LEMMA NonceCheckInv == ASSUME IInv, NEW p \in Procs, NonceCheck(p) PROVE IInv'
<1>1. TypeOK' /\ Elsewhere
  BY MoveType DEF IInv, NonceCheck, Elsewhere
<1>2. CASE Refuse(p)
  BY <1>1, <1>2, LeaveInv
<1>3. CASE ~(nonce[Key(p)] > now) /\ Step(p, "app", [req[p] EXCEPT !.looked = now])
  <2> DEFINE c == req[p].call
  <2>1. /\ pc[p] = "nonce" /\ pc'[p] = "app" /\ c \in Calls
        /\ \A q \in Procs \ {p} : pc'[q] = pc[q] /\ req'[q] = req[q]
    BY <1>3 DEF IInv, TypeOK, NonceCheck, Step, Local, InOrder, Checking
  <2>2. /\ req'[p].call = c /\ req'[p].app = req[p].app /\ req'[p].arrived = req[p].arrived
        /\ req'[p].old = req[p].old /\ req'[p].looked = now /\ req[p].arrived <= now
    BY <1>3 DEF IInv, TypeOK, Req, Step
  <2>3. call' = call /\ secret' = secret /\ taken' = taken
    BY <1>1 DEF Elsewhere, apps
  <2>4. req[p].app = Caller /\ taken[c] # Never => taken[c] + Window <= now
    <3>1. SUFFICES ASSUME req[p].app = Caller, taken[c] # Never
                   PROVE  taken[c] + Window <= now
      OBVIOUS
    <3>2. <<Caller, c>> \in Keys
      BY <2>1 DEF Keys, Codes
    <3>3. nonce[<<Caller, c>>] \in Int /\ taken[c] \in Int /\ now \in Int /\ Window \in Int
      BY <2>1, <3>1, <3>2, WindowAssumption DEF IInv, TypeOK
    <3>4. nonce[<<Caller, c>>] <= now
      BY <1>3, <3>1, <3>3 DEF Key
    <3>5. nonce[<<Caller, c>>] >= taken[c] + Window
      BY <2>1, <3>1 DEF IInv, Remembered
    <3> QED BY <3>3, <3>4, <3>5
  <2>5. Local(p)'
    BY <2>1, <2>2, <2>3, <2>4 DEF IInv, Local, InOrder, KnowsSecret, SawExpired, Checking
  <2> QED BY <1>1, <2>1, <2>5, OthersKept
<1> QED BY <1>2, <1>3 DEF NonceCheck

LEMMA SignatureCheckInv == ASSUME IInv, NEW p \in Procs, SignatureCheck(p) PROVE IInv'
<1>1. TypeOK' /\ Elsewhere
  BY MoveType DEF IInv, SignatureCheck, Elsewhere
<1>2. CASE Refuse(p)
  BY <1>1, <1>2, LeaveInv
<1>3. CASE Verifies(req[p].app, req[p].call) /\ Goto(p, "mark")
  <2>1. /\ pc[p] = "app" /\ pc'[p] = "mark" /\ req' = req
        /\ \A q \in Procs \ {p} : pc'[q] = pc[q] /\ req'[q] = req[q]
    BY <1>3 DEF IInv, TypeOK, SignatureCheck, Goto
  <2>2. req[p].app = Caller /\ call[req[p].call].ver = secret
    BY <1>3 DEF Verifies
  <2>3. call' = call /\ secret' = secret /\ taken' = taken
    BY <1>1 DEF Elsewhere, apps
  <2>4. Local(p)'
    BY <2>1, <2>2, <2>3 DEF IInv, Local, InOrder, KnowsSecret, SawExpired, Checking
  <2> QED BY <1>1, <2>1, <2>4, OthersKept
<1> QED BY <1>2, <1>3 DEF SignatureCheck

LEMMA BearerInv == ASSUME IInv, NEW p \in Procs, BearerBlacklist(p) \/ End(p) PROVE IInv'
<1>1. TypeOK' /\ Elsewhere
  BY MoveType DEF IInv, BearerBlacklist, End, Elsewhere
<1>2. Refuse(p) \/ Handle(p) \/ Step(p, "idle", NoReq)
  BY DEF BearerBlacklist, End
<1> QED BY <1>1, <1>2, LeaveInv

(* The acceptance makes every request that is being checked overlap it.    *)
LEMMA NonceMarkInv == ASSUME IInv, NEW p \in Procs, NonceMark(p) PROVE IInv'
<1> DEFINE c == req[p].call
<1>1. /\ TypeOK' /\ call' = call /\ secret' = secret /\ issued' = issued /\ now' = now
      /\ Handle(p)
  BY TypeStep DEF IInv, NonceMark, Next, apps, clocks
<1>2. c \in Calls /\ req[p].app = Caller /\ <<Caller, c>> \in Keys /\ Key(p) = <<Caller, c>>
  BY DEF IInv, Local, InOrder, KnowsSecret, NonceMark, Checking, Keys, Codes, Key
<1>3. /\ nonce' = [nonce EXCEPT ![<<Caller, c>>] = now + Window]
      /\ taken' = [taken EXCEPT ![c] = now]
  BY <1>2 DEF NonceMark, Marked
<1>4. /\ pc'[p] = "handled" /\ req'[p].call = NoCall
      /\ \A q \in Procs \ {p} : pc'[q] = pc[q] /\ req'[q] = req[q]
  <2> DEFINE h == [NoReq EXCEPT !.url = req[p].url, !.app = req[p].app, !.own = req[p].own,
                        !.direct = req[p].direct]
  <2>1. h.call = NoCall
    BY DEF NoReq
  <2>2. Step(p, "handled", h)
    BY <1>1 DEF Handle
  <2> HIDE DEF h
  <2> QED BY <2>1, <2>2, StepTo DEF IInv
<1>5. Remembered'
  <2>1. ASSUME NEW d \in Calls, taken'[d] # Never
        PROVE  nonce'[<<Caller, d>>] >= taken'[d] + Window
    <3>0. <<Caller, d>> \in Keys
      BY DEF Keys, Codes
    <3>1. CASE d = c
      <4>1. nonce'[<<Caller, c>>] = now + Window /\ taken'[c] = now
        BY <1>2, <1>3 DEF IInv, TypeOK
      <4> QED BY <3>1, <4>1, WindowAssumption DEF IInv, TypeOK
    <3>2. CASE d # c
      <4>1. nonce'[<<Caller, d>>] = nonce[<<Caller, d>>] /\ taken'[d] = taken[d]
        BY <1>2, <1>3, <3>0, <3>2 DEF IInv, TypeOK
      <4> QED BY <2>1, <4>1 DEF IInv, Remembered
    <3> QED BY <3>1, <3>2
  <2> QED BY <2>1 DEF Remembered
<1>6. Local(p)'
  BY <1>1, <1>4, Unchecked
<1>7. ASSUME NEW q \in Procs \ {p}
      PROVE  Local(q)'
  <2>1. InOrder(q)' /\ KnowsSecret(q)'
    BY <1>1, <1>4 DEF IInv, Local, InOrder, KnowsSecret
  <2>2. SawExpired(q)'
    <3>1. CASE req[q].call = c
      <4>1. taken'[c] = now /\ now \in Int /\ req[q].arrived \in Int /\ req[q].arrived <= now
        BY <1>2, <1>3 DEF IInv, TypeOK, Req
      <4> QED BY <1>4, <3>1, <4>1 DEF SawExpired
    <3>2. CASE req[q].call # c /\ pc[q] \in {"app", "mark"}
      <4>1. req[q].call \in Calls
        BY <3>2 DEF IInv, Local, InOrder, Checking
      <4>2. taken'[req[q].call] = taken[req[q].call]
        BY <1>2, <1>3, <3>2, <4>1 DEF IInv, TypeOK
      <4> QED BY <1>4, <4>2 DEF IInv, Local, SawExpired
    <3>3. CASE pc[q] \notin {"app", "mark"}
      BY <1>4, <3>3 DEF SawExpired
    <3> QED BY <3>1, <3>2, <3>3
  <2> QED BY <2>1, <2>2 DEF Local
<1>8. Signed'
  BY <1>1 DEF IInv, Signed
<1> QED BY <1>1, <1>5, <1>6, <1>7, <1>8 DEF IInv

(* A new secret is like none before it, and no secret is like none signed. *)
LEMMA SecretInv == ASSUME IInv, ResetSecret \/ CreateApp \/ DeleteApp PROVE IInv'
<1>1. /\ TypeOK' /\ pc' = pc /\ req' = req /\ call' = call /\ taken' = taken /\ nonce' = nonce
      /\ secret' \in {0, issued + 1} /\ issued' \in {issued, issued + 1} /\ issued \in Nat
  <2>1. TypeOK' /\ issued \in Nat
    BY TypeStep DEF IInv, TypeOK, Next
  <2>2. CASE NewSecret
    BY <2>1, <2>2 DEF NewSecret, redis
  <2>3. CASE DeleteApp
    BY <2>1, <2>3 DEF DeleteApp, redis
  <2> QED BY <2>1, <2>2, <2>3 DEF ResetSecret, CreateApp
<1>2. Signed'
  BY <1>1 DEF IInv, Signed
<1>3. ASSUME NEW p \in Procs
      PROVE  Local(p)'
  <2>1. pc[p] \in {"nonce", "app"} => call[req[p].call].ver \in 1..issued
    BY NoneAssumption DEF IInv, Local, InOrder, Checking, Signed
  <2>2. KnowsSecret(p)'
    BY <1>1, <2>1 DEF IInv, Local, KnowsSecret
  <2>3. InOrder(p)' /\ SawExpired(p)'
    BY <1>1 DEF IInv, Local, InOrder, SawExpired
  <2> QED BY <2>2, <2>3 DEF Local
<1>4. Remembered'
  BY <1>1 DEF IInv, Remembered
<1> QED BY <1>1, <1>2, <1>3, <1>4 DEF IInv

(* A call that is not signed yet is carried by nobody.                     *)
LEMMA SignInv == ASSUME IInv, NEW c \in Calls, Sign(c) PROVE IInv'
<1>1. /\ TypeOK' /\ pc' = pc /\ req' = req /\ secret' = secret /\ taken' = taken
      /\ nonce' = nonce /\ issued' = issued
  BY TypeStep DEF IInv, Next, Sign, apps, redis
<1>2. PICK s \in Skews, v \in 1..issued :
        call' = [call EXCEPT ![c] = [made |-> TRUE, ts |-> now + s, ver |-> v]]
  BY DEF Sign
<1>3. /\ ~call[c].made /\ call'[c].made /\ call'[c].ver \in 1..issued
      /\ \A d \in Calls \ {c} : call'[d] = call[d]
  BY <1>2 DEF IInv, TypeOK, Sign
<1>4. Signed' /\ Remembered'
  BY <1>1, <1>3 DEF IInv, Signed, Remembered
<1>5. ASSUME NEW p \in Procs
      PROVE  Local(p)'
  <2>1. req[p].call # NoCall => req[p].call \in Calls \ {c}
    BY <1>3 DEF IInv, TypeOK, Req, Local, InOrder
  <2>2. pc[p] \in Checking => req[p].call # NoCall
    BY NoneAssumption DEF IInv, Local, InOrder
  <2> QED BY <1>1, <1>3, <2>1, <2>2
      DEF IInv, Local, InOrder, KnowsSecret, SawExpired, Checking
<1> QED BY <1>1, <1>4, <1>5 DEF IInv

LEMMA Inductive == IInv /\ [Next]_vars => IInv'
<1> SUFFICES ASSUME IInv, [Next]_vars PROVE IInv'
  OBVIOUS
<1>1. CASE Tick \/ Revoke \/ UNCHANGED vars
  <2>1. /\ TypeOK' /\ pc' = pc /\ req' = req /\ call' = call /\ secret' = secret
        /\ issued' = issued /\ taken' = taken /\ nonce' = nonce
    BY <1>1, TypeStep DEF IInv, Next, Tick, Revoke, vars, apps, redis
  <2> QED BY <2>1 DEF IInv, Remembered, Signed, Local, InOrder, KnowsSecret, SawExpired
<1>2. CASE ResetSecret \/ CreateApp \/ DeleteApp
  BY <1>2, SecretInv
<1>3. CASE \E c \in Calls : Sign(c)
  BY <1>3, SignInv
<1>4. ASSUME NEW p \in Procs, NEW url \in Urls, NEW c \in Calls \union {NoCall},
             \/ \E own \in Owns, query \in Queries : Send(p, url, c, own, query)
             \/ Direct(p, url, c)
      PROVE  IInv'
  BY <1>4, SendInv
<1>5. ASSUME NEW p \in Procs,
             GatewayBlacklist(p) \/ Deliver(p) \/ BearerBlacklist(p) \/ End(p)
      PROVE  IInv'
  BY <1>5, GatewayInv, DeliverInv, BearerInv
<1>6. ASSUME NEW p \in Procs, NonceCheck(p) \/ SignatureCheck(p) \/ NonceMark(p)
      PROVE  IInv'
  BY <1>6, NonceCheckInv, SignatureCheckInv, NonceMarkInv
<1> QED BY <1>1, <1>2, <1>3, <1>4, <1>5, <1>6 DEF Next

LEMMA Initially == Init => IInv
<1> SUFFICES ASSUME Init PROVE IInv
  OBVIOUS
<1>1. TypeOK
  BY TypeInit
<1>2. Remembered /\ Signed
  BY DEF Init, Remembered, Signed, Unsigned
<1>3. \A p \in Procs : Local(p)
  BY DEF Init, Local, InOrder, KnowsSecret, SawExpired, Checking, NoReq
<1> QED BY <1>1, <1>2, <1>3 DEF IInv

-----------------------------------------------------------------------------
(* For every window, clock offset, number of calls and number of           *)
(* deliveries in any interleaving: a signed call is accepted again only in *)
(* the three cases AcceptedOnce names.                                     *)
THEOREM CallsAcceptedOnce == Spec => []AcceptedOnce
<1>1. IInv => AcceptedOnce
  <2> SUFFICES ASSUME IInv, NEW p \in Procs, pc[p] = "mark", Before(p) # Never,
                      ~(Before(p) >= req[p].arrived), ~(call[req[p].call].ts >= Before(p))
               PROVE  req[p].arrived < Before(p) + Window /\ Before(p) + Window <= req[p].looked
    BY DEF AcceptedOnce, Accepting
  <2>1. req[p].call \in Calls /\ req[p].arrived <= call[req[p].call].ts + Window
    BY DEF IInv, Local, InOrder, Checking
  <2>2. /\ Before(p) \in Int /\ req[p].arrived \in Int /\ call[req[p].call].ts \in Int
        /\ Window \in Int
    BY <2>1, WindowAssumption DEF IInv, TypeOK, Req, Before
  <2>3. Before(p) < req[p].arrived /\ call[req[p].call].ts < Before(p)
    BY <2>2
  <2>4. Before(p) + Window <= req[p].looked
    BY <2>3 DEF IInv, Local, SawExpired, KnowsSecret, Before
  <2> QED BY <2>1, <2>2, <2>3, <2>4
<1> QED BY <1>1, Initially, Inductive, PTL DEF Spec

(* However often the app's secret is reset, and whatever the dependency    *)
(* awaits in between: a call signed with a secret that was not the app's   *)
(* when it arrived is not accepted.                                        *)
THEOREM OldSecretsRefused == Spec => []OldSecretRefused
<1>1. IInv => OldSecretRefused
  BY DEF IInv, Local, KnowsSecret, OldSecretRefused, Accepting
<1> QED BY <1>1, Initially, Inductive, PTL DEF Spec
-----------------------------------------------------------------------------
(***************************************************************************)
(* The way of a request.  What a request is, where it stands: it came      *)
(* through the gateway unless it is refused in the end, it is under the    *)
(* app its headers name, its stamp tells when it was forwarded, and when   *)
(* it is refused there is a reason that stays one.                         *)
(***************************************************************************)
Headed(r) == /\ r.own = NoApp => r.app = AppCode(r.url)
             /\ r.own \notin {NoApp, Blank} => r.app = r.own
Routed(p) ==
    /\ pc[p] \in {"bearer", "handled"} \union Checking => ~req[p].direct /\ Headed(req[p])
    /\ pc[p] \in {"gateway", "flight"} /\ ~req[p].direct =>
         req[p].app = AppRead(req[p].url, req[p].own)
    /\ pc[p] = "gateway" => ~req[p].direct
    /\ pc[p] = "flight" =>
         req[p].stamp = IF req[p].direct THEN NoStamp ELSE req[p].at + skew
Admitted(p) ==
    /\ pc[p] \in Checking => Demands(req[p].url) = "signature"
    /\ pc[p] = "bearer" => Demands(req[p].url) = "bearer"
Cause(r)  == black \/ Late(r) \/ Unfit(r)
Caused(p) ==
    pc[p] = "refused" /\ ~req[p].direct =>
        /\ Demands(req[p].url) = "signature" => req[p].call \in Calls
        /\ Cause(req[p])
Way(p) == Routed(p) /\ Admitted(p) /\ Caused(p)

(* Redis has a nonce of the caller's app only for a call it accepted.      *)
Earned == \A c \in Calls : nonce[<<Caller, c>>] # 0 => taken[c] # Never

WayInv == IInv /\ Earned /\ \A p \in Procs : Way(p)

LEMMA UnfitBearer ==
    ASSUME NEW r, Demands(r.url) = "bearer"
    PROVE  Unfit(r) <=> Environment = "production" \/ r.arrived >= TokenEnd \/ r.app = NoApp
BY DEF Unfit

LEMMA UnfitSignature ==
    ASSUME NEW r, Demands(r.url) = "signature"
    PROVE  Unfit(r) <=> \/ r.app # Caller
                        \/ Distance(r.arrived, call[r.call].ts) > Window
                        \/ call[r.call].ver # secret
                        \/ taken[r.call] # Never
BY DEF Unfit

LEMMA UnfitNothing == ASSUME NEW r, Demands(r.url) = "nothing" PROVE ~Unfit(r)
BY DEF Unfit

(* A request under the app the gateway's headers and the client's name is  *)
(* still so after resolve_app_code.                                        *)
LEMMA ReadIsHeaded ==
    ASSUME NEW r, r.app = AppRead(r.url, r.own) PROVE Headed(r)
BY DEF Headed, AppRead

LEMMA ResolvedIsHeaded ==
    ASSUME NEW r, NEW s, r.app = AppRead(r.url, r.own), s.url = r.url, s.own = r.own,
           s.app = Resolve(r.app, r.query)
    PROVE  Headed(s)
<1>1. AppCode(r.url) # Blank
  BY AppCodeType, BlankAssumption
<1> QED BY <1>1 DEF Headed, AppRead, Resolve

LEMMA DemandsType == ASSUME NEW url PROVE Demands(url) \in {"nothing", "signature", "bearer"}
BY DEF Demands

(* A request that stands still keeps its way, if what it was refused for   *)
(* stays true.                                                             *)
LEMMA StandsStill ==
    ASSUME NEW p \in Procs, Way(p), pc'[p] = pc[p], req'[p] = req[p], skew' = skew,
           pc[p] = "refused" /\ ~req[p].direct => Cause(req[p])'
    PROVE  Way(p)'
BY DEF Way, Routed, Admitted, Caused

(* A step of one request that stores nothing.                              *)
LEMMA OthersStand ==
    ASSUME WayInv, IInv', Elsewhere, NEW p \in Procs, Way(p)',
           \A q \in Procs \ {p} : pc'[q] = pc[q] /\ req'[q] = req[q]
    PROVE  WayInv'
<1>1. /\ now' = now /\ skew' = skew /\ black' = black /\ secret' = secret
      /\ call' = call /\ taken' = taken /\ nonce' = nonce
  BY DEF Elsewhere, clocks, apps, redis
<1>2. Earned'
  BY <1>1 DEF WayInv, Earned
<1>3. ASSUME NEW q \in Procs \ {p}
      PROVE  Way(q)'
  <2>1. Cause(req[q]) => Cause(req[q])'
    BY <1>1, <1>3 DEF Cause, Late, Unfit
  <2> QED BY <1>1, <2>1, StandsStill DEF WayInv, Way, Caused
<1> QED BY <1>2, <1>3 DEF WayInv
(* A request that is dead, or whose response is sent, has no way left.     *)
LEMMA SendWay ==
    ASSUME WayInv, NEW p \in Procs, NEW url \in Urls, NEW c \in Calls \union {NoCall},
           \/ \E own \in Owns, query \in Queries : Send(p, url, c, own, query)
           \/ Direct(p, url, c)
    PROVE  WayInv'
<1>1. IInv' /\ Elsewhere /\ now' = now /\ skew' = skew
  BY SendInv DEF WayInv, Send, Direct, Elsewhere, clocks
<1>2. CASE Direct(p, url, c)
  <2> DEFINE r == [NoReq EXCEPT !.url = url, !.app = Caller, !.call = c, !.direct = TRUE]
  <2>1. r.direct /\ r.stamp = NoStamp
    BY DEF NoReq
  <2>2. Step(p, "flight", r)
    BY <1>2 DEF Direct
  <2> HIDE DEF r
  <2>3. /\ pc'[p] = "flight" /\ req'[p] = r
        /\ \A q \in Procs \ {p} : pc'[q] = pc[q] /\ req'[q] = req[q]
    BY <2>2, StepTo DEF WayInv, IInv
  <2>4. Way(p)'
    BY <2>1, <2>3 DEF Way, Routed, Admitted, Caused, Checking
  <2> QED BY <1>1, <2>3, <2>4, OthersStand
<1>3. ASSUME NEW own \in Owns, NEW query \in Queries, Send(p, url, c, own, query)
      PROVE  WayInv'
  <2> DEFINE r == [NoReq EXCEPT !.url = url, !.app = AppRead(url, own), !.own = own,
                               !.query = query, !.call = c]
             s == [r EXCEPT !.stamp = GatewayNow, !.at = now]
  <2>1. /\ ~r.direct /\ r.app = AppRead(r.url, r.own)
        /\ ~s.direct /\ s.app = AppRead(s.url, s.own) /\ s.stamp = now + skew /\ s.at = now
    BY DEF NoReq, GatewayNow
  <2>2. Step(p, "flight", s) \/ Step(p, "gateway", r)
    BY <1>3 DEF Send, Forward
  <2> HIDE DEF r, s
  <2>4. CASE Step(p, "flight", s)
    <3>1. /\ pc'[p] = "flight" /\ req'[p] = s
          /\ \A q \in Procs \ {p} : pc'[q] = pc[q] /\ req'[q] = req[q]
      BY <2>4, StepTo DEF WayInv, IInv
    <3>2. Way(p)'
      BY <1>1, <2>1, <3>1 DEF Way, Routed, Admitted, Caused, Checking
    <3> QED BY <1>1, <3>1, <3>2, OthersStand
  <2>5. CASE Step(p, "gateway", r)
    <3>1. /\ pc'[p] = "gateway" /\ req'[p] = r
          /\ \A q \in Procs \ {p} : pc'[q] = pc[q] /\ req'[q] = req[q]
      BY <2>5, StepTo DEF WayInv, IInv
    <3>2. Way(p)'
      BY <2>1, <3>1 DEF Way, Routed, Admitted, Caused, Checking
    <3> QED BY <1>1, <3>1, <3>2, OthersStand
  <2> QED BY <2>2, <2>4, <2>5
<1> QED BY <1>2, <1>3

(* A request ends with no way left, and is handled with its path, its app  *)
(* and its origin.                                                         *)
LEMMA EndWay == ASSUME WayInv, NEW p \in Procs, End(p) PROVE WayInv'
<1>1. IInv' /\ Elsewhere
  BY BearerInv DEF WayInv, End, Elsewhere
<1>2. /\ pc'[p] = "idle"
      /\ \A q \in Procs \ {p} : pc'[q] = pc[q] /\ req'[q] = req[q]
  BY StepTo DEF WayInv, IInv, End
<1>3. Way(p)'
  BY <1>2 DEF Way, Routed, Admitted, Caused, Checking
<1> QED BY <1>1, <1>2, <1>3, OthersStand

LEMMA HandleTo ==
    ASSUME TypeOK, NEW p \in Procs, Handle(p)
    PROVE  /\ pc'[p] = "handled" /\ req'[p].url = req[p].url /\ req'[p].app = req[p].app
           /\ req'[p].own = req[p].own /\ req'[p].direct = req[p].direct
           /\ \A q \in Procs \ {p} : pc'[q] = pc[q] /\ req'[q] = req[q]
<1> DEFINE h == [NoReq EXCEPT !.url = req[p].url, !.app = req[p].app, !.own = req[p].own,
                        !.direct = req[p].direct]
<1>1. /\ h.url = req[p].url /\ h.app = req[p].app /\ h.own = req[p].own
      /\ h.direct = req[p].direct
  BY DEF NoReq
<1>2. Step(p, "handled", h)
  BY DEF Handle
<1> HIDE DEF h
<1> QED BY <1>1, <1>2, StepTo

LEMMA HandledWay ==
    ASSUME TypeOK, NEW p \in Procs, Handle(p), ~req[p].direct, Headed(req[p])
    PROVE  Way(p)'
BY HandleTo DEF Way, Routed, Admitted, Caused, Checking, Headed

(* A request is refused where it stands.                                   *)
LEMMA RefusedWay ==
    ASSUME WayInv, NEW p \in Procs, IInv', Elsewhere, Refuse(p),
           ~req[p].direct /\ Demands(req[p].url) = "signature" => req[p].call \in Calls,
           ~req[p].direct => Cause(req[p])
    PROVE  WayInv'
<1> DEFINE s == Remains(req[p])
<1>0. /\ s.url = req[p].url /\ s.app = req[p].app /\ s.call = req[p].call
      /\ s.direct = req[p].direct /\ s.at = req[p].at /\ s.arrived = req[p].arrived
  BY RemainsType, ClockAssumption DEF WayInv, IInv, TypeOK
<1>a. Step(p, "refused", s)
  BY DEF Refuse
<1> HIDE DEF s
<1>1. /\ pc'[p] = "refused" /\ req'[p] = s
      /\ \A q \in Procs \ {p} : pc'[q] = pc[q] /\ req'[q] = req[q]
  BY <1>a, StepTo DEF WayInv, IInv
<1>2. /\ skew' = skew /\ black' = black /\ secret' = secret
      /\ call' = call /\ taken' = taken
  BY DEF Elsewhere, clocks, apps, redis
<1>3. Cause(req[p]) => Cause(req[p])'
  BY <1>0, <1>1, <1>2 DEF Cause, Late, Unfit
<1>4. Way(p)'
  BY <1>0, <1>1, <1>3 DEF Way, Routed, Admitted, Caused, Checking
<1> QED BY <1>1, <1>4, OthersStand

LEMMA GatewayWay == ASSUME WayInv, NEW p \in Procs, GatewayBlacklist(p) PROVE WayInv'
<1>1. IInv' /\ Elsewhere /\ now' = now /\ skew' = skew
  BY GatewayInv DEF WayInv, GatewayBlacklist, Elsewhere, clocks
<1>2. /\ pc[p] = "gateway" /\ req[p] \in Req /\ ~req[p].direct
      /\ req[p].app = AppRead(req[p].url, req[p].own)
  BY DEF WayInv, IInv, TypeOK, GatewayBlacklist, Way, Routed
<1>3. CASE black /\ Refuse(p)
  <2>1. Demands(req[p].url) = "signature" => req[p].call \in Calls
    BY <1>2 DEF WayInv, IInv, Local, InOrder
  <2> QED BY <1>1, <1>3, <2>1, RefusedWay DEF Cause
<1>4. CASE Forward(p, req[p])
  <2> DEFINE s == [req[p] EXCEPT !.stamp = GatewayNow, !.at = now]
  <2>1. /\ ~s.direct /\ s.url = req[p].url /\ s.app = req[p].app /\ s.own = req[p].own
        /\ s.stamp = now + skew /\ s.at = now
    BY <1>2 DEF Req, GatewayNow
  <2>2. Step(p, "flight", s)
    BY <1>4 DEF Forward
  <2> HIDE DEF s
  <2>3. /\ pc'[p] = "flight" /\ req'[p] = s
        /\ \A q \in Procs \ {p} : pc'[q] = pc[q] /\ req'[q] = req[q]
    BY <2>2, StepTo DEF WayInv, IInv
  <2>4. Way(p)'
    BY <1>1, <1>2, <2>1, <2>3 DEF Way, Routed, Admitted, Caused, Checking
  <2> QED BY <1>1, <2>3, <2>4, OthersStand
<1> QED BY <1>3, <1>4 DEF GatewayBlacklist

LEMMA BearerWay == ASSUME WayInv, NEW p \in Procs, BearerBlacklist(p) PROVE WayInv'
<1>1. IInv' /\ Elsewhere
  BY BearerInv DEF WayInv, BearerBlacklist, Elsewhere, clocks
<1>2. /\ pc[p] = "bearer" /\ ~req[p].direct /\ Headed(req[p])
      /\ Demands(req[p].url) = "bearer"
  BY DEF WayInv, Way, Routed, Admitted, BearerBlacklist
<1>3. CASE black /\ Refuse(p)
  BY <1>1, <1>2, <1>3, RefusedWay DEF Cause
<1>4. CASE Handle(p)
  <2>1. Way(p)'
    BY <1>1, <1>2, <1>4, HandledWay DEF WayInv, IInv
  <2> QED BY <1>1, <1>4, <2>1, HandleTo, OthersStand DEF WayInv, IInv
<1> QED BY <1>3, <1>4 DEF BearerBlacklist
(* A nonce that is in Redis is one of an accepted call: the caller's own,  *)
(* if it is the caller's app.                                              *)
LEMMA NonceCheckWay == ASSUME WayInv, NEW p \in Procs, NonceCheck(p) PROVE WayInv'
<1> DEFINE c == req[p].call
<1>1. IInv' /\ Elsewhere
  BY NonceCheckInv DEF WayInv, NonceCheck, Elsewhere, clocks
<1>2. /\ pc[p] = "nonce" /\ req[p] \in Req /\ ~req[p].direct /\ c \in Calls
      /\ Headed(req[p]) /\ Demands(req[p].url) = "signature"
  BY DEF WayInv, IInv, TypeOK, NonceCheck, Local, InOrder, Way, Routed, Admitted, Checking
<1>3. CASE nonce[Key(p)] > now /\ Refuse(p)
  <2>1. CASE req[p].app # Caller
    BY <1>1, <1>2, <1>3, <2>1, RefusedWay, UnfitSignature DEF Cause
  <2>2. CASE req[p].app = Caller
    <3>1. <<Caller, c>> \in Keys
      BY <1>2 DEF Keys, Codes
    <3>2. nonce[<<Caller, c>>] \in Int /\ now \in Nat
      BY <3>1, WindowAssumption DEF WayInv, IInv, TypeOK
    <3>3. taken[c] # Never
      BY <1>2, <1>3, <2>2, <3>2 DEF WayInv, Earned, Key
    <3> QED BY <1>1, <1>2, <1>3, <3>3, RefusedWay, UnfitSignature DEF Cause
  <2> QED BY <2>1, <2>2
<1>4. CASE Step(p, "app", [req[p] EXCEPT !.looked = now])
  <2> DEFINE s == [req[p] EXCEPT !.looked = now]
  <2>1. ~s.direct /\ s.url = req[p].url /\ s.app = req[p].app /\ s.own = req[p].own
    BY <1>2 DEF Req
  <2>2. Step(p, "app", s)
    BY <1>4
  <2> HIDE DEF s
  <2>3. /\ pc'[p] = "app" /\ req'[p] = s
        /\ \A q \in Procs \ {p} : pc'[q] = pc[q] /\ req'[q] = req[q]
    BY <2>2, StepTo DEF WayInv, IInv
  <2>4. Way(p)'
    BY <1>2, <2>1, <2>3 DEF Way, Routed, Admitted, Caused, Checking, Headed
  <2> QED BY <1>1, <2>3, <2>4, OthersStand
<1> QED BY <1>3, <1>4 DEF NonceCheck

LEMMA SignatureWay == ASSUME WayInv, NEW p \in Procs, SignatureCheck(p) PROVE WayInv'
<1> DEFINE c == req[p].call
<1>1. IInv' /\ Elsewhere
  BY SignatureCheckInv DEF WayInv, SignatureCheck, Elsewhere
<1>2. /\ pc[p] = "app" /\ ~req[p].direct /\ c \in Calls /\ call[c].made
      /\ Headed(req[p]) /\ Demands(req[p].url) = "signature"
  BY NoneAssumption
     DEF WayInv, IInv, SignatureCheck, Local, InOrder, Way, Routed, Admitted, Checking
<1>3. CASE ~Verifies(req[p].app, c) /\ Refuse(p)
  <2>1. call[c].ver # 0
    BY <1>2 DEF WayInv, IInv, TypeOK, Signed
  <2>2. req[p].app # Caller \/ call[c].ver # secret
    BY <1>3, <2>1 DEF Verifies
  <2> QED BY <1>1, <1>2, <1>3, <2>2, RefusedWay, UnfitSignature DEF Cause
<1>4. CASE Goto(p, "mark")
  <2>1. /\ pc'[p] = "mark" /\ req' = req
        /\ \A q \in Procs \ {p} : pc'[q] = pc[q] /\ req'[q] = req[q]
    BY <1>4 DEF Goto, WayInv, IInv, TypeOK
  <2>2. Way(p)'
    BY <1>2, <2>1 DEF Way, Routed, Admitted, Caused, Checking
  <2> QED BY <1>1, <2>1, <2>2, OthersStand
<1> QED BY <1>3, <1>4 DEF SignatureCheck

(* What a call was refused for stays true when another is accepted.        *)
LEMMA NonceMarkWay == ASSUME WayInv, NEW p \in Procs, NonceMark(p) PROVE WayInv'
<1> DEFINE c == req[p].call
<1>1. /\ IInv' /\ Handle(p) /\ skew' = skew /\ now' = now /\ black' = black
      /\ secret' = secret /\ call' = call
  BY NonceMarkInv DEF WayInv, NonceMark, clocks, apps
<1>2. /\ ~req[p].direct /\ c \in Calls /\ Key(p) = <<Caller, c>> /\ <<Caller, c>> \in Keys
      /\ Headed(req[p]) /\ Demands(req[p].url) = "signature"
  BY DEF WayInv, IInv, NonceMark, Local, InOrder, KnowsSecret, Way, Routed, Admitted, Checking,
         Key, Keys, Codes
<1>3. /\ nonce' = [nonce EXCEPT ![<<Caller, c>>] = now + Window]
      /\ taken' = [taken EXCEPT ![c] = now]
  BY <1>2 DEF NonceMark, Marked
<1>4. \A d \in Calls : taken[d] # Never => taken'[d] # Never
  BY <1>3 DEF WayInv, IInv, TypeOK, Never
<1>5. Earned'
  <2>1. ASSUME NEW d \in Calls, nonce'[<<Caller, d>>] # 0
        PROVE  taken'[d] # Never
    <3>1. CASE d = c
      BY <1>3, <3>1 DEF WayInv, IInv, TypeOK, Never
    <3>2. CASE d # c
      <4>1. <<Caller, d>> \in Keys /\ <<Caller, d>> # <<Caller, c>>
        BY <3>2 DEF Keys, Codes
      <4>2. nonce'[<<Caller, d>>] = nonce[<<Caller, d>>]
        BY <1>3, <4>1 DEF WayInv, IInv, TypeOK
      <4> QED BY <1>4, <2>1, <4>2 DEF WayInv, Earned
    <3> QED BY <3>1, <3>2
  <2> QED BY <2>1 DEF Earned
<1>6. Way(p)'
  BY <1>1, <1>2, HandledWay DEF WayInv, IInv
<1>7. ASSUME NEW q \in Procs \ {p}
      PROVE  Way(q)'
  <2>1. pc'[q] = pc[q] /\ req'[q] = req[q]
    BY <1>1, HandleTo DEF WayInv, IInv
  <2>2. ASSUME pc[q] = "refused", ~req[q].direct
        PROVE  Cause(req[q])'
    <3>1. /\ Cause(req[q])
          /\ Demands(req[q].url) = "signature" => req[q].call \in Calls
      BY <2>2 DEF WayInv, Way, Caused
    <3>2. CASE black \/ Late(req[q])
      BY <1>1, <2>1, <3>2 DEF Cause, Late
    <3>3. CASE Unfit(req[q])
      <4>1. Unfit(req[q])'
        <5>1. CASE Demands(req[q].url) = "signature"
          BY <1>1, <1>4, <2>1, <3>1, <3>3, <5>1 DEF Unfit
        <5>2. CASE Demands(req[q].url) # "signature"
          BY <1>1, <2>1, <3>3, <5>2 DEF Unfit
        <5> QED BY <5>1, <5>2
      <4> QED BY <4>1 DEF Cause
    <3> QED BY <3>1, <3>2, <3>3 DEF Cause
  <2> QED BY <1>1, <2>1, <2>2, StandsStill DEF WayInv
<1> QED BY <1>1, <1>5, <1>6, <1>7 DEF WayInv
(* The stamp is judged by two clocks and a delay: neither alone exceeds    *)
(* what both together are refused for.                                     *)
LEMMA LateStamp ==
    ASSUME NEW a \in Int, NEW t \in Int, a <= t, NEW s \in Int, NEW w \in Int,
           Distance(t, a + s) > w
    PROVE  t - a + Distance(s, 0) > w
BY DEF Distance

LEMMA DeliverWay == ASSUME WayInv, NEW p \in Procs, Deliver(p) PROVE WayInv'
<1> DEFINE r == req[p]
           in == [r EXCEPT !.stamp = NoStamp, !.query = NoApp, !.at = 0, !.arrived = now]
           need == Demands(r.url)
<1>1. /\ IInv' /\ Elsewhere /\ skew' = skew /\ now' = now /\ black' = black
      /\ call' = call /\ secret' = secret /\ taken' = taken
  BY DeliverInv DEF WayInv, Deliver, Elsewhere, clocks, apps, redis
<1>2. pc[p] = "flight" /\ r \in Req
  BY DEF WayInv, IInv, TypeOK, Deliver
<1>3. TrustsStamp(r) => ~r.direct /\ r.app = AppRead(r.url, r.own)
  BY <1>2 DEF WayInv, Way, Routed, TrustsStamp
<1>4. CASE TrustsStamp(r) /\ need = "nothing" /\ Handle(p)
  <2>1. Way(p)'
    BY <1>3, <1>4, HandledWay, ReadIsHeaded DEF WayInv, IInv
  <2> QED BY <1>1, <1>4, <2>1, HandleTo, OthersStand DEF WayInv, IInv
<1>5. CASE /\ TrustsStamp(r) /\ need = "bearer" /\ AdmitsBearer(r)
           /\ Step(p, "bearer", [in EXCEPT !.app = Resolve(r.app, r.query), !.arrived = 0])
  <2> DEFINE s == [in EXCEPT !.app = Resolve(r.app, r.query), !.arrived = 0]
  <2>1. /\ s.direct = r.direct /\ s.url = r.url /\ s.own = r.own
        /\ s.app = Resolve(r.app, r.query)
    BY <1>2 DEF Req
  <2>2. Headed(s)
    BY <1>3, <1>5, <2>1, ResolvedIsHeaded
  <2>3. Step(p, "bearer", s)
    BY <1>5
  <2> HIDE DEF s
  <2>4. /\ pc'[p] = "bearer" /\ req'[p] = s
        /\ \A q \in Procs \ {p} : pc'[q] = pc[q] /\ req'[q] = req[q]
    BY <2>3, StepTo DEF WayInv, IInv
  <2>5. Way(p)'
    BY <1>1, <1>3, <1>5, <2>1, <2>2, <2>4 DEF Way, Routed, Admitted, Caused, Checking
  <2> QED BY <1>1, <2>4, <2>5, OthersStand
<1>6. CASE /\ TrustsStamp(r) /\ need = "signature"
           /\ Step(p, "nonce", [in EXCEPT !.old = call[r.call].ver # secret])
  <2> DEFINE s == [in EXCEPT !.old = call[r.call].ver # secret]
  <2>0. s.direct = r.direct /\ s.url = r.url /\ s.app = r.app /\ s.own = r.own
    BY <1>2 DEF Req
  <2>1. Headed(s)
    BY <1>3, <1>6, <2>0, ReadIsHeaded DEF Headed
  <2>2. Step(p, "nonce", s)
    BY <1>6
  <2> HIDE DEF s
  <2>3. /\ pc'[p] = "nonce" /\ req'[p] = s
        /\ \A q \in Procs \ {p} : pc'[q] = pc[q] /\ req'[q] = req[q]
    BY <2>2, StepTo DEF WayInv, IInv
  <2>4. Way(p)'
    BY <1>3, <1>6, <2>0, <2>1, <2>3 DEF Way, Routed, Admitted, Caused, Checking
  <2> QED BY <1>1, <2>3, <2>4, OthersStand
<1>7. CASE /\ \/ ~TrustsStamp(r)
              \/ need = "bearer" /\ ~AdmitsBearer(r)
              \/ need = "signature" /\ ~InWindow(now, call[r.call].ts, Window)
           /\ Step(p, "refused", [Remains(r) EXCEPT !.app = Resolve(r.app, r.query), !.arrived = now])
  <2> DEFINE s == [Remains(r) EXCEPT !.app = Resolve(r.app, r.query), !.arrived = now]
  <2>1. /\ s.direct = r.direct /\ s.url = r.url /\ s.at = r.at /\ s.arrived = now
        /\ s.call = r.call /\ s.app = Resolve(r.app, r.query)
    BY <1>2 DEF Req, Remains
  <2>2. Step(p, "refused", s)
    BY <1>7
  <2> HIDE DEF s
  <2>3. /\ pc'[p] = "refused" /\ req'[p] = s
        /\ \A q \in Procs \ {p} : pc'[q] = pc[q] /\ req'[q] = req[q]
    BY <2>2, StepTo DEF WayInv, IInv
  <2>4. ASSUME ~r.direct
        PROVE  Cause(s)
    <3>1. now \in Nat /\ r.at \in Nat /\ r.at <= now /\ skew \in Int /\ Trust \in Int /\ TokenEnd \in Int
      BY <1>2, ClockAssumption, WindowAssumption DEF WayInv, IInv, TypeOK, Req
    <3>2. CASE ~TrustsStamp(r)
      <4>1. r.stamp = r.at + skew /\ r.stamp # NoStamp
        BY <1>2, <2>4, <3>1, NoneAssumption DEF WayInv, Way, Routed
      <4>2. Distance(now, r.at + skew) \in Int
        BY <3>1 DEF Distance
      <4>3. Distance(now, r.at + skew) > Trust
        BY <3>1, <3>2, <4>1, <4>2 DEF TrustsStamp, InWindow
      <4>4. now - r.at + Distance(skew, 0) > Trust
        BY <3>1, <4>3, LateStamp
      <4> QED BY <2>1, <4>4 DEF Cause, Late
    <3>3. CASE need = "bearer" /\ ~AdmitsBearer(r)
      <4>1. Environment = "production" \/ now >= TokenEnd \/ s.app = NoApp
        BY <2>1, <3>1, <3>3 DEF AdmitsBearer
      <4> QED BY <2>1, <3>3, <4>1, UnfitBearer DEF Cause
    <3>4. CASE need = "signature" /\ ~InWindow(now, call[r.call].ts, Window)
      <4>1. r.call \in Calls
        BY <1>2, <3>4 DEF WayInv, IInv, Local, InOrder
      <4>2. call[r.call].ts \in Int /\ Window \in Int
        BY <4>1, WindowAssumption DEF WayInv, IInv, TypeOK
      <4>3. Distance(now, call[r.call].ts) > Window
        BY <3>1, <3>4, <4>2 DEF InWindow, Distance
      <4> QED BY <2>1, <3>4, <4>3, UnfitSignature DEF Cause
    <3> QED BY <1>7, <3>2, <3>3, <3>4
  <2>5. need = "signature" => r.call \in Calls
    BY <1>2 DEF WayInv, IInv, Local, InOrder
  <2>6. Cause(s) => Cause(req[p])'
    BY <1>1, <2>3 DEF Cause, Late, Unfit
  <2>7. Way(p)'
    BY <2>1, <2>3, <2>4, <2>5, <2>6 DEF Way, Routed, Admitted, Caused, Checking
  <2> QED BY <1>1, <2>3, <2>7, OthersStand
<1> QED BY <1>4, <1>5, <1>6, <1>7 DEF Deliver

(* Steps of the clock, the token, the subsystems and the administrators.   *)
LEMMA QuietWay ==
    ASSUME WayInv, Tick \/ Revoke \/ ResetSecret \/ CreateApp \/ DeleteApp \/ UNCHANGED vars
    PROVE  WayInv'
<1>1. /\ IInv' /\ pc' = pc /\ req' = req /\ call' = call /\ nonce' = nonce /\ taken' = taken
      /\ skew' = skew /\ (black => black')
      /\ secret' \in {secret, 0, issued + 1} /\ issued \in Nat
  <2>1. IInv' /\ issued \in Nat
    BY Inductive DEF WayInv, IInv, TypeOK, Next
  <2>2. CASE ResetSecret \/ CreateApp \/ DeleteApp
    BY <2>1, <2>2 DEF ResetSecret, CreateApp, DeleteApp, NewSecret, clocks, redis
  <2>3. CASE Tick \/ Revoke \/ UNCHANGED vars
    BY <2>1, <2>3 DEF Tick, Revoke, clocks, apps, redis, vars
  <2> QED BY <2>1, <2>2, <2>3
<1>2. Earned'
  BY <1>1 DEF WayInv, Earned
<1>3. ASSUME NEW p \in Procs
      PROVE  Way(p)'
  <2>1. ASSUME pc[p] = "refused", ~req[p].direct
        PROVE  Cause(req[p])'
    <3>1. /\ Cause(req[p])
          /\ Demands(req[p].url) = "signature" => req[p].call \in Calls
      BY <2>1 DEF WayInv, Way, Caused
    <3>2. CASE black \/ Late(req[p])
      BY <1>1, <3>2 DEF Cause, Late
    <3>3. CASE Unfit(req[p]) /\ Demands(req[p].url) = "signature"
      <4>1. req[p].call \in Calls /\ call[req[p].call].made
        BY <3>1, <3>3, NoneAssumption DEF WayInv, IInv, Local, InOrder
      <4>2. call[req[p].call].ver \in 1..issued
        BY <4>1 DEF WayInv, IInv, Signed
      <4>3. call[req[p].call].ver # secret => call[req[p].call].ver # secret'
        BY <1>1, <4>2
      <4>4. Unfit(req[p])'
        BY <1>1, <3>3, <4>3 DEF Unfit
      <4> QED BY <4>4 DEF Cause
    <3>4. CASE Unfit(req[p]) /\ Demands(req[p].url) # "signature"
      BY <1>1, <3>4 DEF Cause, Unfit
    <3> QED BY <3>1, <3>2, <3>3, <3>4 DEF Cause
  <2> QED BY <1>1, <2>1, StandsStill DEF WayInv
<1> QED BY <1>1, <1>2, <1>3 DEF WayInv

LEMMA SignWay == ASSUME WayInv, NEW c \in Calls, Sign(c) PROVE WayInv'
<1>1. /\ IInv' /\ pc' = pc /\ req' = req /\ nonce' = nonce /\ taken' = taken
      /\ skew' = skew /\ black' = black /\ secret' = secret
  BY SignInv DEF WayInv, Sign, clocks, apps, redis
<1>2. ~call[c].made /\ \A d \in Calls \ {c} : call'[d] = call[d]
  BY DEF WayInv, IInv, TypeOK, Sign
<1>3. Earned'
  BY <1>1 DEF WayInv, Earned
<1>4. ASSUME NEW p \in Procs
      PROVE  Way(p)'
  <2>1. ASSUME pc[p] = "refused", ~req[p].direct
        PROVE  Cause(req[p])'
    <3>1. /\ Cause(req[p])
          /\ Demands(req[p].url) = "signature" => req[p].call \in Calls
      BY <2>1 DEF WayInv, Way, Caused
    <3>2. CASE Demands(req[p].url) = "signature"
      <4>1. req[p].call \in Calls \ {c}
        BY <1>2, <3>1, <3>2, NoneAssumption DEF WayInv, IInv, Local, InOrder
      <4>2. call'[req[p].call] = call[req[p].call]
        BY <1>2, <4>1
      <4> QED BY <1>1, <3>1, <4>2 DEF Cause, Late, Unfit
    <3>3. CASE Demands(req[p].url) # "signature"
      BY <1>1, <3>1, <3>3 DEF Cause, Late, Unfit
    <3> QED BY <3>2, <3>3
  <2> QED BY <1>1, <2>1, StandsStill DEF WayInv
<1> QED BY <1>1, <1>3, <1>4 DEF WayInv

LEMMA WayNext == WayInv /\ [Next]_vars => WayInv'
<1> SUFFICES ASSUME WayInv, [Next]_vars PROVE WayInv'
  OBVIOUS
<1>1. CASE Tick \/ Revoke \/ ResetSecret \/ CreateApp \/ DeleteApp \/ UNCHANGED vars
  BY <1>1, QuietWay
<1>2. CASE \E c \in Calls : Sign(c)
  BY <1>2, SignWay
<1>3. ASSUME NEW p \in Procs, NEW url \in Urls, NEW c \in Calls \union {NoCall},
             \/ \E own \in Owns, query \in Queries : Send(p, url, c, own, query)
             \/ Direct(p, url, c)
      PROVE  WayInv'
  BY <1>3, SendWay
<1>4. ASSUME NEW p \in Procs,
             GatewayBlacklist(p) \/ Deliver(p) \/ BearerBlacklist(p) \/ End(p)
      PROVE  WayInv'
  BY <1>4, GatewayWay, DeliverWay, BearerWay, EndWay
<1>5. ASSUME NEW p \in Procs, NonceCheck(p) \/ SignatureCheck(p) \/ NonceMark(p)
      PROVE  WayInv'
  BY <1>5, NonceCheckWay, SignatureWay, NonceMarkWay
<1> QED BY <1>1, <1>2, <1>3, <1>4, <1>5 DEF Next

LEMMA WayCorrect == Spec => []WayInv
<1>1. Init => WayInv
  <2> SUFFICES ASSUME Init PROVE WayInv
    OBVIOUS
  <2>1. Earned
    BY DEF Init, Earned, Keys, Codes
  <2>2. \A p \in Procs : Way(p)
    BY DEF Init, Way, Routed, Admitted, Caused, Checking
  <2> QED BY <2>1, <2>2, Initially DEF WayInv
<1> QED BY <1>1, WayNext, PTL DEF Spec

(* For every set of paths, headers and queries, and any number of requests *)
(* in any interleaving: whatever the service handles came through the      *)
(* gateway, under the app of the first route that matches its path or, if  *)
(* the client sends a header of its own, under that one.                   *)
THEOREM HandledAsTheHeaderSays == Spec => []HandledUnderHeader
<1>1. WayInv => HandledUnderHeader
  BY DEF WayInv, Way, Routed, Headed, HandledUnderHeader
<1> QED BY <1>1, WayCorrect, PTL

(* For every window and clock offset: a request the gateway forwarded is   *)
(* refused only for a cause that RefusedForCause names, and the cause is   *)
(* still one whatever happens between the check and the answer.            *)
THEOREM RefusedOnlyForCause == Spec => []RefusedForCause
<1>1. WayInv => RefusedForCause
  BY DEF WayInv, Way, Caused, Cause, RefusedForCause
<1> QED BY <1>1, WayCorrect, PTL
=============================================================================
