---------------------------- MODULE ServiceEntry ----------------------------
(***************************************************************************)
(* The way of a request into the core service: the gateway verifies the    *)
(* bearer token and forwards with a signed time stamp, GatewayTrust        *)
(* judges that stamp by the service's clock, and the endpoint's dependency *)
(* checks the bearer again (get_current_user) or the signature of a        *)
(* subsystem (verify_app_secret).  A signed call is one set of headers; a  *)
(* client or a proxy may deliver it any number of times, so every await    *)
(* of the dependency is a step of its own.                                 *)
(***************************************************************************)
EXTENDS Integers, Sequences, SequencesExt

CONSTANTS
    Calls,         \* signed calls (timestamp, nonce, signature)
    Caller,        \* the app that signs them
    Procs,         \* concurrent requests
    NoCall, NoApp, NoStamp,
    Blank,         \* an X-App-Code header with an empty value
    Named,         \* apps that clients name themselves, in a header or the query
    Window,        \* _SIGN_WINDOW_SECONDS (300): timestamps and nonces
    Environment,   \* ENVIRONMENT of the service: "production" or another
    Trust,         \* _WINDOW_SECONDS (30): the gateway's stamp
    TokenEnd,      \* expiry of the bearer token
    Skews,         \* offsets of the gateway's and the callers' clocks
    Urls,          \* the instance's request paths
    MaxTime,       \* bound: the clock stops here
    MaxVersion     \* bound: secrets the app gets

ASSUME WindowAssumption == Window \in Nat \ {0} /\ Trust \in Nat
ASSUME ClockAssumption  == Skews \subseteq Int /\ MaxTime \in Nat /\ TokenEnd \in Nat
ASSUME BoundAssumption  == MaxVersion \in Nat \ {0}
ASSUME NoneAssumption   == NoCall \notin Calls /\ NoApp # Caller /\ NoStamp \notin Int

VARIABLES
    now,        \* the service's clock, which Redis shares
    skew,       \* how far the gateway's clock is ahead
    black,      \* is the bearer token's jti on the blacklist
    secret,     \* version of App.app_secret, 0 if the app is not stored
    issued,     \* secrets generated so far
    call,       \* timestamp and secret of each signed call
    nonce,      \* Redis internal:nonce:<app>:<nonce>: its expiry, 0 if never set
    pc, req,    \* where each request is, and its local variables
    taken       \* ghost: when each signed call was last accepted

clocks == <<now, skew>>
apps   == <<secret, issued>>
redis  == <<black, nonce>>
vars   == <<now, skew, black, secret, issued, call, nonce, pc, req, taken>>

Never    == -1000
Unsigned == [made |-> FALSE, ts |-> 0, ver |-> 0]
(* own is the client's X-App-Code header and app the one the service       *)
(* reads.  Ghosts: whether the request went around the gateway; when it    *)
(* was forwarded, delivered and looked up; whether the app's secret was no *)
(* longer the one it is signed with when it was delivered.                 *)
NoReq == [url |-> <<>>, app |-> NoApp, own |-> NoApp, query |-> NoApp, call |-> NoCall,
          stamp |-> NoStamp, direct |-> FALSE, at |-> 0, arrived |-> 0, looked |-> 0, old |-> FALSE]

-----------------------------------------------------------------------------
(* UPSTREAM_SERVICES, in its order; paths are below /api.                  *)
Routes == <<
    [prefix |-> <<"auth">>, app |-> "nexuskit", public |-> {"login", "register", "refresh"}],
    [prefix |-> <<"identity">>, app |-> "nexuskit", public |-> {}],
    [prefix |-> <<"datahub", "identity">>, app |-> "datahub", public |-> {}],
    [prefix |-> <<"datahub", "auth">>, app |-> "datahub",
     public |-> {"login", "register", "refresh"}]>>
Apps == {Routes[i].app : i \in DOMAIN Routes}
Codes   == Apps \union Named \union {Caller, Blank}
Owns    == Named \union {Blank, NoApp}
Queries == Named \union {NoApp}
Keys    == Codes \X Calls
ASSUME BlankAssumption == Blank \notin Apps \union {Caller, NoApp}

(* The first entry whose prefix the path starts with names the app.        *)
Matches(url)  == {i \in DOMAIN Routes : IsPrefix(Routes[i].prefix, url)}
AppCode(url)  == IF Matches(url) = {} THEN NoApp
                 ELSE Routes[CHOOSE i \in Matches(url) : \A j \in Matches(url) : i <= j].app
IsPublicPath(url) == \E i \in DOMAIN Routes :
                       \E p \in Routes[i].public : IsPrefix(Append(Routes[i].prefix, p), url)

(* What the rewritten path demands: nothing, a signature or a bearer.      *)
Demands(url) == IF IsPublicPath(url) THEN "nothing"
                ELSE IF \E i \in DOMAIN url : url[i] = "internal" THEN "signature"
                ELSE "bearer"

(* buildProxyHeaders writes the gateway's headers behind the client's,     *)
(* under names that differ in case: both X-App-Code headers are sent, and  *)
(* the service reads the first.  (GatewayTrust reads the last              *)
(* X-Gateway-Token, the gateway's.)                                        *)
AppRead(url, own) == IF own = NoApp THEN AppCode(url) ELSE own

(* resolve_app_code: the header goes before the query parameter, unless it *)
(* is empty.                                                               *)
ResolveQueryFirst(header, query) == IF query # NoApp THEN query ELSE header
Resolve(header, query)           == IF header # Blank THEN header ELSE query

(* abs(time.time() - ts) > window refuses.                                 *)
Distance(a, b) == IF a < b THEN b - a ELSE a - b
InWindowStrictly(t, ts, window) == Distance(t, ts) < window
InWindow(t, ts, window)         == Distance(t, ts) <= window

Step(p, l, r) == /\ pc' = [pc EXCEPT ![p] = l]
                 /\ req' = [req EXCEPT ![p] = r]
Goto(p, l)    == pc' = [pc EXCEPT ![p] = l] /\ UNCHANGED req

(* What remains of a refused request is what it was refused for.           *)
Remains(r)    == [r EXCEPT !.own = NoApp, !.query = NoApp, !.stamp = NoStamp,
                           !.looked = 0, !.old = FALSE]
Refuse(p)     == Step(p, "refused", Remains(req[p]))
Handle(p)     == Step(p, "handled", [NoReq EXCEPT !.url = req[p].url, !.app = req[p].app,
                                                  !.own = req[p].own, !.direct = req[p].direct])

-----------------------------------------------------------------------------
Init == /\ now = 0
        /\ skew \in Skews
        /\ black = FALSE
        /\ secret = 1 /\ issued = 1
        /\ call = [c \in Calls |-> Unsigned]
        /\ nonce = [k \in Keys |-> 0]
        /\ pc = [p \in Procs |-> "idle"]
        /\ req = [p \in Procs |-> NoReq]
        /\ taken = [c \in Calls |-> Never]

(* A subsystem signs a call with a secret it was given, by its own clock.  *)
Sign(c) ==
    /\ ~call[c].made
    /\ \E s \in Skews, v \in 1..issued :
         call' = [call EXCEPT ![c] = [made |-> TRUE, ts |-> now + s, ver |-> v]]
    /\ UNCHANGED <<clocks, apps, redis, pc, req, taken>>

(* Each request starts in the gateway, with the client's headers and       *)
(* query: outside the public paths the JWT must verify before the          *)
(* blacklist is asked.  A request without a valid token, or for a path     *)
(* that no route has a prefix of, gets no further.  (Bound: a query and an *)
(* empty header are sent to the endpoints that read a query only.)         *)
Suits(url, c) == IF Demands(url) = "signature" THEN c # NoCall /\ call[c].made ELSE c = NoCall
GatewayNow == now + skew
Forward(p, r) == Step(p, "flight", [r EXCEPT !.stamp = GatewayNow, !.at = now])
Send(p, url, c, own, query) ==
    /\ pc[p] = "idle"
    /\ Suits(url, c) /\ AppCode(url) # NoApp
    /\ query # NoApp \/ own = Blank => Demands(url) = "bearer"
    /\ LET r == [NoReq EXCEPT !.url = url, !.app = AppRead(url, own), !.own = own,
                             !.query = query, !.call = c] IN
         IF IsPublicPath(url) THEN Forward(p, r)
         ELSE GatewayNow < TokenEnd /\ Step(p, "gateway", r)
    /\ UNCHANGED <<clocks, apps, redis, call, taken>>

GatewayBlacklist(p) ==
    /\ pc[p] = "gateway"
    /\ IF black THEN Refuse(p) ELSE Forward(p, req[p])
    /\ UNCHANGED <<clocks, apps, redis, call, taken>>

(* A request that does not take the gateway brings its own headers.        *)
Direct(p, url, c) ==
    /\ pc[p] = "idle"
    /\ Suits(url, c)
    /\ Step(p, "flight", [NoReq EXCEPT !.url = url, !.app = Caller, !.call = c, !.direct = TRUE])
    /\ UNCHANGED <<clocks, apps, redis, call, taken>>

-----------------------------------------------------------------------------
(* GatewayTrustMiddleware, then the endpoint's dependency up to its first  *)
(* await: in production get_current_user wants the internal secret, which  *)
(* the gateway does not send and no client has.                            *)
TrustsStamp(r)  == r.stamp # NoStamp /\ InWindow(now, r.stamp, Trust)
AdmitsBearer(r) == /\ Environment # "production" /\ now < TokenEnd
                   /\ Resolve(r.app, r.query) # NoApp
Deliver(p) ==
    LET r == req[p]
        need   == Demands(r.url)
        in     == [r EXCEPT !.stamp = NoStamp, !.query = NoApp, !.at = 0, !.arrived = now] IN
    /\ pc[p] = "flight"
    /\ \/ TrustsStamp(r) /\ need = "nothing" /\ Handle(p)
       \/ /\ TrustsStamp(r) /\ need = "bearer" /\ AdmitsBearer(r)
          /\ Step(p, "bearer", [in EXCEPT !.app = Resolve(r.app, r.query), !.arrived = 0])
       \/ /\ TrustsStamp(r) /\ need = "signature" /\ InWindow(now, call[r.call].ts, Window)
          /\ Step(p, "nonce", [in EXCEPT !.old = call[r.call].ver # secret])
       \/ /\ \/ ~TrustsStamp(r)
             \/ need = "bearer" /\ ~AdmitsBearer(r)
             \/ need = "signature" /\ ~InWindow(now, call[r.call].ts, Window)
          /\ Step(p, "refused", [Remains(r) EXCEPT !.app = Resolve(r.app, r.query), !.arrived = now])
    /\ UNCHANGED <<clocks, apps, redis, call, taken>>

(* get_current_user asks the blacklist again; its session and user checks  *)
(* are those of AuthSessions.                                              *)
BearerBlacklist(p) ==
    /\ pc[p] = "bearer"
    /\ IF black THEN Refuse(p) ELSE Handle(p)
    /\ UNCHANGED <<clocks, apps, redis, call, taken>>

(* verify_app_secret: EXISTS nonce; SELECT app and compare signatures;     *)
(* SETEX nonce.                                                            *)
Key(p) == <<req[p].app, req[p].call>>
NonceCheck(p) ==
    /\ pc[p] = "nonce"
    /\ IF nonce[Key(p)] > now THEN Refuse(p) ELSE Step(p, "app", [req[p] EXCEPT !.looked = now])
    /\ UNCHANGED <<clocks, apps, redis, call, taken>>

VerifiesAnySecret(app, c) == app = Caller /\ secret # 0
Verifies(app, c)          == app = Caller /\ secret # 0 /\ call[c].ver = secret
SignatureCheck(p) ==
    /\ pc[p] = "app"
    /\ IF Verifies(req[p].app, req[p].call) THEN Goto(p, "mark") ELSE Refuse(p)
    /\ UNCHANGED <<clocks, apps, redis, call, taken>>

MarkedNothing(k) == nonce
Marked(k)       == [nonce EXCEPT ![k] = now + Window]
NonceMark(p) ==
    /\ pc[p] = "mark"
    /\ nonce' = Marked(Key(p))
    /\ taken' = [taken EXCEPT ![req[p].call] = now]
    /\ Handle(p)
    /\ UNCHANGED <<clocks, apps, black, call>>

(* The response is sent, or the request dies on its way.                   *)
End(p) == /\ pc[p] # "idle"
          /\ Step(p, "idle", NoReq)
          /\ UNCHANGED <<clocks, apps, redis, call, taken>>

-----------------------------------------------------------------------------
(* reset_app_secret, delete_app and create_app.                            *)
NewSecret ==
    /\ issued < MaxVersion
    /\ secret' = issued + 1
    /\ issued' = issued + 1
    /\ UNCHANGED <<clocks, redis, call, pc, req, taken>>
ResetSecret == secret # 0 /\ NewSecret
CreateApp   == secret = 0 /\ NewSecret
DeleteApp ==
    /\ secret # 0
    /\ secret' = 0
    /\ UNCHANGED <<clocks, issued, redis, call, pc, req, taken>>

(* A refresh or a login puts the token's jti on the blacklist.             *)
Revoke == /\ ~black
          /\ black' = TRUE
          /\ UNCHANGED <<clocks, apps, nonce, call, pc, req, taken>>

Tick == /\ now < MaxTime
        /\ now' = now + 1
        /\ UNCHANGED <<skew, apps, redis, call, pc, req, taken>>

Next ==
    \/ Tick \/ Revoke \/ ResetSecret \/ CreateApp \/ DeleteApp
    \/ \E c \in Calls : Sign(c)
    \/ \E p \in Procs :
         \/ \E url \in Urls, c \in Calls \union {NoCall} :
              \/ \E own \in Owns, query \in Queries : Send(p, url, c, own, query)
              \/ Direct(p, url, c)
         \/ GatewayBlacklist(p) \/ Deliver(p) \/ BearerBlacklist(p)
         \/ NonceCheck(p) \/ SignatureCheck(p) \/ NonceMark(p) \/ End(p)

Spec == Init /\ [][Next]_vars
-----------------------------------------------------------------------------
(* The tables, keys and requests have their types, and a nonce outlives    *)
(* its use by the window at most.                                          *)
Labels == {"idle", "gateway", "flight", "bearer", "nonce", "app", "mark", "handled", "refused"}
Stamps == {NoStamp} \union Int
Req == [url : Urls \union {<<>>}, app : Codes \union {NoApp},
        own : Owns, query : Queries, call : Calls \union {NoCall}, stamp : Stamps, direct : BOOLEAN,
        at : 0..now, arrived : 0..now, looked : 0..now, old : BOOLEAN]
TypeOK ==
    /\ now \in 0..MaxTime /\ skew \in Skews
    /\ black \in BOOLEAN
    /\ issued \in 1..MaxVersion /\ secret \in 0..issued
    /\ call \in [Calls -> [made : BOOLEAN, ts : Int, ver : 0..issued]]
    /\ nonce \in [Keys -> 0..now + Window]
    /\ pc \in [Procs -> Labels]
    /\ req \in [Procs -> Req]
    /\ taken \in [Calls -> {Never} \union 0..now]

(* A signed call is accepted again only when the two deliveries were       *)
(* handled at the same time, its timestamp is not behind the earlier       *)
(* acceptance (so the timestamp outlives the nonce), or the nonce expired  *)
(* while the later delivery waited between its two checks.                 *)
Accepting(p) == pc[p] = "mark"
Before(p)    == taken[req[p].call]
AcceptedOnce ==
    \A p \in Procs : Accepting(p) /\ Before(p) # Never =>
        \/ Before(p) >= req[p].arrived
        \/ call[req[p].call].ts >= Before(p)
        \/ req[p].arrived < Before(p) + Window /\ Before(p) + Window <= req[p].looked

(* A call signed with a secret that was not the app's when it arrived is   *)
(* not accepted, whatever is reset while the dependency waits.             *)
OldSecretRefused == \A p \in Procs : Accepting(p) => ~req[p].old

(* Whatever is handled came through the gateway.  It is handled under the  *)
(* app its path names when the client sends no X-App-Code, and under the   *)
(* client's own when it sends one; what the query asks for counts only     *)
(* when that header is empty.                                              *)
HandledUnderHeader ==
    \A p \in Procs : pc[p] = "handled" =>
        /\ ~req[p].direct
        /\ req[p].own = NoApp => req[p].app = AppCode(req[p].url)
        /\ req[p].own \notin {NoApp, Blank} => req[p].app = req[p].own

(* A forwarded request is refused only for one of these reasons: the token *)
(* was revoked; delay and clock skew exceed the trust window; the bearer   *)
(* expired on its way, the service runs in production, or no app is named; *)
(* the call is not the app's, out of its window, signed with a replaced    *)
(* secret, or was accepted before.                                         *)
Late(r)   == r.arrived - r.at + Distance(skew, 0) > Trust
Unfit(r)  == CASE Demands(r.url) = "bearer" ->
                    \/ Environment = "production" \/ r.arrived >= TokenEnd
                    \/ r.app = NoApp
               [] Demands(r.url) = "signature" ->
                    \/ r.app # Caller
                    \/ Distance(r.arrived, call[r.call].ts) > Window
                    \/ call[r.call].ver # secret
                    \/ taken[r.call] # Never
               [] OTHER -> FALSE
RefusedForCause ==
    \A p \in Procs : pc[p] = "refused" /\ ~req[p].direct =>
        black \/ Late(req[p]) \/ Unfit(req[p])

(* What get_current_user says of the gateway: a bearer request it passes   *)
(* on in time, whose token is neither revoked nor expired and which names  *)
(* an app, is served in every environment.                                 *)
ForwardedBearerServed ==
    \A p \in Procs : pc[p] = "refused" /\ ~req[p].direct /\ Demands(req[p].url) = "bearer" =>
        black \/ Late(req[p]) \/ req[p].arrived >= TokenEnd \/ req[p].app = NoApp
=============================================================================
