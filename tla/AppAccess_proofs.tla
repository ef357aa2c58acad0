-------------------------- MODULE AppAccess_proofs --------------------------
(***************************************************************************)
(* Proofs about AppAccess, for any users, applications, dates, bounds and  *)
(* number of requests at a time: its three properties.                     *)
(***************************************************************************)
EXTENDS AppAccess, FiniteSetTheorems, TLAPS

Labels  == Ended \union {"look", "write", "refresh", "create", "drop"}
RowType == [id : Nat, pair : Pairs, val : Values]
Req     == [op : {"none", "grant", "update", "create", "drop"}, pair : Pairs \union {<<>>},
            app : Apps \union {"none"}, val : Changes, read : SUBSET (RowType \union Nat),
            missed : BOOLEAN]
AskType == [active : {0, 1}, exp : Expiries \union {Never, Keep}]

Typed == /\ grants \in SUBSET RowType /\ IsFiniteSet(grants) /\ rowIds \in Nat
         /\ apps \in [Apps -> Nat] /\ appIds \in Nat
         /\ asked \in [Pairs -> AskType]
         /\ pc \in [Procs -> Labels] /\ req \in [Procs -> Req]

(* An id belongs to one row, and to one pair for ever.                     *)
OneRowPerId == \A g, h \in grants : g.id = h.id => g = h
IdsGiven    == \A g \in grants : g.id <= rowIds

(* What a request at label l knows: what it was asked and, if nobody has   *)
(* written to its pair or application since, what is stored.               *)
Own(l, r) ==
    /\ l \in {"look", "write", "refresh"} =>
         /\ r.op \in {"grant", "update"} /\ r.pair \in Pairs
         /\ r.op = "grant" => r.val \in Values
         /\ \A h \in r.read : /\ h \in RowType /\ h.id <= rowIds
                              /\ \A g \in grants : g.id = h.id => g.pair = r.pair
    /\ l = "write" => (r.read = {} /\ r.op = "grant") \/ \E h \in r.read : r.read = {h}
    /\ l \in {"create", "drop"} => r.app \in Apps
UpToDate(l, r) ==
    /\ l \in {"look", "write"} /\ r.op = "grant" => apps[r.pair[2]] # 0
    /\ l = "write" => r.read = Rows(r.pair)
    /\ l = "refresh" => \E g \in Rows(r.pair), h \in r.read : g.id = h.id
    /\ l = "create" => apps[r.app] = 0
Knows(l, r) == Own(l, r) /\ (~r.missed => UpToDate(l, r))

IInv == /\ Typed /\ OneRowPerId /\ IdsGiven /\ GrantsAsAsked
        /\ \A p \in Procs : Knows(pc[p], req[p])

-----------------------------------------------------------------------------
(* Values and changes.                                                     *)
LEMMA ValueFacts ==
    /\ Values \subseteq Changes /\ Values \subseteq AskType /\ NoAccess \in Changes \intersect AskType
    /\ \A v \in Values : v.active # Keep /\ v.exp # Keep /\ v # NoAccess
BY AccessBounds DEF Values, Changes, AskType, NoAccess, Never, Keep

LEMMA AssignFacts ==
    ASSUME NEW old, NEW new \in Changes
    PROVE  /\ old \in Values => Assign(old, new) \in Values
           /\ old \in AskType => Assign(old, new) \in AskType
           /\ new \in Values => Assign(old, new) = new
<1>1. old \in Values => Assign(old, new) \in Values
  BY DEF Assign, Values, Changes
<1>2. old \in AskType => Assign(old, new) \in AskType
  BY DEF Assign, AskType, Changes
<1>3. new \in Values => Assign(old, new) = new
  BY ValueFacts DEF Assign, Values
<1> QED BY <1>1, <1>2, <1>3

LEMMA MergeFacts ==
    ASSUME NEW stored \in Values, NEW read \in Values, NEW new \in Values
    PROVE  Merge(stored, read, new) \in Values /\ Merge(read, read, new) = new
BY DEF Merge, Values

LEMMA NoReqType == NoReq \in Req /\ \A l \in Ended : Knows(l, NoReq)
<1>1. NoReq \in Req
  BY ValueFacts DEF NoReq, Req
<1>2. ASSUME NEW l \in Ended PROVE Knows(l, NoReq)
  BY DEF Ended, Knows, Own, UpToDate
<1> QED BY <1>1, <1>2

(* At most one row: none, or just one.                                     *)
LEMMA RowsCounted ==
    ASSUME IsFiniteSet(grants), NEW k
    PROVE  /\ IsFiniteSet(Rows(k)) /\ Cardinality(Rows(k)) \in Nat
           /\ Cardinality(Rows(k)) = 1 <=> \E g : Rows(k) = {g}
           /\ Cardinality(Rows(k)) <= 1 <=> Rows(k) = {} \/ \E g : Rows(k) = {g}
<1>1. IsFiniteSet(Rows(k))
  BY FS_Subset DEF Rows
<1>2. Cardinality(Rows(k)) \in Nat
  BY <1>1, FS_CardinalityType
<1>3. Cardinality(Rows(k)) = 0 <=> Rows(k) = {}
  BY <1>1, FS_EmptySet
<1>4. Cardinality(Rows(k)) = 1 <=> \E g : Rows(k) = {g}
  BY <1>1, FS_Singleton
<1>5. Cardinality(Rows(k)) <= 1 <=> Cardinality(Rows(k)) = 0 \/ Cardinality(Rows(k)) = 1
  BY <1>2
<1> QED BY <1>1, <1>2, <1>3, <1>4, <1>5

LEMMA Few == Cardinality({}) <= 1 /\ \A x : Cardinality({x}) <= 1
<1>1. Cardinality({}) = 0 /\ \A x : Cardinality({x}) = 1
  BY FS_EmptySet, FS_Singleton
<1> QED BY <1>1

-----------------------------------------------------------------------------
(* A request takes a step and nothing stored changes.                      *)
LEMMA LocalStep ==
    ASSUME IInv, UNCHANGED <<store, asked, raced>>,
           NEW p \in Procs, NEW l \in Labels, NEW r \in Req, Knows(l, r), Step(p, l, r)
    PROVE  IInv'
<1>1. /\ pc'[p] = l /\ req'[p] = r
      /\ \A q \in Procs \ {p} : pc'[q] = pc[q] /\ req'[q] = req[q]
      /\ pc' \in [Procs -> Labels] /\ req' \in [Procs -> Req]
  BY DEF IInv, Typed, Step
<1>2. Typed' /\ OneRowPerId' /\ IdsGiven'
  BY <1>1 DEF IInv, Typed, store, OneRowPerId, IdsGiven
<1>3. GrantsAsAsked'
  BY DEF IInv, GrantsAsAsked, Rows, store
<1>4. ASSUME NEW q \in Procs PROVE Knows(pc[q], req[q])'
  <2>1. Knows(pc'[q], req'[q])
    BY <1>1 DEF IInv
  <2> QED BY <2>1 DEF Knows, Own, UpToDate, Rows, store
<1> QED BY <1>2, <1>3, <1>4 DEF IInv

LEMMA EndStep ==
    ASSUME IInv, UNCHANGED <<store, asked, raced>>, NEW p \in Procs, NEW l \in Ended, Step(p, l, NoReq)
    PROVE  IInv'
BY NoReqType, LocalStep DEF Labels

LEMMA GotoEnd ==
    ASSUME IInv, NEW p \in Procs, NEW l \in Ended, Goto(p, l)
    PROVE  IInv'
<1>1. Step(p, l, NoReq) /\ UNCHANGED <<store, asked, raced>>
  BY DEF Goto
<1> QED BY <1>1, EndStep

(* A request commits: the rows and applications outside its pairs and its  *)
(* codes are as before, and whoever has read what it wrote now knows less. *)
Elsewhere(pairs, codes) ==
    /\ \A k \in Pairs \ pairs : /\ Rows(k)' = Rows(k) /\ asked'[k] = asked[k]
                                /\ k \in raced <=> k \in raced'
                                /\ apps[k[2]] # 0 => apps'[k[2]] # 0
    /\ \A a \in Apps \ codes : apps'[a] = apps[a]
    /\ rowIds' >= rowIds
    /\ \A g \in grants' : g.id <= rowIds => \E h \in grants : h.id = g.id /\ h.pair = g.pair
Stored == /\ grants \in SUBSET RowType /\ IsFiniteSet(grants) /\ rowIds \in Nat
          /\ apps \in [Apps -> Nat] /\ appIds \in Nat
          /\ asked \in [Pairs -> AskType]
AsAsked(k) == {g.val : g \in Rows(k)} = {asked[k]} \ {NoAccess} /\ Cardinality(Rows(k)) <= 1

LEMMA Committed ==
    ASSUME IInv, NEW p \in Procs, NEW l \in Labels, NEW r \in Req,
           NEW pairs \in SUBSET Pairs, NEW codes \in SUBSET Apps,
           CommitStep(p, l, r, pairs, codes), Elsewhere(pairs, codes),
           Stored', OneRowPerId', IdsGiven',
           \A k \in pairs : k \notin raced' => AsAsked(k)',
           Knows(l, r)'
    PROVE  IInv'
<1>1. /\ pc' \in [Procs -> Labels] /\ req' \in [Procs -> Req]
      /\ pc'[p] = l /\ req'[p] = r
  <2>1. \A q \in Procs : [req[q] EXCEPT !.missed = TRUE] \in Req
    BY DEF IInv, Typed, Req
  <2> QED BY <2>1 DEF IInv, Typed, CommitStep
<1>2. Typed'
  BY <1>1 DEF Stored, Typed
<1>3. GrantsAsAsked'
  <2>1. ASSUME NEW k \in Pairs \ pairs, k \notin raced' PROVE AsAsked(k)'
    <3>1. AsAsked(k)
      BY <2>1 DEF Elsewhere, IInv, GrantsAsAsked, AsAsked
    <3> QED BY <3>1 DEF Elsewhere, AsAsked
  <2> QED BY <2>1 DEF GrantsAsAsked, AsAsked
<1>4. ASSUME NEW q \in Procs \ {p} PROVE Knows(pc[q], req[q])'
  <2>1. /\ Knows(pc[q], req[q]) /\ req[q] \in Req /\ pc'[q] = pc[q]
        /\ \/ req'[q] = [req[q] EXCEPT !.missed = TRUE]
           \/ req'[q] = req[q] /\ req[q].pair \notin pairs /\ req[q].app \notin codes
    BY DEF IInv, Typed, CommitStep
  <2>2. /\ req'[q].op = req[q].op /\ req'[q].pair = req[q].pair /\ req'[q].app = req[q].app
        /\ req'[q].val = req[q].val /\ req'[q].read = req[q].read
    BY <2>1 DEF Req
  <2>3. ASSUME pc[q] \in {"look", "write", "refresh"}, NEW h \in req[q].read
        PROVE  /\ h \in RowType /\ h.id <= rowIds'
               /\ \A g \in grants' : g.id = h.id => g.pair = req[q].pair
    <3>1. /\ h \in RowType /\ h.id <= rowIds
          /\ \A g \in grants : g.id = h.id => g.pair = req[q].pair
      BY <2>1, <2>3 DEF Knows, Own
    <3>2. h.id \in Nat /\ rowIds \in Nat /\ rowIds' \in Nat /\ rowIds' >= rowIds
      BY <3>1 DEF RowType, IInv, Typed, Stored, Elsewhere
    <3> QED BY <3>1, <3>2 DEF Elsewhere
  <2>4. Own(pc[q], req[q])'
    BY <2>1, <2>2, <2>3 DEF Knows, Own
  <2>5. CASE req'[q].missed
    BY <2>4, <2>5 DEF Knows
  <2>6. CASE ~req'[q].missed
    <3>1. /\ req'[q] = req[q] /\ req[q].pair \notin pairs /\ req[q].app \notin codes
          /\ UpToDate(pc[q], req[q])
      BY <2>1, <2>6 DEF Req, Knows
    <3>2. pc[q] \in {"look", "write", "refresh"} => /\ req[q].pair \in Pairs \ pairs
                                                    /\ Rows(req[q].pair)' = Rows(req[q].pair)
      BY <2>1, <3>1 DEF Knows, Own, Elsewhere
    <3>3. pc[q] = "create" => req[q].app \in Apps \ codes
      BY <2>1, <3>1 DEF Knows, Own
    <3>4. UpToDate(pc[q], req[q])'
      BY <2>1, <3>1, <3>2, <3>3 DEF UpToDate, Elsewhere, Rows
    <3> QED BY <2>4, <3>4 DEF Knows
  <2> QED BY <2>5, <2>6
<1> QED BY <1>1, <1>2, <1>3, <1>4 DEF IInv

-----------------------------------------------------------------------------
(* The steps that store nothing.                                           *)
LEMMA BeginInv ==
    ASSUME IInv, NEW p \in Procs, NEW l \in Labels, NEW op \in {"grant", "update", "create"},
           NEW k \in Pairs \union {<<>>}, NEW a \in Apps \union {"none"}, NEW v \in Changes,
           Begin(p, l, op, k, a, v),
           l \notin Ended => Knows(l, [NoReq EXCEPT !.op = op, !.pair = k, !.app = a, !.val = v])
    PROVE  IInv'
<1>1. UNCHANGED <<store, asked, raced>>
  BY DEF Begin
<1>2. CASE l \in Ended
  BY <1>1, <1>2, EndStep DEF Begin
<1>3. CASE l \notin Ended
  <2>1. [NoReq EXCEPT !.op = op, !.pair = k, !.app = a, !.val = v] \in Req
    BY NoReqType DEF Req
  <2> QED BY <1>1, <1>3, <2>1, LocalStep DEF Begin
<1> QED BY <1>2, <1>3

LEMMA GrantBeginInv ==
    ASSUME IInv, NEW p \in Procs, NEW k \in Pairs, NEW v \in Values, GrantBegin(p, k, v)
    PROVE  IInv'
<1> DEFINE r == [NoReq EXCEPT !.op = "grant", !.pair = k, !.app = "none", !.val = v]
           l == IF AppStored(k[2]) THEN "look" ELSE "refused"
<1>1. r.op = "grant" /\ r.pair = k /\ r.val = v /\ r.read = {}
  BY DEF NoReq
<1>2. l \notin Ended => Knows(l, r)
  BY <1>1 DEF Ended, Knows, Own, UpToDate, AppStored
<1>3. l \in Labels /\ v \in Changes /\ Begin(p, l, "grant", k, "none", v)
  BY ValueFacts DEF Labels, Ended, GrantBegin
<1> QED BY <1>2, <1>3, BeginInv

LEMMA UpdateBeginInv ==
    ASSUME IInv, NEW p \in Procs, NEW k \in Pairs, NEW v \in Changes, UpdateBegin(p, k, v)
    PROVE  IInv'
<1> DEFINE r == [NoReq EXCEPT !.op = "update", !.pair = k, !.app = "none", !.val = v]
<1>1. r.op = "update" /\ r.pair = k /\ r.read = {}
  BY DEF NoReq
<1>2. Knows("look", r)
  BY <1>1 DEF Knows, Own, UpToDate
<1>3. "look" \in Labels /\ Begin(p, "look", "update", k, "none", v)
  BY DEF Labels, UpdateBegin
<1> QED BY <1>2, <1>3, BeginInv

LEMMA CreateBeginInv ==
    ASSUME IInv, NEW p \in Procs, NEW a \in Apps, CreateBegin(p, a)
    PROVE  IInv'
<1> DEFINE r == [NoReq EXCEPT !.op = "create", !.pair = <<>>, !.app = a, !.val = NoAccess]
           l == IF AppStored(a) THEN "refused" ELSE "create"
<1>1. r.app = a
  BY DEF NoReq
<1>2. l \notin Ended => Knows(l, r)
  BY <1>1 DEF Ended, Knows, Own, UpToDate, AppStored
<1>3. l \in Labels /\ NoAccess \in Changes /\ Begin(p, l, "create", <<>>, a, NoAccess)
  BY ValueFacts DEF Labels, Ended, CreateBegin
<1> QED BY <1>2, <1>3, BeginInv

LEMMA DropBeginInv ==
    ASSUME IInv, NEW p \in Procs, NEW a \in Apps, DropBegin(p, a)
    PROVE  IInv'
<1> DEFINE r == [NoReq EXCEPT !.op = "drop", !.app = a, !.read = {apps[a]}]
<1>1. UNCHANGED <<store, asked, raced>>
  BY DEF DropBegin
<1>2. CASE Step(p, "refused", NoReq)
  BY <1>1, <1>2, EndStep DEF Ended
<1>3. CASE Step(p, "drop", r)
  <2>1. r \in Req /\ r.app = a
    <3>1. {apps[a]} \in SUBSET (RowType \union Nat)
      BY DEF IInv, Typed
    <3> QED BY <3>1, NoReqType DEF Req, NoReq
  <2>2. Knows("drop", r)
    BY <2>1 DEF Knows, Own, UpToDate
  <2>3. "drop" \in Labels
    BY DEF Labels
  <2> QED BY <1>1, <1>3, <2>1, <2>2, <2>3, LocalStep
<1> QED BY <1>2, <1>3 DEF DropBegin

LEMMA LookInv == ASSUME IInv, NEW p \in Procs, Look(p) PROVE IInv'
<1> DEFINE k == req[p].pair
           r == [req[p] EXCEPT !.read = Rows(k)]
<1>1. /\ req[p] \in Req /\ pc[p] = "look" /\ Own("look", req[p])
      /\ ~req[p].missed => UpToDate("look", req[p])
  BY DEF IInv, Typed, Look, Knows
<1>2. ASSUME NEW l \in {"failed", "refused"}, Goto(p, l) PROVE IInv'
  BY <1>2, GotoEnd DEF Ended
<1>3. ASSUME Cardinality(Rows(k)) = 1 \/ (Rows(k) = {} /\ req[p].op = "grant"),
             Step(p, "write", r), UNCHANGED <<store, asked, raced>>
      PROVE  IInv'
  <2>1. Rows(k) \subseteq RowType
    BY DEF IInv, Typed, Rows
  <2>2. /\ r \in Req /\ r.read = Rows(k) /\ r.pair = k /\ r.op = req[p].op /\ r.val = req[p].val
        /\ r.missed = req[p].missed /\ r.app = req[p].app
    BY <1>1, <2>1 DEF Req
  <2>3. ASSUME NEW h \in Rows(k)
        PROVE  /\ h \in RowType /\ h.id <= rowIds
               /\ \A g \in grants : g.id = h.id => g.pair = k
    BY <2>1 DEF IInv, OneRowPerId, IdsGiven, Rows
  <2>4. (Rows(k) = {} /\ req[p].op = "grant") \/ \E h \in Rows(k) : Rows(k) = {h}
    BY <1>3, RowsCounted DEF IInv, Typed
  <2>5. Own("write", r)
    BY <1>1, <2>2, <2>3, <2>4 DEF Own
  <2>6. ~r.missed => UpToDate("write", r)
    BY <1>1, <2>2 DEF UpToDate
  <2>7. "write" \in Labels
    BY DEF Labels
  <2> QED BY <1>3, <2>2, <2>5, <2>6, <2>7, LocalStep DEF Knows
<1> QED BY <1>2, <1>3 DEF Look

LEMMA QuietInv ==
    ASSUME IInv, NEW p \in Procs, Refresh(p) \/ \E k \in Pairs : Check(p, k)
    PROVE  IInv'
<1>1. PICK l \in {"done", "failed", "admitted", "refused"} : Goto(p, l)
  BY DEF Refresh, Check
<1> QED BY <1>1, GotoEnd DEF Ended

-----------------------------------------------------------------------------
(* Access is withdrawn from some pairs: their rows are deleted.            *)
LEMMA Withdrawn ==
    ASSUME IInv, NEW p \in Procs, NEW pairs \in SUBSET Pairs, NEW codes \in SUBSET Apps,
           grants' = {g \in grants : g.pair \notin pairs}, Withdraw(pairs),
           CommitStep(p, "done", NoReq, pairs, codes),
           rowIds' = rowIds, appIds' = appIds, apps' \in [Apps -> Nat],
           \A a \in Apps \ codes : apps'[a] = apps[a],
           \A k \in Pairs \ pairs : k[2] \notin codes
    PROVE  IInv'
<1>1. Stored'
  <2>1. grants' \in SUBSET grants
    OBVIOUS
  <2>2. IsFiniteSet(grants')
    BY <2>1, FS_Subset DEF IInv, Typed
  <2>3. asked' \in [Pairs -> AskType]
    BY ValueFacts DEF Withdraw, IInv, Typed
  <2> QED BY <2>1, <2>2, <2>3 DEF Stored, IInv, Typed
<1>2. OneRowPerId' /\ IdsGiven'
  BY DEF IInv, OneRowPerId, IdsGiven
<1>3. Elsewhere(pairs, codes)
  <2>1. ASSUME NEW k \in Pairs \ pairs
        PROVE  /\ Rows(k)' = Rows(k) /\ asked'[k] = asked[k] /\ (k \in raced <=> k \in raced')
               /\ apps'[k[2]] = apps[k[2]]
    BY <2>1 DEF Rows, Withdraw, Pairs
  <2>2. rowIds' >= rowIds
    BY DEF IInv, Typed
  <2> QED BY <2>1, <2>2 DEF Elsewhere
<1>4. ASSUME NEW k \in pairs PROVE AsAsked(k)'
  <2>1. Rows(k)' = {} /\ asked'[k] = NoAccess
    BY DEF Rows, Withdraw
  <2> QED BY <2>1, Few DEF AsAsked
<1>5. Knows("done", NoReq)' /\ "done" \in Labels /\ NoReq \in Req
  BY NoReqType DEF Ended, Labels, Knows, Own, UpToDate
<1> QED BY <1>1, <1>2, <1>3, <1>4, <1>5, Committed

LEMMA RevokeInv == ASSUME IInv, NEW p \in Procs, NEW k \in Pairs, Revoke(p, k) PROVE IInv'
<1>1. grants' = {g \in grants : g.pair \notin {k}}
  BY DEF Revoke, DeletePair, Rows
<1>2. /\ Withdraw({k}) /\ CommitStep(p, "done", NoReq, {k}, {})
      /\ rowIds' = rowIds /\ appIds' = appIds /\ apps' = apps
  BY DEF Revoke
<1>3. apps' \in [Apps -> Nat]
  BY <1>2 DEF IInv, Typed
<1> QED BY <1>1, <1>2, <1>3, Withdrawn

LEMMA DeleteUserInv == ASSUME IInv, NEW p \in Procs, NEW u \in Users, DeleteUser(p, u) PROVE IInv'
<1> DEFINE keys == {k \in Pairs : k[1] = u}
<1>1. /\ keys \in SUBSET Pairs /\ grants' = {g \in grants : g.pair \notin keys}
      /\ Withdraw(keys) /\ CommitStep(p, "done", NoReq, keys, {})
      /\ rowIds' = rowIds /\ appIds' = appIds /\ apps' = apps
  BY DEF DeleteUser
<1>2. apps' \in [Apps -> Nat]
  BY <1>1 DEF IInv, Typed
<1> QED BY <1>1, <1>2, Withdrawn

LEMMA DropAppInv == ASSUME IInv, NEW p \in Procs, DropApp(p) PROVE IInv'
<1> DEFINE a    == req[p].app
           keys == {k \in Pairs : k[2] = a}
<1>1. a \in Apps
  BY DEF DropApp, IInv, Knows, Own
<1>2. CASE Goto(p, "done")
  BY <1>2, GotoEnd DEF Ended
<1>3. CASE ~Goto(p, "done")
  <2>1. /\ keys \in SUBSET Pairs /\ grants' = {g \in grants : g.pair \notin keys}
        /\ Withdraw(keys) /\ CommitStep(p, "done", NoReq, keys, {a})
        /\ rowIds' = rowIds /\ appIds' = appIds /\ apps' = [apps EXCEPT ![a] = 0]
    BY <1>3 DEF DropApp
  <2>2. apps' \in [Apps -> Nat] /\ \A b \in Apps \ {a} : apps'[b] = apps[b]
    BY <2>1 DEF IInv, Typed
  <2> QED BY <1>1, <2>1, <2>2, Withdrawn
<1> QED BY <1>2, <1>3

LEMMA CreateAppInv == ASSUME IInv, NEW p \in Procs, CreateApp(p) PROVE IInv'
<1> DEFINE a == req[p].app
<1>1. a \in Apps
  BY DEF CreateApp, IInv, Knows, Own
<1>2. CASE Goto(p, "failed")
  BY <1>2, GotoEnd DEF Ended
<1>3. CASE ~Goto(p, "failed")
  <2>1. /\ appIds' = appIds + 1 /\ apps' = [apps EXCEPT ![a] = appIds']
        /\ CommitStep(p, "done", NoReq, {}, {a})
        /\ UNCHANGED <<grants, rowIds, asked, raced>>
    BY <1>3 DEF CreateApp
  <2>2. /\ appIds' \in Nat /\ appIds' # 0 /\ apps' \in [Apps -> Nat] /\ apps'[a] # 0
        /\ \A b \in Apps \ {a} : apps'[b] = apps[b]
    BY <1>1, <2>1 DEF IInv, Typed
  <2>3. Stored' /\ OneRowPerId' /\ IdsGiven'
    BY <2>1, <2>2 DEF IInv, Typed, Stored, OneRowPerId, IdsGiven
  <2>4. ASSUME NEW k \in Pairs PROVE apps[k[2]] # 0 => apps'[k[2]] # 0
    BY <2>2 DEF Pairs
  <2>5. Elsewhere({}, {a})
    BY <2>1, <2>2, <2>4 DEF Elsewhere, Rows, IInv, Typed
  <2>6. Knows("done", NoReq)' /\ "done" \in Labels /\ NoReq \in Req
    BY NoReqType DEF Ended, Labels, Knows, Own, UpToDate
  <2> QED BY <1>1, <2>1, <2>3, <2>5, <2>6, Committed
<1> QED BY <1>2, <1>3

-----------------------------------------------------------------------------
(* The writes of a grant and of an update.                                 *)
LEMMA Writing ==
    ASSUME IInv, NEW p \in Procs, pc[p] = "write"
    PROVE  /\ req[p] \in Req /\ req[p].op \in {"grant", "update"} /\ req[p].pair \in Pairs
           /\ req[p].op = "grant" => req[p].val \in Values
           /\ (req[p].read = {} /\ req[p].op = "grant") \/ \E h \in req[p].read : req[p].read = {h}
           /\ \A h \in req[p].read : /\ h \in RowType /\ h.id <= rowIds
                                     /\ \A g \in grants : g.id = h.id => g.pair = req[p].pair
           /\ ~req[p].missed => req[p].read = Rows(req[p].pair)
BY DEF IInv, Typed, Knows, Own, UpToDate

LEMMA Settled ==
    ASSUME IInv, NEW p \in Procs, NEW k \in Pairs, Settle(p, k), req[p].val \in Changes
    PROVE  /\ asked' \in [Pairs -> AskType] /\ asked'[k] = Assign(asked[k], req[p].val)
           /\ \A j \in Pairs \ {k} : asked'[j] = asked[j] /\ (j \in raced <=> j \in raced')
           /\ k \notin raced' => ~req[p].missed /\ (req[p].op # "grant" => k \notin raced)
<1>1. asked' = [asked EXCEPT ![k] = Assign(asked[k], req[p].val)] /\ asked \in [Pairs -> AskType]
  BY DEF Settle, IInv, Typed
<1>2. Assign(asked[k], req[p].val) \in AskType
  BY <1>1, AssignFacts
<1>3. \A j \in Pairs \ {k} : j \in raced <=> j \in raced'
  BY DEF Settle
<1>4. k \notin raced' => ~req[p].missed /\ (req[p].op # "grant" => k \notin raced)
  BY DEF Settle
<1> QED BY <1>1, <1>2, <1>3, <1>4

LEMMA WriteRowInv == ASSUME IInv, NEW p \in Procs, WriteRow(p) PROVE IInv'
<1>0. PICK r, k : r = req[p] /\ k = r.pair
  OBVIOUS
<1>1. PICK read \in r.read :
        LET new == Assign(read.val, r.val)
            row == {g \in grants : g.id = read.id}
        IN \/ Goto(p, "failed")
           \/ /\ grants' = (grants \ row) \union {Row(g.id, k, Merge(g.val, read.val, new)) : g \in row}
              /\ CommitStep(p, "refresh", r, {k}, {}) /\ Settle(p, k)
              /\ UNCHANGED <<users, apps, appIds, rowIds>>
  BY <1>0 DEF WriteRow
<1> DEFINE new     == Assign(read.val, r.val)
           row     == {g \in grants : g.id = read.id}
           written == {Row(g.id, k, Merge(g.val, read.val, new)) : g \in row}
<1>2. /\ r \in Req /\ r.op \in {"grant", "update"} /\ k \in Pairs
      /\ r.op = "grant" => r.val \in Values
      /\ r.read = {read}
      /\ read \in RowType /\ read.id <= rowIds /\ \A g \in grants : g.id = read.id => g.pair = k
      /\ ~r.missed => Rows(k) = {read}
      /\ r.val \in Changes
  BY <1>0, Writing DEF WriteRow, Req
<1>3. CASE Goto(p, "failed")
  BY <1>3, GotoEnd DEF Ended
<1>4. ASSUME grants' = (grants \ row) \union written,
             CommitStep(p, "refresh", r, {k}, {}), Settle(p, k),
             UNCHANGED <<users, apps, appIds, rowIds>>
      PROVE  IInv'
  <2>1. grants \in SUBSET RowType /\ IsFiniteSet(grants) /\ read.val \in Values /\ read.id \in Nat
    BY <1>2 DEF IInv, Typed, RowType
  <2>2. new \in Values /\ new # NoAccess
    BY <1>2, <2>1, AssignFacts, ValueFacts
  <2>3. row = {} \/ \E g \in grants : row = {g} /\ g.id = read.id
    BY DEF IInv, OneRowPerId
  <2>4. ASSUME NEW g \in written
        PROVE  g \in RowType /\ g.id = read.id /\ g.pair = k /\ row # {}
    <3>1. PICK h \in row : g = Row(h.id, k, Merge(h.val, read.val, new))
      OBVIOUS
    <3>2. h.id = read.id /\ h.val \in Values
      BY <2>1 DEF RowType
    <3>3. Merge(h.val, read.val, new) \in Values
      BY <2>1, <2>2, <3>2, MergeFacts
    <3> QED BY <1>2, <2>1, <3>1, <3>2, <3>3 DEF Row, RowType
  <2>5. written = {} \/ \E x : written = {x}
    BY <2>3
  <2>6. Stored'
    <3>1. IsFiniteSet(grants \ row)
      BY <2>1, FS_Subset
    <3>2. IsFiniteSet(grants')
      <4>1. CASE written = {} BY <1>4, <3>1, <4>1
      <4>2. ASSUME NEW x, written = {x} PROVE IsFiniteSet(grants')
        BY <1>4, <3>1, <4>2, FS_AddElement
      <4> QED BY <2>5, <4>1, <4>2
    <3>3. grants' \in SUBSET RowType
      BY <1>4, <2>1, <2>4
    <3>4. asked' \in [Pairs -> AskType]
      BY <1>2, <1>4, Settled, <1>0
    <3> QED BY <1>4, <3>2, <3>3, <3>4 DEF Stored, IInv, Typed
  <2>7. OneRowPerId'
    <3>1. ASSUME NEW g \in grants \ row PROVE g.id # read.id
      OBVIOUS
    <3>2. ASSUME NEW g \in grants \ row, NEW h \in grants \ row, g.id = h.id PROVE g = h
      BY <3>2 DEF IInv, OneRowPerId
    <3>3. ASSUME NEW g \in written, NEW h \in written PROVE g = h
      BY <2>5
    <3> QED BY <1>4, <2>4, <3>1, <3>2, <3>3 DEF OneRowPerId
  <2>8. IdsGiven'
    BY <1>2, <1>4, <2>4 DEF IInv, IdsGiven
  <2>9. Elsewhere({k}, {})
    <3>1. ASSUME NEW j \in Pairs \ {k} PROVE Rows(j)' = Rows(j)
      BY <1>2, <1>4, <2>4 DEF Rows
    <3>2. ASSUME NEW g \in grants' PROVE \E h \in grants : h.id = g.id /\ h.pair = g.pair
      <4>1. CASE g \in grants BY <4>1
      <4>2. CASE g \in written
        <5>1. PICK h \in row : TRUE
          BY <2>4, <4>2
        <5> QED BY <1>2, <2>4, <4>2, <5>1
      <4> QED BY <1>4, <4>1, <4>2
    <3>3. rowIds' >= rowIds
      BY <1>4 DEF IInv, Typed
    <3> QED BY <1>2, <1>4, <3>1, <3>2, <3>3, <1>0, Settled DEF Elsewhere
  <2>10. ASSUME ~r.missed
         PROVE  Rows(k)' = {Row(read.id, k, new)}
    <3>1. Rows(k) = {read} /\ read \in grants /\ row = {read}
      BY <1>2, <2>3, <2>10 DEF Rows
    <3>2. written = {Row(read.id, k, new)}
      BY <2>1, <2>2, <3>1, MergeFacts
    <3> QED BY <1>4, <2>4, <3>1, <3>2 DEF Rows
  <2>11. ASSUME k \notin raced' PROVE AsAsked(k)'
    <3>1. ~r.missed /\ (r.op # "grant" => k \notin raced)
      BY <1>2, <1>4, <2>11, Settled, <1>0
    <3>2. Rows(k)' = {Row(read.id, k, new)} /\ Row(read.id, k, new).val = new
      BY <2>10, <3>1 DEF Row
    <3>3. asked'[k] = Assign(asked[k], r.val)
      BY <1>2, <1>4, Settled, <1>0
    <3>4. asked'[k] = new
      <4>1. CASE r.op = "grant"
        BY <1>2, <3>3, <4>1, AssignFacts
      <4>2. CASE r.op # "grant"
        <5>1. {g.val : g \in Rows(k)} = {asked[k]} \ {NoAccess} /\ Rows(k) = {read}
          BY <1>2, <3>1, <4>2 DEF IInv, GrantsAsAsked
        <5>2. asked[k] = read.val
          BY <5>1
        <5> QED BY <3>3, <5>2
      <4> QED BY <4>1, <4>2
    <3>5. {g.val : g \in Rows(k)'} = {asked'[k]} \ {NoAccess}
      BY <2>2, <3>2, <3>4
    <3> QED BY <3>2, <3>5, Few DEF AsAsked
  <2>12. Knows("refresh", r)'
    <3>1. ASSUME NEW g \in grants', g.id = read.id PROVE g.pair = k
      BY <1>2, <1>4, <2>4, <3>1
    <3>2. Own("refresh", r)'
      BY <1>0, <1>2, <1>4, <3>1 DEF Own
    <3>3. ~r.missed => \E g \in Rows(k)' : g.id = read.id
      <4>1. Row(read.id, k, new).id = read.id
        BY DEF Row
      <4> QED BY <2>10, <4>1
    <3> QED BY <1>0, <1>2, <3>2, <3>3 DEF Knows, UpToDate
  <2>13. "refresh" \in Labels
    BY DEF Labels
  <2>14. \A j \in {k} : j \notin raced' => AsAsked(j)'
    BY <2>11
  <2>15. {k} \in SUBSET Pairs /\ {} \in SUBSET Apps /\ r \in Req
    BY <1>0, <1>2
  <2> QED BY <1>4, <2>6, <2>7, <2>8, <2>9, <2>12, <2>13, <2>14, <2>15, Committed
<1> QED BY <1>0, <1>1, <1>3, <1>4

LEMMA InsertRowInv == ASSUME IInv, NEW p \in Procs, InsertRow(p) PROVE IInv'
<1>0. PICK r, k, row : r = req[p] /\ k = r.pair /\ row = Row(rowIds + 1, k, r.val)
  OBVIOUS
<1>1. /\ r \in Req /\ r.op = "grant" /\ k \in Pairs /\ r.val \in Values /\ r.read = {}
      /\ ~r.missed => Rows(k) = {}
  BY <1>0, Writing DEF InsertRow
<1>2. CASE Goto(p, "failed")
  BY <1>2, GotoEnd DEF Ended
<1>3. CASE ~Goto(p, "failed")
  <2>1. /\ rowIds' = rowIds + 1 /\ grants' = grants \union {row}
        /\ CommitStep(p, "refresh", [r EXCEPT !.read = {row}], {k}, {}) /\ Settle(p, k)
        /\ UNCHANGED <<apps, appIds>>
    BY <1>0, <1>3 DEF InsertRow
  <2>2. PICK s : s = [r EXCEPT !.read = {row}]
    OBVIOUS
  <2>3. /\ rowIds \in Nat /\ rowIds' \in Nat /\ row \in RowType
        /\ row.id = rowIds + 1 /\ row.pair = k /\ row.val = r.val
    BY <1>0, <1>1, <2>1 DEF IInv, Typed, Row, RowType
  <2>4. s \in Req /\ s.op = r.op /\ s.pair = k /\ s.val = r.val /\ s.missed = r.missed /\ s.read = {row}
    BY <1>0, <1>1, <2>2, <2>3 DEF Req
  <2>5. Stored'
    <3>1. IsFiniteSet(grants') /\ grants' \in SUBSET RowType
      BY <2>1, <2>3, FS_AddElement DEF IInv, Typed
    <3>2. asked' \in [Pairs -> AskType]
      BY <1>0, <1>1, <2>1, Settled, ValueFacts
    <3> QED BY <2>1, <2>3, <3>1, <3>2 DEF Stored, IInv, Typed
  <2>6. \A g \in grants : g.id \in Nat /\ g.id <= rowIds
    BY DEF IInv, IdsGiven, Typed, RowType
  <2>7. OneRowPerId' /\ IdsGiven'
    BY <2>1, <2>3, <2>6 DEF IInv, OneRowPerId, IdsGiven
  <2>8. Elsewhere({k}, {})
    <3>1. ASSUME NEW j \in Pairs \ {k}
          PROVE  Rows(j)' = Rows(j) /\ asked'[j] = asked[j] /\ (j \in raced <=> j \in raced')
      <4>1. asked'[j] = asked[j] /\ (j \in raced <=> j \in raced')
        BY <1>0, <1>1, <2>1, Settled, ValueFacts
      <4> QED BY <2>1, <2>3, <4>1 DEF Rows
    <3>2. rowIds' >= rowIds /\ apps' = apps
      BY <2>1, <2>3
    <3>3. ASSUME NEW g \in grants', g.id <= rowIds PROVE \E h \in grants : h.id = g.id /\ h.pair = g.pair
      BY <2>1, <2>3, <3>3
    <3> QED BY <3>1, <3>2, <3>3 DEF Elsewhere
  <2>9. ASSUME k \notin raced' PROVE AsAsked(k)'
    <3>1. Rows(k) = {} /\ asked'[k] = Assign(asked[k], r.val)
      BY <1>0, <1>1, <2>1, <2>9, Settled, ValueFacts
    <3>2. Rows(k)' = {row}
      BY <2>1, <2>3, <3>1 DEF Rows
    <3>3. asked'[k] = r.val /\ r.val # NoAccess
      BY <1>1, <3>1, AssignFacts, ValueFacts
    <3>4. {g.val : g \in Rows(k)'} = {asked'[k]} \ {NoAccess}
      BY <2>3, <3>2, <3>3
    <3> QED BY <3>2, <3>4, Few DEF AsAsked
  <2>10. Knows("refresh", s)'
    <3>1. row \in Rows(k)'
      BY <2>1, <2>3 DEF Rows
    <3>2. \A g \in grants' : g.id = row.id => g.pair = k
      BY <2>1, <2>3, <2>6
    <3>3. Own("refresh", s)'
      BY <1>1, <2>1, <2>3, <2>4, <3>2 DEF Own
    <3> QED BY <2>4, <3>1, <3>3 DEF Knows, UpToDate
  <2>11. \A j \in {k} : j \notin raced' => AsAsked(j)'
    BY <2>9
  <2>12. {k} \in SUBSET Pairs /\ {} \in SUBSET Apps /\ "refresh" \in Labels
    BY <1>1 DEF Labels
  <2>13. CommitStep(p, "refresh", s, {k}, {})
    BY <2>1, <2>2
  <2> QED BY <2>4, <2>5, <2>7, <2>8, <2>10, <2>11, <2>12, <2>13, Committed
<1> QED BY <1>2, <1>3

-----------------------------------------------------------------------------
LEMMA Inductive == IInv /\ [Next]_vars => IInv'
<1> SUFFICES ASSUME IInv, [Next]_vars PROVE IInv'
  OBVIOUS
<1>1. CASE Tick \/ UNCHANGED vars
  <2>1. UNCHANGED <<store, asked, raced, pc, req>>
    BY <1>1 DEF Tick, vars
  <2>2. Typed' /\ OneRowPerId' /\ IdsGiven' /\ GrantsAsAsked'
    BY <2>1 DEF IInv, Typed, OneRowPerId, IdsGiven, GrantsAsAsked, Rows, store
  <2>3. \A p \in Procs : Knows(pc[p], req[p])'
    BY <2>1 DEF IInv, Knows, Own, UpToDate, Rows, store
  <2> QED BY <2>2, <2>3 DEF IInv
<1>2. ASSUME NEW p \in Procs,
             Look(p) \/ WriteRow(p) \/ InsertRow(p) \/ Refresh(p) \/ CreateApp(p) \/ DropApp(p)
      PROVE  IInv'
  BY <1>2, LookInv, WriteRowInv, InsertRowInv, QuietInv, CreateAppInv, DropAppInv
<1>3. ASSUME NEW p \in Procs, NEW k \in Pairs,
             \/ Revoke(p, k) \/ Check(p, k)
             \/ \E v \in Values : GrantBegin(p, k, v)
             \/ \E v \in Changes : UpdateBegin(p, k, v)
      PROVE  IInv'
  BY <1>3, RevokeInv, QuietInv, GrantBeginInv, UpdateBeginInv
<1>4. ASSUME NEW p \in Procs, NEW a \in Apps, CreateBegin(p, a) \/ DropBegin(p, a)
      PROVE  IInv'
  BY <1>4, CreateBeginInv, DropBeginInv
<1>5. ASSUME NEW p \in Procs, NEW u \in Users, DeleteUser(p, u)
      PROVE  IInv'
  BY <1>5, DeleteUserInv
<1> QED BY <1>1, <1>2, <1>3, <1>4, <1>5 DEF Next

LEMMA Initially == Init => IInv
<1> SUFFICES ASSUME Init PROVE IInv
  OBVIOUS
<1>1. Typed
  BY NoReqType, ValueFacts, FS_EmptySet DEF Init, Typed, Labels, Ended
<1>2. OneRowPerId /\ IdsGiven
  BY DEF Init, OneRowPerId, IdsGiven
<1>3. GrantsAsAsked
  <2>1. ASSUME NEW k \in Pairs PROVE Rows(k) = {} /\ asked[k] = NoAccess
    BY DEF Init, Rows
  <2> QED BY <2>1, Few DEF GrantsAsAsked
<1>4. \A p \in Procs : Knows(pc[p], req[p])
  BY NoReqType DEF Init, Ended
<1> QED BY <1>1, <1>2, <1>3, <1>4 DEF IInv

(* For every number of users, applications and administrators at a time:   *)
(* a pair last written on an up-to-date read has exactly the row, or the   *)
(* absence of a row, that the last request about it asked for.             *)
THEOREM StoredAsAsked == Spec => []GrantsAsAsked
<1>1. IInv => GrantsAsAsked
  BY DEF IInv
<1> QED BY <1>1, Initially, Inductive, PTL DEF Spec

(* The check made by a login or a request for the user's rights admits     *)
(* exactly whom the last request allows, at every time, and does not fail. *)
THEOREM CheckedAsAsked == Spec => AccessAsAsked
<1>1. ASSUME IInv, NEW p \in Procs, NEW k \in Pairs, Check(p, k), k \notin raced
      PROVE  pc'[p] = IF Allowed(asked[k]) THEN "admitted" ELSE "refused"
  <2>1. /\ {g.val : g \in Rows(k)} = {asked[k]} \ {NoAccess} /\ Cardinality(Rows(k)) <= 1
        /\ IsFiniteSet(grants) /\ asked[k] \in AskType /\ grants \subseteq RowType
    BY <1>1 DEF IInv, Typed, GrantsAsAsked
  <2>2. /\ ~(Cardinality(Rows(k)) > 1)
        /\ Rows(k) = {} \/ \E g : Rows(k) = {g}
    BY <2>1, RowsCounted
  <2>3. (\E g \in Rows(k) : Admits(g.val)) <=> Allowed(asked[k])
    <3>1. CASE Rows(k) = {}
      <4>1. asked[k] = NoAccess
        BY <2>1, <3>1
      <4> QED BY <3>1, <4>1 DEF Allowed, NoAccess
    <3>2. ASSUME NEW g, Rows(k) = {g} PROVE Admits(g.val) <=> Allowed(asked[k])
      <4>1. g.val = asked[k] /\ g.val \in Values
        BY <2>1, <3>2 DEF Rows, RowType
      <4> QED BY <4>1, ValueFacts DEF Admits, Allowed
    <3> QED BY <2>2, <3>1, <3>2
  <2>4. Goto(p, IF \E g \in Rows(k) : Admits(g.val) THEN "admitted" ELSE "refused")
    BY <1>1, <2>2 DEF Check
  <2>5. pc'[p] = IF \E g \in Rows(k) : Admits(g.val) THEN "admitted" ELSE "refused"
    BY <1>1, <2>4 DEF Goto, Step, IInv, Typed
  <2> QED BY <2>3, <2>5
<1>2. IInv => \A p \in Procs, k \in Pairs :
        Check(p, k) /\ k \notin raced
          => pc'[p] = IF Allowed(asked[k]) THEN "admitted" ELSE "refused"
  BY <1>1
<1> QED BY <1>2, Initially, Inductive, PTL DEF Spec, AccessAsAsked

(* A request changes its own label only; one that ends with an error after *)
(* its first step was at one of these.                                     *)
LEMMA OwnLabel ==
    ASSUME IInv, Next, NEW p \in Procs, pc[p] \notin Ended, pc'[p] # pc[p]
    PROVE  \/ Look(p) \/ WriteRow(p) \/ InsertRow(p) \/ Refresh(p) \/ CreateApp(p) \/ DropApp(p)
<1>1. ASSUME NEW q \in Procs, NEW l, pc' = [pc EXCEPT ![q] = l] PROVE q = p
  BY <1>1 DEF IInv, Typed
<1>2. ~Tick
  BY DEF Tick
<1>3. ASSUME NEW q \in Procs,
             \/ Look(q) \/ WriteRow(q) \/ InsertRow(q) \/ Refresh(q) \/ CreateApp(q) \/ DropApp(q)
      PROVE  q = p
  <2>1. \E l : pc' = [pc EXCEPT ![q] = l]
    BY <1>3 DEF Look, WriteRow, InsertRow, Refresh, CreateApp, DropApp, Goto, Step, CommitStep
  <2> QED BY <1>1, <2>1
<1>4. ASSUME NEW q \in Procs,
             \/ \E k \in Pairs : Revoke(q, k) \/ Check(q, k)
             \/ \E k \in Pairs, v \in Values : GrantBegin(q, k, v)
             \/ \E k \in Pairs, v \in Changes : UpdateBegin(q, k, v)
             \/ \E a \in Apps : CreateBegin(q, a) \/ DropBegin(q, a)
             \/ \E u \in Users : DeleteUser(q, u)
      PROVE  FALSE
  <2>1. pc[q] \in Ended
    BY <1>4 DEF Revoke, Check, GrantBegin, UpdateBegin, CreateBegin, DropBegin, DeleteUser, Begin
  <2>2. \E l : pc' = [pc EXCEPT ![q] = l]
    BY <1>4 DEF Revoke, Check, GrantBegin, UpdateBegin, CreateBegin, DropBegin, DeleteUser, Begin,
                Goto, Step, CommitStep
  <2> QED BY <1>1, <2>1, <2>2
<1> QED BY <1>2, <1>3, <1>4 DEF Next

Cause(p) == \/ req[p].missed \/ req[p].pair \in raced
            \/ req[p].op = "grant" /\ req[p].pair[1] \notin users

(* However many requests overlap: a grant, an update, a creation or a      *)
(* deletion that has begun ends in a server error only for the causes that *)
(* FailsForCause names.                                                    *)
THEOREM FailuresHaveCause == Spec => FailsForCause
<1>1. ASSUME IInv, Next, NEW p \in Procs, pc[p] \notin Ended, pc'[p] = "failed", ~Cause(p)
      PROVE  FALSE
  <2>1. pc'[p] # pc[p] /\ pc \in [Procs -> Labels] /\ Knows(pc[p], req[p])
    BY <1>1 DEF Ended, IInv, Typed
  <2>2. ~req[p].missed /\ Own(pc[p], req[p]) /\ UpToDate(pc[p], req[p])
    BY <1>1, <2>1 DEF Knows, Cause
  <2>3. CASE Look(p)
    <3>1. Cardinality(Rows(req[p].pair)) > 1
      BY <1>1, <2>1, <2>3 DEF Look, Goto, Step
    <3>2. req[p].pair \in Pairs \ raced
      BY <1>1, <2>2, <2>3 DEF Look, Own, Cause
    <3>3. Cardinality(Rows(req[p].pair)) <= 1 /\ IsFiniteSet(grants)
      BY <1>1, <3>2 DEF IInv, Typed, GrantsAsAsked
    <3>4. Cardinality(Rows(req[p].pair)) \in Nat
      BY <3>3, RowsCounted
    <3> QED BY <3>1, <3>3, <3>4
  <2>4. CASE WriteRow(p)
    <3>1. PICK read \in req[p].read : {g \in grants : g.id = read.id} = {}
      BY <1>1, <2>1, <2>4 DEF WriteRow, Goto, Step, CommitStep
    <3>2. read \in grants
      BY <2>2, <2>4, <3>1 DEF WriteRow, UpToDate, Rows
    <3> QED BY <3>1, <3>2
  <2>5. CASE InsertRow(p)
    <3>1. req[p].pair[1] \notin users \/ apps[req[p].pair[2]] = 0
      BY <1>1, <2>1, <2>5 DEF InsertRow, Goto, Step, CommitStep
    <3>2. req[p].op = "grant"
      BY <2>2, <2>5 DEF InsertRow, Own
    <3> QED BY <1>1, <2>2, <2>5, <3>1, <3>2 DEF InsertRow, UpToDate, Cause
  <2>6. CASE Refresh(p)
    <3>1. ~\E g \in grants, h \in req[p].read : g.id = h.id
      BY <1>1, <2>1, <2>6 DEF Refresh, Goto, Step
    <3> QED BY <2>2, <2>6, <3>1 DEF Refresh, UpToDate, Rows
  <2>7. CASE CreateApp(p)
    <3>1. apps[req[p].app] # 0
      BY <1>1, <2>1, <2>7 DEF CreateApp, Goto, Step, CommitStep
    <3> QED BY <2>2, <2>7, <3>1 DEF CreateApp, UpToDate
  <2>8. CASE DropApp(p)
    BY <1>1, <2>1, <2>8 DEF DropApp, Goto, Step, CommitStep
  <2> QED BY <1>1, <2>1, <2>3, <2>4, <2>5, <2>6, <2>7, <2>8, OwnLabel
<1>2. IInv /\ [Next]_vars =>
        [\A p \in Procs :
           pc[p] \notin Ended /\ pc'[p] = "failed"
             => \/ req[p].missed \/ req[p].pair \in raced
                \/ req[p].op = "grant" /\ req[p].pair[1] \notin users]_vars
  BY <1>1 DEF Cause, vars
<1> QED BY <1>2, Initially, Inductive, PTL DEF Spec, FailsForCause
=============================================================================
