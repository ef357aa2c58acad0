--------------------------- MODULE MenuTree_proofs ---------------------------
(***************************************************************************)
(* Proofs about MenuTree, for any number of menus and requests in any      *)
(* interleaving: the types, the foreign key, and, as long as no create or  *)
(* move comes between check and write of another move, acyclicity and what *)
(* follows from it.                                                        *)
(***************************************************************************)
EXTENDS MenuTree, TLAPS

-----------------------------------------------------------------------------
(* Lemmas about trees, without reference to the requests. *)

(* A node is in its own subtree, and the subtree is closed downwards.      *)
LEMMA BelowClosed ==
    ASSUME NEW t, NEW m \in Stored(t)
    PROVE  m \in Below(t, m) /\ Closed(t, Below(t, m)) /\ Below(t, m) \subseteq Stored(t)
<1>1. m \in Below(t, m) /\ Below(t, m) \subseteq Stored(t)
  BY DEF Below
<1>2. ASSUME NEW c \in Stored(t), t[c].parent \in Below(t, m)
      PROVE  c \in Below(t, m)
  <2>1. ASSUME NEW S \in SUBSET Stored(t), m \in S, Closed(t, S)
        PROVE  c \in S
    <3>1. t[c].parent \in S
      BY <1>2, <2>1 DEF Below
    <3> QED BY <2>1, <3>1 DEF Closed, ChildrenOf
  <2> QED BY <2>1 DEF Below
<1> QED BY <1>1, <1>2 DEF Closed, ChildrenOf

(* The move validate_menu_relation allows: a node may go below any node    *)
(* that is not in its own subtree.                                         *)
LEMMA MoveKeepsForest ==
    ASSUME NEW t \in [Menus -> Row], Forest(t), NEW m \in Stored(t),
           NEW parent \in Menus \union {NoMenu}, parent \notin Below(t, m)
    PROVE  Forest([t EXCEPT ![m].parent = parent])
<1> DEFINE u == [t EXCEPT ![m].parent = parent]
           D == Below(t, m)
<1>1. /\ Stored(u) = Stored(t)
      /\ u[m].parent = parent
      /\ \A c \in Stored(t) \ {m} : u[c].parent = t[c].parent
  BY DEF Stored, Row
<1>2. m \in D /\ Closed(t, D)
  BY BelowClosed
<1>3. ASSUME NEW S \in SUBSET Stored(u), S # {}, \A c \in S : u[c].parent \in S
      PROVE  FALSE
  <2>1. CASE m \notin S
    <3>1. \A c \in S : t[c].parent \in S
      BY <1>1, <1>3, <2>1
    <3> QED BY <1>1, <1>3, <3>1 DEF Forest
  <2>2. CASE m \in S
    <3>1. parent \in S \ D
      BY <1>1, <1>3, <2>2
    <3>2. ASSUME NEW c \in S \ D
          PROVE  t[c].parent \in S \ D
      <4>1. c # m /\ c \in Stored(t)
        BY <1>1, <1>2
      <4>2. t[c].parent \in S
        BY <1>1, <1>3, <4>1
      <4>3. t[c].parent \notin D
        BY <1>2, <4>1 DEF Closed, ChildrenOf
      <4> QED BY <4>2, <4>3
    <3>3. S \ D \in SUBSET Stored(t) /\ S \ D # {}
      BY <1>1, <3>1
    <3> QED BY <3>2, <3>3 DEF Forest
  <2> QED BY <2>1, <2>2
<1> HIDE DEF u
<1>4. Forest(u)
  BY <1>3 DEF Forest
<1> QED BY <1>4 DEF u

(* The recursive query returns on a forest: if the walk down from m met m  *)
(* again, everyone in its subtree would have a parent there.               *)
LEMMA ForestReturns ==
    ASSUME NEW t, Forest(t), NEW m \in Menus
    PROVE  Returns(t, m)
<1> DEFINE D == Below(t, m)
<1> SUFFICES ASSUME m \in Stored(t), t[m].parent \in D PROVE FALSE
  BY DEF Returns
<1>1. m \in D /\ Closed(t, D) /\ D \subseteq Stored(t)
  BY BelowClosed
<1>2. ASSUME NEW c \in D, t[c].parent \notin D
      PROVE  FALSE
  <2>1. c # m
    BY <1>2
  <2>2. m \in D \ {c} /\ D \ {c} \in SUBSET Stored(t)
    BY <1>1, <2>1
  <2>3. Closed(t, D \ {c})
    BY <1>1, <1>2 DEF Closed, ChildrenOf
  <2>4. c \in D \ {c}
    BY <2>2, <2>3 DEF Below
  <2> QED BY <2>4
<1> HIDE DEF D
<1> QED BY <1>1, <1>2 DEF Forest

(* Removing rows takes nothing into a subtree.                             *)
LEMMA BelowShrinks ==
    ASSUME NEW t, NEW u, Stored(u) \subseteq Stored(t),
           \A c \in Stored(u) : u[c].parent = t[c].parent,
           NEW m \in Stored(u)
    PROVE  Below(u, m) \subseteq Below(t, m)
<1> SUFFICES ASSUME NEW c \in Below(u, m), NEW S \in SUBSET Stored(t), m \in S, Closed(t, S)
             PROVE  c \in S
  BY DEF Below
<1>1. m \in S \intersect Stored(u) /\ S \intersect Stored(u) \in SUBSET Stored(u)
  OBVIOUS
<1>2. Closed(u, S \intersect Stored(u))
  BY DEF Closed, ChildrenOf
<1>3. c \in S \intersect Stored(u)
  BY <1>1, <1>2 DEF Below
<1> QED BY <1>3

(* Whatever is visible of a forest hangs below a visible root.             *)
LEMMA ForestIsShown ==
    ASSUME NEW t, Forest(t), NEW V \in SUBSET Stored(t)
    PROVE  Shown(t, V) = V
<1>1. ASSUME NEW c \in V, NEW S \in SUBSET V, Roots(t, V) \subseteq S,
             \A x \in V : t[x].parent \in S => x \in S, c \notin S
      PROVE  FALSE
  <2>1. V \ S # {} /\ V \ S \in SUBSET Stored(t)
    BY <1>1
  <2>2. PICK x \in V \ S : t[x].parent \notin V \ S
    BY <2>1 DEF Forest
  <2>3. t[x].parent \in V
    BY <1>1, <2>2 DEF Roots
  <2> QED BY <1>1, <2>2, <2>3
<1> QED BY <1>1 DEF Shown

-----------------------------------------------------------------------------
(* The empty table and idle requests have their types.                     *)
LEMMA InitType == Init => TypeOK
<1> SUFFICES ASSUME Init PROVE TypeOK
  OBVIOUS
<1>1. raced \in BOOLEAN
  BY Zenon DEF Init
<1>2. /\ menus \in [Menus -> Row]
      /\ pc \in [Procs -> {"idle", "check", "write", "delete", "hung"}]
      /\ req \in [Procs -> Req]
  BY DEF Init, Row, Req, NoReq
<1> QED BY <1>1, <1>2 DEF TypeOK

(* A race is never forgotten, and the ghost stays Boolean.                 *)
LEMMA RacedStep == TypeOK /\ [Next]_vars => raced' \in BOOLEAN /\ (raced => raced')
<1> SUFFICES ASSUME TypeOK, [Next]_vars PROVE raced' \in BOOLEAN /\ (raced => raced')
  OBVIOUS
<1>1. raced \in BOOLEAN
  BY DEF TypeOK
<1>2. ASSUME NEW others, Race(others) PROVE raced' \in BOOLEAN /\ (raced => raced')
  BY <1>2 DEF Race
<1>3. CASE UNCHANGED raced
  BY <1>1, <1>3
<1> QED BY <1>2, <1>3
        DEF Next, Create, CreateMenu, Arrive, Resume, UpdateRead, UpdateCheck, UpdateWrite,
            DeleteCheck, DeleteWrite, Fail, vars

(* Every step keeps the types.                                             *)
LEMMA TypeStep == TypeOK /\ [Next]_vars => TypeOK'
<1> DEFINE TableOK == /\ menus \in [Menus -> Row]
                      /\ pc \in [Procs -> {"idle", "check", "write", "delete", "hung"}]
                      /\ req \in [Procs -> Req]
<1> SUFFICES ASSUME TypeOK, [Next]_vars PROVE TableOK'
  BY RacedStep DEF TypeOK
<1> USE DEF TypeOK
<1>1. CASE Create
  BY <1>1 DEF Create, CreateMenu, Row, Stored
<1>2. ASSUME NEW p \in Procs, NEW m \in Menus, NEW given \in Menus \union {NoMenu, Unset},
             UpdateRead(p, m, given)
      PROVE  TableOK'
  <2>1. [menu |-> m, given |-> given, seen |-> menus[m].parent] \in Req
    BY DEF Row, Req
  <2> QED BY <1>2, <2>1 DEF UpdateRead, Start
<1>3. ASSUME NEW p \in Procs, NEW m \in Menus, DeleteCheck(p, m)
      PROVE  TableOK'
  <2>1. [NoReq EXCEPT !.menu = m] \in Req
    BY DEF NoReq, Req
  <2> QED BY <1>3, <2>1 DEF DeleteCheck, Start
<1>4. ASSUME NEW p \in Procs, UpdateCheck(p) PROVE TableOK'
  BY <1>4 DEF UpdateCheck, Goto, End, Start, NoReq, Req
<1>5. ASSUME NEW p \in Procs, UpdateWrite(p) PROVE TableOK'
  <2>1. NoReq \in Req
    BY DEF NoReq, Req
  <2>2. req[p] \in Req /\ pc' \in [Procs -> {"idle", "check", "write", "delete", "hung"}]
        /\ req' \in [Procs -> Req]
    BY <1>5, <2>1 DEF UpdateWrite, End, Start
  <2>3. NewParent(req[p]) \in Menus \union {NoMenu} \/ NewParent(req[p]) = req[p].seen
    BY <2>2, MenuAssumption DEF NewParent, Req
  <2>4. menus' \in [Menus -> Row]
    BY <1>5, <2>2, <2>3 DEF UpdateWrite, Row, Stored
  <2> QED BY <2>2, <2>4
<1>6. ASSUME NEW p \in Procs, DeleteWrite(p) PROVE TableOK'
  BY <1>6 DEF DeleteWrite, End, Start, NoReq, Req, Row
<1>7. ASSUME NEW p \in Procs, Fail(p) PROVE TableOK'
  BY <1>7 DEF Fail, End, Start, NoReq, Req
<1>8. CASE UNCHANGED vars
  BY <1>8 DEF vars
<1> QED BY <1>1, <1>2, <1>3, <1>4, <1>5, <1>6, <1>7, <1>8 DEF Next, Arrive, Resume

(* Type correctness.                                                       *)
THEOREM TypeCorrect == Spec => []TypeOK
  BY InitType, TypeStep, PTL DEF Spec

(* The foreign key keeps every parent stored: a move needs a stored parent *)
(* and a delete a row without children, whenever the request checked.      *)
LEMMA ParentsStep == TypeOK /\ ParentsStored /\ [Next]_vars => ParentsStored'
<1> SUFFICES ASSUME TypeOK, ParentsStored, [Next]_vars PROVE ParentsStored'
  OBVIOUS
<1> USE DEF TypeOK, ParentsStored
<1>1. CASE Create
  BY <1>1 DEF Create, CreateMenu, Stored, Row
<1>2. ASSUME NEW p \in Procs, UpdateWrite(p) PROVE ParentsStored'
  <2>1. CASE menus' = menus
    BY <2>1 DEF Stored
  <2>2. CASE /\ req[p].menu \in Stored(menus)
             /\ NewParent(req[p]) # req[p].seen
             /\ NewParent(req[p]) \in Menus => NewParent(req[p]) \in Stored(menus)
             /\ menus' = [menus EXCEPT ![req[p].menu].parent = NewParent(req[p])]
    <3>1. NewParent(req[p]) \in Menus \union {NoMenu}
      BY <2>2 DEF NewParent, Req
    <3>2. Stored(menus)' = Stored(menus)
      BY <2>2 DEF Stored, Row
    <3>3. ASSUME NEW m \in Stored(menus), menus'[m].parent # NoMenu
          PROVE  menus'[m].parent \in Stored(menus)
      <4>1. CASE m = req[p].menu
        <5>1. menus'[m].parent = NewParent(req[p])
          BY <2>2, <4>1 DEF Stored, Row
        <5> QED BY <2>2, <3>1, <3>3, <5>1
      <4>2. CASE m # req[p].menu
        BY <2>2, <3>3, <4>2 DEF Stored, Row
      <4> QED BY <4>1, <4>2
    <3> QED BY <3>2, <3>3
  <2> QED BY <1>2, <2>1, <2>2 DEF UpdateWrite
<1>3. ASSUME NEW p \in Procs, DeleteWrite(p) PROVE ParentsStored'
  <2>1. CASE menus' = menus
    BY <2>1 DEF Stored
  <2>2. CASE /\ Deletable(menus, req[p].menu)
             /\ menus' = [menus EXCEPT ![req[p].menu].status = "deleted"]
    <3>1. \A m \in Stored(menus)' : m \in Stored(menus) /\ menus'[m].parent = menus[m].parent
      BY <2>2 DEF Stored, Row
    <3>2. \A m \in Stored(menus) : m # req[p].menu => m \in Stored(menus)'
      BY <2>2 DEF Stored, Row
    <3>3. \A m \in Stored(menus) : menus[m].parent # req[p].menu
      BY <2>2 DEF Deletable, ChildrenOf
    <3> QED BY <3>1, <3>2, <3>3
  <2> QED BY <1>3, <2>1, <2>2 DEF DeleteWrite
<1>4. CASE menus' = menus
  BY <1>4 DEF Stored
<1> QED BY <1>1, <1>2, <1>3, <1>4
      DEF Next, Arrive, Resume, Fail, UpdateRead, UpdateCheck, DeleteCheck, vars

(* No menu is left below a deleted parent.                                 *)
THEOREM NoOrphans == Spec => []ParentsStored
<1>1. Init => ParentsStored
  BY DEF Init, ParentsStored, Stored
<1> QED BY <1>1, InitType, TypeStep, ParentsStep, PTL DEF Spec

-----------------------------------------------------------------------------
(* Acyclicity is not inductive: the parent a request is about to write     *)
(* must still lie outside the subtree it moves.  Only a create or a move   *)
(* by another request can end that, and then raced is set; a delete makes  *)
(* subtrees smaller.                                                       *)
Checked == \A p \in Procs :
               pc[p] = "write" => NewParent(req[p]) \notin Descendants(menus, req[p].menu)
NoneHung == \A p \in Procs : pc[p] # "hung"
UnracedInv == ~raced => Forest(menus) /\ Checked /\ NoneHung
MenuInv == TypeOK /\ ParentsStored /\ UnracedInv

(* What a move writes is what was validated, or no parent at all.          *)
LEMMA NewParentChecked ==
    ASSUME NEW r \in Req
    PROVE  NewParent(r) = Target(r) \/ NewParent(r) = NoMenu
  BY DEF NewParent, Target, Req

(* None is no menu, so it is in no subtree.                                *)
LEMMA NoMenuBelow == \A m : NoMenu \notin Descendants(menus, m)
  BY MenuAssumption DEF Descendants, Below, Stored

(* The invariant holds initially.                                          *)
LEMMA MenuInit == Init => MenuInv
<1> SUFFICES ASSUME Init PROVE MenuInv
  OBVIOUS
<1>1. Stored(menus) = {} /\ \A p \in Procs : pc[p] = "idle"
  BY DEF Init, Stored
<1>2. Forest(menus) /\ ParentsStored
  BY <1>1 DEF Forest, ParentsStored
<1> QED BY <1>1, <1>2, InitType DEF MenuInv, UnracedInv, Checked, NoneHung

(* A stored menu added as a leaf keeps the forest.                         *)
LEMMA CreateKeepsForest ==
    ASSUME MenuInv, Forest(menus), NEW m \in Menus, NEW parent \in Menus \union {NoMenu},
           CreateMenu(m, parent)
    PROVE  Forest(menus')
<1>1. /\ m \notin Stored(menus) /\ Stored(menus') = Stored(menus) \union {m}
      /\ menus'[m].parent = parent /\ (parent # NoMenu => parent \in Stored(menus))
      /\ \A c \in Stored(menus) : menus'[c].parent = menus[c].parent
  BY DEF MenuInv, TypeOK, CreateMenu, Stored, Row
<1>2. ASSUME NEW S \in SUBSET Stored(menus'), S # {}, \A c \in S : menus'[c].parent \in S
      PROVE  FALSE
  <2>1. \A c \in Stored(menus) : menus[c].parent # m
    BY <1>1, MenuAssumption DEF MenuInv, ParentsStored
  <2>2. S \ {m} # {} /\ S \ {m} \in SUBSET Stored(menus)
    BY <1>1, <1>2, MenuAssumption
  <2>3. \A c \in S \ {m} : menus[c].parent \in S \ {m}
    BY <1>1, <1>2, <2>1, <2>2
  <2> QED BY <2>2, <2>3 DEF Forest
<1> QED BY <1>2 DEF Forest

(* A create or a move that changes the table and races with nobody leaves  *)
(* no other request between check and write.                               *)
LEMMA NoneWaits ==
    ASSUME NEW others \in SUBSET Procs, Race(others), ~raced'
    PROVE  \A q \in others : pc[q] # "write"
  BY DEF Race

(* Creating keeps the conditional invariant.                               *)
LEMMA CreateStep == MenuInv /\ Create => UnracedInv'
<1> SUFFICES ASSUME MenuInv, Create, ~raced'
             PROVE  Forest(menus') /\ Checked' /\ NoneHung'
  BY DEF UnracedInv
<1>1. PICK m \in Menus, parent \in Menus \union {NoMenu} : CreateMenu(m, parent)
  BY DEF Create
<1>2. ~raced /\ pc' = pc /\ \A q \in Procs : pc[q] # "write"
  BY <1>1, NoneWaits DEF CreateMenu, Race
<1> QED BY <1>1, <1>2, CreateKeepsForest DEF MenuInv, UnracedInv, Checked, NoneHung

(* Writing a move keeps it: what is written was checked, and nobody else   *)
(* is waiting to write.                                                    *)
LEMMA UpdateWriteStep ==
    ASSUME MenuInv, NEW p \in Procs, UpdateWrite(p)
    PROVE  UnracedInv'
<1> SUFFICES ASSUME ~raced'
             PROVE  Forest(menus') /\ Checked' /\ NoneHung'
  BY DEF UnracedInv
<1> DEFINE r == req[p]
<1>1. r \in Req /\ pc' = [pc EXCEPT ![p] = "idle"] /\ req' = [req EXCEPT ![p] = NoReq]
      /\ pc[p] = "write"
  BY DEF MenuInv, TypeOK, UpdateWrite, End, Start
<1>2. ~raced
  BY DEF UpdateWrite, Race
<1>3. Forest(menus) /\ Checked /\ NoneHung
  BY <1>2 DEF MenuInv, UnracedInv
<1>4. \A q \in Procs : pc'[q] # "hung" /\ (q # p => pc'[q] = pc[q] /\ req'[q] = req[q])
                      /\ pc'[p] = "idle"
  BY <1>1, <1>3 DEF MenuInv, TypeOK, NoneHung
<1>5. CASE menus' = menus
  BY <1>3, <1>4, <1>5 DEF Checked, NoneHung
<1>6. CASE /\ NewParent(r) # r.seen /\ r.menu \in Stored(menus)
           /\ menus' = [menus EXCEPT ![r.menu].parent = NewParent(r)]
           /\ Race(Procs \ {p})
  <2>1. NewParent(r) \in Menus \union {NoMenu}
    BY <1>1, <1>6 DEF NewParent, Req
  <2>2. NewParent(r) \notin Below(menus, r.menu)
    BY <1>1, <1>3, <1>6 DEF Checked, Descendants
  <2>3. menus \in [Menus -> Row]
    BY DEF MenuInv, TypeOK
  <2>4. Forest(menus')
    <3> HIDE DEF r
    <3> QED BY <1>3, <1>6, <2>1, <2>2, <2>3, MoveKeepsForest
  <2>5. \A q \in Procs \ {p} : pc[q] # "write"
    BY <1>6, NoneWaits
  <2> QED BY <1>4, <2>4, <2>5 DEF Checked, NoneHung
<1> QED BY <1>5, <1>6 DEF UpdateWrite

(* Deleting a leaf keeps it.                                               *)
LEMMA DeleteWriteStep ==
    ASSUME MenuInv, NEW p \in Procs, DeleteWrite(p)
    PROVE  UnracedInv'
<1> SUFFICES ASSUME ~raced
             PROVE  Forest(menus') /\ Checked' /\ NoneHung'
  BY DEF UnracedInv, DeleteWrite
<1>1. Forest(menus) /\ Checked /\ NoneHung
  BY DEF MenuInv, UnracedInv
<1>2. Stored(menus') \subseteq Stored(menus)
      /\ \A c \in Stored(menus') : menus'[c].parent = menus[c].parent
  BY DEF MenuInv, TypeOK, DeleteWrite, Deletable, Stored, Row
<1>3. Forest(menus')
  BY <1>1, <1>2 DEF Forest
<1>4. \A q \in Procs : pc'[q] # "idle" => pc'[q] = pc[q] /\ req'[q] = req[q]
  BY DEF MenuInv, TypeOK, DeleteWrite, End, Start
<1>5. \A m : Descendants(menus', m) \subseteq Descendants(menus, m)
  BY <1>2, BelowShrinks DEF Descendants
<1>6. Checked'
  BY <1>1, <1>4, <1>5 DEF Checked
<1> QED BY <1>1, <1>3, <1>4, <1>6 DEF NoneHung

(* The steps that write no row: a query returns on a forest, and a move    *)
(* goes on to its write only when its target is outside the subtree.       *)
LEMMA QueryStep ==
    ASSUME MenuInv, NEW p \in Procs, Arrive(p) \/ UpdateCheck(p) \/ Fail(p)
    PROVE  UnracedInv'
<1>0. raced' = raced
  BY Zenon DEF Arrive, UpdateRead, UpdateCheck, DeleteCheck, Fail
<1> SUFFICES ASSUME ~raced
             PROVE  Forest(menus') /\ Checked' /\ NoneHung'
  BY <1>0 DEF UnracedInv
<1>1. Forest(menus) /\ Checked /\ NoneHung
  BY DEF MenuInv, UnracedInv
<1>2. menus' = menus
  BY DEF Arrive, UpdateRead, UpdateCheck, DeleteCheck, Fail
<1>3. \A m \in Menus : Returns(menus, m)
  BY <1>1, ForestReturns
<1>4. \A q \in Procs \ {p} : pc'[q] = pc[q] /\ req'[q] = req[q]
  BY DEF MenuInv, TypeOK, Arrive, UpdateRead, UpdateCheck, DeleteCheck, Fail, Start, End, Goto
<1>5. SUFFICES /\ pc'[p] # "hung"
               /\ pc'[p] = "write" => NewParent(req'[p]) \notin Descendants(menus, req'[p].menu)
  BY <1>1, <1>2, <1>4 DEF Checked, NoneHung
<1>6. CASE Fail(p)
  BY <1>6 DEF Fail, End, Start, MenuInv, TypeOK
<1>7. ASSUME NEW m \in Menus, DeleteCheck(p, m)
      PROVE  pc'[p] = "delete"
  BY <1>3, <1>7 DEF DeleteCheck, Start, MenuInv, TypeOK
<1>8. CASE UpdateCheck(p)
  <2>1. req[p] \in Req /\ pc[p] = "check"
    BY <1>8 DEF MenuInv, TypeOK, UpdateCheck
  <2>2. Returns(menus, req[p].menu)
    <3>1. CASE req[p].menu \in Menus
      BY <1>3, <3>1
    <3>2. CASE req[p].menu \notin Menus
      BY <3>2 DEF Returns, Stored
    <3> QED BY <3>1, <3>2
  <2>3. CASE ValidRelation(req[p].menu, Target(req[p]), Descendants(menus, req[p].menu))
    <3>1. pc'[p] = "write" /\ req'[p] = req[p]
      BY <1>8, <2>2, <2>3 DEF UpdateCheck, Goto, MenuInv, TypeOK
    <3>2. Target(req[p]) \notin Descendants(menus, req[p].menu)
      BY <2>3 DEF ValidRelation
    <3> QED BY <2>1, <3>1, <3>2, NewParentChecked, NoMenuBelow
  <2>4. CASE ~ValidRelation(req[p].menu, Target(req[p]), Descendants(menus, req[p].menu))
    BY <1>8, <2>2, <2>4 DEF UpdateCheck, End, Start, MenuInv, TypeOK
  <2> QED BY <2>3, <2>4
<1>9. ASSUME NEW m \in Menus, NEW given \in Menus \union {NoMenu, Unset},
             UpdateRead(p, m, given)
      PROVE  /\ pc'[p] # "hung"
             /\ pc'[p] = "write" => NewParent(req'[p]) \notin Descendants(menus, req'[p].menu)
  <2> DEFINE r == [menu |-> m, given |-> given, seen |-> menus[m].parent]
  <2>1. r \in Req
    BY DEF MenuInv, TypeOK, Row, Req
  <2>2. req'[p] = r /\ pc'[p] = IF Target(r) = NoMenu THEN "write" ELSE "check"
    BY <1>9 DEF UpdateRead, Start, MenuInv, TypeOK
  <2> HIDE DEF r
  <2>3. pc'[p] = "write" => NewParent(r) = NoMenu
    BY <2>1, <2>2, NewParentChecked
  <2> QED BY <2>2, <2>3, NoMenuBelow
<1> QED BY <1>6, <1>7, <1>8, <1>9 DEF Arrive

(* The invariant is inductive.                                             *)
LEMMA MenuStep == MenuInv /\ [Next]_vars => MenuInv'
<1> SUFFICES ASSUME MenuInv, [Next]_vars PROVE MenuInv'
  OBVIOUS
<1>1. TypeOK' /\ ParentsStored'
  BY TypeStep, ParentsStep DEF MenuInv
<1>2. UnracedInv'
  <2>1. CASE UNCHANGED vars
    <3>1. menus' = menus /\ pc' = pc /\ req' = req /\ raced' = raced
      BY <2>1 DEF vars
    <3>2. ~raced' => Forest(menus') /\ Checked /\ NoneHung
      BY <3>1 DEF MenuInv, UnracedInv
    <3> QED BY <3>1, <3>2 DEF UnracedInv, Checked, NoneHung
  <2> QED BY <2>1, CreateStep, UpdateWriteStep, DeleteWriteStep, QueryStep DEF Next, Resume
<1> QED BY <1>1, <1>2 DEF MenuInv

(* The invariant holds throughout.                                         *)
LEMMA MenuInvariant == Spec => []MenuInv
  BY MenuInit, MenuStep, PTL DEF Spec

(* No menu becomes its own ancestor unless a create or a move came between *)
(* check and write of a move.                                              *)
THEOREM UnracedAcyclic == Spec => []Acyclic
<1>1. MenuInv => Acyclic
  BY DEF MenuInv, UnracedInv, Acyclic
<1> QED BY <1>1, MenuInvariant, PTL

(* Then the built menu shows all of what a user may see.                   *)
THEOREM UnracedTreeShowsAll == Spec => []TreeShowsAll
<1>1. MenuInv => TreeShowsAll
  BY ForestIsShown DEF MenuInv, UnracedInv, TreeShowsAll
<1> QED BY <1>1, MenuInvariant, PTL

(* And no request hangs in a recursive query.                              *)
THEOREM UnracedQueriesReturn == Spec => []QueriesReturn
<1>1. MenuInv => QueriesReturn
  BY DEF MenuInv, UnracedInv, NoneHung, QueriesReturn
<1> QED BY <1>1, MenuInvariant, PTL
=============================================================================
