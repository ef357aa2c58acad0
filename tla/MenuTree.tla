------------------------------ MODULE MenuTree ------------------------------
(***************************************************************************)
(* The menu tree of an app as the administrator endpoints edit it: create, *)
(* update (which may move a node), delete, the recursive queries that      *)
(* guard them, and the tree that is built for display.  A request is a     *)
(* coroutine: it queries, is suspended, and writes later.                  *)
(***************************************************************************)
EXTENDS Integers, FiniteSets

CONSTANTS
    Menus,    \* bound: the ids the table's sequence hands out
    NoMenu,   \* None, the parent of a root
    Unset,    \* a MenuUpdate whose parent_id was not sent
    Procs     \* concurrent requests

ASSUME MenuAssumption == NoMenu \notin Menus /\ Unset \notin Menus /\ Unset # NoMenu

VARIABLES
    menus,    \* the rows of auth_permissions
    pc, req,  \* where each request is suspended, and its locals
    raced     \* ghost: a menu was created or moved between check and write of another move
vars == <<menus, pc, req, raced>>

(* An id is used once: it is fresh, then stored, then deleted. *)
Row   == [status : {"fresh", "stored", "deleted"}, parent : Menus \union {NoMenu}]
Req   == [menu : Menus \union {NoMenu}, given : Menus \union {NoMenu, Unset},
          seen : Menus \union {NoMenu}]
NoReq == [menu |-> NoMenu, given |-> Unset, seen |-> NoMenu]

Stored(t)         == {m \in Menus : t[m].status = "stored"}
ChildrenOf(t, S)  == {c \in Stored(t) : t[c].parent \in S}
Closed(t, S)      == ChildrenOf(t, S) \subseteq S

(* get_descendant_ids: the node and everything below it, that is the least *)
(* closed set around it.  UNION ALL keeps no set of visited rows, so the   *)
(* query returns only if the walk down never meets the node again.         *)
Below(t, m)   == {c \in Stored(t) : \A S \in SUBSET Stored(t) :
                      m \in S /\ Closed(t, S) => c \in S}
Descendants(t, m) == IF m \in Stored(t) THEN Below(t, m) ELSE {}
Returns(t, m) == m \in Stored(t) => t[m].parent \notin Below(t, m)

(* validate_menu_relation, after the query has answered with desc. *)
ValidNotSelf(m, target, desc) == target # m
ValidRelation(m, target, desc) == target # m /\ target \notin desc

-----------------------------------------------------------------------------
Init == /\ menus = [m \in Menus |-> [status |-> "fresh", parent |-> NoMenu]]
        /\ pc = [p \in Procs |-> "idle"]
        /\ req = [p \in Procs |-> NoReq]
        /\ raced = FALSE

Goto(p, l) == pc' = [pc EXCEPT ![p] = l] /\ UNCHANGED req
Start(p, l, r) == /\ pc' = [pc EXCEPT ![p] = l]
                  /\ req' = [req EXCEPT ![p] = r]
End(p) == Start(p, "idle", NoReq)
Race(others) == raced' = (raced \/ \E q \in others : pc[q] = "write")

(* create_menu.  The relation is validated for the dummy id -1, which      *)
(* never refuses; the foreign key refuses a parent that is not stored.     *)
CreateMenu(m, parent) ==
    /\ menus[m].status = "fresh"
    /\ parent # NoMenu => parent \in Stored(menus)
    /\ menus' = [menus EXCEPT ![m] = [status |-> "stored", parent |-> parent]]
    /\ Race(Procs)
    /\ UNCHANGED <<pc, req>>

(* update_menu: the row is read, then the parent it will have is validated. *)
(* A root, and a parent that is sent as null, need no query.                *)
Target(r) == IF r.given \in {Unset, NoMenu} THEN r.seen ELSE r.given
UpdateRead(p, m, given) ==
    LET r == [menu |-> m, given |-> given, seen |-> menus[m].parent] IN
    /\ pc[p] = "idle"
    /\ m \in Stored(menus)
    /\ Target(r) # m
    /\ Start(p, IF Target(r) = NoMenu THEN "write" ELSE "check", r)
    /\ UNCHANGED <<menus, raced>>

UpdateCheck(p) ==
    LET m == req[p].menu IN
    /\ pc[p] = "check"
    /\ \/ ~Returns(menus, m) /\ Goto(p, "hung")
       \/ /\ Returns(menus, m)
          /\ IF ValidRelation(m, Target(req[p]), Descendants(menus, m))
             THEN Goto(p, "write")
             ELSE End(p)
    /\ UNCHANGED <<menus, raced>>

(* Flush and commit.  model_dump(exclude_unset=True) keeps the parent that *)
(* was not sent, and an unchanged column is not written.  An UPDATE of a   *)
(* deleted row, or to a parent that is not stored, raises.                 *)
NewParent(r) == IF r.given = Unset THEN r.seen ELSE r.given
UpdateWrite(p) ==
    LET r == req[p] IN
    /\ pc[p] = "write"
    /\ IF /\ NewParent(r) # r.seen /\ r.menu \in Stored(menus)
          /\ NewParent(r) \in Menus => NewParent(r) \in Stored(menus)
       THEN menus' = [menus EXCEPT ![r.menu].parent = NewParent(r)] /\ Race(Procs \ {p})
       ELSE UNCHANGED <<menus, raced>>
    /\ End(p)

(* delete_menu: has_descendants, then DELETE.  The foreign key (NO ACTION) *)
(* refuses a row that still is a parent.                                   *)
DeleteCheck(p, m) ==
    /\ pc[p] = "idle"
    /\ \/ ~Returns(menus, m) /\ Start(p, "hung", [NoReq EXCEPT !.menu = m])
       \/ /\ Returns(menus, m)
          /\ Cardinality(Descendants(menus, m)) <= 1
          /\ Start(p, "delete", [NoReq EXCEPT !.menu = m])
    /\ UNCHANGED <<menus, raced>>

DeletableUnchecked(t, m) == m \in Stored(t)
Deletable(t, m) == m \in Stored(t) /\ ChildrenOf(t, {m}) = {}
DeleteWrite(p) ==
    LET m == req[p].menu IN
    /\ pc[p] = "delete"
    /\ IF Deletable(menus, m)
       THEN menus' = [menus EXCEPT ![m].status = "deleted"]
       ELSE UNCHANGED menus
    /\ UNCHANGED raced
    /\ End(p)

(* An exception or a crash: the transaction rolls back. *)
Fail(p) == pc[p] # "idle" /\ End(p) /\ UNCHANGED <<menus, raced>>

Arrive(p) == \/ \E m \in Menus, given \in Menus \union {NoMenu, Unset} : UpdateRead(p, m, given)
             \/ \E m \in Menus : DeleteCheck(p, m)
Resume(p) == UpdateCheck(p) \/ UpdateWrite(p) \/ DeleteWrite(p)
Create    == \E m \in Menus, parent \in Menus \union {NoMenu} : CreateMenu(m, parent)

Next == Create \/ \E p \in Procs : Arrive(p) \/ Resume(p) \/ Fail(p)
Spec == Init /\ [][Next]_vars

-----------------------------------------------------------------------------
(* _build_menu_tree over the visible nodes V (whatever a user's roles, the *)
(* active flags and the node types leave): what hangs below a root.        *)
RootsUnderNone(t, V) == {m \in V : t[m].parent = NoMenu}
Roots(t, V) == {m \in V : t[m].parent \notin V}
Shown(t, V) == {c \in V : \A S \in SUBSET V :
                   Roots(t, V) \subseteq S /\ (\A x \in V : t[x].parent \in S => x \in S)
                   => c \in S}

(* Rows and requests have their types.                                     *)
TypeOK == /\ menus \in [Menus -> Row]
          /\ pc \in [Procs -> {"idle", "check", "write", "delete", "hung"}]
          /\ req \in [Procs -> Req]
          /\ raced \in BOOLEAN

(* No menu is below itself: every non-empty set of stored menus has one    *)
(* whose parent is outside the set.  The check of a move guarantees it     *)
(* unless another request creates or moves a menu before the move is       *)
(* written; any other overlap is harmless.                                 *)
Forest(t) == \A S \in SUBSET Stored(t) : S # {} => \E c \in S : t[c].parent \notin S
Acyclic   == ~raced => Forest(menus)

(* Whatever part of the tree a user may see, the built menu shows all of   *)
(* it: a node whose parent is invisible becomes a root, none is lost.      *)
TreeShowsAll == ~raced => \A V \in SUBSET Stored(menus) : Shown(menus, V) = V

(* No recursive query of a move or a delete runs into a cycle and hangs.   *)
QueriesReturn == ~raced => \A p \in Procs : pc[p] # "hung"

(* No stored menu has a parent that was deleted, although the check for    *)
(* descendants and the DELETE are two steps and moves come in between.     *)
ParentsStored == \A m \in Stored(menus) :
                     menus[m].parent # NoMenu => menus[m].parent \in Stored(menus)
=============================================================================
