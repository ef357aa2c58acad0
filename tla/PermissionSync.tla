--------------------------- MODULE PermissionSync ---------------------------
(***************************************************************************)
(* sync_permissions: a subsystem reports its whole permission manifest and *)
(* the table of its nodes is aligned with it in three phases inside one    *)
(* transaction: insert N-M layer by layer, update N /\ M, soft-delete M-N  *)
(* with all descendants.  Several syncs of one app may overlap; they run   *)
(* at READ COMMITTED and meet at PostgreSQL row locks.                     *)
(*                                                                         *)
(* A node is identified by its code, which is unique and which a sync      *)
(* never changes.  The ten compared columns are one value of Fields.       *)
(***************************************************************************)
CONSTANTS Codes, NoCode, Fields, Syncs, NoSync,
          Reports   \* bound: the manifests subsystems report, some of Manifests

ASSUME NodeAssumption == NoCode \notin Codes /\ Fields # {}
ASSUME SyncAssumption == NoSync \notin Syncs

VARIABLES
    perms,   \* table auth.permissions of the app, as committed
    lock,    \* row locks (for a code not yet present: its unique-index entry)
    pc, job  \* the coroutines and their locals

vars == <<perms, lock, pc, job>>

Item      == [parent : Codes \union {NoCode}, fields : Fields]
Manifests == UNION {[S -> Item] : S \in SUBSET Codes}
ASSUME ReportAssumption == Reports \subseteq Manifests

NoFields  == CHOOSE f \in Fields : TRUE
Absent    == [present |-> FALSE, parent |-> NoCode, fields |-> NoFields, active |-> FALSE]
Row       == [present : BOOLEAN, parent : Codes \union {NoCode}, fields : Fields, active : BOOLEAN]
EmptyManifest == [c \in {} |-> Absent]
NoJob     == [items |-> EmptyManifest, snap |-> [c \in Codes |-> Absent], prune |-> {}]
Job       == [items : Manifests, snap : [Codes -> Row], prune : SUBSET Codes]

Present(table) == {c \in Codes : table[c].present}

-----------------------------------------------------------------------------
(* get_descendant_ids_batch: the nodes below roots, roots included, that   *)
(* is the least set around roots that is closed downwards.                 *)
ClosedBelow(table, S) == \A c \in Present(table) : table[c].parent \in S => c \in S
DescendantsRootsOnly(table, roots) == roots
Descendants(table, roots) ==
    {c \in Codes : \A S \in SUBSET Codes : roots \subseteq S /\ ClosedBelow(table, S) => c \in S}

(* The three sets of the diff.                                             *)
NewCodes(j)    == DOMAIN j.items \ Present(j.snap)
CommonCodes(j) == DOMAIN j.items \intersect Present(j.snap)
PrunedCodes(j) == Present(j.snap) \ DOMAIN j.items

(* _topo_sort goes layer by layer from the new items without parent_code   *)
(* to those whose parent_code is in the layer before; phase one inserts    *)
(* what it reaches.  Every parent_code in a layer is in code_to_id by      *)
(* then, so the "parent does not exist" error is never raised.             *)
NextLayer(j, S) == {c \in NewCodes(j) : j.items[c].parent \in S \union {NoCode}}
InsertedAll(j) == NewCodes(j)
Inserted(j) == {c \in NewCodes(j) : \A S \in SUBSET NewCodes(j) : NextLayer(j, S) \subseteq S => c \in S}

(* The rows the transaction would leave, over the committed table base:    *)
(* SQLAlchemy sends only the columns that differ from the row it loaded.   *)
InsertedRowItem(i) == [present |-> TRUE, parent |-> i, fields |-> i.fields, active |-> TRUE]
InsertedRow(i)  == [present |-> TRUE, parent |-> i.parent, fields |-> i.fields, active |-> TRUE]
UpdatedNoReactivate(row, seen, i) ==
    [row EXCEPT !.fields = IF seen.fields # i.fields THEN i.fields ELSE @]
UpdatedFlagOnly(row, seen, i) == [row EXCEPT !.active = IF seen.active THEN @ ELSE TRUE]
Updated(row, seen, i) ==
    [row EXCEPT !.fields = IF seen.fields # i.fields THEN i.fields ELSE @,
                !.active = IF seen.active THEN @ ELSE TRUE]
Upserted(j, base) ==
    LET new == Inserted(j) IN
    [c \in Codes |-> CASE c \in new            -> InsertedRow(j.items[c])
                       [] c \in CommonCodes(j) -> Updated(base[c], j.snap[c], j.items[c])
                       [] OTHER                -> base[c]]
Outcome(j, base) ==
    LET upserted == Upserted(j, base) IN
    [c \in Codes |-> [upserted[c] EXCEPT !.active = @ /\ c \notin j.prune]]

-----------------------------------------------------------------------------
Init == /\ perms = [c \in Codes |-> Absent]
        /\ lock = [c \in Codes |-> NoSync]
        /\ pc = [s \in Syncs |-> "idle"]
        /\ job = [s \in Syncs |-> NoJob]

Goto(s, l, j) == pc' = [pc EXCEPT ![s] = l] /\ job' = [job EXCEPT ![s] = j]
KeptLocks(s)  == lock
Released(s)   == [c \in Codes |-> IF lock[c] = s THEN NoSync ELSE lock[c]]

(* rollback and raise *)
Abort(s) == /\ Goto(s, "idle", NoJob)
            /\ lock' = Released(s)
            /\ UNCHANGED perms

(* get_all_by_app(is_active=None): the snapshot the whole diff is made of. *)
SyncRead(s, items) ==
    /\ pc[s] = "idle"
    /\ Goto(s, "insert", [NoJob EXCEPT !.items = items, !.snap = perms])
    /\ UNCHANGED <<perms, lock>>

(* The rows the current phase writes: every common row is written, if only *)
(* its synced_at.  A write waits while another sync has the row locked;    *)
(* the rows of one phase are taken together, since neither the diff nor    *)
(* the outcome depends on when each lock was obtained.                     *)
Wanted(s) == CASE pc[s] = "insert" -> Inserted(job[s])
               [] pc[s] = "update" -> CommonCodes(job[s])
               [] pc[s] = "prune"  -> job[s].prune
               [] OTHER            -> {}
TakeRows(s) == /\ \A c \in Wanted(s) : lock[c] \in {NoSync, s}
               /\ lock' = [c \in Codes |-> IF c \in Wanted(s) THEN s ELSE lock[c]]

(* Phase one.  A code someone else inserted meanwhile hits the unique      *)
(* index.                                                                  *)
SyncInsert(s) ==
    /\ pc[s] = "insert"
    /\ \/ /\ Inserted(job[s]) \intersect Present(perms) = {}
          /\ TakeRows(s)
          /\ Goto(s, "update", job[s])
          /\ UNCHANGED perms
       \/ Inserted(job[s]) \intersect Present(perms) # {} /\ Abort(s)

(* Phase two. *)
SyncUpdate(s) ==
    /\ pc[s] = "update"
    /\ TakeRows(s)
    /\ Goto(s, "query", job[s])
    /\ UNCHANGED perms

(* Phase three: the recursive query sees what is committed now and the     *)
(* sync's own rows; then the soft delete.                                  *)
SyncQuery(s) ==
    LET j == job[s] IN
    /\ pc[s] = "query"
    /\ Goto(s, "prune", [j EXCEPT !.prune = Descendants(Upserted(j, perms), PrunedCodes(j))])
    /\ UNCHANGED <<perms, lock>>

SyncPrune(s) ==
    /\ pc[s] = "prune"
    /\ TakeRows(s)
    /\ Goto(s, "commit", job[s])
    /\ UNCHANGED perms

SyncCommit(s) ==
    /\ pc[s] = "commit"
    /\ perms' = Outcome(job[s], perms)
    /\ lock' = Released(s)
    /\ Goto(s, "idle", NoJob)

(* PostgreSQL aborts a transaction of a cycle of lock waits. *)
WaitsFor(s, t) == s # t /\ \E c \in Wanted(s) : lock[c] = t
DeadlockAbort(s) ==
    /\ \E t \in Syncs : WaitsFor(s, t) /\ WaitsFor(t, s)
    /\ Abort(s)

(* An exception or a crash in any phase. *)
Fail(s) == pc[s] # "idle" /\ Abort(s)

WaitStep(s) == SyncInsert(s) \/ SyncUpdate(s) \/ SyncPrune(s)
FreeStep(s) == SyncQuery(s) \/ SyncCommit(s) \/ DeadlockAbort(s)

Next == \E s \in Syncs : \/ \E items \in Reports : SyncRead(s, items)
                         \/ WaitStep(s) \/ FreeStep(s) \/ Fail(s)

Spec == Init /\ [][Next]_vars

(* A started request is resumed; lock waiters queue. *)
FairSpec == Spec /\ \A s \in Syncs : WF_vars(FreeStep(s)) /\ SF_vars(WaitStep(s))

-----------------------------------------------------------------------------
(* The step of s that ends its transaction successfully, and one that does *)
(* so on the very table s read: no other report committed in between.      *)
Commits(s)       == pc[s] = "commit" /\ pc'[s] = "idle" /\ perms' = Outcome(job[s], perms)
CommitsAsRead(s) == Commits(s) /\ job[s].snap = perms

(* Rows, locks and jobs have their types.                                  *)
TypeOK == /\ perms \in [Codes -> Row]
          /\ lock \in [Codes -> Syncs \union {NoSync}]
          /\ pc \in [Syncs -> {"idle", "insert", "update", "query", "prune", "commit"}]
          /\ job \in [Syncs -> Job]

(* Overlapping reports may leave a node active under an inactive parent;   *)
(* a report that commits on the table it read leaves none, whatever the    *)
(* overlaps before it left: the prune cascades, and a node reported        *)
(* without its parent is switched on in phase two and off in phase three.  *)
ActiveUnderActive ==
    \A c \in Codes : perms[c].active /\ perms[c].parent # NoCode
                     => perms[perms[c].parent].active
TreeRestored == [][(\E s \in Syncs : CommitsAsRead(s)) => ActiveUnderActive']_vars

(* A node and the chain of parents above it, read off a table; a manifest  *)
(* as such a table; and the new nodes of a manifest whose whole reported   *)
(* chain is new too and begins at a root.  A new node reported below one   *)
(* that is stored already is not among them.                               *)
Ancestors(table, c) == {a \in Codes : c \in Descendants(table, {a})}
Reported(items) ==
    [c \in Codes |-> [present |-> c \in DOMAIN items,
                      parent |-> IF c \in DOMAIN items THEN items[c].parent ELSE NoCode]]
NewChains(items, table) ==
    {c \in DOMAIN items :
        LET up == Ancestors(Reported(items), c) IN
        /\ up \subseteq DOMAIN items \ Present(table)
        /\ \E a \in up : items[a].parent = NoCode}

(* What a report leaves, without reference to the three phases: it stores  *)
(* exactly the new nodes of NewChains (the docstring promises all of N-M), *)
(* and the active nodes are the reported ones all of whose ancestors are   *)
(* reported.                                                               *)
SyncMatchesReference ==
    [][\A s \in Syncs : CommitsAsRead(s) =>
         LET items == job[s].items IN
         /\ Present(perms') = Present(perms) \union NewChains(items, perms)
         /\ \A c \in Present(perms') :
              perms'[c].active <=> Ancestors(perms', c) \subseteq DOMAIN items]_vars

(* Such a commit leaves every reported node that is stored with the        *)
(* reported columns, whether it was inserted, differed, or was offline.    *)
FieldsAligned ==
    [][\A s \in Syncs : CommitsAsRead(s) =>
         \A c \in DOMAIN job[s].items :
             perms'[c].present => perms'[c].fields = job[s].items[c].fields]_vars

(* No node is stored under a parent that is not stored, at any instant a   *)
(* concurrent reader can see: the layers put a parent before its children  *)
(* and a sync commits them together.                                       *)
ParentsStored ==
    \A c \in Codes : perms[c].present /\ perms[c].parent # NoCode
                     => perms[perms[c].parent].present

(* Every accepted sync ends, with a commit or with an error, whatever rows *)
(* it has to wait for.                                                     *)
EverySyncEnds == \A s \in Syncs : pc[s] # "idle" ~> pc[s] = "idle"
=============================================================================
