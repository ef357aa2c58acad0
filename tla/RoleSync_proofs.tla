--------------------------- MODULE RoleSync_proofs ---------------------------
(***************************************************************************)
(* Proofs about RoleSync, for any number of roles, users and overlapping   *)
(* requests, and any reports.                                              *)
(***************************************************************************)
EXTENDS RoleSync, TLAPS

-----------------------------------------------------------------------------
(* The invariant, in named parts: about one request s that is at l with    *)
(* locals j, and about two of them.                                        *)

(* Roles that phase two of a report has still to lock.                     *)
Waiting(l, j) == CASE l = "insert"  -> CommonRoles(j)
                   [] l = "compare" -> j.todo
                   [] l = "lock"    -> j.todo \union {j.id}
                   [] l \in {"see", "unbind", "bind"} -> j.todo
                   [] OTHER -> {}
(* Roles whose bindings it has still to write, if they differ.             *)
Unwritten(l, j) == Waiting(l, j)
                   \union (IF l \in {"see", "unbind", "bind"} THEN {j.id} ELSE {})

(* Which locals a request uses where.                                      *)
Phases(l, j) ==
    /\ l \in {"insert", "compare", "lock", "check"} => j.kind = "sync"
    /\ l \in {"see", "unbind", "bind"} => j.kind \in {"sync", "assign"}
    /\ l = "drop" => j.kind \in {"sync", "delete"}
    /\ l = "commit" => j.kind # "none"
    /\ l = "grant" => j.kind = "grant"
    /\ l \in {"lock", "see", "unbind", "bind", "grant"} => j.id \in Ids
    /\ j.kind = "assign" => j.id \in Ids /\ l \in {"see", "unbind", "bind", "commit"}
    /\ j.kind # "sync" => \A i \in Ids : j.rows[i] = NoCode /\ j.snap[i] = NoCode
    /\ j.drop # {} => l = "commit" /\ j.kind \in {"sync", "delete"} /\ j.drop \subseteq ToDrop(j)
    /\ l \in {"compare", "lock", "see", "unbind", "bind"} /\ j.kind = "sync" =>
         j.todo \subseteq CommonRoles(j)
    /\ l \in {"lock", "see", "unbind", "bind"} /\ j.kind = "sync" =>
         j.id \in CommonRoles(j) \ j.todo
    /\ l = "insert" => j.looked = {} /\ \A i \in Ids : j.rows[i] = NoCode

(* What it refers to is stored, the roles it adds are not.                 *)
Refers(j) ==
    /\ \A a \in j.bound : code[a[1]] # NoCode \/ j.rows[a[1]] # NoCode
    /\ \A a \in j.grant : code[a[2]] # NoCode
    /\ \A i \in Ids : j.rows[i] # NoCode => code[i] = NoCode /\ j.snap[i] = NoCode

(* The rows it has updated or deleted are locked.                          *)
Holds(s, l, j) ==
    /\ \A i \in j.drop : lock[i] = s
    /\ j.kind = "sync" => \A i \in CommonRoles(j) \ Waiting(l, j) : lock[i] = s
    /\ Refers(j)

(* No transaction deletes a role that another refers to, and no id is      *)
(* given to two roles.                                                     *)
Apart(j, o) ==
    /\ \A i \in o.drop : ~TouchesRole(j, i)
    /\ \A i \in Ids : j.rows[i] # NoCode => o.rows[i] = NoCode /\ o.snap[i] = NoCode /\ o.id # i

(* The codes of the report's roles, and the roles it prunes.               *)
Codings(l, j) ==
    j.kind = "sync" =>
      /\ \A i \in CommonRoles(j) : code[i] \in {j.snap[i], NoCode} \/ i \in j.moved
      /\ l # "insert" => \A c \in NewCodes(j) : \E i \in Ids : j.rows[i] = c
      /\ l = "commit" => \A i \in PrunedRoles(j) : i \in j.drop \/ code[i] = NoCode

(* Users that came to a role after it had been found unused.               *)
Counted(l, j) == CASE j.kind = "delete" -> {j.id}
                   [] j.kind = "sync" /\ l = "check" -> PrunedRoles(j) \ j.todo
                   [] j.kind = "sync" /\ l \in {"drop", "commit"} -> PrunedRoles(j)
                   [] OTHER -> {}
Counts(l, j) == \A a \in held : a[2] \in Counted(l, j) => a \in j.late

(* An administrator's request found the role without a subsystem.          *)
Owns(j) == j.kind = "assign" => j.id \in j.looked /\ (j.id \in synced => j.id \in j.dirty)

(* What the bindings of a role will be when the request commits.           *)
Unlinked(j, i) == {p \in Perms : <<i, p>> \in j.unbound}
Linked(j, i)   == {p \in Perms : <<i, p>> \in j.bound}
Settled(j, i)  == (BoundTo(i) \ Unlinked(j, i)) \union Linked(j, i) = WantedBy(j, i)

(* How far the replacement of each role has come: what the request has     *)
(* written and, unless the role was replaced since it was looked at, what  *)
(* its bindings will be.                                                   *)
Current(l, j) == IF l \in {"lock", "see", "unbind", "bind"} THEN {j.id} ELSE {}
MayUnlink(l, j) == CASE j.kind = "sync" -> (CommonRoles(j) \ Unwritten(l, j))
                                           \union (IF l = "bind" THEN {j.id} ELSE {})
                     [] j.kind = "assign" /\ l \in {"bind", "commit"} -> {j.id}
                     [] OTHER -> {}
MayLink(l, j)   == CASE j.kind = "sync" -> (CommonRoles(j) \ Unwritten(l, j))
                                           \union {i \in Ids : j.rows[i] # NoCode}
                     [] j.kind = "assign" /\ l = "commit" -> {j.id}
                     [] OTHER -> {}
Looks(l, j) == CASE j.kind = "sync" /\ l = "insert" -> {}
                 [] j.kind = "sync" /\ l # "insert" -> 
                      CommonRoles(j) \ (IF l \in {"compare", "lock", "see", "unbind", "bind"}
                                        THEN j.todo ELSE {})
                 [] j.kind = "assign" -> {j.id}
                 [] OTHER -> {}
Writes(l, j) ==
    /\ \A i \in Ids : Unlinked(j, i) # {} => i \in MayUnlink(l, j)
    /\ \A i \in Ids : Linked(j, i) # {} => i \in MayLink(l, j)
    /\ \A i \in Ids : j.rows[i] # NoCode => Linked(j, i) = WantedBy(j, i)
    /\ j.looked = Looks(l, j)
    /\ l \in {"lock", "see", "unbind", "bind"} => j.want = WantedBy(j, j.id)
Replaces(l, j) ==
    /\ \A i \in j.looked \ j.dirty : code[i] # NoCode =>
         /\ i \notin Current(l, j) => Settled(j, i)
         /\ l = "lock" /\ i = j.id /\ ~j.changed => Settled(j, i)
         /\ l = "unbind" /\ i = j.id => j.seen = BoundTo(i)
         /\ l = "bind" /\ i = j.id => BoundTo(i) \subseteq Unlinked(j, i)

JobOK(s, l, j) == /\ Phases(l, j)
                  /\ Holds(s, l, j)
                  /\ Codings(l, j)
                  /\ Counts(l, j)
                  /\ Owns(j)
                  /\ Writes(l, j)
                  /\ Replaces(l, j)

IInv == /\ TypeOK
        /\ \A i \in Ids : lock[i] # NoProc => code[i] # NoCode
        /\ \A i \in Ids : code[i] = NoCode => asked[i] = {}
        /\ \A s \in Procs : JobOK(s, pc[s], job[s])
        /\ \A s, t \in Procs : s # t => Apart(job[s], job[t])
        /\ BindingsAsAsked

-----------------------------------------------------------------------------
(* Lemmas about the locals of a request. *)

(* A request that has not begun.                                           *)
LEMMA NoJobTyped == NoJob \in Job
<1>1. [c \in {} |-> {}] \in Manifests
  <2>1. [c \in {} |-> {}] \in [{} -> Items]
    OBVIOUS
  <2> QED BY <2>1 DEF Manifests
<1>2. NoJob.kind \in Kinds
  BY DEF NoJob, Kinds
<1> QED BY <1>1, <1>2 DEF NoJob, Job, Kinds

LEMMA NoJobFields ==
    /\ NoJob.kind = "none" /\ NoJob.id = NoId /\ NoJob.drop = {}
    /\ NoJob.bound = {} /\ NoJob.unbound = {} /\ NoJob.grant = {}
    /\ \A i \in Ids : NoJob.rows[i] = NoCode /\ NoJob.snap[i] = NoCode
    /\ NoJob.looked = {} /\ NoJob.dirty = {} /\ NoJob.todo = {}
BY DEF NoJob

(* The sets of the diff, typed.                                            *)
LEMMA DiffTyped ==
    ASSUME NEW j \in Job
    PROVE  /\ NewCodes(j) \subseteq Codes
           /\ CommonRoles(j) \subseteq Ids
           /\ PrunedRoles(j) \subseteq Ids
           /\ CommonRoles(j) \intersect PrunedRoles(j) = {}
           /\ \A i \in CommonRoles(j) \union PrunedRoles(j) : j.snap[i] # NoCode
           /\ \A c : Target(j.items[c]) \subseteq Perms
           /\ \A i : WantedBy(j, i) \subseteq Perms
<1>1. DOMAIN j.items \subseteq Codes
  BY DEF Job, Manifests
<1>2. \A c : Target(j.items[c]) \subseteq Perms
  BY PermAssumption DEF Target
<1>3. \A i : WantedBy(j, i) \subseteq Perms
  BY <1>2 DEF WantedBy, Job
<1> QED BY <1>1, <1>2, <1>3 DEF NewCodes, CommonRoles, PrunedRoles, SeenRole

-----------------------------------------------------------------------------
(* A step of one request that changes no table. *)

(* What it means for the other requests.                                   *)
LEMMA OthersKept ==
    ASSUME NEW t, NEW l, NEW j,
           UNCHANGED <<code, link, held, synced>>,
           \A i \in Ids : lock[i] = t => lock'[i] = t,
           j.drop \subseteq Ids, CommonRoles(j) \subseteq Ids,
           JobOK(t, l, j)
    PROVE  JobOK(t, l, j)'
<1>1. Phases(l, j)'
  BY DEF JobOK, Phases
<1>2. Holds(t, l, j)'
  BY DEF JobOK, Holds, Refers
<1>3. Codings(l, j)'
  BY DEF JobOK, Codings
<1>4. Counts(l, j)'
  BY DEF JobOK, Counts
<1>5. Owns(j)'
  BY DEF JobOK, Owns
<1>6. Writes(l, j)'
  BY DEF JobOK, Writes
<1>7. Replaces(l, j)'
  BY DEF JobOK, Replaces, Settled, BoundTo
<1> QED BY <1>1, <1>2, <1>3, <1>4, <1>5, <1>6, <1>7 DEF JobOK

(* It is enough to look at the request itself.                             *)
LEMMA LocalStep ==
    ASSUME IInv, NEW s \in Procs, NEW l \in Labels, NEW j \in Job,
           UNCHANGED <<tables, ghosts>>, Goto(s, l, j),
           lock' \in [Ids -> Procs \union {NoProc}],
           \A i \in Ids : \A t \in Procs \ {s} : lock[i] = t => lock'[i] = t,
           \A i \in Ids : lock'[i] # NoProc => code[i] # NoCode,
           \A i \in j.drop : lock'[i] = s,
           j.kind = "sync" => \A i \in CommonRoles(j) \ Waiting(l, j) : lock'[i] = s,
           Phases(l, j), Refers(j), Codings(l, j), Counts(l, j), Owns(j),
           Writes(l, j), Replaces(l, j),
           \A t \in Procs \ {s} : Apart(j, job[t]) /\ Apart(job[t], j)
    PROVE  IInv'
<1> USE DEF tables, ghosts
<1>0. TypeOK
  BY DEF IInv
<1>1. pc'[s] = l /\ job'[s] = j
  BY <1>0 DEF Goto, TypeOK
<1>2. \A t \in Procs \ {s} : pc'[t] = pc[t] /\ job'[t] = job[t]
  BY <1>0 DEF Goto, TypeOK
<1>3. TypeOK'
  <2>1. pc' \in [Procs -> Labels] /\ job' \in [Procs -> Job]
    BY <1>0 DEF Goto, TypeOK
  <2> QED BY <1>0, <2>1 DEF TypeOK, Stored
<1>4. JobOK(s, l, j)'
  <2>1. Phases(l, j)' /\ Codings(l, j)' /\ Counts(l, j)' /\ Owns(j)' /\ Writes(l, j)'
    BY DEF Phases, Codings, Counts, Owns, Writes
  <2>2. Replaces(l, j)'
    BY DEF Replaces, Settled, BoundTo
  <2>3. Holds(s, l, j)'
    BY DEF Holds, Refers
  <2> QED BY <2>1, <2>2, <2>3 DEF JobOK
<1>5. ASSUME NEW t \in Procs PROVE JobOK(t, pc[t], job[t])'
  <2>1. CASE t = s
    BY <1>1, <1>4, <2>1
  <2>2. CASE t # s
    <3>1. job[t] \in Job
      BY <1>0 DEF TypeOK
    <3>2. job[t].drop \subseteq Ids
      BY <3>1 DEF Job
    <3>3. JobOK(t, pc[t], job[t])
      BY DEF IInv
    <3>4. \A u : \A k : u = pc[t] /\ k = job[t] => JobOK(t, u, k)'
      BY <2>2, <3>1, <3>2, <3>3, DiffTyped, OthersKept
    <3> QED BY <1>2, <2>2, <3>4
  <2> QED BY <2>1, <2>2
<1>6. \A t, u \in Procs : t # u => Apart(job[t], job[u])'
  <2>1. \A t, u \in Procs : t # u => Apart(job'[t], job'[u])
    <3>1. \A t, u \in Procs : t # u => Apart(job[t], job[u])
      BY DEF IInv
    <3> QED BY <1>1, <1>2, <3>1
  <2> QED BY <2>1 DEF Apart, TouchesRole
<1>7. BindingsAsAsked'
  BY DEF IInv, BindingsAsAsked, Stored, BoundTo
<1> QED BY <1>3, <1>5, <1>6, <1>7 DEF IInv

(* A request that gives up leaves no trace.                                *)
LEMMA AbortStep ==
    ASSUME IInv, NEW s \in Procs, Abort(s)
    PROVE  IInv'
<1>0. TypeOK /\ ProcAssumption
  BY ProcAssumption DEF IInv
<1>1. lock' \in [Ids -> Procs \union {NoProc}]
  BY <1>0 DEF Abort, Released, TypeOK
<1>2. \A i \in Ids : lock'[i] \in {lock[i], NoProc} /\ \A t \in Procs \ {s} : lock[i] = t => lock'[i] = t
  BY <1>0 DEF Abort, Released, TypeOK
<1>3. \A i \in Ids : lock'[i] # NoProc => code[i] # NoCode
  BY <1>2 DEF IInv
<1>4. "idle" \in Labels
  BY DEF Labels
<1>5. Phases("idle", NoJob)
  BY NoJobFields DEF Phases
<1>6. Refers(NoJob)
  BY NoJobFields DEF Refers
<1>7. Codings("idle", NoJob) /\ Counts("idle", NoJob) /\ Owns(NoJob)
  BY NoJobFields DEF Codings, Counts, Counted, Owns
<1>8. Writes("idle", NoJob) /\ Replaces("idle", NoJob)
  BY NoJobFields DEF Writes, Looks, Unlinked, Linked, Replaces
<1>9. ASSUME NEW t \in Procs \ {s} PROVE Apart(NoJob, job[t]) /\ Apart(job[t], NoJob)
  <2>1. Apart(NoJob, job[t])
    BY NoJobFields DEF Apart, TouchesRole
  <2>2. Apart(job[t], NoJob)
    BY NoJobFields, IdAssumption DEF Apart
  <2> QED BY <2>1, <2>2
<1> QED BY <1>1, <1>2, <1>3, <1>4, <1>5, <1>6, <1>7, <1>8, <1>9, NoJobTyped, NoJobFields, LocalStep DEF Abort

(* A step that also leaves the locks alone.                                *)
LEMMA QuietStep ==
    ASSUME IInv, NEW s \in Procs, NEW l \in Labels, NEW j \in Job,
           UNCHANGED <<tables, lock, ghosts>>, Goto(s, l, j),
           Phases(l, j), Holds(s, l, j), Codings(l, j), Counts(l, j), Owns(j),
           Writes(l, j), Replaces(l, j),
           \A t \in Procs \ {s} : Apart(j, job[t]) /\ Apart(job[t], j)
    PROVE  IInv'
<1>1. UNCHANGED <<tables, ghosts>> /\ lock' = lock /\ code' = code
  BY DEF tables
<1>2. lock \in [Ids -> Procs \union {NoProc}] /\ \A i \in Ids : lock[i] # NoProc => code[i] # NoCode
  BY DEF IInv, TypeOK
<1>3. /\ Refers(j) /\ \A i \in j.drop : lock'[i] = s
      /\ j.kind = "sync" => \A i \in CommonRoles(j) \ Waiting(l, j) : lock'[i] = s
  BY <1>1 DEF Holds
<1> QED BY <1>1, <1>2, <1>3, LocalStep

(* What the invariant says of one request and of two.                      *)
LEMMA Facts ==
    ASSUME IInv, NEW s \in Procs
    PROVE  /\ TypeOK /\ pc[s] \in Labels /\ job[s] \in Job
           /\ Phases(pc[s], job[s]) /\ Holds(s, pc[s], job[s]) /\ Codings(pc[s], job[s])
           /\ Counts(pc[s], job[s]) /\ Owns(job[s]) /\ Writes(pc[s], job[s])
           /\ Replaces(pc[s], job[s])
           /\ \A t \in Procs \ {s} : /\ Apart(job[s], job[t]) /\ Apart(job[t], job[s])
                                     /\ job[t] \in Job /\ Holds(t, pc[t], job[t])
BY DEF IInv, JobOK, TypeOK

-----------------------------------------------------------------------------
(* One lemma for each action. *)

LEMMA SyncReadStep ==
    ASSUME IInv, NEW s \in Procs, NEW items \in Reports, SyncRead(s, items)
    PROVE  IInv'
<1> DEFINE j == [NoJob EXCEPT !.kind = "sync", !.items = items, !.snap = code]
<1>1. TypeOK /\ items \in Manifests
  BY ReportAssumption DEF IInv
<1>2. j \in Job
  BY <1>1, NoJobTyped, ZenonT(60) DEF Job, Kinds, TypeOK
<1>3. /\ j.kind = "sync" /\ j.items = items /\ j.snap = code
      /\ j.id = NoId /\ j.drop = {} /\ j.bound = {} /\ j.unbound = {} /\ j.grant = {}
      /\ \A i \in Ids : j.rows[i] = NoCode
      /\ j.looked = {} /\ j.dirty = {} /\ j.todo = {}
  BY DEF NoJob
<1>4. Goto(s, "insert", j) /\ UNCHANGED <<tables, lock, ghosts>>
  BY DEF SyncRead
<1> HIDE DEF j
<1>5. Phases("insert", j) /\ Holds(s, "insert", j) /\ Counts("insert", j) /\ Owns(j)
  BY <1>3 DEF Phases, Holds, Refers, Waiting, Counts, Counted, Owns
<1>6. Codings("insert", j)
  BY <1>3 DEF Codings
<1>7. Writes("insert", j) /\ Replaces("insert", j)
  BY <1>3 DEF Writes, Looks, Unlinked, Linked, Replaces
<1>8. ASSUME NEW t \in Procs \ {s} PROVE Apart(j, job[t]) /\ Apart(job[t], j)
  <2>1. Apart(j, job[t])
    BY <1>3 DEF Apart, TouchesRole
  <2>2. Holds(t, pc[t], job[t])
    BY DEF IInv, JobOK
  <2>3. Apart(job[t], j)
    BY <1>3, <2>2, IdAssumption DEF Apart, Holds, Refers
  <2> QED BY <2>1, <2>3
<1> QED BY <1>2, <1>4, <1>5, <1>6, <1>7, <1>8, QuietStep DEF Labels

LEMMA AssignReadStep ==
    ASSUME IInv, NEW s \in Procs, NEW i \in Ids, NEW item \in Rebinds, AssignRead(s, i, item)
    PROVE  IInv'
<1> DEFINE j == [NoJob EXCEPT !.kind = "assign", !.id = i, !.want = item.perms,
                              !.twice = item.twice, !.looked = {i}]
<1>1. TypeOK /\ item \in Items
  BY ReportAssumption DEF IInv
<1>2. j \in Job
  BY <1>1, NoJobTyped, ZenonT(60) DEF Job, Kinds, Items
<1>3. /\ j.kind = "assign" /\ j.id = i /\ j.want = item.perms
      /\ j.drop = {} /\ j.bound = {} /\ j.unbound = {} /\ j.grant = {}
      /\ \A k \in Ids : j.rows[k] = NoCode /\ j.snap[k] = NoCode
      /\ j.looked = {i} /\ j.dirty = {} /\ j.todo = {}
  BY DEF NoJob
<1>4. Goto(s, "see", j) /\ UNCHANGED <<tables, lock, ghosts>>
  BY DEF AssignRead
<1>5. code[i] # NoCode /\ i \notin synced
  BY DEF AssignRead, Bindable, Stored
<1> HIDE DEF j
<1>6. Phases("see", j) /\ Holds(s, "see", j) /\ Counts("see", j) /\ Owns(j)
  BY <1>3, <1>5 DEF Phases, Holds, Refers, Waiting, Counts, Counted, Owns
<1>7. Codings("see", j)
  BY <1>3 DEF Codings
<1>8. Writes("see", j) /\ Replaces("see", j)
  BY <1>3 DEF Writes, Looks, Unlinked, Linked, WantedBy, Replaces, Current
<1>9. ASSUME NEW t \in Procs \ {s} PROVE Apart(j, job[t]) /\ Apart(job[t], j)
  <2>1. Apart(j, job[t])
    BY <1>3 DEF Apart, TouchesRole
  <2>2. Holds(t, pc[t], job[t])
    BY DEF IInv, JobOK
  <2>3. Apart(job[t], j)
    BY <1>3, <1>5, <2>2 DEF Apart, Holds, Refers
  <2> QED BY <2>1, <2>3
<1> QED BY <1>2, <1>4, <1>6, <1>7, <1>8, <1>9, QuietStep DEF Labels

LEMMA DeleteCheckStep ==
    ASSUME IInv, NEW s \in Procs, NEW i \in Ids, DeleteCheck(s, i)
    PROVE  IInv'
<1> DEFINE j == [NoJob EXCEPT !.kind = "delete", !.id = i]
<1>1. TypeOK
  BY DEF IInv
<1>2. j \in Job
  BY <1>1, NoJobTyped, ZenonT(60) DEF Job, Kinds
<1>3. /\ j.kind = "delete" /\ j.id = i
      /\ j.drop = {} /\ j.bound = {} /\ j.unbound = {} /\ j.grant = {}
      /\ \A k \in Ids : j.rows[k] = NoCode /\ j.snap[k] = NoCode
      /\ j.looked = {} /\ j.dirty = {} /\ j.todo = {}
  BY DEF NoJob
<1>4. Goto(s, "drop", j) /\ UNCHANGED <<tables, lock, ghosts>>
  BY DEF DeleteCheck
<1>5. code[i] # NoCode /\ \A u \in Users : <<u, i>> \notin held
  BY DEF DeleteCheck, InUse, Stored
<1>6. \A a \in held : a[2] # i
  BY <1>1, <1>5 DEF TypeOK
<1> HIDE DEF j
<1>7. Phases("drop", j) /\ Holds(s, "drop", j) /\ Counts("drop", j) /\ Owns(j)
  BY <1>3, <1>6 DEF Phases, Holds, Refers, Waiting, Counts, Counted, Owns
<1>8. Codings("drop", j)
  BY <1>3 DEF Codings
<1>9. Writes("drop", j) /\ Replaces("drop", j)
  BY <1>3 DEF Writes, Looks, Unlinked, Linked, Replaces
<1>10. ASSUME NEW t \in Procs \ {s} PROVE Apart(j, job[t]) /\ Apart(job[t], j)
  <2>1. Apart(j, job[t])
    BY <1>3 DEF Apart, TouchesRole
  <2>2. Holds(t, pc[t], job[t])
    BY DEF IInv, JobOK
  <2>3. Apart(job[t], j)
    BY <1>3, <1>5, <2>2 DEF Apart, Holds, Refers
  <2> QED BY <2>1, <2>3
<1> QED BY <1>2, <1>4, <1>7, <1>8, <1>9, <1>10, QuietStep DEF Labels

LEMMA GrantReadStep ==
    ASSUME IInv, NEW s \in Procs, NEW u \in Users, NEW i \in Ids, GrantRead(s, u, i)
    PROVE  IInv'
<1> DEFINE j == [NoJob EXCEPT !.kind = "grant", !.id = i, !.who = {u}]
<1>1. TypeOK
  BY DEF IInv
<1>2. j \in Job
  BY <1>1, NoJobTyped, ZenonT(60) DEF Job, Kinds
<1>3. /\ j.kind = "grant" /\ j.id = i
      /\ j.drop = {} /\ j.bound = {} /\ j.unbound = {} /\ j.grant = {}
      /\ \A k \in Ids : j.rows[k] = NoCode /\ j.snap[k] = NoCode
      /\ j.looked = {} /\ j.dirty = {} /\ j.todo = {}
  BY DEF NoJob
<1>4. Goto(s, "grant", j) /\ UNCHANGED <<tables, lock, ghosts>>
  BY DEF GrantRead
<1>5. code[i] # NoCode
  BY DEF GrantRead, Stored
<1> HIDE DEF j
<1>7. Phases("grant", j) /\ Holds(s, "grant", j) /\ Counts("grant", j) /\ Owns(j)
  BY <1>3 DEF Phases, Holds, Refers, Waiting, Counts, Counted, Owns
<1>8. Codings("grant", j)
  BY <1>3 DEF Codings
<1>9. Writes("grant", j) /\ Replaces("grant", j)
  BY <1>3 DEF Writes, Looks, Unlinked, Linked, Replaces
<1>10. ASSUME NEW t \in Procs \ {s} PROVE Apart(j, job[t]) /\ Apart(job[t], j)
  <2>1. Apart(j, job[t])
    BY <1>3 DEF Apart, TouchesRole
  <2>2. Holds(t, pc[t], job[t])
    BY DEF IInv, JobOK
  <2>3. Apart(job[t], j)
    BY <1>3, <1>5, <2>2 DEF Apart, Holds, Refers
  <2> QED BY <2>1, <2>3
<1> QED BY <1>2, <1>4, <1>7, <1>8, <1>9, <1>10, QuietStep DEF Labels

(* Locals that the diff does not depend on.                                *)
LEMMA SameDiff ==
    ASSUME NEW j, NEW k, k.kind = j.kind, k.items = j.items, k.snap = j.snap, k.rows = j.rows
    PROVE  /\ NewCodes(k) = NewCodes(j) /\ CommonRoles(k) = CommonRoles(j)
           /\ PrunedRoles(k) = PrunedRoles(j)
           /\ j.kind # "assign" => \A i : WantedBy(k, i) = WantedBy(j, i)
           /\ k.want = j.want => \A i : WantedBy(k, i) = WantedBy(j, i)
BY DEF NewCodes, CommonRoles, PrunedRoles, SeenRole, WantedBy

(* Locals that other requests do not depend on.                            *)
LEMMA SameApart ==
    ASSUME NEW j, NEW k, NEW o, k.rows = j.rows, k.bound = j.bound, k.unbound = j.unbound,
           k.grant = j.grant, k.snap = j.snap, k.drop = j.drop,
           Apart(j, o), Apart(o, j),
           \A i \in Ids : o.rows[i] # NoCode => k.id # i
    PROVE  Apart(k, o) /\ Apart(o, k)
BY DEF Apart, TouchesRole

LEMMA SameApartId ==
    ASSUME NEW j, NEW k, NEW o, k.rows = j.rows, k.bound = j.bound, k.unbound = j.unbound,
           k.grant = j.grant, k.snap = j.snap, k.drop = j.drop, k.id = j.id,
           Apart(j, o), Apart(o, j)
    PROVE  Apart(k, o) /\ Apart(o, k)
BY DEF Apart, TouchesRole

LEMMA SyncCompareStep ==
    ASSUME IInv, NEW s \in Procs, SyncCompare(s)
    PROVE  IInv'
<1> DEFINE j == job[s]
<1>1. /\ TypeOK /\ j \in Job /\ pc[s] = "compare"
      /\ Phases("compare", j) /\ Holds(s, "compare", j) /\ Codings("compare", j)
      /\ Counts("compare", j) /\ Owns(j) /\ Writes("compare", j) /\ Replaces("compare", j)
      /\ \A t \in Procs \ {s} : Apart(j, job[t]) /\ Apart(job[t], j) /\ job[t] \in Job
  BY Facts DEF SyncCompare
<1>2. UNCHANGED <<tables, lock, ghosts>>
  BY DEF SyncCompare
<1>3. j.kind = "sync" /\ j.todo \subseteq CommonRoles(j) /\ j.drop = {}
  BY <1>1 DEF Phases
<1>4. j.looked = CommonRoles(j) \ j.todo
  BY <1>1, <1>3 DEF Writes, Looks
<1>5. ASSUME NEW i \in j.todo,
             Goto(s, "lock",
                  [j EXCEPT !.todo = @ \ {i}, !.id = i, !.want = Target(j.items[j.snap[i]]),
                            !.changed = Differs(i, Target(j.items[j.snap[i]])),
                            !.looked = @ \union {i}])
      PROVE  IInv'
  <2> DEFINE want == Target(j.items[j.snap[i]])
             k == [j EXCEPT !.todo = @ \ {i}, !.id = i, !.want = want,
                            !.changed = Differs(i, want), !.looked = @ \union {i}]
  <2>1. i \in Ids /\ want \in SUBSET Perms /\ j.snap[i] # NoCode
    BY <1>1, <1>3, DiffTyped
  <2>2. k \in Job
    <3> DEFINE a == j.todo \ {i}
               b == Differs(i, want)
               d == j.looked \union {i}
    <3>1. a \in SUBSET Ids /\ b \in BOOLEAN /\ d \in SUBSET Ids
      BY <1>1, <2>1 DEF Job, Differs
    <3>2. k = [j EXCEPT !.todo = a, !.id = i, !.want = want, !.changed = b, !.looked = d]
      OBVIOUS
    <3> HIDE DEF a, b, d, want, k
    <3> QED BY <1>1, <2>1, <3>1, <3>2, ZenonT(60) DEF Job
  <2>3. /\ k.kind = j.kind /\ k.items = j.items /\ k.snap = j.snap /\ k.rows = j.rows
        /\ k.bound = j.bound /\ k.unbound = j.unbound /\ k.grant = j.grant /\ k.drop = j.drop
        /\ k.dirty = j.dirty /\ k.late = j.late /\ k.moved = j.moved
        /\ k.todo = j.todo \ {i} /\ k.id = i /\ k.want = want
        /\ k.changed = (BoundTo(i) # want) /\ k.looked = j.looked \union {i}
    BY <1>1 DEF Job, Differs
  <2>4. Goto(s, "lock", k)
    BY <1>5
  <2>a. \A t \in Procs \ {s} : \A m \in Ids : job[t].rows[m] # NoCode => m # i
    BY <1>1, <2>1 DEF Apart
  <2> HIDE DEF k
  <2>5. /\ NewCodes(k) = NewCodes(j) /\ CommonRoles(k) = CommonRoles(j)
        /\ PrunedRoles(k) = PrunedRoles(j) /\ \A m : WantedBy(k, m) = WantedBy(j, m)
    BY <1>3, <2>3, SameDiff
  <2>6. Phases("lock", k)
    BY <1>1, <1>3, <2>1, <2>3, <2>5 DEF Phases
  <2>7. Holds(s, "lock", k)
    BY <1>1, <1>3, <2>3, <2>5 DEF Holds, Refers, Waiting
  <2>8. Codings("lock", k)
    BY <1>1, <1>3, <2>3, <2>5 DEF Codings
  <2>9. Counts("lock", k) /\ Owns(k)
    BY <1>3, <2>3 DEF Counts, Counted, Owns
  <2>10. j.rows[i] = NoCode
    BY <1>1, <2>1 DEF Holds, Refers
  <2>11. WantedBy(j, i) = want
    BY <1>3, <2>10 DEF WantedBy
  <2>12. Writes("lock", k)
    <3>1. MayUnlink("lock", k) = MayUnlink("compare", j) /\ MayLink("lock", k) = MayLink("compare", j)
      BY <1>3, <2>3, <2>5 DEF MayUnlink, MayLink, Unwritten, Waiting
    <3>2. \A m : Unlinked(k, m) = Unlinked(j, m) /\ Linked(k, m) = Linked(j, m)
      BY <2>3 DEF Unlinked, Linked
    <3>3. k.looked = Looks("lock", k)
      BY <1>3, <1>4, <2>3, <2>5 DEF Looks
    <3>4. k.want = WantedBy(k, k.id)
      BY <2>3, <2>5, <2>11
    <3> QED BY <1>1, <2>3, <2>5, <3>1, <3>2, <3>3, <3>4 DEF Writes
  <2>13. Replaces("lock", k)
    <3>1. Unlinked(j, i) = {} /\ Linked(j, i) = {}
      BY <1>1, <1>3, <2>1, <2>10 DEF Writes, MayUnlink, MayLink, Unwritten, Waiting
    <3>2. \A m : Unlinked(k, m) = Unlinked(j, m) /\ Linked(k, m) = Linked(j, m)
      BY <2>3 DEF Unlinked, Linked
    <3>3. \A m \in j.looked \ j.dirty : code[m] # NoCode => Settled(j, m)
      BY <1>1 DEF Replaces, Current
    <3>4. ~k.changed => Settled(k, i)
      BY <2>3, <2>5, <2>11, <3>1, <3>2, ZenonT(60) DEF Settled
    <3>5. \A m : Settled(k, m) <=> Settled(j, m)
      BY <2>5, <3>2 DEF Settled
    <3> QED BY <2>3, <3>3, <3>4, <3>5 DEF Replaces, Current
  <2>14. \A t \in Procs \ {s} : Apart(k, job[t]) /\ Apart(job[t], k)
    BY <1>1, <2>3, <2>a, SameApart
  <2> QED BY <1>2, <2>2, <2>4, <2>6, <2>7, <2>8, <2>9, <2>12, <2>13, <2>14, QuietStep DEF Labels
<1>6. ASSUME j.todo = {}, Goto(s, "check", [j EXCEPT !.todo = PrunedRoles(j), !.id = NoId])
      PROVE  IInv'
  <2> DEFINE k == [j EXCEPT !.todo = PrunedRoles(j), !.id = NoId]
  <2>1. PrunedRoles(j) \in SUBSET Ids
    BY <1>1, DiffTyped
  <2>2. k \in Job
    BY <1>1, <2>1, ZenonT(60) DEF Job
  <2>3. /\ k.kind = j.kind /\ k.items = j.items /\ k.snap = j.snap /\ k.rows = j.rows
        /\ k.bound = j.bound /\ k.unbound = j.unbound /\ k.grant = j.grant /\ k.drop = j.drop
        /\ k.dirty = j.dirty /\ k.late = j.late /\ k.moved = j.moved
        /\ k.todo = PrunedRoles(j) /\ k.id = NoId /\ k.want = j.want /\ k.looked = j.looked
    BY <1>1 DEF Job
  <2>4. Goto(s, "check", k)
    BY <1>6
  <2> HIDE DEF k
  <2>5. /\ NewCodes(k) = NewCodes(j) /\ CommonRoles(k) = CommonRoles(j)
        /\ PrunedRoles(k) = PrunedRoles(j) /\ \A m : WantedBy(k, m) = WantedBy(j, m)
    BY <1>3, <2>3, SameDiff
  <2>6. Phases("check", k)
    BY <1>1, <1>3, <2>3, <2>5 DEF Phases
  <2>7. Holds(s, "check", k)
    BY <1>1, <1>3, <1>6, <2>3, <2>5 DEF Holds, Refers, Waiting
  <2>8. Codings("check", k)
    BY <1>1, <1>3, <2>3, <2>5 DEF Codings
  <2>9. Counts("check", k) /\ Owns(k)
    BY <1>3, <2>3, <2>5 DEF Counts, Counted, Owns
  <2>10. \A m : Unlinked(k, m) = Unlinked(j, m) /\ Linked(k, m) = Linked(j, m)
    BY <2>3 DEF Unlinked, Linked
  <2>11. Writes("check", k)
    <3>1. MayUnlink("check", k) = MayUnlink("compare", j) /\ MayLink("check", k) = MayLink("compare", j)
      BY <1>3, <1>6, <2>3, <2>5 DEF MayUnlink, MayLink, Unwritten, Waiting
    <3>2. k.looked = Looks("check", k)
      BY <1>3, <1>4, <1>6, <2>3, <2>5 DEF Looks
    <3> QED BY <1>1, <2>3, <2>5, <2>10, <3>1, <3>2 DEF Writes
  <2>12. Replaces("check", k)
    <3>1. \A m \in j.looked \ j.dirty : code[m] # NoCode => Settled(j, m)
      BY <1>1 DEF Replaces, Current
    <3>2. \A m : Settled(k, m) <=> Settled(j, m)
      BY <2>5, <2>10 DEF Settled
    <3> QED BY <2>3, <3>1, <3>2 DEF Replaces, Current
  <2>13. \A t \in Procs \ {s} : Apart(k, job[t]) /\ Apart(job[t], k)
    BY <1>1, <2>3, IdAssumption, SameApart
  <2> QED BY <1>2, <2>2, <2>4, <2>6, <2>7, <2>8, <2>9, <2>11, <2>12, <2>13, QuietStep DEF Labels
<1> QED BY <1>5, <1>6 DEF SyncCompare

LEMMA SyncCheckStep ==
    ASSUME IInv, NEW s \in Procs, SyncCheck(s)
    PROVE  IInv'
<1> DEFINE j == job[s]
<1>1. /\ TypeOK /\ j \in Job /\ pc[s] = "check"
      /\ Phases("check", j) /\ Holds(s, "check", j) /\ Codings("check", j)
      /\ Counts("check", j) /\ Owns(j) /\ Writes("check", j) /\ Replaces("check", j)
      /\ \A t \in Procs \ {s} : Apart(j, job[t]) /\ Apart(job[t], j) /\ job[t] \in Job
  BY Facts DEF SyncCheck
<1>2. j.kind = "sync" /\ j.drop = {}
  BY <1>1 DEF Phases
<1>3. ASSUME NEW i \in j.todo, ~InUse(i), UNCHANGED <<tables, lock, ghosts>>,
             Goto(s, "check", [j EXCEPT !.todo = @ \ {i}])
      PROVE  IInv'
  <2> DEFINE k == [j EXCEPT !.todo = @ \ {i}]
  <2>1. \A a \in held : a[2] # i
    BY <1>1, <1>3 DEF TypeOK, InUse
  <2>2. k \in Job
    BY <1>1 DEF Job
  <2>3. /\ k.kind = j.kind /\ k.items = j.items /\ k.snap = j.snap /\ k.rows = j.rows
        /\ k.bound = j.bound /\ k.unbound = j.unbound /\ k.grant = j.grant /\ k.drop = j.drop
        /\ k.dirty = j.dirty /\ k.late = j.late /\ k.moved = j.moved
        /\ k.todo = j.todo \ {i} /\ k.id = j.id /\ k.want = j.want /\ k.looked = j.looked
    BY <1>1 DEF Job
  <2>4. Goto(s, "check", k)
    BY <1>3
  <2> HIDE DEF k
  <2>5. /\ NewCodes(k) = NewCodes(j) /\ CommonRoles(k) = CommonRoles(j)
        /\ PrunedRoles(k) = PrunedRoles(j) /\ \A m : WantedBy(k, m) = WantedBy(j, m)
    BY <2>3, SameDiff
  <2>6. Phases("check", k) /\ Holds(s, "check", k) /\ Codings("check", k)
    BY <1>1, <1>2, <2>3, <2>5 DEF Phases, Holds, Refers, Waiting, Codings
  <2>7. Counts("check", k) /\ Owns(k)
    BY <1>1, <1>2, <2>1, <2>3, <2>5 DEF Counts, Counted, Owns
  <2>8. Writes("check", k) /\ Replaces("check", k)
    BY <1>1, <1>2, <2>3, <2>5
       DEF Writes, MayUnlink, MayLink, Unwritten, Waiting, Looks, Unlinked, Linked,
           Replaces, Current, Settled
  <2>9. \A t \in Procs \ {s} : Apart(k, job[t]) /\ Apart(job[t], k)
    BY <1>1, <2>3, SameApartId
  <2> QED BY <1>3, <2>2, <2>4, <2>6, <2>7, <2>8, <2>9, QuietStep DEF Labels
<1>4. ASSUME j.todo = {}, NEW l \in {"commit", "drop"}, l = "commit" => PrunedRoles(j) = {},
             Goto(s, l, j), UNCHANGED <<tables, lock, ghosts>>
      PROVE  IInv'
  <2>1. Phases(l, j) /\ Holds(s, l, j) /\ Codings(l, j)
    BY <1>1, <1>2, <1>4 DEF Phases, Holds, Refers, Waiting, Codings
  <2>2. Counts(l, j)
    BY <1>1, <1>2, <1>4 DEF Counts, Counted
  <2>3. Writes(l, j)
    BY <1>1, <1>2, <1>4 DEF Writes, MayUnlink, MayLink, Unwritten, Waiting, Looks
  <2>4. Replaces(l, j)
    BY <1>1, <1>4 DEF Replaces, Current
  <2> QED BY <1>1, <1>4, <2>1, <2>2, <2>3, <2>4, QuietStep DEF Labels
<1> QED BY <1>3, <1>4, AbortStep DEF SyncCheck

LEMMA SeeStep ==
    ASSUME IInv, NEW s \in Procs, See(s)
    PROVE  IInv'
<1> DEFINE j == job[s]
           k == [j EXCEPT !.seen = BoundTo(j.id), !.looked = @ \union {j.id}]
<1>1. /\ TypeOK /\ j \in Job /\ pc[s] = "see"
      /\ Phases("see", j) /\ Holds(s, "see", j) /\ Codings("see", j)
      /\ Counts("see", j) /\ Owns(j) /\ Writes("see", j) /\ Replaces("see", j)
      /\ \A t \in Procs \ {s} : Apart(j, job[t]) /\ Apart(job[t], j) /\ job[t] \in Job
  BY Facts DEF See
<1>2. Goto(s, "unbind", k) /\ UNCHANGED <<tables, lock, ghosts>>
  BY DEF See
<1>3. j.id \in Ids /\ j.kind \in {"sync", "assign"} /\ j.drop = {}
  BY <1>1 DEF Phases
<1>4. j.id \in j.looked
  BY <1>1, <1>3 DEF Writes, Looks, Phases
<1>5. k \in Job
  BY <1>1, <1>3, ZenonT(60) DEF Job, BoundTo
<1>6. /\ k.kind = j.kind /\ k.items = j.items /\ k.snap = j.snap /\ k.rows = j.rows
      /\ k.bound = j.bound /\ k.unbound = j.unbound /\ k.grant = j.grant /\ k.drop = j.drop
      /\ k.dirty = j.dirty /\ k.late = j.late /\ k.moved = j.moved
      /\ k.todo = j.todo /\ k.id = j.id /\ k.want = j.want /\ k.looked = j.looked
      /\ k.seen = BoundTo(j.id)
  BY <1>1, <1>4 DEF Job
<1> HIDE DEF k
<1>7. /\ NewCodes(k) = NewCodes(j) /\ CommonRoles(k) = CommonRoles(j)
      /\ PrunedRoles(k) = PrunedRoles(j) /\ \A m : WantedBy(k, m) = WantedBy(j, m)
  BY <1>6, SameDiff
<1>8. Phases("unbind", k) /\ Holds(s, "unbind", k) /\ Codings("unbind", k)
  BY <1>1, <1>3, <1>6, <1>7 DEF Phases, Holds, Refers, Waiting, Codings
<1>9. Counts("unbind", k) /\ Owns(k)
  BY <1>1, <1>3, <1>6, <1>7 DEF Counts, Counted, Owns
<1>10. Writes("unbind", k)
  BY <1>1, <1>3, <1>6, <1>7
     DEF Writes, MayUnlink, MayLink, Unwritten, Waiting, Looks, Unlinked, Linked
<1>11. Replaces("unbind", k)
  BY <1>1, <1>3, <1>6, <1>7 DEF Replaces, Current, Settled, Unlinked, Linked
<1>12. \A t \in Procs \ {s} : Apart(k, job[t]) /\ Apart(job[t], k)
  BY <1>1, <1>6, SameApartId
<1> QED BY <1>2, <1>5, <1>8, <1>9, <1>10, <1>11, <1>12, QuietStep DEF Labels

LEMMA UnbindStep ==
    ASSUME IInv, NEW s \in Procs, Unbind(s)
    PROVE  IInv'
<1> DEFINE j == job[s]
           k == [j EXCEPT !.unbound = @ \union (Bindings(j.id, j.seen) \intersect link),
                          !.seen = {}]
<1>1. /\ TypeOK /\ j \in Job /\ pc[s] = "unbind"
      /\ Phases("unbind", j) /\ Holds(s, "unbind", j) /\ Codings("unbind", j)
      /\ Counts("unbind", j) /\ Owns(j) /\ Writes("unbind", j) /\ Replaces("unbind", j)
      /\ \A t \in Procs \ {s} : Apart(j, job[t]) /\ Apart(job[t], j) /\ job[t] \in Job
  BY Facts DEF Unbind
<1>2. Goto(s, "bind", k) /\ UNCHANGED <<tables, lock, ghosts>>
  BY DEF Unbind
<1>3. j.id \in Ids /\ j.kind \in {"sync", "assign"} /\ j.drop = {}
  BY <1>1 DEF Phases
<1>4. \A t \in Procs \ {s} : j.id \notin job[t].drop
  BY <1>1 DEF Unbind, Blockers, Blocks
<1>5. k \in Job
  BY <1>1, <1>3, ZenonT(60) DEF Job, Bindings
<1>6. /\ k.kind = j.kind /\ k.items = j.items /\ k.snap = j.snap /\ k.rows = j.rows
      /\ k.bound = j.bound /\ k.grant = j.grant /\ k.drop = j.drop
      /\ k.dirty = j.dirty /\ k.late = j.late /\ k.moved = j.moved
      /\ k.todo = j.todo /\ k.id = j.id /\ k.want = j.want /\ k.looked = j.looked
      /\ k.unbound = j.unbound \union (Bindings(j.id, j.seen) \intersect link)
  BY <1>1 DEF Job
<1> HIDE DEF k
<1>7. /\ NewCodes(k) = NewCodes(j) /\ CommonRoles(k) = CommonRoles(j)
      /\ PrunedRoles(k) = PrunedRoles(j) /\ \A m : WantedBy(k, m) = WantedBy(j, m)
  BY <1>6, SameDiff
<1>8. Phases("bind", k) /\ Holds(s, "bind", k) /\ Codings("bind", k)
  BY <1>1, <1>3, <1>6, <1>7 DEF Phases, Holds, Refers, Waiting, Codings
<1>9. Counts("bind", k) /\ Owns(k)
  BY <1>1, <1>3, <1>6, <1>7 DEF Counts, Counted, Owns
<1>10. /\ \A m : Linked(k, m) = Linked(j, m)
       /\ \A m : m # j.id => Unlinked(k, m) = Unlinked(j, m)
       /\ Unlinked(k, j.id) = Unlinked(j, j.id) \union (j.seen \intersect BoundTo(j.id))
  <2>1. j.seen \subseteq Perms
    BY <1>1 DEF Job
  <2> QED BY <1>6, <2>1 DEF Linked, Unlinked, Bindings, BoundTo
<1>11. Writes("bind", k)
  <2>1. MayLink("bind", k) = MayLink("unbind", j)
    BY <1>3, <1>6, <1>7 DEF MayLink, Unwritten, Waiting
  <2>2. MayUnlink("bind", k) = MayUnlink("unbind", j) \union {j.id}
    BY <1>3, <1>6, <1>7 DEF MayUnlink, Unwritten, Waiting
  <2>3. Looks("bind", k) = Looks("unbind", j)
    BY <1>3, <1>6, <1>7 DEF Looks
  <2> QED BY <1>1, <1>6, <1>7, <1>10, <2>1, <2>2, <2>3 DEF Writes
<1>12. Replaces("bind", k)
  <2>1. ASSUME NEW i \in j.looked \ j.dirty, code[i] # NoCode, i # j.id
        PROVE  Settled(k, i)
    BY <1>1, <1>7, <1>10, <2>1 DEF Replaces, Current, Settled
  <2>2. j.id \in j.looked \ j.dirty /\ code[j.id] # NoCode => BoundTo(j.id) \subseteq Unlinked(k, j.id)
    BY <1>1, <1>10 DEF Replaces
  <2> QED BY <1>6, <2>1, <2>2 DEF Replaces, Current
<1>13. ASSUME NEW t \in Procs \ {s} PROVE Apart(k, job[t]) /\ Apart(job[t], k)
  <2>1. ASSUME NEW i \in job[t].drop PROVE ~TouchesRole(k, i)
    <3>1. i # j.id
      BY <1>4, <2>1
    <3> QED BY <1>1, <1>6, <2>1, <3>1 DEF TouchesRole, Apart, Bindings
  <2> QED BY <1>1, <1>6, <2>1 DEF Apart
<1> QED BY <1>2, <1>5, <1>8, <1>9, <1>11, <1>12, <1>13, QuietStep DEF Labels

LEMMA BindStep ==
    ASSUME IInv, NEW s \in Procs, Bind(s)
    PROVE  IInv'
<1> DEFINE j == job[s]
           l == IF j.kind = "sync" THEN "compare" ELSE "commit"
           k == [j EXCEPT !.bound = @ \union Bindings(j.id, j.want),
                          !.want = IF j.kind = "sync" THEN {} ELSE @]
<1>1. /\ TypeOK /\ j \in Job /\ pc[s] = "bind"
      /\ Phases("bind", j) /\ Holds(s, "bind", j) /\ Codings("bind", j)
      /\ Counts("bind", j) /\ Owns(j) /\ Writes("bind", j) /\ Replaces("bind", j)
      /\ \A t \in Procs \ {s} : Apart(j, job[t]) /\ Apart(job[t], j) /\ job[t] \in Job
  BY Facts DEF Bind
<1>2. j.id \in Ids /\ j.kind \in {"sync", "assign"} /\ j.drop = {}
  BY <1>1 DEF Phases
<1>3. SUFFICES ASSUME j.want # {} => code[j.id] # NoCode,
                      Goto(s, l, k), UNCHANGED <<tables, lock, ghosts>>
               PROVE  IInv'
  BY AbortStep DEF Bind
<1>4. \A t \in Procs \ {s} : j.id \notin job[t].drop
  BY <1>1 DEF Bind, Blockers, Blocks
<1>5. k \in Job
  <2> DEFINE b == j.bound \union Bindings(j.id, j.want)
             w == IF j.kind = "sync" THEN {} ELSE j.want
  <2>1. b \in SUBSET (Ids \X Perms) /\ w \in SUBSET Perms
    BY <1>1, <1>2 DEF Job, Bindings
  <2>2. k = [j EXCEPT !.bound = b, !.want = w]
    OBVIOUS
  <2> HIDE DEF b, w, k
  <2> QED BY <1>1, <2>1, <2>2, ZenonT(60) DEF Job
<1>6. /\ k.kind = j.kind /\ k.items = j.items /\ k.snap = j.snap /\ k.rows = j.rows
      /\ k.unbound = j.unbound /\ k.grant = j.grant /\ k.drop = j.drop
      /\ k.dirty = j.dirty /\ k.late = j.late /\ k.moved = j.moved
      /\ k.todo = j.todo /\ k.id = j.id /\ k.looked = j.looked
      /\ k.want = (IF j.kind = "sync" THEN {} ELSE j.want)
      /\ k.bound = j.bound \union Bindings(j.id, j.want)
  BY <1>1 DEF Job
<1>a. l \in Labels /\ l \in {"compare", "commit"} /\ (l = "compare" <=> j.kind = "sync")
  BY DEF Labels
<1> HIDE DEF k, l
<1>7. /\ NewCodes(k) = NewCodes(j) /\ CommonRoles(k) = CommonRoles(j)
      /\ PrunedRoles(k) = PrunedRoles(j) /\ \A m : WantedBy(k, m) = WantedBy(j, m)
  BY <1>2, <1>6, SameDiff
<1>8. Phases(l, k)
  BY <1>1, <1>2, <1>6, <1>7, <1>a DEF Phases
<1>9. Codings(l, k) /\ Counts(l, k) /\ Owns(k)
  BY <1>1, <1>2, <1>6, <1>7, <1>a DEF Codings, Counts, Counted, Owns
<1>10. Holds(s, l, k)
  <2>1. \A a \in k.bound : code[a[1]] # NoCode \/ k.rows[a[1]] # NoCode
    BY <1>1, <1>3, <1>6 DEF Holds, Refers, Bindings
  <2>2. k.kind = "sync" => \A i \in CommonRoles(k) \ Waiting(l, k) : lock[i] = s
    BY <1>1, <1>2, <1>6, <1>7, <1>a DEF Holds, Refers, Waiting
  <2> QED BY <1>1, <1>6, <2>1, <2>2 DEF Holds, Refers
<1>11. /\ \A m : Unlinked(k, m) = Unlinked(j, m)
       /\ \A m : m # j.id => Linked(k, m) = Linked(j, m)
       /\ Linked(k, j.id) = Linked(j, j.id) \union j.want
  <2>1. j.want \subseteq Perms
    BY <1>1 DEF Job
  <2> QED BY <1>6, <2>1 DEF Linked, Unlinked, Bindings
<1>12. j.rows[j.id] = NoCode /\ Linked(j, j.id) = {}
  <2>1. j.rows[j.id] = NoCode
    BY <1>1, <1>2, DiffTyped DEF Phases, Holds, Refers
  <2>2. j.id \notin MayLink("bind", j)
    BY <1>2, <2>1 DEF MayLink, Unwritten
  <2> QED BY <1>1, <1>2, <2>1, <2>2 DEF Writes
<1>13. j.want = WantedBy(j, j.id)
  BY <1>1 DEF Writes
<1>14. Writes(l, k)
  <2>1. \A i \in Ids : Unlinked(k, i) # {} => i \in MayUnlink(l, k)
    <3>1. MayUnlink("bind", j) \subseteq MayUnlink(l, k)
      BY <1>1, <1>2, <1>6, <1>7, <1>a DEF MayUnlink, Unwritten, Waiting, Phases
    <3> QED BY <1>1, <1>11, <3>1 DEF Writes
  <2>2. \A i \in Ids : Linked(k, i) # {} => i \in MayLink(l, k)
    <3>1. MayLink("bind", j) \union {j.id} \subseteq MayLink(l, k)
      BY <1>1, <1>2, <1>6, <1>7, <1>a DEF MayLink, Unwritten, Waiting, Phases
    <3> QED BY <1>1, <1>11, <3>1 DEF Writes
  <2>3. k.looked = Looks(l, k)
    BY <1>1, <1>2, <1>6, <1>7, <1>a DEF Looks, Writes
  <2> QED BY <1>1, <1>6, <1>7, <1>11, <1>12, <1>a, <2>1, <2>2, <2>3 DEF Writes
<1>15. Replaces(l, k)
  <2>1. ASSUME NEW i \in j.looked \ j.dirty, code[i] # NoCode PROVE Settled(k, i)
    <3>1. CASE i # j.id
      BY <1>1, <1>7, <1>11, <2>1, <3>1 DEF Replaces, Current, Settled
    <3>2. CASE i = j.id
      <4>1. BoundTo(i) \subseteq Unlinked(k, i)
        BY <1>1, <1>11, <2>1, <3>2 DEF Replaces
      <4> QED BY <1>7, <1>11, <1>12, <1>13, <3>2, <4>1 DEF Settled
    <3> QED BY <3>1, <3>2
  <2> QED BY <1>6, <1>a, <2>1 DEF Replaces, Current
<1>16. ASSUME NEW t \in Procs \ {s} PROVE Apart(k, job[t]) /\ Apart(job[t], k)
  <2>1. ASSUME NEW i \in job[t].drop PROVE ~TouchesRole(k, i)
    <3>1. i # j.id
      BY <1>4, <2>1
    <3> QED BY <1>1, <1>6, <2>1, <3>1 DEF TouchesRole, Apart, Bindings
  <2> QED BY <1>1, <1>6, <2>1 DEF Apart
<1> QED BY <1>3, <1>5, <1>8, <1>9, <1>10, <1>14, <1>15, <1>16, <1>a, QuietStep

LEMMA GrantInsertStep ==
    ASSUME IInv, NEW s \in Procs, GrantInsert(s)
    PROVE  IInv'
<1> DEFINE j == job[s]
           k == [j EXCEPT !.grant = j.who \X {j.id}]
<1>1. /\ TypeOK /\ j \in Job /\ pc[s] = "grant"
      /\ Phases("grant", j) /\ Holds(s, "grant", j) /\ Codings("grant", j)
      /\ Counts("grant", j) /\ Owns(j) /\ Writes("grant", j) /\ Replaces("grant", j)
      /\ \A t \in Procs \ {s} : Apart(j, job[t]) /\ Apart(job[t], j) /\ job[t] \in Job
  BY Facts DEF GrantInsert
<1>2. j.id \in Ids /\ j.kind = "grant" /\ j.drop = {}
  BY <1>1 DEF Phases
<1>3. SUFFICES ASSUME code[j.id] # NoCode, Goto(s, "commit", k), UNCHANGED <<tables, lock, ghosts>>
               PROVE  IInv'
  BY AbortStep DEF GrantInsert
<1>4. \A t \in Procs \ {s} : j.id \notin job[t].drop
  BY <1>1 DEF GrantInsert, Blockers, Blocks
<1>5. k \in Job
  BY <1>1, <1>2 DEF Job
<1>6. /\ k.kind = j.kind /\ k.items = j.items /\ k.snap = j.snap /\ k.rows = j.rows
      /\ k.bound = j.bound /\ k.unbound = j.unbound /\ k.drop = j.drop
      /\ k.dirty = j.dirty /\ k.late = j.late /\ k.moved = j.moved
      /\ k.todo = j.todo /\ k.id = j.id /\ k.want = j.want /\ k.looked = j.looked
      /\ k.grant = j.who \X {j.id}
  BY <1>1 DEF Job
<1> HIDE DEF k
<1>7. Phases("commit", k) /\ Holds(s, "commit", k) /\ Codings("commit", k)
  BY <1>1, <1>2, <1>3, <1>6 DEF Phases, Holds, Refers, Codings
<1>8. Counts("commit", k) /\ Owns(k)
  BY <1>2, <1>6 DEF Counts, Counted, Owns
<1>9. Writes("commit", k) /\ Replaces("commit", k)
  <2>1. j.looked = {} /\ \A i \in Ids : j.rows[i] = NoCode
    BY <1>1, <1>2 DEF Writes, Looks, Phases
  <2>2. \A i \in Ids : Unlinked(k, i) = {} /\ Linked(k, i) = {}
    BY <1>1, <1>2, <1>6 DEF Writes, MayUnlink, MayLink, Unlinked, Linked
  <2> QED BY <1>2, <1>6, <2>1, <2>2 DEF Writes, Looks, Replaces
<1>10. ASSUME NEW t \in Procs \ {s} PROVE Apart(k, job[t]) /\ Apart(job[t], k)
  <2>1. ASSUME NEW i \in job[t].drop PROVE ~TouchesRole(k, i)
    <3>1. i # j.id
      BY <1>4, <2>1
    <3> QED BY <1>1, <1>6, <2>1, <3>1 DEF TouchesRole, Apart
  <2> QED BY <1>1, <1>6, <2>1 DEF Apart
<1> QED BY <1>3, <1>5, <1>7, <1>8, <1>9, <1>10, QuietStep DEF Labels

LEMMA SyncLockStep ==
    ASSUME IInv, NEW s \in Procs, SyncLock(s)
    PROVE  IInv'
<1> DEFINE j == job[s]
           l == IF j.changed THEN "see" ELSE "compare"
           k == [j EXCEPT !.changed = FALSE]
<1>1. /\ TypeOK /\ j \in Job /\ pc[s] = "lock"
      /\ Phases("lock", j) /\ Holds(s, "lock", j) /\ Codings("lock", j)
      /\ Counts("lock", j) /\ Owns(j) /\ Writes("lock", j) /\ Replaces("lock", j)
      /\ \A t \in Procs \ {s} : Apart(j, job[t]) /\ Apart(job[t], j) /\ job[t] \in Job
  BY Facts DEF SyncLock
<1>2. j.id \in Ids /\ j.kind = "sync" /\ j.drop = {} /\ j.id \in CommonRoles(j) \ j.todo
      /\ j.todo \subseteq CommonRoles(j)
  BY <1>1 DEF Phases
<1>3. SUFFICES ASSUME code[j.id] # NoCode, lock' = Locked(s, {j.id}),
                      Goto(s, l, k), UNCHANGED <<tables, ghosts>>
               PROVE  IInv'
  BY AbortStep DEF SyncLock
<1>4. \A t \in Procs \ {s} : lock[j.id] # t
  BY <1>1 DEF SyncLock, Blockers, Blocks
<1>5. k \in Job
  BY <1>1, ZenonT(60) DEF Job
<1>6. /\ k.kind = j.kind /\ k.items = j.items /\ k.snap = j.snap /\ k.rows = j.rows
      /\ k.bound = j.bound /\ k.unbound = j.unbound /\ k.grant = j.grant /\ k.drop = j.drop
      /\ k.dirty = j.dirty /\ k.late = j.late /\ k.moved = j.moved
      /\ k.todo = j.todo /\ k.id = j.id /\ k.want = j.want /\ k.looked = j.looked
      /\ k.changed = FALSE
  BY <1>1 DEF Job
<1>7. l \in Labels /\ l \in {"see", "compare"} /\ (l = "compare" => ~j.changed)
  BY DEF Labels
<1> HIDE DEF k, l
<1>8. /\ lock' \in [Ids -> Procs \union {NoProc}]
      /\ \A i \in Ids : lock'[i] = (IF i = j.id THEN s ELSE lock[i])
      /\ code' = code
  BY <1>1, <1>3 DEF Locked, TypeOK, tables
<1>9. /\ NewCodes(k) = NewCodes(j) /\ CommonRoles(k) = CommonRoles(j)
      /\ PrunedRoles(k) = PrunedRoles(j) /\ \A m : WantedBy(k, m) = WantedBy(j, m)
  BY <1>6, SameDiff
<1>10. Phases(l, k)
  BY <1>1, <1>2, <1>6, <1>7, <1>9 DEF Phases
<1>11. /\ Refers(k) /\ \A i \in k.drop : lock'[i] = s
       /\ k.kind = "sync" => \A i \in CommonRoles(k) \ Waiting(l, k) : lock'[i] = s
  <2>1. \A i \in CommonRoles(k) \ Waiting(l, k) : lock'[i] = s
    BY <1>1, <1>2, <1>6, <1>7, <1>8, <1>9, DiffTyped DEF Holds, Refers, Waiting
  <2> QED BY <1>1, <1>2, <1>6, <1>8, <2>1 DEF Holds, Refers
<1>12. Codings(l, k) /\ Counts(l, k) /\ Owns(k)
  BY <1>1, <1>2, <1>6, <1>7, <1>9 DEF Codings, Counts, Counted, Owns
<1>13. \A m : Linked(k, m) = Linked(j, m) /\ Unlinked(k, m) = Unlinked(j, m)
  BY <1>6 DEF Linked, Unlinked
<1>14. Writes(l, k)
  <2>1. MayUnlink("lock", j) \subseteq MayUnlink(l, k) /\ MayLink("lock", j) \subseteq MayLink(l, k)
    BY <1>2, <1>6, <1>7, <1>9 DEF MayUnlink, MayLink, Unwritten, Waiting
  <2>2. k.looked = Looks(l, k)
    BY <1>1, <1>2, <1>6, <1>7, <1>9 DEF Looks, Writes
  <2> QED BY <1>1, <1>6, <1>7, <1>9, <1>13, <2>1, <2>2 DEF Writes
<1>15. Replaces(l, k)
  <2>1. \A m : Settled(k, m) <=> Settled(j, m)
    BY <1>9, <1>13 DEF Settled
  <2> QED BY <1>1, <1>6, <1>7, <2>1 DEF Replaces, Current
<1>16. \A t \in Procs \ {s} : Apart(k, job[t]) /\ Apart(job[t], k)
  BY <1>1, <1>6, SameApartId
<1>17. /\ \A i \in Ids : \A t \in Procs \ {s} : lock[i] = t => lock'[i] = t
       /\ \A i \in Ids : lock'[i] # NoProc => code[i] # NoCode
  BY <1>3, <1>4, <1>8 DEF IInv
<1> QED BY <1>3, <1>5, <1>7, <1>8, <1>10, <1>11, <1>12, <1>14, <1>15, <1>16, <1>17, LocalStep

LEMMA DropStep ==
    ASSUME IInv, NEW s \in Procs, Drop(s)
    PROVE  IInv'
<1> DEFINE j == job[s]
           rows == ToDrop(j) \intersect Stored
           k == [j EXCEPT !.drop = rows]
<1>1. /\ TypeOK /\ j \in Job /\ pc[s] = "drop"
      /\ Phases("drop", j) /\ Holds(s, "drop", j) /\ Codings("drop", j)
      /\ Counts("drop", j) /\ Owns(j) /\ Writes("drop", j) /\ Replaces("drop", j)
      /\ \A t \in Procs \ {s} : Apart(j, job[t]) /\ Apart(job[t], j) /\ job[t] \in Job
  BY Facts DEF Drop
<1>2. j.kind \in {"sync", "delete"}
  BY <1>1 DEF Phases
<1>3. lock' = Locked(s, rows) /\ Goto(s, "commit", k) /\ UNCHANGED <<tables, ghosts>>
  BY DEF Drop
<1>4. \A t \in Procs \ {s} : \A i \in ToDrop(j) : lock[i] # t /\ ~TouchesRole(job[t], i)
  BY <1>1 DEF Drop, Blockers, Blocks
<1>5. rows \in SUBSET Ids /\ rows \subseteq ToDrop(j) /\ \A i \in rows : code[i] # NoCode
  BY DEF Stored
<1>6. k \in Job
  BY <1>1, <1>5 DEF Job
<1>7. /\ k.kind = j.kind /\ k.items = j.items /\ k.snap = j.snap /\ k.rows = j.rows
      /\ k.bound = j.bound /\ k.unbound = j.unbound /\ k.grant = j.grant
      /\ k.dirty = j.dirty /\ k.late = j.late /\ k.moved = j.moved
      /\ k.todo = j.todo /\ k.id = j.id /\ k.want = j.want /\ k.looked = j.looked
      /\ k.drop = rows
  BY <1>1 DEF Job
<1>8. \A i \in ToDrop(j) \intersect Ids : i \in rows \/ code[i] = NoCode
  BY DEF Stored
<1> HIDE DEF k, rows
<1>9. /\ lock' \in [Ids -> Procs \union {NoProc}]
      /\ \A i \in Ids : lock'[i] = (IF i \in rows THEN s ELSE lock[i])
      /\ code' = code
  BY <1>1, <1>3 DEF Locked, TypeOK, tables
<1>10. /\ NewCodes(k) = NewCodes(j) /\ CommonRoles(k) = CommonRoles(j)
       /\ PrunedRoles(k) = PrunedRoles(j) /\ \A m : WantedBy(k, m) = WantedBy(j, m)
       /\ ToDrop(k) = ToDrop(j)
  BY <1>7, SameDiff DEF ToDrop
<1>11. Phases("commit", k)
  BY <1>1, <1>2, <1>5, <1>7, <1>10 DEF Phases
<1>12. /\ Refers(k) /\ \A i \in k.drop : lock'[i] = s
       /\ k.kind = "sync" => \A i \in CommonRoles(k) \ Waiting("commit", k) : lock'[i] = s
  <2>1. k.kind = "sync" => \A i \in CommonRoles(k) : lock'[i] = s
    BY <1>1, <1>7, <1>9, <1>10, DiffTyped DEF Holds, Refers, Waiting
  <2>2. \A i \in k.drop : lock'[i] = s
    BY <1>5, <1>7, <1>9
  <2> QED BY <1>1, <1>7, <1>9, <2>1, <2>2 DEF Holds, Refers
<1>13. Codings("commit", k)
  <2>1. k.kind = "sync" => \A i \in PrunedRoles(k) : i \in k.drop \/ code[i] = NoCode
    BY <1>1, <1>7, <1>8, <1>10, DiffTyped DEF ToDrop
  <2> QED BY <1>1, <1>7, <1>10, <2>1 DEF Codings
<1>14. Counts("commit", k) /\ Owns(k)
  BY <1>1, <1>2, <1>7, <1>10 DEF Counts, Counted, Owns
<1>15. \A m : Linked(k, m) = Linked(j, m) /\ Unlinked(k, m) = Unlinked(j, m)
  BY <1>7 DEF Linked, Unlinked
<1>16. Writes("commit", k)
  <2>1. MayUnlink("drop", j) = MayUnlink("commit", k) /\ MayLink("drop", j) = MayLink("commit", k)
    BY <1>2, <1>7, <1>10 DEF MayUnlink, MayLink, Unwritten, Waiting
  <2>2. k.looked = Looks("commit", k)
    BY <1>1, <1>2, <1>7, <1>10 DEF Looks, Writes
  <2> QED BY <1>1, <1>7, <1>10, <1>15, <2>1, <2>2 DEF Writes
<1>17. Replaces("commit", k)
  BY <1>1, <1>7, <1>10, <1>15 DEF Replaces, Current, Settled
<1>18. ASSUME NEW t \in Procs \ {s} PROVE Apart(k, job[t]) /\ Apart(job[t], k)
  <2>1. Apart(k, job[t])
    BY <1>1, <1>7 DEF Apart, TouchesRole
  <2>2. Apart(job[t], k)
    BY <1>1, <1>4, <1>5, <1>7 DEF Apart
  <2> QED BY <2>1, <2>2
<1>19. /\ \A i \in Ids : \A t \in Procs \ {s} : lock[i] = t => lock'[i] = t
       /\ \A i \in Ids : lock'[i] # NoProc => code[i] # NoCode
  BY <1>4, <1>5, <1>9 DEF IInv
<1> QED BY <1>3, <1>6, <1>9, <1>11, <1>12, <1>13, <1>14, <1>16, <1>17, <1>18, <1>19, LocalStep
        DEF Labels

LEMMA SyncInsertStep ==
    ASSUME IInv, NEW s \in Procs, SyncInsert(s)
    PROVE  IInv'
<1> DEFINE j == job[s]
           new == NewCodes(j)
<1>1. /\ TypeOK /\ j \in Job /\ pc[s] = "insert"
      /\ Phases("insert", j) /\ Holds(s, "insert", j) /\ Codings("insert", j)
      /\ Counts("insert", j) /\ Owns(j) /\ Writes("insert", j) /\ Replaces("insert", j)
      /\ \A t \in Procs \ {s} : /\ Apart(j, job[t]) /\ Apart(job[t], j) /\ job[t] \in Job
                                /\ Holds(t, pc[t], job[t])
  BY Facts DEF SyncInsert
<1>2. j.kind = "sync" /\ j.drop = {} /\ j.looked = {} /\ \A i \in Ids : j.rows[i] = NoCode
  BY <1>1 DEF Phases
<1>3. new \subseteq Codes /\ (\A c : Target(j.items[c]) \subseteq Perms)
      /\ CommonRoles(j) \in SUBSET Ids /\ NoCode \notin new
  BY <1>1, DiffTyped, IdAssumption
<1>4. CASE Abort(s)
  BY <1>4, AbortStep
<1>5. ASSUME NEW idOf \in [new -> Fresh],
             \A c, d \in new : idOf[c] = idOf[d] => c = d,
             Goto(s, "compare",
                  [AfterInsert(j) EXCEPT
                     !.rows = [i \in Ids |-> IF \E c \in new : idOf[c] = i
                                             THEN CHOOSE c \in new : idOf[c] = i
                                             ELSE NoCode],
                     !.bound = UNION {Bindings(idOf[c], Target(j.items[c])) : c \in new}]),
             UNCHANGED <<tables, lock, ghosts>>
      PROVE  IInv'
  <2> DEFINE rows == [i \in Ids |-> IF \E c \in new : idOf[c] = i
                                    THEN CHOOSE c \in new : idOf[c] = i
                                    ELSE NoCode]
             bound == UNION {Bindings(idOf[c], Target(j.items[c])) : c \in new}
             k == [AfterInsert(j) EXCEPT !.rows = rows, !.bound = bound]
  <2>1. \A c \in new : idOf[c] \in Fresh /\ idOf[c] \in Ids
    BY DEF Fresh
  <2>2. \A c \in new : rows[idOf[c]] = c
    BY <1>5, <2>1
  <2>3. \A i \in Ids : rows[i] # NoCode => rows[i] \in new /\ idOf[rows[i]] = i
    OBVIOUS
  <2>4. rows \in [Ids -> Codes \union {NoCode}]
    BY <1>3, <2>3
  <2>5. \A a : a \in bound <=> \E c \in new : \E p \in Target(j.items[c]) : a = <<idOf[c], p>>
    BY DEF Bindings
  <2>6. bound \in SUBSET (Ids \X Perms)
    BY <1>3, <2>1, <2>5
  <2>7. Goto(s, "compare", k)
    BY <1>5
  <2> HIDE DEF rows, bound
  <2>8. k \in Job
    BY <1>1, <1>3, <2>4, <2>6, ZenonT(60) DEF Job, AfterInsert
  <2>9. /\ k.kind = j.kind /\ k.items = j.items /\ k.snap = j.snap
        /\ k.unbound = j.unbound /\ k.grant = j.grant /\ k.drop = j.drop
        /\ k.dirty = j.dirty /\ k.late = j.late /\ k.moved = j.moved
        /\ k.id = j.id /\ k.looked = j.looked
        /\ k.todo = CommonRoles(j) /\ k.rows = rows /\ k.bound = bound
    BY <1>1 DEF Job, AfterInsert
  <2> HIDE DEF k
  <2>10. NewCodes(k) = new /\ CommonRoles(k) = CommonRoles(j) /\ PrunedRoles(k) = PrunedRoles(j)
    BY <2>9 DEF NewCodes, CommonRoles, PrunedRoles, SeenRole
  <2>11. \A i \in Ids : rows[i] # NoCode =>
           i \in Fresh /\ code[i] = NoCode
           /\ \A t \in Procs : job[t].snap[i] = NoCode /\ job[t].rows[i] = NoCode /\ job[t].id # i
    BY <2>1, <2>3 DEF Fresh
  <2>12. \A a \in bound : a[1] \in Ids /\ rows[a[1]] # NoCode
    BY <1>3, <2>1, <2>2, <2>5
  <2>13. Phases("compare", k)
    BY <1>1, <1>2, <2>9, <2>10 DEF Phases
  <2>14. Holds(s, "compare", k)
    BY <1>1, <1>2, <2>9, <2>10, <2>11, <2>12 DEF Holds, Refers, Waiting
  <2>15. Codings("compare", k)
    <3>1. \A c \in new : \E i \in Ids : k.rows[i] = c
      BY <2>1, <2>2, <2>9
    <3> QED BY <1>1, <1>2, <2>9, <2>10, <3>1 DEF Codings
  <2>16. Counts("compare", k) /\ Owns(k)
    BY <1>2, <2>9 DEF Counts, Counted, Owns
  <2>17. ASSUME NEW i \in Ids
         PROVE  /\ Unlinked(k, i) = {}
                /\ Linked(k, i) # {} => rows[i] # NoCode
                /\ rows[i] # NoCode => Linked(k, i) = WantedBy(k, i)
    <3>1. Unlinked(j, i) = {}
      BY <1>1, <1>2 DEF Writes, MayUnlink, Unwritten, Waiting
    <3>2. Unlinked(k, i) = {}
      BY <2>9, <3>1 DEF Unlinked
    <3>3. Linked(k, i) # {} => rows[i] # NoCode
      BY <2>9, <2>12 DEF Linked
    <3>4. ASSUME rows[i] # NoCode PROVE Linked(k, i) = WantedBy(k, i)
      <4>1. rows[i] \in new /\ idOf[rows[i]] = i
        BY <2>3, <3>4
      <4>2. \A p : <<i, p>> \in bound <=> p \in Target(j.items[rows[i]])
        BY <1>5, <2>5, <4>1
      <4>3. WantedBy(k, i) = Target(j.items[rows[i]])
        BY <1>2, <2>9, <3>4 DEF WantedBy
      <4> QED BY <1>3, <2>9, <4>2, <4>3 DEF Linked
    <3> QED BY <3>2, <3>3, <3>4
  <2>18. Writes("compare", k)
    <3>1. \A i \in Ids : rows[i] # NoCode => i \in MayLink("compare", k)
      BY <1>2, <2>9 DEF MayLink
    <3>2. k.looked = Looks("compare", k)
      BY <1>2, <2>9, <2>10 DEF Looks
    <3> QED BY <2>9, <2>17, <3>1, <3>2 DEF Writes
  <2>19. Replaces("compare", k)
    BY <1>2, <2>9 DEF Replaces
  <2>20. ASSUME NEW t \in Procs \ {s} PROVE Apart(k, job[t]) /\ Apart(job[t], k)
    <3>1. ASSUME NEW i \in job[t].drop PROVE ~TouchesRole(k, i)
      <4>1. i \in Ids /\ code[i] # NoCode
        BY <1>1, <3>1, ProcAssumption DEF Holds, Refers, IInv, Job
      <4>2. rows[i] = NoCode
        BY <2>11, <4>1
      <4>3. \A p \in Perms : <<i, p>> \notin bound
        BY <2>12, <4>2
      <4> QED BY <1>1, <2>9, <3>1, <4>3 DEF TouchesRole, Apart
    <3>2. Apart(k, job[t])
      BY <2>9, <2>11, <3>1 DEF Apart
    <3>3. Apart(job[t], k)
      BY <1>1, <1>2, <2>9, <2>11 DEF Apart
    <3> QED BY <3>2, <3>3
  <2> QED BY <1>5, <2>7, <2>8, <2>13, <2>14, <2>15, <2>16, <2>18, <2>19, <2>20, QuietStep DEF Labels
<1> QED BY <1>4, <1>5 DEF SyncInsert

-----------------------------------------------------------------------------
(* Commit, which is seen by every other request. *)

(* Effect of a commit, role by role.                                       *)
LEMMA CommitEffect ==
    ASSUME IInv, NEW s \in Procs, Commit(s)
    PROVE  /\ \A i \in job[s].drop : i \in Ids /\ lock[i] = s /\ code[i] # NoCode /\ code'[i] = NoCode
           /\ \A i \in Ids : job[s].rows[i] # NoCode =>
                /\ code[i] = NoCode /\ i \notin job[s].drop /\ code'[i] = job[s].rows[i]
                /\ i \in Replaced(job[s])
           /\ \A i \in Ids : i \notin job[s].drop /\ job[s].rows[i] = NoCode => code'[i] = code[i]
           /\ \A i \in Ids : i \notin job[s].drop =>
                BoundTo(i)' = (BoundTo(i) \ Unlinked(job[s], i)) \union Linked(job[s], i)
           /\ \A i \in Ids : code'[i] # NoCode /\ i \notin Replaced(job[s]) =>
                code[i] = code'[i] /\ BoundTo(i)' = BoundTo(i)
           /\ Replaced(job[s]) \subseteq Ids
           /\ \A i \in Replaced(job[s]) : code[i] # NoCode \/ job[s].rows[i] # NoCode
<1> DEFINE j == job[s]
<1>1. /\ TypeOK /\ j \in Job /\ pc[s] = "commit" /\ Phases("commit", j)
      /\ Holds(s, "commit", j) /\ Writes("commit", j)
  BY Facts DEF Commit
<1>2. \A i \in Ids : lock[i] # NoProc => code[i] # NoCode
  BY DEF IInv
<1>3. code' = [i \in Ids |-> IF i \in j.drop THEN NoCode
                               ELSE IF j.rows[i] # NoCode THEN j.rows[i] ELSE code[i]]
  BY DEF Commit
<1>4. \A i \in j.drop : i \in Ids /\ lock[i] = s /\ code[i] # NoCode /\ code'[i] = NoCode
  <2>1. j.drop \subseteq Ids
    BY <1>1 DEF Job
  <2>2. \A i \in j.drop : lock[i] = s
    BY <1>1 DEF Holds
  <2> QED BY <1>2, <1>3, <2>1, <2>2, ProcAssumption
<1>5. ASSUME NEW i \in Ids, j.rows[i] # NoCode
      PROVE  /\ code[i] = NoCode /\ i \notin j.drop /\ code'[i] = j.rows[i]
             /\ i \in Replaced(j)
  <2>1. code[i] = NoCode
    BY <1>1, <1>5 DEF Holds, Refers
  <2>2. i \notin j.drop
    BY <1>4, <2>1
  <2>3. code'[i] = j.rows[i]
    BY <1>3, <1>5, <2>2
  <2>4. i \in Replaced(j)
    BY <1>1, <1>5 DEF Phases, Replaced, Reported
  <2> QED BY <2>1, <2>2, <2>3, <2>4
<1>6. \A i \in Ids : i \notin j.drop /\ j.rows[i] = NoCode => code'[i] = code[i]
  BY <1>3
<1>7. ASSUME NEW i \in Ids, i \notin j.drop
      PROVE  BoundTo(i)' = (BoundTo(i) \ Unlinked(j, i)) \union Linked(j, i)
  <2>1. link' = ((link \ j.unbound) \union j.bound) \ OfRoles(j.drop)
    BY DEF Commit
  <2> QED BY <1>7, <2>1 DEF OfRoles, BoundTo, Unlinked, Linked
<1>8. ASSUME NEW i \in Ids, code'[i] # NoCode, i \notin Replaced(j)
      PROVE  code[i] = code'[i] /\ BoundTo(i)' = BoundTo(i)
  <2>1. i \notin j.drop /\ j.rows[i] = NoCode /\ code'[i] = code[i]
    BY <1>4, <1>5, <1>6, <1>8
  <2>2. i \notin MayUnlink("commit", j) /\ i \notin MayLink("commit", j)
    BY <1>1, <1>8, <2>1 DEF MayUnlink, MayLink, Unwritten, Waiting, Replaced, Reported, Stored
  <2>3. Linked(j, i) = {} /\ Unlinked(j, i) = {}
    BY <1>1, <2>2 DEF Writes
  <2> QED BY <1>7, <2>1, <2>3
<1>9. Replaced(j) \subseteq Ids /\ \A i \in Replaced(j) : code[i] # NoCode \/ j.rows[i] # NoCode
  <2>1. j.kind = "sync" => CommonRoles(j) \subseteq Ids /\ \A i \in CommonRoles(j) : code[i] # NoCode
    BY <1>1, <1>2, DiffTyped, ProcAssumption DEF Holds, Waiting
  <2> QED BY <2>1 DEF Replaced, Reported, Stored
<1> QED BY <1>4, <1>5, <1>6, <1>7, <1>8, <1>9

(* What it does to the locals of the others.                               *)
LEMMA Overtaken ==
    ASSUME NEW o \in Job, NEW d \in SUBSET Ids, NEW e \in SUBSET (Users \X Ids)
    PROVE  [o EXCEPT !.dirty = d, !.late = e] \in Job
BY DEF Job

LEMMA CommitOthers ==
    ASSUME IInv, NEW s \in Procs, Commit(s), NEW t \in Procs \ {s}
    PROVE  /\ pc'[t] = pc[t] /\ job'[t] \in Job
           /\ job'[t].kind = job[t].kind /\ job'[t].items = job[t].items
           /\ job'[t].snap = job[t].snap /\ job'[t].rows = job[t].rows
           /\ job'[t].bound = job[t].bound /\ job'[t].unbound = job[t].unbound
           /\ job'[t].grant = job[t].grant /\ job'[t].drop = job[t].drop
           /\ job'[t].moved = job[t].moved /\ job'[t].todo = job[t].todo
           /\ job'[t].id = job[t].id /\ job'[t].want = job[t].want
           /\ job'[t].looked = job[t].looked /\ job'[t].changed = job[t].changed
           /\ job'[t].seen = job[t].seen
           /\ job'[t].dirty = job[t].dirty \union (Replaced(job[s]) \intersect job[t].looked)
           /\ job'[t].late = job[t].late \union {a \in job[s].grant : a[2] \in Doomed(job[t])}
<1>1. TypeOK /\ job[t] \in Job /\ job[s] \in Job
  BY Facts
<1> DEFINE d == job[t].dirty \union (Replaced(job[s]) \intersect job[t].looked)
           e == job[t].late \union {a \in job[s].grant : a[2] \in Doomed(job[t])}
<1>2. d \in SUBSET Ids /\ e \in SUBSET (Users \X Ids)
  BY <1>1 DEF Job
<1>3. job'[t] = [job[t] EXCEPT !.dirty = d, !.late = e]
  BY DEF Commit
<1>4. pc'[t] = pc[t]
  BY <1>1 DEF Commit, TypeOK
<1> HIDE DEF d, e
<1>5. job'[t] \in Job
  <2>1. [job[t] EXCEPT !.dirty = d, !.late = e] \in Job
    BY <1>1, <1>2, Overtaken, Zenon
  <2> QED BY <1>3, <2>1
<1>6. job'[t].dirty = d /\ job'[t].late = e
  BY <1>1, <1>3 DEF Job
<1> QED BY <1>1, <1>3, <1>4, <1>5, <1>6, ZenonT(60) DEF Job, d, e

LEMMA CommitKeepsJobs ==
    ASSUME IInv, NEW s \in Procs, Commit(s), NEW t \in Procs \ {s},
           NEW l, NEW k, l = pc[t], k = job'[t]
    PROVE  JobOK(t, l, k)'
<1> DEFINE j == job[s]
           o == job[t]
<1>1. /\ TypeOK /\ o \in Job /\ j \in Job
      /\ Phases(l, o) /\ Holds(t, l, o) /\ Codings(l, o)
      /\ Counts(l, o) /\ Owns(o) /\ Writes(l, o) /\ Replaces(l, o)
      /\ Apart(o, j) /\ Apart(j, o)
  BY Facts
<1>2. /\ k \in Job
      /\ k.kind = o.kind /\ k.items = o.items /\ k.snap = o.snap /\ k.rows = o.rows
      /\ k.bound = o.bound /\ k.unbound = o.unbound /\ k.grant = o.grant /\ k.drop = o.drop
      /\ k.moved = o.moved /\ k.todo = o.todo /\ k.id = o.id /\ k.want = o.want
      /\ k.looked = o.looked /\ k.changed = o.changed /\ k.seen = o.seen
      /\ k.dirty = o.dirty \union (Replaced(j) \intersect o.looked)
      /\ k.late = o.late \union {a \in j.grant : a[2] \in Doomed(o)}
  BY CommitOthers
<1>3. /\ \A i \in j.drop : i \in Ids /\ lock[i] = s /\ code[i] # NoCode /\ code'[i] = NoCode
      /\ \A i \in Ids : j.rows[i] # NoCode =>
           code[i] = NoCode /\ i \notin j.drop /\ i \in Replaced(j)
      /\ \A i \in Ids : i \notin j.drop /\ j.rows[i] = NoCode => code'[i] = code[i]
      /\ \A i \in Ids : code'[i] # NoCode /\ i \notin Replaced(j) =>
           code[i] = code'[i] /\ BoundTo(i)' = BoundTo(i)
  BY CommitEffect
<1> HIDE DEF o, j
<1>4. /\ NewCodes(k) = NewCodes(o) /\ CommonRoles(k) = CommonRoles(o)
      /\ PrunedRoles(k) = PrunedRoles(o) /\ \A m : WantedBy(k, m) = WantedBy(o, m)
      /\ ToDrop(k) = ToDrop(o)
  BY <1>2, SameDiff DEF ToDrop
<1>5. \A m : Linked(k, m) = Linked(o, m) /\ Unlinked(k, m) = Unlinked(o, m)
  BY <1>2 DEF Linked, Unlinked
<1>6. Phases(l, k)'
  BY <1>1, <1>2, <1>4 DEF Phases
<1>7. Refers(k)'
  <2>1. ASSUME NEW a \in o.bound PROVE code'[a[1]] # NoCode \/ k.rows[a[1]] # NoCode
    <3>1. a[1] \in Ids /\ TouchesRole(o, a[1])
      BY <1>1, <2>1 DEF Job, TouchesRole
    <3>2. a[1] \notin j.drop
      BY <1>1, <3>1 DEF Apart
    <3> QED BY <1>1, <1>2, <1>3, <3>1, <3>2 DEF Holds, Refers
  <2>2. ASSUME NEW a \in o.grant PROVE code'[a[2]] # NoCode
    <3>1. a[2] \in Ids /\ TouchesRole(o, a[2])
      BY <1>1, <2>2 DEF Job, TouchesRole
    <3>2. a[2] \notin j.drop
      BY <1>1, <3>1 DEF Apart
    <3> QED BY <1>1, <1>2, <1>3, <3>1, <3>2 DEF Holds, Refers
  <2>3. ASSUME NEW i \in Ids, o.rows[i] # NoCode PROVE code'[i] = NoCode /\ o.snap[i] = NoCode
    BY <1>1, <1>3, <2>3 DEF Holds, Refers, Apart
  <2> QED BY <1>2, <2>1, <2>2, <2>3 DEF Refers
<1>8. Holds(t, l, k)'
  <2>1. lock' = [i \in Ids |-> IF lock[i] = s THEN NoProc ELSE lock[i]]
    BY DEF Commit, Released
  <2>2. \A i \in Ids : lock[i] = t => lock'[i] = t
    BY <2>1
  <2>3. o.drop \subseteq Ids /\ CommonRoles(o) \subseteq Ids
    BY <1>1, DiffTyped DEF Job
  <2> QED BY <1>1, <1>2, <1>4, <1>7, <2>2, <2>3 DEF Holds, Waiting
<1>9. Codings(l, k)'
  <2> SUFFICES ASSUME o.kind = "sync" PROVE Codings(l, k)'
    BY <1>2 DEF Codings
  <2>1. ASSUME NEW i \in Ids, o.snap[i] # NoCode PROVE code'[i] \in {code[i], NoCode}
    BY <1>1, <1>3, <2>1 DEF Apart
  <2>2. \A i \in CommonRoles(o) \union PrunedRoles(o) : i \in Ids /\ o.snap[i] # NoCode
    BY <1>1, DiffTyped
  <2> QED BY <1>1, <1>2, <1>4, <2>1, <2>2 DEF Codings
<1>10. Counts(l, k)'
  <2>1. held' = (held \union j.grant) \ HeldOf(j.drop)
    BY DEF Commit, j
  <2>2. Counted(l, k) = Counted(l, o)
    BY <1>2, <1>4 DEF Counted
  <2>3. Counted(l, o) \subseteq Doomed(o)
    BY DEF Counted, Doomed, ToDrop
  <2> QED BY <1>1, <1>2, <2>1, <2>2, <2>3 DEF Counts
<1>11. Owns(k)'
  <2>1. synced' = (synced \union Reported(j)) \ j.drop /\ Reported(j) \subseteq Replaced(j)
    BY DEF Commit, Replaced, j
  <2> QED BY <1>1, <1>2, <2>1 DEF Owns
<1>12. Writes(l, k)'
  <2>1. MayLink(l, k) = MayLink(l, o) /\ MayUnlink(l, k) = MayUnlink(l, o) /\ Looks(l, k) = Looks(l, o)
    BY <1>2, <1>4 DEF MayLink, MayUnlink, Unwritten, Waiting, Looks
  <2> QED BY <1>1, <1>2, <1>4, <1>5, <2>1 DEF Writes
<1>13. Replaces(l, k)'
  <2>1. ASSUME NEW i \in k.looked \ k.dirty, code'[i] # NoCode
        PROVE  code[i] # NoCode /\ BoundTo(i)' = BoundTo(i) /\ i \in o.looked \ o.dirty
    <3>1. i \in Ids /\ i \notin Replaced(j) /\ i \in o.looked \ o.dirty
      BY <1>1, <1>2, <2>1 DEF Job
    <3> QED BY <1>3, <2>1, <3>1
  <2>2. Current(l, k) = Current(l, o)
    BY <1>2 DEF Current
  <2>3. ASSUME NEW i \in k.looked \ k.dirty, code'[i] # NoCode, Settled(o, i)
        PROVE  Settled(k, i)'
    BY <1>4, <1>5, <2>1, <2>3 DEF Settled
  <2> QED BY <1>1, <1>2, <1>5, <2>1, <2>2, <2>3 DEF Replaces
<1> QED BY <1>6, <1>8, <1>9, <1>10, <1>11, <1>12, <1>13 DEF JobOK

LEMMA CommitStep ==
    ASSUME IInv, NEW s \in Procs, Commit(s)
    PROVE  IInv'
<1> DEFINE j == job[s]
<1>1. /\ TypeOK /\ j \in Job /\ pc[s] = "commit" /\ Phases("commit", j)
      /\ Holds(s, "commit", j) /\ Writes("commit", j) /\ Replaces("commit", j)
      /\ \A t \in Procs \ {s} : Apart(j, job[t]) /\ Apart(job[t], j)
  BY Facts DEF Commit
<1>2. /\ \A i \in j.drop : i \in Ids /\ lock[i] = s /\ code[i] # NoCode /\ code'[i] = NoCode
      /\ \A i \in Ids : j.rows[i] # NoCode =>
           /\ code[i] = NoCode /\ i \notin j.drop /\ code'[i] = j.rows[i] /\ i \in Replaced(j)
      /\ \A i \in Ids : i \notin j.drop /\ j.rows[i] = NoCode => code'[i] = code[i]
      /\ \A i \in Ids : i \notin j.drop =>
           BoundTo(i)' = (BoundTo(i) \ Unlinked(j, i)) \union Linked(j, i)
      /\ \A i \in Ids : code'[i] # NoCode /\ i \notin Replaced(j) =>
           code[i] = code'[i] /\ BoundTo(i)' = BoundTo(i)
      /\ Replaced(j) \subseteq Ids
      /\ \A i \in Replaced(j) : code[i] # NoCode \/ j.rows[i] # NoCode
  BY CommitEffect
<1>3. /\ synced' = (synced \union Reported(j)) \ j.drop
      /\ link' = ((link \ j.unbound) \union j.bound) \ OfRoles(j.drop)
      /\ held' = (held \union j.grant) \ HeldOf(j.drop)
      /\ lock' = [i \in Ids |-> IF lock[i] = s THEN NoProc ELSE lock[i]]
      /\ pc' = [pc EXCEPT ![s] = "idle"]
      /\ asked' = [i \in Ids |-> IF i \in j.drop THEN {}
                                   ELSE IF i \in Replaced(j) THEN WantedBy(j, i) ELSE asked[i]]
      /\ raced' = ((raced \ Replaced(j)) \union (j.dirty \intersect Replaced(j))) \ j.drop
  BY DEF Commit, Released
<1>4. /\ code' = [i \in Ids |-> IF i \in j.drop THEN NoCode
                                  ELSE IF j.rows[i] # NoCode THEN j.rows[i] ELSE code[i]]
      /\ DOMAIN job' = Procs /\ job'[s] = NoJob
      /\ job' = [t \in Procs |-> job'[t]]
  BY DEF Commit
<1>5. \A t \in Procs \ {s} :
           /\ pc'[t] = pc[t] /\ job'[t] \in Job
           /\ job'[t].snap = job[t].snap /\ job'[t].rows = job[t].rows
           /\ job'[t].bound = job[t].bound /\ job'[t].unbound = job[t].unbound
           /\ job'[t].grant = job[t].grant /\ job'[t].drop = job[t].drop
           /\ job'[t].id = job[t].id
  BY CommitOthers
<1>6. pc'[s] = "idle"
  BY <1>1, <1>3 DEF TypeOK
<1> HIDE DEF j
<1>7. \A i \in Ids : i \notin j.drop /\ (code[i] # NoCode \/ j.rows[i] # NoCode) => code'[i] # NoCode
  BY <1>2
<1>8. TypeOK'
  <2>1. code' \in [Ids -> Codes \union {NoCode}]
    BY <1>1, <1>4 DEF TypeOK, Job
  <2>2. synced' \subseteq Stored'
    BY <1>1, <1>2, <1>3, <1>7 DEF TypeOK, Stored, Replaced
  <2>3. link' \subseteq Stored' \X Perms
    <3>1. ASSUME NEW a \in link' PROVE a[1] \in Ids /\ a[2] \in Perms /\ a = <<a[1], a[2]>> /\ a[1] \notin j.drop
                                       /\ (code[a[1]] # NoCode \/ j.rows[a[1]] # NoCode)
      <4>1. a \in link \/ a \in j.bound
        BY <1>3, <3>1
      <4>2. a[1] \in Ids /\ a[2] \in Perms /\ a = <<a[1], a[2]>>
        BY <1>1, <4>1 DEF TypeOK, Stored, Job
      <4>3. code[a[1]] # NoCode \/ j.rows[a[1]] # NoCode
        BY <1>1, <4>1 DEF TypeOK, Stored, Holds, Refers
      <4>4. a[1] \notin j.drop
        BY <1>3, <3>1, <4>2 DEF OfRoles
      <4> QED BY <4>2, <4>3, <4>4
    <3>2. ASSUME NEW a \in link' PROVE a \in Stored' \X Perms
      BY <1>7, <3>1, <3>2 DEF Stored
    <3> QED BY <3>2
  <2>4. held' \subseteq Users \X Stored'
    <3>1. ASSUME NEW a \in held' PROVE a[1] \in Users /\ a[2] \in Ids /\ a = <<a[1], a[2]>> /\ a[2] \notin j.drop
                                       /\ code[a[2]] # NoCode
      <4>1. a \in held \/ a \in j.grant
        BY <1>3, <3>1
      <4>2. a[1] \in Users /\ a[2] \in Ids /\ a = <<a[1], a[2]>>
        BY <1>1, <4>1 DEF TypeOK, Stored, Job
      <4>3. code[a[2]] # NoCode
        BY <1>1, <4>1 DEF TypeOK, Stored, Holds, Refers
      <4>4. a[2] \notin j.drop
        BY <1>3, <3>1, <4>2 DEF HeldOf
      <4> QED BY <4>2, <4>3, <4>4
    <3>2. ASSUME NEW a \in held' PROVE a \in Users \X Stored'
      BY <1>7, <3>1, <3>2 DEF Stored
    <3> QED BY <3>2
  <2>5. lock' \in [Ids -> Procs \union {NoProc}]
    BY <1>1, <1>3 DEF TypeOK
  <2>6. pc' \in [Procs -> Labels]
    BY <1>1, <1>3 DEF TypeOK, Labels
  <2>7. job' \in [Procs -> Job]
    BY <1>4, <1>5, NoJobTyped
  <2>8. asked' \in [Ids -> SUBSET Perms]
    BY <1>1, <1>3, DiffTyped DEF TypeOK
  <2>9. raced' \subseteq Stored'
    BY <1>1, <1>2, <1>3, <1>7 DEF TypeOK, Stored
  <2> QED BY <2>1, <2>2, <2>3, <2>4, <2>5, <2>6, <2>7, <2>8, <2>9 DEF TypeOK
<1>9. \A i \in Ids : lock'[i] # NoProc => code'[i] # NoCode
  <2>1. \A i \in Ids : lock[i] # NoProc => code[i] # NoCode
    BY DEF IInv
  <2> QED BY <1>2, <1>3, <1>7, <2>1
<1>10. \A i \in Ids : code'[i] = NoCode => asked'[i] = {}
  <2>1. \A i \in Ids : code[i] = NoCode => asked[i] = {}
    BY DEF IInv
  <2> QED BY <1>2, <1>3, <1>7, <2>1
<1>11. ASSUME NEW t \in Procs PROVE JobOK(t, pc[t], job[t])'
  <2>1. CASE t = s
    <3>1. JobOK(s, "idle", NoJob)'
      <4>1. Phases("idle", NoJob)'
        BY NoJobFields DEF Phases
      <4>2. Holds(s, "idle", NoJob)'
        BY NoJobFields DEF Holds, Refers
      <4>3. Codings("idle", NoJob)' /\ Counts("idle", NoJob)' /\ Owns(NoJob)'
        BY NoJobFields DEF Codings, Counts, Counted, Owns
      <4>4. Writes("idle", NoJob)' /\ Replaces("idle", NoJob)'
        BY NoJobFields DEF Writes, Looks, Unlinked, Linked, Replaces
      <4> QED BY <4>1, <4>2, <4>3, <4>4 DEF JobOK
    <3> QED BY <1>4, <1>6, <2>1, <3>1
  <2>2. CASE t # s
    <3>1. \A l : \A k : l = pc[t] /\ k = job'[t] => JobOK(t, l, k)'
      BY <2>2, CommitKeepsJobs
    <3> QED BY <1>5, <2>2, <3>1
  <2> QED BY <2>1, <2>2
<1>12. \A t, u \in Procs : t # u => Apart(job[t], job[u])'
  <2>1. ASSUME NEW t \in Procs, NEW u \in Procs, t # u PROVE Apart(job'[t], job'[u])
    <3>1. CASE t = s
      BY <1>4, <3>1, NoJobFields DEF Apart, TouchesRole
    <3>2. CASE u = s
      BY <1>4, <3>2, NoJobFields, IdAssumption DEF Apart
    <3>3. CASE t # s /\ u # s
      <4>1. Apart(job[t], job[u])
        BY <2>1 DEF IInv
      <4> QED BY <1>5, <3>3, <4>1 DEF Apart, TouchesRole
    <3> QED BY <3>1, <3>2, <3>3
  <2> QED BY <2>1 DEF Apart, TouchesRole
<1>13. BindingsAsAsked'
  <2> SUFFICES ASSUME NEW i \in Ids, code'[i] # NoCode, i \notin raced'
               PROVE  BoundTo(i)' = asked'[i]
    BY DEF BindingsAsAsked, Stored
  <2>1. i \notin j.drop
    BY <1>2
  <2>2. CASE i \notin Replaced(j)
    <3>1. code[i] # NoCode /\ BoundTo(i)' = BoundTo(i) /\ asked'[i] = asked[i] /\ i \notin raced
      BY <1>2, <1>3, <2>1, <2>2
    <3> QED BY <3>1 DEF IInv, BindingsAsAsked, Stored
  <2>3. CASE i \in Replaced(j) /\ j.rows[i] # NoCode
    <3>1. BoundTo(i) = {} /\ Linked(j, i) = WantedBy(j, i)
      BY <1>1, <1>2, <2>3 DEF TypeOK, Stored, BoundTo, Writes
    <3> QED BY <1>2, <1>3, <2>1, <2>3, <3>1, ZenonT(60)
  <2>4. CASE i \in Replaced(j) /\ j.rows[i] = NoCode
    <3>1. code[i] # NoCode /\ i \notin j.dirty
      BY <1>2, <1>3, <2>1, <2>4
    <3>2. i \in j.looked
      BY <1>1, <2>4 DEF Replaced, Reported, Writes, Looks
    <3>3. Settled(j, i)
      BY <1>1, <3>1, <3>2 DEF Replaces, Current
    <3> QED BY <1>2, <1>3, <2>1, <2>4, <3>3 DEF Settled
  <2> QED BY <2>2, <2>3, <2>4
<1> QED BY <1>8, <1>9, <1>10, <1>11, <1>12, <1>13 DEF IInv

-----------------------------------------------------------------------------
(* The administrator's single statements. *)

(* A role that a request has looked at is in its snapshot or its argument. *)
LEMMA LookedKnown ==
    ASSUME NEW l, NEW j \in Job, j.looked = Looks(l, j), NEW i \in j.looked
    PROVE  j.snap[i] # NoCode \/ j.id = i
BY DiffTyped DEF Looks

LEMMA CreateRoleStep ==
    ASSUME IInv, NEW i \in Ids, NEW c \in Given, CreateRole(i, c)
    PROVE  IInv'
<1>1. /\ TypeOK /\ \A k \in Ids : lock[k] # NoProc => code[k] # NoCode
      /\ \A k \in Ids : code[k] = NoCode => asked[k] = {}
      /\ \A t, u \in Procs : t # u => Apart(job[t], job[u])
      /\ BindingsAsAsked
  BY DEF IInv
<1>2. /\ code[i] = NoCode
      /\ \A t \in Procs : job[t].snap[i] = NoCode /\ job[t].rows[i] = NoCode /\ job[t].id # i
  BY DEF CreateRole, Fresh
<1>3. /\ code' = [code EXCEPT ![i] = c] /\ c \in Codes /\ c # NoCode
      /\ UNCHANGED <<synced, link, held, lock, pc, job, asked, raced>>
  BY ReportAssumption, IdAssumption DEF CreateRole, ghosts
<1>4. code'[i] = c /\ \A k \in Ids : k # i => code'[k] = code[k]
  BY <1>1, <1>3 DEF TypeOK
<1>5. TypeOK'
  <2>1. code' \in [Ids -> Codes \union {NoCode}] /\ Stored \subseteq Stored'
    BY <1>1, <1>2, <1>3, <1>4 DEF TypeOK, Stored
  <2> QED BY <1>1, <1>3, <2>1 DEF TypeOK
<1>6. ASSUME NEW t \in Procs, NEW l, NEW j, l = pc[t], j = job[t] PROVE JobOK(t, l, j)'
  <2>1. /\ j \in Job /\ Phases(l, j) /\ Holds(t, l, j) /\ Codings(l, j)
        /\ Counts(l, j) /\ Owns(j) /\ Writes(l, j) /\ Replaces(l, j)
    BY <1>6, Facts
  <2>2. j.snap[i] = NoCode /\ j.rows[i] = NoCode /\ j.id # i
    BY <1>2, <1>6
  <2>3. Phases(l, j)' /\ Counts(l, j)' /\ Owns(j)' /\ Writes(l, j)'
    BY <1>3, <2>1 DEF Phases, Counts, Owns, Writes
  <2>4. Refers(j)'
    <3>1. \A a \in j.bound : a[1] \in Ids
      BY <2>1 DEF Job
    <3>2. \A a \in j.grant : a[2] \in Ids
      BY <2>1 DEF Job
    <3> QED BY <1>2, <1>3, <1>4, <2>1, <2>2, <3>1, <3>2 DEF Holds, Refers
  <2>5. Holds(t, l, j)'
    BY <1>3, <2>1, <2>4 DEF Holds
  <2>6. Codings(l, j)'
    <3>1. i \notin CommonRoles(j) \union PrunedRoles(j)
      BY <2>1, <2>2, DiffTyped
    <3> QED BY <1>4, <2>1, <3>1, DiffTyped DEF Codings
  <2>7. Replaces(l, j)'
    <3>1. i \notin j.looked /\ j.looked \subseteq Ids
      BY <2>1, <2>2, LookedKnown DEF Writes, Job
    <3>2. \A k \in j.looked : code'[k] = code[k]
      BY <1>4, <3>1
    <3> QED BY <1>3, <2>1, <3>2 DEF Replaces, Settled, BoundTo
  <2> QED BY <2>3, <2>5, <2>6, <2>7 DEF JobOK
<1>7. \A t \in Procs : JobOK(t, pc[t], job[t])'
  BY <1>3, <1>6
<1>8. \A t, u \in Procs : t # u => Apart(job[t], job[u])'
  BY <1>1, <1>3 DEF Apart, TouchesRole
<1>9. BindingsAsAsked'
  <2>1. BoundTo(i) = {}
    BY <1>1, <1>2 DEF TypeOK, Stored, BoundTo
  <2> QED BY <1>1, <1>2, <1>3, <1>4, <2>1 DEF BindingsAsAsked, Stored, BoundTo
<1> QED BY <1>1, <1>2, <1>3, <1>4, <1>5, <1>7, <1>8, <1>9 DEF IInv

LEMMA UpdateRoleStep ==
    ASSUME IInv, NEW i \in Ids, NEW c \in Given, UpdateRole(i, c)
    PROVE  IInv'
<1>1. /\ TypeOK /\ \A k \in Ids : lock[k] # NoProc => code[k] # NoCode
      /\ \A k \in Ids : code[k] = NoCode => asked[k] = {}
      /\ \A t, u \in Procs : t # u => Apart(job[t], job[u])
      /\ BindingsAsAsked
  BY DEF IInv
<1>2. code[i] # NoCode
  BY DEF UpdateRole, Stored
<1>3. /\ code' = [code EXCEPT ![i] = c] /\ c \in Codes /\ c # NoCode
      /\ job' = [t \in Procs |-> [job[t] EXCEPT !.moved = @ \union ({i} \intersect Kept(job[t]))]]
      /\ UNCHANGED <<synced, link, held, lock, pc, asked, raced>>
  BY ReportAssumption, IdAssumption DEF UpdateRole, ghosts
<1>4. code'[i] = c /\ \A k \in Ids : k # i => code'[k] = code[k]
  BY <1>1, <1>3 DEF TypeOK
<1>5. \A k \in Ids : code'[k] = NoCode <=> code[k] = NoCode
  BY <1>2, <1>3, <1>4
<1>6. ASSUME NEW t \in Procs
      PROVE  /\ job'[t] \in Job
             /\ job'[t].kind = job[t].kind /\ job'[t].items = job[t].items
             /\ job'[t].snap = job[t].snap /\ job'[t].rows = job[t].rows
             /\ job'[t].bound = job[t].bound /\ job'[t].unbound = job[t].unbound
             /\ job'[t].grant = job[t].grant /\ job'[t].drop = job[t].drop
             /\ job'[t].todo = job[t].todo /\ job'[t].seen = job[t].seen
             /\ job'[t].id = job[t].id /\ job'[t].want = job[t].want
             /\ job'[t].looked = job[t].looked /\ job'[t].changed = job[t].changed
             /\ job'[t].dirty = job[t].dirty /\ job'[t].late = job[t].late
             /\ job'[t].moved = job[t].moved \union ({i} \intersect Kept(job[t]))
  <2> DEFINE m == job[t].moved \union ({i} \intersect Kept(job[t]))
  <2>1. job[t] \in Job
    BY <1>1 DEF TypeOK
  <2>2. m \in SUBSET Ids
    BY <2>1 DEF Job
  <2>3. job'[t] = [job[t] EXCEPT !.moved = m]
    BY <1>3
  <2> HIDE DEF m
  <2>4. [job[t] EXCEPT !.moved = m] \in Job
    BY <2>1, <2>2 DEF Job
  <2>5. job'[t].moved = m
    BY <2>1, <2>3 DEF Job
  <2> QED BY <2>1, <2>3, <2>4, <2>5, ZenonT(60) DEF Job, m
<1>7. TypeOK'
  <2>1. code' \in [Ids -> Codes \union {NoCode}] /\ Stored' = Stored
    BY <1>1, <1>3, <1>5 DEF TypeOK, Stored
  <2>2. job' \in [Procs -> Job]
    BY <1>3, <1>6
  <2> QED BY <1>1, <1>3, <2>1, <2>2 DEF TypeOK
<1>8. ASSUME NEW t \in Procs, NEW l, NEW k, l = pc[t], k = job'[t] PROVE JobOK(t, l, k)'
  <2> DEFINE j == job[t]
  <2>1. /\ j \in Job /\ Phases(l, j) /\ Holds(t, l, j) /\ Codings(l, j)
        /\ Counts(l, j) /\ Owns(j) /\ Writes(l, j) /\ Replaces(l, j)
    BY <1>8, Facts
  <2>2. /\ k \in Job
        /\ k.kind = j.kind /\ k.items = j.items /\ k.snap = j.snap /\ k.rows = j.rows
        /\ k.bound = j.bound /\ k.unbound = j.unbound /\ k.grant = j.grant /\ k.drop = j.drop
        /\ k.todo = j.todo /\ k.seen = j.seen /\ k.id = j.id /\ k.want = j.want
        /\ k.looked = j.looked /\ k.changed = j.changed
        /\ k.dirty = j.dirty /\ k.late = j.late
        /\ k.moved = j.moved \union ({i} \intersect Kept(j))
    BY <1>6, <1>8
  <2> HIDE DEF j
  <2>3. /\ NewCodes(k) = NewCodes(j) /\ CommonRoles(k) = CommonRoles(j)
        /\ PrunedRoles(k) = PrunedRoles(j) /\ \A m : WantedBy(k, m) = WantedBy(j, m)
        /\ ToDrop(k) = ToDrop(j)
    BY <2>2, SameDiff DEF ToDrop
  <2>4. Phases(l, k)'
    BY <2>1, <2>2, <2>3 DEF Phases
  <2>5. Refers(k)'
    <3>1. \A a \in j.bound : a[1] \in Ids
      BY <2>1 DEF Job
    <3>2. \A a \in j.grant : a[2] \in Ids
      BY <2>1 DEF Job
    <3> QED BY <1>5, <2>1, <2>2, <3>1, <3>2 DEF Holds, Refers
  <2>6. Holds(t, l, k)'
    BY <1>3, <2>1, <2>2, <2>3, <2>5 DEF Holds, Waiting
  <2>7. Codings(l, k)'
    <3> SUFFICES ASSUME j.kind = "sync" PROVE Codings(l, k)'
      BY <2>2 DEF Codings
    <3>1. Kept(j) = CommonRoles(j)
      BY DEF Kept
    <3>2. \A m \in CommonRoles(k) : code'[m] \in {k.snap[m], NoCode} \/ m \in k.moved
      <4>1. CommonRoles(j) \subseteq Ids
        BY <2>1, DiffTyped
      <4> QED BY <1>4, <2>1, <2>2, <2>3, <3>1, <4>1 DEF Codings
    <3>3. l = "commit" => \A m \in PrunedRoles(k) : m \in k.drop \/ code'[m] = NoCode
      <4>1. PrunedRoles(j) \subseteq Ids
        BY <2>1, DiffTyped
      <4> QED BY <1>5, <2>1, <2>2, <2>3, <4>1 DEF Codings
    <3> QED BY <2>1, <2>2, <2>3, <3>2, <3>3 DEF Codings
  <2>8. Counts(l, k)' /\ Owns(k)'
    BY <1>3, <2>1, <2>2, <2>3 DEF Counts, Counted, Owns
  <2>9. \A m : Linked(k, m) = Linked(j, m) /\ Unlinked(k, m) = Unlinked(j, m)
    BY <2>2 DEF Linked, Unlinked
  <2>10. Writes(l, k)'
    <3>1. MayLink(l, k) = MayLink(l, j) /\ MayUnlink(l, k) = MayUnlink(l, j) /\ Looks(l, k) = Looks(l, j)
      BY <2>2, <2>3 DEF MayLink, MayUnlink, Unwritten, Waiting, Looks
    <3> QED BY <2>1, <2>2, <2>3, <2>9, <3>1 DEF Writes
  <2>11. Replaces(l, k)'
    <3>1. j.looked \subseteq Ids
      BY <2>1 DEF Job
    <3>2. \A m : BoundTo(m)' = BoundTo(m)
      BY <1>3 DEF BoundTo
    <3>3. \A m : Settled(j, m) => Settled(k, m)'
      BY <2>3, <2>9, <3>2 DEF Settled
    <3>4. Current(l, k) = Current(l, j)
      BY <2>2 DEF Current
    <3> QED BY <1>5, <2>1, <2>2, <2>9, <3>1, <3>2, <3>3, <3>4 DEF Replaces
  <2> QED BY <2>4, <2>6, <2>7, <2>8, <2>10, <2>11 DEF JobOK
<1>9. \A t \in Procs : JobOK(t, pc[t], job[t])'
  BY <1>3, <1>8
<1>10. \A t, u \in Procs : t # u => Apart(job[t], job[u])'
  <2>1. \A t, u \in Procs : t # u => Apart(job'[t], job'[u])
    BY <1>1, <1>6 DEF Apart, TouchesRole
  <2> QED BY <2>1 DEF Apart, TouchesRole
<1>11. BindingsAsAsked'
  BY <1>1, <1>3, <1>5 DEF BindingsAsAsked, Stored, BoundTo
<1> QED BY <1>1, <1>3, <1>5, <1>7, <1>9, <1>10, <1>11 DEF IInv

LEMMA RevokeStep ==
    ASSUME IInv, NEW i \in Ids, NEW u \in Users, Revoke(u, i)
    PROVE  IInv'
<1>1. held' \subseteq held /\ UNCHANGED <<code, synced, link, lock, pc, job, asked, raced>>
  BY DEF Revoke, ghosts
<1>2. TypeOK'
  BY <1>1 DEF IInv, TypeOK, Stored
<1>3. ASSUME NEW t \in Procs, NEW l, NEW j, l = pc[t], j = job[t] PROVE JobOK(t, l, j)'
  <2>1. /\ Phases(l, j) /\ Holds(t, l, j) /\ Codings(l, j)
        /\ Counts(l, j) /\ Owns(j) /\ Writes(l, j) /\ Replaces(l, j)
    BY <1>3, Facts
  <2>2. Phases(l, j)' /\ Holds(t, l, j)' /\ Codings(l, j)' /\ Owns(j)' /\ Writes(l, j)'
    BY <1>1, <2>1 DEF Phases, Holds, Refers, Codings, Owns, Writes
  <2>3. Counts(l, j)'
    BY <1>1, <2>1 DEF Counts
  <2>4. Replaces(l, j)'
    BY <1>1, <2>1 DEF Replaces, Settled, BoundTo
  <2> QED BY <2>2, <2>3, <2>4 DEF JobOK
<1>4. \A t \in Procs : JobOK(t, pc[t], job[t])'
  BY <1>1, <1>3
<1>5. \A t, v \in Procs : t # v => Apart(job[t], job[v])'
  <2>1. \A t, v \in Procs : t # v => Apart(job[t], job[v])
    BY DEF IInv
  <2> QED BY <1>1, <2>1 DEF Apart, TouchesRole
<1>6. BindingsAsAsked'
  BY <1>1 DEF IInv, BindingsAsAsked, Stored, BoundTo
<1> QED BY <1>1, <1>2, <1>4, <1>5, <1>6 DEF IInv

-----------------------------------------------------------------------------
(* The invariant, and the theorems. *)

LEMMA InvInit == Init => IInv
<1> SUFFICES ASSUME Init PROVE IInv
  OBVIOUS
<1>1. /\ code = [i \in Ids |-> NoCode] /\ synced = {} /\ link = {} /\ held = {}
      /\ lock = [i \in Ids |-> NoProc] /\ pc = [s \in Procs |-> "idle"]
      /\ job = [s \in Procs |-> NoJob] /\ asked = [i \in Ids |-> {}] /\ raced = {}
  BY DEF Init
<1>2. TypeOK
  BY <1>1, NoJobTyped DEF TypeOK, Stored, Labels
<1>3. ASSUME NEW s PROVE JobOK(s, "idle", NoJob)
  <2>1. Phases("idle", NoJob)
    BY NoJobFields DEF Phases
  <2>2. Holds(s, "idle", NoJob)
    BY NoJobFields DEF Holds, Refers
  <2>3. Codings("idle", NoJob) /\ Counts("idle", NoJob) /\ Owns(NoJob)
    BY NoJobFields DEF Codings, Counts, Counted, Owns
  <2>4. Writes("idle", NoJob) /\ Replaces("idle", NoJob)
    BY NoJobFields DEF Writes, Looks, Unlinked, Linked, Replaces
  <2> QED BY <2>1, <2>2, <2>3, <2>4 DEF JobOK
<1>4. Apart(NoJob, NoJob)
  BY NoJobFields, IdAssumption DEF Apart, TouchesRole
<1>5. BindingsAsAsked
  BY <1>1 DEF BindingsAsAsked, Stored
<1> QED BY <1>1, <1>2, <1>3, <1>4, <1>5 DEF IInv

LEMMA InvNext == IInv /\ [Next]_vars => IInv'
<1> SUFFICES ASSUME IInv, [Next]_vars PROVE IInv'
  OBVIOUS
<1>1. CASE UNCHANGED vars
  <2>1. UNCHANGED <<code, synced, link, held, lock, pc, job, asked, raced>>
    BY <1>1 DEF vars
  <2>2. TypeOK' /\ BindingsAsAsked'
    BY <2>1 DEF IInv, TypeOK, Stored, BindingsAsAsked, BoundTo
  <2>3. ASSUME NEW t \in Procs, NEW l, NEW j, l = pc[t], j = job[t] PROVE JobOK(t, l, j)'
    <3>1. j \in Job /\ JobOK(t, l, j)
      BY <2>3 DEF IInv, TypeOK
    <3>2. j.drop \subseteq Ids
      BY <3>1 DEF Job
    <3> QED BY <2>1, <3>1, <3>2, DiffTyped, OthersKept
  <2>4. \A t \in Procs : JobOK(t, pc[t], job[t])'
    BY <2>1, <2>3
  <2>5. \A t, u \in Procs : t # u => Apart(job[t], job[u])'
    <3>1. \A t, u \in Procs : t # u => Apart(job[t], job[u])
      BY DEF IInv
    <3> QED BY <2>1, <3>1 DEF Apart, TouchesRole
  <2> QED BY <2>1, <2>2, <2>4, <2>5 DEF IInv
<1>2. CASE Admin
  BY <1>2, CreateRoleStep, UpdateRoleStep, RevokeStep DEF Admin
<1>3. ASSUME NEW s \in Procs, Start(s) PROVE IInv'
  BY <1>3, SyncReadStep, AssignReadStep, DeleteCheckStep, GrantReadStep DEF Start
<1>4. ASSUME NEW s \in Procs, SyncStep(s) PROVE IInv'
  BY <1>4, SyncCompareStep, SyncCheckStep, SeeStep, CommitStep, AbortStep DEF SyncStep, DeadlockAbort
<1>5. ASSUME NEW s \in Procs, WaitStep(s) PROVE IInv'
  BY <1>5, SyncInsertStep, SyncLockStep, UnbindStep, BindStep, DropStep, GrantInsertStep DEF WaitStep
<1>6. ASSUME NEW s \in Procs, Fail(s) PROVE IInv'
  BY <1>6, AbortStep DEF Fail
<1> QED BY <1>1, <1>2, <1>3, <1>4, <1>5, <1>6 DEF Next

LEMMA InvAlways == Spec => []IInv
BY InvInit, InvNext, PTL DEF Spec

(* However requests overlap, every binding and every assignment names a    *)
(* stored role, and tables, locks and locals have their types.             *)
THEOREM TypeCorrect == Spec => []TypeOK
<1>1. IInv => TypeOK
  BY DEF IInv
<1> QED BY <1>1, InvAlways, PTL

(* The bindings of a role are the ones its last replacement asked for,     *)
(* unless two replacements of it overlapped, although the report compares  *)
(* before it locks and deletes what it has seen.                           *)
THEOREM BoundAsAsked == Spec => []BindingsAsAsked
<1>1. IInv => BindingsAsAsked
  BY DEF IInv
<1> QED BY <1>1, InvAlways, PTL

(* delete_role and the prune of a report take away no assignment that      *)
(* their count of the role's users could have seen.                        *)
THEOREM AssignmentsKept == Spec => NoAssignmentLost
<1>1. ASSUME IInv, NEW s \in Procs, Commit(s), NEW a \in held \ held'
      PROVE  a \in job[s].late
  <2>1. /\ TypeOK /\ Phases("commit", job[s]) /\ Counts("commit", job[s])
    BY <1>1, Facts DEF Commit
  <2>2. a[2] \in job[s].drop
    BY <1>1, <2>1 DEF Commit, HeldOf, TypeOK
  <2>3. job[s].drop \subseteq Counted("commit", job[s])
    BY <2>1 DEF Phases, Counted, ToDrop
  <2> QED BY <1>1, <2>1, <2>2, <2>3 DEF Counts
<1>2. IInv /\ [Next]_vars =>
        [\A s \in Procs : Commit(s) => \A a \in held \ held' : a \in job[s].late]_vars
  BY <1>1
<1> QED BY <1>2, InvAlways, PTL DEF Spec, NoAssignmentLost

(* Administrators replace the bindings of a reported role only if its      *)
(* first report overlapped their request.                                  *)
THEOREM BoundBySubsystem == Spec => SubsystemOwnsBindings
<1>1. ASSUME IInv, NEW s \in Procs, Commit(s), job[s].kind = "assign"
      PROVE  job[s].id \notin synced \/ job[s].id \in job[s].dirty
  BY <1>1, Facts DEF Owns
<1>2. IInv /\ [Next]_vars =>
        [\A s \in Procs : Commit(s) /\ job[s].kind = "assign" =>
           job[s].id \notin synced \/ job[s].id \in job[s].dirty]_vars
  BY <1>1
<1> QED BY <1>2, InvAlways, PTL DEF Spec, SubsystemOwnsBindings

(* A report that commits leaves the app with the reported roles and        *)
(* without the others it had seen, whatever was created, renamed or        *)
(* deleted while it was on its way.                                        *)
THEOREM ReportsTakeEffect == Spec => RolesAsReported
<1>1. ASSUME IInv, NEW s \in Procs, Commit(s), job[s].kind = "sync"
      PROVE  /\ \A c \in DOMAIN job[s].items :
                  \E i \in synced' : code'[i] = c \/ (i \in job[s].moved /\ job[s].snap[i] = c)
             /\ \A i \in Ids : job[s].snap[i] # NoCode /\ job[s].snap[i] \notin DOMAIN job[s].items
                               => code'[i] = NoCode
  <2> DEFINE j == job[s]
  <2>1. /\ j \in Job /\ Phases("commit", j) /\ Holds(s, "commit", j) /\ Codings("commit", j)
    BY <1>1, Facts DEF Commit
  <2>2. /\ \A i \in j.drop : code'[i] = NoCode
        /\ \A i \in Ids : j.rows[i] # NoCode => i \notin j.drop /\ code'[i] = j.rows[i]
        /\ \A i \in Ids : i \notin j.drop /\ j.rows[i] = NoCode => code'[i] = code[i]
    BY <1>1, CommitEffect
  <2>3. synced' = (synced \union Reported(j)) \ j.drop
    BY <1>1 DEF Commit
  <2>4. \A i \in Ids : j.snap[i] # NoCode => j.rows[i] = NoCode
    BY <2>1 DEF Holds, Refers
  <2>5. \A i \in CommonRoles(j) : i \in Ids /\ code[i] # NoCode
    BY <1>1, <2>1, DiffTyped, ProcAssumption DEF Holds, Waiting, IInv
  <2>6. j.drop \subseteq PrunedRoles(j) /\ CommonRoles(j) \intersect PrunedRoles(j) = {}
    BY <1>1, <2>1, DiffTyped DEF Phases, ToDrop
  <2>7. DOMAIN j.items \subseteq Codes
    BY <2>1 DEF Job, Manifests
  <2> HIDE DEF j
  <2>8. ASSUME NEW c \in DOMAIN j.items
        PROVE  \E i \in synced' : code'[i] = c \/ (i \in j.moved /\ j.snap[i] = c)
    <3>1. c # NoCode
      BY <2>7, IdAssumption
    <3>2. CASE c \in NewCodes(j)
      <4>1. PICK i \in Ids : j.rows[i] = c
        BY <1>1, <2>1, <3>2 DEF Codings, j
      <4>2. i \in synced' /\ code'[i] = c
        BY <1>1, <2>2, <2>3, <3>1, <4>1 DEF Reported, j
      <4> QED BY <4>2
    <3>3. CASE c \notin NewCodes(j)
      <4>1. PICK i \in Ids : j.snap[i] = c
        BY <3>3 DEF NewCodes
      <4>2. i \in CommonRoles(j)
        BY <3>1, <4>1 DEF CommonRoles, SeenRole
      <4>3. i \in synced' /\ code'[i] = code[i]
        BY <1>1, <2>2, <2>3, <2>4, <2>6, <3>1, <4>1, <4>2 DEF Reported, j
      <4>4. code[i] = c \/ i \in j.moved
        BY <1>1, <2>1, <2>5, <4>1, <4>2 DEF Codings, j
      <4> QED BY <4>1, <4>3, <4>4
    <3> QED BY <3>2, <3>3
  <2>9. ASSUME NEW i \in Ids, j.snap[i] # NoCode, j.snap[i] \notin DOMAIN j.items
        PROVE  code'[i] = NoCode
    <3>1. i \in PrunedRoles(j)
      BY <2>9 DEF PrunedRoles, SeenRole
    <3>2. i \in j.drop \/ code[i] = NoCode
      BY <1>1, <2>1, <3>1 DEF Codings, j
    <3> QED BY <2>2, <2>4, <2>9, <3>2
  <2> QED BY <2>8, <2>9 DEF j
<1>2. IInv /\ [Next]_vars =>
        [\A s \in Procs :
           LET j == job[s] IN
           Commit(s) /\ j.kind = "sync" =>
             /\ \A c \in DOMAIN j.items :
                  \E i \in synced' : code'[i] = c \/ (i \in j.moved /\ j.snap[i] = c)
             /\ \A i \in Ids : j.snap[i] # NoCode /\ j.snap[i] \notin DOMAIN j.items
                               => code'[i] = NoCode]_vars
  BY <1>1
<1> QED BY <1>2, InvAlways, PTL DEF Spec, RolesAsReported
==============================================================================
