------------------------ MODULE PermissionSync_proofs ------------------------
(***************************************************************************)
(* Proofs about PermissionSync, for any number of codes, any columns and   *)
(* any reports, however they overlap: the types and the foreign key, and   *)
(* that a report which commits on the table it read leaves what the        *)
(* reference definition says.                                              *)
(***************************************************************************)
EXTENDS PermissionSync, TLAPS

-----------------------------------------------------------------------------
(* Lemmas about the recursive query. *)

(* The query's answer holds the roots and is closed downwards.             *)
LEMMA DescendantsClosed ==
    ASSUME NEW t, NEW R \in SUBSET Codes
    PROVE  /\ R \subseteq Descendants(t, R)
           /\ Descendants(t, R) \subseteq Codes
           /\ ClosedBelow(t, Descendants(t, R))
<1>1. R \subseteq Descendants(t, R) /\ Descendants(t, R) \subseteq Codes
  BY DEF Descendants
<1>2. ASSUME NEW c \in Present(t), t[c].parent \in Descendants(t, R)
      PROVE  c \in Descendants(t, R)
  <2>1. ASSUME NEW S \in SUBSET Codes, R \subseteq S, ClosedBelow(t, S)
        PROVE  c \in S
    BY <1>2, <2>1 DEF Descendants, ClosedBelow
  <2> QED BY <1>2, <2>1 DEF Descendants, Present
<1> QED BY <1>1, <1>2 DEF ClosedBelow

(* It is contained in every closed set around the roots.                   *)
LEMMA DescendantsLeast ==
    ASSUME NEW t, NEW R, NEW S \in SUBSET Codes, R \subseteq S, ClosedBelow(t, S)
    PROVE  Descendants(t, R) \subseteq S
BY DEF Descendants

(* It grows with the roots.                                                *)
LEMMA DescendantsGrow ==
    ASSUME NEW t, NEW Q \in SUBSET Codes, NEW R \in SUBSET Codes, Q \subseteq R
    PROVE  Descendants(t, Q) \subseteq Descendants(t, R)
<1>1. Q \subseteq Descendants(t, R) /\ Descendants(t, R) \in SUBSET Codes
      /\ ClosedBelow(t, Descendants(t, R))
  BY DescendantsClosed
<1> QED BY <1>1, DescendantsLeast

(* What is below several roots is below one of them.                       *)
LEMMA DescendantsOfOne ==
    ASSUME NEW t, NEW R \in SUBSET Codes, NEW c \in Descendants(t, R)
    PROVE  \E r \in R : c \in Descendants(t, {r})
<1> DEFINE S == {d \in Codes : \E r \in R : d \in Descendants(t, {r})}
<1>1. R \subseteq S
  <2> SUFFICES ASSUME NEW r \in R PROVE r \in S
    OBVIOUS
  <2>1. r \in Descendants(t, {r})
    BY DescendantsClosed
  <2> QED BY <2>1
<1>2. ClosedBelow(t, S)
  <2> SUFFICES ASSUME NEW d \in Present(t), t[d].parent \in S PROVE d \in S
    BY DEF ClosedBelow
  <2>1. PICK r \in R : t[d].parent \in Descendants(t, {r})
    OBVIOUS
  <2>2. ClosedBelow(t, Descendants(t, {r}))
    BY DescendantsClosed
  <2>3. d \in Descendants(t, {r})
    BY <2>1, <2>2 DEF ClosedBelow
  <2> QED BY <2>3 DEF Present
<1> HIDE DEF S
<1>3. c \in S
  BY <1>1, <1>2, DescendantsLeast DEF S
<1> QED BY <1>3 DEF S

(* Only which rows are stored and their parents matter.                    *)
LEMMA DescendantsSame ==
    ASSUME NEW t, NEW u, Present(t) = Present(u), \A c \in Codes : t[c].parent = u[c].parent,
           NEW R
    PROVE  Descendants(t, R) = Descendants(u, R)
<1>1. ASSUME NEW S \in SUBSET Codes
      PROVE  ClosedBelow(t, S) <=> ClosedBelow(u, S)
  BY DEF ClosedBelow, Present
<1> QED BY <1>1 DEF Descendants

-----------------------------------------------------------------------------
(* Lemmas about what a report leaves. *)

(* Phase one inserts a node only together with its parent.                 *)
LEMMA InsertedWithParent ==
    ASSUME NEW j \in Job, NEW c \in Inserted(j)
    PROVE  j.items[c].parent \in Inserted(j) \union {NoCode}
<1> SUFFICES ASSUME j.items[c].parent \notin Inserted(j) \union {NoCode} PROVE FALSE
  OBVIOUS
<1> DEFINE S == Inserted(j) \ {c}
<1>1. S \in SUBSET NewCodes(j)
  BY DEF Inserted
<1>2. NextLayer(j, S) \subseteq S
  <2> SUFFICES ASSUME NEW d \in NextLayer(j, S) PROVE d \in S
    OBVIOUS
  <2>1. d \in NewCodes(j) /\ j.items[d].parent \in Inserted(j) \union {NoCode}
    BY DEF NextLayer
  <2>2. ASSUME NEW T \in SUBSET NewCodes(j), NextLayer(j, T) \subseteq T
        PROVE  d \in T
    <3>1. Inserted(j) \subseteq T
      BY <2>2 DEF Inserted
    <3> QED BY <2>1, <2>2, <3>1 DEF NextLayer
  <2>3. d \in Inserted(j)
    BY <2>1, <2>2 DEF Inserted
  <2> QED BY <2>1, <2>3
<1> HIDE DEF S
<1>3. c \in S
  BY <1>1, <1>2 DEF Inserted
<1> QED BY <1>3 DEF S

(* The manifest, the snapshot and the sets of the diff, typed.             *)
LEMMA DiffTyped ==
    ASSUME NEW j \in Job
    PROVE  /\ DOMAIN j.items \subseteq Codes
           /\ j.items \in [DOMAIN j.items -> Item]
           /\ j.snap \in [Codes -> Row]
           /\ Present(j.snap) \subseteq Codes
           /\ Inserted(j) \subseteq NewCodes(j)
           /\ NewCodes(j) = DOMAIN j.items \ Present(j.snap)
           /\ CommonCodes(j) = DOMAIN j.items \intersect Present(j.snap)
           /\ PrunedCodes(j) = Present(j.snap) \ DOMAIN j.items
<1>1. PICK S \in SUBSET Codes : j.items \in [S -> Item]
  BY DEF Job, Manifests
<1> QED BY <1>1 DEF Job, Present, Inserted, NewCodes, CommonCodes, PrunedCodes

(* Row by row, what the report leaves in the table before the prune.       *)
LEMMA UpsertedRows ==
    ASSUME NEW j \in Job, NEW base \in [Codes -> Row], NEW c \in Codes
    PROVE  /\ c \in Inserted(j) => Upserted(j, base)[c] = InsertedRow(j.items[c])
           /\ c \in CommonCodes(j) => Upserted(j, base)[c] = Updated(base[c], j.snap[c], j.items[c])
           /\ c \notin Inserted(j) /\ c \notin CommonCodes(j) => Upserted(j, base)[c] = base[c]
           /\ Upserted(j, base)[c] \in Row
<1>1. ~(c \in Inserted(j) /\ c \in CommonCodes(j))
  BY DiffTyped
<1>2. /\ c \in Inserted(j) => Upserted(j, base)[c] = InsertedRow(j.items[c])
      /\ c \in CommonCodes(j) => Upserted(j, base)[c] = Updated(base[c], j.snap[c], j.items[c])
      /\ c \notin Inserted(j) /\ c \notin CommonCodes(j) => Upserted(j, base)[c] = base[c]
  BY <1>1 DEF Upserted
<1>3. CASE c \in Inserted(j)
  <2>1. j.items[c] \in Item
    BY <1>3, DiffTyped
  <2>2. InsertedRow(j.items[c]) \in Row
    BY <2>1 DEF InsertedRow, Row, Item
  <2> QED BY <1>2, <1>3, <2>2
<1>4. CASE c \in CommonCodes(j)
  <2>1. j.items[c] \in Item /\ base[c] \in Row
    BY <1>4, DiffTyped
  <2>2. Updated(base[c], j.snap[c], j.items[c]) \in Row
    BY <2>1 DEF Updated, Row, Item
  <2> QED BY <1>2, <1>4, <2>2
<1>5. CASE c \notin Inserted(j) /\ c \notin CommonCodes(j)
  BY <1>2, <1>5
<1> QED BY <1>2, <1>3, <1>4, <1>5

(* ... column by column.                                                   *)
ColumnsOf(u, j, base) ==
    \A c \in Codes :
       /\ c \in Inserted(j) => /\ u[c].present /\ u[c].active
                               /\ u[c].parent = j.items[c].parent
                               /\ u[c].fields = j.items[c].fields
       /\ c \notin Inserted(j) => u[c].present = base[c].present /\ u[c].parent = base[c].parent
       /\ c \in CommonCodes(j) =>
            /\ u[c].active = IF j.snap[c].active THEN base[c].active ELSE TRUE
            /\ u[c].fields = IF j.snap[c].fields # j.items[c].fields THEN j.items[c].fields
                             ELSE base[c].fields
       /\ c \notin Inserted(j) /\ c \notin CommonCodes(j) => u[c] = base[c]

LEMMA UpsertedColumns ==
    ASSUME NEW j \in Job, NEW base \in [Codes -> Row]
    PROVE  ColumnsOf(Upserted(j, base), j, base) /\ Upserted(j, base) \in [Codes -> Row]
<1> DEFINE u == Upserted(j, base)
<1>1. ASSUME NEW c \in Codes
      PROVE  /\ c \in Inserted(j) => u[c] = InsertedRow(j.items[c])
             /\ c \in CommonCodes(j) => u[c] = Updated(base[c], j.snap[c], j.items[c])
             /\ c \notin Inserted(j) /\ c \notin CommonCodes(j) => u[c] = base[c]
             /\ ~(c \in Inserted(j) /\ c \in CommonCodes(j))
             /\ u[c] \in Row
  BY UpsertedRows, DiffTyped
<1>2. u \in [Codes -> Row]
  BY <1>1 DEF Upserted
<1> HIDE DEF u
<1>3. ASSUME NEW c \in Codes
      PROVE  /\ c \in Inserted(j) => /\ u[c].present /\ u[c].active
                                     /\ u[c].parent = j.items[c].parent
                                     /\ u[c].fields = j.items[c].fields
             /\ c \notin Inserted(j) => u[c].present = base[c].present /\ u[c].parent = base[c].parent
             /\ c \in CommonCodes(j) =>
                  /\ u[c].active = IF j.snap[c].active THEN base[c].active ELSE TRUE
                  /\ u[c].fields = IF j.snap[c].fields # j.items[c].fields THEN j.items[c].fields
                                   ELSE base[c].fields
  <2>1. CASE c \in Inserted(j)
    <3>1. u[c] = InsertedRow(j.items[c]) /\ c \notin CommonCodes(j)
      BY <1>1, <2>1
    <3>2. /\ u[c].present /\ u[c].active
          /\ u[c].parent = j.items[c].parent
          /\ u[c].fields = j.items[c].fields
      BY <3>1 DEF InsertedRow
    <3> QED BY <2>1, <3>1, <3>2
  <2>2. CASE c \in CommonCodes(j)
    <3>1. base[c] \in Row
      OBVIOUS
    <3>2. u[c] = Updated(base[c], j.snap[c], j.items[c]) /\ c \notin Inserted(j)
      BY <1>1, <2>2
    <3>3. /\ u[c].present = base[c].present /\ u[c].parent = base[c].parent
          /\ u[c].active = IF j.snap[c].active THEN base[c].active ELSE TRUE
          /\ u[c].fields = IF j.snap[c].fields # j.items[c].fields THEN j.items[c].fields
                           ELSE base[c].fields
      BY <3>1, <3>2 DEF Updated, Row
    <3> QED BY <3>2, <3>3
  <2>3. CASE c \notin Inserted(j) /\ c \notin CommonCodes(j)
    BY <1>1, <2>3
  <2> QED BY <2>1, <2>2, <2>3
<1>4. ColumnsOf(u, j, base)
  BY <1>1, <1>3 DEF ColumnsOf
<1> QED BY <1>2, <1>4 DEF u

(* The prune touches is_active only.                                       *)
LEMMA OutcomeRows ==
    ASSUME NEW j \in Job, NEW base \in [Codes -> Row]
    PROVE  /\ Outcome(j, base) \in [Codes -> Row]
           /\ Present(Outcome(j, base)) = Present(Upserted(j, base))
           /\ \A c \in Codes :
                /\ Outcome(j, base)[c].parent = Upserted(j, base)[c].parent
                /\ Outcome(j, base)[c].fields = Upserted(j, base)[c].fields
                /\ Outcome(j, base)[c].active <=> Upserted(j, base)[c].active /\ c \notin j.prune
<1> DEFINE u == Upserted(j, base)
           o == Outcome(j, base)
<1>1. ASSUME NEW c \in Codes
      PROVE  /\ o[c] = [u[c] EXCEPT !.active = @ /\ c \notin j.prune]
             /\ u[c] \in Row
  BY UpsertedRows DEF Outcome
<1>2. DOMAIN o = Codes /\ o = [c \in Codes |-> o[c]]
  BY DEF Outcome
<1> HIDE DEF u, o
<1>3. ASSUME NEW c \in Codes
      PROVE  /\ o[c] \in Row
             /\ o[c].present = u[c].present
             /\ o[c].parent = u[c].parent
             /\ o[c].fields = u[c].fields
             /\ o[c].active <=> u[c].active /\ c \notin j.prune
  BY <1>1 DEF Row
<1>4. o \in [Codes -> Row]
  BY <1>2, <1>3
<1>5. Present(o) = Present(u)
  BY <1>3 DEF Present
<1> QED BY <1>3, <1>4, <1>5 DEF u, o

(* No node is stored without its parent, in a given table.                 *)
NoOrphan(t) == \A c \in Codes : t[c].present /\ t[c].parent # NoCode => t[t[c].parent].present

(* A report takes no row away and puts a node below a stored parent.       *)
LEMMA UpsertedKeepsParents ==
    ASSUME NEW j \in Job, NEW base \in [Codes -> Row], NoOrphan(base)
    PROVE  NoOrphan(Upserted(j, base))
<1> DEFINE u == Upserted(j, base)
<1>1. ASSUME NEW c \in Codes
      PROVE  /\ c \in Inserted(j) => u[c].present /\ u[c].parent = j.items[c].parent
             /\ c \notin Inserted(j) => u[c].present = base[c].present /\ u[c].parent = base[c].parent
  <2>1. ColumnsOf(u, j, base)
    BY UpsertedColumns
  <2> HIDE DEF u
  <2> QED BY <2>1 DEF ColumnsOf
<1>2. Inserted(j) \subseteq Codes
  BY DiffTyped
<1> HIDE DEF u
<1>3. ASSUME NEW c \in Codes, u[c].present, u[c].parent # NoCode
      PROVE  u[u[c].parent].present
  <2>1. CASE c \in Inserted(j)
    <3>1. u[c].parent \in Inserted(j)
      BY <1>1, <1>3, <2>1, InsertedWithParent
    <3> QED BY <1>1, <1>2, <3>1
  <2>2. CASE c \notin Inserted(j)
    <3>1. base[c].present /\ u[c].parent = base[c].parent
      BY <1>1, <1>3, <2>2
    <3>2. base[c].parent \in Codes
      BY <1>3, <3>1 DEF Row
    <3>3. base[base[c].parent].present
      BY <1>3, <3>1 DEF NoOrphan
    <3>4. u[base[c].parent].present
      BY <1>1, <3>2, <3>3
    <3> QED BY <3>1, <3>4
  <2> QED BY <2>1, <2>2
<1> QED BY <1>3 DEF NoOrphan, u

LEMMA OutcomeKeepsParents ==
    ASSUME NEW j \in Job, NEW base \in [Codes -> Row], NoOrphan(base)
    PROVE  NoOrphan(Outcome(j, base))
<1> DEFINE u == Upserted(j, base)
           o == Outcome(j, base)
<1>1. /\ o \in [Codes -> Row] /\ Present(o) = Present(u)
      /\ \A c \in Codes : o[c].parent = u[c].parent
  BY OutcomeRows
<1>2. NoOrphan(u)
  BY UpsertedKeepsParents
<1> HIDE DEF u, o
<1> SUFFICES ASSUME NEW c \in Codes, o[c].present, o[c].parent # NoCode
             PROVE  o[o[c].parent].present
  BY DEF NoOrphan, o
<1>3. o[c].parent \in Codes
  BY <1>1 DEF Row
<1>4. u[c].present /\ u[u[c].parent].present
  BY <1>1, <1>2, <1>3 DEF Present, NoOrphan
<1> QED BY <1>1, <1>3, <1>4 DEF Present

-----------------------------------------------------------------------------
(* Types and the foreign key, however reports overlap. *)

LEMMA NoJobTyped == NoJob \in Job
<1>1. NoFields \in Fields
  BY NodeAssumption DEF NoFields
<1>2. Absent \in Row
  BY <1>1 DEF Absent, Row
<1>3. EmptyManifest \in [{} -> Item]
  BY DEF EmptyManifest
<1>4. EmptyManifest \in Manifests
  BY <1>3 DEF Manifests
<1> QED BY <1>2, <1>4 DEF NoJob, Job

LEMMA InitTyped == Init => TypeOK
<1>1. Absent \in Row
  BY NodeAssumption DEF NoFields, Absent, Row
<1> QED BY <1>1, NoJobTyped DEF Init, TypeOK

(* The steps, told apart by what they do to the table and the locks.       *)
LEMMA AbortKeepsTypes ==
    ASSUME TypeOK, NEW s \in Syncs, Abort(s)
    PROVE  TypeOK'
BY NoJobTyped DEF TypeOK, Abort, Goto, Released

LEMMA TakeRowsTyped ==
    ASSUME TypeOK, NEW s \in Syncs, TakeRows(s)
    PROVE  lock' \in [Codes -> Syncs \union {NoSync}]
BY DEF TypeOK, TakeRows

LEMMA StepKeepsTypes ==
    ASSUME TypeOK, [Next]_vars
    PROVE  TypeOK'
<1>1. CASE UNCHANGED vars
  BY <1>1 DEF TypeOK, vars
<1>2. ASSUME NEW s \in Syncs, NEW items \in Reports, SyncRead(s, items)
      PROVE  TypeOK'
  <2>1. [NoJob EXCEPT !.items = items, !.snap = perms] \in Job
    BY NoJobTyped, ReportAssumption DEF Job, TypeOK
  <2> QED BY <1>2, <2>1 DEF TypeOK, SyncRead, Goto
<1>3. ASSUME NEW s \in Syncs, SyncInsert(s)
      PROVE  TypeOK'
  <2>1. CASE Abort(s)
    BY <2>1, AbortKeepsTypes
  <2>2. CASE TakeRows(s) /\ Goto(s, "update", job[s]) /\ UNCHANGED perms
    BY <2>2, TakeRowsTyped DEF TypeOK, Goto
  <2> QED BY <1>3, <2>1, <2>2 DEF SyncInsert
<1>4. ASSUME NEW s \in Syncs, SyncUpdate(s)
      PROVE  TypeOK'
  BY <1>4, TakeRowsTyped DEF TypeOK, SyncUpdate, Goto
<1>5. ASSUME NEW s \in Syncs, SyncPrune(s)
      PROVE  TypeOK'
  BY <1>5, TakeRowsTyped DEF TypeOK, SyncPrune, Goto
<1>6. ASSUME NEW s \in Syncs, SyncQuery(s)
      PROVE  TypeOK'
  <2> DEFINE found == Descendants(Upserted(job[s], perms), PrunedCodes(job[s]))
  <2>1. found \in SUBSET Codes /\ job[s] \in Job
    BY DEF Descendants, TypeOK
  <2> HIDE DEF found
  <2>2. [job[s] EXCEPT !.prune = found] \in Job
    BY <2>1 DEF Job
  <2>3. Goto(s, "prune", [job[s] EXCEPT !.prune = found]) /\ UNCHANGED <<perms, lock>>
    BY <1>6 DEF SyncQuery, found
  <2> QED BY <2>2, <2>3 DEF TypeOK, Goto
<1>7. ASSUME NEW s \in Syncs, SyncCommit(s)
      PROVE  TypeOK'
  <2>1. perms' \in [Codes -> Row]
    BY <1>7, OutcomeRows DEF SyncCommit, TypeOK
  <2> QED BY <1>7, <2>1, NoJobTyped DEF TypeOK, SyncCommit, Goto, Released
<1>8. ASSUME NEW s \in Syncs, DeadlockAbort(s) \/ Fail(s)
      PROVE  TypeOK'
  BY <1>8, AbortKeepsTypes DEF DeadlockAbort, Fail
<1> QED BY <1>1, <1>2, <1>3, <1>4, <1>5, <1>6, <1>7, <1>8
        DEF Next, WaitStep, FreeStep

(* Type correctness, however many reports overlap and fail.                *)
THEOREM TypeCorrect == Spec => []TypeOK
<1> QED BY InitTyped, StepKeepsTypes, PTL DEF Spec

(* A step leaves the table alone or is a commit.                           *)
LEMMA OnlyCommitsWrite ==
    ASSUME [Next]_vars
    PROVE  UNCHANGED perms \/ \E s \in Syncs : SyncCommit(s)
BY DEF Next, WaitStep, FreeStep, SyncRead, SyncInsert, SyncUpdate, SyncQuery, SyncPrune,
       DeadlockAbort, Fail, Abort, vars

(* No node is stored under a parent that is not, at any instant, whatever  *)
(* reports overlap, fail or are aborted by a deadlock.                     *)
THEOREM NoOrphanNodes == Spec => []ParentsStored
<1>1. Init => ParentsStored
  BY DEF Init, ParentsStored, Absent
<1>2. TypeOK /\ ParentsStored /\ [Next]_vars => ParentsStored'
  <2> SUFFICES ASSUME TypeOK, ParentsStored, [Next]_vars PROVE ParentsStored'
    OBVIOUS
  <2>1. CASE UNCHANGED perms
    BY <2>1 DEF ParentsStored
  <2>2. ASSUME NEW s \in Syncs, SyncCommit(s) PROVE ParentsStored'
    <3>1. perms' = Outcome(job[s], perms) /\ job[s] \in Job /\ perms \in [Codes -> Row]
      BY <2>2 DEF SyncCommit, TypeOK
    <3>2. NoOrphan(perms)
      BY DEF NoOrphan, ParentsStored
    <3>3. NoOrphan(perms')
      BY <3>1, <3>2, OutcomeKeepsParents
    <3> QED BY <3>3 DEF NoOrphan, ParentsStored
  <2> QED BY <2>1, <2>2, OnlyCommitsWrite
<1> QED BY <1>1, <1>2, TypeCorrect, PTL DEF Spec

-----------------------------------------------------------------------------
(* What phase one inserts, without the layers. *)

(* Who is below a and is not a is stored, below a node that is below a.    *)
LEMMA DescendantHasParent ==
    ASSUME NEW t, NEW a \in Codes, NEW c \in Descendants(t, {a}), c # a
    PROVE  t[c].present /\ t[c].parent \in Descendants(t, {a})
<1> DEFINE X == Descendants(t, {a})
           S == {d \in X : d = a \/ (t[d].present /\ t[d].parent \in X)}
<1>1. a \in X /\ X \subseteq Codes /\ ClosedBelow(t, X)
  BY DescendantsClosed
<1>2. S \in SUBSET Codes /\ {a} \subseteq S
  BY <1>1
<1>3. ClosedBelow(t, S)
  <2> HIDE DEF X
  <2> QED BY <1>1 DEF ClosedBelow, Present
<1> HIDE DEF S
<1>4. c \in S
  BY <1>2, <1>3, DescendantsLeast
<1> QED BY <1>4 DEF S

(* Below a node that is below a is below a.                                *)
LEMMA DescendantsOfDescendant ==
    ASSUME NEW t, NEW a \in Codes, NEW d \in Descendants(t, {a})
    PROVE  Descendants(t, {d}) \subseteq Descendants(t, {a})
<1>1. {d} \subseteq Descendants(t, {a}) /\ Descendants(t, {a}) \in SUBSET Codes
      /\ ClosedBelow(t, Descendants(t, {a}))
  BY DescendantsClosed
<1> QED BY <1>1, DescendantsLeast

(* A node of a manifest, as the table Reported shows it.                   *)
LEMMA ReportedRows ==
    ASSUME NEW items, NEW c \in Codes
    PROVE  /\ Reported(items)[c].present <=> c \in DOMAIN items
           /\ c \in DOMAIN items => Reported(items)[c].parent = items[c].parent
           /\ c \in Ancestors(Reported(items), c)
           /\ Ancestors(Reported(items), c) \subseteq Codes
<1>1. c \in Descendants(Reported(items), {c})
  BY DescendantsClosed
<1> QED BY <1>1 DEF Reported, Ancestors

(* The chain above a node is the node and the chain above its parent.      *)
LEMMA ChainAbove ==
    ASSUME NEW items, NEW c \in Codes, c \in DOMAIN items
    PROVE  /\ \A a \in Ancestors(Reported(items), c) :
                 a # c => items[c].parent \in Codes
                          /\ a \in Ancestors(Reported(items), items[c].parent)
           /\ items[c].parent \in Codes =>
                 Ancestors(Reported(items), items[c].parent) \subseteq Ancestors(Reported(items), c)
<1> DEFINE R == Reported(items)
           p == items[c].parent
<1>1. R[c].present /\ R[c].parent = p
  BY ReportedRows
<1> HIDE DEF R, p
<1>2. ASSUME NEW a \in Codes, c \in Descendants(R, {a}), a # c
      PROVE  p \in Codes /\ p \in Descendants(R, {a})
  <2>1. p \in Descendants(R, {a})
    BY <1>1, <1>2, DescendantHasParent
  <2> QED BY <2>1 DEF Descendants
<1>3. ASSUME NEW a \in Codes, p \in Descendants(R, {a})
      PROVE  c \in Descendants(R, {a})
  <2>1. ClosedBelow(R, Descendants(R, {a}))
    BY DescendantsClosed
  <2> QED BY <1>1, <1>3, <2>1 DEF ClosedBelow, Present
<1>4. \A a \in Ancestors(R, c) : a # c => p \in Codes /\ a \in Ancestors(R, p)
  BY <1>2 DEF Ancestors
<1>5. Ancestors(R, p) \subseteq Ancestors(R, c)
  BY <1>3 DEF Ancestors
<1> QED BY <1>4, <1>5 DEF R, p

(* The layers reach exactly the new nodes whose whole chain is new and     *)
(* begins at a root.                                                       *)
LEMMA InsertedIsNewChains ==
    ASSUME NEW j \in Job
    PROVE  Inserted(j) = NewChains(j.items, j.snap)
<1> DEFINE N == NewCodes(j)
           up(c) == Ancestors(Reported(j.items), c)
           S == NewChains(j.items, j.snap)
<1>1. N = DOMAIN j.items \ Present(j.snap) /\ N \subseteq Codes /\ DOMAIN j.items \subseteq Codes
  BY DiffTyped
<1>2. \A c : c \in S <=> /\ c \in N
                         /\ up(c) \subseteq N
                         /\ \E a \in up(c) : j.items[a].parent = NoCode
  <2>1. \A c \in DOMAIN j.items : c \in up(c)
    BY <1>1, ReportedRows
  <2> HIDE DEF up
  <2>2. S = {c \in DOMAIN j.items : /\ up(c) \subseteq DOMAIN j.items \ Present(j.snap)
                                   /\ \E a \in up(c) : j.items[a].parent = NoCode}
    BY DEF NewChains, up
  <2> HIDE DEF S
  <2> QED BY <1>1, <2>1, <2>2
<1>3. \A c \in N :
         /\ c \in up(c)
         /\ \A a \in up(c) : a # c => j.items[c].parent \in Codes /\ a \in up(j.items[c].parent)
         /\ j.items[c].parent \in Codes => up(j.items[c].parent) \subseteq up(c)
  BY <1>1, ChainAbove, ReportedRows
<1> HIDE DEF S, up, N
<1>4. Inserted(j) \subseteq S
  <2>1. S \in SUBSET N
    BY <1>2
  <2>2. ASSUME NEW c \in NextLayer(j, S)
        PROVE  c \in S
    <3>1. c \in N /\ j.items[c].parent \in S \union {NoCode}
      BY DEF NextLayer, N
    <3>2. CASE j.items[c].parent = NoCode
      <4>1. up(c) \subseteq N
        BY <1>3, <3>1, <3>2, NodeAssumption
      <4> QED BY <1>2, <1>3, <3>1, <3>2, <4>1
    <3>3. CASE j.items[c].parent \in S
      <4> DEFINE p == j.items[c].parent
      <4>1. p \in Codes /\ up(p) \subseteq N /\ up(p) \subseteq up(c)
        BY <1>1, <1>2, <1>3, <3>1, <3>3
      <4>2. up(c) \subseteq up(p) \union {c}
        BY <1>3, <3>1
      <4>3. PICK a \in up(p) : j.items[a].parent = NoCode
        BY <1>2, <3>3
      <4> QED BY <1>2, <3>1, <4>1, <4>2, <4>3
    <3> QED BY <3>1, <3>2, <3>3
  <2> QED BY <2>1, <2>2 DEF Inserted, N
<1>5. ASSUME NEW c \in S, NEW T \in SUBSET N, NextLayer(j, T) \subseteq T
      PROVE  c \in T
  <2> DEFINE R == Reported(j.items)
             D == {d \in Codes : c \in Descendants(R, {d}) => d \in T}
  <2>1. c \in N /\ up(c) \subseteq N /\ c \in Codes
    BY <1>1, <1>2
  <2>2. PICK a \in up(c) : j.items[a].parent = NoCode
    BY <1>2
  <2>3. a \in Codes /\ c \in Descendants(R, {a})
    BY <2>2 DEF up, Ancestors
  <2>4. a \in T
    BY <1>5, <2>1, <2>2 DEF NextLayer, N
  <2>5. ClosedBelow(R, D)
    <3> SUFFICES ASSUME NEW d \in Present(R), R[d].parent \in D, c \in Descendants(R, {d})
                 PROVE  d \in T
      BY DEF ClosedBelow, Present
    <3> DEFINE p == R[d].parent
    <3>1. d \in Codes /\ p \in Codes /\ d \in DOMAIN j.items /\ p = j.items[d].parent
      BY ReportedRows DEF Present
    <3>2. d \in Descendants(R, {p})
      <4>1. ClosedBelow(R, Descendants(R, {p})) /\ p \in Descendants(R, {p})
        BY <3>1, DescendantsClosed
      <4> QED BY <4>1 DEF ClosedBelow
    <3>3. c \in Descendants(R, {p})
      BY <3>1, <3>2, DescendantsOfDescendant
    <3>4. p \in T
      BY <3>3
    <3>5. d \in N
      BY <2>1, <3>1 DEF up, Ancestors
    <3> QED BY <1>5, <3>1, <3>4, <3>5 DEF NextLayer, N
  <2>6. {a} \subseteq D /\ D \in SUBSET Codes
    BY <2>3, <2>4
  <2>7. c \in Descendants(R, {c})
    BY <2>1, DescendantsClosed
  <2> HIDE DEF D
  <2>8. c \in D
    BY <2>3, <2>5, <2>6, DescendantsLeast
  <2> QED BY <2>7, <2>8 DEF D
<1>6. S \subseteq Inserted(j)
  BY <1>2, <1>5 DEF Inserted, N
<1> QED BY <1>4, <1>6 DEF S

-----------------------------------------------------------------------------
(* Reports that overlap. *)

ActiveStored(t) == \A c \in Codes : t[c].active => t[c].present

(* A report on its way: what it inserts is locked by it and not stored;    *)
(* what it read is still there, under the same parent; and if nothing was  *)
(* added since, it prunes everything below the nodes that are not reported.*)
HeldRows(s) ==
    pc[s] \in {"update", "query", "prune", "commit"} =>
        \A c \in Inserted(job[s]) : lock[c] = s /\ ~perms[c].present
SeenRows(s) ==
    pc[s] # "idle" =>
        \A c \in Present(job[s].snap) :
            perms[c].present /\ perms[c].parent = job[s].snap[c].parent
PruneSeen(s) ==
    pc[s] \in {"prune", "commit"} /\ Present(perms) = Present(job[s].snap) =>
        job[s].prune = Descendants(Upserted(job[s], perms), PrunedCodes(job[s]))
OnItsWay(s) == HeldRows(s) /\ SeenRows(s) /\ PruneSeen(s)
SyncInv == /\ TypeOK /\ ParentsStored /\ ActiveStored(perms)
           /\ \A s \in Syncs : OnItsWay(s)

(* What a report that commits on the table it read leaves active.          *)
LEMMA AsReadOutcome ==
    ASSUME NEW j \in Job, NEW base \in [Codes -> Row], j.snap = base,
           NoOrphan(base), ActiveStored(base),
           j.prune = Descendants(Upserted(j, base), PrunedCodes(j)),
           NEW c \in Codes
    PROVE  /\ Outcome(j, base)[c].active
                <=> c \in DOMAIN j.items /\ Outcome(j, base)[c].present /\ c \notin j.prune
           /\ c \in DOMAIN j.items /\ Outcome(j, base)[c].present
                => Outcome(j, base)[c].fields = j.items[c].fields
<1> DEFINE u == Upserted(j, base)
           o == Outcome(j, base)
<1>1. ColumnsOf(u, j, base)
  BY UpsertedColumns
<1>2. /\ o[c].present <=> u[c].present
      /\ o[c].fields = u[c].fields
      /\ o[c].active <=> u[c].active /\ c \notin j.prune
  <2>1. /\ Present(o) = Present(u)
        /\ o[c].fields = u[c].fields
        /\ o[c].active <=> u[c].active /\ c \notin j.prune
    BY OutcomeRows
  <2> HIDE DEF o, u
  <2> QED BY <2>1 DEF Present
<1>3. PrunedCodes(j) \in SUBSET Codes
  BY DiffTyped
<1>4. PrunedCodes(j) \subseteq j.prune
  BY <1>3, DescendantsClosed
<1>5. /\ Inserted(j) \subseteq DOMAIN j.items \ Present(base)
      /\ CommonCodes(j) = DOMAIN j.items \intersect Present(base)
      /\ PrunedCodes(j) = Present(base) \ DOMAIN j.items
  BY DiffTyped
<1> HIDE DEF u, o
<1>6. CASE c \in Inserted(j)
  <2>1. u[c].active /\ u[c].present /\ u[c].fields = j.items[c].fields
    BY <1>1, <1>6 DEF ColumnsOf
  <2>2. c \in DOMAIN j.items
    BY <1>5, <1>6
  <2>3. /\ o[c].active <=> c \in DOMAIN j.items /\ o[c].present /\ c \notin j.prune
        /\ c \in DOMAIN j.items /\ o[c].present => o[c].fields = j.items[c].fields
    BY <1>2, <2>1, <2>2
  <2> QED BY <2>3 DEF o
<1>7. CASE c \in CommonCodes(j)
  <2>1. c \in DOMAIN j.items /\ c \notin Inserted(j) /\ base[c].present
    BY <1>5, <1>7 DEF Present
  <2>2. /\ u[c].present = base[c].present
        /\ u[c].active = IF base[c].active THEN base[c].active ELSE TRUE
        /\ u[c].fields = IF base[c].fields # j.items[c].fields THEN j.items[c].fields
                         ELSE base[c].fields
    BY <1>1, <1>7, <2>1 DEF ColumnsOf
  <2>3. /\ o[c].active <=> c \in DOMAIN j.items /\ o[c].present /\ c \notin j.prune
        /\ c \in DOMAIN j.items /\ o[c].present => o[c].fields = j.items[c].fields
    BY <1>2, <2>1, <2>2
  <2> QED BY <2>3 DEF o
<1>8. CASE c \notin Inserted(j) /\ c \notin CommonCodes(j)
  <2>1. u[c] = base[c]
    BY <1>1, <1>8 DEF ColumnsOf
  <2>2. CASE base[c].present
    <3>1. c \notin DOMAIN j.items /\ c \in PrunedCodes(j)
      BY <1>5, <1>8, <2>2 DEF Present
    <3>2. c \notin DOMAIN j.items /\ ~o[c].active
      BY <1>2, <1>4, <3>1
    <3> QED BY <3>2 DEF o
  <2>3. CASE ~base[c].present
    <3>1. ~o[c].present /\ ~o[c].active
      BY <1>2, <2>1, <2>3 DEF ActiveStored
    <3> QED BY <3>1 DEF o
  <2> QED BY <2>2, <2>3
<1> QED BY <1>6, <1>7, <1>8

(* Who is below a pruned node has an ancestor that is not reported, and    *)
(* the other way round.                                                    *)
LEMMA PrunedHasAncestor ==
    ASSUME NEW j \in Job, NEW base \in [Codes -> Row], j.snap = base, NoOrphan(base),
           j.prune = Descendants(Upserted(j, base), PrunedCodes(j)),
           NEW c \in DOMAIN j.items
    PROVE  c \in j.prune <=> ~(Ancestors(Outcome(j, base), c) \subseteq DOMAIN j.items)
<1> DEFINE u == Upserted(j, base)
           o == Outcome(j, base)
<1>1. \A R : Descendants(o, R) = Descendants(u, R)
  <2>1. Present(o) = Present(u) /\ \A d \in Codes : o[d].parent = u[d].parent
    BY OutcomeRows
  <2> HIDE DEF o, u
  <2> QED BY <2>1, DescendantsSame
<1>2. /\ PrunedCodes(j) = Present(base) \ DOMAIN j.items
      /\ PrunedCodes(j) \in SUBSET Codes
      /\ Inserted(j) \subseteq DOMAIN j.items
      /\ DOMAIN j.items \subseteq Codes
  BY DiffTyped
<1>3. NoOrphan(u) /\ u \in [Codes -> Row] /\ ColumnsOf(u, j, base)
  BY UpsertedKeepsParents, UpsertedColumns
<1> HIDE DEF u, o
<1>4. ASSUME c \in j.prune
      PROVE  ~(Ancestors(o, c) \subseteq DOMAIN j.items)
  <2>1. PICK r \in PrunedCodes(j) : c \in Descendants(u, {r})
    <3>1. c \in Descendants(u, PrunedCodes(j))
      BY <1>4 DEF u
    <3> QED BY <1>2, <3>1, DescendantsOfOne
  <2>2. r \in Ancestors(o, c)
    BY <1>1, <1>2, <2>1 DEF Ancestors
  <2> QED BY <1>2, <2>2
<1>5. ASSUME c \notin j.prune, NEW a \in Ancestors(o, c), a \notin DOMAIN j.items
      PROVE  FALSE
  <2>1. a \in Codes /\ c \in Descendants(u, {a})
    BY <1>1, <1>5 DEF Ancestors
  <2>2. CASE a \in Present(base)
    <3>1. {a} \subseteq PrunedCodes(j)
      BY <1>2, <1>5, <2>2
    <3>2. Descendants(u, {a}) \subseteq Descendants(u, PrunedCodes(j))
      BY <1>2, <2>1, <3>1, DescendantsGrow
    <3> QED BY <1>5, <2>1, <3>2 DEF u
  <2>3. CASE a \notin Present(base)
    <3>1. ~u[a].present
      BY <1>2, <1>3, <1>5, <2>1, <2>3 DEF ColumnsOf, Present
    <3>2. ClosedBelow(u, {a})
      BY <1>3, <2>1, <3>1, NodeAssumption DEF ClosedBelow, NoOrphan, Present
    <3>3. c \in {a}
      BY <2>1, <3>2, DescendantsLeast
    <3> QED BY <1>5, <3>3
  <2> QED BY <2>2, <2>3
<1> QED BY <1>4, <1>5 DEF o

(* The rows a report adds, and that it adds none that is active and not    *)
(* stored.                                                                 *)
LEMMA OutcomePresence ==
    ASSUME NEW j \in Job, NEW base \in [Codes -> Row]
    PROVE  /\ Present(Outcome(j, base)) = Present(base) \union Inserted(j)
           /\ \A c \in Codes \ Inserted(j) : Outcome(j, base)[c].parent = base[c].parent
           /\ ActiveStored(base) /\ Present(j.snap) \subseteq Present(base)
                => ActiveStored(Outcome(j, base))
<1> DEFINE u == Upserted(j, base)
           o == Outcome(j, base)
<1>1. /\ Present(o) = Present(u)
      /\ \A c \in Codes : o[c].parent = u[c].parent /\ (o[c].active => u[c].active)
  BY OutcomeRows
<1>2. ColumnsOf(u, j, base)
  BY UpsertedColumns
<1>3. Inserted(j) \subseteq Codes /\ CommonCodes(j) \subseteq Present(j.snap)
  BY DiffTyped
<1> HIDE DEF u, o
<1>4. Present(u) = Present(base) \union Inserted(j)
  BY <1>2, <1>3 DEF ColumnsOf, Present
<1>5. \A c \in Codes \ Inserted(j) : o[c].parent = base[c].parent
  BY <1>1, <1>2 DEF ColumnsOf
<1>6. ASSUME ActiveStored(base), Present(j.snap) \subseteq Present(base), NEW c \in Codes, o[c].active
      PROVE  o[c].present
  <2>1. c \in Inserted(j) \/ c \in CommonCodes(j) \/ u[c] = base[c]
    BY <1>2 DEF ColumnsOf
  <2>2. c \in Present(base) \union Inserted(j)
    BY <1>1, <1>3, <1>6, <2>1 DEF ActiveStored, Present
  <2> QED BY <1>1, <1>4, <2>2 DEF Present
<1> QED BY <1>1, <1>4, <1>5, <1>6 DEF u, o, ActiveStored

(* What the invariant says of a commit on the table that was read.         *)
LEMMA AsReadCommit ==
    ASSUME SyncInv, NEW s \in Syncs, CommitsAsRead(s)
    PROVE  /\ ActiveUnderActive'
           /\ Present(perms') = Present(perms) \union NewChains(job[s].items, perms)
           /\ \A c \in Present(perms') :
                perms'[c].active <=> Ancestors(perms', c) \subseteq DOMAIN job[s].items
           /\ \A c \in DOMAIN job[s].items :
                perms'[c].present => perms'[c].fields = job[s].items[c].fields
<1> DEFINE j == job[s]
           u == Upserted(j, perms)
<1>1. /\ j \in Job /\ perms \in [Codes -> Row]
      /\ j.snap = perms
      /\ NoOrphan(perms) /\ ActiveStored(perms)
      /\ j.prune = Descendants(u, PrunedCodes(j))
      /\ perms' = Outcome(j, perms)
  BY DEF SyncInv, TypeOK, ParentsStored, NoOrphan, OnItsWay, PruneSeen, Commits, CommitsAsRead
<1>2. /\ PrunedCodes(j) \in SUBSET Codes
      /\ PrunedCodes(j) = Present(perms) \ DOMAIN j.items
      /\ Inserted(j) \subseteq DOMAIN j.items
      /\ DOMAIN j.items \subseteq Codes
  BY <1>1, DiffTyped
<1>3. /\ perms' \in [Codes -> Row]
      /\ Present(perms') = Present(u)
      /\ \A c \in Codes : perms'[c].parent = u[c].parent
      /\ NoOrphan(perms')
  BY <1>1, OutcomeRows, OutcomeKeepsParents
<1>4. ColumnsOf(u, j, perms)
  BY <1>1, UpsertedColumns
<1>5. ClosedBelow(u, j.prune) /\ PrunedCodes(j) \subseteq j.prune
  BY <1>1, <1>2, DescendantsClosed
<1>6. ASSUME NEW c \in Codes
      PROVE  /\ perms'[c].active <=> c \in DOMAIN j.items /\ perms'[c].present /\ c \notin j.prune
             /\ c \in DOMAIN j.items /\ perms'[c].present => perms'[c].fields = j.items[c].fields
  BY <1>1, AsReadOutcome
<1>7. ASSUME NEW c \in DOMAIN j.items
      PROVE  c \in j.prune <=> ~(Ancestors(perms', c) \subseteq DOMAIN j.items)
  BY <1>1, PrunedHasAncestor
<1> HIDE DEF j, u
<1>8. ASSUME NEW c \in Codes, perms'[c].active, perms'[c].parent # NoCode
      PROVE  perms'[perms'[c].parent].active
  <2> DEFINE a == perms'[c].parent
  <2>1. a \in Codes
    BY <1>3, <1>8 DEF Row
  <2>2. perms'[a].present
    BY <1>3, <1>6, <1>8 DEF NoOrphan
  <2>3. a \notin j.prune
    <3>1. c \in Present(u) /\ c \notin j.prune /\ u[c].parent = a
      BY <1>3, <1>6, <1>8 DEF Present
    <3> QED BY <1>5, <3>1 DEF ClosedBelow
  <2>4. a \in DOMAIN j.items
    <3>1. a \in Present(u)
      BY <1>3, <2>1, <2>2 DEF Present
    <3>2. a \in Inserted(j) \/ a \in Present(perms)
      BY <1>4, <2>1, <3>1 DEF ColumnsOf, Present
    <3> QED BY <1>2, <1>5, <2>3, <3>2
  <2> QED BY <1>6, <2>1, <2>2, <2>3, <2>4
<1>9. Present(perms') = Present(perms) \union NewChains(j.items, perms)
  BY <1>1, OutcomePresence, InsertedIsNewChains
<1>10. ASSUME NEW c \in Present(perms')
       PROVE  perms'[c].active <=> Ancestors(perms', c) \subseteq DOMAIN j.items
  <2>1. c \in Codes /\ perms'[c].present
    BY DEF Present
  <2>2. c \in Ancestors(perms', c)
    BY <2>1, DescendantsClosed DEF Ancestors
  <2> QED BY <1>6, <1>7, <2>1, <2>2
<1> QED BY <1>2, <1>6, <1>8, <1>9, <1>10 DEF j, ActiveUnderActive

(* A step of s that leaves the table and the locks of others leaves the    *)
(* other reports on their way.                                             *)
LEMMA OthersOnTheirWay ==
    ASSUME SyncInv, NEW s \in Syncs, UNCHANGED perms, NEW l, NEW j, Goto(s, l, j),
           \A t \in Syncs \ {s} : \A c \in Codes : lock[c] = t => lock'[c] = t,
           OnItsWay(s)'
    PROVE  \A t \in Syncs : OnItsWay(t)'
<1> SUFFICES ASSUME NEW t \in Syncs, t # s PROVE OnItsWay(t)'
  OBVIOUS
<1>1. pc'[t] = pc[t] /\ job'[t] = job[t] /\ OnItsWay(t) /\ job[t] \in Job
  BY DEF Goto, SyncInv, TypeOK
<1>2. Inserted(job[t]) \subseteq Codes
  BY <1>1, DiffTyped
<1>3. HeldRows(t)'
  BY <1>1, <1>2 DEF OnItsWay, HeldRows
<1>4. SeenRows(t)' /\ PruneSeen(t)'
  BY <1>1 DEF OnItsWay, SeenRows, PruneSeen
<1> QED BY <1>3, <1>4 DEF OnItsWay

(* The locks: a step takes free rows or releases its own.                  *)
LEMMA OthersLocks ==
    ASSUME TypeOK, NEW s \in Syncs, TakeRows(s) \/ lock' = Released(s) \/ lock' = lock
    PROVE  /\ \A t \in Syncs \ {s} : \A c \in Codes : lock[c] = t => lock'[c] = t
           /\ TakeRows(s) => \A c \in Codes : (lock[c] = s \/ c \in Wanted(s)) => lock'[c] = s
BY SyncAssumption DEF TypeOK, TakeRows, Released

LEMMA AbortKeepsInv ==
    ASSUME SyncInv, NEW s \in Syncs, Abort(s)
    PROVE  \A t \in Syncs : OnItsWay(t)'
<1>1. pc'[s] = "idle"
  BY DEF Abort, Goto, SyncInv, TypeOK
<1>2. OnItsWay(s)'
  BY <1>1 DEF OnItsWay, HeldRows, SeenRows, PruneSeen
<1>3. TypeOK /\ lock' = Released(s) /\ Goto(s, "idle", NoJob) /\ UNCHANGED perms
  BY DEF Abort, SyncInv
<1> QED BY <1>2, <1>3, OthersLocks, OthersOnTheirWay

(* A phase that takes its rows and goes on.                                *)
LEMMA PhaseKeepsInv ==
    ASSUME SyncInv, NEW s \in Syncs, NEW l, Goto(s, l, job[s]), TakeRows(s), UNCHANGED perms,
           \/ /\ pc[s] = "insert" /\ l = "update"
              /\ Inserted(job[s]) \intersect Present(perms) = {}
           \/ pc[s] = "update" /\ l = "query"
           \/ pc[s] = "prune" /\ l = "commit"
    PROVE  \A t \in Syncs : OnItsWay(t)'
<1>1. pc'[s] = l /\ job'[s] = job[s] /\ OnItsWay(s) /\ job[s] \in Job /\ TypeOK
  BY DEF Goto, SyncInv, TypeOK
<1>2. Inserted(job[s]) \subseteq Codes
  BY <1>1, DiffTyped
<1>3. \A c \in Codes : (lock[c] = s \/ c \in Wanted(s)) => lock'[c] = s
  BY <1>1, OthersLocks
<1>4. \A c \in Inserted(job[s]) : (lock[c] = s \/ c \in Wanted(s)) /\ ~perms[c].present
  <2>1. CASE pc[s] = "insert"
    <3>1. Wanted(s) = Inserted(job[s]) /\ Inserted(job[s]) \intersect Present(perms) = {}
      BY <2>1 DEF Wanted
    <3> QED BY <1>2, <3>1 DEF Present
  <2>2. CASE pc[s] # "insert"
    BY <1>1, <2>2 DEF OnItsWay, HeldRows
  <2> QED BY <2>1, <2>2
<1>5. HeldRows(s)'
  BY <1>1, <1>2, <1>3, <1>4 DEF HeldRows
<1>6. SeenRows(s)' /\ PruneSeen(s)'
  BY <1>1 DEF OnItsWay, SeenRows, PruneSeen
<1> QED BY <1>1, <1>5, <1>6, OthersLocks, OthersOnTheirWay DEF OnItsWay

(* What a report commits is neither locked nor read by another, so the     *)
(* others stay on their way.                                               *)
LEMMA CommitKeepsInv ==
    ASSUME SyncInv, NEW s \in Syncs, SyncCommit(s)
    PROVE  ActiveStored(perms') /\ \A t \in Syncs : OnItsWay(t)'
<1> DEFINE j == job[s]
<1>1. /\ TypeOK /\ j \in Job /\ perms \in [Codes -> Row] /\ ActiveStored(perms)
      /\ perms' = Outcome(j, perms) /\ lock' = Released(s)
      /\ pc'[s] = "idle"
      /\ \A c \in Inserted(j) : lock[c] = s /\ ~perms[c].present
      /\ Present(j.snap) \subseteq Present(perms)
  BY DEF SyncInv, TypeOK, SyncCommit, Goto, OnItsWay, HeldRows, SeenRows, Present
<1>2. /\ Present(perms') = Present(perms) \union Inserted(j)
      /\ \A c \in Codes \ Inserted(j) : perms'[c].parent = perms[c].parent
      /\ ActiveStored(perms')
      /\ perms' \in [Codes -> Row]
  BY <1>1, OutcomePresence, OutcomeRows
<1>3. \A t \in Syncs \ {s} : \A c \in Codes : lock[c] = t => lock'[c] = t
  BY <1>1, OthersLocks
<1> HIDE DEF j
<1>4. ASSUME NEW t \in Syncs, t # s
      PROVE  OnItsWay(t)'
  <2>1. pc'[t] = pc[t] /\ job'[t] = job[t] /\ OnItsWay(t) /\ job[t] \in Job
    BY <1>4 DEF SyncInv, TypeOK, SyncCommit, Goto
  <2>2. Inserted(job[t]) \subseteq Codes /\ Present(job[t].snap) \subseteq Codes
    BY <2>1, DiffTyped
  <2>3. HeldRows(t)'
    <3> SUFFICES ASSUME pc[t] \in {"update", "query", "prune", "commit"},
                        NEW c \in Inserted(job[t])
                 PROVE  lock'[c] = t /\ ~perms'[c].present
      BY <2>1 DEF HeldRows
    <3>1. c \in Codes /\ lock[c] = t /\ ~perms[c].present
      BY <2>1, <2>2 DEF OnItsWay, HeldRows
    <3>2. c \notin Inserted(j)
      BY <1>1, <1>4, <3>1
    <3> QED BY <1>2, <1>3, <1>4, <3>1, <3>2 DEF Present
  <2>4. SeenRows(t)'
    <3> SUFFICES ASSUME pc[t] # "idle", NEW c \in Present(job[t].snap)
                 PROVE  perms'[c].present /\ perms'[c].parent = job[t].snap[c].parent
      BY <2>1 DEF SeenRows
    <3>1. c \in Codes /\ perms[c].present /\ perms[c].parent = job[t].snap[c].parent
      BY <2>1, <2>2 DEF OnItsWay, SeenRows
    <3>2. c \notin Inserted(j)
      BY <1>1, <3>1
    <3> QED BY <1>2, <3>1, <3>2 DEF Present
  <2>5. PruneSeen(t)'
    <3> SUFFICES ASSUME pc[t] \in {"prune", "commit"}, Present(perms') = Present(job[t].snap)
                 PROVE  job[t].prune = Descendants(Upserted(job[t], perms'), PrunedCodes(job[t]))
      BY <2>1 DEF PruneSeen
    <3>1. Present(job[t].snap) \subseteq Present(perms)
      BY <2>1, <2>2 DEF OnItsWay, SeenRows, Present
    <3>2. Present(perms) = Present(perms') /\ Inserted(j) = {}
      BY <1>1, <1>2, <3>1 DEF Present
    <3>3. \A c \in Codes : perms'[c].parent = perms[c].parent
                          /\ (perms'[c].present <=> perms[c].present)
      BY <1>2, <3>2 DEF Present
    <3>4. job[t].prune = Descendants(Upserted(job[t], perms), PrunedCodes(job[t]))
      BY <2>1, <3>2 DEF OnItsWay, PruneSeen
    <3> DEFINE u == Upserted(job[t], perms)
               v == Upserted(job[t], perms')
    <3>5. ColumnsOf(u, job[t], perms) /\ ColumnsOf(v, job[t], perms')
      BY <1>1, <1>2, <2>1, UpsertedColumns
    <3> HIDE DEF u, v
    <3>6. \A c \in Codes : u[c].parent = v[c].parent /\ (u[c].present <=> v[c].present)
      BY <3>3, <3>5 DEF ColumnsOf
    <3>7. Present(u) = Present(v)
      BY <3>6 DEF Present
    <3>8. Descendants(u, PrunedCodes(job[t])) = Descendants(v, PrunedCodes(job[t]))
      BY <3>6, <3>7, DescendantsSame
    <3> QED BY <3>4, <3>8 DEF u, v
  <2> QED BY <2>3, <2>4, <2>5 DEF OnItsWay
<1>5. OnItsWay(s)'
  BY <1>1 DEF OnItsWay, HeldRows, SeenRows, PruneSeen
<1> QED BY <1>2, <1>4, <1>5

LEMMA SyncInvInit == Init => SyncInv
<1> SUFFICES ASSUME Init PROVE SyncInv
  OBVIOUS
<1>1. TypeOK
  BY InitTyped
<1>2. ParentsStored /\ ActiveStored(perms)
  BY DEF Init, Absent, ParentsStored, ActiveStored
<1>3. \A s \in Syncs : OnItsWay(s)
  BY DEF Init, OnItsWay, HeldRows, SeenRows, PruneSeen
<1> QED BY <1>1, <1>2, <1>3 DEF SyncInv

LEMMA SyncInvStep ==
    ASSUME SyncInv, TypeOK', ParentsStored', [Next]_vars
    PROVE  SyncInv'
<1>1. ASSUME UNCHANGED perms, \A s \in Syncs : OnItsWay(s)'
      PROVE  SyncInv'
  BY <1>1 DEF SyncInv, ActiveStored
<1>2. ASSUME NEW s \in Syncs, Abort(s)
      PROVE  SyncInv'
  BY <1>1, <1>2, AbortKeepsInv DEF Abort
<1>3. CASE UNCHANGED vars
  <2>1. \A s \in Syncs : OnItsWay(s)'
    BY <1>3 DEF SyncInv, OnItsWay, HeldRows, SeenRows, PruneSeen, vars
  <2> QED BY <1>1, <1>3, <2>1 DEF vars
<1>4. ASSUME NEW s \in Syncs, NEW items \in Reports, SyncRead(s, items)
      PROVE  SyncInv'
  <2> DEFINE j == [NoJob EXCEPT !.items = items, !.snap = perms]
  <2>1. /\ Goto(s, "insert", j) /\ UNCHANGED perms /\ lock' = lock /\ TypeOK
    BY <1>4 DEF SyncRead, SyncInv
  <2>2. pc'[s] = "insert" /\ job'[s].snap = perms
    BY <2>1 DEF Goto, TypeOK, NoJob
  <2>3. OnItsWay(s)'
    BY <2>1, <2>2 DEF OnItsWay, HeldRows, SeenRows, PruneSeen, Present
  <2> HIDE DEF j
  <2>4. \A t \in Syncs : OnItsWay(t)'
    BY <2>1, <2>3, OthersLocks, OthersOnTheirWay
  <2> QED BY <1>1, <2>1, <2>4
<1>5. ASSUME NEW s \in Syncs, WaitStep(s)
      PROVE  SyncInv'
  <2>1. CASE Abort(s)
    BY <2>1, <1>2
  <2>2. CASE ~Abort(s)
    <3>1. /\ UNCHANGED perms /\ TakeRows(s)
          /\ \/ /\ pc[s] = "insert" /\ Goto(s, "update", job[s])
                /\ Inserted(job[s]) \intersect Present(perms) = {}
             \/ pc[s] = "update" /\ Goto(s, "query", job[s])
             \/ pc[s] = "prune" /\ Goto(s, "commit", job[s])
      BY <1>5, <2>2 DEF WaitStep, SyncInsert, SyncUpdate, SyncPrune
    <3>2. \A t \in Syncs : OnItsWay(t)'
      BY <3>1, PhaseKeepsInv
    <3> QED BY <1>1, <3>1, <3>2
  <2> QED BY <2>1, <2>2
<1>6. ASSUME NEW s \in Syncs, SyncQuery(s)
      PROVE  SyncInv'
  <2> DEFINE found == Descendants(Upserted(job[s], perms), PrunedCodes(job[s]))
             new   == [job[s] EXCEPT !.prune = found]
  <2>1. /\ pc[s] = "query" /\ UNCHANGED perms /\ lock' = lock /\ TypeOK
        /\ Goto(s, "prune", new)
        /\ pc'[s] = "prune" /\ job'[s] = new
    BY <1>6 DEF SyncQuery, Goto, SyncInv, TypeOK
  <2>2. /\ new.items = job[s].items /\ new.snap = job[s].snap /\ new.prune = found
    BY DEF SyncInv, TypeOK, Job
  <2>3. OnItsWay(s)
    BY DEF SyncInv
  <2>4. /\ PrunedCodes(new) = PrunedCodes(job[s])
        /\ Upserted(new, perms) = Upserted(job[s], perms)
        /\ Inserted(new) = Inserted(job[s])
    <3> HIDE DEF new
    <3>1. /\ NewCodes(new) = NewCodes(job[s])
          /\ CommonCodes(new) = CommonCodes(job[s])
          /\ PrunedCodes(new) = PrunedCodes(job[s])
      BY <2>2 DEF NewCodes, CommonCodes, PrunedCodes
    <3>2. \A S : NextLayer(new, S) = NextLayer(job[s], S)
      BY <2>2, <3>1 DEF NextLayer
    <3>3. Inserted(new) = Inserted(job[s])
      BY <3>1, <3>2 DEF Inserted
    <3>4. Upserted(new, perms) = Upserted(job[s], perms)
      BY <2>2, <3>1, <3>3 DEF Upserted
    <3> QED BY <3>1, <3>3, <3>4
  <2> HIDE DEF new, found
  <2>5. new.prune = Descendants(Upserted(new, perms), PrunedCodes(new))
    BY <2>2, <2>4 DEF found
  <2>6. OnItsWay(s)'
    <3>1. PruneSeen(s)'
      BY <2>1, <2>5 DEF PruneSeen
    <3>2. HeldRows(s)'
      BY <2>1, <2>3, <2>4 DEF OnItsWay, HeldRows
    <3>3. SeenRows(s)'
      BY <2>1, <2>2, <2>3 DEF OnItsWay, SeenRows
    <3> QED BY <3>1, <3>2, <3>3 DEF OnItsWay
  <2>7. \A t \in Syncs : OnItsWay(t)'
    BY <2>1, <2>6, OthersLocks, OthersOnTheirWay
  <2> QED BY <1>1, <2>1, <2>7
<1>7. ASSUME NEW s \in Syncs, SyncCommit(s)
      PROVE  SyncInv'
  BY <1>7, CommitKeepsInv DEF SyncInv, ActiveStored
<1>8. ASSUME NEW s \in Syncs, DeadlockAbort(s) \/ Fail(s)
      PROVE  SyncInv'
  BY <1>8, <1>2 DEF DeadlockAbort, Fail
<1> QED BY <1>3, <1>4, <1>5, <1>6, <1>7, <1>8 DEF Next, FreeStep

LEMMA SyncInvariant == Spec => []SyncInv
<1>1. Init => SyncInv
  BY SyncInvInit
<1>2. SyncInv /\ TypeOK' /\ ParentsStored' /\ [Next]_vars => SyncInv'
  BY SyncInvStep
<1> QED BY <1>1, <1>2, TypeCorrect, NoOrphanNodes, PTL DEF Spec

(* Whatever overlaps left behind, a report that commits on the table it    *)
(* read leaves no node active under an inactive or missing one.            *)
THEOREM ReportsRestoreTree == Spec => TreeRestored
<1>1. SyncInv => [(\E s \in Syncs : CommitsAsRead(s)) => ActiveUnderActive']_vars
  BY AsReadCommit
<1> QED BY <1>1, SyncInvariant, PTL DEF TreeRestored

(* ... it stores exactly the new nodes whose reported chain is new, and    *)
(* leaves active exactly the stored nodes with reported ancestors, by a    *)
(* definition that does not mention the phases, ...                        *)
THEOREM ReportsMatchReference == Spec => SyncMatchesReference
<1>1. SyncInv =>
        [\A s \in Syncs : CommitsAsRead(s) =>
           LET items == job[s].items IN
           /\ Present(perms') = Present(perms) \union NewChains(items, perms)
           /\ \A c \in Present(perms') :
                perms'[c].active <=> Ancestors(perms', c) \subseteq DOMAIN items]_vars
  BY AsReadCommit
<1> QED BY <1>1, SyncInvariant, PTL DEF SyncMatchesReference

(* ... and every stored node it names has the columns it reported.         *)
THEOREM ReportsAlignFields == Spec => FieldsAligned
<1>1. SyncInv =>
        [\A s \in Syncs : CommitsAsRead(s) =>
           \A c \in DOMAIN job[s].items :
             perms'[c].present => perms'[c].fields = job[s].items[c].fields]_vars
  BY AsReadCommit
<1> QED BY <1>1, SyncInvariant, PTL DEF FieldsAligned
=============================================================================
