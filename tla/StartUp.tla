------------------------------- MODULE StartUp -------------------------------
(***************************************************************************)
(* Start-up of the replicas of the core service (lifespan): wait for the   *)
(* database, create the tables outside production, and seed the base data  *)
(* in one transaction that looks for each part and inserts what is not     *)
(* there.  Meanwhile another replica starts, and administrators edit the   *)
(* same rows through a replica that serves.  Each query is one step.       *)
(***************************************************************************)
EXTENDS Integers, Sequences, Functions

CONSTANTS
    Replicas,
    MaxRetries,  \* wait_for_db's max_retries (60)
    Editable,    \* bound: the names that administrators give or take away
    MaxHeads     \* bound: departments named like the seed's head office

(* The parts of the seed: the name that is looked for and the names of the *)
(* rows that are inserted, flush by flush, when it is not found.  The last *)
(* row of the user's part is its link to the role and has no name.         *)
HeadOffice == "head office"
Part(guard, then) == [guard |-> guard, rows |-> <<{guard}>> \o then]
Parts == <<Part("nexuskit", <<>>), Part("datahub", <<>>), Part(HeadOffice, <<>>),
           Part("sys:system:manage", <<{"sys:user:view"}, {"sys:user:add"}>>),
           Part("super_admin", <<>>),
           [guard |-> "admin", rows |-> <<{"admin", "admin@nexuskit.com"}, {}>>]>>
Apps   == {"nexuskit", "datahub"}
Perms  == {"sys:system:manage", "sys:user:view", "sys:user:add"}
RowsOf(i) == UNION Range(Parts[i].rows)
Names  == UNION {RowsOf(i) : i \in DOMAIN Parts}

ASSUME RetryAssumption == MaxRetries \in Nat \ {0}
ASSUME EditAssumption  == Editable \subseteq Names \ {HeadOffice} /\ MaxHeads \in Nat \ {0}

VARIABLES
    db,      \* does the database accept connections
    env,     \* ENVIRONMENT
    schema,  \* do the tables exist
    rows,    \* the names stored (app_code, code, role_code, username, email: unique)
    heads,   \* how many departments are named like the head office (not unique)
    pc, job

tables == <<schema, rows, heads>>
vars   == <<db, env, schema, rows, heads, pc, job>>

(* tries: attempts to connect.  part, todo: where the seed is, the rows it *)
(* has yet to insert.  mine: what it inserted and did not commit.  refs:   *)
(* rows of others whose ids it read and will insert, kept: those it has    *)
(* inserted, which are locked, lost: one of refs was deleted.  meanwhile,  *)
(* a ghost: who has committed since this start read anything.             *)
NoJob == [tries |-> 0, part |-> 1, todo |-> <<>>, mine |-> {}, refs |-> {}, kept |-> {},
          lost |-> FALSE, meanwhile |-> {}]
Transaction(r) == \/ pc[r] \in {"create", "list", "insert", "commit"}
                  \/ pc[r] = "look" /\ job[r].part > 1
Others(r) == Replicas \ {r}

Step(r, l, j) == pc' = [pc EXCEPT ![r] = l] /\ job' = [job EXCEPT ![r] = j]
Raise(r)      == Step(r, "failed", NoJob) /\ UNCHANGED tables

(* Step, when r commits: the starts in a transaction have lived through it, *)
(* and through what r itself has lived through.                             *)
Mark(j, who) == [j EXCEPT !.meanwhile = @ \union who]
StepSeen(r, l) == /\ pc' = [pc EXCEPT ![r] = l]
                  /\ job' = [o \in Replicas |-> IF o = r THEN NoJob
                                                  ELSE IF Transaction(o)
                                                  THEN Mark(job[o], {"start"} \union job[r].meanwhile)
                                                  ELSE job[o]]

-----------------------------------------------------------------------------
Init == /\ db \in BOOLEAN
        /\ env \in {"production", "development"}
        /\ schema \in BOOLEAN
        /\ rows = {} /\ heads = 0
        /\ pc = [r \in Replicas |-> "idle"]
        /\ job = [r \in Replicas |-> NoJob]

Launch(r) == /\ pc[r] \in {"idle", "failed"}
             /\ Step(r, "wait", NoJob)
             /\ UNCHANGED <<db, env, tables>>

(* One attempt of wait_for_db.                                             *)
CountedNot(tries) == tries
Counted(tries)    == tries + 1
Try(r) ==
    /\ pc[r] = "wait"
    /\ LET tries == Counted(job[r].tries) IN
         \/ db /\ Step(r, "tables", NoJob) /\ UNCHANGED tables
         \/ ~db /\ tries = MaxRetries /\ Raise(r)
         \/ /\ ~db /\ tries # MaxRetries
            /\ Step(r, "wait", [NoJob EXCEPT !.tries = tries])
            /\ UNCHANGED tables
    /\ UNCHANGED <<db, env>>

(* init_db: in production the tables are left to Alembic; elsewhere        *)
(* create_all looks which are missing, then creates those.                 *)
Tables(r) ==
    /\ pc[r] = "tables"
    /\ \/ ~db /\ env # "production" /\ Raise(r)
       \/ /\ db \/ env = "production"
          /\ Step(r, IF env = "production" \/ schema THEN "look" ELSE "create", NoJob)
          /\ UNCHANGED tables
    /\ UNCHANGED <<db, env>>
CreateTables(r) ==
    /\ pc[r] = "create"
    /\ \/ schema /\ Raise(r)
       \/ ~schema /\ schema' = TRUE /\ StepSeen(r, "look") /\ UNCHANGED <<rows, heads>>
    /\ UNCHANGED <<db, env>>

(* What the transaction of r sees: what is committed and what it inserted. *)
Visible(r) == rows \union job[r].mine
Heads(r)   == heads + (IF HeadOffice \in job[r].mine THEN 1 ELSE 0)

FoundNot(r, i) == FALSE
FoundAny(r, i) == RowsOf(i) \cap Visible(r) # {} \/ (Parts[i].guard = HeadOffice /\ Heads(r) = 1)
FoundNoOffice(r, i) == Parts[i].guard \in Visible(r)
Found(r, i)    == Parts[i].guard \in Visible(r) \/ (Parts[i].guard = HeadOffice /\ Heads(r) = 1)

(* One part of _seed_permissions begins: select its guard.                 *)
Look(r) ==
    /\ pc[r] = "look"
    /\ LET j == job[r]
           i == j.part
           Go(l, k) == Step(r, l, k) /\ UNCHANGED tables
       IN \/ (~db \/ ~schema) /\ Raise(r)
          \/ db /\ schema /\ Parts[i].guard = HeadOffice /\ Heads(r) > 1 /\ Raise(r)
          \/ /\ db /\ schema /\ Found(r, i)
             /\ Go(IF i = Len(Parts) THEN "commit" ELSE "look",
                   [j EXCEPT !.part = i + 1,
                             !.refs = IF Parts[i].guard = "super_admin" THEN {"super_admin"} ELSE @])
          \/ /\ db /\ schema /\ ~Found(r, i) /\ (Parts[i].guard = HeadOffice => Heads(r) < 2)
             /\ Go(IF Parts[i].guard = "super_admin" THEN "list" ELSE "insert",
                   [j EXCEPT !.todo = Parts[i].rows])
    /\ UNCHANGED <<db, env>>

(* The permissions the new role super_admin will be bound to.              *)
ListPermissions(r) ==
    /\ pc[r] = "list"
    /\ Step(r, "insert", [job[r] EXCEPT !.refs = rows \cap Perms])
    /\ UNCHANGED <<db, env, tables>>

(* One flush.  An insert of a name another start has inserted waits for the *)
(* end of that transaction; a stored name, or a reference to a row that is  *)
(* gone, is the database's error.                                           *)
Taken(r, new)    == new \cap Visible(r) # {}
Parents(new)     == IF "super_admin" \in new THEN {"nexuskit"} ELSE {}
Dangling(r, new) == job[r].lost \/ ~(Parents(new) \subseteq Visible(r))
Insert(r) ==
    /\ pc[r] = "insert"
    /\ LET j    == job[r]
           new  == Head(j.todo)
           left == Tail(j.todo)
           bind == new \in {{}, {"super_admin"}}
       IN /\ \A o \in Others(r) : (new \ {HeadOffice}) \cap job[o].mine = {}
          /\ \/ (Taken(r, new) \/ (bind /\ Dangling(r, new))) /\ Raise(r)
             \/ /\ ~Taken(r, new) /\ ~(bind /\ Dangling(r, new))
                /\ Step(r, IF left # <<>> THEN "insert"
                           ELSE IF j.part = Len(Parts) THEN "commit" ELSE "look",
                           [j EXCEPT !.mine = @ \union new,
                                     !.todo = left,
                                     !.part = IF left = <<>> THEN @ + 1 ELSE @,
                                     !.kept = IF bind THEN @ \union j.refs \union Parents(new) ELSE @,
                                     !.refs = IF bind THEN {} ELSE @])
                /\ UNCHANGED tables
    /\ UNCHANGED <<db, env>>

Commit(r) ==
    /\ pc[r] = "commit"
    /\ rows' = rows \union (job[r].mine \ {HeadOffice})
    /\ heads' = Heads(r)
    /\ StepSeen(r, "serving")
    /\ UNCHANGED <<db, env, schema>>

Start(r) == \/ Try(r) \/ Tables(r) \/ CreateTables(r) \/ Look(r)
            \/ ListPermissions(r) \/ Insert(r) \/ Commit(r)

-----------------------------------------------------------------------------
(* The process of a replica ends, by a crash or by its operator.           *)
Stop(r) == /\ pc[r] # "idle"
           /\ Step(r, "idle", NoJob)
           /\ UNCHANGED <<db, env, tables>>

DbUp == ~db /\ db' = TRUE /\ UNCHANGED <<env, tables, pc, job>>

(* The open transactions are lost: their next query raises.                *)
DbDown == /\ db /\ db' = FALSE
          /\ pc' = [r \in Replicas |-> IF Transaction(r) THEN "failed" ELSE pc[r]]
          /\ job' = [r \in Replicas |-> IF Transaction(r) THEN NoJob ELSE job[r]]
          /\ UNCHANGED <<env, tables>>

(* Alembic creates the tables of production.                               *)
Migrate == /\ db /\ env = "production" /\ ~schema
           /\ schema' = TRUE
           /\ UNCHANGED <<db, env, rows, heads, pc, job>>

(* An administrator creates, renames or deletes a row through a replica    *)
(* that serves; gone is the row that is deleted, if one is.  A rename frees *)
(* the name and keeps the row; a user's name goes with the user, and so    *)
(* does the address unless another user has it by now.                     *)
Console(gone) ==
    /\ db /\ \E r \in Replicas : pc[r] = "serving"
    /\ job' = [o \in Replicas |->
                 IF Transaction(o) THEN [Mark(job[o], {"console"}) EXCEPT !.lost = @ \/ gone \cap job[o].refs # {}]
                 ELSE job[o]]
    /\ UNCHANGED <<db, env, schema, pc>>
Take(n) == /\ n \in Editable \ rows
           /\ \A o \in Replicas : n \notin job[o].mine
           /\ rows' = rows \union {n}
           /\ Console({}) /\ UNCHANGED heads
Free(n) == /\ n \in Editable \cap rows
           /\ \A o \in Replicas : n \notin job[o].kept
           /\ n = "nexuskit" => "super_admin" \notin rows
           /\ \E with \in SUBSET (IF n = "admin" THEN {"admin@nexuskit.com"} ELSE {}) :
                rows' = rows \ ({n} \union with)
           /\ \E gone \in SUBSET {n} : Console(gone)
           /\ UNCHANGED heads
NameDept == heads < MaxHeads /\ heads' = heads + 1 /\ Console({}) /\ UNCHANGED rows
RenameDept == heads > 0 /\ heads' = heads - 1 /\ Console({}) /\ UNCHANGED rows

Next == \/ \E r \in Replicas : Launch(r) \/ Start(r) \/ Stop(r)
        \/ DbUp \/ DbDown \/ Migrate \/ NameDept \/ RenameDept
        \/ \E n \in Editable : Take(n) \/ Free(n)

Spec == Init /\ [][Next]_vars

(* A start runs on: its awaits return, and an insert that waits is served  *)
(* when the other transaction ends.                                        *)
FairSpec == Spec /\ \A r \in Replicas : SF_vars(Start(r))

-----------------------------------------------------------------------------
(* "Idempotent seed: safe to call repeatedly": a start fails only when the *)
(* database is away or has no tables, when another start or an             *)
(* administrator committed while it seeded, when two departments bear the  *)
(* head office's name, or when the name a part looks for was taken away    *)
(* and another of its names is still stored.                               *)
HalfStored(i) == Parts[i].guard \notin rows /\ RowsOf(i) \cap rows # {}
Cause(r) == \/ ~db \/ ~schema \/ job[r].meanwhile # {} \/ heads > 1
            \/ \E i \in DOMAIN Parts : HalfStored(i)
StartFailsForCause ==
    [][\A r \in Replicas : pc[r] # "failed" /\ pc'[r] = "failed" => ~db' \/ Cause(r)]_vars

(* The seed adds a second head office only if an administrator committed   *)
(* while it or a start it overlapped ran, or if another start committed    *)
(* and this one had no application to insert: the unique app codes keep    *)
(* two first starts apart, though departments have no unique name.         *)
OneHeadOffice ==
    [][\A r \in Replicas :
         Commit(r) /\ HeadOffice \in job[r].mine /\ heads > 0
           => \/ "console" \in job[r].meanwhile
              \/ "start" \in job[r].meanwhile /\ job[r].mine \cap Apps = {}]_vars

(* A replica that serves has seeded everything it looks for, unless an     *)
(* administrator took some of it away while the seed ran.                  *)
SeedComplete ==
    [][\A r \in Replicas :
         Commit(r) /\ "console" \notin job[r].meanwhile
           => heads' > 0 /\ {Parts[i].guard : i \in DOMAIN Parts} \subseteq rows' \union {HeadOffice}]_vars

(* Every start ends: the replica serves, or it has failed or was stopped.  *)
EveryStartEnds ==
    \A r \in Replicas : pc[r] = "wait" ~> pc[r] \in {"serving", "failed", "idle"}
=============================================================================
