--------------------------- MODULE StartUp_proofs ---------------------------
(***************************************************************************)
(* Proofs about StartUp, for any number of replicas, any bound on retries  *)
(* and any names that administrators edit: why a start fails, when a seed  *)
(* adds a second head office, and what a committed seed leaves behind.     *)
(***************************************************************************)
EXTENDS StartUp, SequenceTheorems, TLAPS

LEMMA Concatenated == ASSUME NEW a, NEW b, NEW c PROVE <<a>> \o <<b, c>> = <<a, b, c>>
<1> DEFINE S == {a, b, c}
<1>1. <<a>> \in Seq(S) /\ <<b, c>> \in Seq(S) /\ <<a, b, c>> \in Seq(S)
  OBVIOUS
<1>2. Len(<<a>>) = 1 /\ Len(<<b, c>>) = 2 /\ Len(<<a, b, c>>) = 3
  OBVIOUS
<1>3. (<<a>> \o <<b, c>>) \in Seq(S) /\ Len(<<a>> \o <<b, c>>) = 3
  BY <1>1, <1>2
<1>4. \A i \in 1..3 : (<<a>> \o <<b, c>>)[i] = <<a, b, c>>[i]
  BY <1>1, <1>2
<1> QED BY <1>1, <1>2, <1>3, <1>4, SeqEqual

LEMMA PartsAre ==
    /\ Len(Parts) = 6 /\ DOMAIN Parts = 1..6
    /\ Parts[1].guard = "nexuskit" /\ Parts[1].rows = <<{"nexuskit"}>>
    /\ Parts[2].guard = "datahub" /\ Parts[2].rows = <<{"datahub"}>>
    /\ Parts[3].guard = HeadOffice /\ Parts[3].rows = <<{HeadOffice}>>
    /\ Parts[4].guard = "sys:system:manage"
    /\ Parts[4].rows = <<{"sys:system:manage"}, {"sys:user:view"}, {"sys:user:add"}>>
    /\ Parts[5].guard = "super_admin" /\ Parts[5].rows = <<{"super_admin"}>>
    /\ Parts[6].guard = "admin" /\ Parts[6].rows = <<{"admin", "admin@nexuskit.com"}, {}>>
<1>1. ASSUME NEW g
      PROVE  Part(g, <<>>) = [guard |-> g, rows |-> <<{g}>>]
  <2>1. <<{g}>> \o <<>> = <<{g}>>
    OBVIOUS
  <2> QED BY <2>1 DEF Part
<1>2. Part("sys:system:manage", <<{"sys:user:view"}, {"sys:user:add"}>>) =
        [guard |-> "sys:system:manage",
         rows |-> <<{"sys:system:manage"}, {"sys:user:view"}, {"sys:user:add"}>>]
  BY Concatenated DEF Part
<1>3. Parts[1] = Part("nexuskit", <<>>) /\ Parts[2] = Part("datahub", <<>>)
  BY DEF Parts
<1>4. Parts[3] = Part(HeadOffice, <<>>) /\ Parts[5] = Part("super_admin", <<>>)
  BY DEF Parts
<1>5. Parts[4] = Part("sys:system:manage", <<{"sys:user:view"}, {"sys:user:add"}>>)
  BY DEF Parts
<1>6. /\ Parts[6] = [guard |-> "admin", rows |-> <<{"admin", "admin@nexuskit.com"}, {}>>]
      /\ Len(Parts) = 6 /\ DOMAIN Parts = 1..6
  BY DEF Parts
<1>7. Parts[1].guard = "nexuskit" /\ Parts[1].rows = <<{"nexuskit"}>>
  BY <1>1, <1>3
<1>8. Parts[2].guard = "datahub" /\ Parts[2].rows = <<{"datahub"}>>
  BY <1>1, <1>3
<1>9. Parts[3].guard = HeadOffice /\ Parts[3].rows = <<{HeadOffice}>>
  BY <1>1, <1>4
<1>10. Parts[5].guard = "super_admin" /\ Parts[5].rows = <<{"super_admin"}>>
  BY <1>1, <1>4
<1>11. /\ Parts[4].guard = "sys:system:manage"
       /\ Parts[4].rows = <<{"sys:system:manage"}, {"sys:user:view"}, {"sys:user:add"}>>
  BY <1>2, <1>5
<1>12. Parts[6].guard = "admin" /\ Parts[6].rows = <<{"admin", "admin@nexuskit.com"}, {}>>
  BY <1>6
<1> QED BY <1>6, <1>7, <1>8, <1>9, <1>10, <1>11, <1>12

LEMMA Singles == ASSUME NEW a PROVE UNION Range(<<a>>) = a
BY DEF Range
LEMMA Pairs == ASSUME NEW a, NEW b PROVE UNION Range(<<a, b>>) = a \union b
<1>1. Range(<<a, b>>) = {a, b}
  BY DEF Range
<1> QED BY <1>1
LEMMA Triples == ASSUME NEW a, NEW b, NEW c PROVE UNION Range(<<a, b, c>>) = a \union b \union c
<1>1. Range(<<a, b, c>>) = {a, b, c}
  BY DEF Range
<1> QED BY <1>1

LEMMA RowsAre ==
    /\ RowsOf(1) = {"nexuskit"} /\ RowsOf(2) = {"datahub"} /\ RowsOf(3) = {HeadOffice}
    /\ RowsOf(4) = {"sys:system:manage", "sys:user:view", "sys:user:add"}
    /\ RowsOf(5) = {"super_admin"} /\ RowsOf(6) = {"admin", "admin@nexuskit.com"}
<1>1. RowsOf(1) = {"nexuskit"} /\ RowsOf(2) = {"datahub"}
  BY PartsAre, Singles DEF RowsOf
<1>2. RowsOf(3) = {HeadOffice} /\ RowsOf(5) = {"super_admin"}
  BY PartsAre, Singles DEF RowsOf
<1>3. RowsOf(4) = {"sys:system:manage"} \union {"sys:user:view"} \union {"sys:user:add"}
  BY PartsAre, Triples DEF RowsOf
<1>4. RowsOf(6) = {"admin", "admin@nexuskit.com"} \union {}
  BY PartsAre, Pairs DEF RowsOf
<1> QED BY <1>1, <1>2, <1>3, <1>4

(* What is left of a part after its first flushes.                         *)
Rest(i) == {Parts[i].rows} \union
           IF i = 4 THEN {<<{"sys:user:view"}, {"sys:user:add"}>>, <<{"sys:user:add"}>>}
           ELSE IF i = 6 THEN {<<{}>>} ELSE {}
LEMMA Left ==
    ASSUME NEW i \in 1..6, NEW todo \in Rest(i)
    PROVE  /\ todo # <<>> /\ Head(todo) \subseteq RowsOf(i)
           /\ Tail(todo) # <<>> => Tail(todo) \in Rest(i)
           /\ UNION Range(todo) = Head(todo) \union UNION Range(Tail(todo))
           /\ Head(todo) \cap UNION Range(Tail(todo)) = {}
           /\ todo = Parts[i].rows => Parts[i].guard \in Head(todo)
           /\ Head(todo) = {"super_admin"} => i = 5
           /\ UNION Range(todo) \subseteq RowsOf(i)
<1> DEFINE p == {"sys:system:manage"}  u == {"sys:user:view"}  v == {"sys:user:add"}
           w == {"admin", "admin@nexuskit.com"}
<1>0. /\ Parts[4].rows = <<p, u, v>> /\ Parts[4].guard \in p
      /\ RowsOf(4) = p \union u \union v
      /\ Rest(4) = {<<p, u, v>>, <<u, v>>, <<v>>}
      /\ p \intersect u = {} /\ p \intersect v = {} /\ u \intersect v = {}
      /\ Parts[6].rows = <<w, {}>> /\ Parts[6].guard \in w /\ RowsOf(6) = w
      /\ Rest(6) = {<<w, {}>>, <<{}>>}
      /\ {"super_admin"} \notin {p, u, v, w, {}}
  BY PartsAre, RowsAre DEF Rest
<1> HIDE DEF p, u, v, w
<1>1. ASSUME NEW a, todo = <<a>>
      PROVE  /\ todo # <<>> /\ Head(todo) = a /\ Tail(todo) = <<>>
             /\ UNION Range(todo) = a /\ UNION Range(Tail(todo)) = {} /\ Len(todo) = 1
  <2>1. todo # <<>> /\ Head(todo) = a /\ Tail(todo) = <<>> /\ Len(todo) = 1
    BY <1>1
  <2> QED BY <1>1, <2>1, Singles DEF Range
<1>2. ASSUME NEW a, NEW b, todo = <<a, b>>
      PROVE  /\ todo # <<>> /\ Head(todo) = a /\ Tail(todo) = <<b>>
             /\ UNION Range(todo) = a \union b /\ UNION Range(Tail(todo)) = b /\ Len(todo) = 2
  <2>1. todo # <<>> /\ Head(todo) = a /\ Tail(todo) = <<b>> /\ Len(todo) = 2
    BY <1>2
  <2> QED BY <1>2, <2>1, Singles, Pairs
<1>3. ASSUME NEW a, NEW b, NEW c, todo = <<a, b, c>>
      PROVE  /\ todo # <<>> /\ Head(todo) = a /\ Tail(todo) = <<b, c>>
             /\ UNION Range(todo) = a \union b \union c /\ UNION Range(Tail(todo)) = b \union c
  <2>1. todo # <<>> /\ Head(todo) = a /\ Tail(todo) = <<b, c>>
    BY <1>3
  <2> QED BY <1>3, <2>1, Pairs, Triples
<1>4. CASE i \in {1, 2, 3, 5}
  <2>1. todo = <<{Parts[i].guard}>> /\ RowsOf(i) = {Parts[i].guard}
    <3>1. todo = Parts[i].rows
      BY <1>4 DEF Rest
    <3>2. Parts[i].rows = <<{Parts[i].guard}>>
      <4>1. CASE i = 1 BY <4>1, PartsAre
      <4>2. CASE i = 2 BY <4>2, PartsAre
      <4>3. CASE i = 3 BY <4>3, PartsAre
      <4>4. CASE i = 5 BY <4>4, PartsAre
      <4> QED BY <1>4, <4>1, <4>2, <4>3, <4>4
    <3>3. RowsOf(i) = {Parts[i].guard}
      BY <3>2, Singles DEF RowsOf
    <3> QED BY <3>1, <3>2, <3>3
  <2>2. "super_admin" = Parts[i].guard => i = 5
    <3>1. /\ Parts[1].guard # "super_admin" /\ Parts[2].guard # "super_admin"
          /\ Parts[3].guard # "super_admin"
      BY PartsAre DEF HeadOffice
    <3> QED BY <1>4, <3>1
  <2>3. /\ todo # <<>> /\ Head(todo) = {Parts[i].guard} /\ Tail(todo) = <<>>
        /\ UNION Range(todo) = {Parts[i].guard} /\ UNION Range(Tail(todo)) = {}
    BY <1>1, <2>1
  <2> QED BY <2>1, <2>2, <2>3
<1>5. CASE i = 4 /\ todo = <<p, u, v>>
  <2>1. /\ todo # <<>> /\ Head(todo) = p /\ Tail(todo) = <<u, v>>
        /\ UNION Range(todo) = p \union u \union v /\ UNION Range(Tail(todo)) = u \union v
    BY <1>3, <1>5
  <2> QED BY <1>0, <1>5, <2>1
<1>6. CASE i = 4 /\ todo = <<u, v>>
  <2>1. /\ todo # <<>> /\ Head(todo) = u /\ Tail(todo) = <<v>>
        /\ UNION Range(todo) = u \union v /\ UNION Range(Tail(todo)) = v
    BY <1>2, <1>6
  <2>2. todo # Parts[i].rows
    BY <1>0, <1>6
  <2> QED BY <1>0, <1>6, <2>1, <2>2
<1>7. CASE i = 4 /\ todo = <<v>>
  <2>1. /\ todo # <<>> /\ Head(todo) = v /\ Tail(todo) = <<>>
        /\ UNION Range(todo) = v /\ UNION Range(Tail(todo)) = {}
    BY <1>1, <1>7
  <2>2. todo # Parts[i].rows
    BY <1>0, <1>7
  <2> QED BY <1>0, <1>7, <2>1, <2>2
<1>8. CASE i = 6 /\ todo = <<w, {}>>
  <2>1. /\ todo # <<>> /\ Head(todo) = w /\ Tail(todo) = <<{}>>
        /\ UNION Range(todo) = w \union {} /\ UNION Range(Tail(todo)) = {}
    BY <1>2, <1>8
  <2> QED BY <1>0, <1>8, <2>1
<1>9. CASE i = 6 /\ todo = <<{}>>
  <2>1. /\ todo # <<>> /\ Head(todo) = {} /\ Tail(todo) = <<>>
        /\ UNION Range(todo) = {} /\ UNION Range(Tail(todo)) = {}
    BY <1>1, <1>9
  <2>2. todo # Parts[i].rows
    BY <1>0, <1>9
  <2> QED BY <1>0, <1>9, <2>1, <2>2
<1>10. i \in {1, 2, 3, 5} \/ i = 4 \/ i = 6
  OBVIOUS
<1>11. /\ i = 4 => todo = <<p, u, v>> \/ todo = <<u, v>> \/ todo = <<v>>
       /\ i = 6 => todo = <<w, {}>> \/ todo = <<{}>>
  BY <1>0
<1> QED BY <1>4, <1>5, <1>6, <1>7, <1>8, <1>9, <1>10, <1>11

-----------------------------------------------------------------------------
(* The inductive invariant.  Types: what the variables hold.               *)
Labels == {"idle", "failed", "wait", "tables", "create", "look", "list", "insert", "commit",
           "serving"}
Guard(i) == Parts[i].guard
Todos == {<<>>} \union UNION {Rest(i) : i \in 1..6}
Job == [tries : Nat, part : 1..7, todo : Todos, mine : SUBSET Names, refs : SUBSET Names,
        kept : SUBSET Names, lost : BOOLEAN, meanwhile : SUBSET {"start", "console"}]
Types ==
    /\ db \in BOOLEAN /\ env \in {"production", "development"} /\ schema \in BOOLEAN
    /\ rows \in SUBSET (Names \ {HeadOffice}) /\ heads \in Nat
    /\ pc \in [Replicas -> Labels]
    /\ job \in [Replicas -> Job]

(* What a start inserted and did not commit is nobody else's, the head     *)
(* office excepted: its name is not unique.                                *)
Apart ==
    \A r \in Replicas :
        /\ job[r].mine \cap rows = {}
        /\ \A o \in Others(r) : job[r].mine \cap job[o].mine \subseteq {HeadOffice}

(* A start takes the parts in their order, and the rows of a part in       *)
(* theirs; outside a transaction it has nothing.                           *)
Seeding(r) == pc[r] \in {"look", "list", "insert", "commit"}
InTurn(r) ==
    /\ ~Transaction(r) => job[r].mine = {} /\ job[r].meanwhile = {} /\ ~job[r].lost
    /\ pc[r] = "create" => job[r].mine = {} /\ env # "production"
    /\ pc[r] \in {"look", "list", "insert"} => job[r].part \in 1..6
    /\ pc[r] = "list" => job[r].part = 5 /\ job[r].todo = Parts[5].rows
    /\ pc[r] = "commit" => job[r].part = 7
    /\ Seeding(r) => \A i \in 1..6 : i > job[r].part => job[r].mine \cap RowsOf(i) = {}
    /\ pc[r] \in {"look", "list"} => job[r].mine \cap RowsOf(job[r].part) = {}
    /\ pc[r] = "insert" => /\ job[r].todo \in Rest(job[r].part)
                           /\ job[r].mine \cap UNION Range(job[r].todo) = {}
                           /\ Guard(job[r].part) \in job[r].mine \union Head(job[r].todo)

(* While no administrator commits, the parts it is done with stay.         *)
Has(r, i)  == IF i = 3 THEN Heads(r) > 0 ELSE Guard(i) \in Visible(r)
Passed(r)  == Seeding(r) /\ "console" \notin job[r].meanwhile =>
                \A i \in 1..6 : i < job[r].part => Has(r, i)

(* A start with a head office of its own saw none, so another committed    *)
(* one since; a start that inserted an application kept the others out.    *)
Office(r)     == HeadOffice \in job[r].mine \/ (pc[r] = "insert" /\ job[r].part = 3)
Overtaken(r)  == \/ "console" \in job[r].meanwhile
                 \/ "start" \in job[r].meanwhile /\ job[r].mine \cap Apps = {}
SecondHead(r) == Office(r) /\ heads > 0 => Overtaken(r)

(* While nobody commits, what a start looked for and did not find is not   *)
(* there, and what it read is.                                             *)
Alone(r) == job[r].meanwhile = {} =>
              /\ ~job[r].lost
              /\ pc[r] = "create" => ~schema
              /\ pc[r] \in {"list", "insert"} => Guard(job[r].part) \notin rows

Shared(r) == Passed(r) /\ SecondHead(r) /\ Alone(r)
SeedInv == Types /\ Apart /\ \A r \in Replicas : InTurn(r) /\ Shared(r)

-----------------------------------------------------------------------------
LEMMA PartFacts ==
    ASSUME NEW i \in 1..6
    PROVE  /\ Guard(i) \in RowsOf(i) /\ RowsOf(i) \subseteq Names
           /\ Guard(i) = HeadOffice <=> i = 3
           /\ Guard(i) = "super_admin" <=> i = 5
           /\ HeadOffice \in RowsOf(i) <=> i = 3
           /\ RowsOf(i) \cap Apps # {} <=> i \in {1, 2}
           /\ i \in {1, 2} => Guard(i) \in Apps
           /\ \A k \in 1..6 \ {i} : RowsOf(i) \cap RowsOf(k) = {}
<1> DEFINE part(n) == IF n = "nexuskit" THEN 1 ELSE IF n = "datahub" THEN 2
                      ELSE IF n = HeadOffice THEN 3 ELSE IF n = "super_admin" THEN 5
                      ELSE IF n = "admin" \/ n = "admin@nexuskit.com" THEN 6 ELSE 4
<1>1. i = 1 \/ i = 2 \/ i = 3 \/ i = 4 \/ i = 5 \/ i = 6
  OBVIOUS
<1>2. Guard(i) \in RowsOf(i) /\ part(Guard(i)) = i
  <2>1. /\ Guard(1) = "nexuskit" /\ Guard(2) = "datahub" /\ Guard(3) = HeadOffice
        /\ Guard(4) = "sys:system:manage" /\ Guard(5) = "super_admin" /\ Guard(6) = "admin"
    BY PartsAre DEF Guard
  <2> QED BY <1>1, <2>1, RowsAre DEF HeadOffice
<1>3. \A k \in 1..6 : \A n \in RowsOf(k) : part(n) = k
  <2> SUFFICES ASSUME NEW k \in 1..6, NEW n \in RowsOf(k) PROVE part(n) = k
    OBVIOUS
  <2>1. k = 1 \/ k = 2 \/ k = 3 \/ k = 4 \/ k = 5 \/ k = 6
    OBVIOUS
  <2> QED BY <2>1, RowsAre DEF HeadOffice
<1>4. part(HeadOffice) = 3 /\ part("super_admin") = 5 /\ part("nexuskit") = 1 /\ part("datahub") = 2
  BY DEF HeadOffice
<1>5. part(Guard(i)) = 3 => Guard(i) = HeadOffice
  OBVIOUS
<1>6. part(Guard(i)) = 5 => Guard(i) = "super_admin"
  OBVIOUS
<1>7. (part(Guard(i)) = 1 => Guard(i) = "nexuskit") /\ (part(Guard(i)) = 2 => Guard(i) = "datahub")
  OBVIOUS
<1>8. RowsOf(i) \subseteq Names
  BY PartsAre DEF Names
<1> HIDE DEF part
<1>9. HeadOffice \in RowsOf(i) <=> i = 3
  BY <1>2, <1>3, <1>4, RowsAre
<1>10. RowsOf(i) \cap Apps # {} <=> i \in {1, 2}
  BY <1>3, <1>4, RowsAre DEF Apps
<1>11. \A k \in 1..6 \ {i} : RowsOf(i) \cap RowsOf(k) = {}
  BY <1>3
<1>12. /\ Guard(i) = HeadOffice <=> i = 3
       /\ Guard(i) = "super_admin" <=> i = 5
       /\ i \in {1, 2} => Guard(i) \in Apps
  BY <1>2, <1>4, <1>5, <1>6, <1>7 DEF Apps
<1> QED BY <1>2, <1>8, <1>9, <1>10, <1>11, <1>12

LEMMA PermNames == Perms \subseteq Names /\ {"nexuskit", "super_admin"} \subseteq Names
BY PartFacts, RowsAre DEF Perms

LEMMA NoJobType ==
    /\ NoJob \in Job /\ NoJob.mine = {} /\ NoJob.meanwhile = {} /\ ~NoJob.lost /\ NoJob.part = 1
BY DEF NoJob, Job, Todos

(* A step of one start that leaves the tables alone.                       *)
LEMMA StepTo ==
    ASSUME Types, NEW r \in Replicas, NEW l \in Labels, NEW j \in Job, Step(r, l, j),
           UNCHANGED <<db, env, tables>>
    PROVE  /\ Types' /\ pc'[r] = l /\ job'[r] = j
           /\ \A o \in Others(r) : pc'[o] = pc[o] /\ job'[o] = job[o]
           /\ rows' = rows /\ heads' = heads /\ schema' = schema /\ env' = env /\ db' = db
BY DEF Types, Step, Others, tables

(* A start that is where it was and has what it had.                       *)
LEMMA Still ==
    ASSUME NEW r \in Replicas, InTurn(r), Shared(r), pc'[r] = pc[r], job'[r] = job[r],
           env' = env, schema' = schema, rows' = rows, heads' = heads
    PROVE  InTurn(r)' /\ Shared(r)'
<1>1. InTurn(r)'
  BY DEF InTurn, Transaction, Seeding
<1>2. Passed(r)'
  BY DEF Shared, Passed, Seeding, Has, Heads, Visible
<1>3. SecondHead(r)' /\ Alone(r)'
  BY DEF Shared, SecondHead, Office, Overtaken, Alone
<1> QED BY <1>1, <1>2, <1>3 DEF Shared

(* Outside a transaction there is nothing to know.                         *)
LEMMA Outside ==
    ASSUME NEW r \in Replicas, InTurn(r)', ~Transaction(r)', Types'
    PROVE  Shared(r)'
<1>1. job'[r].mine = {} /\ job'[r].meanwhile = {} /\ ~job'[r].lost
  BY DEF InTurn
<1>2. /\ pc'[r] \notin {"create", "list", "insert", "commit"}
      /\ pc'[r] = "look" => ~(job'[r].part > 1)
  BY DEF Transaction
<1>3. job'[r].part \in 1..7
  BY DEF Types, Job
<1>4. Passed(r)'
  BY <1>2, <1>3 DEF Passed, Seeding
<1>5. SecondHead(r)' /\ Alone(r)'
  BY <1>1, <1>2 DEF SecondHead, Office, Alone
<1> QED BY <1>4, <1>5 DEF Shared

(* A step of one start that leaves the tables alone, and such a step that  *)
(* takes no name.                                                          *)
LEMMA ApartStep ==
    ASSUME SeedInv, NEW r \in Replicas, NEW l \in Labels, NEW j \in Job, Step(r, l, j),
           UNCHANGED <<db, env, tables>>, j.mine \cap rows = {},
           \A o \in Others(r) : j.mine \cap job[o].mine \subseteq {HeadOffice},
           InTurn(r)', Shared(r)'
    PROVE  SeedInv'
<1>1. /\ Types' /\ pc'[r] = l /\ job'[r] = j
      /\ \A o \in Others(r) : pc'[o] = pc[o] /\ job'[o] = job[o]
      /\ rows' = rows /\ heads' = heads /\ schema' = schema /\ env' = env
  BY StepTo DEF SeedInv
<1>2. \A o \in Others(r) : InTurn(o)' /\ Shared(o)'
  BY <1>1, Still DEF SeedInv, Others
<1>3. Apart'
  BY <1>1 DEF SeedInv, Apart, Others
<1> QED BY <1>1, <1>2, <1>3 DEF SeedInv, Others

LEMMA OwnStep ==
    ASSUME SeedInv, NEW r \in Replicas, NEW l \in Labels, NEW j \in Job, Step(r, l, j),
           UNCHANGED <<db, env, tables>>, j.mine \subseteq job[r].mine, InTurn(r)', Shared(r)'
    PROVE  SeedInv'
<1>1. j.mine \cap rows = {} /\ \A o \in Others(r) : j.mine \cap job[o].mine \subseteq {HeadOffice}
  BY DEF SeedInv, Apart
<1> QED BY <1>1, ApartStep

(* A start that has read nothing yet, or has given up.                     *)
LEMMA Unread ==
    ASSUME SeedInv, NEW r \in Replicas, NEW j \in Job,
           j.mine = {}, j.meanwhile = {}, ~j.lost, j.part = 1,
           NEW l \in {"idle", "failed", "wait", "tables", "look"}, Step(r, l, j),
           UNCHANGED <<db, env, tables>>
    PROVE  SeedInv'
<1>1. l \in Labels
  BY DEF Labels
<1>2. Types' /\ pc'[r] = l /\ job'[r] = j
  BY <1>1, StepTo DEF SeedInv
<1>3. InTurn(r)'
  BY <1>2 DEF InTurn, Transaction, Seeding
<1>4. ~Transaction(r)'
  BY <1>2 DEF Transaction
<1> QED BY <1>1, <1>2, <1>3, <1>4, OwnStep, Outside

LEMMA LaunchInv == ASSUME SeedInv, NEW r \in Replicas, Launch(r) \/ Stop(r) PROVE SeedInv'
<1>1. (Step(r, "wait", NoJob) \/ Step(r, "idle", NoJob)) /\ UNCHANGED <<db, env, tables>>
  BY DEF Launch, Stop, tables
<1> QED BY <1>1, NoJobType, Unread

LEMMA RaiseInv ==
    ASSUME SeedInv, NEW r \in Replicas, Raise(r), UNCHANGED <<db, env>>
    PROVE  SeedInv'
BY NoJobType, Unread DEF Raise

LEMMA TryInv == ASSUME SeedInv, NEW r \in Replicas, Try(r) PROVE SeedInv'
<1> DEFINE j == [NoJob EXCEPT !.tries = Counted(job[r].tries)]
<1>1. j \in Job /\ j.mine = {} /\ j.meanwhile = {} /\ ~j.lost /\ j.part = 1
  <2>1. Counted(job[r].tries) \in Nat
    BY DEF SeedInv, Types, Job, Counted
  <2>2. \A t \in Nat : [NoJob EXCEPT !.tries = t] \in Job
    BY NoJobType DEF Job
  <2>3. j \in Job
    BY <2>1, <2>2
  <2>4. j.mine = {} /\ j.meanwhile = {} /\ ~j.lost /\ j.part = 1
    BY DEF NoJob
  <2> QED BY <2>3, <2>4
<1>2. CASE Raise(r)
  BY <1>2, RaiseInv DEF Try
<1>3. CASE Step(r, "tables", NoJob) /\ UNCHANGED <<db, env, tables>>
  BY <1>3, NoJobType, Unread
<1>4. CASE Step(r, "wait", j) /\ UNCHANGED <<db, env, tables>>
  <2> HIDE DEF j
  <2> QED BY <1>1, <1>4, Unread
<1> QED BY <1>2, <1>3, <1>4 DEF Try

LEMMA TablesInv == ASSUME SeedInv, NEW r \in Replicas, Tables(r) PROVE SeedInv'
<1>1. CASE Raise(r)
  BY <1>1, RaiseInv DEF Tables
<1>2. CASE Step(r, "look", NoJob) /\ UNCHANGED <<db, env, tables>>
  BY <1>2, NoJobType, Unread
<1>3. CASE /\ Step(r, "create", NoJob) /\ UNCHANGED <<db, env, tables>>
           /\ env # "production" /\ ~schema
  <2>1. "create" \in Labels
    BY DEF Labels
  <2>2. /\ Types' /\ pc'[r] = "create" /\ job'[r] = NoJob /\ schema' = schema /\ env' = env
    BY <1>3, <2>1, NoJobType, StepTo DEF SeedInv
  <2>3. InTurn(r)'
    BY <1>3, <2>2, NoJobType DEF InTurn, Transaction, Seeding
  <2>4. Shared(r)'
    BY <1>3, <2>2, NoJobType DEF Shared, Passed, SecondHead, Alone, Seeding, Office
  <2> QED BY <1>3, <2>1, <2>3, <2>4, NoJobType, OwnStep
<1> QED BY <1>1, <1>2, <1>3 DEF Tables
(* One part begins: it is there already, or its rows are to be inserted.   *)
LEMMA LookInv == ASSUME SeedInv, NEW r \in Replicas, Look(r) PROVE SeedInv'
<1> DEFINE i == job[r].part
           d == IF Guard(i) = "super_admin" THEN {"super_admin"} ELSE job[r].refs
           found == [job[r] EXCEPT !.part = i + 1, !.refs = d]
           missing == [job[r] EXCEPT !.todo = Parts[i].rows]
<1>1. /\ pc[r] = "look" /\ i \in 1..6 /\ job[r] \in Job /\ job[r].mine \cap RowsOf(i) = {}
      /\ \A k \in 1..6 : k > i => job[r].mine \cap RowsOf(k) = {}
      /\ heads \in Nat /\ HeadOffice \notin rows
      /\ {"look", "list", "insert", "commit"} \subseteq Labels
      /\ Len(Parts) = 6
  BY PartsAre DEF Look, SeedInv, Types, InTurn, Seeding, Labels
<1>2. Heads(r) = heads \/ Heads(r) = heads + 1
  BY <1>1 DEF Heads
<1>3. CASE Raise(r)
  BY <1>3, RaiseInv DEF Look
<1>4. CASE /\ Found(r, i) /\ UNCHANGED <<db, env, tables>>
           /\ Step(r, IF i = Len(Parts) THEN "commit" ELSE "look", found)
  <2> DEFINE l == IF i = 6 THEN "commit" ELSE "look"
  <2>1. /\ found.part = i + 1 /\ found.mine = job[r].mine /\ found.meanwhile = job[r].meanwhile
        /\ found.lost = job[r].lost /\ found.todo = job[r].todo
    BY <1>1 DEF Job
  <2>2. found \in Job
    <3>1. d \in SUBSET Names /\ i + 1 \in 1..7
      BY <1>1, PermNames DEF Job
    <3> HIDE DEF d
    <3> QED BY <1>1, <3>1 DEF Job
  <2>3. l \in Labels /\ Step(r, l, found)
    BY <1>1, <1>4
  <2> HIDE DEF found
  <2>4. /\ Types' /\ pc'[r] = l /\ job'[r] = found
        /\ rows' = rows /\ heads' = heads /\ schema' = schema /\ env' = env
    BY <1>4, <2>2, <2>3, StepTo DEF SeedInv
  <2>5. Transaction(r)'
    BY <1>1, <2>1, <2>4 DEF Transaction
  <2>6. InTurn(r)'
    <3>1. \A k \in 1..6 : k > i + 1 => job[r].mine \cap RowsOf(k) = {}
      BY <1>1
    <3>2. i # 6 => i + 1 \in 1..6 /\ job[r].mine \cap RowsOf(i + 1) = {}
      BY <1>1
    <3> QED BY <1>1, <2>1, <2>4, <2>5, <3>1, <3>2 DEF InTurn
  <2>7. Passed(r)'
    <3>1. Heads(r)' = Heads(r) /\ Visible(r)' = Visible(r)
      BY <2>1, <2>4 DEF Heads, Visible
    <3>2. Has(r, i)
      <4>1. Guard(i) = HeadOffice <=> i = 3
        BY <1>1, PartFacts
      <4>2. CASE i # 3
        BY <1>4, <4>1, <4>2 DEF Found, Has, Guard
      <4>3. CASE i = 3
        <5>1. HeadOffice \in Visible(r) => Heads(r) = heads + 1
          BY <1>1 DEF Visible, Heads
        <5> QED BY <1>1, <1>4, <4>1, <4>3, <5>1 DEF Found, Has, Guard
      <4> QED BY <4>2, <4>3
    <3>3. "console" \notin job[r].meanwhile => \A k \in 1..6 : k < i => Has(r, k)
      BY <1>1 DEF SeedInv, Shared, Passed, Seeding
    <3>4. \A k \in 1..6 : Has(r, k) => Has(r, k)'
      BY <3>1 DEF Has
    <3> QED BY <1>1, <2>1, <2>4, <3>2, <3>3, <3>4 DEF Passed
  <2>8. SecondHead(r)' /\ Alone(r)'
    BY <1>1, <2>1, <2>4 DEF SeedInv, Shared, SecondHead, Office, Overtaken, Alone
  <2>9. found.mine \subseteq job[r].mine
    BY <2>1
  <2> QED BY <1>4, <2>2, <2>3, <2>6, <2>7, <2>8, <2>9, OwnStep DEF Shared
<1>5. CASE /\ ~Found(r, i) /\ (Guard(i) = HeadOffice => Heads(r) < 2)
           /\ UNCHANGED <<db, env, tables>>
           /\ Step(r, IF Guard(i) = "super_admin" THEN "list" ELSE "insert", missing)
  <2> DEFINE l == IF i = 5 THEN "list" ELSE "insert"
  <2>1. /\ missing.part = i /\ missing.mine = job[r].mine /\ missing.meanwhile = job[r].meanwhile
        /\ missing.lost = job[r].lost /\ missing.todo = Parts[i].rows
    BY <1>1 DEF Job
  <2>2. Parts[i].rows \in Rest(i)
    BY DEF Rest
  <2>3. missing \in Job
    <3>1. Parts[i].rows \in Todos
      BY <1>1, <2>2 DEF Todos
    <3>2. PICK rest : rest = Parts[i].rows
      OBVIOUS
    <3>3. job[r] \in Job /\ rest \in Todos /\ missing = [job[r] EXCEPT !.todo = rest]
      BY <1>1, <3>1, <3>2
    <3> HIDE DEF missing
    <3> QED BY <3>3 DEF Job
  <2> HIDE DEF missing
  <2>4. l \in Labels /\ Step(r, l, missing)
    <3>1. Guard(i) = "super_admin" <=> i = 5
      BY <1>1, PartFacts
    <3>2. Step(r, l, missing)
      BY <1>5, <3>1
    <3> QED BY <3>2 DEF Labels
  <2>5. /\ Types' /\ pc'[r] = l /\ job'[r] = missing
        /\ rows' = rows /\ heads' = heads /\ schema' = schema /\ env' = env
    BY <1>5, <2>3, <2>4, StepTo DEF SeedInv
  <2>6. Transaction(r)'
    BY <2>5 DEF Transaction
  <2>7. InTurn(r)'
    <3>1. /\ Guard(i) \in Head(Parts[i].rows)
          /\ job[r].mine \cap UNION Range(Parts[i].rows) = {}
      BY <1>1, <2>2, Left DEF Guard, RowsOf
    <3> QED BY <1>1, <2>1, <2>2, <2>5, <2>6, <3>1 DEF InTurn
  <2>8. Passed(r)'
    <3>1. Heads(r)' = Heads(r) /\ Visible(r)' = Visible(r)
      BY <2>1, <2>5 DEF Heads, Visible
    <3> QED BY <1>1, <2>1, <2>5, <3>1 DEF SeedInv, Shared, Passed, Seeding, Has
  <2>9. SecondHead(r)'
    <3>1. i = 3 => heads = 0
      BY <1>1, <1>2, <1>5, PartFacts DEF Found, Guard
    <3> QED BY <1>1, <2>1, <2>5, <3>1 DEF SeedInv, Shared, SecondHead, Office, Overtaken
  <2>10. Alone(r)'
    <3>1. Guard(i) \notin rows
      BY <1>5 DEF Found, Guard, Visible
    <3> QED BY <1>1, <2>1, <2>5, <3>1 DEF SeedInv, Shared, Alone
  <2>11. missing.mine \subseteq job[r].mine
    BY <2>1
  <2> QED BY <1>5, <2>3, <2>4, <2>7, <2>8, <2>9, <2>10, <2>11, OwnStep DEF Shared
<1> QED BY <1>3, <1>4, <1>5 DEF Look, Guard

LEMMA ListInv == ASSUME SeedInv, NEW r \in Replicas, ListPermissions(r) PROVE SeedInv'
<1> DEFINE j == [job[r] EXCEPT !.refs = rows \cap Perms]
<1>1. /\ pc[r] = "list" /\ job[r] \in Job /\ "insert" \in Labels
      /\ Step(r, "insert", j) /\ UNCHANGED <<db, env, tables>>
  BY DEF ListPermissions, SeedInv, Types, Labels
<1>2. /\ j.part = job[r].part /\ j.mine = job[r].mine /\ j.meanwhile = job[r].meanwhile
      /\ j.lost = job[r].lost /\ j.todo = job[r].todo
  BY <1>1 DEF Job
<1>3. j \in Job
  <2>1. rows \cap Perms \in SUBSET Names
    BY PermNames
  <2> QED BY <1>1, <2>1 DEF Job
<1> HIDE DEF j
<1>4. /\ Types' /\ pc'[r] = "insert" /\ job'[r] = j
      /\ rows' = rows /\ heads' = heads /\ schema' = schema /\ env' = env
  BY <1>1, <1>3, StepTo DEF SeedInv
<1>5. InTurn(r)'
  <2>1. job[r].part = 5 /\ job[r].todo = Parts[5].rows /\ Parts[5].rows \in Rest(5)
    BY <1>1 DEF SeedInv, InTurn, Rest
  <2>2. /\ Guard(5) \in Head(Parts[5].rows)
        /\ job[r].mine \cap UNION Range(Parts[5].rows) = {}
    BY <1>1, <2>1, Left DEF SeedInv, InTurn, Guard, RowsOf
  <2>3. \A k \in 1..6 : k > 5 => job[r].mine \cap RowsOf(k) = {}
    BY <1>1, <2>1 DEF SeedInv, InTurn, Seeding
  <2> QED BY <1>2, <1>4, <2>1, <2>2, <2>3 DEF InTurn, Transaction
<1>6. Passed(r)'
  <2>1. Heads(r)' = Heads(r) /\ Visible(r)' = Visible(r)
    BY <1>2, <1>4 DEF Heads, Visible
  <2> QED BY <1>1, <1>2, <1>4, <2>1 DEF SeedInv, Shared, Passed, Seeding, Has
<1>7. SecondHead(r)' /\ Alone(r)'
  <2>1. job[r].part = 5
    BY <1>1 DEF SeedInv, InTurn
  <2> QED BY <1>1, <1>2, <1>4, <2>1 DEF SeedInv, Shared, SecondHead, Office, Overtaken, Alone
<1>8. j.mine \subseteq job[r].mine
  BY <1>2
<1> QED BY <1>1, <1>3, <1>5, <1>6, <1>7, <1>8, OwnStep DEF Shared
(* One flush: the names it takes are nobody's.                             *)
LEMMA InsertInv == ASSUME SeedInv, NEW r \in Replicas, Insert(r) PROVE SeedInv'
<1> DEFINE i == job[r].part
           new == Head(job[r].todo)
           left == Tail(job[r].todo)
           bind == new \in {{}, {"super_admin"}}
           kept == IF bind THEN job[r].kept \union job[r].refs \union Parents(new) ELSE job[r].kept
           refs == IF bind THEN {} ELSE job[r].refs
           next == IF left = <<>> THEN i + 1 ELSE i
           j == [job[r] EXCEPT !.mine = job[r].mine \union new, !.todo = left, !.part = next,
                               !.kept = kept, !.refs = refs]
           l == IF left # <<>> THEN "insert" ELSE IF i = 6 THEN "commit" ELSE "look"
<1>1. /\ pc[r] = "insert" /\ i \in 1..6 /\ job[r] \in Job /\ job[r].todo \in Rest(i)
      /\ job[r].mine \cap UNION Range(job[r].todo) = {}
      /\ Guard(i) \in job[r].mine \union new
      /\ \A k \in 1..6 : k > i => job[r].mine \cap RowsOf(k) = {}
      /\ heads \in Nat /\ HeadOffice \notin rows
  BY DEF Insert, SeedInv, Types, InTurn, Seeding
<1>2. /\ new \subseteq RowsOf(i) /\ new \subseteq Names
      /\ left # <<>> => left \in Rest(i)
      /\ UNION Range(job[r].todo) = new \union UNION Range(left)
      /\ new \cap UNION Range(left) = {}
  <2>1. /\ new \subseteq RowsOf(i) /\ (left # <<>> => left \in Rest(i))
        /\ UNION Range(job[r].todo) = new \union UNION Range(left)
        /\ new \cap UNION Range(left) = {}
    <3>1. PICK todo : todo = job[r].todo
      OBVIOUS
    <3>2. /\ Head(todo) \subseteq RowsOf(i) /\ (Tail(todo) # <<>> => Tail(todo) \in Rest(i))
          /\ UNION Range(todo) = Head(todo) \union UNION Range(Tail(todo))
          /\ Head(todo) \cap UNION Range(Tail(todo)) = {}
      <4>1. i \in 1..6 /\ todo \in Rest(i)
        BY <1>1, <3>1
      <4> HIDE DEF i, new, left, bind, kept, refs, next, j, l
      <4> QED BY <4>1, Left
    <3> QED BY <3>1, <3>2
  <2>2. RowsOf(i) \subseteq Names
    BY <1>1, PartFacts
  <2> QED BY <2>1, <2>2
<1>3. /\ \A o \in Others(r) : (new \ {HeadOffice}) \cap job[o].mine = {}
      /\ \/ Raise(r) /\ UNCHANGED <<db, env>>
         \/ ~Taken(r, new) /\ Step(r, l, j) /\ UNCHANGED <<db, env, tables>>
  BY PartsAre DEF Insert
<1>4. CASE Raise(r)
  BY <1>4, <1>3, RaiseInv DEF Insert
<1>5. CASE ~Taken(r, new) /\ Step(r, l, j) /\ UNCHANGED <<db, env, tables>>
  <2>0. \/ left # <<>> /\ l = "insert" /\ next = i
        \/ left = <<>> /\ i = 6 /\ l = "commit" /\ next = 7
        \/ left = <<>> /\ i # 6 /\ l = "look" /\ next = i + 1 /\ i + 1 \in 1..6
    <3> HIDE DEF left
    <3>1. i + 1 \in 2..7 /\ (i # 6 => i + 1 \in 1..6) /\ (i = 6 => i + 1 = 7)
      BY <1>1
    <3> QED BY <3>1
  <2>1. /\ j.part = next /\ j.mine = job[r].mine \union new /\ j.todo = left
        /\ j.meanwhile = job[r].meanwhile /\ j.lost = job[r].lost
    <3> HIDE DEF new, left, kept, refs, next
    <3> QED BY <1>1 DEF Job
  <2>2. j \in Job
    <3>1. left \in Todos
      BY <1>1, <1>2 DEF Todos
    <3>2. kept \in SUBSET Names /\ refs \in SUBSET Names
      BY <1>1, PermNames DEF Job, Parents
    <3>3. job[r].mine \union new \in SUBSET Names
      BY <1>1, <1>2 DEF Job
    <3> HIDE DEF new, left, kept, refs, next
    <3>4. next \in 1..7
      BY <1>1, <2>0
    <3> QED BY <1>1, <3>1, <3>2, <3>3, <3>4 DEF Job
  <2> HIDE DEF new, left, kept, refs, next, l, j
  <2>3. /\ Types' /\ pc'[r] = l /\ job'[r] = j
        /\ rows' = rows /\ heads' = heads /\ schema' = schema /\ env' = env
        /\ l \in Labels
    <3>1. l \in Labels
      BY <2>0 DEF Labels
    <3> QED BY <1>5, <2>2, <3>1, StepTo DEF SeedInv
  <2>4. Transaction(r)'
    <3>1. next = i + 1 => next > 1
      BY <1>1
    <3> QED BY <2>0, <2>1, <2>3, <3>1 DEF Transaction
  <2>5. \A k \in 1..6 : k > i => j.mine \cap RowsOf(k) = {}
    <3> SUFFICES ASSUME NEW k \in 1..6, k > i PROVE j.mine \cap RowsOf(k) = {}
      OBVIOUS
    <3>1. k # i /\ RowsOf(i) \cap RowsOf(k) = {}
      BY <1>1, PartFacts
    <3> QED BY <1>1, <1>2, <2>1, <3>1
  <2>6. InTurn(r)'
    <3>1. CASE left # <<>>
      <4>1. pc'[r] = "insert" /\ j.part = i
        BY <2>0, <2>1, <2>3, <3>1
      <4>2. /\ left \in Rest(i) /\ j.mine \cap UNION Range(left) = {}
            /\ Guard(i) \in j.mine
        BY <1>1, <1>2, <2>1, <3>1
      <4> QED BY <1>1, <2>1, <2>3, <2>4, <2>5, <4>1, <4>2 DEF InTurn
    <3>2. CASE left = <<>> /\ i = 6
      <4>1. pc'[r] = "commit" /\ j.part = 7
        BY <2>0, <2>1, <2>3, <3>2
      <4> QED BY <2>3, <2>4, <4>1 DEF InTurn
    <3>3. CASE left = <<>> /\ i # 6
      <4>1. pc'[r] = "look" /\ j.part = i + 1 /\ i + 1 \in 1..6
        BY <2>0, <2>1, <2>3, <3>3
      <4>2. i + 1 > i /\ \A k \in 1..6 : k > i + 1 => k > i
        BY <1>1
      <4>3. (\A k \in 1..6 : k > i + 1 => j.mine \cap RowsOf(k) = {}) /\ j.mine \cap RowsOf(i + 1) = {}
        BY <2>5, <4>1, <4>2
      <4> QED BY <2>3, <2>4, <4>1, <4>3 DEF InTurn
    <3> QED BY <3>1, <3>2, <3>3
  <2>7. Passed(r)'
    <3>1. job'[r].mine = job[r].mine \union new /\ rows' = rows /\ heads' = heads
      BY <2>1, <2>3
    <3>2. Visible(r) \subseteq Visible(r)'
      BY <3>1 DEF Visible
    <3>3. Heads(r) \in Nat /\ Heads(r)' \in Nat /\ Heads(r)' >= Heads(r)
      <4>1. HeadOffice \in job[r].mine => HeadOffice \in job'[r].mine
        BY <3>1
      <4> QED BY <1>1, <3>1, <4>1 DEF Heads
    <3>4. \A k \in 1..6 : Has(r, k) => Has(r, k)'
      BY <3>2, <3>3 DEF Has
    <3>5. ASSUME NEW k \in 1..6, k = i, left = <<>>
          PROVE  Has(r, k)'
      <4>1. Guard(k) \in job'[r].mine
        BY <1>1, <3>1, <3>5
      <4>2. CASE k = 3
        <5>1. HeadOffice \in job'[r].mine
          BY <4>1, <4>2, PartFacts
        <5>2. Heads(r)' = heads + 1
          BY <3>1, <5>1 DEF Heads
        <5> QED BY <1>1, <4>2, <5>2 DEF Has
      <4>3. CASE k # 3
        BY <4>1, <4>3 DEF Has, Visible
      <4> QED BY <4>2, <4>3
    <3>6. "console" \notin job[r].meanwhile => \A k \in 1..6 : k < i => Has(r, k)
      BY <1>1 DEF SeedInv, Shared, Passed, Seeding
    <3>7. ASSUME NEW k \in 1..6, k < j.part
          PROVE  k < i \/ (k = i /\ left = <<>>)
      <4>1. i \in Int /\ k \in Int
        BY <1>1
      <4>2. CASE left = <<>> /\ j.part = i + 1
        BY <3>7, <4>1, <4>2
      <4>3. CASE j.part = i
        BY <3>7, <4>3
      <4> QED BY <2>0, <2>1, <4>2, <4>3
    <3> HIDE DEF i
    <3> QED BY <2>1, <2>3, <3>4, <3>5, <3>6, <3>7 DEF Passed
  <2>8. SecondHead(r)'
    <3>1. SUFFICES ASSUME Office(r)', heads > 0
                   PROVE  Overtaken(r)'
      BY <2>3 DEF SecondHead
    <3>2. Office(r)
      <4>1. CASE HeadOffice \in job[r].mine
        BY <4>1 DEF Office
      <4>2. CASE HeadOffice \in new
        BY <1>1, <1>2, <4>2, PartFacts DEF Office
      <4>3. CASE pc'[r] = "insert" /\ j.part = 3
        BY <1>1, <2>0, <2>1, <2>3, <4>3 DEF Office
      <4> QED BY <2>1, <2>3, <3>1, <4>1, <4>2, <4>3 DEF Office
    <3>3. Overtaken(r)
      BY <3>1, <3>2 DEF SeedInv, Shared, SecondHead
    <3>4. i >= 3
      <4>1. CASE HeadOffice \in job[r].mine
        <5>1. HeadOffice \in RowsOf(3) /\ 3 \in 1..6
          BY PartFacts
        <5>2. ~(3 > i)
          BY <1>1, <4>1, <5>1
        <5> QED BY <1>1, <5>2
      <4>2. CASE i = 3
        BY <4>2
      <4> QED BY <3>2, <4>1, <4>2 DEF Office
    <3>5. new \cap Apps = {}
      BY <1>1, <1>2, <3>4, PartFacts
    <3> QED BY <2>1, <2>3, <3>3, <3>5 DEF Overtaken
  <2>9. Alone(r)'
    BY <1>1, <2>0, <2>1, <2>3 DEF SeedInv, Shared, Alone
  <2>10. j.mine \cap rows = {}
    BY <1>5, <2>1 DEF SeedInv, Apart, Taken, Visible
  <2>11. \A o \in Others(r) : j.mine \cap job[o].mine \subseteq {HeadOffice}
    BY <1>3, <2>1 DEF SeedInv, Apart
  <2> QED BY <1>1, <1>5, <2>2, <2>3, <2>6, <2>7, <2>8, <2>9, <2>10, <2>11, ApartStep DEF Shared
<1> QED BY <1>4, <1>5, <1>3
(* A start that somebody else's commit does not move: it has what it had,  *)
(* and in a transaction it has lived through the commit.                   *)
LEMMA MarkType ==
    ASSUME NEW j \in Job, NEW who \in SUBSET {"start", "console"}
    PROVE  /\ Mark(j, who) \in Job
           /\ Mark(j, who).part = j.part /\ Mark(j, who).todo = j.todo
           /\ Mark(j, who).mine = j.mine /\ Mark(j, who).lost = j.lost
           /\ Mark(j, who).meanwhile = j.meanwhile \union who
<1>1. Mark(j, who) = [j EXCEPT !.meanwhile = j.meanwhile \union who]
  BY DEF Mark
<1>2. j.meanwhile \union who \in SUBSET {"start", "console"}
  BY DEF Job
<1> QED BY <1>1, <1>2 DEF Job

Bystander(o) ==
    /\ pc'[o] = pc[o] /\ job'[o].part = job[o].part /\ job'[o].todo = job[o].todo
    /\ job'[o].mine = job[o].mine
    /\ ~Transaction(o) => job'[o].meanwhile = job[o].meanwhile /\ job'[o].lost = job[o].lost
LEMMA BystanderInTurn ==
    ASSUME NEW o \in Replicas, InTurn(o), Bystander(o), env' = env
    PROVE  InTurn(o)' /\ (Transaction(o)' <=> Transaction(o))
<1>1. Transaction(o)' <=> Transaction(o)
  BY DEF Bystander, Transaction
<1>2. ~Transaction(o)' => job'[o].mine = {} /\ job'[o].meanwhile = {} /\ ~job'[o].lost
  BY <1>1 DEF Bystander, InTurn
<1> QED BY <1>1, <1>2 DEF Bystander, InTurn, Seeding

(* StepSeen for the others.                                                *)
LEMMA SeenBy ==
    ASSUME SeedInv, NEW r \in Replicas, NEW l \in Labels, StepSeen(r, l)
    PROVE  /\ pc' \in [Replicas -> Labels] /\ job' \in [Replicas -> Job]
           /\ pc'[r] = l /\ job'[r] = NoJob
           /\ \A o \in Others(r) :
                /\ Bystander(o)
                /\ Transaction(o) => job'[o].meanwhile =
                     job[o].meanwhile \union {"start"} \union job[r].meanwhile
<1>1. pc' \in [Replicas -> Labels] /\ pc'[r] = l /\ \A o \in Others(r) : pc'[o] = pc[o]
  BY DEF SeedInv, Types, StepSeen, Others
<1>2. job'[r] = NoJob
  BY DEF StepSeen
<1>3. ASSUME NEW o \in Others(r)
      PROVE  /\ job'[o] \in Job /\ Bystander(o)
             /\ Transaction(o) => job'[o].meanwhile =
                  job[o].meanwhile \union {"start"} \union job[r].meanwhile
  <2> DEFINE who == {"start"} \union job[r].meanwhile
  <2>1. job[o] \in Job /\ job[r] \in Job /\ o \in Replicas /\ o # r
    BY DEF SeedInv, Types, Others
  <2>2. who \in SUBSET {"start", "console"}
    BY <2>1 DEF Job
  <2>3. job'[o] = IF Transaction(o) THEN Mark(job[o], who) ELSE job[o]
    BY <2>1 DEF StepSeen
  <2> HIDE DEF who
  <2>4. CASE Transaction(o)
    <3>1. job'[o] \in Job /\ Bystander(o) /\ job'[o].meanwhile = job[o].meanwhile \union who
      BY <1>1, <2>1, <2>2, <2>3, <2>4, MarkType DEF Bystander
    <3> QED BY <3>1 DEF who
  <2>5. CASE ~Transaction(o)
    BY <1>1, <2>1, <2>3, <2>5 DEF Bystander
  <2> QED BY <2>4, <2>5
<1>4. job' \in [Replicas -> Job]
  <2>1. \A o \in Replicas : job'[o] \in Job
    BY <1>2, <1>3, NoJobType DEF Others
  <2>2. job' = [o \in Replicas |-> job'[o]]
    BY DEF StepSeen
  <2> QED BY <2>1, <2>2
<1> QED BY <1>1, <1>2, <1>3, <1>4

(* The start that commits has nothing left.                                *)
LEMMA Finished ==
    ASSUME Types', NEW r \in Replicas, pc'[r] \in {"look", "serving", "failed"}, job'[r] = NoJob
    PROVE  InTurn(r)' /\ Shared(r)'
<1>1. InTurn(r)' /\ ~Transaction(r)'
  BY NoJobType DEF InTurn, Transaction, Seeding
<1> QED BY <1>1, Outside

LEMMA CreateInv == ASSUME SeedInv, NEW r \in Replicas, CreateTables(r) PROVE SeedInv'
<1>1. CASE Raise(r)
  BY <1>1, RaiseInv DEF CreateTables
<1>2. CASE schema' = TRUE /\ StepSeen(r, "look") /\ UNCHANGED <<db, env, rows, heads>>
  <2>1. "look" \in Labels
    BY DEF Labels
  <2>2. /\ Types' /\ pc'[r] = "look" /\ job'[r] = NoJob
        /\ \A o \in Others(r) :
             /\ Bystander(o)
             /\ Transaction(o) => job'[o].meanwhile =
                  job[o].meanwhile \union {"start"} \union job[r].meanwhile
    BY <1>2, <2>1, SeenBy DEF SeedInv, Types
  <2>3. Apart'
    BY <1>2, <2>2, NoJobType DEF SeedInv, Apart, Others, Bystander
  <2>4. ASSUME NEW o \in Others(r)
        PROVE  InTurn(o)' /\ Shared(o)'
    <3>1. o \in Replicas /\ InTurn(o) /\ Shared(o) /\ Bystander(o)
      BY <2>2 DEF SeedInv, Others
    <3>2. InTurn(o)' /\ (Transaction(o)' <=> Transaction(o))
      BY <1>2, <3>1, BystanderInTurn
    <3>3. CASE Transaction(o)
      <4>1. /\ "start" \in job'[o].meanwhile
            /\ "console" \in job[o].meanwhile => "console" \in job'[o].meanwhile
        BY <2>2, <3>3
      <4>2. Passed(o)'
        BY <1>2, <3>1, <4>1 DEF Shared, Passed, Seeding, Has, Heads, Visible, Bystander
      <4>3. SecondHead(o)'
        BY <1>2, <3>1, <4>1 DEF Shared, SecondHead, Office, Overtaken, Bystander
      <4> QED BY <3>2, <4>1, <4>2, <4>3 DEF Shared, Alone
    <3> QED BY <2>2, <3>1, <3>2, <3>3, Outside
  <2> QED BY <2>2, <2>3, <2>4, Finished DEF SeedInv, Others
<1> QED BY <1>1, <1>2 DEF CreateTables

(* The commit of a seed: its names are stored, and its head office.        *)
LEMMA CommitInv == ASSUME SeedInv, NEW r \in Replicas, Commit(r) PROVE SeedInv'
<1>1. /\ pc[r] = "commit" /\ job[r].part = 7 /\ job[r] \in Job /\ heads \in Nat
      /\ rows' = rows \union (job[r].mine \ {HeadOffice}) /\ heads' = Heads(r)
      /\ StepSeen(r, "serving") /\ UNCHANGED <<db, env, schema>> /\ "serving" \in Labels
  BY DEF Commit, SeedInv, Types, InTurn, Labels
<1>2. heads' \in Nat /\ heads' >= heads /\ (heads' = heads + 1 \/ heads' = heads)
      /\ (heads' # heads => HeadOffice \in job[r].mine)
  BY <1>1 DEF Heads
<1>3. rows' \in SUBSET (Names \ {HeadOffice})
  BY <1>1 DEF SeedInv, Types, Job
<1>4. /\ Types' /\ pc'[r] = "serving" /\ job'[r] = NoJob
      /\ \A o \in Others(r) :
           /\ Bystander(o)
           /\ Transaction(o) => job'[o].meanwhile =
                job[o].meanwhile \union {"start"} \union job[r].meanwhile
  BY <1>1, <1>2, <1>3, SeenBy DEF SeedInv, Types
<1>5. Apart'
  <2>1. ASSUME NEW o \in Others(r)
        PROVE  /\ job'[o].mine \cap rows' = {}
               /\ \A q \in Others(o) : job'[o].mine \cap job'[q].mine \subseteq {HeadOffice}
    <3>1. o \in Replicas /\ r \in Others(o) /\ job'[o].mine = job[o].mine
      BY <1>4 DEF Others, Bystander
    <3>2. job[o].mine \cap rows = {} /\ job[o].mine \cap job[r].mine \subseteq {HeadOffice}
      BY <3>1 DEF SeedInv, Apart
    <3>3. \A q \in Others(o) : job'[q].mine \subseteq job[q].mine
      BY <1>4, NoJobType DEF Others, Bystander
    <3> QED BY <1>1, <3>1, <3>2, <3>3 DEF SeedInv, Apart
  <2>2. job'[r].mine = {}
    BY <1>4, NoJobType
  <2> QED BY <2>1, <2>2 DEF Apart, Others
<1>6. ASSUME NEW o \in Others(r)
      PROVE  InTurn(o)' /\ Shared(o)'
  <2>1. o \in Replicas /\ InTurn(o) /\ Shared(o) /\ Bystander(o) /\ o # r
    BY <1>4 DEF SeedInv, Others
  <2>2. InTurn(o)' /\ (Transaction(o)' <=> Transaction(o))
    BY <1>1, <2>1, BystanderInTurn
  <2>3. CASE Transaction(o)
    <3>1. /\ "start" \in job'[o].meanwhile
          /\ "console" \in job[o].meanwhile \union job[r].meanwhile => "console" \in job'[o].meanwhile
      BY <1>4, <2>3
    <3>2. Passed(o)'
      <4>1. Visible(o) \subseteq Visible(o)'
        BY <1>1, <2>1 DEF Visible, Bystander
      <4>2. Heads(o) \in Nat /\ Heads(o)' \in Nat /\ Heads(o)' >= Heads(o)
        BY <1>1, <1>2, <2>1 DEF Heads, Bystander
      <4>3. \A k \in 1..6 : Has(o, k) => Has(o, k)'
        BY <4>1, <4>2 DEF Has
      <4> QED BY <2>1, <3>1, <4>3 DEF Shared, Passed, Seeding, Bystander
    <3>3. SecondHead(o)'
      <4>1. SUFFICES ASSUME Office(o)', heads' > 0
                     PROVE  Overtaken(o)'
        BY DEF SecondHead
      <4>2. Office(o)
        BY <2>1, <4>1 DEF Office, Bystander
      <4>3. CASE heads > 0
        BY <2>1, <3>1, <4>2, <4>3 DEF Shared, SecondHead, Overtaken, Bystander
      <4>4. CASE heads = 0 /\ job[o].mine \cap Apps = {}
        BY <2>1, <3>1, <4>4 DEF Overtaken, Bystander
      <4>5. CASE heads = 0 /\ job[o].mine \cap Apps # {}
        <5>1. PICK k \in 1..2 : Guard(k) \in job[o].mine
          BY <4>5, PartsAre DEF Apps, Guard
        <5>2. Guard(k) # HeadOffice /\ k \in 1..6 /\ k # 3 /\ k < 7
          BY PartFacts
        <5>3. Guard(k) \notin rows /\ Guard(k) \notin job[r].mine
          <6>1. o \in Replicas /\ r \in Others(o)
            BY <2>1 DEF Others
          <6> QED BY <5>1, <5>2, <6>1 DEF SeedInv, Apart
        <5>4. ~Has(r, k)
          BY <5>2, <5>3 DEF Has, Visible
        <5>5. "console" \in job[r].meanwhile
          BY <1>1, <5>2, <5>4 DEF SeedInv, Shared, Passed, Seeding
        <5> QED BY <3>1, <5>5 DEF Overtaken
      <4> QED BY <1>1, <4>3, <4>4, <4>5
    <3> QED BY <2>2, <3>1, <3>2, <3>3 DEF Shared, Alone
  <2> QED BY <1>4, <2>1, <2>2, <2>3, Outside
<1> QED BY <1>4, <1>5, <1>6, Finished DEF SeedInv, Others
(* An administrator's commit, whatever it takes or frees.                  *)
LEMMA ConsoleInv ==
    ASSUME SeedInv, NEW gone, Console(gone), rows' \in SUBSET (Names \ {HeadOffice}), heads' \in Nat,
           \A o \in Replicas : job[o].mine \cap rows' = {}
    PROVE  SeedInv'
<1>1. UNCHANGED <<db, env, schema, pc>>
  BY DEF Console
<1>2. ASSUME NEW o \in Replicas
      PROVE  /\ job'[o] \in Job /\ Bystander(o)
             /\ Transaction(o) => "console" \in job'[o].meanwhile
  <2> DEFINE m == Mark(job[o], {"console"})
             k == [m EXCEPT !.lost = m.lost \/ gone \cap job[o].refs # {}]
  <2>1. job[o] \in Job /\ {"console"} \in SUBSET {"start", "console"}
    BY DEF SeedInv, Types
  <2>2. /\ m \in Job /\ m.part = job[o].part /\ m.todo = job[o].todo /\ m.mine = job[o].mine
        /\ m.meanwhile = job[o].meanwhile \union {"console"}
    BY <2>1, MarkType
  <2>3. job'[o] = IF Transaction(o) THEN k ELSE job[o]
    BY DEF Console
  <2> HIDE DEF m
  <2>4. /\ k \in Job /\ k.part = m.part /\ k.todo = m.todo /\ k.mine = m.mine
        /\ k.meanwhile = m.meanwhile
    BY <2>2 DEF Job
  <2> HIDE DEF k
  <2> QED BY <1>1, <2>1, <2>2, <2>3, <2>4 DEF Bystander
<1>3. job' = [o \in Replicas |-> job'[o]]
  BY DEF Console
<1>4. job' \in [Replicas -> Job]
  BY <1>2, <1>3
<1>5. Types'
  BY <1>1, <1>4 DEF SeedInv, Types
<1>6. Apart'
  BY <1>2 DEF SeedInv, Apart, Others, Bystander
<1>7. ASSUME NEW o \in Replicas
      PROVE  InTurn(o)' /\ Shared(o)'
  <2>1. InTurn(o)' /\ (Transaction(o)' <=> Transaction(o))
    BY <1>1, <1>2, BystanderInTurn DEF SeedInv
  <2>2. CASE Transaction(o)
    BY <1>2, <2>1, <2>2 DEF Shared, Passed, SecondHead, Overtaken, Alone
  <2> QED BY <1>5, <2>1, <2>2, Outside
<1> QED BY <1>5, <1>6, <1>7 DEF SeedInv

LEMMA EditInv ==
    ASSUME SeedInv, NameDept \/ RenameDept \/ (\E n \in Editable : Take(n) \/ Free(n))
    PROVE  SeedInv'
<1>1. /\ heads \in Nat /\ rows \in SUBSET (Names \ {HeadOffice})
      /\ \A o \in Replicas : job[o].mine \cap rows = {}
  BY DEF SeedInv, Types, Apart
<1>2. CASE NameDept \/ RenameDept
  <2>1. /\ rows' = rows /\ heads' \in Nat /\ Console({})
    BY <1>1, <1>2 DEF NameDept, RenameDept
  <2> QED BY <1>1, <2>1, ConsoleInv
<1>3. ASSUME NEW n \in Editable, Take(n)
      PROVE  SeedInv'
  <2>1. /\ rows' = rows \union {n} /\ heads' = heads /\ Console({})
        /\ \A o \in Replicas : n \notin job[o].mine
    BY <1>3 DEF Take
  <2>2. rows' \in SUBSET (Names \ {HeadOffice})
    BY <1>1, <2>1, EditAssumption
  <2> QED BY <1>1, <2>1, <2>2, ConsoleInv
<1>4. ASSUME NEW n \in Editable, Free(n)
      PROVE  SeedInv'
  <2>1. rows' \subseteq rows /\ heads' = heads /\ \E gone \in SUBSET {n} : Console(gone)
    BY <1>4 DEF Free
  <2> QED BY <1>1, <2>1, ConsoleInv
<1> QED BY <1>2, <1>3, <1>4

(* The database goes, and the open transactions with it.                   *)
LEMMA DownInv == ASSUME SeedInv, DbDown PROVE SeedInv'
<1>1. /\ Types' /\ UNCHANGED <<env, schema, rows, heads>>
      /\ \A r \in Replicas :
           IF Transaction(r) THEN pc'[r] = "failed" /\ job'[r] = NoJob
           ELSE pc'[r] = pc[r] /\ job'[r] = job[r]
  <2>1. pc' \in [Replicas -> Labels]
    BY DEF SeedInv, Types, DbDown, Labels
  <2>2. job' \in [Replicas -> Job]
    BY NoJobType DEF SeedInv, Types, DbDown
  <2> QED BY <2>1, <2>2 DEF SeedInv, Types, DbDown, tables
<1>2. Apart'
  BY <1>1, NoJobType DEF SeedInv, Apart, Others
<1>3. ASSUME NEW r \in Replicas
      PROVE  InTurn(r)' /\ Shared(r)'
  <2>1. CASE Transaction(r)
    BY <1>1, <2>1, Finished
  <2>2. CASE ~Transaction(r)
    BY <1>1, <2>2, Still DEF SeedInv
  <2> QED BY <2>1, <2>2
<1> QED BY <1>1, <1>2, <1>3 DEF SeedInv

(* create_all runs only where Alembic does not.                            *)
LEMMA QuietInv == ASSUME SeedInv, DbUp \/ Migrate \/ UNCHANGED vars PROVE SeedInv'
<1>1. /\ pc' = pc /\ job' = job /\ env' = env /\ rows' = rows /\ heads' = heads
      /\ schema' = schema \/ (env = "production" /\ schema' = TRUE)
      /\ db' \in BOOLEAN
  BY DEF SeedInv, Types, DbUp, Migrate, vars, tables
<1>2. Types' /\ Apart'
  BY <1>1 DEF SeedInv, Types, Apart
<1>3. ASSUME NEW r \in Replicas
      PROVE  InTurn(r)' /\ Shared(r)'
  <2>1. InTurn(r)'
    BY <1>1 DEF SeedInv, InTurn, Transaction, Seeding
  <2>2. Passed(r)' /\ SecondHead(r)'
    BY <1>1 DEF SeedInv, Shared, Passed, SecondHead, Seeding, Has, Heads, Visible, Office, Overtaken
  <2>3. Alone(r)'
    BY <1>1 DEF SeedInv, Shared, Alone, InTurn
  <2> QED BY <2>1, <2>2, <2>3 DEF Shared
<1> QED BY <1>2, <1>3 DEF SeedInv

LEMMA SeedNext == SeedInv /\ [Next]_vars => SeedInv'
<1> SUFFICES ASSUME SeedInv, [Next]_vars PROVE SeedInv'
  OBVIOUS
<1>1. ASSUME NEW r \in Replicas, Launch(r) \/ Stop(r)
      PROVE  SeedInv'
  BY <1>1, LaunchInv
<1>2. ASSUME NEW r \in Replicas, Start(r)
      PROVE  SeedInv'
  BY <1>2, TryInv, TablesInv, CreateInv, LookInv, ListInv, InsertInv, CommitInv DEF Start
<1>3. CASE DbUp \/ Migrate \/ UNCHANGED vars
  BY <1>3, QuietInv
<1>4. CASE DbDown
  BY <1>4, DownInv
<1>5. CASE NameDept \/ RenameDept \/ (\E n \in Editable : Take(n) \/ Free(n))
  BY <1>5, EditInv
<1> QED BY <1>1, <1>2, <1>3, <1>4, <1>5 DEF Next

LEMMA SeedCorrect == Spec => []SeedInv
<1>1. Init => SeedInv
  <2> SUFFICES ASSUME Init PROVE SeedInv
    OBVIOUS
  <2>1. Types
    BY NoJobType DEF Init, Types, Labels
  <2>2. Apart
    BY NoJobType DEF Init, Apart, Others
  <2>3. \A r \in Replicas : InTurn(r) /\ Shared(r)
    BY NoJobType DEF Init, InTurn, Transaction, Seeding, Shared, Passed, SecondHead, Office, Alone
  <2> QED BY <2>1, <2>2, <2>3 DEF SeedInv
<1> QED BY <1>1, SeedNext, PTL DEF Spec

(* Every reachable state has its types.                                    *)
THEOREM TypeCorrect == Spec => []Types
<1>1. SeedInv => Types
  BY DEF SeedInv
<1> QED BY <1>1, SeedCorrect, PTL

-----------------------------------------------------------------------------
(* For any number of replicas and whatever administrators edit meanwhile:  *)
(* a replica that commits its seed has seeded everything it looks for,     *)
(* unless an administrator committed while the seed ran.                   *)
THEOREM SeedsComplete == Spec => SeedComplete
<1>1. ASSUME SeedInv, NEW r \in Replicas, Commit(r), "console" \notin job[r].meanwhile
      PROVE  heads' > 0 /\ {Guard(i) : i \in 1..6} \subseteq rows' \union {HeadOffice}
  <2>1. \A i \in 1..6 : Has(r, i)
    <3>1. pc[r] = "commit" /\ job[r].part = 7
      BY <1>1 DEF SeedInv, InTurn, Commit
    <3>2. \A i \in 1..6 : i < 7
      OBVIOUS
    <3> QED BY <1>1, <3>1, <3>2 DEF SeedInv, Shared, Passed, Seeding
  <2>2. heads' > 0
    BY <1>1, <2>1 DEF Has, Commit
  <2>3. ASSUME NEW i \in 1..6
        PROVE  Guard(i) \in rows' \union {HeadOffice}
    BY <1>1, <2>1, PartFacts DEF Has, Visible, Commit
  <2> QED BY <2>2, <2>3
<1>2. SeedInv /\ [Next]_vars =>
        [\A r \in Replicas :
           Commit(r) /\ "console" \notin job[r].meanwhile
             => heads' > 0 /\ {Parts[i].guard : i \in DOMAIN Parts} \subseteq rows' \union {HeadOffice}]_vars
  BY <1>1, PartsAre DEF Guard
<1> QED BY <1>2, SeedCorrect, PTL DEF Spec, SeedComplete

(* For any number of replicas: a seed adds a second head office only in    *)
(* the cases OneHeadOffice names.                                          *)
THEOREM SecondHeadOffice == Spec => OneHeadOffice
<1>1. ASSUME SeedInv, NEW r \in Replicas, HeadOffice \in job[r].mine, heads > 0
      PROVE  \/ "console" \in job[r].meanwhile
             \/ "start" \in job[r].meanwhile /\ job[r].mine \cap Apps = {}
  BY <1>1 DEF SeedInv, Shared, SecondHead, Office, Overtaken
<1>2. SeedInv /\ [Next]_vars =>
        [\A r \in Replicas :
           Commit(r) /\ HeadOffice \in job[r].mine /\ heads > 0
             => \/ "console" \in job[r].meanwhile
                \/ "start" \in job[r].meanwhile /\ job[r].mine \cap Apps = {}]_vars
  BY <1>1
<1> QED BY <1>2, SeedCorrect, PTL DEF Spec, OneHeadOffice

-----------------------------------------------------------------------------
(* Who fails.  A step moves one start, or the open transactions fail with  *)
(* the database.                                                           *)
LEMMA Moved ==
    ASSUME SeedInv, [Next]_vars, NEW q \in Replicas, pc[q] # "failed", pc'[q] = "failed"
    PROVE  ~db' \/ (Start(q) /\ Raise(q))
<1> DEFINE goal == ~db' \/ (Start(q) /\ Raise(q))
<1>1. ASSUME NEW r \in Replicas, NEW l, NEW j, Step(r, l, j), l # "failed"
      PROVE  FALSE
  BY <1>1 DEF SeedInv, Types, Step
<1>2. ASSUME NEW r \in Replicas, NEW l, StepSeen(r, l), l # "failed"
      PROVE  FALSE
  BY <1>2 DEF SeedInv, Types, StepSeen
<1>3. ASSUME NEW r \in Replicas, Raise(r)
      PROVE  r = q
  BY <1>3 DEF SeedInv, Types, Step, Raise
<1>4. ASSUME NEW r \in Replicas, Launch(r) \/ Stop(r)
      PROVE  goal
  BY <1>1, <1>4 DEF Launch, Stop
<1>5. ASSUME NEW r \in Replicas, Start(r)
      PROVE  goal
  <2>1. CASE Try(r)
    BY <1>1, <1>3, <1>5, <2>1 DEF Try
  <2>2. CASE Tables(r)
    <3>1. CASE Raise(r)
      BY <1>3, <1>5, <3>1
    <3>2. CASE ~Raise(r)
      <4>1. PICK l \in {"look", "create"} : Step(r, l, NoJob)
        BY <2>2, <3>2 DEF Tables
      <4> QED BY <1>1, <4>1
    <3> QED BY <3>1, <3>2
  <2>3. CASE CreateTables(r)
    BY <1>2, <1>3, <1>5, <2>3 DEF CreateTables
  <2>4. CASE Look(r)
    <3>1. CASE Raise(r)
      BY <1>3, <1>5, <3>1
    <3>2. CASE ~Raise(r)
      <4>1. \E l \in {"commit", "look", "list", "insert"} : \E j : Step(r, l, j)
        BY <2>4, <3>2 DEF Look
      <4> QED BY <1>1, <4>1
    <3> QED BY <3>1, <3>2
  <2>5. CASE ListPermissions(r)
    BY <1>1, <2>5 DEF ListPermissions
  <2>6. CASE Insert(r)
    <3>1. CASE Raise(r)
      BY <1>3, <1>5, <3>1
    <3>2. CASE ~Raise(r)
      <4>1. \E l \in {"commit", "look", "insert"} : \E j : Step(r, l, j)
        BY <2>6, <3>2 DEF Insert
      <4> QED BY <1>1, <4>1
    <3> QED BY <3>1, <3>2
  <2>7. CASE Commit(r)
    BY <1>2, <2>7 DEF Commit
  <2> QED BY <1>5, <2>1, <2>2, <2>3, <2>4, <2>5, <2>6, <2>7 DEF Start
<1>6. CASE DbDown
  BY <1>6 DEF DbDown
<1>7. CASE DbUp \/ Migrate \/ UNCHANGED vars
  BY <1>7 DEF DbUp, Migrate, vars
<1>8. CASE NameDept \/ RenameDept \/ (\E n \in Editable : Take(n) \/ Free(n))
  BY <1>8 DEF NameDept, RenameDept, Take, Free, Console
<1> QED BY <1>4, <1>5, <1>6, <1>7, <1>8 DEF Next

(* Why a start raises.  While nobody commits, its look at a part still     *)
(* holds when it inserts: only a name that part does not look for can be   *)
(* in its way.                                                             *)
LEMMA RaisedForCause ==
    ASSUME SeedInv, NEW q \in Replicas, Start(q), Raise(q), pc[q] # "failed"
    PROVE  Cause(q)
<1>1. ASSUME NEW l, NEW j, Step(q, l, j)
      PROVE  l = "failed"
  BY <1>1 DEF SeedInv, Types, Step, Raise
<1>2. ASSUME NEW l, StepSeen(q, l)
      PROVE  l = "failed"
  BY <1>2 DEF SeedInv, Types, StepSeen, Step, Raise
<1>3. CASE Try(q)
  BY <1>1, <1>3 DEF Try, Cause
<1>4. CASE Tables(q)
  <2>1. CASE ~db
    BY <2>1 DEF Cause
  <2>2. CASE db
    <3>1. PICK l \in {"look", "create"} : Step(q, l, NoJob)
      BY <1>4, <2>2 DEF Tables
    <3> QED BY <1>1, <3>1
  <2> QED BY <2>1, <2>2
<1>5. CASE CreateTables(q)
  <2>1. schema /\ pc[q] = "create"
    BY <1>2, <1>5 DEF CreateTables
  <2> QED BY <2>1 DEF SeedInv, Shared, Alone, Cause
<1>6. CASE Look(q)
  <2> DEFINE i == job[q].part
  <2>1. /\ i \in 1..6 /\ job[q].mine \cap RowsOf(i) = {} /\ heads \in Nat
    BY <1>6 DEF SeedInv, Types, InTurn, Look
  <2>2. CASE ~db \/ ~schema
    BY <2>2 DEF Cause
  <2>3. CASE db /\ schema
    <3>1. Guard(i) = HeadOffice /\ Heads(q) > 1
      <4>1. SUFFICES ASSUME ~(Guard(i) = HeadOffice /\ Heads(q) > 1)
                     PROVE  FALSE
        OBVIOUS
      <4>2. \E l \in {"commit", "look", "list", "insert"} : \E j : Step(q, l, j)
        BY <1>6, <2>3, <4>1 DEF Look, Guard
      <4> QED BY <1>1, <4>2
    <3>2. HeadOffice \notin job[q].mine
      BY <2>1, <3>1, PartFacts
    <3>3. heads > 1
      BY <2>1, <3>1, <3>2 DEF Heads
    <3> QED BY <3>3 DEF Cause
  <2> QED BY <2>2, <2>3
<1>7. CASE ListPermissions(q)
  BY <1>1, <1>7 DEF ListPermissions
<1>8. CASE Insert(q)
  <2> DEFINE i == job[q].part
             new == Head(job[q].todo)
  <2>1. /\ pc[q] = "insert" /\ i \in 1..6 /\ job[q].todo \in Rest(i)
        /\ job[q].mine \cap UNION Range(job[q].todo) = {}
    BY <1>8 DEF SeedInv, InTurn, Insert
  <2>2. /\ new \subseteq RowsOf(i) /\ new \subseteq UNION Range(job[q].todo)
        /\ new = {"super_admin"} => i = 5
    <3>1. /\ new \subseteq RowsOf(i)
          /\ UNION Range(job[q].todo) = new \union UNION Range(Tail(job[q].todo))
          /\ new = {"super_admin"} => i = 5
      <4>1. PICK todo : todo = job[q].todo
        OBVIOUS
      <4>2. /\ Head(todo) \subseteq RowsOf(i)
            /\ UNION Range(todo) = Head(todo) \union UNION Range(Tail(todo))
            /\ Head(todo) = {"super_admin"} => i = 5
        <5>1. i \in 1..6 /\ todo \in Rest(i)
          BY <2>1, <4>1
        <5> HIDE DEF i, new
        <5> QED BY <5>1, Left
      <4> QED BY <4>1, <4>2
    <3> QED BY <3>1
  <2>3. SUFFICES ASSUME job[q].meanwhile = {}
                 PROVE  HalfStored(i)
    BY <2>1, PartsAre DEF Cause
  <2>4. Guard(i) \notin rows /\ ~job[q].lost
    BY <2>1, <2>3 DEF SeedInv, Shared, Alone
  <2>5. Taken(q, new) \/ (new \in {{}, {"super_admin"}} /\ Dangling(q, new))
    <3>1. SUFFICES ASSUME ~(Taken(q, new) \/ (new \in {{}, {"super_admin"}} /\ Dangling(q, new)))
                   PROVE  FALSE
      OBVIOUS
    <3>2. \E l \in {"commit", "look", "insert"} : \E j : Step(q, l, j)
      BY <1>8, <3>1 DEF Insert
    <3> QED BY <1>1, <3>2
  <2>6. ~(new \in {{}, {"super_admin"}} /\ Dangling(q, new))
    <3>1. CASE "super_admin" \in new /\ new = {"super_admin"}
      <4>1. Has(q, 1)
        <5>1. 1 \in 1..6 /\ 1 < i
          BY <2>2, <3>1
        <5> QED BY <2>1, <2>3, <5>1 DEF SeedInv, Shared, Passed, Seeding
      <4>2. "nexuskit" \in Visible(q)
        BY <4>1, PartsAre DEF Has, Guard
      <4> QED BY <2>4, <4>2 DEF Dangling, Parents
    <3>2. CASE new = {}
      BY <2>4, <3>2 DEF Dangling, Parents
    <3> QED BY <3>1, <3>2
  <2>7. Taken(q, new)
    BY <2>5, <2>6
  <2>8. RowsOf(i) \cap rows # {}
    BY <2>1, <2>2, <2>7 DEF Taken, Visible
  <2> QED BY <2>4, <2>8 DEF HalfStored, Guard
<1>9. CASE Commit(q)
  BY <1>2, <1>9 DEF Commit
<1> QED BY <1>3, <1>4, <1>5, <1>6, <1>7, <1>8, <1>9 DEF Start

(* For any number of replicas: a start fails only for a cause that         *)
(* StartFailsForCause names.                                               *)
THEOREM StartsFailForCause == Spec => StartFailsForCause
<1>1. SeedInv /\ [Next]_vars =>
        [\A r \in Replicas : pc[r] # "failed" /\ pc'[r] = "failed" => ~db' \/ Cause(r)]_vars
  BY Moved, RaisedForCause
<1> QED BY <1>1, SeedCorrect, PTL DEF Spec, StartFailsForCause
=============================================================================
