--------------------------- MODULE RequestsProofs ---------------------------
(***************************************************************************)
(* Proofs about the requests of MCRequests: the versions of a workflow for *)
(* every number of clients and versions, the webhook intake for every      *)
(* number of events and tries, and the tool records for every number of    *)
(* clients, tools, organisations and fields.                               *)
(***************************************************************************)
EXTENDS MCRequests, Sequences, FiniteSetTheorems, TLAPS

-----------------------------------------------------------------------------
(***************************************************************************)
(* A version has been staged, or was seeded, when it is in staging or      *)
(* production, when a client read it so, and when it has a successor: only *)
(* a staged or released version is copied into a new one.  The last part   *)
(* is what keeps a rollback from releasing a version that was never        *)
(* staged.                                                                 *)
(***************************************************************************)
Vetted == everStaged \cup seeded

LiveStaged ==
    \A v \in Versions :
        status[v] \in {"staging", "production"} => v \in Vetted

PrecedingStaged == \A v \in Stored : v > 1 => (v - 1) \in Vetted

ReadStaged ==
    \A c \in Clients :
        /\ client[c].read \in {"staging", "production"} => client[c].v \in Vetted
        /\ client[c].op = "update" => client[c].read # "archived"
        /\ client[c].op = "promote" => client[c].read \in {"draft", "staging"}
        /\ client[c].op = "rollback" => client[c].v > 1

StagedInv == TypeOK /\ LiveStaged /\ PrecedingStaged /\ ReadStaged

-----------------------------------------------------------------------------
(* The table holds the seeded version at most.                             *)
LEMMA VersionsInit == Init => StagedInv
<1> SUFFICES ASSUME Init
             PROVE  StagedInv
    OBVIOUS
<1>1. PICK x \in Contents : Seeded(x)
  BY DEF Init
<1>2. client \in [Clients -> Requests] /\ \A c \in Clients : client[c] = Idle
  BY VersionsAssumption DEF Init, Idle, Requests
<1>3. /\ seeded \subseteq {1} /\ everStaged = {}
      /\ {"production", "archived"} \subseteq WorkflowStatus
      /\ None \notin WorkflowStatus /\ x # None
  BY VersionsAssumption DEF Init, WorkflowStatus
<1>4. /\ status \in [Versions -> WorkflowStatus \cup {None}]
      /\ content \in [Versions -> Contents \cup {None}]
      /\ released \in [Versions -> SUBSET Contents]
      /\ \A v \in Versions : status[v] = None <=> content[v] = None
  BY <1>1, <1>3 DEF Seeded
<1>5. Stored \subseteq seeded
  BY <1>1 DEF Seeded, Stored
<1>6. \A v \in Stored : v = 1 /\ \A u \in 1..v : u = v
  BY <1>3, <1>5
<1>7. TypeOK
  BY <1>2, <1>3, <1>4, <1>6 DEF TypeOK, Idle
<1>8. LiveStaged /\ PrecedingStaged
  BY <1>1, <1>6, VersionsAssumption
     DEF Seeded, LiveStaged, PrecedingStaged, Vetted, WorkflowStatus
<1>9. ReadStaged
  BY <1>2, VersionsAssumption DEF ReadStaged, Idle, WorkflowStatus
<1> QED
  BY <1>7, <1>8, <1>9 DEF StagedInv

(* A read leaves the table alone, and what it notes is in the table.       *)
LEMMA ReadKeeps ==
  ASSUME StagedInv, NEW c \in Clients, NEW v \in Versions,
         NEW op \in {"create", "update", "promote", "rollback", "delete"},
         Reads(c, op, v),
         op # "create" => v \in Stored,
         op = "update" => status[v] # "archived",
         op = "promote" => status[v] \in {"draft", "staging"},
         op = "rollback" => v > 1
  PROVE  StagedInv'
<1>1. client' = [client EXCEPT ![c] = [op |-> op, v |-> v, read |-> status[v]]]
  BY DEF Reads
<1>2. UNCHANGED <<status, content, seeded, everStaged, released>>
  BY DEF Reads
<1>3. [op |-> op, v |-> v, read |-> status[v]] \in Requests
  BY DEF StagedInv, TypeOK, Requests, Versions
<1>4. v \in Stored => status[v] \in WorkflowStatus
  BY DEF StagedInv, TypeOK, Stored
<1>5. Stored' = Stored
  BY <1>2 DEF Stored
<1>6. TypeOK'
  BY <1>1, <1>2, <1>3, <1>4, <1>5 DEF StagedInv, TypeOK
<1>7. ReadStaged'
  BY <1>1, <1>2 DEF StagedInv, TypeOK, LiveStaged, ReadStaged, Vetted
<1> QED
  BY <1>2, <1>5, <1>6, <1>7 DEF StagedInv, LiveStaged, PrecedingStaged, Vetted

(* A client that has written is idle, and the others keep what they read.  *)
LEMMA WriteKeepsClients ==
  ASSUME StagedInv, NEW c \in Clients, NEW op, Writes(c, op),
         Vetted \subseteq Vetted', Stored \subseteq Stored'
  PROVE  /\ client' \in [Clients -> Requests]
         /\ \A d \in Clients : client'[d].op \notin {"idle", "create"} =>
               client'[d].v \in Stored' /\ client'[d].read \in WorkflowStatus
         /\ ReadStaged'
<1>1. client' = [client EXCEPT ![c] = Idle]
  BY DEF Writes
<1>2. Idle \in Requests /\ Idle.op = "idle" /\ Idle.read = None
  BY VersionsAssumption DEF Idle, Requests
<1>3. client' \in [Clients -> Requests]
  BY <1>1, <1>2 DEF StagedInv, TypeOK
<1>4. \A d \in Clients : client'[d] = Idle \/ client'[d] = client[d]
  BY <1>1 DEF StagedInv, TypeOK
<1>5. ReadStaged'
  BY <1>2, <1>4, VersionsAssumption DEF StagedInv, ReadStaged, WorkflowStatus
<1> QED
  BY <1>2, <1>3, <1>4, <1>5 DEF StagedInv, TypeOK

(* A commit of new rows keeps the types, if it leaves no gap.              *)
LEMMA CommitKeeps ==
  ASSUME StagedInv,
         NEW s \in [Versions -> WorkflowStatus \cup {None}],
         NEW x \in [Versions -> Contents \cup {None}],
         \A v \in Versions : s[v] = None <=> x[v] = None,
         \A v \in Stored : s[v] # None,
         Commit(s, x)
  PROVE  /\ status' = s /\ content' = x
         /\ Vetted \subseteq Vetted' /\ everStaged' \subseteq Versions
         /\ UNCHANGED seeded
         /\ \A v \in Versions : s[v] = "staging" => v \in Vetted'
         /\ Stored \subseteq Stored'
         /\ released' \in [Versions -> SUBSET Contents]
<1>1. status' = s /\ content' = x
  BY DEF Commit
<1>2. /\ Vetted \subseteq Vetted' /\ everStaged' \subseteq Versions
      /\ UNCHANGED seeded
      /\ \A v \in Versions : s[v] = "staging" => v \in Vetted'
  BY DEF Commit, StagedInv, TypeOK, Vetted
<1>3. Stored \subseteq Stored'
  BY <1>1 DEF Stored
<1>4. ASSUME NEW v \in Versions
      PROVE  released[v] \cup (IF s[v] = "production" THEN {x[v]} ELSE {})
                \in SUBSET Contents
  <2>1. s[v] = "production" => x[v] \in Contents
    BY VersionsAssumption DEF WorkflowStatus
  <2> QED
    BY <2>1 DEF StagedInv, TypeOK
<1>5. released' \in [Versions -> SUBSET Contents]
  BY <1>4 DEF Commit
<1> QED
  BY <1>1, <1>2, <1>3, <1>5

(* A commit that stores no new version keeps the invariant if what it puts *)
(* into production has been staged.                                        *)
LEMMA ChangeKeeps ==
  ASSUME StagedInv, NEW c \in Clients, NEW op, Writes(c, op),
         NEW s \in [Versions -> WorkflowStatus \cup {None}],
         NEW x \in [Versions -> Contents \cup {None}],
         \A v \in Versions : s[v] = None <=> x[v] = None,
         \A v \in Versions : s[v] = None <=> status[v] = None,
         \A v \in Versions : s[v] = "production" => v \in Vetted,
         Commit(s, x)
  PROVE  StagedInv'
<1>1. /\ status' = s /\ content' = x
      /\ Vetted \subseteq Vetted' /\ everStaged' \subseteq Versions
      /\ UNCHANGED seeded
      /\ \A v \in Versions : s[v] = "staging" => v \in Vetted'
      /\ released' \in [Versions -> SUBSET Contents]
  BY CommitKeeps DEF Stored
<1>2. Stored' = Stored
  BY <1>1 DEF Stored
<1>3. /\ client' \in [Clients -> Requests]
      /\ \A d \in Clients : client'[d].op \notin {"idle", "create"} =>
            client'[d].v \in Stored' /\ client'[d].read \in WorkflowStatus
      /\ ReadStaged'
  BY <1>1, <1>2, WriteKeepsClients
<1>4. TypeOK'
  BY <1>1, <1>2, <1>3 DEF StagedInv, TypeOK
<1>5. LiveStaged'
  BY <1>1 DEF LiveStaged
<1>6. PrecedingStaged'
  BY <1>1, <1>2 DEF StagedInv, PrecedingStaged
<1> QED
  BY <1>3, <1>4, <1>5, <1>6 DEF StagedInv

(* A new version keeps the invariant if it is the first one or follows one *)
(* that has been staged.                                                   *)
LEMMA InsertKeeps ==
  ASSUME StagedInv, NEW c \in Clients, NEW op, Writes(c, op),
         NEW n \in Versions, NEW x \in Contents, Insert(n, x),
         n = 1 \/ ((n - 1) \in Stored /\ (n - 1) \in Vetted)
  PROVE  StagedInv'
<1>1. CASE n \in Stored
  <2>1. UNCHANGED <<status, content, seeded, everStaged, released>>
    BY <1>1 DEF Insert
  <2>2. Stored' = Stored
    BY <2>1 DEF Stored
  <2>3. /\ client' \in [Clients -> Requests]
        /\ \A d \in Clients : client'[d].op \notin {"idle", "create"} =>
              client'[d].v \in Stored' /\ client'[d].read \in WorkflowStatus
        /\ ReadStaged'
    BY <2>1, <2>2, WriteKeepsClients DEF Vetted
  <2>4. TypeOK'
    BY <2>1, <2>2, <2>3 DEF StagedInv, TypeOK
  <2> QED
    BY <2>1, <2>2, <2>3, <2>4 DEF StagedInv, LiveStaged, PrecedingStaged, Vetted
<1>2. CASE n \notin Stored
  <2> DEFINE s == [status EXCEPT ![n] = "draft"]
             y == [content EXCEPT ![n] = x]
  <2>1. /\ s \in [Versions -> WorkflowStatus \cup {None}]
        /\ y \in [Versions -> Contents \cup {None}]
    BY DEF StagedInv, TypeOK, WorkflowStatus
  <2>2. \A v \in Versions : s[v] = None <=> y[v] = None
    BY VersionsAssumption DEF StagedInv, TypeOK, WorkflowStatus
  <2>3. \A v \in Stored : s[v] # None
    BY VersionsAssumption DEF Stored, StagedInv, TypeOK, WorkflowStatus
  <2>4. Commit(s, y)
    BY <1>2 DEF Insert
  <2>5. /\ status' = s /\ content' = y
        /\ Vetted \subseteq Vetted' /\ everStaged' \subseteq Versions
        /\ UNCHANGED seeded
        /\ Stored \subseteq Stored'
        /\ released' \in [Versions -> SUBSET Contents]
    <3> HIDE DEF s, y
    <3> QED
      BY <2>1, <2>2, <2>3, <2>4, CommitKeeps
  <2>6. Stored' = Stored \cup {n}
    BY <2>5, VersionsAssumption DEF Stored, StagedInv, TypeOK, WorkflowStatus
  <2>7. /\ client' \in [Clients -> Requests]
        /\ \A d \in Clients : client'[d].op \notin {"idle", "create"} =>
              client'[d].v \in Stored' /\ client'[d].read \in WorkflowStatus
        /\ ReadStaged'
    BY <2>5, WriteKeepsClients
  <2>8. \A v \in Stored' : \A u \in 1..v : u \in Stored'
    <3> SUFFICES ASSUME NEW u \in 1..n
                 PROVE  u \in Stored'
      BY <2>6 DEF StagedInv, TypeOK
    <3>1. n \in Nat
      BY VersionsAssumption DEF Versions
    <3>2. u = n \/ (n # 1 /\ u \in 1..(n - 1))
      BY <3>1
    <3>3. n # 1 => \A w \in 1..(n - 1) : w \in Stored
      BY DEF StagedInv, TypeOK
    <3> QED
      BY <2>6, <3>2, <3>3
  <2>9. TypeOK'
    <3>1. seeded' \subseteq {1}
      BY <2>5 DEF StagedInv, TypeOK
    <3> QED
      BY <2>1, <2>2, <2>5, <2>7, <2>8, <3>1 DEF TypeOK
  <2>10. LiveStaged'
    BY <2>5 DEF StagedInv, TypeOK, LiveStaged
  <2>11. PrecedingStaged'
    BY <2>5, <2>6 DEF StagedInv, PrecedingStaged
  <2> QED
    BY <2>7, <2>9, <2>10, <2>11 DEF StagedInv
<1> QED
  BY <1>1, <1>2

-----------------------------------------------------------------------------
(* Every step keeps the invariant.                                         *)
LEMMA VersionsStep == StagedInv /\ [Next]_vars => StagedInv'
<1> SUFFICES ASSUME StagedInv, [Next]_vars
             PROVE  StagedInv'
    OBVIOUS
<1>a. /\ status \in [Versions -> WorkflowStatus \cup {None}]
      /\ content \in [Versions -> Contents \cup {None}]
      /\ \A v \in Versions : status[v] = None <=> content[v] = None
  BY DEF StagedInv, TypeOK
<1>1. ASSUME NEW c \in Clients, CreateRead(c)
      PROVE  StagedInv'
  <2>1. 1 \in Versions
    BY VersionsAssumption DEF Versions
  <2> QED
    BY <1>1, <2>1, ReadKeeps DEF CreateRead
<1>2. ASSUME NEW c \in Clients, NEW v \in Versions, UpdateRead(c, v)
      PROVE  StagedInv'
  BY <1>2, ReadKeeps DEF UpdateRead
<1>3. ASSUME NEW c \in Clients, NEW v \in Versions, PromoteRead(c, v)
      PROVE  StagedInv'
  BY <1>3, ReadKeeps DEF PromoteRead
<1>4. ASSUME NEW c \in Clients, NEW v \in Versions, RollbackRead(c, v)
      PROVE  StagedInv'
  BY <1>4, ReadKeeps DEF RollbackRead
<1>5. ASSUME NEW c \in Clients, NEW v \in Versions, DeleteRead(c, v)
      PROVE  StagedInv'
  BY <1>5, ReadKeeps DEF DeleteRead
<1>6. ASSUME NEW c \in Clients, NEW x \in Contents, CreateWrite(c, x)
      PROVE  StagedInv'
  <2>1. 1 \in Versions
    BY VersionsAssumption DEF Versions
  <2> QED
    BY <1>6, <2>1, InsertKeeps DEF CreateWrite
<1>7. ASSUME NEW c \in Clients, NEW x \in Contents, UpdateWrite(c, x)
      PROVE  StagedInv'
  <2>1. /\ Writes(c, "update")
        /\ client[c].v \in Stored /\ client[c].read \in WorkflowStatus
        /\ client[c].read # "archived"
    BY <1>7 DEF UpdateWrite, Writes, StagedInv, TypeOK, ReadStaged
  <2>2. client[c].v \in Versions /\ content[client[c].v] # None
    BY <2>1 DEF Stored, StagedInv, TypeOK
  <2>3. CASE client[c].read = "draft"
    <3> DEFINE y == [content EXCEPT ![client[c].v] = x]
    <3>1. /\ y \in [Versions -> Contents \cup {None}]
          /\ \A v \in Versions : status[v] = None <=> y[v] = None
      BY <1>a, <2>2, VersionsAssumption
    <3>2. Commit(status, y)
      BY <1>7, <2>3 DEF UpdateWrite
    <3>3. \A v \in Versions : status[v] = "production" => v \in Vetted
      BY DEF StagedInv, LiveStaged
    <3> HIDE DEF y
    <3> QED
      BY <1>a, <2>1, <3>1, <3>2, <3>3, ChangeKeeps
  <2>4. CASE client[c].read # "draft"
    <3>1. client[c].v \in Vetted
      BY <2>1, <2>4 DEF StagedInv, ReadStaged, WorkflowStatus
    <3>2. client[c].v + 1 \in Versions /\ (client[c].v + 1) - 1 = client[c].v
      BY <1>7, <2>2, <2>4, VersionsAssumption DEF UpdateWrite, Versions
    <3>3. Insert(client[c].v + 1, x)
      BY <1>7, <2>4 DEF UpdateWrite
    <3> QED
      BY <2>1, <3>1, <3>2, <3>3, InsertKeeps
  <2> QED
    BY <2>3, <2>4
<1>8. ASSUME NEW c \in Clients, PromoteWrite(c)
      PROVE  StagedInv'
  <2> DEFINE s == [status EXCEPT ![client[c].v] = Promoted(client[c].read)]
  <2>1. /\ Writes(c, "promote") /\ client[c].v \in Stored
        /\ client[c].read \in {"draft", "staging"}
        /\ client[c].read = "staging" => client[c].v \in Vetted
    BY <1>8 DEF PromoteWrite, Writes, StagedInv, TypeOK, ReadStaged
  <2>2. /\ Promoted(client[c].read) \in WorkflowStatus
        /\ Promoted(client[c].read) = "production" => client[c].v \in Vetted
    BY <2>1 DEF Promoted, WorkflowStatus
  <2>3. s \in [Versions -> WorkflowStatus \cup {None}]
    BY <1>a, <2>2
  <2>4. \A v \in Versions : s[v] = None <=> status[v] = None
    BY <1>a, <2>1, <2>2, VersionsAssumption DEF Stored
  <2>5. \A v \in Versions : s[v] = "production" => v \in Vetted
    BY <1>a, <2>2 DEF StagedInv, LiveStaged
  <2>6. Commit(s, content)
    BY <1>8 DEF PromoteWrite
  <2> HIDE DEF s
  <2> QED
    BY <1>a, <2>1, <2>3, <2>4, <2>5, <2>6, ChangeKeeps
<1>9. ASSUME NEW c \in Clients, RollbackWrite(c)
      PROVE  StagedInv'
  <2> DEFINE v == client[c].v
             had == IF client[c].read = "archived" THEN "staging" ELSE client[c].read
             s == [status EXCEPT ![v] = "archived", ![v - 1] = had]
  <2>1. /\ Writes(c, "rollback") /\ v \in Stored /\ v > 1
        /\ client[c].read \in WorkflowStatus
    BY <1>9 DEF RollbackWrite, Writes, StagedInv, TypeOK, ReadStaged
  <2>2. v \in Versions /\ v - 1 \in Versions /\ v - 1 # v /\ (v - 1) \in 1..v
    BY <2>1, VersionsAssumption DEF Stored, Versions
  <2>3. (v - 1) \in Stored /\ (v - 1) \in Vetted
    BY <2>1, <2>2 DEF StagedInv, TypeOK, PrecedingStaged
  <2>4. had \in WorkflowStatus
    BY <2>1 DEF WorkflowStatus
  <2>5. s \in [Versions -> WorkflowStatus \cup {None}]
    BY <1>a, <2>4 DEF WorkflowStatus
  <2>6. \A u \in Versions : s[u] = None <=> status[u] = None
    BY <1>a, <2>1, <2>2, <2>3, <2>4, VersionsAssumption DEF Stored, WorkflowStatus
  <2>7. \A u \in Versions : s[u] = "production" => u \in Vetted
    BY <1>a, <2>2, <2>3 DEF StagedInv, LiveStaged
  <2>8. Commit(s, content)
    BY <1>9 DEF RollbackWrite
  <2> HIDE DEF s
  <2> QED
    BY <1>a, <2>1, <2>5, <2>6, <2>7, <2>8, ChangeKeeps
<1>10. ASSUME NEW c \in Clients, DeleteWrite(c)
       PROVE  StagedInv'
  <2> DEFINE s == [status EXCEPT ![client[c].v] = "archived"]
  <2>1. Writes(c, "delete") /\ client[c].v \in Stored
    BY <1>10 DEF DeleteWrite, Writes, StagedInv, TypeOK
  <2>2. s \in [Versions -> WorkflowStatus \cup {None}]
    BY <1>a DEF WorkflowStatus
  <2>3. \A v \in Versions : s[v] = None <=> status[v] = None
    BY <1>a, <2>1, VersionsAssumption DEF Stored, WorkflowStatus
  <2>4. \A v \in Versions : s[v] = "production" => v \in Vetted
    BY <1>a DEF StagedInv, LiveStaged
  <2>5. Commit(s, content)
    BY <1>10 DEF DeleteWrite
  <2> HIDE DEF s
  <2> QED
    BY <1>a, <2>1, <2>2, <2>3, <2>4, <2>5, ChangeKeeps
<1>11. CASE UNCHANGED vars
  <2>1. Stored' = Stored
    BY <1>11 DEF vars, Stored
  <2> QED
    BY <1>11, <2>1
       DEF vars, StagedInv, TypeOK, LiveStaged, PrecedingStaged, ReadStaged, Vetted
<1> QED
  BY <1>1, <1>2, <1>3, <1>4, <1>5, <1>6, <1>7, <1>8, <1>9, <1>10, <1>11 DEF Next

(* The versions of a lineage have no gaps, whatever requests race.         *)
THEOREM LineageTyped == Spec => []TypeOK
<1>1. StagedInv => TypeOK
  BY DEF StagedInv
<1> QED
  BY <1>1, VersionsInit, VersionsStep, PTL DEF Spec

(* A version in production has been in staging or is the one the database  *)
(* was created with, whatever requests race and however versions were      *)
(* rolled back.                                                            *)
THEOREM StagedFirst == Spec => []ProductionWasStaged
<1>1. StagedInv => ProductionWasStaged
  BY DEF StagedInv, LiveStaged, Vetted, ProductionWasStaged
<1> QED
  BY <1>1, VersionsInit, VersionsStep, PTL DEF Spec

-----------------------------------------------------------------------------
(* What is in production was released, and the past is kept.               *)
LiveReleased == \A v \in Versions : status[v] = "production" => released[v] # {}

(***************************************************************************)
(* What a handler carries: a version that was released, of a request worth *)
(* answering; and what it answers: a refusal to a bad request only, and,   *)
(* when the commit comes first, 201 only with a run stored.                *)
(***************************************************************************)
CallSound(e, n) ==
    /\ call[e][n].at \in {"found", "inserted", "answering"} =>
          call[e][n].v # 0 /\ Acceptable(post[e])
    /\ call[e][n].v # 0 => released[call[e][n].v] # {}
    /\ call[e][n].answer \in {400, 401} => ~Acceptable(post[e])
    /\ runs[e][n] # 0 => Acceptable(post[e])
    /\ CommitsFirst /\ (call[e][n].at = "answering" \/ call[e][n].answer = 201) =>
          runs[e][n] # 0

SenderSound(e) ==
    /\ sender[e].waits => sender[e].tries \in Tries /\ sender[e].told = 0
    /\ CommitsFirst /\ sender[e].told = 201 => HasRun(e)
    /\ sender[e].told \in {400, 401} => ~Acceptable(post[e])

IntakeInv ==
    /\ StagedInv /\ LiveReleased /\ IntakeTyped /\ RunsAreOfReleased
    /\ \A e \in Events : SenderSound(e)
    /\ \A e \in Events, n \in Tries : CallSound(e, n)

-----------------------------------------------------------------------------
(* A commit adds to what was released, and releases what it puts in        *)
(* production.                                                             *)
LEMMA CommitReleases ==
  ASSUME StagedInv, NEW s, NEW x, Commit(s, x)
  PROVE  LiveReleased' /\ \A v \in Versions : released[v] \subseteq released'[v]
<1>1. \A v \in Versions :
        released'[v] = released[v] \cup IF s[v] = "production" THEN {x[v]} ELSE {}
  BY DEF Commit
<1>2. status' = s
  BY DEF Commit
<1> QED
  BY <1>1, <1>2 DEF LiveReleased

(* The other requests keep both.                                           *)
LEMMA VersionsRelease ==
  ASSUME StagedInv, LiveReleased, [Next]_vars
  PROVE  LiveReleased' /\ \A v \in Versions : released[v] \subseteq released'[v]
<1>0. ASSUME UNCHANGED <<status, released>>
      PROVE  LiveReleased' /\ \A v \in Versions : released[v] \subseteq released'[v]
  BY <1>0 DEF LiveReleased
<1>1. ASSUME NEW n, NEW y, Insert(n, y)
      PROVE  LiveReleased' /\ \A v \in Versions : released[v] \subseteq released'[v]
  BY <1>0, <1>1, CommitReleases DEF Insert
<1>2. ASSUME NEW c \in Clients, CreateRead(c)
      PROVE  UNCHANGED <<status, released>>
  BY <1>2 DEF CreateRead, Reads
<1>3. ASSUME NEW c \in Clients, NEW v \in Versions,
             UpdateRead(c, v) \/ PromoteRead(c, v) \/ RollbackRead(c, v)
                \/ DeleteRead(c, v)
      PROVE  UNCHANGED <<status, released>>
  BY <1>3 DEF UpdateRead, PromoteRead, RollbackRead, DeleteRead, Reads
<1>4. ASSUME NEW c \in Clients, NEW y \in Contents, CreateWrite(c, y)
      PROVE  LiveReleased' /\ \A v \in Versions : released[v] \subseteq released'[v]
  BY <1>1, <1>4 DEF CreateWrite
<1>5. ASSUME NEW c \in Clients, NEW y \in Contents, UpdateWrite(c, y)
      PROVE  LiveReleased' /\ \A v \in Versions : released[v] \subseteq released'[v]
  BY <1>1, <1>5, CommitReleases DEF UpdateWrite
<1>6. ASSUME NEW c \in Clients, PromoteWrite(c) \/ RollbackWrite(c) \/ DeleteWrite(c)
      PROVE  LiveReleased' /\ \A v \in Versions : released[v] \subseteq released'[v]
  BY <1>6, CommitReleases DEF PromoteWrite, RollbackWrite, DeleteWrite
<1>7. CASE UNCHANGED vars
  BY <1>0, <1>7 DEF vars
<1> QED
  BY <1>0, <1>2, <1>3, <1>4, <1>5, <1>6, <1>7 DEF Next

-----------------------------------------------------------------------------
(* At first nothing was posted.                                            *)
LEMMA IntakeStarts == Init /\ IntakeInit => IntakeInv
<1> SUFFICES ASSUME Init, IntakeInit
             PROVE  IntakeInv
    OBVIOUS
<1>1. StagedInv
  BY VersionsInit
<1>2. LiveReleased
  BY VersionsAssumption DEF Init, Seeded, LiveReleased, WorkflowStatus
<1>3. IntakeTyped
  BY IntakeAssumption, VersionsAssumption DEF IntakeInit, IntakeTyped, NoCall, CallState, Tries
<1>4. \A e \in Events : sender[e].told = 0 /\ ~sender[e].waits
  BY DEF IntakeInit
<1>5. \A e \in Events, n \in Tries : call[e][n] = NoCall /\ runs[e][n] = 0
  BY DEF IntakeInit
<1>6. \A e \in Events : SenderSound(e)
  BY <1>4 DEF SenderSound
<1>7. \A e \in Events, n \in Tries : CallSound(e, n)
  BY <1>5 DEF CallSound, NoCall
<1>8. RunsAreOfReleased
  BY <1>5 DEF RunsAreOfReleased
<1> QED
  BY <1>1, <1>2, <1>3, <1>6, <1>7, <1>8 DEF IntakeInv

(* A step of the versions leaves the intake alone.                         *)
LEMMA VersionsKeepIntake ==
  ASSUME IntakeInv, [Next]_vars, UNCHANGED intakeVars
  PROVE  IntakeInv'
<1>1. StagedInv'
  BY VersionsStep DEF IntakeInv
<1>2. LiveReleased' /\ \A v \in Versions : released[v] \subseteq released'[v]
  BY VersionsRelease DEF IntakeInv
<1>3. UNCHANGED <<post, sender, call, runs>>
  BY DEF intakeVars
<1>4. IntakeTyped'
  BY <1>3 DEF IntakeInv, IntakeTyped
<1>5. \A e \in Events : SenderSound(e)'
  BY <1>3 DEF IntakeInv, SenderSound, HasRun
<1>6. \A e \in Events, n \in Tries :
        call[e][n].v \in 0..MaxVersion /\ runs[e][n] \in 0..MaxVersion
  BY DEF IntakeInv, IntakeTyped, CallState
<1>7. \A e \in Events, n \in Tries : CallSound(e, n)'
  <2> SUFFICES ASSUME NEW e \in Events, NEW n \in Tries
               PROVE  CallSound(e, n)'
    OBVIOUS
  <2>1. call[e][n].v # 0 => call[e][n].v \in Versions
    BY <1>6, VersionsAssumption DEF Versions
  <2>2. call[e][n].v # 0 => released'[call[e][n].v] # {}
    BY <1>2, <2>1 DEF IntakeInv, CallSound
  <2> QED
    BY <1>3, <2>2 DEF IntakeInv, CallSound
<1>8. RunsAreOfReleased'
  <2> SUFFICES ASSUME NEW e \in Events, NEW n \in Tries, runs[e][n] # 0
               PROVE  released'[runs[e][n]] # {}
    BY <1>3 DEF RunsAreOfReleased
  <2>1. runs[e][n] \in Versions
    BY <1>6, VersionsAssumption DEF Versions
  <2> QED
    BY <1>2, <2>1 DEF IntakeInv, RunsAreOfReleased
<1> QED
  BY <1>1, <1>2, <1>4, <1>5, <1>7, <1>8 DEF IntakeInv

PutCall(e, n, r) ==
    /\ call' = [call EXCEPT ![e][n] = r]
    /\ UNCHANGED <<post, sender>>

StoreOrNot(e, n) ==
    runs' = runs \/ runs' = [runs EXCEPT ![e][n] = call[e][n].v]

(* A handler changes its own call, and may store the run of its version.   *)
LEMMA HandlerKeeps ==
  ASSUME IntakeInv, NEW e \in Events, NEW n \in Tries, NEW r \in CallState,
         PutCall(e, n, r), UNCHANGED vars, StoreOrNot(e, n),
         runs' # runs => call[e][n].v # 0,
         r.at \in {"found", "inserted", "answering"} => r.v # 0 /\ Acceptable(post[e]),
         r.v # 0 => released[r.v] # {},
         r.answer \in {400, 401} => ~Acceptable(post[e]),
         runs'[e][n] # 0 => Acceptable(post[e]),
         CommitsFirst /\ (r.at = "answering" \/ r.answer = 201) => runs'[e][n] # 0
  PROVE  IntakeInv'
<1>0. call[e][n].v \in 0..MaxVersion
  BY DEF IntakeInv, IntakeTyped, CallState
<1>1. /\ \A d \in Events, m \in Tries :
            (d # e \/ m # n) => call'[d][m] = call[d][m] /\ runs'[d][m] = runs[d][m]
      /\ call' \in [Events -> [Tries -> CallState]]
      /\ runs' \in [Events -> [Tries -> 0..MaxVersion]]
  <2>1. /\ call \in [Events -> [Tries -> CallState]]
        /\ runs \in [Events -> [Tries -> 0..MaxVersion]]
    BY DEF IntakeInv, IntakeTyped
  <2>2. /\ \A d \in Events, m \in Tries :
              (d # e \/ m # n) => call'[d][m] = call[d][m]
        /\ call' \in [Events -> [Tries -> CallState]]
    BY <2>1 DEF PutCall
  <2>3. CASE runs' = runs
    BY <2>1, <2>2, <2>3
  <2>4. CASE runs' = [runs EXCEPT ![e][n] = call[e][n].v]
    <3> DEFINE v == call[e][n].v
    <3>1. v \in 0..MaxVersion /\ runs' = [runs EXCEPT ![e][n] = v]
      BY <1>0, <2>4
    <3> HIDE DEF v
    <3>2. /\ \A d \in Events, m \in Tries :
                (d # e \/ m # n) => runs'[d][m] = runs[d][m]
          /\ runs' \in [Events -> [Tries -> 0..MaxVersion]]
      BY <2>1, <3>1
    <3> QED
      BY <2>2, <3>2
  <2> QED
    BY <2>3, <2>4 DEF StoreOrNot
<1>2. runs'[e][n] = runs[e][n] \/ (runs'[e][n] = call[e][n].v /\ call[e][n].v # 0)
  BY DEF IntakeInv, IntakeTyped, StoreOrNot
<1>3. \A d \in Events : HasRun(d) => HasRun(d)'
  BY <1>1, <1>2 DEF HasRun
<1>4. UNCHANGED <<status, released, content, client, seeded, everStaged>>
  BY DEF vars
<1>5. StagedInv' /\ LiveReleased'
  BY <1>4, VersionsStep DEF IntakeInv, LiveReleased, vars
<1>6. IntakeTyped'
  BY <1>1 DEF IntakeInv, IntakeTyped, PutCall
<1>7. \A d \in Events : SenderSound(d)'
  BY <1>3 DEF PutCall, IntakeInv, SenderSound
<1>8. ASSUME NEW d \in Events, NEW m \in Tries
      PROVE  CallSound(d, m)'
  <2>1. CASE d = e /\ m = n
    <3>1. call'[e][n] = r
      BY DEF IntakeInv, IntakeTyped, PutCall
    <3> QED
      BY <1>4, <2>1, <3>1 DEF CallSound, PutCall
  <2>2. CASE d # e \/ m # n
    <3>1. call'[d][m] = call[d][m] /\ runs'[d][m] = runs[d][m]
      BY <1>1, <2>2
    <3>2. CallSound(d, m)
      BY DEF IntakeInv
    <3> QED
      BY <1>4, <3>1, <3>2 DEF CallSound, PutCall
  <2> QED
    BY <2>1, <2>2
<1>9. RunsAreOfReleased'
  <2> SUFFICES ASSUME NEW d \in Events, NEW m \in Tries, runs'[d][m] # 0
               PROVE  released'[runs'[d][m]] # {}
    BY DEF RunsAreOfReleased
  <2>1. CASE runs'[d][m] = runs[d][m]
    BY <1>4, <2>1 DEF IntakeInv, RunsAreOfReleased
  <2>2. CASE runs'[d][m] # runs[d][m]
    <3>1. d = e /\ m = n
      BY <1>1, <2>2
    <3> QED
      BY <1>2, <1>4, <2>2, <3>1 DEF IntakeInv, CallSound
  <2> QED
    BY <2>1, <2>2
<1> QED
  BY <1>5, <1>6, <1>7, <1>8, <1>9 DEF IntakeInv

(* The common case: a stage and an answer change.                          *)
LEMMA MoveKeeps ==
  ASSUME IntakeInv, NEW e \in Events, NEW n \in Tries,
         NEW from, NEW to \in {"inserted", "answering", "ended"},
         NEW answer \in {0, 201, 400, 401, 404, 500},
         Moves(e, n, from, to, answer), UNCHANGED vars,
         StoreOrNot(e, n),
         runs' # runs => call[e][n].v # 0,
         to \in {"inserted", "answering"} =>
            call[e][n].v # 0 /\ Acceptable(post[e]),
         answer \in {400, 401} => ~Acceptable(post[e]),
         runs'[e][n] # 0 => Acceptable(post[e]),
         CommitsFirst /\ (to = "answering" \/ answer = 201) => runs'[e][n] # 0
  PROVE  IntakeInv'
<1> DEFINE r == [at |-> to, v |-> call[e][n].v, answer |-> answer]
<1>1. call[e][n].v \in 0..MaxVersion
  BY DEF IntakeInv, IntakeTyped, CallState
<1>2. r \in CallState
  BY <1>1 DEF CallState
<1>3. PICK q \in CallState : q = r
  BY <1>2
<1>4. PutCall(e, n, q)
  BY <1>3 DEF Moves, PutCall
<1>5. q.at = to /\ q.v = call[e][n].v /\ q.answer = answer
  BY <1>3
<1>6. call[e][n].v # 0 => released[call[e][n].v] # {}
  BY DEF IntakeInv, CallSound
<1>7. /\ q.at \in {"found", "inserted", "answering"} => q.v # 0 /\ Acceptable(post[e])
      /\ q.v # 0 => released[q.v] # {}
      /\ q.answer \in {400, 401} => ~Acceptable(post[e])
      /\ CommitsFirst /\ (q.at = "answering" \/ q.answer = 201) => runs'[e][n] # 0
  BY <1>5, <1>6
<1> HIDE DEF r
<1> QED
  BY <1>4, <1>7, HandlerKeeps

-----------------------------------------------------------------------------
(* Every step of a handler keeps the invariant.                            *)
LEMMA HandleKeeps ==
  ASSUME IntakeInv, NEW e \in Events, NEW n \in Tries, Handle(e, n), UNCHANGED vars
  PROVE  IntakeInv'
<1>0. /\ CallSound(e, n)
      /\ call[e][n].v \in 0..MaxVersion
      /\ call[e][n].answer \in {0, 201, 400, 401, 404, 500}
  BY DEF IntakeInv, IntakeTyped, CallState
<1>1. CASE Unsigned(e, n)
  <2>1. ~Acceptable(post[e]) /\ StoreOrNot(e, n) /\ runs' = runs
    BY <1>1 DEF Unsigned, Acceptable, StoreOrNot
  <2>2. CASE Moves(e, n, "received", "ended", 401)
    BY <1>0, <2>1, <2>2, MoveKeeps DEF CallSound
  <2>3. CASE Moves(e, n, "received", "ended", 500)
    BY <1>0, <2>1, <2>3, MoveKeeps DEF CallSound
  <2>4. CASE post[e].signature = "odd"
    BY <1>1, <2>3, <2>4 DEF Unsigned
  <2>5. CASE post[e].signature # "odd"
    BY <1>1, <2>2, <2>5 DEF Unsigned
  <2> QED
    BY <2>4, <2>5
<1>2. CASE Malformed(e, n)
  <2>1. ~Acceptable(post[e]) /\ StoreOrNot(e, n) /\ runs' = runs
    BY <1>2 DEF Malformed, Acceptable, StoreOrNot
  <2>2. Moves(e, n, "received", "ended", 400)
    BY <1>2 DEF Malformed
  <2> QED
    BY <1>0, <2>1, <2>2, MoveKeeps DEF CallSound
<1>3. ASSUME NEW v \in Versions, LookUp(e, n, v)
      PROVE  IntakeInv'
  <2>0. v \in 0..MaxVersion
    BY VersionsAssumption DEF Versions
  <2>1. PICK q \in CallState : q = [at |-> "found", v |-> v, answer |-> 0]
    BY ZenonT(60), <2>0 DEF CallState
  <2>2. PutCall(e, n, q) /\ StoreOrNot(e, n) /\ runs' = runs
    BY <1>3, <2>1 DEF LookUp, PutCall, StoreOrNot
  <2>3. Acceptable(post[e]) /\ Matches(post[e]) = {v}
    BY <1>3 DEF LookUp
  <2>4. status[v] = "production"
    BY <2>3 DEF Matches
  <2>5. released[v] # {} /\ v # 0
    BY <2>4, VersionsAssumption DEF IntakeInv, LiveReleased, Versions
  <2>6. q.at = "found" /\ q.v = v /\ q.answer = 0
    BY <2>1
  <2> QED
    BY <2>2, <2>3, <2>5, <2>6, HandlerKeeps
<1>4. CASE NotFound(e, n) \/ Ambiguous(e, n)
  <2>1. Acceptable(post[e]) /\ StoreOrNot(e, n) /\ runs' = runs
    BY <1>4 DEF NotFound, Ambiguous, StoreOrNot
  <2>2. \/ Moves(e, n, "received", "ended", 404)
        \/ Moves(e, n, "received", "ended", 500)
    BY <1>4 DEF NotFound, Ambiguous
  <2> QED
    BY <2>1, <2>2, MoveKeeps
<1>5. CASE InsertRun(e, n)
  <2>1. StoreOrNot(e, n) /\ runs' = runs
    BY <1>5 DEF InsertRun, StoreOrNot
  <2>2. Moves(e, n, "found", "inserted", 0)
    BY <1>5 DEF InsertRun
  <2>3. call[e][n].v # 0 /\ Acceptable(post[e])
    BY <1>0, <2>2 DEF CallSound, Moves
  <2> QED
    BY <2>1, <2>2, <2>3, MoveKeeps
<1>6. CASE CommitRun(e, n)
  <2>1. /\ StoreOrNot(e, n)
        /\ runs' = [runs EXCEPT ![e][n] = call[e][n].v]
    BY <1>6 DEF CommitRun, StoreOrNot
  <2>2. Moves(e, n, CommitsAt, Then[CommitsAt], call[e][n].answer)
    BY <1>6 DEF CommitRun
  <2>3. call[e][n].v # 0 /\ Acceptable(post[e])
    BY <1>0, <2>2 DEF CallSound, Moves, CommitsAt
  <2>4. runs'[e][n] # 0
    BY <2>1, <2>3 DEF IntakeInv, IntakeTyped
  <2>5. Then[CommitsAt] \in {"answering", "ended"}
    BY DEF Then, CommitsAt
  <2>6. call[e][n].answer \in {400, 401} => ~Acceptable(post[e])
    BY <1>0 DEF CallSound
  <2>7. PICK to, answer : to = Then[CommitsAt] /\ answer = call[e][n].answer
    OBVIOUS
  <2>8. Moves(e, n, CommitsAt, to, answer)
    BY <2>2, <2>7
  <2>9. /\ to \in {"inserted", "answering", "ended"}
        /\ answer \in {0, 201, 400, 401, 404, 500}
        /\ answer \in {400, 401} => ~Acceptable(post[e])
    BY <1>0, <2>5, <2>6, <2>7
  <2>10. StoreOrNot(e, n)
    BY <2>1
  <2> QED
    BY <2>3, <2>4, <2>8, <2>9, <2>10, MoveKeeps
<1>7. CASE Answer(e, n)
  <2>1. StoreOrNot(e, n) /\ runs' = runs
    BY <1>7 DEF Answer, StoreOrNot
  <2>2. Moves(e, n, AnswersAt, Then[AnswersAt], 201)
    BY <1>7 DEF Answer
  <2>3. call[e][n].v # 0 /\ Acceptable(post[e])
    BY <1>0, <2>2 DEF CallSound, Moves, AnswersAt
  <2>4. CommitsFirst => runs[e][n] # 0
    BY <1>0, <2>2 DEF CallSound, Moves, AnswersAt
  <2>5. Then[AnswersAt] \in {"answering", "ended"}
    BY DEF Then, AnswersAt
  <2>6. PICK to : to = Then[AnswersAt]
    OBVIOUS
  <2>7. Moves(e, n, AnswersAt, to, 201) /\ to \in {"inserted", "answering", "ended"}
    BY <2>2, <2>5, <2>6
  <2>8. runs'[e][n] # 0 => Acceptable(post[e])
    BY <2>3
  <2> QED
    BY <2>1, <2>3, <2>4, <2>7, <2>8, MoveKeeps
<1>8. CASE Fails(e, n)
  <2>1. StoreOrNot(e, n) /\ runs' = runs
    BY <1>8 DEF Fails, StoreOrNot
  <2>2. \E from, answer :
          /\ Moves(e, n, from, "ended", answer)
          /\ answer = 500 \/ (answer = 201 /\ ~CommitsFirst)
    BY <1>8 DEF Fails
  <2>3. PICK from, answer :
          /\ Moves(e, n, from, "ended", answer)
          /\ answer = 500 \/ (answer = 201 /\ ~CommitsFirst)
    BY <2>2
  <2>4. runs'[e][n] # 0 => Acceptable(post[e])
    BY <1>0, <2>1 DEF CallSound
  <2>5. answer \in {0, 201, 400, 401, 404, 500} /\ answer \notin {400, 401}
    BY <2>3
  <2>6. CommitsFirst => answer # 201
    BY <2>3
  <2> QED
    BY <2>1, <2>3, <2>4, <2>5, <2>6, MoveKeeps
<1>9. CASE Dies(e, n)
  <2>1. StoreOrNot(e, n) /\ runs' = runs
    BY <1>9 DEF Dies, StoreOrNot
  <2>2. Moves(e, n, call[e][n].at, "ended", call[e][n].answer)
    BY <1>9 DEF Dies
  <2> QED
    BY <1>0, <2>1, <2>2, MoveKeeps DEF CallSound
<1> QED
  BY <1>1, <1>2, <1>3, <1>4, <1>5, <1>6, <1>7, <1>8, <1>9 DEF Handle

CallsSound == \A e \in Events, n \in Tries : CallSound(e, n)
CallsTyped == call \in [Events -> [Tries -> CallState]]
SenderState ==
    [tries : 0..MaxTries, waits : BOOLEAN, told : {0, 201, 400, 401, 404, 500}]
SenderTyped == sender \in [Events -> SenderState]
PutSender(e, r) == sender' = [sender EXCEPT ![e] = r]

(* A sender's record may change as long as it stays truthful.              *)
LEMMA BecomesKeeps ==
  ASSUME IntakeInv, NEW e \in Events, NEW r \in SenderState,
         PutSender(e, r), UNCHANGED <<post, runs>>, UNCHANGED vars,
         CallsTyped', CallsSound',
         r.waits => r.tries \in Tries /\ r.told = 0,
         CommitsFirst /\ r.told = 201 => HasRun(e),
         r.told \in {400, 401} => ~Acceptable(post[e])
  PROVE  IntakeInv'
<1>1. UNCHANGED <<status, released, content, client, seeded, everStaged>>
  BY DEF vars
<1>2. StagedInv' /\ LiveReleased'
  BY <1>1, VersionsStep DEF IntakeInv, LiveReleased, vars
<1>3. RunsAreOfReleased' /\ \A d \in Events : HasRun(d) <=> HasRun(d)'
  BY <1>1 DEF IntakeInv, RunsAreOfReleased, HasRun
<1>4. SenderTyped
  BY DEF IntakeInv, IntakeTyped, SenderTyped, SenderState
<1>5. SenderTyped'
  BY <1>4 DEF SenderTyped, PutSender
<1>6. IntakeTyped'
  BY <1>5 DEF IntakeInv, IntakeTyped, SenderTyped, SenderState, CallsTyped
<1>7. ASSUME NEW d \in Events
      PROVE  SenderSound(d)'
  <2>1. CASE d = e
    <3>1. sender'[e] = r
      BY <1>4 DEF SenderTyped, PutSender
    <3> QED
      BY <1>3, <2>1, <3>1 DEF SenderSound
  <2>2. CASE d # e
    <3>1. sender'[d] = sender[d] /\ SenderSound(d)
      BY <1>4, <2>2 DEF SenderTyped, PutSender, IntakeInv
    <3> QED
      BY <1>3, <3>1 DEF SenderSound
  <2> QED
    BY <2>1, <2>2
<1> QED
  BY <1>2, <1>3, <1>6, <1>7 DEF IntakeInv, CallsSound

(* A sender that waits no longer.                                          *)
LEMMA Silent ==
  ASSUME NEW e, NEW t \in 0..MaxTries, NEW a \in {0, 201, 400, 401, 404, 500}
  PROVE  \E r \in SenderState :
            r = [tries |-> t, waits |-> FALSE, told |-> a] /\ ~r.waits /\ r.told = a
<1>1. PICK w \in BOOLEAN : w = FALSE
  OBVIOUS
<1>0. [tries |-> t, waits |-> w, told |-> a] \in SenderState
  BY DEF SenderState
<1>2. PICK r \in SenderState : r = [tries |-> t, waits |-> w, told |-> a]
  BY <1>0
<1>3. r = [tries |-> t, waits |-> FALSE, told |-> a]
  BY <1>1, <1>2
<1>4. r.waits = w /\ r.told = a
  BY <1>2
<1> QED
  BY <1>1, <1>2, <1>3, <1>4

(* And every step of a sender.                                             *)
LEMMA SenderKeeps ==
  ASSUME IntakeInv, NEW e \in Events, Deliver(e) \/ Hear(e) \/ GiveUp(e),
         UNCHANGED vars
  PROVE  IntakeInv'
<1>1. UNCHANGED <<post, runs>> /\ UNCHANGED <<status, released>>
  BY DEF Deliver, Hear, GiveUp, vars
<1>2. /\ SenderTyped /\ CallsTyped
      /\ CallsSound /\ SenderSound(e)
  BY DEF IntakeInv, IntakeTyped, SenderTyped, SenderState, CallsTyped, CallsSound
<1>3. ASSUME UNCHANGED call
      PROVE  CallsTyped' /\ CallsSound'
  BY <1>1, <1>2, <1>3 DEF CallsTyped, CallsSound, CallSound
<1>4. sender[e].tries \in 0..MaxTries /\ sender[e].told \in {0, 201, 400, 401, 404, 500}
  BY <1>2 DEF SenderTyped, SenderState
<1>5. CASE Deliver(e)
  <2> DEFINE n == sender[e].tries + 1
  <2>0. n \in Tries /\ n \in 0..MaxTries
    BY <1>4, <1>5, IntakeAssumption DEF Deliver, Tries
  <2>1. /\ Becomes(e, n, TRUE, 0)
        /\ call' = [call EXCEPT ![e][n] = Received]
    BY <1>5 DEF Deliver
  <2> HIDE DEF n
  <2>6. PICK r \in SenderState : r = [tries |-> n, waits |-> TRUE, told |-> 0]
    BY ZenonT(60), <2>0 DEF SenderState
  <2>7. /\ PutSender(e, r)
        /\ r.waits => r.tries \in Tries
        /\ r.told = 0
    BY <2>0, <2>1, <2>6 DEF PutSender, Becomes
  <2>2. Received \in CallState
    BY VersionsAssumption DEF Received, CallState
  <2>3. CallsTyped'
    BY <1>2, <2>0, <2>1, <2>2 DEF CallsTyped
  <2>4. ASSUME NEW d \in Events, NEW m \in Tries
        PROVE  CallSound(d, m)'
    <3>1. call'[d][m] = call[d][m] \/ call'[d][m] = Received
      BY <1>2, <2>0, <2>1 DEF CallsTyped
    <3>2. CallSound(d, m)
      BY <1>2 DEF CallsSound
    <3> QED
      BY <1>1, <3>1, <3>2 DEF CallSound, Received
  <2>5. CallsSound'
    BY <2>4 DEF CallsSound
  <2> QED
    BY <1>1, <2>3, <2>5, <2>7, BecomesKeeps
<1>6. CASE Hear(e)
  <2>1. sender[e].tries \in Tries
    BY <1>2, <1>6 DEF Hear, SenderSound
  <2> DEFINE a == call[e][sender[e].tries].answer
  <2>a. a \in {0, 201, 400, 401, 404, 500}
    BY <1>2, <2>1 DEF CallsTyped, CallState
  <2>b. Becomes(e, sender[e].tries, FALSE, a)
    BY <1>6 DEF Hear
  <2>c. PICK r \in SenderState :
          /\ r = [tries |-> sender[e].tries, waits |-> FALSE, told |-> a]
          /\ ~r.waits /\ r.told = a
    BY <1>4, <2>a, Silent
  <2>2. PutSender(e, r) /\ ~r.waits /\ r.told = a
    BY <2>b, <2>c DEF Becomes, PutSender
  <2>3. CallSound(e, sender[e].tries)
    BY <1>2, <2>1 DEF CallsSound
  <2>4. /\ CommitsFirst /\ a = 201 => HasRun(e)
        /\ a \in {400, 401} => ~Acceptable(post[e])
    BY <2>1, <2>3 DEF CallSound, HasRun
  <2>5. CallsTyped' /\ CallsSound'
    BY <1>3, <1>6 DEF Hear
  <2> QED
    BY <1>1, <2>2, <2>4, <2>5, BecomesKeeps
<1>7. CASE GiveUp(e)
  <2>1. Becomes(e, sender[e].tries, FALSE, sender[e].told)
    BY <1>7 DEF GiveUp
  <2>4. PICK r \in SenderState :
          /\ r = [tries |-> sender[e].tries, waits |-> FALSE, told |-> sender[e].told]
          /\ ~r.waits /\ r.told = sender[e].told
    BY <1>4, Silent
  <2>5. PutSender(e, r) /\ ~r.waits /\ r.told = sender[e].told
    BY <2>1, <2>4 DEF Becomes, PutSender
  <2>2. /\ CommitsFirst /\ sender[e].told = 201 => HasRun(e)
        /\ sender[e].told \in {400, 401} => ~Acceptable(post[e])
    BY <1>2 DEF SenderSound
  <2>3. CallsTyped' /\ CallsSound'
    BY <1>3, <1>7 DEF GiveUp
  <2> QED
    BY <1>1, <2>2, <2>3, <2>5, BecomesKeeps
<1> QED
  BY <1>5, <1>6, <1>7

(* Every step of a delivery or of a workflow's routes keeps the invariant. *)
LEMMA IntakeStep == IntakeInv /\ [IntakeNext]_<<vars, intakeVars>> => IntakeInv'
<1> SUFFICES ASSUME IntakeInv, [IntakeNext]_<<vars, intakeVars>>
             PROVE  IntakeInv'
    OBVIOUS
<1>1. CASE Intake /\ UNCHANGED vars
  BY <1>1, SenderKeeps, HandleKeeps DEF Intake
<1>2. CASE [Next]_vars /\ UNCHANGED intakeVars
  BY <1>2, VersionsKeepIntake
<1> QED
  BY <1>1, <1>2 DEF IntakeNext

-----------------------------------------------------------------------------
(***************************************************************************)
(* With the commit first, the intake implements EventInbox.                *)
(***************************************************************************)
HadRun == {d \in Events : HasRun(d)}
ToldStored == {d \in Events : sender[d].told = 201}
ToldBad == {d \in Events : sender[d].told \in {400, 401}}

(* What a sender hears confirms, rejects or says nothing.                  *)
LEMMA SenderImplements ==
  ASSUME CommitsFirst, IntakeInv, NEW e \in Events, Deliver(e) \/ Hear(e) \/ GiveUp(e)
  PROVE  [Inbox!InboxNext]_(Inbox!inboxVars)
<1>1. HadRun' = HadRun
  BY DEF Deliver, Hear, GiveUp, HadRun, HasRun
<1>2. /\ sender \in [Events -> SenderState]
      /\ SenderSound(e)
  BY DEF IntakeInv, IntakeTyped, SenderState
<1>3. /\ \A d \in Events \ {e} : sender'[d] = sender[d]
      /\ \/ sender'[e].told = 0 /\ sender[e].told \in {0, 500}
         \/ /\ sender'[e].told = call[e][sender[e].tries].answer
            /\ sender[e].waits /\ call[e][sender[e].tries].answer # 0
         \/ sender'[e].told = sender[e].told
  BY <1>2 DEF Deliver, Hear, GiveUp, Becomes
<1>4. CASE sender'[e].told = sender[e].told \/ sender'[e].told \notin {201, 400, 401}
  <2>1. sender'[e].told = sender[e].told \/ sender[e].told \notin {201, 400, 401}
    BY <1>2, <1>3 DEF SenderSound
  <2>2. ToldStored' = ToldStored /\ ToldBad' = ToldBad
    BY <1>3, <1>4, <2>1 DEF ToldStored, ToldBad
  <2> QED
    BY <1>1, <2>2 DEF Inbox!inboxVars, HadRun, ToldStored, ToldBad
<1>5. CASE sender'[e].told # sender[e].told /\ sender'[e].told \in {201, 400, 401}
  <2>1. /\ sender[e].waits /\ sender[e].told = 0
        /\ sender'[e].told = call[e][sender[e].tries].answer
    BY <1>2, <1>3, <1>5 DEF SenderSound
  <2>2. sender[e].tries \in Tries /\ CallSound(e, sender[e].tries)
    BY <1>2, <2>1 DEF SenderSound, IntakeInv
  <2>3. CASE sender'[e].told = 201
    <3>1. e \in HadRun
      BY <2>1, <2>2, <2>3 DEF CallSound, HadRun, HasRun
    <3>2. ToldStored' = ToldStored \cup {e} /\ ToldBad' = ToldBad
      BY <1>3, <2>1, <2>3 DEF ToldStored, ToldBad
    <3>3. Inbox!Confirm(e)
      BY <1>1, <3>1, <3>2 DEF Inbox!Confirm, HadRun, ToldStored, ToldBad
    <3> QED
      BY <3>3 DEF Inbox!InboxNext
  <2>4. CASE sender'[e].told \in {400, 401}
    <3>1. ~Acceptable(post[e])
      BY <2>1, <2>2, <2>4 DEF CallSound
    <3>2. e \notin HadRun
      BY <3>1 DEF HadRun, HasRun, IntakeInv, CallSound
    <3>3. ToldBad' = ToldBad \cup {e} /\ ToldStored' = ToldStored
      BY <1>3, <2>1, <2>4 DEF ToldStored, ToldBad
    <3>4. Inbox!Reject(e)
      BY <1>1, <3>2, <3>3 DEF Inbox!Reject, HadRun, ToldStored, ToldBad
    <3> QED
      BY <3>4 DEF Inbox!InboxNext
  <2> QED
    BY <1>5, <2>3, <2>4
<1> QED
  BY <1>4, <1>5

(* A handler stores the event's run or leaves what is stored alone.        *)
LEMMA HandlerImplements ==
  ASSUME IntakeInv, IntakeInv', NEW e \in Events, NEW n \in Tries, Handle(e, n)
  PROVE  [Inbox!InboxNext]_(Inbox!inboxVars)
<1>1. UNCHANGED <<post, sender>> /\ StoreOrNot(e, n)
  BY DEF Handle, Unsigned, Malformed, LookUp, NotFound, Ambiguous, InsertRun, CommitRun,
         Answer, Fails, Dies, Moves, StoreOrNot
<1>2. ToldStored' = ToldStored /\ ToldBad' = ToldBad
  BY <1>1 DEF ToldStored, ToldBad
<1>3. CASE HadRun' = HadRun
  BY <1>2, <1>3 DEF Inbox!inboxVars, HadRun, ToldStored, ToldBad
<1>4. CASE HadRun' # HadRun
  <2>1. runs \in [Events -> [Tries -> 0..MaxVersion]]
    BY DEF IntakeInv, IntakeTyped
  <2>2. runs' = [runs EXCEPT ![e][n] = call[e][n].v]
    BY <1>1, <1>4 DEF StoreOrNot, HadRun, HasRun
  <2>3. \A d \in Events \ {e} : HasRun(d)' <=> HasRun(d)
    BY <2>1, <2>2 DEF HasRun
  <2>4. \A m \in Tries \ {n} : runs'[e][m] = runs[e][m]
    BY <2>1, <2>2
  <2>5. runs[e][n] # 0 => e \in HadRun
    BY DEF HadRun, HasRun
  <2>6. runs'[e][n] # 0 \/ runs[e][n] # 0
    BY <1>4, <2>3, <2>4 DEF HadRun, HasRun
  <2>7. Acceptable(post[e])
    BY <1>1, <2>6 DEF IntakeInv, CallSound
  <2>8. e \notin ToldBad
    BY <2>7 DEF IntakeInv, SenderSound, ToldBad
  <2>9. HadRun' = HadRun \cup {e}
    <3>1. CASE runs'[e][n] # 0
      BY <2>3, <3>1 DEF HadRun, HasRun
    <3>2. CASE runs'[e][n] = 0
      <4>1. call[e][n].v = 0 /\ runs[e][n] # 0
        BY <2>1, <2>2, <2>6, <3>2
      <4>2. CommitRun(e, n)
        BY <2>1, <2>2, <3>2, <4>1
           DEF Handle, Unsigned, Malformed, LookUp, NotFound, Ambiguous, InsertRun,
               Answer, Fails, Dies
      <4> QED
        BY <4>1, <4>2 DEF CommitRun, Moves, CommitsAt, IntakeInv, CallSound
    <3> QED
      BY <3>1, <3>2
  <2>10. Inbox!Store(e)
    BY <1>2, <2>8, <2>9 DEF Inbox!Store, HadRun, ToldStored, ToldBad
  <2> QED
    BY <2>10 DEF Inbox!InboxNext
<1> QED
  BY <1>3, <1>4

(* When the commit comes before the answer, what a sender is told is true  *)
(* and stays so, whatever is lost, repeated, refused or cut off.           *)
THEOREM IntakeImplementsInbox ==
  ASSUME CommitsFirst
  PROVE  IntakeSpec => ImplementsInbox
<1>1. Init /\ IntakeInit => Inbox!InboxInit
  BY DEF IntakeInit, Inbox!InboxInit, HasRun
<1>2. IntakeInv /\ IntakeInv' /\ [IntakeNext]_<<vars, intakeVars>>
        => [Inbox!InboxNext]_(Inbox!inboxVars)
  <2> SUFFICES ASSUME IntakeInv, IntakeInv', [IntakeNext]_<<vars, intakeVars>>
               PROVE  [Inbox!InboxNext]_(Inbox!inboxVars)
      OBVIOUS
  <2>1. CASE Intake
    BY <2>1, SenderImplements, HandlerImplements DEF Intake
  <2>2. CASE UNCHANGED intakeVars
    BY <2>2 DEF intakeVars, Inbox!inboxVars, HasRun
  <2> QED
    BY <2>1, <2>2 DEF IntakeNext
<1> QED
  BY <1>1, <1>2, IntakeStarts, IntakeStep, PTL DEF IntakeSpec, ImplementsInbox, Inbox!Inbox

(* A webhook's run is of a version that was released, whatever happened to *)
(* that version while the request was handled.                             *)
THEOREM WebhookRunsReleased == IntakeSpec => []RunsAreOfReleased
<1>1. IntakeInv => RunsAreOfReleased
  BY DEF IntakeInv
<1> QED
  BY <1>1, IntakeStarts, IntakeStep, PTL DEF IntakeSpec

-----------------------------------------------------------------------------
(***************************************************************************)
(* The records of tools.  A tool's row appears with its one registration   *)
(* and never goes away; a name that is being written is locked, so what a  *)
(* handler made sure of before it wrote still holds when it commits.       *)
(***************************************************************************)

(* The parts of MCRequests share no state but the versions.                *)
THEOREM RequestsAreParts ==
    RequestsSpec => IntakeSpec /\ Record!RecordsSpec
<1>1. RequestsInit => Init /\ IntakeInit /\ Record!RecordsInit
  BY DEF RequestsInit
<1> DEFINE all == <<part, vars, intakeVars, recordVars>>
<1>2. [RequestsNext]_all => [IntakeNext]_<<vars, intakeVars>>
  BY DEF RequestsNext, VersionsNext, WebhooksNext, ToolsNext, IntakeNext
<1>3. [RequestsNext]_all => [Record!RecordsNext]_(Record!recordVars)
  BY DEF RequestsNext, VersionsNext, WebhooksNext, ToolsNext, recordVars,
         Record!recordVars
<1> QED
  BY <1>1, <1>2, <1>3, PTL DEF RequestsSpec, IntakeSpec, Record!RecordsSpec

Owned == Names \ SystemTools

EventRecord ==
    [type : {"tool_registered", "tool_updated"}, name : Names,
     sets : Record!Updates]

RecordsShaped ==
    /\ tools \in [Names -> Record!Row \cup {Record!Absent}]
    /\ audit \in Seq(EventRecord)
    /\ request \in [Clients -> Record!Requests \cup {Record!NoRequest}]

(* What a handler read that goes on: a tool to change or refresh is there, *)
(* and a name to register is free while the handler has written it.        *)
Prepared(c) ==
    request[c] # Record!NoRequest =>
        LET r == request[c]
        IN  /\ r.kind # "register" /\ r.at \in {"read", "written"} =>
                   tools[r.name] # Record!Absent /\ r.read # Record!Absent
            /\ r.kind = "register" /\ r.at = "written" =>
                   tools[r.name] = Record!Absent

(* Two handlers have written the same row at no time.                      *)
OneWriter ==
    \A c, d \in Clients :
        /\ c # d
        /\ Record!At(c, "written") /\ Record!At(d, "written")
        /\ Record!TouchesRow(request[c]) /\ Record!TouchesRow(request[d])
        => request[c].name # request[d].name

(* A tool is what the audit tells: registered once, and each field as the  *)
(* last entry that names it set it.                                        *)
Told(t) ==
    IF tools[t] = Record!Absent THEN Record!Registrations(t) = {}
    ELSE /\ \E i \in DOMAIN audit : Record!Registrations(t) = {i}
         /\ \A f \in Fields :
              \E i \in Record!Naming(t, f) :
                  /\ \A j \in Record!Naming(t, f) : j <= i
                  /\ tools[t].fields[f] = audit[i].sets[f]

RecordsInv ==
    /\ RecordsShaped /\ OneWriter
    /\ \A c \in Clients : Prepared(c)
    /\ \A t \in Owned : Told(t)

(* A body sets some of the fields.                                         *)
LEMMA UpdateFields ==
    ASSUME NEW fs \in Record!Updates
    PROVE  /\ DOMAIN fs \subseteq Fields
           /\ \A f \in DOMAIN fs : fs[f] \in Record!Values
           /\ Record!Fresh(fs) \in [Fields -> Record!Values]
           /\ Record!Fresh(fs) \in Record!Updates
  <1>1. PICK ds \in SUBSET Fields : fs \in [ds -> Record!Values]
    BY DEF Record!Updates
  <1>2. DOMAIN fs = ds /\ \A f \in DOMAIN fs : fs[f] \in Record!Values
    BY <1>1
  <1>3. Record!Fresh(fs) \in [Fields -> Record!Values]
    BY <1>2 DEF Record!Fresh, Record!Values
  <1>4. Record!Fresh(fs) \in Record!Updates
    <2>1. Fields \in SUBSET Fields
      OBVIOUS
    <2> QED
      BY <1>3, <2>1 DEF Record!Updates
  <1> QED
    BY <1>1, <1>2, <1>3, <1>4

(* What a request that has written leaves behind: a row with the fields of *)
(* its body, and the others as they are.                                   *)
LEMMA WrittenRow ==
    ASSUME RecordsShaped, NEW c \in Clients, Prepared(c), Record!At(c, "written"),
           NEW r, r = request[c]
    PROVE  /\ r \in Record!Requests
           /\ Record!Written(r) \in Record!Row
           /\ r.kind = "register" =>
                  Record!Written(r).fields = Record!Fresh(r.sets)
           /\ r.kind # "register" =>
                  \A f \in Fields :
                      Record!Written(r).fields[f] =
                          IF r.kind = "update" /\ f \in DOMAIN r.sets THEN r.sets[f]
                          ELSE tools[r.name].fields[f]
  <1>1. r \in Record!Requests /\ r.at = "written"
    BY DEF RecordsShaped, Record!At
  <1>2. /\ r.kind \in {"register", "update", "refresh"} /\ r.name \in Names
        /\ r.org \in Orgs /\ r.sets \in Record!Updates
        /\ r.read \in Record!Row \cup {Record!Absent}
    BY <1>1 DEF Record!Requests, Record!RequestKinds
  <1>3. /\ DOMAIN r.sets \subseteq Fields
        /\ \A f \in DOMAIN r.sets : r.sets[f] \in Record!Values
        /\ Record!Fresh(r.sets) \in [Fields -> Record!Values]
    BY <1>2, UpdateFields
  <1>4. CASE r.kind = "register"
    <2>1. Record!Written(r) = [org |-> r.org, health |-> "healthy",
                               fields |-> Record!Fresh(r.sets)]
      BY <1>4 DEF Record!Written
    <2> QED
      BY <1>1, <1>2, <1>3, <1>4, <2>1 DEF Record!Row, Record!Healths
  <1>5. ASSUME r.kind # "register"
        PROVE  tools[r.name] \in Record!Row
    <2>1. tools[r.name] # Record!Absent
      BY <1>1, <1>5 DEF Prepared, Record!At
    <2> QED
      BY <1>2, <2>1 DEF RecordsShaped
  <1>6. CASE r.kind = "update"
    <2> DEFINE new == [f \in Fields |-> IF f \in DOMAIN r.sets THEN r.sets[f]
                                       ELSE tools[r.name].fields[f]]
    <2>1. Record!Written(r) = [tools[r.name] EXCEPT !.fields = new]
      BY <1>6 DEF Record!Written
    <2>2. new \in [Fields -> Record!Values]
      BY <1>3, <1>5, <1>6 DEF Record!Row
    <2> HIDE DEF new
    <2>3. Record!Written(r) \in Record!Row /\ Record!Written(r).fields = new
      BY <1>5, <1>6, <2>1, <2>2 DEF Record!Row
    <2> QED
      BY <1>1, <1>6, <2>3 DEF new
  <1>7. CASE r.kind = "refresh"
    <2>1. Record!Written(r) = [tools[r.name] EXCEPT !.health = r.read.health]
      BY <1>7 DEF Record!Written
    <2>2. r.read.health \in Record!Healths
      <3>1. r.read # Record!Absent
        BY <1>1, <1>7 DEF Prepared, Record!At
      <3> QED
        BY <1>2, <3>1 DEF Record!Row
    <2> QED
      BY <1>1, <1>5, <1>7, <2>1, <2>2 DEF Record!Row
  <1> QED
    BY <1>2, <1>4, <1>6, <1>7

(* The type invariant of the handlers.                                     *)
LEMMA ShapedStep ==
    ASSUME RecordsShaped, \A c \in Clients : Prepared(c), Record!RecordsNext
    PROVE  RecordsShaped'
  <1> USE DEF RecordsShaped
  <1>1. ASSUME NEW c \in Clients, NEW kind \in Record!RequestKinds,
               NEW t \in Names, NEW o \in Orgs, NEW fs \in Bodies \cup {<<>>},
               Record!Begin(c, kind, t, o, fs)
        PROVE  RecordsShaped'
    <2>1. fs \in Record!Updates
      <3>1. <<>> \in [{} -> Record!Values]
        OBVIOUS
      <3>2. {} \in SUBSET Fields
        OBVIOUS
      <3>3. <<>> \in Record!Updates
        BY <3>1, <3>2 DEF Record!Updates
      <3> QED
        BY <3>3, RequestsAssumption DEF Record!RecordsAssumption
    <2>2. [at |-> "begun", kind |-> kind, name |-> t, org |-> o,
           sets |-> fs, read |-> Record!Absent] \in Record!Requests
      BY <2>1 DEF Record!Requests
    <2> QED
      BY <1>1, <2>2 DEF Record!Begin
  <1>2. ASSUME NEW c \in Clients, Record!Refused(c) \/ Record!RolledBack(c)
        PROVE  RecordsShaped'
    BY <1>2 DEF Record!Refused, Record!RolledBack, Record!Ends
  <1>3. ASSUME NEW c \in Clients, Record!Accepted(c)
        PROVE  RecordsShaped'
    <2>1. request[c] \in Record!Requests
      BY <1>3 DEF Record!Accepted, Record!At
    <2>2. tools[request[c].name] \in Record!Row \cup {Record!Absent}
      BY <2>1 DEF Record!Requests
    <2>3. [request[c] EXCEPT !.at = "read", !.read = tools[request[c].name]]
              \in Record!Requests
      BY <2>1, <2>2 DEF Record!Requests
    <2> QED
      BY <1>3, <2>3 DEF Record!Accepted
  <1>4. ASSUME NEW c \in Clients, Record!Write(c)
        PROVE  RecordsShaped'
    <2>1. request[c] \in Record!Requests
      BY <1>4 DEF Record!Write, Record!At
    <2>2. [request[c] EXCEPT !.at = "written"] \in Record!Requests
      BY <2>1 DEF Record!Requests
    <2> QED
      BY <1>4, <2>2 DEF Record!Write, Record!Goes
  <1>5. ASSUME NEW c \in Clients, Record!Commit(c)
        PROVE  RecordsShaped'
    <2>0. PICK r : r = request[c]
      OBVIOUS
    <2>1. /\ r \in Record!Requests
          /\ Record!Written(r) \in Record!Row
      BY <1>5, <2>0, WrittenRow DEF Record!Commit
    <2>2. Record!Event(r) \in EventRecord
      BY <2>1, UpdateFields DEF Record!Requests, Record!Event, EventRecord
    <2>3. /\ \/ tools' = [tools EXCEPT ![r.name] = Record!Written(r)]
             \/ tools' = tools
          /\ audit' = Append(audit, Record!Event(r)) \/ audit' = audit
          /\ request' = [request EXCEPT ![c] = Record!NoRequest]
      BY <1>5, <2>0 DEF Record!Commit, Record!Ends
    <2>4. tools' \in [Names -> Record!Row \cup {Record!Absent}]
      BY <2>1, <2>3
    <2>5. audit' \in Seq(EventRecord)
      BY <2>2, <2>3
    <2> QED
      BY <2>3, <2>4, <2>5
  <1>6. CASE UNCHANGED <<tools, audit, request>>
    BY <1>6
  <1> QED
    BY <1>1, <1>2, <1>3, <1>4, <1>5, <1>6
       DEF Record!RecordsNext, Record!Probe, Record!Persist

(* A tool that is there stays, and a name is taken by nobody while another *)
(* handler has written it.                                                 *)
LEMMA CommitChanges ==
    ASSUME RecordsInv, NEW c \in Clients, Record!Commit(c)
    PROVE  /\ \A t \in Names : tools[t] # Record!Absent => tools'[t] # Record!Absent
           /\ \A t \in Names : tools'[t] # tools[t] => t = request[c].name
           /\ \A d \in Clients \ {c} :
                Record!At(d, "written") /\ request[d].kind = "register" =>
                    tools'[request[d].name] = tools[request[d].name]
  <1>0. PICK r : r = request[c]
    OBVIOUS
  <1>1. /\ Record!At(c, "written") /\ r \in Record!Requests
        /\ Record!Written(r) \in Record!Row /\ r.name \in Names
    BY <1>0, WrittenRow DEF Record!Commit, RecordsInv, Record!Requests
  <1>2. Record!Written(r) # Record!Absent
    <2>1. Record!Written(r).org \in Orgs \cup {"system"}
      BY <1>1 DEF Record!Row
    <2>2. Record!Absent.org = "none"
      BY DEF Record!Absent
    <2> QED
      BY <2>1, <2>2, RequestsAssumption DEF Record!RecordsAssumption
  <1>3. tools' = IF Record!TouchesRow(r)
                 THEN [tools EXCEPT ![r.name] = Record!Written(r)] ELSE tools
    BY <1>0 DEF Record!Commit
  <1>4. tools \in [Names -> Record!Row \cup {Record!Absent}]
    BY DEF RecordsInv, RecordsShaped
  <1>5. ASSUME NEW d \in Clients \ {c}, Record!At(d, "written"),
               request[d].kind = "register"
        PROVE  tools'[request[d].name] = tools[request[d].name]
    <2>1. Record!TouchesRow(request[d])
      BY <1>5 DEF Record!TouchesRow
    <2>2. Record!TouchesRow(r) => request[d].name # r.name
      BY <1>0, <1>1, <1>5, <2>1 DEF RecordsInv, OneWriter
    <2> QED
      BY <1>1, <1>3, <1>4, <2>2
  <1> QED
    BY <1>0, <1>1, <1>2, <1>3, <1>4, <1>5

(* Every step keeps what a request has prepared to write.                  *)
LEMMA PreparedStep ==
    ASSUME RecordsInv, Record!RecordsNext, NEW d \in Clients
    PROVE  Prepared(d)'
  <1> USE DEF RecordsInv, RecordsShaped
  <1>0. Prepared(d)
    OBVIOUS
  <1>1. ASSUME NEW c \in Clients, NEW kind \in Record!RequestKinds,
               NEW t \in Names, NEW o \in Orgs, NEW fs \in Bodies \cup {<<>>},
               Record!Begin(c, kind, t, o, fs)
        PROVE  Prepared(d)'
    BY <1>0, <1>1 DEF Record!Begin, Prepared
  <1>2. ASSUME NEW c \in Clients, Record!Refused(c) \/ Record!RolledBack(c)
        PROVE  Prepared(d)'
    BY <1>0, <1>2 DEF Record!Refused, Record!RolledBack, Record!Ends, Prepared
  <1>3. ASSUME NEW c \in Clients, Record!Accepted(c)
        PROVE  Prepared(d)'
    <2>0. PICK r : r = request[c]
      OBVIOUS
    <2>1. r \in Record!Requests /\ r # Record!NoRequest /\ r.at = "begun"
      BY <1>3, <2>0 DEF Record!Accepted, Record!At
    <2>2. /\ request' = [request EXCEPT ![c] =
                            [r EXCEPT !.at = "read", !.read = tools[r.name]]]
          /\ UNCHANGED tools
          /\ r.kind # "register" => tools[r.name] # Record!Absent
      <3>1. "none" \notin Orgs
        BY RequestsAssumption DEF Record!RecordsAssumption
      <3>2. r.org \in Orgs /\ r.kind \in {"register", "update", "refresh"}
        BY <2>1 DEF Record!Requests, Record!RequestKinds
      <3>3. /\ r.kind = "update" => tools[r.name].org = r.org
            /\ r.kind = "refresh" => tools[r.name].org \in {r.org, "system"}
        BY <1>3, <2>0 DEF Record!Accepted, Record!Visible
      <3>4. r.kind # "register" => tools[r.name] # Record!Absent
        BY <3>1, <3>2, <3>3 DEF Record!Absent
      <3> QED
        BY <1>3, <2>0, <3>4 DEF Record!Accepted
    <2>3. CASE d = c
      <3> DEFINE new == [r EXCEPT !.at = "read", !.read = tools[r.name]]
      <3>1. /\ new.at = "read" /\ new.kind = r.kind /\ new.name = r.name
            /\ new.read = tools[r.name]
        BY <2>1 DEF Record!Requests
      <3>2. request'[d] = new
        BY <2>2, <2>3
      <3> HIDE DEF new
      <3> QED
        BY <2>2, <3>1, <3>2 DEF Prepared
    <2>4. CASE d # c
      BY <1>0, <2>2, <2>4 DEF Prepared
    <2> QED
      BY <2>3, <2>4
  <1>4. ASSUME NEW c \in Clients, Record!Write(c)
        PROVE  Prepared(d)'
    <2>0. PICK r : r = request[c]
      OBVIOUS
    <2>1. r \in Record!Requests /\ r # Record!NoRequest /\ r.at = "read"
      BY <1>4, <2>0 DEF Record!Write, Record!At
    <2>2. /\ request' = [request EXCEPT ![c] = [r EXCEPT !.at = "written"]]
          /\ UNCHANGED tools
          /\ r.kind = "register" => tools[r.name] = Record!Absent
      BY <1>4, <2>0 DEF Record!Write, Record!Goes, Record!Storable
    <2>3. CASE d = c
      <3> DEFINE new == [r EXCEPT !.at = "written"]
      <3>1. /\ new.kind = r.kind /\ new.name = r.name /\ new.read = r.read
        BY <2>1 DEF Record!Requests
      <3>2. request'[d] = new
        BY <2>2, <2>3
      <3>3. /\ r.kind # "register" =>
                  tools[r.name] # Record!Absent /\ r.read # Record!Absent
        BY <1>0, <2>0, <2>1, <2>3 DEF Prepared
      <3> HIDE DEF new
      <3> QED
        BY <2>2, <3>1, <3>2, <3>3 DEF Prepared
    <2>4. CASE d # c
      BY <1>0, <2>2, <2>4 DEF Prepared
    <2> QED
      BY <2>3, <2>4
  <1>5. ASSUME NEW c \in Clients, Record!Commit(c)
        PROVE  Prepared(d)'
    <2>1. request' = [request EXCEPT ![c] = Record!NoRequest]
      BY <1>5 DEF Record!Commit, Record!Ends
    <2>2. CASE d = c
      BY <2>1, <2>2 DEF Prepared
    <2>3. ASSUME d # c, request[d] # Record!NoRequest
          PROVE  Prepared(d)'
      <3>1. request'[d] = request[d] /\ request[d].name \in Names
        BY <2>1, <2>3 DEF Record!Requests
      <3>2. /\ tools[request[d].name] # Record!Absent =>
                  tools'[request[d].name] # Record!Absent
            /\ request[d].at = "written" /\ request[d].kind = "register" =>
                  tools'[request[d].name] = tools[request[d].name]
        BY <1>5, <2>3, <3>1, CommitChanges DEF Record!At
      <3> QED
        BY <1>0, <3>1, <3>2 DEF Prepared
    <2> QED
      BY <2>1, <2>2, <2>3 DEF Prepared
  <1>6. CASE UNCHANGED <<tools, audit, request>>
    BY <1>0, <1>6 DEF Prepared
  <1> QED
    BY <1>1, <1>2, <1>3, <1>4, <1>5, <1>6
       DEF Record!RecordsNext, Record!Probe, Record!Persist

(* Only a write makes a second writer, and it waits for the first to end.  *)
LEMMA OneWriterStep ==
    ASSUME RecordsInv, Record!RecordsNext
    PROVE  OneWriter'
  <1> DEFINE Writing(c) == Record!At(c, "written") /\ Record!TouchesRow(request[c])
  <1>0. \A c, d \in Clients :
           c # d /\ Writing(c) /\ Writing(d) => request[c].name # request[d].name
    BY DEF RecordsInv, OneWriter
  <1>1. SUFFICES \A c, d \in Clients :
           c # d /\ Writing(c)' /\ Writing(d)' => request'[c].name # request'[d].name
    BY DEF OneWriter
  <1>2. request \in [Clients -> Record!Requests \cup {Record!NoRequest}]
    BY DEF RecordsInv, RecordsShaped
  <1>3. ASSUME \A c \in Clients :
                 Writing(c)' => Writing(c) /\ request'[c] = request[c]
        PROVE  \A c, d \in Clients :
           c # d /\ Writing(c)' /\ Writing(d)' => request'[c].name # request'[d].name
    <2> HIDE DEF Writing
    <2> QED
      BY <1>0, <1>3
  <1>4. ASSUME NEW c \in Clients, NEW r,
               request' = [request EXCEPT ![c] = r], r.at # "written" \/ r = Record!NoRequest
        PROVE  \A d \in Clients : Writing(d)' => Writing(d) /\ request'[d] = request[d]
    BY <1>2, <1>4 DEF Record!At, Record!TouchesRow
  <1>5. ASSUME NEW c \in Clients, Record!Write(c)
        PROVE  \A d, e \in Clients :
           d # e /\ Writing(d)' /\ Writing(e)' => request'[d].name # request'[e].name
    <2>0. PICK r : r = request[c]
      OBVIOUS
    <2>1. r \in Record!Requests
      BY <1>2, <1>5, <2>0 DEF Record!Write, Record!At
    <2>2. request' = [request EXCEPT ![c] = [r EXCEPT !.at = "written"]]
      BY <1>5, <2>0 DEF Record!Write, Record!Goes
    <2>3. \A d \in Clients \ {c} : request'[d] = request[d]
      BY <1>2, <2>2
    <2>4. \A d \in Clients \ {c} : Writing(d)' <=> Writing(d)
      BY <2>3 DEF Record!At, Record!TouchesRow
    <2>5. request'[c].name = r.name /\ (Record!TouchesRow(request[c])' <=> Record!TouchesRow(r))
      <3> DEFINE new == [r EXCEPT !.at = "written"]
      <3>1. new.name = r.name /\ new.kind = r.kind /\ new.sets = r.sets
        BY <2>1 DEF Record!Requests
      <3>2. request'[c] = new
        BY <1>2, <2>2
      <3> HIDE DEF new
      <3> QED
        BY <3>1, <3>2 DEF Record!TouchesRow
    <2>6. ASSUME Record!TouchesRow(r), NEW d \in Clients \ {c}, Writing(d)
          PROVE  request[d].name # r.name
      BY <1>5, <2>0, <2>6 DEF Record!Write, Record!Locked
    <2>7. \A d \in Clients \ {c} :
             Writing(c)' /\ Writing(d)' => request'[d].name # request'[c].name
      <3> SUFFICES ASSUME NEW d \in Clients \ {c}, Writing(c)', Writing(d)'
                   PROVE  request'[d].name # request'[c].name
        OBVIOUS
      <3>1. Record!TouchesRow(r)
        BY <2>5
      <3>2. Writing(d)
        BY <2>4
      <3> QED
        BY <2>3, <2>5, <2>6, <3>1, <3>2
    <2> HIDE DEF Writing
    <2> QED
      BY <1>0, <2>3, <2>4, <2>7
  <1>6. ASSUME NEW c \in Clients, NEW kind \in Record!RequestKinds,
               NEW t \in Names, NEW o \in Orgs, NEW fs \in Bodies \cup {<<>>},
               Record!Begin(c, kind, t, o, fs)
        PROVE  \A d \in Clients : Writing(d)' => Writing(d) /\ request'[d] = request[d]
    <2> DEFINE r == [at |-> "begun", kind |-> kind, name |-> t, org |-> o,
                     sets |-> fs, read |-> Record!Absent]
    <2>1. request' = [request EXCEPT ![c] = r] /\ r.at # "written"
      BY <1>6 DEF Record!Begin
    <2> HIDE DEF r, Writing
    <2> QED
      BY <1>4, <2>1
  <1>7. ASSUME NEW c \in Clients, Record!Accepted(c)
        PROVE  \A d \in Clients : Writing(d)' => Writing(d) /\ request'[d] = request[d]
    <2> DEFINE r == [request[c] EXCEPT !.at = "read", !.read = tools[request[c].name]]
    <2>1. request[c] \in Record!Requests
      BY <1>2, <1>7 DEF Record!Accepted, Record!At
    <2>2. request' = [request EXCEPT ![c] = r] /\ r.at # "written"
      BY <1>7, <2>1 DEF Record!Accepted, Record!Requests
    <2> HIDE DEF r, Writing
    <2> QED
      BY <1>4, <2>2
  <1>8. ASSUME NEW c \in Clients,
               Record!Refused(c) \/ Record!RolledBack(c) \/ Record!Commit(c)
        PROVE  \A d \in Clients : Writing(d)' => Writing(d) /\ request'[d] = request[d]
    <2>1. request' = [request EXCEPT ![c] = Record!NoRequest]
      BY <1>8 DEF Record!Refused, Record!RolledBack, Record!Commit, Record!Ends
    <2> HIDE DEF Writing
    <2> QED
      BY <1>4, <2>1
  <1>9. CASE UNCHANGED request
    BY <1>0, <1>9 DEF Record!At, Record!TouchesRow
  <1> HIDE DEF Writing
  <1> QED
    BY <1>3, <1>5, <1>6, <1>7, <1>8, <1>9
       DEF Record!RecordsNext, Record!Probe, Record!Persist

(* The greatest of a set of numbers, as the instance chooses it.           *)
LEMMA GreatestIs ==
    ASSUME NEW S \in SUBSET Nat, NEW i \in S, \A j \in S : j <= i
    PROVE  Record!Max(S) = i
  <1>1. \A j \in S : i >= j
    OBVIOUS
  <1>2. \A k \in S : (\A j \in S : k >= j) => k = i
    OBVIOUS
  <1> QED
    BY <1>1, <1>2 DEF Record!Max

(* Nothing is told of a name while no event and no row of it changes.      *)
LEMMA ToldStays ==
    ASSUME NEW t \in Owned, Told(t), UNCHANGED audit, tools'[t] = tools[t]
    PROVE  Told(t)'
  BY DEF Told, Record!Registrations, Record!Naming

(* An event is the last of those that name its fields.                     *)
LEMMA EventAppended ==
    ASSUME audit \in Seq(EventRecord), NEW e \in EventRecord,
           audit' = Append(audit, e), NEW n, n = Len(audit) + 1, NEW t \in Names
    PROVE  /\ n \in Nat /\ DOMAIN audit' = DOMAIN audit \cup {n}
           /\ \A i \in DOMAIN audit : i \in Nat /\ i < n /\ audit'[i] = audit[i]
           /\ audit'[n] = e
           /\ Record!Registrations(t)' = Record!Registrations(t) \cup
                  (IF e.type = "tool_registered" /\ e.name = t THEN {n} ELSE {})
           /\ \A f \in Fields : Record!Naming(t, f)' = Record!Naming(t, f) \cup
                  (IF e.name = t /\ f \in DOMAIN e.sets THEN {n} ELSE {})
  <1>1. /\ n \in Nat /\ DOMAIN audit' = DOMAIN audit \cup {n}
        /\ \A i \in DOMAIN audit : i \in Nat /\ i < n /\ audit'[i] = audit[i]
        /\ audit'[n] = e
    OBVIOUS
  <1>2. Record!Registrations(t)' = Record!Registrations(t) \cup
                  (IF e.type = "tool_registered" /\ e.name = t THEN {n} ELSE {})
    BY <1>1 DEF Record!Registrations
  <1>3. ASSUME NEW f \in Fields
        PROVE  Record!Naming(t, f)' = Record!Naming(t, f) \cup
                  (IF e.name = t /\ f \in DOMAIN e.sets THEN {n} ELSE {})
    BY <1>1 DEF Record!Naming
  <1> QED
    BY <1>1, <1>2, <1>3

(* A commit adds one event and changes the row as the event says.          *)
LEMMA CommitTells ==
    ASSUME RecordsInv, RecordsShaped', NEW c \in Clients, Record!Commit(c),
           NEW t \in Owned
    PROVE  Told(t)'
  <1>0. PICK r : r = request[c]
    OBVIOUS
  <1>1. /\ Record!At(c, "written") /\ r \in Record!Requests /\ r.at = "written"
        /\ r # Record!NoRequest
        /\ Record!Written(r) \in Record!Row
        /\ r.kind = "register" => Record!Written(r).fields = Record!Fresh(r.sets)
        /\ r.kind # "register" =>
              \A f \in Fields :
                 Record!Written(r).fields[f] =
                     IF r.kind = "update" /\ f \in DOMAIN r.sets THEN r.sets[f]
                     ELSE tools[r.name].fields[f]
    BY <1>0, WrittenRow DEF Record!Commit, RecordsInv, Record!At
  <1>2. /\ r.kind \in {"register", "update", "refresh"} /\ r.name \in Names
        /\ r.sets \in Record!Updates
    BY <1>1 DEF Record!Requests, Record!RequestKinds
  <1>3. DOMAIN r.sets \subseteq Fields /\ DOMAIN Record!Fresh(r.sets) = Fields
    BY <1>2, UpdateFields DEF Record!Fresh
  <1>4. /\ tools \in [Names -> Record!Row \cup {Record!Absent}]
        /\ audit \in Seq(EventRecord) /\ t \in Names /\ Told(t)
    BY DEF RecordsInv, RecordsShaped, Owned
  <1>5. Record!Written(r) # Record!Absent
    <2>1. Record!Written(r).org \in Orgs \cup {"system"}
      BY <1>1 DEF Record!Row
    <2>2. Record!Absent.org = "none"
      BY DEF Record!Absent
    <2> QED
      BY <2>1, <2>2, RequestsAssumption DEF Record!RecordsAssumption
  <1>6. /\ tools' = IF Record!TouchesRow(r)
                    THEN [tools EXCEPT ![r.name] = Record!Written(r)] ELSE tools
        /\ audit' = IF r.kind # "refresh" THEN Append(audit, Record!Event(r))
                    ELSE audit
    BY <1>0 DEF Record!Commit, Record!Audited
  <1>7. r.kind # "register" => tools[r.name] # Record!Absent
    BY <1>0, <1>1 DEF RecordsInv, Prepared
  <1>8. r.kind = "register" => tools[r.name] = Record!Absent
    BY <1>0, <1>1 DEF RecordsInv, Prepared
  <1>9. CASE r.kind = "refresh"
    <2>1. UNCHANGED audit
      BY <1>6, <1>9
    <2>2. CASE t # r.name
      BY <1>4, <1>6, <2>1, <2>2, ToldStays
    <2>3. CASE t = r.name
      <3>1. /\ tools[t] # Record!Absent /\ tools'[t] # Record!Absent
            /\ \A f \in Fields : tools'[t].fields[f] = tools[t].fields[f]
        BY <1>1, <1>4, <1>5, <1>6, <1>7, <1>9, <2>3 DEF Record!TouchesRow
      <3>2. /\ Record!Registrations(t)' = Record!Registrations(t)
            /\ \A f \in Fields : Record!Naming(t, f)' = Record!Naming(t, f)
        BY <2>1 DEF Record!Registrations, Record!Naming
      <3> QED
        BY <1>4, <2>1, <3>1, <3>2 DEF Told
    <2> QED
      BY <2>2, <2>3
  <1>10. CASE r.kind # "refresh"
    <2> DEFINE e == Record!Event(r)
               n == Len(audit) + 1
    <2>1. /\ e \in EventRecord /\ e.name = r.name
          /\ e.type = "tool_registered" <=> r.kind = "register"
          /\ e.sets = IF r.kind = "register" THEN Record!Fresh(r.sets) ELSE r.sets
      BY <1>2, UpdateFields DEF Record!Event, EventRecord
    <2>2. audit' = Append(audit, e)
      BY <1>6, <1>10
    <2> HIDE DEF e, n
    <2>3. /\ n \in Nat /\ DOMAIN audit' = DOMAIN audit \cup {n}
          /\ \A i \in DOMAIN audit : i \in Nat /\ i < n /\ audit'[i] = audit[i]
          /\ audit'[n] = e
          /\ Record!Registrations(t)' = Record!Registrations(t) \cup
                 (IF e.type = "tool_registered" /\ e.name = t THEN {n} ELSE {})
          /\ \A f \in Fields : Record!Naming(t, f)' = Record!Naming(t, f) \cup
                 (IF e.name = t /\ f \in DOMAIN e.sets THEN {n} ELSE {})
      BY <1>4, <2>1, <2>2, EventAppended DEF n
    <2>4. \A f \in Fields : Record!Naming(t, f) \subseteq DOMAIN audit
      BY DEF Record!Naming
    <2>5. CASE t # r.name
      <3>1. /\ Record!Registrations(t)' = Record!Registrations(t)
            /\ \A f \in Fields : Record!Naming(t, f)' = Record!Naming(t, f)
            /\ tools'[t] = tools[t]
        BY <1>4, <1>6, <2>1, <2>3, <2>5
      <3>2. ASSUME tools[t] # Record!Absent, NEW f \in Fields
            PROVE  \E k \in Record!Naming(t, f)' :
                      /\ \A j \in Record!Naming(t, f)' : j <= k
                      /\ tools'[t].fields[f] = audit'[k].sets[f]
        <4>1. PICK k \in Record!Naming(t, f) :
                      /\ \A j \in Record!Naming(t, f) : j <= k
                      /\ tools[t].fields[f] = audit[k].sets[f]
          BY <1>4, <3>2 DEF Told
        <4> QED
          BY <2>3, <2>4, <3>1, <4>1
      <3>3. tools[t] # Record!Absent =>
               \E i \in DOMAIN audit' : Record!Registrations(t)' = {i}
        BY <1>4, <2>3, <3>1 DEF Told
      <3> QED
        BY <1>4, <3>1, <3>2, <3>3 DEF Told
    <2>6. CASE t = r.name /\ r.kind = "register"
      <3>1. tools'[t] = Record!Written(r) /\ tools[t] = Record!Absent
        BY <1>4, <1>6, <1>8, <2>6 DEF Record!TouchesRow
      <3>2. Record!Registrations(t)' = {n} /\ n \in DOMAIN audit'
        BY <1>4, <2>1, <2>3, <2>6, <3>1 DEF Told
      <3>3. ASSUME NEW f \in Fields
            PROVE  /\ n \in Record!Naming(t, f)'
                   /\ \A j \in Record!Naming(t, f)' : j <= n
                   /\ tools'[t].fields[f] = audit'[n].sets[f]
        BY <1>1, <1>3, <2>1, <2>3, <2>4, <2>6, <3>1
      <3> QED
        BY <1>5, <3>1, <3>2, <3>3 DEF Told
    <2>7. CASE t = r.name /\ r.kind = "update"
      <3>1. tools[t] # Record!Absent /\ tools'[t] # Record!Absent
        BY <1>4, <1>5, <1>6, <1>7, <2>7
      <3>2. Record!Registrations(t)' = Record!Registrations(t)
        BY <2>1, <2>3, <2>7
      <3>3. PICK i \in DOMAIN audit : Record!Registrations(t) = {i}
        BY <1>4, <3>1 DEF Told
      <3>4. ASSUME NEW f \in Fields
            PROVE  tools'[t].fields[f] = IF f \in DOMAIN r.sets THEN r.sets[f]
                                         ELSE tools[t].fields[f]
        <4>1. CASE Record!TouchesRow(r)
          BY <1>1, <1>4, <1>6, <2>7, <4>1
        <4>2. CASE ~Record!TouchesRow(r)
          <5>1. r.sets = <<>> /\ f \notin DOMAIN r.sets
            BY <2>7, <4>2 DEF Record!TouchesRow
          <5> QED
            BY <1>6, <4>2, <5>1
        <4> QED
          BY <4>1, <4>2
      <3>5. ASSUME NEW f \in Fields
            PROVE  \E k \in Record!Naming(t, f)' :
                      /\ \A j \in Record!Naming(t, f)' : j <= k
                      /\ tools'[t].fields[f] = audit'[k].sets[f]
        <4>1. CASE f \in DOMAIN r.sets
          BY <2>1, <2>3, <2>4, <2>7, <3>4, <4>1
        <4>2. CASE f \notin DOMAIN r.sets
          <5>1. Record!Naming(t, f)' = Record!Naming(t, f)
            BY ZenonT(60), <2>1, <2>3, <2>7, <4>2
          <5>2. PICK k \in Record!Naming(t, f) :
                      /\ \A j \in Record!Naming(t, f) : j <= k
                      /\ tools[t].fields[f] = audit[k].sets[f]
            BY <1>4, <3>1 DEF Told
          <5> QED
            BY <2>3, <2>4, <3>4, <4>2, <5>1, <5>2
        <4> QED
          BY <4>1, <4>2
      <3> QED
        BY <2>3, <3>1, <3>2, <3>3, <3>5 DEF Told
    <2> QED
      BY <1>2, <1>10, <2>5, <2>6, <2>7
  <1> QED
    BY <1>9, <1>10

(* The audit events tell the whole story of the tools' records: a tool is  *)
(* there when its one registration is, and each field has the value of the *)
(* last event naming it, however requests interleave, fail or are cut off, *)
(* for every number of clients, tools, organisations and fields.           *)
THEOREM AuditTellsAll == Record!RecordsSpec => []ChangesAreAudited
<1>1. Record!RecordsInit => RecordsInv
  <2> SUFFICES ASSUME Record!RecordsInit
               PROVE  RecordsInv
    OBVIOUS
  <2>1. RecordsShaped
    <3>1. <<>> \in Record!Updates
      <4>1. <<>> \in [{} -> Record!Values] /\ {} \in SUBSET Fields
        OBVIOUS
      <4> QED
        BY <4>1 DEF Record!Updates
    <3>2. [org |-> "system", health |-> "healthy", fields |-> Record!Fresh(<<>>)]
              \in Record!Row
      BY <3>1, UpdateFields DEF Record!Row, Record!Healths
    <3> QED
      BY <3>2 DEF Record!RecordsInit, RecordsShaped
  <2>2. \A c \in Clients : request[c] = Record!NoRequest
    BY DEF Record!RecordsInit
  <2>3. OneWriter
    BY <2>2 DEF OneWriter, Record!At
  <2>4. \A c \in Clients : Prepared(c)
    BY <2>2 DEF Prepared
  <2>5. ASSUME NEW t \in Owned
        PROVE  Told(t)
    <3>1. tools[t] = Record!Absent /\ DOMAIN audit = {}
      BY DEF Record!RecordsInit, Owned
    <3> QED
      BY <3>1 DEF Told, Record!Registrations
  <2> QED
    BY <2>1, <2>3, <2>4, <2>5 DEF RecordsInv
<1>2. RecordsInv /\ [Record!RecordsNext]_(Record!recordVars) => RecordsInv'
  <2>1. ASSUME RecordsInv, Record!RecordsNext
        PROVE  RecordsInv'
    <3>1. RecordsShaped' /\ OneWriter' /\ \A c \in Clients : Prepared(c)'
      BY <2>1, ShapedStep, OneWriterStep, PreparedStep DEF RecordsInv
    <3>2. ASSUME NEW t \in Owned
          PROVE  Told(t)'
      <4>1. CASE \E c \in Clients : Record!Commit(c)
        BY <2>1, <3>1, <4>1, CommitTells
      <4>2. CASE UNCHANGED <<tools, audit>>
        BY <2>1, <4>2, ToldStays DEF RecordsInv
      <4> QED
        BY <2>1, <4>1, <4>2
           DEF Record!RecordsNext, Record!Begin, Record!Refused, Record!Accepted,
               Record!Write, Record!RolledBack, Record!Probe, Record!Persist
    <3> QED
      BY <3>1, <3>2 DEF RecordsInv
  <2>2. ASSUME RecordsInv, UNCHANGED Record!recordVars
        PROVE  RecordsInv'
    BY <2>2
       DEF RecordsInv, RecordsShaped, OneWriter, Prepared, Told, Record!recordVars,
           Record!At, Record!TouchesRow, Record!Registrations, Record!Naming
  <2> QED
    BY <2>1, <2>2
<1>3. RecordsInv => ChangesAreAudited
  <2> SUFFICES ASSUME RecordsInv, NEW t \in Names \ SystemTools
               PROVE  /\ Record!Cardinality(Record!Registrations(t)) =
                            IF tools[t] = Record!Absent THEN 0 ELSE 1
                      /\ tools[t] # Record!Absent => \A f \in Fields :
                            tools[t].fields[f] =
                                audit[Record!Max(Record!Naming(t, f))].sets[f]
    BY DEF ChangesAreAudited, Record!ChangesAreAudited
  <2>1. Told(t) /\ audit \in Seq(EventRecord)
    BY DEF RecordsInv, RecordsShaped, Owned
  <2>2. \A S : Record!Cardinality(S) = Cardinality(S)
    BY DEF Record!Cardinality, Cardinality
  <2>3. tools[t] = Record!Absent => Cardinality(Record!Registrations(t)) = 0
    BY <2>1, FS_EmptySet DEF Told
  <2>4. tools[t] # Record!Absent => Cardinality(Record!Registrations(t)) = 1
    BY <2>1, FS_Singleton DEF Told
  <2>5. ASSUME tools[t] # Record!Absent, NEW f \in Fields
        PROVE  tools[t].fields[f] = audit[Record!Max(Record!Naming(t, f))].sets[f]
    <3>1. PICK i \in Record!Naming(t, f) :
                  /\ \A j \in Record!Naming(t, f) : j <= i
                  /\ tools[t].fields[f] = audit[i].sets[f]
      BY <2>1, <2>5 DEF Told
    <3>2. Record!Naming(t, f) \in SUBSET Nat
      BY <2>1 DEF Record!Naming
    <3>3. Record!Max(Record!Naming(t, f)) = i
      BY <3>1, <3>2, GreatestIs
    <3> QED
      BY <3>1, <3>3
  <2> QED
    BY <2>2, <2>3, <2>4, <2>5
<1> QED
  BY <1>1, <1>2, <1>3, PTL DEF Record!RecordsSpec
=============================================================================
