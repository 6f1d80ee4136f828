------------------------- MODULE SchemaMigrationProofs -------------------------
(***************************************************************************)
(* Theorems about the migrator, for every number of containers and starts,  *)
(* every chain of revisions and every set of images.                        *)
(***************************************************************************)
EXTENDS SchemaMigration, TLAPS

Steps == {"off", "lock", "plan", "create", "dump", "upgrade", "reconcile", "stamp", "serve"}
Container == [at : Steps, plan : {"none", "fresh", "baseline", "pending", "nothing"}, dump : SUBSET Schemas]
Migrates(r) == rep[r].at \notin {"off", "lock", "serve"}

(* The advisory lock is held by the one container that migrates.             *)
OneMigrator ==
  /\ db \in Schemas /\ rep \in [Replicas -> Container] /\ ahead \in 0..MaxRev
  /\ \A r \in Replicas : Migrates(r) <=> migLock = r

(* Every column is the old installation's or was added by a revision that is *)
(* recorded, or by models that went in without a stamp.                      *)
ColumnsAccounted ==
  \A c \in db.cols : c \in OldTables \/ \E v \in Revs : c \in AddedBy[v] /\ (v <= db.version \/ v <= ahead)

(* The columns container r was started for, but for those a revision newer   *)
(* than its image dropped.                                                   *)
Complete(r) ==
  \A c \in Declared(ImageOf[r]) :
    c \in db.cols \/ \E v \in ImageOf[r]+1..db.version : c \in DroppedBy[v]

(* What a container knows of the database from the steps it has behind it.   *)
Knows(r) ==
  /\ rep[r].at \in {"create", "stamp"} => db.version = 0
  /\ rep[r].at = "reconcile" => db.version = IF rep[r].plan = "baseline" THEN 0 ELSE ImageOf[r]
  /\ rep[r].at \in {"dump", "upgrade"} => rep[r].plan = "pending" /\ db.version # 0
  /\ rep[r].at = "upgrade" => rep[r].dump = {db}
  /\ rep[r].at = "stamp" => Declared(ImageOf[r]) \subseteq db.cols /\ ImageOf[r] <= ahead
  /\ rep[r].at = "serve" => ImageOf[r] <= db.version /\ Complete(r)

MigrateInv == OneMigrator /\ ColumnsAccounted /\ \A r \in Replicas : Knows(r)

(* Models declare what their chain adds.                                     *)
LEMMA DeclaredIsAdded ==
  ASSUME NEW image \in Revs, NEW c \in Declared(image)
  PROVE  \E v \in Revs : c \in AddedBy[v] /\ v <= image
<1>1. PICK v \in 1..image : c \in AddedBy[v]
  BY DEF Declared
<1>2. v \in Revs /\ v <= image
  BY RevsAreNat DEF Revs
<1> QED BY <1>1, <1>2

(* Types of the parts of the database.                                       *)
LEMMA SchemaShape ==
  ASSUME OneMigrator
  PROVE  /\ db.version \in Nat /\ db.version <= MaxRev /\ ahead \in Nat
         /\ db.cols \subseteq (UNION {AddedBy[r] : r \in Revs}) \cup OldTables
         /\ \A r \in Replicas : ImageOf[r] \in Nat /\ ImageOf[r] \in Revs /\ 1 <= ImageOf[r] /\ ImageOf[r] <= MaxRev
  BY RevsAreNat, ImagesAreRevs DEF OneMigrator, Schemas, Revs

LEMMA DeclaredFits ==
  ASSUME NEW r \in Replicas
  PROVE  Declared(ImageOf[r]) \subseteq (UNION {AddedBy[v] : v \in Revs}) \cup OldTables
<1>1. ImageOf[r] \in Revs
  BY ImagesAreRevs
<1> QED BY <1>1, DeclaredIsAdded

(* A container that changes the database leaves the others what they know:   *)
(* they wait or serve, and whoever serves runs an image no newer than the    *)
(* recorded revision.                                                        *)
LEMMA OthersStillKnow ==
  ASSUME MigrateInv, NEW r \in Replicas, Migrates(r), NEW s \in Replicas, s # r, rep'[s] = rep[s],
         db'.version \in Nat, db.version <= db'.version,
         \A c \in db.cols : c \in db'.cols \/ \E v \in db.version+1..db'.version : c \in DroppedBy[v]
  PROVE  Knows(s)'
<1>1. ~Migrates(s)
  BY DEF MigrateInv, OneMigrator
<1>2. CASE rep[s].at # "serve"
  BY <1>1, <1>2 DEF Migrates, Knows
<1>3. CASE rep[s].at = "serve"
  <2>1. ImageOf[s] <= db.version /\ Complete(s) /\ db.version \in Nat /\ ImageOf[s] \in Nat
    BY <1>3, SchemaShape DEF MigrateInv, Knows
  <2>2. Complete(s)'
    BY <2>1 DEF Complete
  <2> QED BY <1>3, <2>1, <2>2 DEF Knows
<1> QED BY <1>2, <1>3

(* A container that leaves the database alone leaves the others alone.       *)
LEMMA OthersUntouched ==
  ASSUME MigrateInv, NEW r \in Replicas, db' = db, ahead' = ahead, rep' \in [Replicas -> Container],
         \A s \in Replicas : s # r => rep'[s] = rep[s],
         \A s \in Replicas : Migrates(s)' <=> migLock' = s,
         Knows(r)'
  PROVE  MigrateInv'
<1>1. \A s \in Replicas : s # r => Knows(s)'
  BY DEF MigrateInv, Knows, Complete
<1> QED BY <1>1 DEF MigrateInv, OneMigrator, ColumnsAccounted

(* The lock goes with the step: taken, kept or given back.                   *)
LEMMA LockFollows ==
  ASSUME OneMigrator, NEW r \in Replicas, NEW new \in Container, rep' = [rep EXCEPT ![r] = new],
         \/ migLock' = migLock /\ (Migrates(r) <=> new.at \notin {"off", "lock", "serve"})
         \/ migLock = NoReplica /\ migLock' = r /\ new.at \notin {"off", "lock", "serve"}
         \/ Migrates(r) /\ migLock' = NoReplica /\ new.at \in {"off", "lock", "serve"}
  PROVE  /\ rep' \in [Replicas -> Container] /\ rep'[r] = new
         /\ \A s \in Replicas : s # r => rep'[s] = rep[s]
         /\ \A s \in Replicas : Migrates(s)' <=> migLock' = s
<1>1. /\ rep' \in [Replicas -> Container] /\ rep'[r] = new
      /\ \A s \in Replicas : s # r => rep'[s] = rep[s]
  BY DEF OneMigrator
<1>2. NoReplica \notin Replicas
  BY RevsAreNat
<1>3. \A s \in Replicas : s # r => (Migrates(s)' <=> Migrates(s))
  BY <1>1 DEF Migrates
<1>4. Migrates(r)' <=> new.at \notin {"off", "lock", "serve"}
  BY <1>1 DEF Migrates
<1> QED BY <1>1, <1>2, <1>3, <1>4 DEF OneMigrator

(* The four steps that change the database keep the invariant.               *)
LEMMA DatabaseSteps ==
  ASSUME MigrateInv, NEW r \in Replicas, Migrates(r),
         NEW new \in Container, rep' = [rep EXCEPT ![r] = new],
         \/ migLock' = migLock /\ new.at \notin {"off", "lock", "serve"}
         \/ migLock' = NoReplica /\ new.at \in {"off", "lock", "serve"},
         db' \in Schemas, ahead' \in 0..MaxRev, ahead <= ahead', db.version <= db'.version,
         \A c \in db.cols : c \in db'.cols \/ \E v \in db.version+1..db'.version : c \in DroppedBy[v],
         \A c \in db'.cols : c \in db.cols \/
            \E v \in Revs : c \in AddedBy[v] /\ (v <= db'.version \/ v <= ahead'),
         Knows(r)'
  PROVE  MigrateInv'
<1>1. /\ rep' \in [Replicas -> Container]
      /\ \A s \in Replicas : s # r => rep'[s] = rep[s]
      /\ \A s \in Replicas : Migrates(s)' <=> migLock' = s
  BY LockFollows DEF MigrateInv
<1>2. OneMigrator'
  BY <1>1 DEF OneMigrator
<1>3. db'.version \in Nat /\ db.version \in Nat /\ ahead \in Nat /\ ahead' \in Nat
  BY SchemaShape, RevsAreNat DEF MigrateInv, Schemas
<1>4. \A s \in Replicas : s # r => Knows(s)'
  BY <1>1, <1>3, OthersStillKnow
<1>5. ColumnsAccounted'
  <2> SUFFICES ASSUME NEW c \in db'.cols, c \notin OldTables
               PROVE  \E v \in Revs : c \in AddedBy[v] /\ (v <= db'.version \/ v <= ahead')
    BY DEF ColumnsAccounted
  <2>1. CASE c \in db.cols
    <3>1. PICK v \in Revs : c \in AddedBy[v] /\ (v <= db.version \/ v <= ahead)
      BY <2>1 DEF MigrateInv, ColumnsAccounted
    <3>2. v \in Nat
      BY DEF Revs
    <3> QED BY <1>3, <3>1, <3>2
  <2> QED BY <2>1
<1> QED BY <1>2, <1>4, <1>5 DEF MigrateInv

(* Every step keeps what the containers know of the database.                *)
LEMMA MigrateInductive == MigrateSpec => []MigrateInv
<1>0. Off \in Container /\ Off.at = "off" /\ [Off EXCEPT !.at = "serve"] \in Container
      /\ [Off EXCEPT !.at = "serve"].at = "serve"
  BY DEF Off, Container, Steps
<1>1. MigrateInit => MigrateInv
  <2> SUFFICES ASSUME MigrateInit PROVE MigrateInv
    OBVIOUS
  <2>1. db \in Schemas /\ \A c \in db.cols : c \in OldTables
    <3>1. PICK old \in BOOLEAN :
            db = [tables |-> old, version |-> 0, cols |-> IF old THEN OldTables ELSE {}]
      BY DEF MigrateInit
    <3>2. (IF old THEN OldTables ELSE {}) \subseteq OldTables
      OBVIOUS
    <3>3. 0 \in 0..MaxRev
      BY RevsAreNat
    <3>4. \A cols \in SUBSET OldTables :
            [tables |-> old, version |-> 0, cols |-> cols] \in Schemas
      BY <3>3 DEF Schemas
    <3> QED BY <3>1, <3>2, <3>4
  <2>2. \A r \in Replicas : rep[r] = Off
    BY DEF MigrateInit
  <2>3. OneMigrator
    BY <1>0, <2>1, <2>2, RevsAreNat DEF MigrateInit, OneMigrator, Migrates
  <2> QED BY <1>0, <2>1, <2>2, <2>3 DEF MigrateInv, ColumnsAccounted, Knows
<1>2. MigrateInv /\ [MigrateNext]_migrateVars => MigrateInv'
  <2> SUFFICES ASSUME MigrateInv, [MigrateNext]_migrateVars PROVE MigrateInv'
    OBVIOUS
  <2>s. OneMigrator /\ ColumnsAccounted /\ \A r \in Replicas : Knows(r)
    BY DEF MigrateInv
  <2>v. /\ db.version \in Nat /\ db.version <= MaxRev /\ ahead \in Nat
        /\ \A r \in Replicas : /\ ImageOf[r] \in Revs /\ ImageOf[r] \in Nat
                              /\ 1 <= ImageOf[r] /\ ImageOf[r] <= MaxRev
    BY <2>s, SchemaShape
  <2>x. \A r \in Replicas : rep[r] \in Container
    BY <2>s DEF OneMigrator
  <2>e. \A r \in Replicas, at \in Steps : /\ [rep[r] EXCEPT !.at = at] \in Container
                                        /\ [rep[r] EXCEPT !.at = at].at = at
                                        /\ [rep[r] EXCEPT !.at = at].plan = rep[r].plan
                                        /\ [rep[r] EXCEPT !.at = at].dump = rep[r].dump
    BY <2>x DEF Container
  <2>1. CASE UNCHANGED migrateVars
    BY <2>1 DEF migrateVars, MigrateInv, OneMigrator, ColumnsAccounted, Knows, Complete, Migrates
  <2>2. ASSUME NEW r \in Replicas, StartContainer(r) PROVE MigrateInv'
    <3> DEFINE new == [rep[r] EXCEPT !.at = "lock"]
    <3>1. new \in Container /\ new.at = "lock"
      BY <2>e DEF Steps
    <3>2. rep' = [rep EXCEPT ![r] = new] /\ UNCHANGED <<db, migLock, ahead>> /\ ~Migrates(r)
      BY <2>2 DEF StartContainer, Step, AtStep, Migrates
    <3> HIDE DEF new
    <3>3. /\ rep' \in [Replicas -> Container] /\ rep'[r] = new
          /\ \A s \in Replicas : s # r => rep'[s] = rep[s]
          /\ \A s \in Replicas : Migrates(s)' <=> migLock' = s
      BY <2>s, <3>1, <3>2, LockFollows
    <3>4. Knows(r)'
      BY <3>1, <3>3 DEF Knows
    <3> QED BY <3>2, <3>3, <3>4, OthersUntouched
  <2>3. ASSUME NEW r \in Replicas, TakeMigLock(r) PROVE MigrateInv'
    <3> DEFINE new == [rep[r] EXCEPT !.at = "plan"]
    <3>1. new \in Container /\ new.at = "plan"
      BY <2>e DEF Steps
    <3>2. /\ rep' = [rep EXCEPT ![r] = new] /\ UNCHANGED <<db, ahead>>
          /\ migLock = NoReplica /\ migLock' = r
      BY <2>3 DEF TakeMigLock, Step, MigLockFree
    <3> HIDE DEF new
    <3>3. /\ rep' \in [Replicas -> Container] /\ rep'[r] = new
          /\ \A s \in Replicas : s # r => rep'[s] = rep[s]
          /\ \A s \in Replicas : Migrates(s)' <=> migLock' = s
      BY <2>s, <3>1, <3>2, LockFollows
    <3>4. Knows(r)'
      BY <3>1, <3>3 DEF Knows
    <3> QED BY <3>2, <3>3, <3>4, OthersUntouched
  <2>4. ASSUME NEW r \in Replicas, MakePlan(r) PROVE MigrateInv'
    <3> DEFINE plan == PlanOf(r)
               new == [rep[r] EXCEPT !.at = FirstStep(plan), !.plan = plan]
    <3>0. /\ plan \in {"baseline", "fresh", "nothing", "pending"}
          /\ plan \in {"baseline", "fresh"} => db.version = 0
          /\ plan = "nothing" => db.version = ImageOf[r]
          /\ plan = "pending" => db.version # 0
      <4>1. CASE db.version = 0 /\ db.tables
        BY <2>v, <4>1 DEF PlanOf
      <4>2. CASE db.version = 0 /\ ~db.tables
        BY <2>v, <4>2 DEF PlanOf
      <4>3. CASE db.version # 0 /\ db.version = ImageOf[r]
        BY <2>v, <4>3 DEF PlanOf
      <4>4. CASE db.version # 0 /\ db.version # ImageOf[r]
        BY <2>v, <4>4 DEF PlanOf
      <4> QED BY <4>1, <4>2, <4>3, <4>4
    <3>f. /\ plan = "fresh" => FirstStep(plan) = "create"
          /\ plan = "pending" => FirstStep(plan) = "dump"
          /\ plan \in {"baseline", "nothing"} => FirstStep(plan) = "reconcile"
      BY <3>0 DEF FirstStep
    <3>1. new \in Container /\ new.at = FirstStep(plan) /\ new.plan = plan
      <4>1. FirstStep(plan) \in Steps
        BY <3>0, <3>f DEF Steps
      <4> HIDE DEF plan
      <4> QED BY <2>x, <3>0, <4>1 DEF Container
    <3>2. /\ rep' = [rep EXCEPT ![r] = new] /\ UNCHANGED <<db, migLock, ahead>>
          /\ Migrates(r)
      BY <2>4 DEF MakePlan, AtStep, Migrates
    <3>r. new.at \notin {"off", "lock", "serve"}
      BY <3>0, <3>1, <3>f
    <3>i. PICK p \in {"baseline", "fresh", "nothing", "pending"} : p = plan
      BY <3>0
    <3> HIDE DEF new, plan
    <3>3. /\ rep' \in [Replicas -> Container] /\ rep'[r] = new
          /\ \A s \in Replicas : s # r => rep'[s] = rep[s]
          /\ \A s \in Replicas : Migrates(s)' <=> migLock' = s
      BY <2>s, <3>1, <3>2, <3>r, LockFollows
    <3>4. Knows(r)'
      BY <3>0, <3>1, <3>2, <3>3, <3>f DEF Knows
    <3> QED BY <3>2, <3>3, <3>4, OthersUntouched
  <2>5. ASSUME NEW r \in Replicas, RefuseToStart(r) \/ UpgradeRaises(r) PROVE MigrateInv'
    <3>2. /\ rep' = [rep EXCEPT ![r] = Off] /\ UNCHANGED <<db, ahead>>
          /\ migLock' = NoReplica /\ Migrates(r)
      BY <2>5 DEF RefuseToStart, UpgradeRaises, Leave, AtStep, Migrates
    <3>3. /\ rep' \in [Replicas -> Container] /\ rep'[r] = Off
          /\ \A s \in Replicas : s # r => rep'[s] = rep[s]
          /\ \A s \in Replicas : Migrates(s)' <=> migLock' = s
      BY <1>0, <2>s, <3>2, LockFollows
    <3>4. Knows(r)'
      BY <1>0, <3>3 DEF Knows
    <3> QED BY <3>2, <3>3, <3>4, OthersUntouched
  <2>6. ASSUME NEW r \in Replicas, StopContainer(r) PROVE MigrateInv'
    <3>2. /\ rep' = [rep EXCEPT ![r] = Off] /\ UNCHANGED <<db, ahead>>
          /\ migLock' = IF migLock = r THEN NoReplica ELSE migLock
      BY <2>6 DEF StopContainer
    <3>3. /\ rep' \in [Replicas -> Container] /\ rep'[r] = Off
          /\ \A s \in Replicas : s # r => rep'[s] = rep[s]
          /\ \A s \in Replicas : Migrates(s)' <=> migLock' = s
      <4>1. Migrates(r) <=> migLock = r
        BY <2>s DEF OneMigrator
      <4> QED BY <1>0, <2>s, <3>2, <4>1, LockFollows
    <3>4. Knows(r)'
      BY <1>0, <3>3 DEF Knows
    <3> QED BY <3>2, <3>3, <3>4, OthersUntouched
  <2>7. ASSUME NEW r \in Replicas, Dump(r) PROVE MigrateInv'
    <3> DEFINE new == [rep[r] EXCEPT !.at = "upgrade", !.dump = {db}]
    <3>1. new \in Container /\ new.at = "upgrade" /\ new.plan = rep[r].plan /\ new.dump = {db}
      <4>1. {db} \in SUBSET Schemas
        BY <2>s DEF OneMigrator
      <4> QED BY <2>x, <4>1 DEF Container, Steps
    <3>2. rep' = [rep EXCEPT ![r] = new] /\ UNCHANGED <<db, migLock, ahead>> /\ Migrates(r) /\ rep[r].at = "dump"
      BY <2>7 DEF Dump, AtStep, Migrates
    <3> HIDE DEF new
    <3>3. /\ rep' \in [Replicas -> Container] /\ rep'[r] = new
          /\ \A s \in Replicas : s # r => rep'[s] = rep[s]
          /\ \A s \in Replicas : Migrates(s)' <=> migLock' = s
      BY <2>s, <3>1, <3>2, LockFollows
    <3>4. Knows(r)'
      BY <2>s, <3>1, <3>2, <3>3 DEF Knows
    <3> QED BY <3>2, <3>3, <3>4, OthersUntouched
  <2>8. ASSUME NEW r \in Replicas, CreateAll(r) \/ Reconcile(r) PROVE MigrateInv'
    <3> DEFINE serving == [Off EXCEPT !.at = "serve"]
               stamping == [rep[r] EXCEPT !.at = "stamp"]
               more == Declared(ImageOf[r])
    <3>1. /\ Migrates(r) /\ db' \in Schemas /\ db'.version = db.version /\ db'.cols = db.cols \cup more
      <4>1. Migrates(r)
        BY <2>8 DEF CreateAll, Reconcile, AtStep, Migrates
      <4>2. \A t \in BOOLEAN : /\ [db EXCEPT !.tables = t, !.cols = db.cols \cup more] \in Schemas
                              /\ [db EXCEPT !.tables = t, !.cols = db.cols \cup more].version = db.version
                              /\ [db EXCEPT !.tables = t, !.cols = db.cols \cup more].cols = db.cols \cup more
        BY <2>s, DeclaredFits DEF OneMigrator, Schemas
      <4>3. /\ [db EXCEPT !.cols = db.cols \cup more] \in Schemas
            /\ [db EXCEPT !.cols = db.cols \cup more].version = db.version
            /\ [db EXCEPT !.cols = db.cols \cup more].cols = db.cols \cup more
        BY <2>s, DeclaredFits DEF OneMigrator, Schemas
      <4>4. CASE db' = [db EXCEPT !.tables = TRUE, !.cols = db.cols \cup more]
        BY <4>1, <4>2, <4>4, Zenon
      <4>5. CASE db' = [db EXCEPT !.cols = db.cols \cup more]
        BY <4>1, <4>3, <4>5
      <4> QED BY <2>8, <4>4, <4>5, Zenon DEF CreateAll, Reconcile
    <3>2. \/ /\ rep' = [rep EXCEPT ![r] = stamping] /\ migLock' = migLock /\ WithoutStamp(r)
             /\ rep[r].at = "create" \/ (rep[r].at = "reconcile" /\ rep[r].plan = "baseline")
          \/ /\ rep' = [rep EXCEPT ![r] = serving] /\ migLock' = NoReplica /\ ahead' = ahead
             /\ rep[r].at = "reconcile" /\ rep[r].plan # "baseline"
      <4>1. CASE CreateAll(r)
        BY <4>1 DEF CreateAll, Step, AtStep
      <4>2. CASE Reconcile(r)
        <5>1. CASE rep[r].plan = "baseline"
          BY <4>2, <5>1 DEF Reconcile, Step, AtStep
        <5>2. CASE rep[r].plan # "baseline"
          BY <4>2, <5>2 DEF Reconcile, AtStep
        <5> QED BY <5>1, <5>2
      <4> QED BY <2>8, <4>1, <4>2
    <3>3. /\ stamping \in Container /\ stamping.at = "stamp"
          /\ serving \in Container /\ serving.at = "serve"
      BY <1>0, <2>e DEF Steps
    <3>4. \A c \in more : \E v \in Revs : c \in AddedBy[v] /\ v <= ImageOf[r]
      BY <2>v, DeclaredIsAdded
    <3> HIDE DEF serving, stamping, more
    <3>5. CASE /\ rep' = [rep EXCEPT ![r] = stamping] /\ migLock' = migLock /\ WithoutStamp(r)
               /\ rep[r].at = "create" \/ (rep[r].at = "reconcile" /\ rep[r].plan = "baseline")
      <4>1. ahead' \in 0..MaxRev /\ ahead <= ahead' /\ ImageOf[r] <= ahead'
        BY <2>s, <2>v, <3>5 DEF WithoutStamp, OneMigrator
      <4>2. db.version = 0
        BY <2>s, <3>5 DEF Knows
      <4>3. rep'[r] = stamping
        BY <2>s, <3>5 DEF OneMigrator
      <4>4. Knows(r)'
        BY <3>1, <3>3, <4>1, <4>2, <4>3 DEF Knows, more
      <4>5. \A c \in db'.cols : c \in db.cols \/
              \E v \in Revs : c \in AddedBy[v] /\ (v <= db'.version \/ v <= ahead')
        <5> SUFFICES ASSUME NEW c \in more PROVE \E v \in Revs : c \in AddedBy[v] /\ v <= ahead'
          BY <3>1
        <5>1. PICK v \in Revs : c \in AddedBy[v] /\ v <= ImageOf[r]
          BY <3>4
        <5>2. v \in Nat
          BY DEF Revs
        <5> QED BY <2>v, <4>1, <5>1, <5>2
      <4>6. stamping.at \notin {"off", "lock", "serve"} /\ db.version <= db'.version
        BY <2>v, <3>1, <3>3
      <4> QED BY <3>1, <3>3, <3>5, <4>1, <4>4, <4>5, <4>6, DatabaseSteps
    <3>6. CASE /\ rep' = [rep EXCEPT ![r] = serving] /\ migLock' = NoReplica /\ ahead' = ahead
               /\ rep[r].at = "reconcile" /\ rep[r].plan # "baseline"
      <4>1. db.version = ImageOf[r]
        BY <2>s, <3>6 DEF Knows
      <4>2. rep'[r] = serving
        BY <2>s, <3>6 DEF OneMigrator
      <4>3. Complete(r)'
        BY <3>1 DEF Complete, more
      <4>4. Knows(r)'
        BY <2>v, <3>1, <3>3, <4>1, <4>2, <4>3 DEF Knows
      <4>5. \A c \in db'.cols : c \in db.cols \/
              \E v \in Revs : c \in AddedBy[v] /\ (v <= db'.version \/ v <= ahead')
        BY <3>1, <3>4, <4>1
      <4>6. ahead' \in 0..MaxRev /\ ahead <= ahead' /\ db.version <= db'.version
        BY <2>s, <2>v, <3>1, <3>6 DEF OneMigrator
      <4> QED BY <3>1, <3>3, <3>6, <4>4, <4>5, <4>6, DatabaseSteps
    <3> QED BY <3>2, <3>5, <3>6
  <2>9. ASSUME NEW r \in Replicas, UpgradeChain(r) PROVE MigrateInv'
    <3> DEFINE new == [rep[r] EXCEPT !.at = "reconcile"]
               image == ImageOf[r]
               todo == db.version + 1..image
               cols == {c \in db.cols \cup UNION {AddedBy[v] : v \in todo} :
                          \A s \in todo : c \in DroppedBy[s] => \E v \in s+1..image : c \in AddedBy[v]}
    <3>1. new \in Container /\ new.at = "reconcile" /\ new.plan = rep[r].plan
      BY <2>e DEF Steps
    <3>2. /\ rep' = [rep EXCEPT ![r] = new] /\ UNCHANGED <<migLock, ahead>>
          /\ Migrates(r) /\ rep[r].at = "upgrade" /\ db.version <= image
      BY <2>9 DEF UpgradeChain, Step, AtStep, Migrates
    <3>3. todo \subseteq Revs
      BY <2>v, RevsAreNat DEF Revs
    <3>4. db' = [db EXCEPT !.version = image, !.cols = cols]
      BY <2>9, Zenon DEF UpgradeChain, Applied
    <3>5. /\ \A c \in cols : c \in db.cols \/ \E v \in todo : c \in AddedBy[v]
          /\ \A c \in db.cols : c \in cols \/ \E v \in todo : c \in DroppedBy[v]
      OBVIOUS
    <3>6. /\ \A v \in todo : v \in Nat /\ v <= image
          /\ cols \subseteq (UNION {AddedBy[v] : v \in Revs}) \cup OldTables
      <4>1. db.cols \subseteq (UNION {AddedBy[v] : v \in Revs}) \cup OldTables
        BY <2>s, SchemaShape
      <4> QED BY <2>v, <3>3, <3>5, <4>1
    <3>7. image \in 0..MaxRev /\ todo = db.version+1..image
      BY <2>v
    <3>c. image = ImageOf[r]
      OBVIOUS
    <3> HIDE DEF new, image, todo, cols
    <3>8. db' \in Schemas /\ db'.version = image /\ db'.cols = cols
      BY <2>s, <3>4, <3>6, <3>7 DEF OneMigrator, Schemas
    <3>9. Knows(r)'
      <4>1. rep'[r] = new
        BY <2>s, <3>2 DEF OneMigrator
      <4>2. rep[r].plan = "pending"
        BY <2>s, <3>2 DEF Knows
      <4> QED BY <3>1, <3>8, <3>c, <4>1, <4>2 DEF Knows
    <3>10. \A c \in db'.cols : c \in db.cols \/
              \E v \in Revs : c \in AddedBy[v] /\ (v <= db'.version \/ v <= ahead')
      BY <3>3, <3>5, <3>6, <3>8
    <3>11. \A c \in db.cols : c \in db'.cols \/ \E v \in db.version+1..db'.version : c \in DroppedBy[v]
      BY <3>5, <3>7, <3>8
    <3>12. ahead' \in 0..MaxRev /\ ahead <= ahead' /\ db.version <= db'.version
      BY <2>s, <2>v, <3>2, <3>8 DEF OneMigrator
    <3>13. new.at \notin {"off", "lock", "serve"}
      BY <3>1
    <3> QED BY <3>1, <3>2, <3>8, <3>9, <3>10, <3>11, <3>12, <3>13, DatabaseSteps
  <2>10. ASSUME NEW r \in Replicas, Stamp(r) PROVE MigrateInv'
    <3> DEFINE serving == [Off EXCEPT !.at = "serve"]
    <3>1. /\ rep' = [rep EXCEPT ![r] = serving] /\ migLock' = NoReplica /\ ahead' = ahead
          /\ Migrates(r) /\ rep[r].at = "stamp"
      BY <2>10 DEF Stamp, AtStep, Migrates
    <3>2. db' \in Schemas /\ db'.version = ImageOf[r] /\ db'.cols = db.cols
      BY <2>10, <2>s, <2>v DEF Stamp, OneMigrator, Schemas
    <3>3. serving \in Container /\ serving.at = "serve"
      BY <1>0
    <3> HIDE DEF serving
    <3>4. db.version = 0 /\ Declared(ImageOf[r]) \subseteq db.cols
      BY <2>s, <3>1 DEF Knows
    <3>5. Knows(r)'
      <4>1. rep'[r] = serving
        BY <2>s, <3>1 DEF OneMigrator
      <4> QED BY <2>v, <3>2, <3>3, <3>4, <4>1 DEF Knows, Complete
    <3>6. ahead' \in 0..MaxRev /\ ahead <= ahead' /\ db.version <= db'.version
      BY <2>s, <2>v, <3>1, <3>2, <3>4 DEF OneMigrator
    <3> QED BY <3>1, <3>2, <3>3, <3>5, <3>6, DatabaseSteps
  <2> QED BY <2>1, <2>2, <2>3, <2>4, <2>5, <2>6, <2>7, <2>8, <2>9, <2>10 DEF MigrateNext, MigrateStep
<1> QED BY <1>1, <1>2, PTL DEF MigrateSpec

-----------------------------------------------------------------------------
(* A container that serves has every column its models declare, but for what *)
(* a later revision dropped under it after a person allowed that.            *)
THEOREM ServesComplete == MigrateSpec => []ServingSchemaComplete
<1>1. MigrateInv => ServingSchemaComplete
  BY DEF MigrateInv, Knows, Complete, ServingSchemaComplete, AtStep
<1> QED BY <1>1, MigrateInductive, PTL

(* The chain runs on exactly the database this container dumped, and no      *)
(* earlier start put a column in its way, but for models that went in        *)
(* without their stamp.                                                      *)
THEOREM ChainRunsOnItsDump == MigrateSpec => []UpgradeIsSafe
<1>1. MigrateInv => UpgradeIsSafe
  <2> SUFFICES ASSUME MigrateInv, NEW r \in Replicas, rep[r].at = "upgrade"
               PROVE  rep[r].dump = {db} /\ (Collides(r) => ahead > db.version)
    BY DEF UpgradeIsSafe, AtStep
  <2>1. rep[r].dump = {db} /\ db.version # 0
    BY DEF MigrateInv, Knows
  <2>2. ASSUME Collides(r), ~(ahead > db.version) PROVE FALSE
    <3>v. /\ db.version \in Nat /\ ahead \in Nat /\ ImageOf[r] \in Nat /\ ImageOf[r] <= MaxRev
          /\ MaxRev \in Nat
      BY SchemaShape, RevsAreNat DEF MigrateInv
    <3>1. PICK v \in Pending(r) : \E c \in AddedBy[v] : c \in db.cols
      BY <2>2 DEF Collides
    <3>2. PICK c \in AddedBy[v] : c \in db.cols
      BY <3>1
    <3>3. v \in Revs /\ v > db.version /\ v # 1
      BY <2>1, <3>v DEF Pending, Revs
    <3>4. c \notin OldTables
      BY <3>2, <3>3, OldTablesAreOld
    <3>5. PICK w \in Revs : c \in AddedBy[w] /\ (w <= db.version \/ w <= ahead)
      BY <3>2, <3>4 DEF MigrateInv, ColumnsAccounted
    <3>6. w # v
      BY <2>2, <3>v, <3>3, <3>5 DEF Revs
    <3> QED BY <3>2, <3>3, <3>5, <3>6, RevsAddOnce
  <2> QED BY <2>1, <2>2
<1> QED BY <1>1, MigrateInductive, PTL

(* No container serves without its columns, and none upgrades anything but   *)
(* the database it dumped.                                                   *)
THEOREM StartsAreSafe == MigrateSpec => []StartUpIsSafe
<1>1. ServingSchemaComplete /\ UpgradeIsSafe => StartUpIsSafe
  BY DEF StartUpIsSafe
<1> QED BY <1>1, ServesComplete, ChainRunsOnItsDump, PTL

(* Every action keeps the types; the lock is held by the one container that  *)
(* is past waiting for it and does not serve yet.                            *)
THEOREM MigrateTyped == MigrateSpec => []MigrateTypeOK
<1> DEFINE Bounds == migLock \in Replicas \cup {NoReplica} /\ starts \in 0..MaxStarts
<1>1. MigrateInit => Bounds
  BY RevsAreNat DEF MigrateInit
<1>2. Bounds /\ [MigrateNext]_migrateVars => Bounds'
  <2> SUFFICES ASSUME Bounds, [MigrateNext]_migrateVars PROVE Bounds'
    OBVIOUS
  <2>1. ASSUME NEW r \in Replicas, StartContainer(r) PROVE Bounds'
    BY <2>1, RevsAreNat DEF StartContainer
  <2>2. ASSUME NEW r \in Replicas, MigrateStep(r), ~StartContainer(r)
        PROVE  starts' = starts /\ migLock' \in {migLock, NoReplica, r}
    BY <2>2, Zenon DEF MigrateStep, TakeMigLock, MakePlan, RefuseToStart, CreateAll, Dump, UpgradeChain,
                UpgradeRaises, Reconcile, Stamp, StopContainer, Leave
  <2>3. CASE UNCHANGED migrateVars
    BY <2>3 DEF migrateVars
  <2> QED BY <2>1, <2>2, <2>3 DEF MigrateNext
<1>3. MigrateInv /\ Bounds => MigrateTypeOK
  <2> SUFFICES ASSUME MigrateInv, Bounds PROVE MigrateTypeOK
    OBVIOUS
  <2>1. \A r \in Replicas : rep[r] \in Container
    BY DEF MigrateInv, OneMigrator
  <2>2. \A r \in Replicas : (migLock = r) = (rep[r].at \notin {"off", "lock", "serve"})
    <3> TAKE r \in Replicas
    <3>1. Migrates(r) <=> migLock = r
      BY DEF MigrateInv, OneMigrator
    <3>2. (migLock = r) \in BOOLEAN /\ (rep[r].at \notin {"off", "lock", "serve"}) \in BOOLEAN
      BY Zenon
    <3> QED BY <3>1, <3>2, Zenon DEF Migrates
  <2>3. \A r \in Replicas : /\ rep[r].at \in Steps
                            /\ rep[r].plan \in {"none", "fresh", "baseline", "pending", "nothing"}
                            /\ rep[r].dump \subseteq Schemas
    BY <2>1 DEF Container
  <2>4. db \in Schemas /\ ahead \in 0..MaxRev
    BY DEF MigrateInv, OneMigrator
  <2> QED BY <2>2, <2>3, <2>4, Zenon DEF MigrateTypeOK, Steps
<1> QED BY <1>1, <1>2, <1>3, MigrateInductive, PTL DEF MigrateSpec
=============================================================================
