--------------------------- MODULE SchemaMigration ---------------------------
(***************************************************************************)
(* Containers of several images starting on one database                   *)
(* (db/migrate.py, scripts/entrypoint.sh): each takes the advisory lock,    *)
(* plans, dumps, runs the revision chain, closes the additive gap to its    *)
(* models and serves, or refuses to start.  UpdaterEngine has what one      *)
(* upgrade sees of this; here containers of one and of different images     *)
(* start together, and any of them may be killed between two statements.    *)
(*                                                                         *)
(* Revisions are 1, 2, ...; an image is the number of its newest revision.  *)
(* A column stands for whatever one revision adds or drops.                 *)
(***************************************************************************)
EXTENDS Naturals, FiniteSets

CONSTANTS
  Replicas,      \* containers: backend and worker of one or more releases
  NoReplica,     \* nobody holds the lock
  MaxRev,        \* newest revision of any image
  AddedBy,       \* revision -> columns it adds
  DroppedBy,     \* revision -> columns it drops, which makes it destructive
  ImageOf,       \* replica -> its image
  HumanAllows,   \* replicas started with PINPOINT_ALLOW_DESTRUCTIVE_MIGRATION=1
  OldTables,     \* columns of an installation older than the migrator
  MaxStarts      \* bound: starts of a container

Revs == 1..MaxRev
ASSUME RevsAreNat == MaxRev \in Nat /\ MaxStarts \in Nat /\ NoReplica \notin Replicas
ASSUME ImagesAreRevs == ImageOf \in [Replicas -> Revs] /\ HumanAllows \subseteq Replicas
ASSUME RevsAddOnce ==
  /\ AddedBy \in [Revs -> SUBSET Nat] /\ DroppedBy \in [Revs -> SUBSET Nat]
  /\ \A r, s \in Revs : r # s => AddedBy[r] \cap AddedBy[s] = {}
ASSUME OldTablesAreOld == \A v \in Revs : v # 1 => OldTables \cap AddedBy[v] = {}

(* The models of an image declare what its chain leaves.                     *)
Declared(image) ==
  {c \in UNION {AddedBy[r] : r \in 1..image} : \A s \in 1..image : c \in DroppedBy[s] =>
      \E r \in s+1..image : c \in AddedBy[r]}

VARIABLES
  db,        \* [tables, version, cols]: version 0 is no alembic_version row
  migLock,   \* holder of the advisory lock
  rep,       \* [at, plan, dump] of each container
  starts,
  ahead      \* history: newest image whose models went in before any stamp

migrateVars == <<db, migLock, rep, starts, ahead>>

Schemas == [tables : BOOLEAN, version : 0..MaxRev,
            cols : SUBSET ((UNION {AddedBy[r] : r \in Revs}) \cup OldTables)]
Off == [at |-> "off", plan |-> "none", dump |-> {}]

(* Values stay in their types; the lock is held by the one container that is *)
(* past waiting for it and does not serve yet.                               *)
MigrateTypeOK ==
  /\ db \in Schemas /\ migLock \in Replicas \cup {NoReplica} /\ starts \in 0..MaxStarts
  /\ ahead \in 0..MaxRev
  /\ \A r \in Replicas :
       /\ rep[r].at \in {"off", "lock", "plan", "create", "dump", "upgrade", "reconcile",
                         "stamp", "serve"}
       /\ rep[r].plan \in {"none", "fresh", "baseline", "pending", "nothing"}
       /\ rep[r].dump \subseteq Schemas
       /\ (migLock = r) = (rep[r].at \notin {"off", "lock", "serve"})

(* An empty database, or one that create_all made before there was a chain.  *)
MigrateInit ==
  /\ \E old \in BOOLEAN :
       db = [tables |-> old, version |-> 0, cols |-> IF old THEN OldTables ELSE {}]
  /\ migLock = NoReplica /\ rep = [r \in Replicas |-> Off] /\ starts = 0 /\ ahead = 0

AtStep(r, at) == rep[r].at = at
Step(r, at) == rep' = [rep EXCEPT ![r].at = at]
Leave(r) == rep' = [rep EXCEPT ![r] = Off] /\ migLock' = NoReplica

StartContainer(r) ==
  /\ AtStep(r, "off") /\ starts < MaxStarts /\ starts' = starts + 1 /\ Step(r, "lock")
  /\ UNCHANGED <<db, migLock, ahead>>

MigLockFreeMutant(r) == TRUE
MigLockFree(r) == migLock = NoReplica

TakeMigLock(r) ==
  /\ AtStep(r, "lock") /\ MigLockFree(r) /\ migLock' = r /\ Step(r, "plan")
  /\ UNCHANGED <<db, starts, ahead>>

(* build_plan.  A revision the image does not have makes Alembic raise.      *)
PlanOf(r) ==
  CASE db.version = 0 /\ db.tables -> "baseline"
    [] db.version = 0 -> "fresh"
    [] db.version = ImageOf[r] -> "nothing"
    [] OTHER -> "pending"
Pending(r) == db.version + 1..ImageOf[r]
BlockedPlan(r) == (\E v \in Pending(r) : DroppedBy[v] # {}) /\ r \notin HumanAllows

FirstStepMutant(plan) == CASE plan = "fresh" -> "create" [] plan = "pending" -> "dump"
                           [] plan = "baseline" -> "stamp" [] OTHER -> "reconcile"
FirstStep(plan) == CASE plan = "fresh" -> "create" [] plan = "pending" -> "dump"
                     [] OTHER -> "reconcile"

MakePlan(r) ==
  /\ AtStep(r, "plan") /\ db.version <= ImageOf[r]
  /\ PlanOf(r) = "pending" => ~BlockedPlan(r)
  /\ rep' = [rep EXCEPT ![r] = [@ EXCEPT !.at = FirstStep(PlanOf(r)), !.plan = PlanOf(r)]]
  /\ UNCHANGED <<db, migLock, starts, ahead>>

RefuseToStart(r) ==
  /\ AtStep(r, "plan") /\ Leave(r)
  /\ \/ db.version > ImageOf[r]
     \/ PlanOf(r) = "pending" /\ BlockedPlan(r)
  /\ UNCHANGED <<db, starts, ahead>>

WithoutStamp(r) == ahead' = IF ImageOf[r] > ahead THEN ImageOf[r] ELSE ahead

(* create_all commits on a connection of its own; the stamp is another one.  *)
CreateAll(r) ==
  /\ AtStep(r, "create") /\ Step(r, "stamp")
  /\ db' = [db EXCEPT !.tables = TRUE, !.cols = @ \cup Declared(ImageOf[r])]
  /\ WithoutStamp(r) /\ UNCHANGED <<migLock, starts>>

Dump(r) ==
  /\ AtStep(r, "dump")
  /\ rep' = [rep EXCEPT ![r] = [@ EXCEPT !.at = "upgrade", !.dump = {db}]]
  /\ UNCHANGED <<db, migLock, starts, ahead>>

(* alembic upgrade head: the pending revisions in one transaction.  ADD      *)
(* COLUMN has no IF NOT EXISTS, so a column that is there undoes them all.   *)
Applied(d, image) ==
  LET todo == d.version + 1..image
  IN  [d EXCEPT !.version = image,
         !.cols = {c \in @ \cup UNION {AddedBy[v] : v \in todo} :
                     \A s \in todo : c \in DroppedBy[s] => \E v \in s+1..image : c \in AddedBy[v]}]
Collides(r) == \E v \in Pending(r) : \E c \in AddedBy[v] : c \in db.cols

UpgradeChain(r) ==
  /\ AtStep(r, "upgrade") /\ ~Collides(r) /\ db.version <= ImageOf[r]
  /\ db' = Applied(db, ImageOf[r]) /\ Step(r, "reconcile")
  /\ UNCHANGED <<migLock, starts, ahead>>

UpgradeRaises(r) ==
  /\ AtStep(r, "upgrade") /\ (Collides(r) \/ db.version > ImageOf[r]) /\ Leave(r)
  /\ UNCHANGED <<db, starts, ahead>>

(* reconcile: add what the models declare, leave what they do not; one       *)
(* transaction.  A baseline is stamped after it, never before.               *)
Reconcile(r) ==
  /\ AtStep(r, "reconcile") /\ db' = [db EXCEPT !.cols = @ \cup Declared(ImageOf[r])]
  /\ IF rep[r].plan = "baseline" THEN Step(r, "stamp") /\ WithoutStamp(r) /\ UNCHANGED migLock
     ELSE UNCHANGED ahead /\ rep' = [rep EXCEPT ![r] = [Off EXCEPT !.at = "serve"]] /\ migLock' = NoReplica
  /\ UNCHANGED starts

Stamp(r) ==
  /\ AtStep(r, "stamp") /\ db' = [db EXCEPT !.version = ImageOf[r]]
  /\ rep' = [rep EXCEPT ![r] = [Off EXCEPT !.at = "serve"]] /\ migLock' = NoReplica
  /\ UNCHANGED <<starts, ahead>>

(* A failed statement, a failed dump (exit 3), a kill, a stop: the           *)
(* connection closes, its transaction and its lock are gone.                 *)
StopContainer(r) ==
  /\ ~AtStep(r, "off")
  /\ rep' = [rep EXCEPT ![r] = Off]
  /\ migLock' = IF migLock = r THEN NoReplica ELSE migLock
  /\ UNCHANGED <<db, starts, ahead>>

MigrateStep(r) ==
  \/ StartContainer(r) \/ TakeMigLock(r) \/ MakePlan(r) \/ RefuseToStart(r)
  \/ CreateAll(r) \/ Dump(r) \/ UpgradeChain(r) \/ UpgradeRaises(r)
  \/ Reconcile(r) \/ Stamp(r) \/ StopContainer(r)

MigrateNext == \E r \in Replicas : MigrateStep(r)
MigrateSpec == MigrateInit /\ [][MigrateNext]_migrateVars

-----------------------------------------------------------------------------
(* A container that serves has every column its models declare, but for what *)
(* a later revision dropped under it after a person allowed that: whichever  *)
(* containers started with it, in whatever order, and wherever an earlier    *)
(* start was killed (between create_all and the stamp, between the chain and *)
(* the reconciliation).                                                      *)
ServingSchemaComplete ==
  \A r \in Replicas : AtStep(r, "serve") =>
    \A c \in Declared(ImageOf[r]) :
      c \in db.cols \/ \E v \in ImageOf[r]+1..db.version : c \in DroppedBy[v]

(* The chain runs on exactly the database this container dumped, and no      *)
(* earlier start put a column in its way, which would keep every container   *)
(* of the new image from starting ("Alembic first, reconciliation second,    *)
(* always").  The one exception: an image newer than the recorded revision   *)
(* had put its models in and was killed before its stamp, and an older image *)
(* recorded its own head over them.                                          *)
UpgradeIsSafe ==
  \A r \in Replicas : AtStep(r, "upgrade") =>
    rep[r].dump = {db} /\ (Collides(r) => ahead > db.version)

(* However starts overlap and die, a chain runs safely and what serves is    *)
(* complete: both of the above.                                              *)
StartUpIsSafe == ServingSchemaComplete /\ UpgradeIsSafe
=============================================================================
