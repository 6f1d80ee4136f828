---------------------------- MODULE UpdaterEngine ----------------------------
(***************************************************************************)
(* The host updater's engine on one instance (updater/pinpoint_updater/      *)
(* engine.py, steps.py, locking.py, lockfile.py): runners that contend for   *)
(* the instance's flock and then resolve, verify, back up, pull, migrate,    *)
(* recreate, check, undo and commit, and may die between any two steps.      *)
(*                                                                         *)
(* A release stands for a tag, its backend and frontend digests and the      *)
(* stamp of its backend image.  Schema revisions are the positions of the    *)
(* linear Alembic chain.                                                     *)
(***************************************************************************)
EXTENDS Naturals, FiniteSets

CONSTANTS
  Runners,        \* processes that may act on the instance
  Operators,      \* those started on the host's command line; the others poll
  Nobody,         \* the flock is free
  Services,       \* the compose services an upgrade recreates
  Backend,        \* the one whose image runs the migrator and reports a version
  Releases,
  NoRelease,      \* release.lock records no previous release
  Trusted,        \* releases whose signatures verify
  VersionOf,      \* [Releases -> Nat], the order of version_key
  Rev,            \* [Releases -> Nat], the image's head revision
  Window,         \* [Releases -> SUBSET Nat], {min_db_revision, db_revision} or {}
  Destructive,    \* revisions that drop or rewrite data
  BackupIsOn,     \* backup.mode is not "off"
  HandEdits,      \* an operator may give release.lock a value it cannot write back
  Unknown,        \* /api/health/quick reports no db_revision
  MaxStrays       \* bound: migrator containers outliving their client at once

ASSUME OperatorsRun == Operators \subseteq Runners /\ Nobody \notin Runners
ASSUME BackendServes == Backend \in Services
ASSUME TrustedReleases == Trusted \subseteq Releases /\ NoRelease \notin Releases
ASSUME ReleaseStamps == /\ VersionOf \in [Releases -> Nat]
                        /\ Rev \in [Releases -> Nat]
                        /\ Window \in [Releases -> SUBSET Nat]
ASSUME UnknownIsNoRevision == Unknown \notin Nat
ASSUME SettingsAreBoolean == BackupIsOn \in BOOLEAN /\ HandEdits \in BOOLEAN

Steps == {"decide", "backup", "pull", "migrate", "recreate", "health",
          "undo", "undo_health", "commit", "restart", "restart_health"}
Outcomes == {"succeeded", "noop", "refused", "needs_approval", "migration_failed", "rolled_back",
             "rollback_failed", "error", "locked", "not_confirmed"}

Images == [Services -> Releases]

Job == [ pc     : {"idle"} \cup Steps,
         action : {"upgrade", "rollback", "restart"},
         target : Releases,
         from   : Releases,              \* state.current as the run read it
         allow  : BOOLEAN,               \* allow_destructive
         seen   : Nat \cup {Unknown},    \* the one health read before the upgrade
         saved  : BOOLEAN,               \* a backup was taken (and verified)
         found  : Images ]               \* history: what ran when the run began

Stray == [release : Releases, allow : BOOLEAN]

VARIABLES
  flock,     \* who holds .pinpoint-updater.lock
  lock,      \* release.lock; safe: render_lock accepts its extra values
  runs,      \* the release each service's container runs
  up,        \* the backend container got past its entrypoint
  db,        \* alembic_version
  stray,     \* migrator containers whose docker client was killed
  job,       \* what each runner is doing
  said       \* the last outcome in <instance>.jsonl; "none", or "died" without one

engineVars == <<flock, lock, runs, up, db, stray, job, said>>

(* Every variable keeps its type through every step, crash and stray.        *)
TypeOK ==
  /\ flock \in Runners \cup {Nobody}
  /\ lock \in [current : Releases, previous : Releases \cup {NoRelease}, safe : BOOLEAN]
  /\ runs \in Images
  /\ up \in BOOLEAN
  /\ db \in Nat
  /\ stray \in SUBSET Stray
  /\ job \in [Runners -> Job]
  /\ said \in Outcomes \cup {"none", "died"}

AnyRelease == CHOOSE r \in Releases : TRUE

On(r) == [s \in Services |-> r]

IdleJob == [ pc |-> "idle", action |-> "restart", target |-> AnyRelease, from |-> AnyRelease,
             allow |-> FALSE, seen |-> Unknown, saved |-> FALSE, found |-> On(AnyRelease) ]

(* The rollout that wrote the first lock left a trusted release running on   *)
(* its own schema.                                                           *)
Init ==
  /\ flock = Nobody
  /\ \E r \in Trusted :
       /\ lock = [current |-> r, previous |-> NoRelease, safe |-> TRUE]
       /\ runs = On(r) /\ db = Rev[r]
  /\ up = TRUE /\ stray = {} /\ said = "none"
  /\ job = [p \in Runners |-> IdleJob]

At(p, pc) == job[p].pc = pc
Become(p, j) == job' = [job EXCEPT ![p] = j]
Goto(p, pc) == Become(p, [job[p] EXCEPT !.pc = pc]) /\ UNCHANGED <<flock, said>>
Instance == <<lock, runs, up, db, stray>>
Schema == <<db, stray>>
Containers == <<runs, up>>

(* RunOutcome: the run ends, its flock is released, the word is logged. *)
FinishMutant(p, word) ==
  /\ Become(p, IdleJob)
  /\ said' = word
  /\ UNCHANGED flock
Finish(p, word) ==
  /\ Become(p, IdleJob)
  /\ flock' = Nobody
  /\ said' = word

-----------------------------------------------------------------------------
(* Inside the containers: the migrator, and the entrypoint that runs it      *)
(* before the app.  A database ahead of the image holds a revision the       *)
(* image's chain does not have, and walking the chain from it fails.         *)

Blocked(r, allow) == ~ allow /\ \E d \in Destructive : db < d /\ d <= Rev[r]
CanMigrate(r, allow) == db < Rev[r] /\ ~ Blocked(r, allow)
CanBoot(r) == db = Rev[r] \/ CanMigrate(r, FALSE)

(* entrypoint.sh: migrate, then serve; the app may still fail to come up. *)
Reboot(r) ==
  /\ UNCHANGED db \/ (CanMigrate(r, FALSE) /\ db' = Rev[r])
  /\ up' \in BOOLEAN
  /\ up' => db' = Rev[r]

(* docker compose up -d --no-deps: the services it got to run r's images.  A  *)
(* container already on the image is left alone unless it is crash-looping.  *)
Recreate(r, moved) ==
  /\ runs' = [s \in Services |-> IF s \in moved THEN r ELSE runs[s]]
  /\ IF Backend \in moved /\ (runs[Backend] # r \/ ~ up)
       THEN Reboot(r)
       ELSE UNCHANGED <<up, db>>
  /\ UNCHANGED stray

(* One round of steps.health in which every check passes. *)
Healthy(r, expectDb) ==
  /\ up
  /\ VersionOf[runs[Backend]] = VersionOf[r]
  /\ expectDb => db = Rev[r]

-----------------------------------------------------------------------------
(* The start of a run: flock without waiting, then read_lock.                *)

FlockFreeMutant(p) == TRUE
FlockFree(p) == flock = Nobody

Begin(p, action, r, allow) ==
  /\ At(p, "idle")
  /\ IF FlockFree(p)
       THEN /\ flock' = p
            /\ Become(p, [IdleJob EXCEPT !.pc = "decide", !.action = action, !.target = r,
                            !.from = lock.current, !.allow = allow, !.found = runs])
            /\ UNCHANGED said
       ELSE said' = "locked" /\ UNCHANGED <<flock, job>>
  /\ UNCHANGED Instance

(* Resolve, pre-flight and approval may each stop a run; so may a backup, a   *)
(* pull or a broken network: nothing has changed yet.                        *)
Refuse(p) ==
  /\ job[p].pc \in {"decide", "backup", "pull"}
  /\ job[p].action # "restart"
  /\ Finish(p, "refused")
  /\ UNCHANGED Instance

Noop(p) ==
  /\ At(p, "decide") /\ job[p].action = "upgrade"
  /\ job[p].target = job[p].from
  /\ Finish(p, "noop")
  /\ UNCHANGED Instance

-----------------------------------------------------------------------------
(* upgrade                                                                   *)

DowngradeRefusedMutant(p) == FALSE
DowngradeRefused(p) ==
  p \notin Operators /\ VersionOf[job[p].target] < VersionOf[job[p].from]

Compatible(r, seen) == seen = Unknown \/ Window[r] = {} \/ seen \in Window[r]

VerifiedMutant(r) == TRUE
Verified(r) == r \in Trusted

(* _upgrade_locked up to the approval: read_health needs an app that answers, *)
(* and may answer without a db_revision.                                     *)
UpgradePasses(p, seen) ==
  /\ job[p].action = "upgrade" /\ job[p].target # job[p].from
  /\ ~ DowngradeRefused(p)
  /\ lock.safe
  /\ up /\ seen \in {db, Unknown}
  /\ Verified(job[p].target)
  /\ Compatible(job[p].target, seen)

Preflight(p, seen) ==
  /\ At(p, "decide") /\ UpgradePasses(p, seen)
  /\ Become(p, [job[p] EXCEPT !.pc = "backup", !.seen = seen])
  /\ UNCHANGED <<flock, said, Instance>>

BackupMutant(p) ==
  /\ At(p, "backup")
  /\ Goto(p, "pull")
  /\ UNCHANGED Instance

Backup(p) ==
  /\ At(p, "backup")
  /\ Become(p, [job[p] EXCEPT !.pc = "pull", !.saved = BackupIsOn])
  /\ UNCHANGED <<flock, said, Instance>>

Pull(p) ==
  /\ At(p, "pull")
  /\ Goto(p, IF job[p].action = "upgrade" THEN "migrate" ELSE "recreate")
  /\ UNCHANGED Instance

NeedsMigrationMutant(p) == job[p].seen # Unknown /\ job[p].seen # Rev[job[p].target]
NeedsMigration(p) == job[p].seen # Rev[job[p].target]

SkipMigration(p) ==
  /\ At(p, "migrate") /\ ~ NeedsMigration(p)
  /\ Goto(p, "recreate")
  /\ UNCHANGED Instance

(* The one-off migrator container of the new image, by its exit code.        *)
MigrationGated(p) ==
  /\ At(p, "migrate") /\ NeedsMigration(p)
  /\ Blocked(job[p].target, job[p].allow)
  /\ Finish(p, "needs_approval")
  /\ UNCHANGED Instance

MigrationDone(p) ==
  /\ At(p, "migrate") /\ NeedsMigration(p)
  /\ db = Rev[job[p].target] \/ CanMigrate(job[p].target, job[p].allow)
  /\ db' = Rev[job[p].target]
  /\ Goto(p, "recreate")
  /\ UNCHANGED <<lock, Containers, stray>>

(* Exit 1, 3, or the client killed at migrate_timeout: the chain runs in one  *)
(* transaction, and a killed client leaves its container running.            *)
LeavesStray(p) ==
  \/ UNCHANGED stray
  \/ /\ Cardinality(stray) < MaxStrays
     /\ stray' = stray \cup {[release |-> job[p].target, allow |-> job[p].allow]}

MigrationFails(p) ==
  /\ At(p, "migrate") /\ NeedsMigration(p)
  /\ \/ UNCHANGED db
     \/ CanMigrate(job[p].target, job[p].allow) /\ db' = Rev[job[p].target]
  /\ LeavesStray(p)
  /\ Finish(p, "migration_failed")
  /\ UNCHANGED <<lock, Containers>>

StrayLands(m) ==
  /\ m \in stray
  /\ stray' = stray \ {m}
  /\ db' \in {db} \cup (IF CanMigrate(m.release, m.allow) THEN {Rev[m.release]} ELSE {})
  /\ UNCHANGED <<flock, lock, Containers, job, said>>

-----------------------------------------------------------------------------
(* Shared by upgrade and rollback.                                           *)

ComposeUp(p) ==
  /\ At(p, "recreate")
  /\ \/ Recreate(job[p].target, Services) /\ Goto(p, "health")
     \/ \E moved \in SUBSET Services : Recreate(job[p].target, moved) /\ Goto(p, "undo")
  /\ UNCHANGED lock

HealthCheck(p) ==
  /\ At(p, "health")
  /\ \/ Healthy(job[p].target, job[p].action = "upgrade") /\ Goto(p, "commit")
     \/ Goto(p, "undo")
  /\ UNCHANGED Instance

(* _roll_back: the previous images again; the database is not restored. *)
Undo(p) ==
  /\ At(p, "undo")
  /\ \/ Recreate(job[p].from, Services) /\ Goto(p, "undo_health")
     \/ \E moved \in SUBSET Services : Recreate(job[p].from, moved) /\ Finish(p, "rollback_failed")
  /\ UNCHANGED lock

UndoHealth(p) ==
  /\ At(p, "undo_health")
  /\ \/ Healthy(job[p].from, FALSE) /\ Finish(p, "rolled_back")
     \/ Finish(p, "rollback_failed")
  /\ UNCHANGED Instance

NewLock(p) == [current |-> job[p].target, previous |-> job[p].from, safe |-> lock.safe]

Commit(p) ==
  /\ At(p, "commit") /\ lock.safe
  /\ lock' = NewLock(p)
  /\ Finish(p, "succeeded")
  /\ UNCHANGED <<Containers, Schema>>

(* write_lock raises.  upgrade catches it; from rollback an OSError escapes   *)
(* the engine and the pass, without an outcome.                              *)
CommitFails(p) ==
  /\ At(p, "commit")
  /\ Finish(p, IF job[p].action = "upgrade" THEN "error" ELSE "died")
  /\ UNCHANGED Instance

(* A value that render_lock refuses: upgrade looked in its pre-flight,        *)
(* rollback did not, and cli.py calls any LockFileError of a console request  *)
(* refused.                                                                  *)
CommitUnsafe(p) ==
  /\ At(p, "commit") /\ ~ lock.safe /\ job[p].action = "rollback"
  /\ Finish(p, IF p \in Operators THEN "died" ELSE "refused")
  /\ UNCHANGED Instance

-----------------------------------------------------------------------------
(* rollback and restart, up to the first command that changes something      *)

RollbackPasses(p) ==
  job[p].action = "rollback" /\ lock.previous # NoRelease /\ Verified(lock.previous)

RollbackPreflight(p) ==
  /\ At(p, "decide") /\ RollbackPasses(p)
  /\ Become(p, [job[p] EXCEPT !.pc = "pull", !.target = lock.previous])
  /\ UNCHANGED <<flock, said, Instance>>

NotConfirmed(p) ==
  /\ At(p, "decide")
  /\ \/ \E seen \in {db, Unknown} : UpgradePasses(p, seen)
     \/ RollbackPasses(p)
     \/ job[p].action = "restart"
  /\ Finish(p, "not_confirmed")
  /\ UNCHANGED Instance

RestartApproved(p) ==
  /\ At(p, "decide") /\ job[p].action = "restart"
  /\ Goto(p, "restart")
  /\ UNCHANGED Instance

(* The restart policy of docker-compose.yml, or a reboot of the host. *)
ContainerRestarts ==
  /\ Reboot(runs[Backend])
  /\ UNCHANGED <<flock, lock, runs, stray, job, said>>

(* docker compose restart: the same containers, through the entrypoint again. *)
Restart(p) ==
  /\ At(p, "restart")
  /\ \/ Reboot(runs[Backend]) /\ (Goto(p, "restart_health") \/ Finish(p, "error"))
     \/ UNCHANGED <<up, db>> /\ Finish(p, "error")
  /\ UNCHANGED <<lock, runs, stray>>

RestartHealth(p) ==
  /\ At(p, "restart_health")
  /\ \/ Healthy(job[p].from, FALSE) /\ Finish(p, "succeeded")
     \/ Finish(p, "error")
  /\ UNCHANGED Instance

-----------------------------------------------------------------------------
(* systemd ends the pass (TimeoutStartSec), the host goes down: the kernel    *)
(* frees the flock; what the docker daemon was doing may be half done.       *)
Crash(p) ==
  /\ job[p].pc # "idle"
  /\ \/ /\ At(p, "recreate")
        /\ \E moved \in SUBSET Services : Recreate(job[p].target, moved)
     \/ /\ At(p, "undo")
        /\ \E moved \in SUBSET Services : Recreate(job[p].from, moved)
     \/ /\ At(p, "migrate") /\ NeedsMigration(p)
        /\ LeavesStray(p) /\ UNCHANGED <<db, Containers>>
     \/ At(p, "restart") /\ Reboot(runs[Backend]) /\ UNCHANGED <<runs, stray>>
     \/ UNCHANGED <<Schema, Containers>>
  /\ Finish(p, "died")
  /\ UNCHANGED lock

(* An operator adds a key of their own to release.lock, between runs.        *)
EditLock ==
  /\ HandEdits /\ flock = Nobody
  /\ lock' = [lock EXCEPT !.safe = ~ @]
  /\ UNCHANGED <<flock, Containers, Schema, job, said>>

-----------------------------------------------------------------------------
Step(p) ==
  \/ Refuse(p) \/ NotConfirmed(p) \/ Noop(p)
  \/ \E seen \in {db, Unknown} : Preflight(p, seen)
  \/ Backup(p) \/ Pull(p) \/ SkipMigration(p) \/ MigrationGated(p) \/ MigrationDone(p)
  \/ MigrationFails(p) \/ ComposeUp(p) \/ HealthCheck(p) \/ Undo(p) \/ UndoHealth(p)
  \/ Commit(p) \/ CommitFails(p) \/ CommitUnsafe(p)
  \/ RollbackPreflight(p) \/ RestartApproved(p) \/ Restart(p) \/ RestartHealth(p)

BeginAny(p) ==
  \/ \E r \in Releases, allow \in BOOLEAN : Begin(p, "upgrade", r, allow)
  \/ \E action \in {"rollback", "restart"} : Begin(p, action, AnyRelease, FALSE)

Next ==
  \/ \E p \in Runners : BeginAny(p) \/ Step(p) \/ Crash(p)
  \/ \E m \in stray : StrayLands(m)
  \/ ContainerRestarts \/ EditLock

Spec == Init /\ [][Next]_engineVars

(* Every command and every probe of a run has a timeout. *)
FairSpec == Spec /\ \A p \in Runners : WF_engineVars(Step(p))

-----------------------------------------------------------------------------
(* Properties                                                                *)

Ends(p) == job[p].pc # "idle" /\ job'[p].pc = "idle"

(* Every outcome says what is true of the instance (exitcodes.py, models.py): *)
(* a run that stopped before the recreate left every container and           *)
(* release.lock as it found them; succeeded and rolled_back name what all     *)
(* services run.                                                             *)
Honest(p) ==
  /\ said' \in {"noop", "refused", "needs_approval", "not_confirmed", "migration_failed"}
       => runs' = job[p].found /\ lock' = lock
  /\ said' = "succeeded" /\ job[p].action # "restart"
       => runs' = On(job[p].target) /\ lock'.current = job[p].target /\ lock'.previous = lock.current
  /\ said' = "rolled_back" => runs' = On(lock.current) /\ lock' = lock

HonestOutcomes == [][\A p \in Runners : Ends(p) => Honest(p)]_engineVars

(* No backend is ever on the instance before its schema: whatever was         *)
(* skipped, timed out or died, the database has the image's revision.         *)
SchemaBeforeCode ==
  /\ Rev[runs[Backend]] <= db
  /\ Rev[lock.current] <= db

(* With backups on, the schema moves only in a run that has its restore point, *)
(* or by a migrator such a run left behind; never at a container's start.     *)
SchemaAfterBackup ==
  [][BackupIsOn /\ db' # db
       => stray' # stray \/ \E p \in Runners : At(p, "migrate") /\ job[p].saved]_engineVars

(* Only trusted releases ever run, and release.lock names what every service  *)
(* was running when it was written.                                          *)
Pinned == INSTANCE PinnedRelease WITH
  pinned <- lock.current,
  serving <- {runs[s] : s \in Services},
  busy <- flock # Nobody

KeepsPinned == Pinned!Spec

(* A console upgrade puts an older version over the running one. *)
StepsBack(p) ==
  /\ p \notin Operators /\ job[p].action = "upgrade" /\ At(p, "recreate")
  /\ runs' # runs
  /\ VersionOf[job[p].target] < VersionOf[job[p].found[Backend]]

(* A console upgrade never installs a release older than the one running,     *)
(* where its run found what release.lock names running: the comparison is    *)
(* with release.lock.                                                        *)
NoOlderThanLocked ==
  [][\A p \in Runners : StepsBack(p) => job[p].found # On(job[p].from)]_engineVars

(* After an automatic rollback over additive migrations only, the previous    *)
(* release can start on the schema the failed upgrade left.                  *)
OldVersionStillRuns ==
  \A p \in Runners :
    At(p, "undo_health") /\ job[p].action = "upgrade"
      /\ (\A d \in Destructive : ~ (Rev[job[p].from] < d /\ d <= db))
    => CanBoot(job[p].from)

(* Every run ends and gives the flock back, whatever it met.                  *)
FlockIsFreed == flock # Nobody ~> flock = Nobody
=============================================================================
