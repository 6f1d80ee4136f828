------------------------- MODULE UpdaterEngineProofs -------------------------
(***************************************************************************)
(* Theorems about the updater's engine, for every set of runners, services,  *)
(* releases and revisions.                                                   *)
(***************************************************************************)
EXTENDS UpdaterEngine, TLAPS

(* What a run's step does to its own and to the other runners' jobs.         *)
LEMMA JobMoves ==
  ASSUME TypeOK, NEW p \in Runners, NEW j \in Job, Become(p, j)
  PROVE  /\ job' \in [Runners -> Job]
         /\ job'[p] = j
         /\ \A q \in Runners : q # p => job'[q] = job[q]
  BY DEF TypeOK, Become

(* The job of a runner that has none is well formed. *)
LEMMA IdleIsAJob == Releases # {} => IdleJob \in Job
<1>1. Releases # {} => AnyRelease \in Releases
  BY DEF AnyRelease
<1> QED BY <1>1 DEF IdleJob, Job, On, Images

(* Finish frees the flock and leaves the runner idle. *)
LEMMA Finished ==
  ASSUME TypeOK, NEW p \in Runners, NEW word \in Outcomes \cup {"died"}, Finish(p, word)
  PROVE  /\ job' \in [Runners -> Job] /\ job'[p].pc = "idle"
         /\ \A q \in Runners : q # p => job'[q] = job[q]
         /\ flock' = Nobody /\ said' = word
         /\ said' \in Outcomes \cup {"none", "died"}
<1>1. IdleJob \in Job
  BY IdleIsAJob DEF TypeOK
<1> QED BY <1>1, JobMoves DEF Finish, IdleJob

(* Goto moves one runner to another step and changes nothing else of its job. *)
LEMMA Goes ==
  ASSUME TypeOK, NEW p \in Runners, NEW pc \in Steps, Goto(p, pc)
  PROVE  /\ job' \in [Runners -> Job]
         /\ job'[p] = [job[p] EXCEPT !.pc = pc]
         /\ \A q \in Runners : q # p => job'[q] = job[q]
         /\ flock' = flock /\ said' = said
<1>1. [job[p] EXCEPT !.pc = pc] \in Job
  BY DEF TypeOK, Job
<1> QED BY <1>1, JobMoves DEF Goto

(* An entrypoint only moves the schema forward, and an app that comes up is    *)
(* on its own schema.                                                        *)
LEMMA Reboots ==
  ASSUME TypeOK, NEW r \in Releases, Reboot(r)
  PROVE  up' \in BOOLEAN /\ db' \in Nat /\ db <= db'
<1>1. up' \in BOOLEAN
  BY Zenon DEF Reboot
<1>2. db' = db \/ (db < Rev[r] /\ db' = Rev[r])
  BY Zenon DEF Reboot, CanMigrate
<1>3. db \in Nat /\ Rev[r] \in Nat
  BY ReleaseStamps DEF TypeOK
<1> QED BY <1>1, <1>2, <1>3

(* What docker compose up does, whichever services it got to: each runs the   *)
(* new release or its old one, and the schema never moves back.               *)
LEMMA Recreates ==
  ASSUME TypeOK, NEW r \in Releases, NEW moved \in SUBSET Services, Recreate(r, moved)
  PROVE  /\ runs' \in Images /\ up' \in BOOLEAN /\ db' \in Nat /\ db <= db'
         /\ \A s \in Services : runs'[s] \in {runs[s], r}
         /\ moved = Services => runs' = On(r)
         /\ stray' = stray
  BY Reboots DEF TypeOK, Recreate, Images, On

(* A migrator left behind is one more stray. *)
LEMMA StraysTyped ==
  ASSUME TypeOK, NEW p \in Runners, LeavesStray(p)
  PROVE  stray' \in SUBSET Stray
<1>1. [release |-> job[p].target, allow |-> job[p].allow] \in Stray
  BY DEF TypeOK, Stray, Job
<1> QED BY <1>1 DEF LeavesStray, TypeOK

(* Every action keeps the types, and no action moves the schema back.         *)
LEMMA StepTyped ==
  ASSUME TypeOK, [Next]_engineVars
  PROVE  TypeOK' /\ db <= db'
<1> USE DEF Outcomes, Steps
<1>j. \A p \in Runners : job[p] \in Job
  BY DEF TypeOK
<1>1. ASSUME NEW p \in Runners, BeginAny(p)
      PROVE TypeOK' /\ db <= db'
  <2>1. \A action \in {"upgrade", "rollback", "restart"}, r \in Releases, allow \in BOOLEAN :
          [IdleJob EXCEPT !.pc = "decide", !.action = action, !.target = r,
                          !.from = lock.current, !.allow = allow, !.found = runs] \in Job
    BY IdleIsAJob DEF TypeOK, Job
  <2>2. AnyRelease \in Releases
    BY DEF AnyRelease, TypeOK
  <2>3. PICK action \in {"upgrade", "rollback", "restart"}, r \in Releases, allow \in BOOLEAN :
          Begin(p, action, r, allow)
    BY <1>1, <2>2 DEF BeginAny
  <2>4. CASE FlockFree(p)
    <3>1. job' \in [Runners -> Job]
      BY <2>1, <2>3, <2>4, JobMoves DEF Begin
    <3>2. flock' = p /\ said' = said /\ UNCHANGED Instance
      BY <2>3, <2>4 DEF Begin
    <3> QED BY <3>1, <3>2 DEF Instance, TypeOK
  <2>5. CASE ~ FlockFree(p)
    BY <2>3, <2>5 DEF Begin, Instance, TypeOK
  <2> QED BY <2>4, <2>5
<1>2. ASSUME NEW p \in Runners, Refuse(p) \/ NotConfirmed(p) \/ Noop(p) \/ MigrationGated(p)
                                \/ CommitFails(p) \/ CommitUnsafe(p)
      PROVE TypeOK' /\ db <= db'
  <2>1. \E word \in Outcomes \cup {"died"} : Finish(p, word)
    BY <1>2 DEF Refuse, NotConfirmed, Noop, MigrationGated, CommitFails, CommitUnsafe
  <2>2. UNCHANGED Instance
    BY <1>2 DEF Refuse, NotConfirmed, Noop, MigrationGated, CommitFails, CommitUnsafe
  <2> QED BY <2>1, <2>2, Finished DEF Instance, TypeOK
<1>3. ASSUME NEW p \in Runners, NEW seen \in {db, Unknown}, Preflight(p, seen)
      PROVE TypeOK' /\ db <= db'
  <2>1. [job[p] EXCEPT !.pc = "backup", !.seen = seen] \in Job
    BY <1>j DEF TypeOK, Job
  <2> QED BY <1>3, <2>1, JobMoves DEF Preflight, Instance, TypeOK
<1>4. ASSUME NEW p \in Runners, Backup(p)
      PROVE TypeOK' /\ db <= db'
  <2>1. [job[p] EXCEPT !.pc = "pull", !.saved = BackupIsOn] \in Job
    BY <1>j, SettingsAreBoolean DEF Job
  <2> QED BY <1>4, <2>1, JobMoves DEF Backup, Instance, TypeOK
<1>5. ASSUME NEW p \in Runners, RollbackPreflight(p)
      PROVE TypeOK' /\ db <= db'
  <2>1. [job[p] EXCEPT !.pc = "pull", !.target = lock.previous] \in Job
    BY <1>j, <1>5 DEF Job, TypeOK, RollbackPreflight, RollbackPasses
  <2> QED BY <1>5, <2>1, JobMoves DEF RollbackPreflight, Instance, TypeOK
<1>6. ASSUME NEW p \in Runners, Pull(p) \/ SkipMigration(p) \/ RestartApproved(p) \/ HealthCheck(p)
      PROVE TypeOK' /\ db <= db'
  <2>1. PICK pc \in Steps : Goto(p, pc)
    BY <1>6 DEF Pull, SkipMigration, RestartApproved, HealthCheck
  <2>2. UNCHANGED Instance
    BY <1>6 DEF Pull, SkipMigration, RestartApproved, HealthCheck
  <2>3. job' \in [Runners -> Job] /\ flock' = flock /\ said' = said
    BY <2>1, Goes
  <2> QED BY <2>2, <2>3 DEF Instance, TypeOK
<1>7. ASSUME NEW p \in Runners, MigrationDone(p)
      PROVE TypeOK' /\ db <= db'
  <2>1. db <= db' /\ db' \in Nat
    BY <1>7, <1>j, ReleaseStamps DEF MigrationDone, CanMigrate, TypeOK, Job
  <2> QED BY <1>7, <2>1, Goes DEF MigrationDone, TypeOK, Containers
<1>8. ASSUME NEW p \in Runners, MigrationFails(p)
      PROVE TypeOK' /\ db <= db'
  <2>1. db <= db' /\ db' \in Nat
    BY <1>8, <1>j, ReleaseStamps DEF MigrationFails, CanMigrate, TypeOK, Job
  <2> QED BY <1>8, <2>1, Finished, StraysTyped DEF MigrationFails, TypeOK, Containers
<1>9. ASSUME NEW p \in Runners, ComposeUp(p)
      PROVE TypeOK' /\ db <= db'
  <2>1. job[p].target \in Releases
    BY <1>j DEF Job
  <2>2. PICK moved \in SUBSET Services : Recreate(job[p].target, moved)
    BY <1>9 DEF ComposeUp
  <2>3. \E pc \in Steps : Goto(p, pc)
    BY <1>9 DEF ComposeUp
  <2> QED BY <1>9, <2>1, <2>2, <2>3, Goes, Recreates DEF ComposeUp, TypeOK
<1>10. ASSUME NEW p \in Runners, Undo(p)
       PROVE TypeOK' /\ db <= db'
  <2>1. job[p].from \in Releases
    BY <1>j DEF Job
  <2>2. PICK moved \in SUBSET Services : Recreate(job[p].from, moved)
    BY <1>10 DEF Undo
  <2>3. Goto(p, "undo_health") \/ Finish(p, "rollback_failed")
    BY <1>10 DEF Undo
  <2> QED BY <1>10, <2>1, <2>2, <2>3, Goes, Finished, Recreates DEF Undo, TypeOK
<1>11. ASSUME NEW p \in Runners, UndoHealth(p) \/ RestartHealth(p)
       PROVE TypeOK' /\ db <= db'
  <2>1. (\E word \in Outcomes : Finish(p, word)) /\ UNCHANGED Instance
    BY <1>11 DEF UndoHealth, RestartHealth
  <2> QED BY <2>1, Finished DEF Instance, TypeOK
<1>12. ASSUME NEW p \in Runners, Commit(p)
       PROVE TypeOK' /\ db <= db'
  <2>1. NewLock(p) \in [current : Releases, previous : Releases \cup {NoRelease}, safe : BOOLEAN]
    BY <1>j DEF NewLock, TypeOK, Job
  <2> QED BY <1>12, <2>1, Finished DEF Commit, TypeOK, Containers, Schema
<1>13. ASSUME NEW p \in Runners, Restart(p)
       PROVE TypeOK' /\ db <= db'
  <2>1. runs[Backend] \in Releases
    BY BackendServes DEF TypeOK, Images
  <2>2. up' \in BOOLEAN /\ db' \in Nat /\ db <= db'
    BY <1>13, <2>1, Reboots DEF Restart, TypeOK
  <2>3. Goto(p, "restart_health") \/ Finish(p, "error")
    BY <1>13 DEF Restart
  <2> QED BY <1>13, <2>2, <2>3, Goes, Finished DEF Restart, TypeOK
<1>14. ASSUME NEW p \in Runners, Crash(p)
       PROVE TypeOK' /\ db <= db'
  <2>1. runs[Backend] \in Releases /\ job[p].target \in Releases /\ job[p].from \in Releases
    BY <1>j, BackendServes DEF TypeOK, Images, Job
  <2>2. runs' \in Images /\ up' \in BOOLEAN /\ db' \in Nat /\ db <= db' /\ stray' \in SUBSET Stray
    BY <1>14, <2>1, Reboots, Recreates, StraysTyped DEF Crash, TypeOK, Schema, Containers
  <2> QED BY <1>14, <2>2, Finished DEF Crash, TypeOK
<1>15. ASSUME NEW m \in stray, StrayLands(m)
       PROVE TypeOK' /\ db <= db'
  <2>1. db <= db' /\ db' \in Nat
    BY <1>15, ReleaseStamps DEF StrayLands, CanMigrate, TypeOK, Stray
  <2> QED BY <1>15, <2>1 DEF StrayLands, TypeOK, Containers
<1>16. ASSUME ContainerRestarts \/ EditLock
       PROVE TypeOK' /\ db <= db'
  <2>1. runs[Backend] \in Releases
    BY BackendServes DEF TypeOK, Images
  <2>2. CASE ContainerRestarts
    BY <2>1, <2>2, Reboots DEF ContainerRestarts, TypeOK
  <2>3. CASE EditLock
    <3>1. (~ lock.safe) \in BOOLEAN
      OBVIOUS
    <3>2. lock' \in [current : Releases, previous : Releases \cup {NoRelease}, safe : BOOLEAN]
      BY <2>3, <3>1 DEF EditLock, TypeOK
    <3> QED BY <2>3, <3>2 DEF EditLock, TypeOK, Containers, Schema
  <2> QED BY <1>16, <2>2, <2>3
<1>17. ASSUME UNCHANGED engineVars
       PROVE TypeOK' /\ db <= db'
  BY <1>17 DEF engineVars, TypeOK
<1> QED
  BY <1>1, <1>2, <1>3, <1>4, <1>5, <1>6, <1>7, <1>8, <1>9, <1>10, <1>11, <1>12, <1>13, <1>14,
     <1>15, <1>16, <1>17 DEF Next, Step

(* Whatever is skipped, times out, lands late or dies, the lock file, the     *)
(* containers and the runs keep their types.                                 *)
THEOREM EngineTyped == Spec => []TypeOK
<1>1. Init => TypeOK
  BY IdleIsAJob, ReleaseStamps, TrustedReleases DEF Init, TypeOK, Images, On
<1>2. TypeOK /\ [Next]_engineVars => TypeOK'
  BY StepTyped
<1> QED BY <1>1, <1>2, PTL DEF Spec

-----------------------------------------------------------------------------
(* The inductive invariant.  Alone, none of the properties is inductive: what *)
(* a run may commit rests on what its earlier steps established, and that on  *)
(* nobody else having held the instance since.                               *)

Quiet == {"decide", "backup", "pull", "migrate", "recreate", "restart", "restart_health"}
Restarting == {"restart", "restart_health"}
Chosen == Steps \ ({"decide"} \cup Restarting)
Migrated == {"recreate", "health", "undo", "undo_health", "commit"}

(* Exactly the holder of the flock is at work, on the lock file it read. *)
HoldsFlock(p) ==
  /\ job[p].pc # "idle" <=> flock = p
  /\ job[p].pc # "idle" => job[p].from = lock.current

(* Where the containers are, by the step the run has reached. *)
KnowsContainers(p) ==
  /\ job[p].pc \in Quiet => runs = job[p].found
  /\ job[p].pc \in {"health", "commit"} => runs = On(job[p].target)
  /\ job[p].pc = "undo_health" => runs = On(job[p].from)

(* What a run's checks established about its target. *)
CheckedTarget(p) ==
  /\ job[p].pc \in Chosen => job[p].target \in Trusted /\ job[p].action # "restart"
  /\ job[p].pc \in Restarting => job[p].action = "restart"
  /\ job[p].pc \in {"backup", "migrate"} => job[p].action = "upgrade"
  /\ job[p].pc \in {"backup", "pull", "migrate"} /\ job[p].action = "upgrade" /\ job[p].seen # Unknown
       => job[p].seen <= db
  /\ job[p].pc \in {"pull", "migrate"} /\ job[p].action = "upgrade" => job[p].saved = BackupIsOn
  /\ job[p].pc = "pull" /\ job[p].action = "rollback" => Rev[job[p].target] <= db
  /\ job[p].pc \in Migrated => Rev[job[p].target] <= db
  /\ job[p].pc \in Chosen /\ job[p].action = "upgrade" /\ p \notin Operators
       => ~ (VersionOf[job[p].target] < VersionOf[job[p].from])

(* release.lock and the containers name trusted releases the schema has reached. *)
LockIsServable ==
  /\ lock.current \in Trusted /\ Rev[lock.current] <= db
  /\ lock.previous # NoRelease => lock.previous \in Trusted /\ Rev[lock.previous] <= db

RunsTrusted ==
  /\ \A s \in Services : runs[s] \in Trusted
  /\ Rev[runs[Backend]] <= db

RunInv(p) == HoldsFlock(p) /\ KnowsContainers(p) /\ CheckedTarget(p)

IInv == TypeOK /\ LockIsServable /\ RunsTrusted /\ \A p \in Runners : RunInv(p)

(* Only the flock's holder works: the other runners are idle and stay so.     *)
LEMMA OthersIdle ==
  ASSUME IInv, NEW p \in Runners, flock \in {p, Nobody}, flock' \in {p, Nobody},
         \A q \in Runners : q # p => job'[q] = job[q],
         RunInv(p)'
  PROVE  \A q \in Runners : RunInv(q)'
<1> SUFFICES ASSUME NEW q \in Runners, q # p PROVE RunInv(q)'
  OBVIOUS
<1>1. job'[q].pc = "idle" /\ flock' # q
  BY OperatorsRun DEF IInv, RunInv, HoldsFlock
<1> QED BY <1>1 DEF RunInv, HoldsFlock, KnowsContainers, CheckedTarget, Quiet, Restarting, Chosen, Migrated, Steps

(* Ending a run leaves nothing to know about any runner. *)
LEMMA EndsClean ==
  ASSUME IInv, NEW p \in Runners, job[p].pc # "idle", NEW word \in Outcomes \cup {"died"},
         Finish(p, word)
  PROVE  \A q \in Runners : RunInv(q)'
<1>1. flock = p
  BY DEF IInv, RunInv, HoldsFlock
<1>2. job'[p].pc = "idle" /\ flock' = Nobody /\ \A q \in Runners : q # p => job'[q] = job[q]
  BY Finished DEF IInv
<1>3. RunInv(p)'
  BY <1>2, OperatorsRun
     DEF RunInv, HoldsFlock, KnowsContainers, CheckedTarget, Quiet, Restarting, Chosen, Migrated, Steps
<1> QED BY <1>1, <1>2, <1>3, OthersIdle

(* A step that stops a run before it changed anything. *)
LEMMA StopsInvariant ==
  ASSUME IInv, NEW p \in Runners, job[p].pc # "idle", NEW word \in Outcomes \cup {"died"},
         Finish(p, word), UNCHANGED Instance
  PROVE  IInv'
<1>1. TypeOK'
  BY Finished DEF IInv, TypeOK, Instance
<1> QED BY <1>1, EndsClean DEF IInv, LockIsServable, RunsTrusted, Instance

(* Recreating a trusted release the schema has reached keeps the containers so. *)
LEMMA RecreatesTrusted ==
  ASSUME IInv, NEW r \in Trusted, Rev[r] <= db, NEW moved \in SUBSET Services, Recreate(r, moved),
         lock' = lock
  PROVE  /\ RunsTrusted' /\ LockIsServable' /\ db' \in Nat /\ db <= db'
         /\ moved = Services => runs' = On(r)
<1>1. r \in Releases /\ TypeOK
  BY TrustedReleases DEF IInv
<1>2. /\ runs' \in Images /\ db' \in Nat /\ db <= db'
      /\ \A s \in Services : runs'[s] \in {runs[s], r}
      /\ moved = Services => runs' = On(r)
  BY <1>1, Recreates
<1>3. db \in Nat /\ \A q \in Releases : Rev[q] \in Nat
  BY <1>1, ReleaseStamps DEF TypeOK
<1>4. Rev[runs'[Backend]] <= db'
  <2>1. Rev[runs[Backend]] <= db /\ runs[Backend] \in Releases
    BY BackendServes, <1>1 DEF IInv, RunsTrusted, TypeOK, Images
  <2> QED BY <1>1, <1>2, <1>3, <2>1, BackendServes
<1>5. RunsTrusted'
  BY <1>2, <1>4 DEF IInv, RunsTrusted
<1>6. LockIsServable'
  <2>1. lock.current \in Releases /\ lock.previous \in Releases \cup {NoRelease}
    BY <1>1 DEF TypeOK
  <2> QED BY <1>2, <1>3, <2>1 DEF IInv, LockIsServable
<1> QED BY <1>2, <1>5, <1>6

(* A step outside the runs moves the schema forward at most. *)
LEMMA Outside ==
  ASSUME IInv, TypeOK', db <= db', UNCHANGED <<flock, runs, job>>,
         lock'.current = lock.current, lock'.previous = lock.previous
  PROVE  IInv'
<1>1. db \in Nat /\ db' \in Nat /\ \A r \in Releases : Rev[r] \in Nat
  BY ReleaseStamps DEF IInv, TypeOK
<1>2. /\ lock.current \in Releases /\ lock.previous \in Releases \cup {NoRelease}
      /\ runs[Backend] \in Releases
      /\ \A p \in Runners : job[p].target \in Releases /\ job[p].seen \in Nat \cup {Unknown}
  BY BackendServes DEF IInv, TypeOK, Images, Job
<1>3. LockIsServable' /\ RunsTrusted'
  BY <1>1, <1>2 DEF IInv, LockIsServable, RunsTrusted
<1>4. \A p \in Runners : RunInv(p)'
  BY <1>1, <1>2 DEF IInv, RunInv, HoldsFlock, KnowsContainers, CheckedTarget
<1> QED BY <1>3, <1>4 DEF IInv

(* A step of the holder that only moves its own job. *)
LEMMA Advances ==
  ASSUME IInv, TypeOK', NEW p \in Runners, job[p].pc # "idle", UNCHANGED <<flock, Instance>>,
         \A q \in Runners : q # p => job'[q] = job[q],
         RunInv(p)'
  PROVE  IInv'
<1>1. flock = p
  BY DEF IInv, RunInv, HoldsFlock
<1>2. \A q \in Runners : RunInv(q)'
  BY <1>1, OthersIdle
<1> QED BY <1>2 DEF IInv, LockIsServable, RunsTrusted, Instance

(* A run begins: it takes the free flock and remembers what it found. *)
LEMMA BeginsInvariant ==
  ASSUME IInv, TypeOK', NEW p \in Runners, NEW action \in {"upgrade", "rollback", "restart"},
         NEW r \in Releases, NEW allow \in BOOLEAN, Begin(p, action, r, allow)
  PROVE  IInv'
<1>0. TypeOK /\ UNCHANGED Instance
  BY DEF IInv, Begin
<1>1. CASE FlockFree(p)
  <2> DEFINE j == [IdleJob EXCEPT !.pc = "decide", !.action = action, !.target = r,
                                  !.from = lock.current, !.allow = allow, !.found = runs]
  <2>1. j \in Job
    BY <1>0, IdleIsAJob DEF TypeOK, Job, Steps
  <2>2. flock = Nobody /\ flock' = p /\ Become(p, j)
    BY <1>1 DEF Begin, FlockFree
  <2>3. job'[p] = j /\ \A q \in Runners : q # p => job'[q] = job[q]
    BY <1>0, <2>1, <2>2, JobMoves
  <2>4. j.pc = "decide" /\ j.from = lock.current /\ j.found = runs
    BY DEF IdleJob
  <2>5. RunInv(p)'
    BY <1>0, <2>2, <2>3, <2>4
       DEF RunInv, HoldsFlock, KnowsContainers, CheckedTarget, Quiet, Restarting, Chosen, Migrated,
           Instance
  <2>6. \A q \in Runners : RunInv(q)'
    BY <2>2, <2>3, <2>5, OthersIdle
  <2> QED BY <1>0, <2>6 DEF IInv, LockIsServable, RunsTrusted, Instance
<1>2. CASE ~ FlockFree(p)
  BY <1>0, <1>2 DEF Begin, Instance, IInv, LockIsServable, RunsTrusted, RunInv, HoldsFlock,
                    KnowsContainers, CheckedTarget
<1> QED BY <1>1, <1>2

(* The checks of upgrade and of rollback establish what their run rests on. *)
LEMMA PreflightInvariant ==
  ASSUME IInv, TypeOK', NEW p \in Runners,
         (\E seen \in {db, Unknown} : Preflight(p, seen)) \/ RollbackPreflight(p)
  PROVE  IInv'
<1>0. TypeOK /\ job[p] \in Job /\ db \in Nat /\ At(p, "decide") /\ UNCHANGED <<flock, Instance>>
  BY DEF IInv, TypeOK, Preflight, RollbackPreflight
<1>h. HoldsFlock(p) /\ KnowsContainers(p) /\ LockIsServable
  BY DEF IInv, RunInv
<1>1. ASSUME NEW seen \in {db, Unknown}, Preflight(p, seen) PROVE IInv'
  <2> DEFINE j == [job[p] EXCEPT !.pc = "backup", !.seen = seen]
  <2>1. j \in Job
    BY <1>0 DEF Job, Steps
  <2>2. job'[p] = j /\ \A q \in Runners : q # p => job'[q] = job[q]
    BY <1>0, <1>1, <2>1, JobMoves DEF Preflight
  <2>3. /\ j.pc = "backup" /\ j.seen = seen /\ j.from = job[p].from /\ j.found = job[p].found
        /\ j.action = "upgrade" /\ j.target \in Trusted
        /\ p \notin Operators => ~ (VersionOf[j.target] < VersionOf[j.from])
    BY <1>0, <1>1 DEF Job, Preflight, UpgradePasses, Verified, DowngradeRefused
  <2>4. seen # Unknown => seen <= db
    BY <1>0
  <2>5. RunInv(p)'
    BY <1>0, <1>h, <2>2, <2>3, <2>4
       DEF RunInv, HoldsFlock, KnowsContainers, CheckedTarget, Quiet, Restarting, Chosen, Migrated,
           Instance, At, Steps
  <2> QED BY <1>0, <2>2, <2>5, Advances DEF At
<1>2. ASSUME RollbackPreflight(p) PROVE IInv'
  <2> DEFINE j == [job[p] EXCEPT !.pc = "pull", !.target = lock.previous]
  <2>0. lock.previous # NoRelease /\ lock.previous \in Releases /\ job[p].action = "rollback"
    BY <1>0, <1>2 DEF RollbackPreflight, RollbackPasses, TypeOK
  <2>1. j \in Job
    BY <1>0, <2>0 DEF Job, Steps
  <2>2. job'[p] = j /\ \A q \in Runners : q # p => job'[q] = job[q]
    BY <1>0, <1>2, <2>1, JobMoves DEF RollbackPreflight
  <2>3. /\ j.pc = "pull" /\ j.from = job[p].from /\ j.found = job[p].found
        /\ j.action = "rollback" /\ j.target = lock.previous
    BY <1>0, <2>0 DEF Job
  <2>5. RunInv(p)'
    BY <1>0, <1>h, <2>0, <2>2, <2>3
       DEF RunInv, HoldsFlock, KnowsContainers, CheckedTarget, LockIsServable, Quiet, Restarting,
           Chosen, Migrated, Instance, At, Steps
  <2> QED BY <1>0, <2>2, <2>5, Advances DEF At
<1> QED BY <1>1, <1>2

(* The steps that only take the run to its next step. *)
LEMMA GoesInvariant ==
  ASSUME IInv, TypeOK', NEW p \in Runners,
         Backup(p) \/ Pull(p) \/ SkipMigration(p) \/ RestartApproved(p) \/ HealthCheck(p)
  PROVE  IInv'
<1>0. /\ TypeOK /\ job[p] \in Job /\ db \in Nat /\ UNCHANGED <<flock, Instance>>
      /\ job[p].pc # "idle"
  BY DEF IInv, TypeOK, Backup, Pull, SkipMigration, RestartApproved, HealthCheck, Goto, At
<1>h. HoldsFlock(p) /\ KnowsContainers(p) /\ CheckedTarget(p)
  BY DEF IInv, RunInv
<1>1. ASSUME Backup(p) PROVE IInv'
  <2> DEFINE j == [job[p] EXCEPT !.pc = "pull", !.saved = BackupIsOn]
  <2>1. j \in Job
    BY <1>0, SettingsAreBoolean DEF Job, Steps
  <2>2. job'[p] = j /\ \A q \in Runners : q # p => job'[q] = job[q]
    BY <1>0, <1>1, <2>1, JobMoves DEF Backup
  <2>3. /\ j.pc = "pull" /\ j.seen = job[p].seen /\ j.from = job[p].from /\ j.found = job[p].found
        /\ j.action = job[p].action /\ j.target = job[p].target /\ j.saved = BackupIsOn
    BY <1>0 DEF Job
  <2>4. RunInv(p)'
    BY <1>0, <1>1, <1>h, <2>2, <2>3
       DEF RunInv, HoldsFlock, KnowsContainers, CheckedTarget, Quiet, Restarting, Chosen, Migrated,
           Instance, Backup, At, Steps
  <2> QED BY <1>0, <2>2, <2>4, Advances
<1>2. ASSUME NEW pc \in Steps, Goto(p, pc), (RunInv(p) /\ job'[p] = [job[p] EXCEPT !.pc = pc]) => RunInv(p)'
      PROVE IInv'
  <2>1. job'[p] = [job[p] EXCEPT !.pc = pc] /\ \A q \in Runners : q # p => job'[q] = job[q]
    BY <1>0, <1>2, Goes
  <2> QED BY <1>0, <1>h, <1>2, <2>1, Advances DEF RunInv
<1>3. ASSUME Pull(p) PROVE IInv'
  <2> DEFINE pc == IF job[p].action = "upgrade" THEN "migrate" ELSE "recreate"
  <2>1. pc \in Steps /\ Goto(p, pc)
    BY <1>3 DEF Pull, Steps
  <2>2. job[p].action \in {"upgrade", "rollback"}
    BY <1>0, <1>3, <1>h DEF Job, Pull, CheckedTarget, At, Chosen, Restarting, Steps
  <2>3. (RunInv(p) /\ job'[p] = [job[p] EXCEPT !.pc = pc]) => RunInv(p)'
    BY <1>0, <1>3, <1>h, <2>2
       DEF RunInv, HoldsFlock, KnowsContainers, CheckedTarget, Quiet, Restarting, Chosen, Migrated,
           Instance, Pull, At, Job, Steps
  <2> QED BY <1>2, <2>1, <2>3
<1>4. ASSUME SkipMigration(p) PROVE IInv'
  <2>1. Goto(p, "recreate") /\ "recreate" \in Steps
    BY <1>4 DEF SkipMigration, Steps
  <2>2. Rev[job[p].target] <= db
    <3>1. job[p].seen = Rev[job[p].target] /\ job[p].seen # Unknown
      BY <1>0, <1>4, ReleaseStamps, UnknownIsNoRevision DEF SkipMigration, NeedsMigration, Job
    <3> QED BY <1>4, <1>h, <3>1 DEF SkipMigration, CheckedTarget, At
  <2>3. (RunInv(p) /\ job'[p] = [job[p] EXCEPT !.pc = "recreate"]) => RunInv(p)'
    BY <1>0, <1>4, <1>h, <2>2
       DEF RunInv, HoldsFlock, KnowsContainers, CheckedTarget, Quiet, Restarting, Chosen, Migrated,
           Instance, SkipMigration, At, Job, Steps
  <2> QED BY <1>2, <2>1, <2>3
<1>5. ASSUME RestartApproved(p) PROVE IInv'
  <2>1. Goto(p, "restart") /\ "restart" \in Steps
    BY <1>5 DEF RestartApproved, Steps
  <2>2. (RunInv(p) /\ job'[p] = [job[p] EXCEPT !.pc = "restart"]) => RunInv(p)'
    BY <1>0, <1>5, <1>h
       DEF RunInv, HoldsFlock, KnowsContainers, CheckedTarget, Quiet, Restarting, Chosen, Migrated,
           Instance, RestartApproved, At, Job, Steps
  <2> QED BY <1>2, <2>1, <2>2
<1>6. ASSUME HealthCheck(p) PROVE IInv'
  <2>1. PICK pc \in {"commit", "undo"} : Goto(p, pc)
    BY <1>6 DEF HealthCheck
  <2>2. (RunInv(p) /\ job'[p] = [job[p] EXCEPT !.pc = pc]) => RunInv(p)'
    BY <1>0, <1>6, <1>h
       DEF RunInv, HoldsFlock, KnowsContainers, CheckedTarget, Quiet, Restarting, Chosen, Migrated,
           Instance, HealthCheck, At, Job, Steps
  <2> QED BY <1>2, <2>1, <2>2 DEF Steps
<1> QED BY <1>1, <1>3, <1>4, <1>5, <1>6

(* The migrator of a run: the schema moves forward, and a run that goes on has *)
(* its target's schema.                                                      *)
LEMMA MigrationInvariant ==
  ASSUME IInv, TypeOK', db <= db', NEW p \in Runners, MigrationDone(p) \/ MigrationFails(p)
  PROVE  IInv'
<1>0. /\ TypeOK /\ job[p] \in Job /\ db \in Nat /\ db' \in Nat /\ UNCHANGED <<lock, runs, up>>
      /\ job[p].pc = "migrate"
  BY DEF IInv, TypeOK, MigrationDone, MigrationFails, At, Containers
<1>h. HoldsFlock(p) /\ KnowsContainers(p) /\ CheckedTarget(p)
  BY DEF IInv, RunInv
<1>1. LockIsServable' /\ RunsTrusted'
  <2>1. \A r \in Releases : Rev[r] \in Nat
    BY ReleaseStamps
  <2>2. /\ lock.current \in Releases /\ lock.previous \in Releases \cup {NoRelease}
        /\ runs[Backend] \in Releases
    BY <1>0, BackendServes DEF TypeOK, Images
  <2> QED BY <1>0, <2>1, <2>2 DEF IInv, LockIsServable, RunsTrusted
<1>2. ASSUME MigrationDone(p) PROVE \A q \in Runners : RunInv(q)'
  <2>1. /\ job'[p] = [job[p] EXCEPT !.pc = "recreate"] /\ flock' = flock
        /\ \A q \in Runners : q # p => job'[q] = job[q]
    BY <1>0, <1>2, Goes DEF MigrationDone, Steps
  <2>2. db' = Rev[job[p].target]
    BY <1>2 DEF MigrationDone
  <2>3. RunInv(p)'
    BY <1>0, <1>h, <2>1, <2>2
       DEF RunInv, HoldsFlock, KnowsContainers, CheckedTarget, Quiet, Restarting, Chosen, Migrated,
           Job, Steps
  <2>4. flock = p
    BY <1>0, <1>h DEF HoldsFlock
  <2> QED BY <2>1, <2>3, <2>4, OthersIdle
<1>3. ASSUME MigrationFails(p) PROVE \A q \in Runners : RunInv(q)'
  BY <1>0, <1>3, EndsClean DEF MigrationFails, Outcomes
<1> QED BY <1>1, <1>2, <1>3 DEF IInv

(* docker compose up for a target the schema has reached, or back to what     *)
(* release.lock names.                                                       *)
LEMMA RecreateInvariant ==
  ASSUME IInv, TypeOK', NEW p \in Runners, ComposeUp(p) \/ Undo(p)
  PROVE  IInv'
<1>0. TypeOK /\ job[p] \in Job /\ db \in Nat /\ lock' = lock
  BY DEF IInv, TypeOK, ComposeUp, Undo
<1>h. HoldsFlock(p) /\ KnowsContainers(p) /\ CheckedTarget(p) /\ LockIsServable
  BY DEF IInv, RunInv
<1>1. ASSUME NEW r \in Trusted, Rev[r] <= db, NEW moved \in SUBSET Services, Recreate(r, moved),
             NEW pc \in {"health", "undo", "undo_health"}, Goto(p, pc),
             job[p].pc \in {"recreate", "undo"},
             pc = "health" => moved = Services /\ r = job[p].target,
             pc = "undo_health" => moved = Services /\ r = job[p].from
      PROVE  IInv'
  <2>1. /\ job'[p] = [job[p] EXCEPT !.pc = pc] /\ flock' = flock
        /\ \A q \in Runners : q # p => job'[q] = job[q]
    BY <1>0, <1>1, Goes DEF Steps
  <2>2. /\ RunsTrusted' /\ LockIsServable' /\ db' \in Nat /\ db <= db'
        /\ moved = Services => runs' = On(r)
    BY <1>0, <1>1, RecreatesTrusted
  <2>3. Rev[job[p].target] <= db'
    <3>1. Rev[job[p].target] <= db /\ Rev[job[p].target] \in Nat
      BY <1>0, <1>1, <1>h, ReleaseStamps DEF CheckedTarget, Migrated, Job
    <3> QED BY <1>0, <2>2, <3>1
  <2>4. RunInv(p)'
    BY <1>0, <1>1, <1>h, <2>1, <2>2, <2>3
       DEF RunInv, HoldsFlock, KnowsContainers, CheckedTarget, Quiet, Restarting, Chosen, Migrated,
           Job, Steps, On
  <2>5. flock = p
    BY <1>1, <1>h DEF HoldsFlock
  <2>6. \A q \in Runners : RunInv(q)'
    BY <2>1, <2>4, <2>5, OthersIdle
  <2> QED BY <2>2, <2>6 DEF IInv
<1>2. ASSUME ComposeUp(p) PROVE IInv'
  <2>1. job[p].target \in Trusted /\ Rev[job[p].target] <= db /\ job[p].pc = "recreate"
    BY <1>h, <1>2 DEF ComposeUp, At, CheckedTarget, Chosen, Migrated, Steps, Restarting
  <2>2. \/ Recreate(job[p].target, Services) /\ Goto(p, "health")
        \/ \E moved \in SUBSET Services : Recreate(job[p].target, moved) /\ Goto(p, "undo")
    BY <1>2 DEF ComposeUp
  <2> QED BY <1>1, <2>1, <2>2
<1>3. ASSUME Undo(p) PROVE IInv'
  <2>1. job[p].pc = "undo" /\ job[p].from = lock.current
    BY <1>h, <1>3 DEF Undo, At, HoldsFlock
  <2>2. job[p].from \in Trusted /\ Rev[job[p].from] <= db
    BY <1>h, <2>1 DEF LockIsServable
  <2>3. CASE Recreate(job[p].from, Services) /\ Goto(p, "undo_health")
    BY <1>1, <2>1, <2>2, <2>3
  <2>4. ASSUME NEW moved \in SUBSET Services, Recreate(job[p].from, moved), Finish(p, "rollback_failed")
        PROVE  IInv'
    <3>1. RunsTrusted' /\ LockIsServable'
      BY <1>0, <2>2, <2>4, RecreatesTrusted
    <3>2. \A q \in Runners : RunInv(q)'
      BY <2>1, <2>4, EndsClean DEF Outcomes
    <3> QED BY <3>1, <3>2 DEF IInv
  <2> QED BY <1>3, <2>3, <2>4 DEF Undo
<1> QED BY <1>2, <1>3

(* What a commit records is what every service runs. *)
LEMMA CommitInvariant ==
  ASSUME IInv, TypeOK', NEW p \in Runners, Commit(p)
  PROVE  IInv'
<1>0. TypeOK /\ job[p] \in Job /\ db \in Nat /\ db' = db /\ runs' = runs /\ job[p].pc = "commit"
  BY DEF IInv, TypeOK, Commit, At, Containers, Schema
<1>h. HoldsFlock(p) /\ CheckedTarget(p) /\ LockIsServable
  BY DEF IInv, RunInv
<1>1. lock'.current = job[p].target /\ lock'.previous = lock.current
  BY <1>0, <1>h DEF Commit, NewLock, HoldsFlock
<1>2. LockIsServable'
  BY <1>0, <1>h, <1>1 DEF LockIsServable, CheckedTarget, Chosen, Migrated, Restarting, Steps
<1>3. \A q \in Runners : RunInv(q)'
  BY <1>0, EndsClean DEF Commit, Outcomes
<1> QED BY <1>0, <1>2, <1>3 DEF IInv, RunsTrusted

(* The entrypoint of what already runs, from a restart. *)
LEMMA RestartInvariant ==
  ASSUME IInv, TypeOK', db <= db', NEW p \in Runners, Restart(p)
  PROVE  IInv'
<1>0. /\ TypeOK /\ job[p] \in Job /\ db \in Nat /\ db' \in Nat /\ UNCHANGED <<lock, runs>>
      /\ job[p].pc = "restart"
  BY DEF IInv, TypeOK, Restart, At
<1>h. HoldsFlock(p) /\ KnowsContainers(p) /\ CheckedTarget(p)
  BY DEF IInv, RunInv
<1>1. LockIsServable' /\ RunsTrusted'
  <2>1. \A r \in Releases : Rev[r] \in Nat
    BY ReleaseStamps
  <2>2. /\ lock.current \in Releases /\ lock.previous \in Releases \cup {NoRelease}
        /\ runs[Backend] \in Releases
    BY <1>0, BackendServes DEF TypeOK, Images
  <2> QED BY <1>0, <2>1, <2>2 DEF IInv, LockIsServable, RunsTrusted
<1>2. ASSUME Goto(p, "restart_health") PROVE \A q \in Runners : RunInv(q)'
  <2>1. /\ job'[p] = [job[p] EXCEPT !.pc = "restart_health"] /\ flock' = flock
        /\ \A q \in Runners : q # p => job'[q] = job[q]
    BY <1>0, <1>2, Goes DEF Steps
  <2>2. RunInv(p)'
    BY <1>0, <1>h, <2>1
       DEF RunInv, HoldsFlock, KnowsContainers, CheckedTarget, Quiet, Restarting, Chosen, Migrated,
           Job, Steps
  <2>3. flock = p
    BY <1>0, <1>h DEF HoldsFlock
  <2> QED BY <2>1, <2>2, <2>3, OthersIdle
<1>3. ASSUME Finish(p, "error") PROVE \A q \in Runners : RunInv(q)'
  BY <1>0, <1>3, EndsClean DEF Outcomes
<1>4. Goto(p, "restart_health") \/ Finish(p, "error")
  BY DEF Restart
<1> QED BY <1>1, <1>2, <1>3, <1>4 DEF IInv

(* A run may die between any two steps and inside any command. *)
LEMMA CrashInvariant ==
  ASSUME IInv, TypeOK', db <= db', NEW p \in Runners, Crash(p)
  PROVE  IInv'
<1>0. /\ TypeOK /\ job[p] \in Job /\ db \in Nat /\ db' \in Nat /\ lock' = lock
      /\ job[p].pc # "idle"
  BY DEF IInv, TypeOK, Crash
<1>h. HoldsFlock(p) /\ CheckedTarget(p) /\ LockIsServable /\ RunsTrusted
  BY DEF IInv, RunInv
<1>1. ASSUME runs' = runs PROVE LockIsServable' /\ RunsTrusted'
  <2>1. \A r \in Releases : Rev[r] \in Nat
    BY ReleaseStamps
  <2>2. /\ lock.current \in Releases /\ lock.previous \in Releases \cup {NoRelease}
        /\ runs[Backend] \in Releases
    BY <1>0, BackendServes DEF TypeOK, Images
  <2> QED BY <1>0, <1>1, <1>h, <2>1, <2>2 DEF LockIsServable, RunsTrusted
<1>2. ASSUME At(p, "recreate"), NEW moved \in SUBSET Services, Recreate(job[p].target, moved)
      PROVE LockIsServable' /\ RunsTrusted'
  <2>1. job[p].target \in Trusted /\ Rev[job[p].target] <= db
    BY <1>h, <1>2 DEF At, CheckedTarget, Chosen, Migrated, Steps, Restarting
  <2> QED BY <1>0, <1>2, <2>1, RecreatesTrusted
<1>3. ASSUME At(p, "undo"), NEW moved \in SUBSET Services, Recreate(job[p].from, moved)
      PROVE LockIsServable' /\ RunsTrusted'
  <2>1. job[p].from \in Trusted /\ Rev[job[p].from] <= db
    BY <1>0, <1>h DEF HoldsFlock, LockIsServable
  <2> QED BY <1>0, <1>3, <2>1, RecreatesTrusted
<1>4. LockIsServable' /\ RunsTrusted'
  BY <1>1, <1>2, <1>3 DEF Crash, Containers, Schema
<1>5. \A q \in Runners : RunInv(q)'
  BY <1>0, EndsClean DEF Crash
<1> QED BY <1>4, <1>5 DEF IInv

(* IInv is inductive. *)
LEMMA StepInvariant ==
  ASSUME IInv, [Next]_engineVars
  PROVE  IInv'
<1>0. TypeOK /\ TypeOK' /\ db <= db'
  BY StepTyped DEF IInv
<1>1. ASSUME NEW p \in Runners, BeginAny(p) PROVE IInv'
  <2>1. AnyRelease \in Releases
    BY <1>0 DEF AnyRelease, TypeOK
  <2> QED BY <1>0, <1>1, <2>1, BeginsInvariant DEF BeginAny
<1>2. ASSUME NEW p \in Runners, Refuse(p) \/ NotConfirmed(p) \/ Noop(p) \/ MigrationGated(p)
                                \/ CommitFails(p) \/ CommitUnsafe(p)
      PROVE IInv'
  <2>1. \E word \in Outcomes \cup {"died"} : Finish(p, word)
    BY <1>2 DEF Refuse, NotConfirmed, Noop, MigrationGated, CommitFails, CommitUnsafe, Outcomes
  <2>2. UNCHANGED Instance /\ job[p].pc # "idle"
    BY <1>2 DEF Refuse, NotConfirmed, Noop, MigrationGated, CommitFails, CommitUnsafe, At
  <2> QED BY <2>1, <2>2, StopsInvariant
<1>3. ASSUME NEW p \in Runners, UndoHealth(p) \/ RestartHealth(p) PROVE IInv'
  <2>1. (\E word \in Outcomes : Finish(p, word)) /\ UNCHANGED Instance /\ job[p].pc # "idle"
    BY <1>3 DEF UndoHealth, RestartHealth, Outcomes, At
  <2> QED BY <2>1, StopsInvariant
<1>4. ASSUME NEW p \in Runners, Step(p) PROVE IInv'
  BY <1>0, <1>2, <1>3, <1>4, PreflightInvariant, GoesInvariant, MigrationInvariant, RecreateInvariant,
     CommitInvariant, RestartInvariant DEF Step
<1>5. ASSUME NEW p \in Runners, Crash(p) PROVE IInv'
  BY <1>0, <1>5, CrashInvariant
<1>6. ASSUME NEW m \in stray, StrayLands(m) PROVE IInv'
  BY <1>0, <1>6, Outside DEF StrayLands, Containers
<1>7. ASSUME ContainerRestarts PROVE IInv'
  BY <1>0, <1>7, Outside DEF ContainerRestarts
<1>8. ASSUME EditLock PROVE IInv'
  <2>1. lock'.current = lock.current /\ lock'.previous = lock.previous
    BY <1>0, <1>8 DEF EditLock, TypeOK
  <2> QED BY <1>0, <1>8, <2>1, Outside DEF EditLock, Containers
<1>9. ASSUME UNCHANGED engineVars PROVE IInv'
  BY <1>0, <1>9, Outside DEF engineVars
<1> QED BY <1>1, <1>4, <1>5, <1>6, <1>7, <1>8, <1>9 DEF Next

(* A fresh instance runs a trusted release on its own schema, and no run is on. *)
LEMMA InitInvariant == Init => IInv
<1> SUFFICES ASSUME Init PROVE IInv
  OBVIOUS
<1>1. TypeOK
  BY IdleIsAJob, ReleaseStamps, TrustedReleases DEF Init, TypeOK, Images, On
<1>2. LockIsServable /\ RunsTrusted
  BY ReleaseStamps, TrustedReleases, BackendServes DEF Init, LockIsServable, RunsTrusted, On
<1>3. ASSUME NEW p \in Runners PROVE RunInv(p)
  BY OperatorsRun DEF Init, IdleJob, RunInv, HoldsFlock, KnowsContainers, CheckedTarget, Quiet,
                      Restarting, Chosen, Migrated, Steps
<1> QED BY <1>1, <1>2, <1>3 DEF IInv

(* What the engine rests on between any two of its steps holds for ever.      *)
THEOREM EngineInvariant == Spec => []IInv
<1>1. IInv /\ [Next]_engineVars => IInv'
  BY StepInvariant
<1> QED BY <1>1, InitInvariant, PTL DEF Spec

(* Whatever was skipped, timed out or died, no backend is on the instance      *)
(* before its schema, and release.lock names none the schema has not reached. *)
THEOREM SchemaFirst == Spec => []SchemaBeforeCode
<1>1. IInv => SchemaBeforeCode
  BY DEF IInv, SchemaBeforeCode, LockIsServable, RunsTrusted
<1> QED BY <1>1, EngineInvariant, PTL

-----------------------------------------------------------------------------
(* What no step may do.                                                      *)

(* The database moves only by the migrator of a run that has its restore       *)
(* point, or by a migrator such a run left behind: a container that starts    *)
(* finds nothing to migrate, because it was never moved before its schema.    *)
THEOREM RestorePointFirst == Spec => SchemaAfterBackup
<1> DEFINE Saved == \E p \in Runners : At(p, "migrate") /\ job[p].saved
           Moves == BackupIsOn /\ db' # db => stray' # stray \/ Saved
<1>1. ASSUME IInv, [Next]_engineVars PROVE Moves
  <2>0. TypeOK /\ db \in Nat /\ \A r \in Releases : Rev[r] \in Nat
    BY <1>1, ReleaseStamps DEF IInv, TypeOK
  <2>1. ASSUME NEW r \in Releases, Rev[r] <= db, Reboot(r) PROVE db' = db
    <3>1. ~ (db < Rev[r])
      BY <2>0, <2>1
    <3> QED BY <2>1, <3>1, Zenon DEF Reboot, CanMigrate
  <2>2. ASSUME NEW r \in Releases, Rev[r] <= db, NEW moved \in SUBSET Services, Recreate(r, moved)
        PROVE  db' = db
    BY <2>1, <2>2 DEF Recreate
  <2>3. runs[Backend] \in Releases /\ Rev[runs[Backend]] <= db
    BY <1>1, <2>0, BackendServes DEF IInv, RunsTrusted, TypeOK, Images
  <2>4. ASSUME NEW p \in Runners PROVE job[p].target \in Releases /\ job[p].from \in Releases
    BY <2>0 DEF TypeOK, Job
  <2>5. ASSUME NEW p \in Runners, job[p].pc \in Migrated
        PROVE Rev[job[p].target] <= db /\ Rev[job[p].from] <= db
    BY <1>1, <2>5 DEF IInv, RunInv, CheckedTarget, HoldsFlock, LockIsServable, Migrated
  <2>6. ASSUME NEW p \in Runners, ComposeUp(p) \/ Undo(p) PROVE db' = db
    BY <2>2, <2>4, <2>5, <2>6 DEF ComposeUp, Undo, At, Migrated
  <2>7. ASSUME NEW p \in Runners, Crash(p) PROVE db' = db
    BY <2>1, <2>2, <2>3, <2>4, <2>5, <2>7 DEF Crash, At, Migrated, Schema
  <2>8. ASSUME NEW p \in Runners, Restart(p) PROVE db' = db
    BY <2>1, <2>3, <2>8 DEF Restart
  <2>9. ASSUME NEW p \in Runners, MigrationDone(p) \/ MigrationFails(p) PROVE BackupIsOn => Saved
    BY <1>1, <2>9 DEF IInv, RunInv, CheckedTarget, MigrationDone, MigrationFails, At
  <2>10. ASSUME NEW p \in Runners, BeginAny(p) \/ Step(p) PROVE Moves
    BY <2>6, <2>8, <2>9, <2>10
       DEF BeginAny, Begin, Step, Refuse, NotConfirmed, Noop, Preflight, Backup, Pull, SkipMigration,
           MigrationGated, HealthCheck, UndoHealth, Commit, CommitFails, CommitUnsafe,
           RollbackPreflight, RestartApproved, RestartHealth, Instance, Schema
  <2>11. ASSUME NEW m \in stray, StrayLands(m) PROVE stray' # stray
    BY <2>11 DEF StrayLands
  <2>12. ContainerRestarts => db' = db
    BY <2>1, <2>3 DEF ContainerRestarts
  <2>13. EditLock \/ UNCHANGED engineVars => db' = db
    BY DEF EditLock, engineVars, Schema
  <2> QED BY <1>1, <2>7, <2>10, <2>11, <2>12, <2>13 DEF Next
<1>2. IInv /\ [Next]_engineVars => [Moves]_engineVars
  BY <1>1
<1> QED BY <1>2, EngineInvariant, PTL DEF Spec, SchemaAfterBackup

(* A console upgrade that found what release.lock names running never puts an  *)
(* older version over it.                                                    *)
THEOREM NotOlderThanLocked == Spec => NoOlderThanLocked
<1> DEFINE Forward == \A p \in Runners : StepsBack(p) => job[p].found # On(job[p].from)
<1>1. ASSUME IInv PROVE Forward
  <2> SUFFICES ASSUME NEW p \in Runners, StepsBack(p), job[p].found = On(job[p].from)
               PROVE  FALSE
    OBVIOUS
  <2>1. ~ (VersionOf[job[p].target] < VersionOf[job[p].from])
    BY <1>1 DEF IInv, RunInv, CheckedTarget, StepsBack, At, Chosen, Restarting, Steps
  <2>2. job[p].found[Backend] = job[p].from
    BY BackendServes DEF On
  <2> QED BY <2>1, <2>2 DEF StepsBack
<1>2. IInv /\ [Next]_engineVars => [Forward]_engineVars
  BY <1>1
<1>3. [][Forward]_engineVars => NoOlderThanLocked
  BY PTL DEF NoOlderThanLocked, StepsBack
<1> QED BY <1>2, <1>3, EngineInvariant, PTL DEF Spec

(* A step of the others leaves a runner's job alone, and so does all that      *)
(* happens outside the runs.                                                 *)
LEMMA OwnStep ==
  ASSUME TypeOK, [Next]_engineVars, NEW p \in Runners, job'[p] # job[p]
  PROVE  BeginAny(p) \/ Step(p) \/ Crash(p)
<1>1. ASSUME NEW q \in Runners, BeginAny(q) \/ Step(q) \/ Crash(q) PROVE q = p
  <2>1. (\E j : job' = [job EXCEPT ![q] = j]) \/ UNCHANGED job
    BY <1>1 DEF BeginAny, Begin, Step, Refuse, NotConfirmed, Noop, Preflight, Backup, Pull,
                SkipMigration, MigrationGated, MigrationDone, MigrationFails, ComposeUp, HealthCheck,
                Undo, UndoHealth, Commit, CommitFails, CommitUnsafe, RollbackPreflight,
                RestartApproved, Restart, RestartHealth, Crash, Finish, Goto, Become
  <2> QED BY <2>1 DEF TypeOK
<1>2. ~ \E m \in stray : StrayLands(m)
  BY DEF StrayLands
<1>3. ~ (ContainerRestarts \/ EditLock \/ UNCHANGED engineVars)
  BY DEF ContainerRestarts, EditLock, engineVars
<1> QED BY <1>1, <1>2, <1>3 DEF Next

(* Every step of the engine is a step of the promise: a run begins or ends,    *)
(* moves containers to trusted releases, or pins what all of them run.       *)
LEMMA PromiseKept ==
  ASSUME IInv, IInv', [Next]_engineVars
  PROVE  [Pinned!Next]_(Pinned!pinVars)
<1> DEFINE serving == {runs[s] : s \in Services}
           busy == flock # Nobody
<1>0. busy \in BOOLEAN /\ busy' \in BOOLEAN
  OBVIOUS
<1>1. serving' \in (SUBSET Trusted) \ {{}}
  <2>1. \A s \in Services : runs'[s] \in Trusted
    BY DEF IInv, RunsTrusted
  <2>2. serving' \subseteq Trusted
    BY <2>1
  <2>3. runs'[Backend] \in serving'
    BY BackendServes
  <2> HIDE DEF serving
  <2> QED BY <2>2, <2>3
<1>2. ASSUME NEW p \in Runners, BeginAny(p) PROVE [Pinned!Next]_(Pinned!pinVars)
  <2>1. UNCHANGED <<lock, runs>>
    BY <1>2 DEF BeginAny, Begin, Instance
  <2>2. (flock = Nobody /\ flock' = p) \/ UNCHANGED flock
    BY <1>2 DEF BeginAny, Begin, FlockFree
  <2>3. (~ busy /\ busy' = TRUE) \/ busy' = busy
    BY <2>2, OperatorsRun
  <2> QED BY <2>1, <2>3, Zenon DEF Pinned!Next, Pinned!Begin, Pinned!pinVars
<1>3. ASSUME NEW p \in Runners, flock = p, lock'.current = lock.current
      PROVE [Pinned!Next]_(Pinned!pinVars)
  <2>1. busy
    BY <1>3, OperatorsRun
  <2> QED BY <1>0, <1>1, <1>3, <2>1, Zenon DEF Pinned!Next, Pinned!Move
<1>4. ASSUME NEW p \in Runners, Commit(p) PROVE [Pinned!Next]_(Pinned!pinVars)
  <2>1. flock = p /\ runs = On(job[p].target)
    BY <1>4 DEF IInv, RunInv, HoldsFlock, KnowsContainers, Commit, At
  <2>2. lock'.current = job[p].target /\ flock' = Nobody /\ runs' = runs
    BY <1>4 DEF Commit, NewLock, Finish, Containers
  <2>3. serving = {lock'.current} /\ serving' = serving
    BY <2>1, <2>2, BackendServes DEF On
  <2>4. busy /\ busy' = FALSE
    BY <2>1, <2>2, OperatorsRun
  <2> QED BY <2>3, <2>4, Zenon DEF Pinned!Next, Pinned!Pin
<1>5. ASSUME NEW p \in Runners, Step(p) \/ Crash(p), ~ Commit(p)
      PROVE  [Pinned!Next]_(Pinned!pinVars)
  <2>1. job[p].pc # "idle"
    BY <1>5 DEF Step, Refuse, NotConfirmed, Noop, Preflight, Backup, Pull, SkipMigration,
                MigrationGated, MigrationDone, MigrationFails, ComposeUp, HealthCheck, Undo,
                UndoHealth, CommitFails, CommitUnsafe, RollbackPreflight, RestartApproved, Restart,
                RestartHealth, Crash, At
  <2>2. lock' = lock
    BY <1>5 DEF Step, Refuse, NotConfirmed, Noop, Preflight, Backup, Pull, SkipMigration,
                MigrationGated, MigrationDone, MigrationFails, ComposeUp, HealthCheck, Undo,
                UndoHealth, CommitFails, CommitUnsafe, RollbackPreflight, RestartApproved, Restart,
                RestartHealth, Crash, Instance
  <2>3. flock = p
    BY <2>1 DEF IInv, RunInv, HoldsFlock
  <2> QED BY <1>3, <2>2, <2>3
<1>6. ASSUME (\E m \in stray : StrayLands(m)) \/ ContainerRestarts \/ EditLock \/ UNCHANGED engineVars
      PROVE  [Pinned!Next]_(Pinned!pinVars)
  <2>1. UNCHANGED <<flock, runs>>
    BY <1>6 DEF StrayLands, ContainerRestarts, EditLock, engineVars, Containers
  <2>2. lock'.current = lock.current
    BY <1>6 DEF StrayLands, ContainerRestarts, EditLock, engineVars, IInv, TypeOK
  <2> QED BY <2>1, <2>2 DEF Pinned!pinVars
<1> QED BY <1>2, <1>4, <1>5, <1>6 DEF Next

(* The engine implements its promise.                                        *)
THEOREM PromiseImplemented == Spec => KeepsPinned
<1>1. Init => Pinned!Init
  <2> SUFFICES ASSUME Init PROVE Pinned!Init
    OBVIOUS
  <2>1. PICK r \in Trusted : lock.current = r /\ runs = On(r)
    BY DEF Init
  <2>2. {runs[s] : s \in Services} = {r}
    BY <2>1, BackendServes DEF On
  <2>3. (flock # Nobody) = FALSE
    BY DEF Init
  <2> QED BY <2>1, <2>2, <2>3, Zenon DEF Pinned!Init
<1>2. IInv /\ IInv' /\ [Next]_engineVars => [Pinned!Next]_(Pinned!pinVars)
  BY PromiseKept
<1> QED BY <1>1, <1>2, EngineInvariant, PTL DEF Spec, KeepsPinned, Pinned!Spec

(* Unless an operator gives release.lock a value it cannot write back, every   *)
(* outcome a run reports is true of the instance: what it says was not        *)
(* changed was not, and what it says runs, runs on every service.            *)
THEOREM OutcomesAreHonest == ASSUME ~ HandEdits PROVE Spec => HonestOutcomes
<1> DEFINE SafeInv == IInv /\ lock.safe
           AllHonest == \A p \in Runners : Ends(p) => Honest(p)
<1>1. Init => SafeInv
  <2>1. Init => lock.safe
    BY DEF Init
  <2> QED BY <2>1, InitInvariant
<1>2. ASSUME IInv, lock.safe, [Next]_engineVars PROVE lock'.safe
  <2>1. \A p \in Runners : Commit(p) => lock'.safe
    BY <1>2 DEF Commit, NewLock
  <2>2. \A p \in Runners : (BeginAny(p) \/ Step(p) \/ Crash(p)) /\ ~ Commit(p) => lock' = lock
    BY DEF BeginAny, Begin, Step, Refuse, NotConfirmed, Noop, Preflight, Backup, Pull, SkipMigration,
           MigrationGated, MigrationDone, MigrationFails, ComposeUp, HealthCheck, Undo,
           UndoHealth, CommitFails, CommitUnsafe, RollbackPreflight, RestartApproved, Restart,
           RestartHealth, Crash, Instance
  <2>3. ((\E m \in stray : StrayLands(m)) \/ ContainerRestarts \/ UNCHANGED engineVars) => lock' = lock
    BY DEF StrayLands, ContainerRestarts, engineVars
  <2>4. ~ EditLock
    BY DEF EditLock
  <2> QED BY <1>2, <2>1, <2>2, <2>3, <2>4 DEF Next
<1>3. ASSUME IInv, lock.safe, [Next]_engineVars, NEW p \in Runners, Ends(p) PROVE Honest(p)
  <2>0. TypeOK /\ HoldsFlock(p) /\ KnowsContainers(p) /\ CheckedTarget(p)
    BY <1>3 DEF IInv, RunInv
  <2>1. BeginAny(p) \/ Step(p) \/ Crash(p)
    BY <1>3, <2>0, OwnStep DEF Ends
  <2>2. ASSUME NEW pc \in Steps, Goto(p, pc) PROVE FALSE
    <3>1. job'[p] = [job[p] EXCEPT !.pc = pc] /\ job[p] \in Job
      BY <2>0, <2>2, Goes DEF TypeOK
    <3> QED BY <1>3, <2>2, <3>1 DEF Ends, Job, Steps
  <2>3. ASSUME NEW j \in Job, j.pc # "idle", Become(p, j) PROVE FALSE
    BY <1>3, <2>0, <2>3, JobMoves DEF Ends
  <2>4. ~ (Pull(p) \/ SkipMigration(p) \/ MigrationDone(p) \/ HealthCheck(p) \/ RestartApproved(p)
           \/ ComposeUp(p))
    BY <2>2 DEF Pull, SkipMigration, MigrationDone, HealthCheck, RestartApproved, ComposeUp, Steps
  <2>5. ~ (BeginAny(p) \/ Backup(p) \/ RollbackPreflight(p) \/ \E seen \in {db, Unknown} : Preflight(p, seen))
    <3>1. job[p] \in Job /\ job[p].pc # "idle"
      BY <1>3, <2>0 DEF TypeOK, Ends
    <3>2. ~ BeginAny(p)
      BY <3>1 DEF BeginAny, Begin, At
    <3>3. ~ Backup(p)
      <4>1. [job[p] EXCEPT !.pc = "pull", !.saved = BackupIsOn] \in Job
        BY <3>1, SettingsAreBoolean DEF Job, Steps
      <4>2. [job[p] EXCEPT !.pc = "pull", !.saved = BackupIsOn].pc # "idle"
        BY <3>1 DEF Job
      <4> QED BY <2>3, <4>1, <4>2 DEF Backup
    <3>4. ~ RollbackPreflight(p)
      <4> SUFFICES ASSUME RollbackPreflight(p) PROVE FALSE
        OBVIOUS
      <4>1. [job[p] EXCEPT !.pc = "pull", !.target = lock.previous] \in Job
        BY <2>0, <3>1 DEF Job, Steps, TypeOK, RollbackPreflight, RollbackPasses
      <4>2. [job[p] EXCEPT !.pc = "pull", !.target = lock.previous].pc # "idle"
        BY <3>1 DEF Job
      <4> QED BY <2>3, <4>1, <4>2 DEF RollbackPreflight
    <3>5. ASSUME NEW seen \in {db, Unknown}, Preflight(p, seen) PROVE FALSE
      <4>1. [job[p] EXCEPT !.pc = "backup", !.seen = seen] \in Job
        BY <2>0, <3>1 DEF Job, Steps, TypeOK
      <4>2. [job[p] EXCEPT !.pc = "backup", !.seen = seen].pc # "idle"
        BY <3>1 DEF Job
      <4> QED BY <2>3, <3>5, <4>1, <4>2 DEF Preflight
    <3> QED BY <3>2, <3>3, <3>4, <3>5
  <2>6. ASSUME Refuse(p) \/ NotConfirmed(p) \/ Noop(p) \/ MigrationGated(p) \/ MigrationFails(p)
        PROVE  Honest(p)
    <3>1. runs' = runs /\ lock' = lock /\ job[p].pc \in Quiet
      BY <2>6 DEF Refuse, NotConfirmed, Noop, MigrationGated, MigrationFails, At, Instance,
                  Containers, Quiet
    <3>2. said' \in {"refused", "not_confirmed", "noop", "needs_approval", "migration_failed"}
      BY <2>6 DEF Refuse, NotConfirmed, Noop, MigrationGated, MigrationFails, Finish
    <3> QED BY <2>0, <3>1, <3>2 DEF Honest, KnowsContainers
  <2>7. ASSUME CommitFails(p) \/ Undo(p) \/ Restart(p) \/ Crash(p) PROVE Honest(p)
    <3>1. said' \in {"error", "died", "rollback_failed"}
      BY <2>2, <2>7 DEF CommitFails, Undo, Restart, Crash, Finish, Steps
    <3> QED BY <3>1 DEF Honest
  <2>8. ASSUME UndoHealth(p) PROVE Honest(p)
    BY <2>0, <2>8 DEF UndoHealth, Honest, Finish, At, Instance, KnowsContainers, HoldsFlock
  <2>9. ASSUME RestartHealth(p) PROVE Honest(p)
    BY <2>0, <2>9 DEF RestartHealth, Honest, Finish, At, CheckedTarget, Restarting
  <2>10. ASSUME Commit(p) PROVE Honest(p)
    <3>1. said' = "succeeded" /\ runs' = runs /\ runs = On(job[p].target) /\ job[p].from = lock.current
      BY <2>0, <2>10 DEF Commit, Finish, At, Containers, KnowsContainers, HoldsFlock
    <3>2. lock'.current = job[p].target /\ lock'.previous = job[p].from
      BY <2>10 DEF Commit, NewLock
    <3> QED BY <3>1, <3>2 DEF Honest
  <2>11. ~ CommitUnsafe(p)
    BY <1>3 DEF CommitUnsafe
  <2> QED BY <2>1, <2>4, <2>5, <2>6, <2>7, <2>8, <2>9, <2>10, <2>11 DEF Step
<1>4. SafeInv /\ [Next]_engineVars => SafeInv'
  BY <1>2, StepInvariant
<1>5. SafeInv /\ [Next]_engineVars => [AllHonest]_engineVars
  BY <1>3
<1> QED BY <1>1, <1>4, <1>5, PTL DEF Spec, HonestOutcomes
=============================================================================
