------------------------------- MODULE Retention -------------------------------
(***************************************************************************)
(* The retention run (tasks/service_requests.py enforce_retention_policy,   *)
(* services/retention_service.py) against the holds that are to stop it.    *)
(* A run reads the town's settings once, then batches of expired records,   *)
(* and archives one record after another: photo files first, words and the  *)
(* archival mark in one commit.  The nightly run and an admin's "run now"   *)
(* may overlap, staff place and lift holds and reopen reports meanwhile,    *)
(* and a run may fail on a record or be killed at its time limit.           *)
(*                                                                         *)
(* SessionLocal has expire_on_commit=False, so a record of a batch keeps    *)
(* the values the batch's query loaded: the SELECT by id in archive_record  *)
(* returns the object of the session's identity map as it is.               *)
(***************************************************************************)
EXTENDS Naturals, FiniteSets

CONSTANTS
  Records,       \* reports
  Runs,          \* retention runs that may be going on at once
  BatchSize,     \* BATCH_SIZE
  MaxRuns, MaxHolds, MaxRunFaults  \* bounds: runs, changes by staff, failures and kills

ASSUME BatchIsPositive == BatchSize \in Nat \ {0}
ASSUME RetentionBoundsAreNat == MaxRuns \in Nat /\ MaxHolds \in Nat /\ MaxRunFaults \in Nat

VARIABLES
  dossier,    \* service_requests, with the photos on disk
  townHold,   \* system_settings.legal_hold
  run,        \* what each run is doing
  used,       \* [runs, holds, faults] so far
  safe,       \* history: held since before any run's query could load it
  frozen      \* history: the town's hold was placed while no run was going on

retentionVars == <<dossier, townHold, run, used, safe, frozen>>

NoRun == [at |-> "none", left |-> {}, now |-> {}, acted |-> FALSE, broken |-> FALSE, heldNow |-> FALSE]

Dossiers == [status : {"open", "expired"}, hold : BOOLEAN, words : BOOLEAN, photos : BOOLEAN,
             archived : BOOLEAN]
RunStates == [at : {"none", "query", "batch", "photos", "commit"}, left : SUBSET Records,
              now : SUBSET Records, acted : BOOLEAN, broken : BOOLEAN, heldNow : BOOLEAN]

(* Values stay in their types.                                               *)
RetentionTypeOK ==
  /\ dossier \in [Records -> Dossiers] /\ run \in [Runs -> RunStates]
  /\ used \in [runs : 0..MaxRuns, holds : 0..MaxHolds, faults : 0..MaxRunFaults]
  /\ townHold \in BOOLEAN /\ frozen \in BOOLEAN /\ safe \subseteq Records

RetentionInit ==
  /\ dossier \in [Records -> [status : {"open", "expired"}, hold : {FALSE}, words : {TRUE},
                              photos : {TRUE}, archived : {FALSE}]]
  /\ townHold = FALSE /\ run = [w \in Runs |-> NoRun]
  /\ used = [runs |-> 0, holds |-> 0, faults |-> 0] /\ safe = {} /\ frozen = FALSE

RunAt(w, at) == run[w].at = at
InHand(r) == \E w \in Runs : r \in run[w].left \cup run[w].now

-----------------------------------------------------------------------------
(* The hold of the whole town and the configuration are read here, and never *)
(* again.                                                                    *)
StartRun(w) ==
  /\ RunAt(w, "none") /\ used.runs < MaxRuns /\ ~townHold
  /\ used' = [used EXCEPT !.runs = @ + 1]
  /\ run' = [run EXCEPT ![w] = [NoRun EXCEPT !.at = "query"]]
  /\ UNCHANGED <<dossier, townHold, safe, frozen>>

EligibleMutant(r) == dossier[r].status = "expired" /\ ~dossier[r].archived
Eligible(r) == dossier[r].status = "expired" /\ ~dossier[r].archived /\ ~dossier[r].hold

(* get_records_for_archival: BATCH_SIZE records, in no stated order.         *)
QueryBatch(w) ==
  /\ RunAt(w, "query")
  /\ LET due == {r \in Records : Eligible(r)}
     IN  IF due = {} THEN run' = [run EXCEPT ![w] = NoRun]
         ELSE \E batch \in SUBSET due :
                /\ Cardinality(batch) = BatchSize \/ (batch = due /\ Cardinality(due) < BatchSize)
                /\ run' = [run EXCEPT ![w] = [NoRun EXCEPT !.at = "batch", !.left = batch]]
  /\ UNCHANGED <<dossier, townHold, used, safe, frozen>>

(* archive_record, up to the files: every record of a batch was without a    *)
(* hold when it was loaded, so the test of record.legal_hold passes.  Once   *)
(* the session has failed, every later record fails at its SELECT.           *)
TakeRecord(w, r) ==
  /\ RunAt(w, "batch") /\ r \in run[w].left /\ ~run[w].broken
  /\ run' = [run EXCEPT ![w] = [run[w] EXCEPT !.at = "photos", !.left = @ \ {r},
                                              !.now = {r}, !.heldNow = dossier[r].hold]]
  /\ UNCHANGED <<dossier, townHold, used, safe, frozen>>

(* delete_upload_files: before anything is committed, and not to be undone.  *)
DeletePhotos(w) ==
  /\ RunAt(w, "photos") /\ run' = [run EXCEPT ![w].at = "commit"]
  /\ dossier' = [r \in Records |-> IF r \in run[w].now THEN [dossier[r] EXCEPT !.photos = FALSE]
                                   ELSE dossier[r]]
  /\ UNCHANGED <<townHold, used, safe, frozen>>

(* The row, its comments, the copies in other rows, the cached translations, *)
(* archived_at and the timeline entry: one commit.                           *)
CommitArchival(w) ==
  /\ RunAt(w, "commit")
  /\ run' = [run EXCEPT ![w] = [@ EXCEPT !.at = "batch", !.now = {}, !.acted = TRUE, !.heldNow = FALSE]]
  /\ dossier' = [r \in Records |-> IF r \in run[w].now
                                   THEN [dossier[r] EXCEPT !.words = FALSE, !.archived = TRUE]
                                   ELSE dossier[r]]
  /\ UNCHANGED <<townHold, used, safe, frozen>>

(* Any statement raises; the loop goes on, without a rollback.               *)
RecordFails(w) ==
  /\ run[w].now # {} /\ used.faults < MaxRunFaults
  /\ used' = [used EXCEPT !.faults = @ + 1]
  /\ run' = [run EXCEPT ![w] = [@ EXCEPT !.at = "batch", !.now = {}, !.broken = TRUE, !.heldNow = FALSE]]
  /\ UNCHANGED <<dossier, townHold, safe, frozen>>

(* A batch of which nothing was archived ends the run; so does the next      *)
(* query of a failed session.                                                *)
EndBatch(w) ==
  /\ RunAt(w, "batch") /\ (run[w].left = {} \/ run[w].broken)
  /\ run' = [run EXCEPT ![w] = IF run[w].acted /\ ~run[w].broken
                               THEN [NoRun EXCEPT !.at = "query"] ELSE NoRun]
  /\ UNCHANGED <<dossier, townHold, used, safe, frozen>>

KillRun(w) ==
  /\ ~RunAt(w, "none") /\ used.faults < MaxRunFaults
  /\ used' = [used EXCEPT !.faults = @ + 1] /\ run' = [run EXCEPT ![w] = NoRun]
  /\ UNCHANGED <<dossier, townHold, safe, frozen>>

-----------------------------------------------------------------------------
ByStaff == used.holds < MaxHolds /\ used' = [used EXCEPT !.holds = @ + 1]

PlaceHold(r) ==
  /\ ByStaff /\ ~dossier[r].hold /\ dossier' = [dossier EXCEPT ![r].hold = TRUE]
  /\ safe' = IF dossier[r].words /\ dossier[r].photos /\ ~InHand(r) THEN safe \cup {r} ELSE safe
  /\ UNCHANGED <<townHold, run, frozen>>

LiftHold(r) ==
  /\ ByStaff /\ dossier[r].hold /\ dossier' = [dossier EXCEPT ![r].hold = FALSE]
  /\ safe' = safe \ {r} /\ UNCHANGED <<townHold, run, frozen>>

SetTownHold ==
  /\ ByStaff /\ townHold' = ~townHold
  /\ frozen' = (townHold' /\ \A w \in Runs : RunAt(w, "none"))
  /\ UNCHANGED <<dossier, run, safe>>

(* A report is closed long enough, or is reopened.                           *)
MoveReport(r) ==
  /\ ByStaff /\ dossier' = [dossier EXCEPT ![r].status = IF @ = "open" THEN "expired" ELSE "open"]
  /\ UNCHANGED <<townHold, run, safe, frozen>>

RunStep(w) ==
  \/ StartRun(w) \/ QueryBatch(w) \/ DeletePhotos(w) \/ CommitArchival(w)
  \/ RecordFails(w) \/ EndBatch(w) \/ KillRun(w)
  \/ \E r \in Records : TakeRecord(w, r)

RetentionNext ==
  \/ \E w \in Runs : RunStep(w)
  \/ \E r \in Records : PlaceHold(r) \/ LiftHold(r) \/ MoveReport(r)
  \/ SetTownHold

RetentionSpec == RetentionInit /\ [][RetentionNext]_retentionVars

-----------------------------------------------------------------------------
(* A record put under a hold before a run loaded it keeps its words and its  *)
(* photos until the hold is lifted, through failed, killed and overlapping   *)
(* runs; and a hold of the whole town placed between runs stops the next.    *)
HoldKeepsTheRecord ==
  /\ \A r \in safe : dossier[r].hold /\ dossier[r].words /\ dossier[r].photos
  /\ frozen => \A w \in Runs : RunAt(w, "none")

(* What the run says of itself: "Respects legal holds (flagged records are   *)
(* never archived)".  A record on which a hold had been committed before     *)
(* archive_record turned to it is not archived.                              *)
HeldIsNeverArchived ==
  [][\A w \in Runs : RunAt(w, "commit") /\ run[w].heldNow
       => \A r \in run[w].now : dossier'[r].archived => dossier[r].archived]_retentionVars
=============================================================================
