------------------------------ MODULE ReportPush ------------------------------
(***************************************************************************)
(* How one report reaches the town's vendors (tasks/integrations.py,        *)
(* services/enqueue.py): the delayed push queued at intake, the push that   *)
(* follows triage, the backlog of failed pushes, the beat that replays it   *)
(* and the admin who retries or discards an item.                           *)
(*                                                                         *)
(* A process is a worker or the intake handler.  A worker takes a task,     *)
(* waits for the report's advisory lock, and goes over the vendors one by   *)
(* one; each call of a vendor, each commit and each read is a step.  A      *)
(* worker may be killed between any two steps (task_time_limit, OOM): the   *)
(* task was acknowledged when it was taken, so nothing runs it again.       *)
(***************************************************************************)
EXTENDS Naturals, FiniteSets

CONSTANTS
  Pushers,      \* Celery workers
  Intake,       \* the API handler that saved the report
  Nobody,       \* nobody holds the lock
  Vendors,      \* enabled integrations that take pushes
  BacklogIds,   \* bound: backlog rows of this report
  MaxTries,     \* MAX_DEAD_LETTER_ATTEMPTS
  MaxMishaps    \* bound: failures, lost answers and kills

ASSUME PushersAreWorkers == Intake \notin Pushers /\ Nobody \notin Pushers \cup {Intake}
ASSUME TriesAreNat == MaxTries \in Nat /\ MaxMishaps \in Nat
ASSUME RowsAreFinite == IsFiniteSet(BacklogIds)

Procs == Pushers \cup {Intake}
NoBacklogRow == [state |-> "free", vendor |-> Nobody, tries |-> 0, due |-> "never"]

VARIABLES
  report,     \* "new", "saved": the report's row is committed
  triaged,    \* analyze_request has finished and asked for sync_after_triage
  tasks,      \* push tasks in the queue, the delayed one included
  lockedBy,   \* holder of pg_advisory_lock
  filed,      \* records of this report each vendor holds
  linked,     \* vendors with a committed IntegrationLink
  backlog,    \* integration_dead_letters rows
  proc,       \* what each process is doing
  mishaps,    \* how many faults have happened
  unsure,     \* history: vendor effects that no link was committed for
  lost        \* history: work a kill, a failed backlog write or a discard dropped

pushVars == <<report, triaged, tasks, lockedBy, filed, linked, backlog, proc, mishaps, unsure, lost>>

IdleProc == [at |-> "idle", todo |-> {}, vendor |-> Nobody, found |-> {}, again |-> 0,
             beat |-> FALSE]

OpenItems(v) == {r \in BacklogIds : backlog[r].state = "open" /\ backlog[r].vendor = v}
DueItems == {r \in BacklogIds : backlog[r].state = "open" /\ backlog[r].due = "due"}

(* Values stay in their types; the lock is held by the one worker that is    *)
(* past waiting for it.                                                      *)
PushTypeOK ==
  /\ report \in {"new", "saved"} /\ triaged \in BOOLEAN /\ tasks \in 0..2
  /\ lockedBy \in Pushers \cup {Nobody}
  /\ filed \in [Vendors -> Nat] /\ unsure \in [Vendors -> Nat]
  /\ linked \subseteq Vendors /\ lost \subseteq Vendors
  /\ backlog \in [BacklogIds -> [state : {"free", "open", "closed"}, vendor : Vendors \cup {Nobody},
                                 tries : 0..MaxTries, due : {"due", "later", "never"}]]
  /\ proc \in [Procs -> [at : {"idle", "wait", "loop", "call", "link", "clear", "followup",
                               "record", "write"},
                         todo : SUBSET Vendors, vendor : Vendors \cup {Nobody},
                         found : SUBSET BacklogIds, again : 0..Cardinality(BacklogIds), beat : BOOLEAN]]
  /\ \A w \in Pushers : (lockedBy = w) = (proc[w].at \notin {"idle", "wait"})
  /\ mishaps \in 0..MaxMishaps

PushInit ==
  /\ report = "new" /\ triaged = FALSE /\ tasks = 0 /\ lockedBy = Nobody
  /\ filed = [v \in Vendors |-> 0] /\ linked = {} /\ unsure = [v \in Vendors |-> 0]
  /\ backlog = [r \in BacklogIds |-> NoBacklogRow]
  /\ proc = [p \in Procs |-> IdleProc]
  /\ mishaps = 0 /\ lost = {}

At(p, step) == proc[p].at = step
Move(p, step) == proc' = [proc EXCEPT ![p].at = step]
Mishap == mishaps < MaxMishaps /\ mishaps' = mishaps + 1
V(p) == proc[p].vendor

-----------------------------------------------------------------------------
(* Intake: the report is committed, then the delayed push is handed to the   *)
(* broker; a broker that cannot be reached means a backlog row per vendor.   *)
IntakeQueued ==
  /\ report = "new" /\ report' = "saved" /\ tasks' = tasks + 1
  /\ UNCHANGED <<triaged, lockedBy, filed, linked, backlog, proc, mishaps, unsure, lost>>

IntakeUnqueued ==
  /\ report = "new" /\ Mishap /\ report' = "saved"
  /\ \E v \in Vendors : proc' = [proc EXCEPT ![Intake] =
       [@ EXCEPT !.at = "record", !.vendor = v, !.todo = Vendors \ {v}]]
  /\ UNCHANGED <<triaged, tasks, lockedBy, filed, linked, backlog, unsure, lost>>

(* analyze_request queues sync_after_triage; a failed enqueue of that one     *)
(* is only logged.                                                           *)
TriageDone ==
  /\ report = "saved" /\ ~triaged /\ triaged' = TRUE
  /\ \/ tasks' = tasks + 1 /\ UNCHANGED mishaps
     \/ Mishap /\ UNCHANGED tasks
  /\ UNCHANGED <<report, lockedBy, filed, linked, backlog, proc, unsure, lost>>

-----------------------------------------------------------------------------
(* A worker takes a queued task, or runs the beat's replay: one push after   *)
(* another, once per item that was due when it looked.                       *)
TakeTask(w) ==
  /\ At(w, "idle") /\ tasks > 0 /\ tasks' = tasks - 1 /\ Move(w, "wait")
  /\ UNCHANGED <<report, triaged, lockedBy, filed, linked, backlog, mishaps, unsure, lost>>

ReplayDue(w) ==
  /\ At(w, "idle") /\ DueItems # {}
  /\ proc' = [proc EXCEPT ![w] = [@ EXCEPT !.at = "wait", !.again = Cardinality(DueItems) - 1, !.beat = TRUE]]
  /\ UNCHANGED <<report, triaged, tasks, lockedBy, filed, linked, backlog, mishaps, unsure, lost>>

LockFreeMutant(w) == TRUE
LockFree(w) == lockedBy = Nobody

TakeLock(w) ==
  /\ At(w, "wait") /\ LockFree(w) /\ lockedBy' = w
  /\ proc' = [proc EXCEPT ![w] = [@ EXCEPT !.at = "loop", !.todo = Vendors]]
  /\ UNCHANGED <<report, triaged, tasks, filed, linked, backlog, mishaps, unsure, lost>>

(* The next vendor: one the report is linked to only has its item closed.    *)
AfterLinkCheckMutant(v) == IF v \in linked THEN "loop" ELSE "call"
AfterLinkCheck(v) == IF v \in linked THEN "clear" ELSE "call"

NextVendor(w) ==
  /\ At(w, "loop")
  /\ \E v \in proc[w].todo : proc' = [proc EXCEPT ![w] =
       [@ EXCEPT !.at = AfterLinkCheck(v), !.vendor = v, !.todo = proc[w].todo \ {v}]]
  /\ UNCHANGED <<report, triaged, tasks, lockedBy, filed, linked, backlog, mishaps, unsure, lost>>

Unlock(w) ==
  /\ At(w, "loop") /\ proc[w].todo = {} /\ lockedBy' = Nobody
  /\ proc' = [proc EXCEPT ![w] =
       IF @.again > 0 THEN [IdleProc EXCEPT !.at = "wait", !.again = proc[w].again - 1, !.beat = TRUE]
       ELSE IdleProc]
  /\ UNCHANGED <<report, triaged, tasks, filed, linked, backlog, mishaps, unsure, lost>>

(* The vendor files it; refuses it, or the circuit does; or files it and the *)
(* answer is lost.                                                           *)
VendorFiles(w) ==
  /\ At(w, "call") /\ filed' = [filed EXCEPT ![V(w)] = @ + 1] /\ Move(w, "link")
  /\ UNCHANGED <<report, triaged, tasks, lockedBy, linked, backlog, mishaps, unsure, lost>>

VendorRefuses(w) ==
  /\ At(w, "call") /\ Mishap /\ Move(w, "record")
  /\ UNCHANGED <<report, triaged, tasks, lockedBy, filed, linked, backlog, unsure, lost>>

AnswerIsLost(w) ==
  /\ At(w, "call") /\ Mishap /\ Move(w, "record")
  /\ filed' = [filed EXCEPT ![V(w)] = @ + 1] /\ unsure' = [unsure EXCEPT ![V(w)] = @ + 1]
  /\ UNCHANGED <<report, triaged, tasks, lockedBy, linked, backlog, lost>>

(* The link is committed before anything else can fail.                      *)
LinkCommitted(w) ==
  /\ At(w, "link") /\ linked' = linked \cup {V(w)} /\ Move(w, "clear")
  /\ UNCHANGED <<report, triaged, tasks, lockedBy, filed, backlog, mishaps, unsure, lost>>

LinkFails(w) ==
  /\ At(w, "link") /\ Mishap /\ Move(w, "record") /\ unsure' = [unsure EXCEPT ![V(w)] = @ + 1]
  /\ UNCHANGED <<report, triaged, tasks, lockedBy, filed, linked, backlog, lost>>

(* _clear_dead_letter closes every open item of this report and vendor; a    *)
(* failure in it is swallowed.  Documents and a moved priority follow; an    *)
(* error there is recorded although the report is linked.                    *)
Closed(row) == [row EXCEPT !.state = "closed", !.due = "never"]
ClearItems(w) ==
  /\ At(w, "clear") /\ Move(w, "followup")
  /\ \/ backlog' = [r \in BacklogIds |-> IF r \in OpenItems(V(w)) THEN Closed(backlog[r]) ELSE backlog[r]]
        /\ UNCHANGED mishaps
     \/ Mishap /\ UNCHANGED backlog
  /\ UNCHANGED <<report, triaged, tasks, lockedBy, filed, linked, unsure, lost>>

FollowUp(w) ==
  /\ At(w, "followup")
  /\ \/ Move(w, "loop") /\ UNCHANGED mishaps
     \/ Mishap /\ Move(w, "record")
  /\ UNCHANGED <<report, triaged, tasks, lockedBy, filed, linked, backlog, unsure, lost>>

-----------------------------------------------------------------------------
(* _record_dead_letter: read the open item; then insert one or count another *)
(* failure on it.  More than one open item raises and is swallowed, like any *)
(* error of the database.                                                    *)
RecordRead(p) ==
  /\ At(p, "record")
  /\ proc' = [proc EXCEPT ![p] = [@ EXCEPT !.at = "write", !.found = OpenItems(V(p))]]
  /\ UNCHANGED <<report, triaged, tasks, lockedBy, filed, linked, backlog, mishaps, unsure, lost>>

DueAfter(tries) == IF tries >= MaxTries THEN "never" ELSE "later"
FailedAgainMutant(row) ==
  IF row.tries + 1 >= MaxTries THEN [row EXCEPT !.state = "closed", !.tries = MaxTries, !.due = "never"]
  ELSE [row EXCEPT !.tries = @ + 1, !.due = "later"]
FailedAgain(row) ==
  LET tries == IF row.tries < MaxTries THEN row.tries + 1 ELSE MaxTries
  IN  [row EXCEPT !.tries = tries, !.due = DueAfter(tries)]
FreshRow(v) == FailedAgain([NoBacklogRow EXCEPT !.state = "open", !.vendor = v])

(* After the backlog a worker goes on with its loop, intake with its vendors.*)
Recorded(p) ==
  IF p \in Pushers THEN Move(p, "loop")
  ELSE proc' = [proc EXCEPT ![p] = IF @.todo = {} THEN IdleProc
                                   ELSE LET v == CHOOSE x \in proc[p].todo : TRUE
                                        IN  [@ EXCEPT !.at = "record", !.vendor = v,
                                                       !.todo = proc[p].todo \ {v}]]

RecordWrite(p) ==
  /\ At(p, "write") /\ Recorded(p)
  /\ \/ /\ proc[p].found = {}
        /\ \E r \in BacklogIds : /\ backlog[r].state = "free"
                                 /\ backlog' = [backlog EXCEPT ![r] = FreshRow(V(p))]
        /\ UNCHANGED <<mishaps, lost>>
     \/ /\ \E r \in proc[p].found : /\ proc[p].found = {r}
                                    /\ backlog' = [backlog EXCEPT ![r] = FailedAgain(@)]
        /\ UNCHANGED <<mishaps, lost>>
     \/ /\ Cardinality(proc[p].found) > 1 /\ UNCHANGED <<backlog, mishaps, lost>>
     \/ /\ Mishap /\ lost' = lost \cup {V(p)} /\ UNCHANGED backlog
  /\ UNCHANGED <<report, triaged, tasks, lockedBy, filed, linked, unsure>>

-----------------------------------------------------------------------------
(* The backoff of an item runs out; an admin asks for it now, or discards it.*)
ComesDueAgain(r) ==
  /\ backlog[r].state = "open" /\ backlog[r].due = "later"
  /\ backlog' = [backlog EXCEPT ![r].due = "due"]
  /\ UNCHANGED <<report, triaged, tasks, lockedBy, filed, linked, proc, mishaps, unsure, lost>>

RetryItem(r) ==
  /\ backlog[r].state = "open" /\ backlog[r].due # "due"
  /\ backlog' = [backlog EXCEPT ![r].due = "due"]
  /\ UNCHANGED <<report, triaged, tasks, lockedBy, filed, linked, proc, mishaps, unsure, lost>>

DiscardItem(r) ==
  /\ backlog[r].state = "open" /\ Mishap
  /\ backlog' = [backlog EXCEPT ![r] = Closed(@)] /\ lost' = lost \cup {backlog[r].vendor}
  /\ UNCHANGED <<report, triaged, tasks, lockedBy, filed, linked, proc, unsure>>

(* A worker is killed, or the API process restarts: the session closes, the  *)
(* advisory lock with it, and the rest of its work is not done.  A replay's  *)
(* items are still open and due; a queued task's work is nowhere.            *)
Kill(p) ==
  /\ ~At(p, "idle") /\ Mishap
  /\ proc' = [proc EXCEPT ![p] = IdleProc]
  /\ lockedBy' = IF lockedBy = p THEN Nobody ELSE lockedBy
  /\ unsure' = IF At(p, "link") THEN [unsure EXCEPT ![V(p)] = @ + 1] ELSE unsure
  /\ lost' = IF proc[p].beat THEN lost ELSE Vendors
  /\ UNCHANGED <<report, triaged, tasks, filed, linked, backlog>>

Pushing(w) ==
  \/ TakeTask(w) \/ ReplayDue(w) \/ TakeLock(w) \/ NextVendor(w) \/ Unlock(w)
  \/ VendorFiles(w) \/ LinkCommitted(w) \/ ClearItems(w) \/ FollowUp(w)
Recording(p) == RecordRead(p) \/ RecordWrite(p)
Failing(w) == VendorRefuses(w) \/ AnswerIsLost(w) \/ LinkFails(w)

PushNext ==
  \/ IntakeQueued \/ IntakeUnqueued \/ TriageDone
  \/ \E w \in Pushers : Pushing(w) \/ Failing(w)
  \/ \E p \in Procs : Recording(p) \/ Kill(p)
  \/ \E r \in BacklogIds : ComesDueAgain(r) \/ RetryItem(r) \/ DiscardItem(r)

PushSpec == PushInit /\ [][PushNext]_pushVars

(* Workers that are up go on, calls end (the transport has its timeouts), a  *)
(* backoff runs out and the beat comes round.  A step that never changes     *)
(* what is stored is not assumed fair, and neither is any failure.           *)
PushFairness ==
  /\ \A w \in Pushers : WF_pushVars(Pushing(w))
  /\ \A p \in Procs : WF_pushVars(Recording(p))
  /\ \A r \in BacklogIds : WF_pushVars(ComesDueAgain(r))

-----------------------------------------------------------------------------
(* _push_new_request: a vendor holds more than one record of a report only   *)
(* by as many as it filed without a link being committed for it (an answer   *)
(* lost, a kill or a failed commit between the two).  Two triggers, replays  *)
(* and admins never file a second one by themselves.                         *)
FiledOnce == \A v \in Vendors : filed[v] <= 1 + unsure[v]

(* Once nothing is queued or running, every vendor a saved report was owed   *)
(* to has it, or an open backlog item says so, unless a kill, a failed       *)
(* backlog write or an admin's discard took it: that a broker outage and a   *)
(* vendor outage leave a trace is what the backlog is for.                   *)
NothingOwedSilently ==
  report = "saved" /\ tasks = 0 /\ (\A p \in Procs : At(p, "idle"))
    => \A v \in Vendors : v \in linked \/ OpenItems(v) # {} \/ v \in lost

(* Nobody is told for ever that a report did not arrive when it did: an open *)
(* item of a linked vendor is closed by the replay that finds the link, or   *)
(* is out of automatic attempts and waits for a person.                      *)
DeliveredLeavesBacklog ==
  \A v \in Vendors :
    (v \in linked /\ OpenItems(v) # {})
      ~> (OpenItems(v) = {} \/ \A r \in OpenItems(v) : backlog[r].due = "never")
=============================================================================
