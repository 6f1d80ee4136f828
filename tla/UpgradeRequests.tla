--------------------------- MODULE UpgradeRequests ---------------------------
(***************************************************************************)
(* The console half of a secure upgrade: the upgrade_requests table, the    *)
(* admin handlers of api/upgrades.py, the updater's handlers of             *)
(* api/updater_internal.py and the lease of services/upgrades.py.           *)
(*                                                                         *)
(* Every handler reads, decides, awaits, and then writes with one           *)
(* conditional UPDATE; other handlers run in between.  A handler is         *)
(* therefore two actions of a session: XCheck (what it reads and its early  *)
(* returns) and XWrite (the UPDATE and its rowcount).  The reads of one     *)
(* handler are one step: whatever interleaves between two of them commutes  *)
(* past one of the two.                                                     *)
(***************************************************************************)
EXTENDS Naturals, FiniteSets

CONSTANTS
  Users,          \* accounts that are, or may become, administrators
  NoUser,         \* a NULL approver or requester
  AdminSessions,  \* concurrent handlers of admin requests
  UpdaterSessions,\* concurrent handlers of updater calls
  Sweeper,        \* the Celery beat task's own database session
  RunOutcomes,    \* the outcome words the updater sends
  MaxRequests,    \* bound: rows ever inserted
  MaxReports      \* bound: reports of one row after which no step or heartbeat starts

ASSUME NoUserIsNoUser == NoUser \notin Users
ASSUME SessionsAreApart == /\ Sweeper \notin AdminSessions \cup UpdaterSessions
                           /\ AdminSessions \cap UpdaterSessions = {}
ASSUME WordsAreTheUpdaters ==
  RunOutcomes \cap {"none", "lease_expired", "marked_failed", "actor_not_admin"} = {}
ASSUME BoundsAreNat == MaxRequests \in Nat /\ MaxReports \in Nat

Ids == 1..MaxRequests
Actions == {"upgrade", "rollback", "restart"}

InFlight == {"claimed", "running"}
Cancellable == {"pending_approval", "approved"}
Active == Cancellable \cup InFlight
Terminal == {"succeeded", "failed", "rolled_back", "needs_approval", "cancelled", "refused"}

(* The status each outcome word earns; success has to be earned. *)
StatusForOutcome(word) ==
  CASE word \in {"succeeded", "noop"} -> "succeeded"
    [] word \in {"refused", "not_confirmed"} -> "refused"
    [] word \in {"needs_approval", "rolled_back"} -> word
    [] OTHER -> "failed"
ConsoleOutcomes == {"none", "lease_expired", "marked_failed", "actor_not_admin"}

Row == [ status   : {"absent"} \cup Active \cup Terminal,
         action   : Actions,
         by       : Users \cup {NoUser},          \* requested_by_id
         approver : Users \cup {NoUser},          \* approved_by_id
         due      : BOOLEAN,                      \* scheduled_for has passed
         report   : Nat,                          \* which last_report_at
         stale    : BOOLEAN,                      \* the lease since then ran out
         outcome  : ConsoleOutcomes \cup RunOutcomes ]

AbsentRow == [ status |-> "absent", action |-> "restart", by |-> NoUser, approver |-> NoUser,
               due |-> FALSE, report |-> 0, stale |-> FALSE, outcome |-> "none" ]

AdminOps == {"create", "approve", "cancel", "fail"}
ReportOps == {"step", "beat", "outcome"}
UpdaterOps == {"claim", "refuse"} \cup ReportOps
Answers == {"ok", "conflict"}                     \* 200 and 409

Session == [ op   : {"idle", "expire"} \cup AdminOps \cup UpdaterOps \cup Answers,
             id   : Ids \cup {0},
             user : Users \cup {NoUser},
             two  : BOOLEAN,                      \* the setting as this handler read it
             seen : Nat,                          \* the last_report_at it read
             action : Actions, due : BOOLEAN,
             outcome : {"none"} \cup RunOutcomes ]

IdleSession == [ op |-> "idle", id |-> 0, user |-> NoUser, two |-> TRUE, seen |-> 0,
                 action |-> "restart", due |-> FALSE, outcome |-> "none" ]

AllSessions == AdminSessions \cup UpdaterSessions \cup {Sweeper}

VARIABLES
  requests,    \* the upgrade_requests table
  sess,        \* what each handler is doing
  admins,      \* accounts that are active administrators
  twoPerson    \* updater_settings.require_two_person_approval

consoleVars == <<requests, sess, admins, twoPerson>>

(* Rows and sessions stay in their types; in particular a row's status is    *)
(* always one of the statuses services/upgrades.py knows.                    *)
TypeOK ==
  /\ requests \in [Ids -> Row]
  /\ sess \in [AllSessions -> Session]
  /\ admins \in SUBSET Users
  /\ twoPerson \in BOOLEAN

(* The setting defaults to on; the updater has checked in once. *)
Init ==
  /\ requests = [r \in Ids |-> AbsentRow]
  /\ sess = [s \in AllSessions |-> IdleSession]
  /\ admins = Users
  /\ twoPerson = TRUE

Idle(s) == sess[s].op = "idle"
Doing(s, op) == sess[s].op = op
Target(s) == requests[sess[s].id]
Open(s, call) == sess' = [sess EXCEPT ![s] = call]
Close(s) == sess' = [sess EXCEPT ![s] = IdleSession]
Answer(s, a) == sess' = [sess EXCEPT ![s] = [IdleSession EXCEPT !.op = a]]
Update(r, row) == requests' = [requests EXCEPT ![r] = row]
Settings == <<admins, twoPerson>>

(* The WHERE clauses that the conditional UPDATEs repeat. *)
StillInFlight(s) == Target(s).status \in InFlight

StillCancellableMutant(s) == Target(s).status \in Active
StillCancellable(s) == Target(s).status \in Cancellable

-----------------------------------------------------------------------------
(* POST /upgrade-requests.  The clash test and the setting are read, then    *)
(* the row is inserted: nothing re-checks the clash at the insert.           *)

ClashesMutant(row, act) == row.status \in InFlight \/ (row.status \in Active /\ act = row.action)
Clashes(row, act) ==
  \/ row.status \in InFlight
  \/ (row.status \in Active) /\ ((act = "restart") = (row.action = "restart"))

Unused == {r \in Ids : requests[r].status = "absent"}

CreateCheck(s, u, act, due) ==
  /\ Idle(s) /\ u \in admins
  /\ \A r \in Ids : ~ Clashes(requests[r], act)
  /\ Cardinality({t \in AllSessions : Doing(t, "create")}) < Cardinality(Unused)
  /\ Open(s, [IdleSession EXCEPT !.op = "create", !.user = u, !.two = twoPerson,
                                 !.action = act, !.due = due])
  /\ UNCHANGED <<requests, Settings>>

NeedsSecond(call) == call.two /\ call.action # "restart"

NewRow(call) ==
  [AbsentRow EXCEPT !.status = IF NeedsSecond(call) THEN "pending_approval" ELSE "approved",
                    !.action = call.action, !.by = call.user, !.due = call.due,
                    !.approver = IF NeedsSecond(call) THEN NoUser ELSE call.user]

CreateWrite(s) ==
  /\ Doing(s, "create")
  /\ \E r \in Unused :
       /\ \A q \in Unused : r <= q
       /\ Update(r, NewRow(sess[s]))
  /\ Close(s)
  /\ UNCHANGED Settings

-----------------------------------------------------------------------------
(* POST .../approve, .../cancel and .../fail.                                *)

ApprovalBlockMutant(u, r) == requests[r].status # "pending_approval"
ApprovalBlock(u, r) ==
  \/ requests[r].status # "pending_approval"
  \/ twoPerson /\ requests[r].by = u

ApproveCheck(s, u, r) ==
  /\ Idle(s) /\ u \in admins
  /\ ~ ApprovalBlock(u, r)
  /\ requests[r].by \in admins
  /\ Open(s, [IdleSession EXCEPT !.op = "approve", !.id = r, !.user = u, !.two = twoPerson])
  /\ UNCHANGED <<requests, Settings>>

ApproveWrite(s) ==
  /\ Doing(s, "approve")
  /\ IF Target(s).status = "pending_approval"
       THEN Update(sess[s].id, [Target(s) EXCEPT !.status = "approved", !.approver = sess[s].user])
       ELSE UNCHANGED requests
  /\ Close(s)
  /\ UNCHANGED Settings

CancelCheck(s, u, r) ==
  /\ Idle(s) /\ u \in admins
  /\ requests[r].status \in Cancellable
  /\ Open(s, [IdleSession EXCEPT !.op = "cancel", !.id = r, !.user = u])
  /\ UNCHANGED <<requests, Settings>>

CancelWrite(s) ==
  /\ Doing(s, "cancel")
  /\ IF StillCancellable(s)
       THEN Update(sess[s].id, [Target(s) EXCEPT !.status = "cancelled"])
       ELSE UNCHANGED requests
  /\ Close(s)
  /\ UNCHANGED Settings

FailCheck(s, u, r) ==
  /\ Idle(s) /\ u \in admins
  /\ requests[r].status \in InFlight
  /\ Open(s, [IdleSession EXCEPT !.op = "fail", !.id = r, !.user = u])
  /\ UNCHANGED <<requests, Settings>>

FailWrite(s) ==
  /\ Doing(s, "fail")
  /\ IF StillInFlight(s)
       THEN Update(sess[s].id, [Target(s) EXCEPT !.status = "failed", !.outcome = "marked_failed"])
       ELSE UNCHANGED requests
  /\ Close(s)
  /\ UNCHANGED Settings

-----------------------------------------------------------------------------
(* expire_stale: run by the beat task in its own session and by every read   *)
(* of the list.  The UPDATE asks for the same last_report_at it read.        *)

LeaseRanOutMutant(row) == row.status = "claimed" /\ row.stale
LeaseRanOut(row) == row.status \in InFlight /\ row.stale

ExpireCheck(s, r) ==
  /\ Idle(s)
  /\ LeaseRanOut(requests[r])
  /\ Open(s, [IdleSession EXCEPT !.op = "expire", !.id = r, !.seen = requests[r].report])
  /\ UNCHANGED <<requests, Settings>>

SameReportMutant(s) == TRUE
SameReport(s) == Target(s).report = sess[s].seen

Expired(row) == [row EXCEPT !.status = "failed", !.outcome = "lease_expired"]

ExpireWrite(s) ==
  /\ Doing(s, "expire")
  /\ IF StillInFlight(s) /\ SameReport(s)
       THEN Update(sess[s].id, Expired(Target(s)))
       ELSE UNCHANGED requests
  /\ Close(s)
  /\ UNCHANGED Settings

-----------------------------------------------------------------------------
(* The updater's calls: a handler that ends leaves its answer in the session *)
(* until the client takes it or has gone (HangUp).                           *)

ActorGone(row) == row.by \notin admins \/ row.approver \notin admins

(* What GET /requests lists. *)
Listed(r) == requests[r].status = "approved" /\ requests[r].due /\ ~ ActorGone(requests[r])

(* GET /requests on a row whose requester or approver is no longer an admin. *)
RefuseCheck(s, r) ==
  /\ Idle(s)
  /\ requests[r].status = "approved" /\ requests[r].due /\ ActorGone(requests[r])
  /\ Open(s, [IdleSession EXCEPT !.op = "refuse", !.id = r])
  /\ UNCHANGED <<requests, Settings>>

RefuseWrite(s) ==
  /\ Doing(s, "refuse")
  /\ IF Target(s).status = "approved"
       THEN Update(sess[s].id, [Target(s) EXCEPT !.status = "refused", !.outcome = "actor_not_admin"])
       ELSE UNCHANGED requests
  /\ Answer(s, "conflict")
  /\ UNCHANGED Settings

(* POST .../claim: the actors are checked only if the row reads approved. *)
ClaimCheckMutant(s, r) ==
  /\ Idle(s) /\ requests[r].status # "absent"
  /\ Open(s, [IdleSession EXCEPT !.id = r, !.op = "claim"])
  /\ UNCHANGED <<requests, Settings>>

ClaimCheck(s, r) ==
  /\ Idle(s) /\ requests[r].status # "absent"
  /\ Open(s, [IdleSession EXCEPT !.id = r, !.op =
                IF requests[r].status = "approved" /\ ActorGone(requests[r]) THEN "refuse" ELSE "claim"])
  /\ UNCHANGED <<requests, Settings>>

(* A report's time becomes last_report_at, and a new lease starts. *)
Renewed(row) == [row EXCEPT !.report = @ + 1, !.stale = FALSE]

ClaimWriteMutant(s) ==
  /\ Doing(s, "claim")
  /\ IF Target(s).status \in Active /\ Target(s).due
       THEN /\ Update(sess[s].id, [Renewed(Target(s)) EXCEPT !.status = "claimed"])
            /\ Answer(s, "ok")
       ELSE Answer(s, "conflict") /\ UNCHANGED requests
  /\ UNCHANGED Settings

ClaimWrite(s) ==
  /\ Doing(s, "claim")
  /\ IF Target(s).status = "approved" /\ Target(s).due
       THEN /\ Update(sess[s].id, [Renewed(Target(s)) EXCEPT !.status = "claimed"])
            /\ Answer(s, "ok")
       ELSE Answer(s, "conflict") /\ UNCHANGED requests
  /\ UNCHANGED Settings

(* POST .../steps, .../heartbeat, .../outcome: _in_flight first applies the  *)
(* lease to this row, then requires it to be in flight.                      *)
ReportCheck(s, op, r, out) ==
  /\ Idle(s) /\ requests[r].status # "absent"
  /\ LET row == requests[r]
         live == row.status \in InFlight /\ ~ LeaseRanOut(row)
     IN  /\ Open(s, [IdleSession EXCEPT !.op = IF live THEN op ELSE "conflict",
                                        !.id = r, !.outcome = out])
         /\ IF LeaseRanOut(row)
              THEN Update(r, Expired(row))
              ELSE UNCHANGED requests
  /\ UNCHANGED Settings

(* What _renew writes for each kind of report. *)
Reported(row, call) ==
  CASE call.op = "step" -> [Renewed(row) EXCEPT !.status = "running"]
    [] call.op = "beat" -> Renewed(row)
    [] call.op = "outcome" -> [Renewed(row) EXCEPT !.status = StatusForOutcome(call.outcome),
                                                   !.outcome = call.outcome]

ReportWrite(s) ==
  /\ sess[s].op \in ReportOps
  /\ IF StillInFlight(s)
       THEN Update(sess[s].id, Reported(Target(s), sess[s])) /\ Answer(s, "ok")
       ELSE Answer(s, "conflict") /\ UNCHANGED requests
  /\ UNCHANGED Settings

HangUp(s) ==
  /\ sess[s].op \in Answers
  /\ Close(s)
  /\ UNCHANGED <<requests, Settings>>

-----------------------------------------------------------------------------
(* Time, the settings, and the accounts.                                     *)

LeaseRunsOut(r) ==
  /\ requests[r].status \in InFlight /\ ~ requests[r].stale
  /\ Update(r, [requests[r] EXCEPT !.stale = TRUE])
  /\ UNCHANGED <<sess, Settings>>

ComesDue(r) ==
  /\ requests[r].status \in Cancellable /\ ~ requests[r].due
  /\ Update(r, [requests[r] EXCEPT !.due = TRUE])
  /\ UNCHANGED <<sess, Settings>>

(* PUT /upgrade-settings *)
UpdateSettings(on) ==
  /\ admins # {}
  /\ twoPerson' = on
  /\ UNCHANGED <<requests, sess, admins>>

(* PUT /users/{id}: a role or is_active change that makes or unmakes an admin. *)
UpdateUser(u) ==
  /\ admins' \in {admins \cup {u}, admins \ {u}}
  /\ UNCHANGED <<requests, sess, twoPerson>>

-----------------------------------------------------------------------------
AdminNext(s) ==
  \/ \E u \in Users, act \in Actions, due \in BOOLEAN : CreateCheck(s, u, act, due)
  \/ \E u \in Users, r \in Ids :
       ApproveCheck(s, u, r) \/ CancelCheck(s, u, r) \/ FailCheck(s, u, r)
  \/ CreateWrite(s) \/ ApproveWrite(s) \/ CancelWrite(s) \/ FailWrite(s)

(* Any holder of an updater token may call in any order. *)
UpdaterNext(s) ==
  \/ \E r \in Ids : RefuseCheck(s, r) \/ ClaimCheck(s, r)
  \/ \E r \in Ids, op \in {"step", "beat"} :
       requests[r].report < MaxReports /\ ReportCheck(s, op, r, "none")
  \/ \E r \in Ids, out \in RunOutcomes : ReportCheck(s, "outcome", r, out)

UpdaterWrites(s) == RefuseWrite(s) \/ ClaimWrite(s) \/ ReportWrite(s)

Environment ==
  \/ \E r \in Ids : LeaseRunsOut(r) \/ ComesDue(r)
  \/ \E on \in BOOLEAN : UpdateSettings(on)
  \/ \E u \in Users : UpdateUser(u)

Expiry(s) == (\E r \in Ids : ExpireCheck(s, r)) \/ ExpireWrite(s)

Next ==
  \/ \E s \in AdminSessions : AdminNext(s)
  \/ \E s \in UpdaterSessions : UpdaterNext(s) \/ UpdaterWrites(s) \/ HangUp(s)
  \/ \E s \in AllSessions : Expiry(s)
  \/ Environment

Spec == Init /\ [][Next]_consoleVars

(* Time passes, the beat task runs, and a handler that started finishes. *)
ConsoleFairness ==
  /\ \A r \in Ids : WF_consoleVars(LeaseRunsOut(r))
  /\ WF_consoleVars(Expiry(Sweeper))
  /\ \A s \in UpdaterSessions : WF_consoleVars(UpdaterWrites(s))

FairSpec == Spec /\ ConsoleFairness

-----------------------------------------------------------------------------
(* Properties                                                                *)

(* An upgrade or rollback that got past approval was approved by an admin    *)
(* other than the one who filed it.                                          *)
SecondPerson ==
  \A r \in Ids : LET row == requests[r] IN
    row.approver # NoUser /\ row.action # "restart" => row.approver # row.by

(* As long as two-person approval is never off, no create and no approve     *)
(* lets a change through on one admin (create, approval_block).              *)
TwoPersonHolds == ([]twoPerson) => []SecondPerson

(* A closed request keeps its whole row: no late report, cancel, mark-failed *)
(* or lease sweep that read it open writes over it (the conditional UPDATEs).*)
ClosedIsFinal ==
  [][\A r \in Ids : requests[r].status \in Terminal => requests'[r] = requests[r]]_consoleVars

(* The lease fails a request only while its updater is silent: a report that *)
(* lands between expire_stale's read and its UPDATE wins.                    *)
ExpiryNeedsSilence ==
  [][\A r \in Ids : requests'[r].outcome = "lease_expired" /\ requests[r].status \in InFlight
                       => requests[r].stale]_consoleVars

(* An approved request whose requester or approver was demoted, with no claim *)
(* past its actor check, is not started while they stay demoted.              *)
KeptOut(r) ==
  /\ requests[r].status = "approved" /\ ActorGone(requests[r])
  /\ \A s \in UpdaterSessions : Doing(s, "claim") => sess[s].id # r

DemotedNeverStarts ==
  [][\A r \in Ids : KeptOut(r) /\ ActorGone(requests[r])'
                     => KeptOut(r)' \/ requests'[r].status \in {"refused", "cancelled"}]_consoleVars

(* One change at a time: two open requests are a restart and something else. *)
OneChangeAtATime ==
  \A r, q \in Ids : r # q /\ requests[r].status \in Active /\ requests[q].status \in Active
                     => (requests[r].action = "restart") # (requests[q].action = "restart")

(* Every claimed or running request ends, whatever its updater does: the     *)
(* lease and the beat sweep see to it.                                       *)
TakenEnds == \A r \in Ids : requests[r].status \in InFlight ~> requests[r].status \in Terminal

(* The console keeps the promise of RequestLifecycle. *)
Phase(row) ==
  CASE row.status = "absent" -> "absent"
    [] row.status = "pending_approval" -> "waiting"
    [] row.status = "approved" -> "ready"
    [] row.status \in InFlight -> "taken"
    [] row.status = "cancelled" -> "dropped"
    [] row.status = "refused" /\ row.outcome = "actor_not_admin" -> "dropped"
    [] OTHER -> "finished"

Verdict(row) ==
  CASE Phase(row) # "finished" -> "none"
    [] Phase(row) = "finished" /\ row.status = "succeeded" -> "success"
    [] OTHER -> "failure"

Lifecycle == INSTANCE RequestLifecycle WITH
  Requests <- Ids,
  phase <- [r \in Ids |-> Phase(requests[r])],
  verdict <- [r \in Ids |-> Verdict(requests[r])]

KeepsLifecycle == Lifecycle!Spec
=============================================================================
