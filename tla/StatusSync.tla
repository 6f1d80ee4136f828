------------------------------ MODULE StatusSync ------------------------------
(***************************************************************************)
(* The status of one report in Pinpoint and at one vendor                  *)
(* (tasks/integrations.py, integrations/mapping.py, api/open311.py): the    *)
(* vendor's record is filed, staff change the status and queue a push,      *)
(* crews change it at the vendor, the poll reads it back, and failed pushes *)
(* wait in the backlog.                                                     *)
(*                                                                         *)
(* Pinpoint and the vendor share no transaction.  IntegrationLink           *)
(* .external_status, the baseline, is the word last sent or seen: a poll    *)
(* applies the vendor's word only where it differs from the baseline.       *)
(* A job reads its rows, awaits the vendor, and writes; SQLAlchemy writes   *)
(* a column only when its value differs from the one the session loaded.    *)
(***************************************************************************)
EXTENDS Naturals, FiniteSets

CONSTANTS
  Syncers,        \* Celery workers
  StaffDesk,      \* the API process that handles staff's updates
  Words,          \* the vendor's status words
  WordOut,        \* map_status_out: status -> word
  StatusIn,       \* map_status_in: word -> status
  NoWord,         \* NULL: the vendor said nothing
  NoLink,         \* the report has no IntegrationLink yet
  CarriesStatus,  \* the vendor's create call takes a status
  SyncRows,       \* bound: open push_status items at one time
  MaxStaff, MaxCrew, MaxSyncFaults  \* bounds: staff's and crews' changes, faults

Statuses == {"open", "in_progress", "closed"}
RankOf(s) == CASE s = "open" -> 0 [] s = "in_progress" -> 1 [] s = "closed" -> 2

ASSUME WordsAreMapped == WordOut \in [Statuses -> Words] /\ StatusIn \in [Words -> Statuses]
ASSUME NullsAreApart == NoWord \notin Words /\ NoLink \notin Words \cup {NoWord}
ASSUME DeskIsNoWorker == StaffDesk \notin Syncers
ASSUME RowsCanBeAdded == SyncRows # {}
ASSUME SyncBoundsAreNat == MaxStaff \in Nat /\ MaxCrew \in Nat /\ MaxSyncFaults \in Nat

VARIABLES
  status,      \* service_requests.status
  word,        \* the status of the vendor's record, NoWord before it is filed
  baseline,    \* IntegrationLink.external_status, NoLink without a link
  asked,       \* push_status tasks in the queue
  items,       \* open push_status rows of the backlog
  job,         \* what each worker, and the desk, is doing
  moves,       \* [staff, crew, faults]: changes and faults so far
  ours,        \* history: the vendor's word is one we sent
  crossed,     \* history: two jobs of this report overlapped
  dropped,     \* history: a kill, or a first sighting left alone, dropped a change
  loose        \* history: a word of ours reached the vendor and no baseline says so

syncVars == <<status, word, baseline, asked, items, job, moves, ours, crossed, dropped, loose>>

IdleJob == [op |-> "idle", at |-> "read", read |-> "open", base |-> NoWord, got |-> NoWord,
            mine |-> FALSE, found |-> {}]

Workforce == Syncers \cup {StaffDesk}
OpenRows == {r \in SyncRows : items[r] # "none"}
Linked == baseline # NoLink

(* Values stay in their types; a link exists only once the vendor's record does. *)
SyncTypeOK ==
  /\ status \in Statuses /\ word \in Words \cup {NoWord}
  /\ baseline \in Words \cup {NoWord, NoLink} /\ asked \in Nat
  /\ items \in [SyncRows -> {"none", "later", "due"}]
  /\ job \in [Workforce -> [op : {"idle", "file", "push", "pull", "note"},
                            at : {"read", "call", "link", "baseline", "record", "write"},
                            read : Statuses, base : Words \cup {NoWord}, got : Words \cup {NoWord},
                            mine : BOOLEAN, found : SUBSET SyncRows]]
  /\ moves \in [staff : 0..MaxStaff, crew : 0..MaxCrew, faults : 0..MaxSyncFaults]
  /\ ours \in BOOLEAN /\ crossed \in BOOLEAN /\ dropped \in BOOLEAN /\ loose \in BOOLEAN
  /\ Linked => word # NoWord

SyncInit ==
  /\ status = "open" /\ word = NoWord /\ baseline = NoLink /\ asked = 0
  /\ items = [r \in SyncRows |-> "none"]
  /\ job = [w \in Workforce |-> IdleJob]
  /\ moves = [staff |-> 0, crew |-> 0, faults |-> 0]
  /\ ours = FALSE /\ crossed = FALSE /\ dropped = FALSE /\ loose = FALSE

Is(w, op, at) == job[w].op = op /\ job[w].at = at
Resting(w) == job[w].op = "idle"
Proceed(w, at) == job' = [job EXCEPT ![w].at = at]
Done(w) == job' = [job EXCEPT ![w] = IdleJob]
Fault == moves.faults < MaxSyncFaults /\ moves' = [moves EXCEPT !.faults = @ + 1]
Beginning(w) == crossed' = (crossed \/ \E x \in Workforce \ {w} : ~Resting(x))

-----------------------------------------------------------------------------
(* Filing, as far as the status goes (ReportPush has the rest): the payload  *)
(* is built from the row, the vendor files it, the link takes the word the   *)
(* vendor answered with as its baseline.  Without CarriesStatus the vendor   *)
(* opens the record in its own first state whatever the payload says.        *)
FileRead(w) ==
  /\ Resting(w) /\ ~Linked /\ \A x \in Syncers : job[x].op # "file"
  /\ job' = [job EXCEPT ![w] = [IdleJob EXCEPT !.op = "file", !.at = "call", !.read = status]]
  /\ Beginning(w)
  /\ UNCHANGED <<status, word, baseline, asked, items, moves, ours, dropped, loose>>

FileCall(w) ==
  /\ Is(w, "file", "call")
  /\ word' = WordOut[IF CarriesStatus THEN job[w].read ELSE "open"]
  /\ \E answer \in {word', NoWord} :
       job' = [job EXCEPT ![w] = [@ EXCEPT !.at = "link", !.got = answer]]
  /\ ours' = TRUE
  /\ UNCHANGED <<status, baseline, asked, items, moves, dropped, loose, crossed>>

FileLink(w) ==
  /\ Is(w, "file", "link") /\ baseline' = job[w].got /\ Done(w)
  /\ loose' = (job[w].got = NoWord)
  /\ UNCHANGED <<status, word, asked, items, moves, ours, dropped, crossed>>

-----------------------------------------------------------------------------
(* update_request: the status is committed and a push queued; without a      *)
(* broker, record_unqueued_push writes a backlog row if the report is linked.*)
StaffSets(s) ==
  /\ s # status /\ moves.staff < MaxStaff /\ status' = s
  /\ \/ asked' = asked + 1 /\ moves' = [moves EXCEPT !.staff = @ + 1] /\ UNCHANGED <<job, crossed>>
     \/ /\ Resting(StaffDesk) /\ moves.faults < MaxSyncFaults
        /\ moves' = [moves EXCEPT !.staff = @ + 1, !.faults = @ + 1]
        /\ job' = IF Linked THEN [job EXCEPT ![StaffDesk] =
                                    [IdleJob EXCEPT !.op = "note", !.at = "record"]] ELSE job
        /\ Beginning(StaffDesk) /\ UNCHANGED asked
  /\ UNCHANGED <<word, baseline, items, ours, dropped, loose>>

(* The vendor's own people move the record.                                  *)
CrewSets(x) ==
  /\ Linked /\ x # word /\ moves.crew < MaxCrew
  /\ word' = x /\ moves' = [moves EXCEPT !.crew = @ + 1] /\ ours' = FALSE /\ loose' = FALSE
  /\ UNCHANGED <<status, baseline, asked, items, job, crossed, dropped>>

-----------------------------------------------------------------------------
(* push_status_to_integrations, for a queued task or the replay of a due     *)
(* row.  Without a link it does nothing at all.                              *)
StartPush(w) ==
  Beginning(w) /\
  IF Linked
  THEN job' = [job EXCEPT ![w] = [IdleJob EXCEPT !.op = "push", !.at = "call",
                                    !.read = status, !.base = baseline]]
  ELSE UNCHANGED job

PushRead(w) ==
  /\ Resting(w) /\ asked > 0 /\ asked' = asked - 1 /\ StartPush(w)
  /\ UNCHANGED <<status, word, baseline, items, moves, ours, dropped, loose>>

Replay(w) ==
  /\ Resting(w) /\ (\E r \in SyncRows : items[r] = "due") /\ StartPush(w)
  /\ UNCHANGED <<status, word, baseline, asked, items, moves, ours, dropped, loose>>

PushCall(w) ==
  /\ Is(w, "push", "call") /\ word' = WordOut[job[w].read] /\ ours' = TRUE
  /\ Proceed(w, "baseline")
  /\ UNCHANGED <<status, baseline, asked, items, moves, dropped, loose, crossed>>

PushRefused(w) ==
  /\ Is(w, "push", "call") /\ Fault /\ Proceed(w, "record")
  /\ UNCHANGED <<status, word, baseline, asked, items, ours, crossed, dropped, loose>>

PushAnswerLost(w) ==
  /\ Is(w, "push", "call") /\ Fault /\ Proceed(w, "record")
  /\ word' = WordOut[job[w].read] /\ ours' = TRUE /\ loose' = TRUE
  /\ UNCHANGED <<status, baseline, asked, items, dropped, crossed>>

(* What we sent becomes the baseline, and every open row is closed.          *)
NewBaselineMutant(loaded, value) == loaded
NewBaseline(loaded, value) == IF value = loaded THEN baseline ELSE value

PushDone(w) ==
  /\ Is(w, "push", "baseline")
  /\ baseline' = NewBaseline(job[w].base, WordOut[job[w].read])
  /\ items' = [r \in SyncRows |-> "none"] /\ Done(w) /\ loose' = FALSE
  /\ UNCHANGED <<status, word, asked, moves, ours, dropped, crossed>>

(* _record_dead_letter: one open row is scheduled again, none is inserted,   *)
(* and with more than one the failure is swallowed.  The unique constraint   *)
(* over (integration, operation, report, comment) never fires: a status push *)
(* has no comment, and NULLs are distinct.                                   *)
NoteRead(w) ==
  /\ job[w].op \in {"push", "note"} /\ job[w].at = "record"
  /\ job' = [job EXCEPT ![w] = [@ EXCEPT !.at = "write", !.found = OpenRows]]
  /\ UNCHANGED <<status, word, baseline, asked, items, moves, ours, crossed, dropped, loose>>

Scheduled(w, r) ==
  \/ job[w].found = {} /\ items[r] = "none"
  \/ job[w].found = {r} /\ items[r] # "none"

NoteWrite(w) ==
  /\ job[w].op \in {"push", "note"} /\ job[w].at = "write" /\ Done(w)
  /\ IF \E r \in SyncRows : Scheduled(w, r)
     THEN \E r \in SyncRows : Scheduled(w, r) /\ items' = [items EXCEPT ![r] = "later"]
     ELSE UNCHANGED items
  /\ UNCHANGED <<status, word, baseline, asked, moves, ours, crossed, dropped, loose>>

RowDue(r) ==
  /\ items[r] = "later" /\ items' = [items EXCEPT ![r] = "due"]
  /\ UNCHANGED <<status, word, baseline, asked, job, moves, ours, crossed, dropped, loose>>

-----------------------------------------------------------------------------
(* pull_integration_updates: every record is fetched first; then, one record *)
(* after another, the link and the report are read, and written at the end.  *)
PullFetch(w) ==
  /\ Resting(w) /\ word # NoWord
  /\ job' = [job EXCEPT ![w] = [IdleJob EXCEPT !.op = "pull", !.at = "read", !.got = word,
                                                !.mine = ours /\ ~loose]]
  /\ Beginning(w)
  /\ UNCHANGED <<status, word, baseline, asked, items, moves, ours, dropped, loose>>

PullRead(w) ==
  /\ Is(w, "pull", "read")
  /\ IF Linked THEN job' = [job EXCEPT ![w] = [@ EXCEPT !.at = "write", !.read = status, !.base = baseline]]
               ELSE Done(w)
  /\ UNCHANGED <<status, word, baseline, asked, items, moves, ours, dropped, loose, crossed>>

(* decide_inbound_status: the status to apply, the local one to apply none.  *)
InboundMutant(previous, current, local) == StatusIn[current]
Inbound(previous, current, local) ==
  LET inbound == StatusIn[current]
  IN  CASE previous = NoWord -> IF RankOf(inbound) > RankOf(local) THEN inbound ELSE local
        [] previous = current -> local
        [] OTHER -> IF StatusIn[previous] = inbound THEN local ELSE inbound

PullWrite(w) ==
  /\ Is(w, "pull", "write")
  /\ LET next == Inbound(job[w].base, job[w].got, job[w].read)
     IN  /\ status' = IF next = job[w].read THEN status ELSE next
         /\ dropped' = (dropped \/ (job[w].base = NoWord /\ next # StatusIn[job[w].got]))
  /\ baseline' = NewBaseline(job[w].base, job[w].got)
  /\ Done(w) /\ loose' = (loose /\ job[w].got # word)
  /\ UNCHANGED <<word, asked, items, moves, ours, crossed>>

-----------------------------------------------------------------------------
(* A worker is killed: whatever it had taken from the queue is gone.  A push *)
(* that had reached the vendor leaves a word no baseline names.              *)
KillJob(w) ==
  /\ ~Resting(w) /\ Fault /\ Done(w)
  /\ loose' = (loose \/ Is(w, "push", "baseline") \/ Is(w, "file", "link"))
  /\ dropped' = (dropped \/ job[w].op \in {"push", "note"})
  /\ UNCHANGED <<status, word, baseline, asked, items, ours, crossed>>

SyncNext ==
  \/ \E s \in Statuses : StaffSets(s)
  \/ \E x \in Words : CrewSets(x)
  \/ \E w \in Syncers : \/ FileRead(w) \/ FileCall(w) \/ FileLink(w)
                        \/ PushRead(w) \/ Replay(w) \/ PushCall(w) \/ PushRefused(w)
                        \/ PushAnswerLost(w) \/ PushDone(w)
                        \/ PullFetch(w) \/ PullRead(w) \/ PullWrite(w)
  \/ \E w \in Workforce : NoteRead(w) \/ NoteWrite(w) \/ KillJob(w)
  \/ \E r \in SyncRows : RowDue(r)

SyncSpec == SyncInit /\ [][SyncNext]_syncVars

-----------------------------------------------------------------------------
(* The two words mean the same to us.                                        *)
SameMeaning(w, s) == StatusIn[w] = StatusIn[WordOut[s]]

SyncQuiet ==
  /\ Linked /\ asked = 0 /\ OpenRows = {} /\ \A w \in Workforce : Resting(w)
  /\ baseline = word

(* When everything asked for was pushed and everything the vendor changed    *)
(* was pulled, the two sides mean the same, unless two jobs of this report   *)
(* overlapped or a worker was killed in a push: "a status the vendor never   *)
(* received leaves their record showing an open job the town closed weeks    *)
(* ago" (tasks/integrations.py:1068).                                        *)
QuietMeansAgreed == SyncQuiet /\ ~crossed /\ ~dropped => SameMeaning(word, status)

(* A poll changes a report's status to a word of our own only when jobs of   *)
(* the report overlapped, or that word had reached the vendor without its    *)
(* baseline being stored (an answer lost, a kill, a create answered without  *)
(* a status): the baseline is there so that "our own change is never read    *)
(* back as theirs" (tasks/integrations.py:1047).                             *)
OwnWordNotReadBack ==
  [][\A w \in Syncers : Is(w, "pull", "write") /\ Resting(w)' /\ status' # status
       => ~job[w].mine \/ crossed']_syncVars
=============================================================================
