------------------------------ MODULE PrioritySync ------------------------------
(***************************************************************************)
(* The priority of one report, here and on the vendor's work order          *)
(* (services/priority.py, api/open311.py, tasks/integrations.py).  The      *)
(* effective priority is the one staff set, else the AI's, else the         *)
(* default.  Triage writes the AI's; staff set theirs or accept the AI's;   *)
(* the first push files the report with the priority it read, a follow-up   *)
(* or a task sends what it became.  A handler and a task keep the row they  *)
(* loaded across their awaits (expire_on_commit=False).                     *)
(***************************************************************************)
EXTENDS Naturals, FiniteSets

CONSTANTS
  Raters,           \* staff handlers
  Senders,          \* Celery workers
  Scores,           \* priorities
  DefaultScore,     \* DEFAULT_PRIORITY
  NoScore,          \* None
  MaxRatings,       \* bound: staff handlers started
  MaxSendFaults     \* bound: refusals, lost answers, kills, failed enqueues

ASSUME DefaultIsAScore == DefaultScore \in Scores /\ NoScore \notin Scores
ASSUME RatingsAreNat == MaxRatings \in Nat /\ MaxSendFaults \in Nat

VARIABLES
  manual,      \* manual_priority_score
  suggested,   \* ai_analysis["priority_score"]
  judged,     \* analyze_request has run
  rater,       \* what each staff handler is doing
  ratings,
  waiting,     \* tasks in the queue: the first push, the sync after triage, priority pushes
  sender,      \* what each worker is doing
  joined,      \* the report's IntegrationLink is committed
  shown,       \* priority of the linked work order
  unsent,      \* the open backlog row of push_priority: "none", "later", "due"
  sendFaults,
  unpushed,    \* history: an override its handler took for no change, not yet at the vendor
  overtaken,     \* history: two sends overlapped, or one that landed closed the row of a newer priority
  skipped      \* history: a kill, or a follow-up that could not be queued

priorityVars == <<manual, suggested, judged, rater, ratings, waiting, sender, joined, shown,
                  unsent, sendFaults, unpushed, overtaken, skipped>>

MaybeScore == Scores \cup {NoScore}
IdleRater == [at |-> "idle", want |-> NoScore, saw |-> NoScore, old |-> NoScore]
IdleSender == [op |-> "idle", at |-> "wait", score |-> NoScore, again |-> FALSE, locked |-> FALSE,
               replay |-> FALSE]

(* effective_priority of a manual score and a suggestion.                    *)
Effective(staffs, ais) ==
  IF staffs # NoScore THEN staffs ELSE IF ais # NoScore THEN ais ELSE DefaultScore
PriorityNow == Effective(manual, suggested)

(* Values stay in their types; one worker at most is inside the report's     *)
(* lock.                                                                     *)
PriorityTypeOK ==
  /\ manual \in MaybeScore /\ suggested \in MaybeScore /\ shown \in MaybeScore
  /\ judged \in BOOLEAN /\ joined \in BOOLEAN
  /\ rater \in [Raters -> [at : {"idle", "update", "accept", "queue"}, want : MaybeScore,
                           saw : MaybeScore, old : MaybeScore]]
  /\ ratings \in 0..MaxRatings /\ sendFaults \in 0..MaxSendFaults
  /\ waiting \in [first : Nat, sync : Nat, push : Nat]
  /\ sender \in [Senders -> [op : {"idle", "first", "sync", "send"},
                             at : {"wait", "file", "follow", "read", "links", "call",
                                   "clear", "record"},
                             score : MaybeScore, again : BOOLEAN, locked : BOOLEAN, replay : BOOLEAN]]
  /\ Cardinality({w \in Senders : sender[w].locked}) <= 1
  /\ unsent \in {"none", "later", "due"}
  /\ unpushed \in BOOLEAN /\ overtaken \in BOOLEAN /\ skipped \in BOOLEAN

PriorityInit ==
  /\ manual = NoScore /\ suggested = NoScore /\ judged = FALSE /\ shown = NoScore
  /\ joined = FALSE
  /\ rater = [d \in Raters |-> IdleRater] /\ ratings = 0
  /\ waiting = [first |-> 1, sync |-> 0, push |-> 0]
  /\ sender = [w \in Senders |-> IdleSender] /\ unsent = "none" /\ sendFaults = 0
  /\ unpushed = FALSE /\ overtaken = FALSE /\ skipped = FALSE

SendFault == sendFaults < MaxSendFaults /\ sendFaults' = sendFaults + 1
IsAt(w, at) == sender[w].op # "idle" /\ sender[w].at = at
To(w, at) == sender' = [sender EXCEPT ![w].at = at]
Ends(w) == sender' = [sender EXCEPT ![w] = IdleSender]

-----------------------------------------------------------------------------
(* Triage writes what it found, if anything, over no one's; whether or not   *)
(* the AI ran, the sync is queued, and a failure of that is only logged.     *)
TriageEnds ==
  /\ ~judged /\ judged' = TRUE
  /\ suggested' \in MaybeScore
  /\ \/ waiting' = [waiting EXCEPT !.sync = @ + 1] /\ UNCHANGED <<sendFaults, skipped>>
     \/ SendFault /\ skipped' = TRUE /\ UNCHANGED waiting
  /\ UNCHANGED <<manual, rater, ratings, sender, joined, shown, unsent, unpushed, overtaken>>

-----------------------------------------------------------------------------
(* update_request_status with a priority, and accept_ai_priority: load; then *)
(* commit the column, if it differs from the one loaded; then queue a push,  *)
(* which an update does only when the priority it loaded was another.        *)
RaterLoads(d, score) ==
  /\ rater[d].at = "idle" /\ ratings < MaxRatings /\ ratings' = ratings + 1
  /\ rater' = [rater EXCEPT ![d] = [at |-> "update", want |-> score, saw |-> manual, old |-> PriorityNow]]
  /\ UNCHANGED <<manual, suggested, judged, waiting, sender, joined, shown, unsent, sendFaults,
                 unpushed, overtaken, skipped>>

RaterAccepts(d) ==
  /\ rater[d].at = "idle" /\ suggested # NoScore /\ ratings < MaxRatings /\ ratings' = ratings + 1
  /\ rater' = [rater EXCEPT ![d] = [at |-> "accept", want |-> suggested, saw |-> manual, old |-> PriorityNow]]
  /\ UNCHANGED <<manual, suggested, judged, waiting, sender, joined, shown, unsent, sendFaults,
                 unpushed, overtaken, skipped>>

PriorityChanged(d) == rater[d].want # rater[d].old

RaterCommits(d) ==
  /\ rater[d].at \in {"update", "accept"}
  /\ manual' = IF rater[d].want = rater[d].saw THEN manual ELSE rater[d].want
  /\ LET pushes == rater[d].at = "accept" \/ PriorityChanged(d)
     IN  /\ rater' = [rater EXCEPT ![d] = IF pushes THEN [@ EXCEPT !.at = "queue"] ELSE IdleRater]
         /\ unpushed' = (unpushed \/ (~pushes /\ LET now == Effective(manual', suggested)
                                                 IN  now # PriorityNow \/ (joined /\ now # shown)))
  /\ UNCHANGED <<suggested, judged, ratings, waiting, sender, joined, shown, unsent, sendFaults,
                 overtaken, skipped>>

(* A broker that cannot be reached costs a backlog row, for a linked report. *)
RaterQueues(d) ==
  /\ rater[d].at = "queue" /\ rater' = [rater EXCEPT ![d] = IdleRater]
  /\ \/ waiting' = [waiting EXCEPT !.push = @ + 1] /\ UNCHANGED <<unsent, sendFaults>>
     \/ SendFault /\ UNCHANGED waiting /\ unsent' = IF joined THEN "later" ELSE unsent
  /\ UNCHANGED <<manual, suggested, judged, ratings, sender, joined, shown, unpushed, overtaken, skipped>>

(* The API restarts between the commit and the enqueue.                      *)
RaterDies(d) ==
  /\ rater[d].at # "idle" /\ SendFault /\ rater' = [rater EXCEPT ![d] = IdleRater]
  /\ skipped' = (skipped \/ rater[d].at = "queue")
  /\ UNCHANGED <<manual, suggested, judged, ratings, waiting, sender, joined, shown, unsent,
                 unpushed, overtaken>>

-----------------------------------------------------------------------------
(* A worker takes a task, or replays the due row.  sync_after_triage looks   *)
(* at the links and at the row before its push.                              *)
NeedsUpdate == manual = NoScore /\ suggested # NoScore

TakeFirst(w) ==
  /\ sender[w].op = "idle" /\ waiting.first > 0 /\ waiting' = [waiting EXCEPT !.first = @ - 1]
  /\ sender' = [sender EXCEPT ![w] = [IdleSender EXCEPT !.op = "first"]]
  /\ UNCHANGED <<manual, suggested, judged, rater, ratings, joined, shown, unsent, sendFaults,
                 unpushed, overtaken, skipped>>

TakeSync(w) ==
  /\ sender[w].op = "idle" /\ waiting.sync > 0 /\ waiting' = [waiting EXCEPT !.sync = @ - 1]
  /\ sender' = [sender EXCEPT ![w] = [IdleSender EXCEPT !.op = "sync", !.again = joined /\ NeedsUpdate]]
  /\ UNCHANGED <<manual, suggested, judged, rater, ratings, joined, shown, unsent, sendFaults,
                 unpushed, overtaken, skipped>>

TakePush(w) ==
  /\ sender[w].op = "idle"
  /\ \/ waiting.push > 0 /\ waiting' = [waiting EXCEPT !.push = @ - 1]
     \/ unsent = "due" /\ UNCHANGED waiting
  /\ sender' = [sender EXCEPT ![w] = [IdleSender EXCEPT !.op = "send", !.at = "read",
                                                        !.replay = waiting' = waiting]]
  /\ UNCHANGED <<manual, suggested, judged, rater, ratings, joined, shown, unsent, sendFaults,
                 unpushed, overtaken, skipped>>

(* _push_new_request: under the report's lock, a report that is not linked   *)
(* is filed with the priority just read and its link committed; then the row *)
(* is read again and a priority that moved meanwhile is sent.                *)
FilingOver(w) ==
  sender' = [sender EXCEPT ![w] = IF @.again THEN [@ EXCEPT !.at = "read", !.locked = FALSE,
                                                             !.again = FALSE]
                                  ELSE IdleSender]

FileReads(w) ==
  /\ IsAt(w, "wait") /\ \A x \in Senders : ~sender[x].locked
  /\ IF joined THEN FilingOver(w)
     ELSE sender' = [sender EXCEPT ![w] = [@ EXCEPT !.at = "file", !.locked = TRUE, !.score = PriorityNow]]
  /\ UNCHANGED <<manual, suggested, judged, rater, ratings, waiting, joined, shown, unsent,
                 sendFaults, unpushed, overtaken, skipped>>

(* Refused, or the answer or the link's commit was lost: the backlog of      *)
(* pushes has it and files it again (ReportPush).                            *)
FileFails(w) ==
  /\ IsAt(w, "file") /\ SendFault /\ FilingOver(w)
  /\ waiting' = [waiting EXCEPT !.first = @ + 1]
  /\ UNCHANGED <<manual, suggested, judged, rater, ratings, joined, shown, unsent,
                 unpushed, overtaken, skipped>>

FileLinks(w) ==
  /\ IsAt(w, "file") /\ joined' = TRUE /\ shown' = sender[w].score /\ To(w, "follow")
  /\ overtaken' = (overtaken \/ \E x \in Senders : IsAt(x, "links"))
  /\ UNCHANGED <<manual, suggested, judged, rater, ratings, waiting, unsent, sendFaults,
                 unpushed, skipped>>

(* A worker has read the priority it sends, and is not done with it.         *)
InSend(w) == sender[w].at \in {"links", "call", "clear", "record"} /\ sender[w].op # "idle"

MovedSinceMutant(w) == FALSE
MovedSince(w) == PriorityNow # sender[w].score

FollowUpPriority(w) ==
  /\ IsAt(w, "follow")
  /\ IF MovedSince(w) THEN sender' = [sender EXCEPT ![w] = [@ EXCEPT !.at = "call", !.score = PriorityNow]]
     ELSE FilingOver(w)
  /\ overtaken' = (overtaken \/ (MovedSince(w) /\ \E x \in Senders \ {w} : InSend(x)))
  /\ UNCHANGED <<manual, suggested, judged, rater, ratings, waiting, joined, shown, unsent,
                 sendFaults, unpushed, skipped>>

-----------------------------------------------------------------------------
(* _push_priority: the row, then the links, then _send_priority.             *)
SendReads(w) ==
  /\ IsAt(w, "read")
  /\ sender' = [sender EXCEPT ![w] = [@ EXCEPT !.at = "links", !.score = PriorityNow]]
  /\ overtaken' = (overtaken \/ \E x \in Senders \ {w} : InSend(x))
  /\ UNCHANGED <<manual, suggested, judged, rater, ratings, waiting, joined, shown, unsent,
                 sendFaults, unpushed, skipped>>

SendLooks(w) ==
  /\ IsAt(w, "links") /\ IF joined THEN To(w, "call") ELSE Ends(w)
  /\ UNCHANGED <<manual, suggested, judged, rater, ratings, waiting, joined, shown, unsent,
                 sendFaults, unpushed, overtaken, skipped>>

SendCalls(w) ==
  /\ IsAt(w, "call") /\ shown' = sender[w].score /\ To(w, "clear")
  /\ overtaken' = (overtaken \/ \E x \in Senders \ {w} : InSend(x))
  /\ UNCHANGED <<manual, suggested, judged, rater, ratings, waiting, joined, unsent,
                 sendFaults, unpushed, skipped>>

SendFails(w) ==
  /\ IsAt(w, "call") /\ SendFault /\ To(w, "record")
  /\ shown' \in {shown, sender[w].score}
  /\ overtaken' = (overtaken \/ \E x \in Senders \ {w} : InSend(x))
  /\ UNCHANGED <<manual, suggested, judged, rater, ratings, waiting, joined, unsent,
                 unpushed, skipped>>

SendClears(w) ==
  /\ IsAt(w, "clear") /\ FilingOver(w) /\ unsent' = "none"
  /\ overtaken' = (overtaken \/ (unsent # "none" /\ sender[w].score # PriorityNow))
  /\ UNCHANGED <<manual, suggested, judged, rater, ratings, waiting, joined, shown, sendFaults,
                 unpushed, skipped>>

SendRecords(w) ==
  /\ IsAt(w, "record") /\ FilingOver(w) /\ unsent' = "later"
  /\ UNCHANGED <<manual, suggested, judged, rater, ratings, waiting, joined, shown, sendFaults,
                 unpushed, overtaken, skipped>>

UnsentDue ==
  /\ unsent = "later" /\ unsent' = "due"
  /\ UNCHANGED <<manual, suggested, judged, rater, ratings, waiting, sender, joined, shown,
                 sendFaults, unpushed, overtaken, skipped>>

SenderDies(w) ==
  /\ sender[w].op # "idle" /\ SendFault /\ Ends(w)
  /\ skipped' = (skipped \/ ~sender[w].replay)
  /\ UNCHANGED <<manual, suggested, judged, rater, ratings, waiting, joined, shown, unsent,
                 unpushed, overtaken>>

RaterNext(d) ==
  \/ \E score \in Scores : RaterLoads(d, score)
  \/ RaterAccepts(d) \/ RaterCommits(d) \/ RaterQueues(d) \/ RaterDies(d)

SenderNext(w) ==
  \/ TakeFirst(w) \/ TakeSync(w) \/ TakePush(w)
  \/ FileReads(w) \/ FileFails(w) \/ FileLinks(w) \/ FollowUpPriority(w)
  \/ SendReads(w) \/ SendLooks(w) \/ SendCalls(w) \/ SendFails(w) \/ SendClears(w)
  \/ SendRecords(w) \/ SenderDies(w)

PriorityNext ==
  \/ TriageEnds \/ UnsentDue
  \/ (\E d \in Raters : RaterNext(d)) \/ \E w \in Senders : SenderNext(w)

PrioritySpec == PriorityInit /\ [][PriorityNext]_priorityVars

-----------------------------------------------------------------------------
(* Nothing is queued, running or in the backlog.                             *)
PriorityQuiet ==
  /\ waiting = [first |-> 0, sync |-> 0, push |-> 0] /\ unsent = "none"
  /\ (\A w \in Senders : sender[w].op = "idle") /\ \A d \in Raters : rater[d].at = "idle"

(* "A vendor's work order disagreed with the sheet the crew held" must not   *)
(* come back: once all is quiet a linked work order shows the effective      *)
(* priority, whichever of triage, the first push, staff and the replay came  *)
(* first, unless two sends overlapped or a landed one closed the backlog row *)
(* of a newer priority, a kill or a lost follow-up took one,                 *)
(* or staff set what the report's priority was already, which sends nothing, *)
(* when the vendor had not been shown it (or another handler had moved it).  *)
CrewsSeeThePriority ==
  PriorityQuiet /\ joined => shown = PriorityNow \/ overtaken \/ skipped \/ unpushed

(* What sync_after_triage says: an override by staff "would already have     *)
(* been sent when staff set it", so it need not send one.                    *)
OverrideWasSent ==
  PriorityQuiet /\ joined /\ manual # NoScore /\ ~overtaken /\ ~skipped => shown = manual
=============================================================================
